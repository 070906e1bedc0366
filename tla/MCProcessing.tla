---------------------------- MODULE MCProcessing ----------------------------
(***************************************************************************)
(* Processing with three domains of one keyword or none, and few texts.    *)
(***************************************************************************)
EXTENDS Processing

SmallLower == [c \in Chars |-> c]

SmallStopwords == {<<"b", "b">>}

(* 10000 ln n, rounded, for n to 65. *)
SmallLn == <<0, 6931, 10986, 13863, 16094, 17918, 19459, 20794, 21972, 23026,
             23979, 24849, 25649, 26391, 27081, 27726, 28332, 28904, 29444,
             29957, 30445, 30910, 31355, 31781, 32189, 32581, 32958, 33322,
             33673, 34012, 34340, 34657, 34965, 35264, 35553, 35835, 36109,
             36376, 36636, 36889, 37136, 37377, 37612, 37842, 38067, 38286,
             38501, 38712, 38918, 39120, 39318, 39512, 39703, 39890, 40073,
             40254, 40431, 40604, 40775, 40943, 41109, 41271, 41431, 41589,
             41744>>

SmallDomains == <<"Sport", "Politica", "Tehnologie">>

ab == <<"a", "b">>
ba == <<"b", "a">>
aba == <<"a", "b", "a">>
AbBa == ab \o <<" ">> \o ba
Unseen == <<"b", "a", "b", " ", "a", "a", " ", "b", "b">>
NoWord == <<".">>

SmallKeywords ==
  [d \in ToSet(SmallDomains) |->
     CASE d = "Sport" -> {ab} [] d = "Politica" -> {ba} [] d = "Tehnologie" -> {}]

(* As in server.c, half of the initial texts are of the last domain. *)
SmallTraining ==
  <<[text |-> ab, domain |-> "Sport"], [text |-> ba, domain |-> "Politica"],
    [text |-> aba, domain |-> "Tehnologie"], [text |-> aba, domain |-> "Tehnologie"]>>

SmallRequests ==
  [type : {"determine_topic"}, text : {ab, ba, aba, AbBa, Unseen, NoWord}]
    \union [type : {"generate_summary"},
            text : {ab, ab \o <<".">> \o ba \o <<".">> \o aba \o <<".">> \o ab \o <<".">>}]
    \union [type : {"count_words", "unknown"}, text : {AbBa}]

SmallCollections == UNION {[1 .. n -> {r.text : r \in SmallRequests}] : n \in 1 .. MaxRequests}
=============================================================================
