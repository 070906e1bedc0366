----------------------------- MODULE Processing -----------------------------
(***************************************************************************)
(* The processing thread of server.c: for each request that it dequeues,   *)
(* the text joins the collection of documents, the function that the       *)
(* request names runs, and the response is sent.  Composed of Classifier   *)
(* and Summary, whose variables are those of the call of generate_summary; *)
(* the queue and the sending are in RequestQueue, Server and Wire.         *)
(***************************************************************************)
EXTENDS Classifier, Summary

CONSTANTS
  Requests,         \* the requests that clients make: [type, text]
  InitialTraining,  \* the texts that the thread trains with first: [text, domain]
  NoRequest,        \* request while the thread is in dequeue
  MaxTokens,        \* the most tokens of a text, which MAX_TEXT_SIZE limits
  MaxRequests       \* bound: the requests made

Types == {"count_words", "determine_topic", "generate_summary", "unknown"}

ASSUME ProcessingAssumption ==
  /\ Requests \subseteq [type : Types, text : Seq(Chars)]
  /\ InitialTraining \in Seq([text : Seq(Chars), domain : ToSet(Domains)])
  /\ ToSet(Domains) \subseteq {t.domain : t \in ToSet(InitialTraining)}
  /\ \A t \in ToSet(InitialTraining) : DOMAIN tokenize_text(t.text) # {}
  /\ NoRequest \notin Requests
  /\ MaxRequests \in Nat /\ MaxTokens \in Nat
  /\ \A text \in {t.text : t \in ToSet(InitialTraining) \union Requests} :
       Total(tokenize_text(text)) <= MaxTokens
  /\ 1 .. 2 * MaxTokens * (Len(InitialTraining) + MaxRequests) + 1 \subseteq DOMAIN Ln
  /\ MAX_SENTENCES = 3  \* as the thread asks of generate_summary
  /\ \A n \in 1 .. MaxRequests : [1 .. n -> {r.text : r \in Requests}] \subseteq Collections

VARIABLES
  trained,     \* how many of the initial texts the classifier was trained with
  request,     \* the request being processed
  classifier,
  responses    \* what was sent, in order, each with its request

callVars == <<sentences, selected, i, j, phase>>
vars == <<trained, request, documents, classifier, callVars, responses>>

Init ==
  /\ trained = 0
  /\ request = NoRequest
  /\ documents = <<>>
  /\ classifier = init_bayes_classifier
  /\ sentences = <<>> /\ selected = <<>>
  /\ i = 1 /\ j = 2
  /\ phase = "split"
  /\ responses = <<>>

Train ==
  /\ trained < Len(InitialTraining)
  /\ trained' = trained + 1
  /\ LET t == InitialTraining[trained'] IN
       classifier' = train_bayes_classifier(classifier, t.text, t.domain)
  /\ UNCHANGED <<request, documents, callVars, responses>>

(* Variants named ...Bug hold a plausible mistake each, see RequestQueue.    *)
DequeueBug ==  \* document_count is not increased: the last document is replaced
  /\ trained = Len(InitialTraining) /\ request = NoRequest
  /\ Len(responses) < MaxRequests
  /\ \E r \in Requests : request' = r /\ documents' = <<r.text>>
  /\ UNCHANGED <<trained, classifier, callVars, responses>>

Dequeue ==
  /\ trained = Len(InitialTraining) /\ request = NoRequest
  /\ Len(responses) < MaxRequests
  /\ \E r \in Requests : request' = r /\ documents' = Append(documents, r.text)
  /\ UNCHANGED <<trained, classifier, callVars, responses>>

(* The response: a topic or a summary is sent if it is not NULL.  A summary *)
(* is given by the numbers of its sentences, and is <<0>> when it is the    *)
(* text that says there is no sentence.                                     *)
Send(status, topic, summary) ==
  /\ responses' = Append(responses,
       [request |-> request, status |-> status, topic |-> topic, summary |-> summary,
        word_count |-> IF status = "ok" THEN count_words(request.text) ELSE 0])
  /\ request' = NoRequest

CountWords ==
  /\ request # NoRequest /\ request.type = "count_words"
  /\ Send("ok", "", <<>>)
  /\ UNCHANGED <<trained, documents, classifier, callVars>>

(* The keywords decide when the classifier does not know, and the           *)
(* classifier learns what was answered.                                     *)
DetermineTopicBug ==  \* learns what the classifier said, not what was answered
  /\ request # NoRequest /\ request.type = "determine_topic"
  /\ LET bayes == classify_text_bayes(classifier, request.text)
         topic == IF bayes = Unknown THEN determine_topic(request.text) ELSE bayes
     IN  /\ classifier' = train_bayes_classifier(classifier, request.text, bayes)
         /\ Send("ok", topic, <<>>)
  /\ UNCHANGED <<trained, documents, callVars>>

DetermineTopicStaleBug ==  \* learns the text for the topic of the response before
  /\ request # NoRequest /\ request.type = "determine_topic"
  /\ LET bayes == classify_text_bayes(classifier, request.text)
         topic == IF bayes = Unknown THEN determine_topic(request.text) ELSE bayes
         learnt == IF responses = <<>> THEN topic ELSE Last(responses).topic
     IN  /\ classifier' = train_bayes_classifier(classifier, request.text, learnt)
         /\ Send("ok", topic, <<>>)
  /\ UNCHANGED <<trained, documents, callVars>>

DetermineTopic ==
  /\ request # NoRequest /\ request.type = "determine_topic"
  /\ LET bayes == classify_text_bayes(classifier, request.text)
         topic == IF bayes = Unknown THEN determine_topic(request.text) ELSE bayes
     IN  /\ classifier' = train_bayes_classifier(classifier, request.text, topic)
         /\ Send("ok", topic, <<>>)
  /\ UNCHANGED <<trained, documents, callVars>>

(* One step of generate_summary. *)
Summarise ==
  /\ request # NoRequest /\ request.type = "generate_summary"
  /\ SummaryNext
  /\ UNCHANGED <<trained, request, classifier, responses>>

(* generate_summary has returned; its variables are gone. *)
SendSummary ==
  /\ request # NoRequest /\ request.type = "generate_summary"
  /\ phase \in {"done", "error"}
  /\ Send("ok", "", IF phase = "done" THEN Numbers(selected) ELSE <<0>>)
  /\ sentences' = <<>> /\ selected' = <<>>
  /\ i' = 1 /\ j' = 2
  /\ phase' = "split"
  /\ UNCHANGED <<trained, documents, classifier>>

UnknownType ==
  /\ request # NoRequest /\ request.type = "unknown"
  /\ Send("error", "", <<>>)
  /\ UNCHANGED <<trained, documents, classifier, callVars>>

Next ==
  \/ Train \/ Dequeue
  \/ CountWords \/ DetermineTopic \/ UnknownType
  \/ Summarise \/ SendSummary

Spec == Init /\ [][Next]_vars

-----------------------------------------------------------------------------
(* Properties. *)

TopicAnswers == {n \in DOMAIN responses : responses[n].request.type = "determine_topic"}

TypeOK ==
  /\ trained \in 0 .. Len(InitialTraining)
  /\ request # NoRequest \/ responses # <<>> => trained = Len(InitialTraining)
  /\ request \in Requests \union {NoRequest}
  /\ documents \in Seq(Seq(Chars))
  /\ Len(documents) = Len(responses) + (IF request = NoRequest THEN 0 ELSE 1)
  /\ DOMAIN classifier = ToSet(Domains)
  /\ \A d \in ToSet(Domains) :
       /\ classifier[d].document_count \in Nat /\ IsABag(classifier[d].word_counts)
       /\ trained = Len(InitialTraining) => classifier[d].document_count > 0
  /\ documents # <<>> => SummaryTypeOK
  /\ \A n \in DOMAIN responses :
       /\ (responses[n].topic # "") = (n \in TopicAnswers)
       /\ (responses[n].summary # <<>>) = (responses[n].request.type = "generate_summary")

(* The classifier answers a domain that is the most likely one for the text *)
(* (nlp.c:233, and 224).  Expected to fail.                                 *)
LikeliestAnswered ==
  request # NoRequest /\ request.type = "determine_topic" =>
    \E d \in ToSet(Domains) :
      /\ classify_text_bayes(classifier, request.text) = d
      /\ \A e \in ToSet(Domains) :
           LnProbability(classifier, request.text, e) <= LnProbability(classifier, request.text, d)

(* A text asked for twice with no other topic in between gets the topic     *)
(* again: to learn an answer (server.c:165-168) does not undo it.           *)
AskedAgain ==
  \A m, n \in TopicAnswers :
    /\ m < n /\ TopicAnswers \intersect (m + 1 .. n - 1) = {}
    /\ responses[m].request = responses[n].request
    => responses[m].topic = responses[n].topic

(* The classifier has learnt the initial texts and, of the requests, those  *)
(* for a topic, each once and for the domain that was answered, unless it   *)
(* was answered as unknown.                                                 *)
LearntOf(domain) ==
  [n \in {k \in 1 .. trained : InitialTraining[k].domain = domain} |-> InitialTraining[n].text]

TaughtBy(domain) ==
  [n \in {k \in TopicAnswers : responses[k].topic = domain} |-> responses[n].request.text]

CopiesInAll(token, texts) ==
  Total([n \in DOMAIN texts |-> Copies(token, tokenize_text(texts[n]))])

LearnsItsAnswers ==
  \A d \in ToSet(Domains) :
    /\ classifier[d].document_count
         = Cardinality(DOMAIN LearntOf(d)) + Cardinality(DOMAIN TaughtBy(d))
    /\ \A t \in UNION {DOMAIN tokenize_text(text) : text \in ToSet(documents)}
                  \union DOMAIN classifier[d].word_counts :
         Copies(t, classifier[d].word_counts)
           = CopiesInAll(t, LearntOf(d)) + CopiesInAll(t, TaughtBy(d))

(* A summary is a best choice with respect to all the texts that the server *)
(* was sent before, for whatever service, and to no later one.              *)
SummaryOfHistory ==
  \A n \in DOMAIN responses :
    LET texts == [k \in 1 .. n |-> responses[k].request.text] IN
      responses[n].request.type = "generate_summary" =>
        IF SentenceEnds(texts[n]) = {} THEN responses[n].summary = <<0>>
        ELSE responses[n].summary \in Best!Answers(texts)
=============================================================================
