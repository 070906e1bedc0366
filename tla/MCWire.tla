------------------------------- MODULE MCWire -------------------------------
(***************************************************************************)
(* Wire with small fields: a length and an entry of the client list take   *)
(* two bytes, so that a piece can end inside them, the other numbers one.  *)
(***************************************************************************)
EXTENDS Wire

SmallWidth == [w \in {"int", "size_t", "double", "client_info"} |->
                 IF w \in {"size_t", "client_info"} THEN 2 ELSE 1]

(* Numbers and lengths of one byte: only a text can arrive in pieces.       *)
ByteWidth == [w \in {"int", "size_t", "double", "client_info"} |-> 1]

(* Python clients over any network, and the C programs where no write is    *)
(* split, as on the loopback interface for short messages.                  *)
SoundLinks ==
  [kind : {"response"}, reader : {"recv_exact"}, split : {TRUE}]
    \union [kind : {"request", "response", "admin_request", "admin_response"},
            reader : {"read"}, split : {FALSE}]

(* A request to the server over any network. *)
RequestLink == [kind : {"request"}, reader : {"read"}, split : {TRUE}]
=============================================================================
