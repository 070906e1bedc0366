--------------------------- MODULE MCRequestQueue ---------------------------
(***************************************************************************)
(* RequestQueue on two handlers and two slots.  Handlers call enqueue      *)
(* again and again, so both can sleep on a full queue while it drains, one *)
(* can take the slot the other was woken for, and the ring wraps.          *)
(***************************************************************************)
EXTENDS RequestQueue

CONSTANTS h1, h2, r1, r2

MCHandlers == {h1, h2}
MCRequests == {r1, r2}
MCRequestsOf == [h \in MCHandlers |-> IF h = h1 THEN {r1} ELSE {r2}]
=============================================================================
