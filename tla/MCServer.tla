------------------------------ MODULE MCServer ------------------------------
(***************************************************************************)
(* Server on small instances: the constants that the configurations share. *)
(***************************************************************************)
EXTENDS Server, TLC

CONSTANTS c1, c2, c3, a1

TwoConns == {c1, c2}
ThreeConns == {c1, c2, c3}
OneAdmin == {a1}
NoAdmins == {}
TwoFds == {0, 1}
ThreeFds == {0, 1, 2}

(* The connections differ in name only. *)
Symmetry == Permutations(Conns)

(* Two writes per response, where the code makes 3 to 6, and 4 and one for  *)
(* each client to an admin client: a descriptor can change hands, and a     *)
(* peer can go, between the first and the last.                             *)
TwoWrites == [type \in (Types \union Commands) \ {"oversized"} |-> 2]

(* One write per response to a client, two to an admin client. *)
AdminWrites ==
  [type \in (Types \union Commands) \ {"oversized"} |-> IF type \in Commands THEN 2 ELSE 1]
=============================================================================
