----------------------------- MODULE MCGateway -----------------------------
(* Gateway with two connections that may compete for the same user ID in   *)
(* the same room.                                                          *)
EXTENDS Gateway, TLC

CONSTANTS c1, c2, u1, u2, r1

(* For safety: connections and users are interchangeable. *)
Symmetric == Permutations({c1, c2}) \cup Permutations({u1, u2})

(* For liveness, which symmetry does not preserve: two different users. *)
TwoUsersInit == Init /\ user = (c1 :> u1 @@ c2 :> u2)

TwoUsersSpec == TwoUsersInit /\ [][Next]_vars /\ Fairness
=============================================================================
