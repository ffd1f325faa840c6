------------------------------- MODULE MCRoom -------------------------------
(* Room on a small instance: handles, non-blank client IDs and non-blank   *)
(* contents are interchangeable.                                           *)
EXTENDS Room, TLC

CONSTANTS u1, u2, h1, h2, h3, a, b

Symmetric ==
  Permutations({h1, h2, h3}) \cup Permutations({u1, u2})
    \cup Permutations({a, b})
=============================================================================
