-------------------------- MODULE MCKafkaOwnership --------------------------
(* KafkaOwnership with two gateways and a topic that begins badly. *)
EXTENDS KafkaOwnership

CONSTANTS g1, g2, p1

(* The backlog begins with a message that no retry can repair. *)
PoisonFirstInit ==
  OwnershipInit /\ log = [p \in Partitions |-> <<"poison", "valid">>]

PoisonFirstSpec ==
  PoisonFirstInit /\ [][OwnershipNext]_ownershipVars /\ Fairness

(* No guard, fairness condition or liveness property depends on the        *)
(* revisions, and what is checked of them is how a step changes them: one  *)
(* state for all revisions will do.                                        *)
ButRevisions == vars
=============================================================================
