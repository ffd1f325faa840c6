-------------------------- MODULE MCKafkaConsumer --------------------------
(* KafkaConsumer with two gateways and one partition: what holds without   *)
(* any fairness.                                                           *)
EXTENDS KafkaConsumer

CONSTANTS g1, g2, p1

SafetySpec == Init /\ [][Next]_vars
=============================================================================
