--------------------------- MODULE RoomOwnership ---------------------------
(***************************************************************************)
(* What a Kafka bus shows the rest of its process: which rooms it owns,    *)
(* under which revision, and whether its consumer is ready (the interfaces *)
(* RoomOwnership and Readiness of internal/bus/bus.go), as KafkaBus.Consume *)
(* and Close move them.                                                    *)
(*                                                                         *)
(* The module stands between two others.  Gateway extends it: handshakes,  *)
(* the ownership monitor and Shutdown read this state, whatever the        *)
(* consumer does with it.  KafkaOwnership implements it: the consumer of   *)
(* every member of a group behaves like this towards its own process.      *)
(***************************************************************************)
EXTENDS Integers

CONSTANT Rooms   \* what is owned or not

VARIABLES
  owned,     \* rooms for which KafkaBus.OwnsRoom answers true
  revision,  \* KafkaBus.ownershipRevision
  ready,     \* KafkaBus.consumerReady
  consumer   \* where KafkaBus.Consume is

busVars == <<owned, revision, ready, consumer>>

BusInit ==
  /\ owned = {}
  /\ revision = 0
  /\ ready = FALSE
  /\ consumer = "joining"

(* Mutant: losing every partition does not advance the revision. *)
ClearSilently == owned' = {} /\ UNCHANGED revision

(* Mutant: the revision counts backwards. *)
RevisionBack == owned' = {} /\ revision' = revision - 1

(* clearAssignedPartitions: under ownershipMu, with a new revision. *)
ClearAssignedPartitions == owned' = {} /\ revision' = revision + 1

(* setPartitionOwnership: any set of rooms, under ownershipMu. *)
SetPartitionOwnership(S) == owned' = S /\ revision' = revision + 1

(* Consume got a generation and its metadata. *)
Assign(S) ==
  /\ consumer = "joining"
  /\ SetPartitionOwnership(S)
  /\ consumer' = "assigned"
  /\ UNCHANGED ready

BecomeReady ==
  /\ consumer = "assigned"
  /\ ready' = TRUE
  /\ consumer' = "consuming"
  /\ UNCHANGED <<owned, revision>>

(* consumeGeneration returned: a rebalance, a failed commit or handler, or *)
(* the closing of the group.                                               *)
EndGeneration ==
  /\ consumer = "consuming"
  /\ ready' = FALSE
  /\ consumer' = "ending"
  /\ UNCHANGED <<owned, revision>>

ForgetGeneration ==
  /\ consumer = "ending"
  /\ ClearAssignedPartitions
  /\ consumer' = "joining"
  /\ UNCHANGED ready

(* The top of the loop, a failed or retried Next, failed metadata and the  *)
(* deferred clean-up of Consume.                                           *)
Rejoin ==
  /\ consumer = "joining"
  /\ ready' = FALSE
  /\ ClearAssignedPartitions
  /\ UNCHANGED consumer

(* KafkaBus.Close, in two steps; Consume goes on until it notices. *)
CloseReady ==
  /\ ready' = FALSE
  /\ UNCHANGED <<owned, revision, consumer>>

CloseOwnership ==
  /\ ClearAssignedPartitions
  /\ UNCHANGED <<ready, consumer>>

(* The process dies and another one takes its place. *)
Restart ==
  /\ owned' = {}
  /\ revision' = 0
  /\ ready' = FALSE
  /\ consumer' = "joining"

BusNext ==
  \/ \E S \in SUBSET Rooms : Assign(S)
  \/ BecomeReady
  \/ EndGeneration
  \/ ForgetGeneration
  \/ Rejoin
  \/ CloseReady
  \/ CloseOwnership

BusSpec == BusInit /\ [][BusNext \/ Restart]_busVars
=============================================================================
