--------------------------- MODULE KafkaOwnership ---------------------------
(***************************************************************************)
(* The consumers of KafkaConsumer together with the ownership revision     *)
(* each counts, and what that amounts to for the handlers, the monitor and *)
(* the shutdown of its own process: the RoomOwnership that Gateway takes   *)
(* for granted.                                                            *)
(*                                                                         *)
(* Gateway lets an ownership come and go at any time; here it is the       *)
(* group, with its other members, rebalances, evictions and failures, that *)
(* makes it do so, and every step of it must be one Gateway has reckoned   *)
(* with.                                                                   *)
(***************************************************************************)
EXTENDS KafkaConsumer

VARIABLE revision   \* KafkaBus.ownershipRevision of each gateway

ownershipVars == <<vars, revision>>

OwnershipInit ==
  /\ Init
  /\ revision = [g \in Gateways |-> 0]

(* Steps of gateway g that go through setPartitionOwnership or             *)
(* clearAssignedPartitions.                                                *)
Publishes(g) ==
  \/ Start(g)
  \/ GiveUp(g)
  \/ Abort(g)
  \/ Retry(g)
  \/ Own(g)
  \/ Disown(g)
  \/ GoRound(g)
  \/ GoOut(g)
  \/ CloseOwnership(g)

(* Mutant: the revision counts only when the set of partitions changes, as *)
(* hadAssignments decides for the log line.                                *)
CountChanges(g) ==
  IF assigned'[g] = assigned[g] THEN revision[g] ELSE revision[g] + 1

(* ownershipRevision.Add(1), under the same lock as the map. *)
Counted(g) == revision[g] + 1

Publish(g) ==
  /\ Publishes(g)
  /\ revision' = [revision EXCEPT ![g] = Counted(g)]

(* A new process counts from zero. *)
Reboot(g) ==
  /\ Crash(g)
  /\ revision' = [revision EXCEPT ![g] = 0]

(* What the gateway does without touching its ownership. *)
Proceed(g) ==
  \/ GroupStep(g)
  \/ Finish(g)
  \/ Receive(g)
  \/ StartWorkers(g)
  \/ Unready(g)
  \/ Cancel(g)
  \/ CloseReady(g)
  \/ \E p \in Partitions :
       \/ WorkerStep(g, p)
       \/ Stray(g, p)
       \/ FetchFails(g, p)
       \/ HandlerFails(g, p)
       \/ CommitFails(g, p)

OwnershipNext ==
  \/ \E g \in Gateways : Publish(g)
  \/ \E g \in Gateways : Reboot(g)
  \/ /\ \/ \E g \in Gateways : Proceed(g)
        \/ \E p \in Partitions, kind \in Kinds : Produce(p, kind)
        \/ BrokerStep
        \/ \E owner \in [Partitions -> Joining] : Evict(owner)
     /\ UNCHANGED revision

OwnershipSpec == OwnershipInit /\ [][OwnershipNext]_ownershipVars
-----------------------------------------------------------------------------
(* Where Consume is, as far as RoomOwnership tells. *)
Phase(g) ==
  CASE pc[g] = "owning" -> "assigned"
    [] pc[g] = "consuming" -> "consuming"
    [] pc[g] = "ending" -> "ending"
    [] OTHER -> "joining"

Bus(g) == INSTANCE RoomOwnership
  WITH Rooms <- Partitions, owned <- assigned[g], revision <- revision[g],
       ready <- ready[g], consumer <- Phase(g)

(* Every gateway shows its own process what RoomOwnership promises,        *)
(* whatever the rest of the group does to it: BusSpec of Bus(g), for all   *)
(* of them at once.                                                        *)
ImplementsOwnership ==
  /\ \A g \in Gateways : Bus(g)!BusInit
  /\ [][\A g \in Gateways :
          [Bus(g)!BusNext \/ Bus(g)!Restart]_(Bus(g)!busVars)]_ownershipVars
=============================================================================
