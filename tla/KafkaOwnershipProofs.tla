------------------------ MODULE KafkaOwnershipProofs ------------------------
(***************************************************************************)
(* Every gateway of the group implements RoomOwnership, for any number of  *)
(* gateways, partitions, messages and faults.                              *)
(***************************************************************************)
EXTENDS KafkaOwnership, KafkaConsumerProofs

(* The revisions are numbers, beside the invariant of the consumers. *)
OwnershipInv == IInv /\ revision \in [Gateways -> Nat]

(* Counting revisions adds no step to the consumers. *)
LEMMA ConsumersOnly == [OwnershipNext]_ownershipVars => [Next]_vars
  BY DEF OwnershipNext, Publish, Publishes, Reboot, Proceed, ownershipVars,
         Next, GroupStep, ConsumeStep, CloseStep, WorkerStep, Disturbance

(* The invariant goes on holding when the revisions are counted. *)
LEMMA OwnershipInvStep ==
  OwnershipInv /\ [OwnershipNext]_ownershipVars => OwnershipInv'
<1> SUFFICES ASSUME OwnershipInv, [OwnershipNext]_ownershipVars
             PROVE  OwnershipInv'
  OBVIOUS
<1>1. IInv'
  BY ConsumersOnly, KafkaStep DEF OwnershipInv
<1>2. revision' \in [Gateways -> Nat]
  BY DEF OwnershipNext, Publish, Counted, Reboot, ownershipVars, OwnershipInv
<1> QED BY <1>1, <1>2 DEF OwnershipInv

(* What a gateway shows is the business of nobody else's steps. *)
LEMMA Untouched ==
  ASSUME NEW g \in Gateways,
         assigned'[g] = assigned[g], revision'[g] = revision[g],
         ready'[g] = ready[g], Phase(g)' = Phase(g)
  PROVE  [Bus(g)!BusNext \/ Bus(g)!Restart]_(Bus(g)!busVars)
  BY DEF Bus!busVars

(* The group's own steps, the workers' and the cancelling show nothing. *)
LEMMA Silent ==
  ASSUME NEW g \in Gateways,
         \/ GroupStep(g) \/ Cancel(g)
         \/ \E p \in Partitions :
              \/ WorkerStep(g, p) \/ Stray(g, p) \/ FetchFails(g, p)
              \/ HandlerFails(g, p) \/ CommitFails(g, p)
  PROVE  UNCHANGED consumeVars
<1>1. CASE GroupStep(g) \/ Cancel(g)
  BY <1>1 DEF GroupStep, LearnEnd, Rejoin, LeaveGroup, Cancel
<1>2. ASSUME NEW p \in Partitions,
             \/ WorkerStep(g, p) \/ Stray(g, p) \/ FetchFails(g, p)
             \/ HandlerFails(g, p) \/ CommitFails(g, p)
      PROVE  UNCHANGED consumeVars
  BY <1>2 DEF WorkerStep, StartWorker, Fetch, Leave, Handle, Commit, Refused,
              Stray, FetchFails, HandlerFails, CommitFails, Quit
<1> QED BY <1>1, <1>2

(* A step of one gateway's own code leaves the others' ownership alone. *)
LEMMA OwnStepOnly ==
  ASSUME TypeOK, NEW g \in Gateways, NEW h \in Gateways, h # g,
         Publishes(g) \/ Crash(g) \/ Proceed(g)
  PROVE  assigned'[h] = assigned[h] /\ ready'[h] = ready[h] /\ pc'[h] = pc[h]
<1>t. /\ pc \in [Gateways -> Places] /\ ready \in [Gateways -> BOOLEAN]
      /\ assigned \in [Gateways -> SUBSET Partitions]
  BY DEF TypeOK, Places
<1> USE <1>t DEF Goto, Release, SetOwnership, consumeVars
<1>1. CASE Publishes(g) \/ Crash(g)
  BY <1>1 DEF Publishes, Start, GiveUp, Abort, Return, Retry, Own, Disown,
              GoRound, GoOut, CloseOwnership, Crash
<1>2. CASE Proceed(g)
  BY <1>2, Silent DEF Proceed, Finish, Receive, StartWorkers, Unready, CloseReady
<1> QED BY <1>1, <1>2

(* Each call that publishes an ownership is a step of RoomOwnership. *)
LEMMA PublishImplements ==
  ASSUME OwnershipInv, NEW g \in Gateways, Publish(g)
  PROVE  Bus(g)!BusNext
<1>t. /\ pc \in [Gateways -> Places] /\ ready \in [Gateways -> BOOLEAN]
      /\ assigned \in [Gateways -> SUBSET Partitions]
      /\ plan[g] \subseteq Partitions
      /\ revision \in [Gateways -> Nat]
  BY DEF OwnershipInv, IInv, TypeOK, Places
<1>r. revision'[g] = revision[g] + 1
  BY <1>t DEF Publish, Counted
<1> USE DEF Goto, Release, SetOwnership, Phase, Bus!BusNext,
            Bus!ClearAssignedPartitions
<1>1. CASE \/ Start(g) \/ GiveUp(g) \/ Abort(g) \/ Retry(g) \/ GoRound(g)
           \/ GoOut(g)
  <2>1. Bus(g)!Rejoin
    BY <1>1, <1>t, <1>r DEF Bus!Rejoin, Start, GiveUp, Abort, Return, Retry,
                            GoRound, GoOut
  <2> QED BY <2>1
<1>2. CASE Own(g)
  <2>1. PICK S \in SUBSET Partitions : S = plan[g]
    BY <1>t
  <2>2. Bus(g)!Assign(S)
    BY <1>2, <1>t, <1>r, <2>1 DEF Bus!Assign, Bus!SetPartitionOwnership, Own
  <2> QED BY <2>2
<1>3. CASE Disown(g)
  <2>1. Bus(g)!ForgetGeneration
    BY <1>3, <1>t, <1>r DEF Bus!ForgetGeneration, Disown
  <2> QED BY <2>1
<1>4. CASE CloseOwnership(g)
  <2>1. Bus(g)!CloseOwnership
    BY <1>4, <1>t, <1>r DEF Bus!CloseOwnership, CloseOwnership
  <2> QED BY <2>1
<1> QED BY <1>1, <1>2, <1>3, <1>4 DEF Publish, Publishes

(* The steps in between make the consumer ready, or no longer so, or show  *)
(* nothing at all.                                                         *)
LEMMA ProceedImplements ==
  ASSUME OwnershipInv, NEW g \in Gateways, Proceed(g), UNCHANGED revision
  PROVE  [Bus(g)!BusNext]_(Bus(g)!busVars)
<1>t. pc \in [Gateways -> Places] /\ ready \in [Gateways -> BOOLEAN]
  BY DEF OwnershipInv, IInv, TypeOK, Places
<1> USE DEF Goto, Phase
<1>1. CASE StartWorkers(g)
  <2>1. Bus(g)!BecomeReady
    BY <1>1, <1>t DEF Bus!BecomeReady, StartWorkers
  <2> QED BY <2>1 DEF Bus!BusNext
<1>2. CASE Unready(g)
  <2>1. Bus(g)!EndGeneration
    BY <1>2, <1>t DEF Bus!EndGeneration, Unready
  <2> QED BY <2>1 DEF Bus!BusNext
<1>3. CASE Finish(g)
  BY <1>3, <1>t DEF Bus!busVars, Finish
<1>4. CASE Receive(g)
  BY <1>4, <1>t DEF Bus!busVars, Receive
<1>5. CASE CloseReady(g)
  <2>1. Bus(g)!CloseReady
    BY <1>5, <1>t DEF Bus!CloseReady, CloseReady
  <2> QED BY <2>1 DEF Bus!BusNext
<1>6. CASE UNCHANGED consumeVars
  BY <1>6 DEF Bus!busVars, consumeVars
<1> QED BY <1>1, <1>2, <1>3, <1>4, <1>5, <1>6, Silent DEF Proceed

(* The refinement, step by step: whatever a step of the group is, each     *)
(* gateway sees it as a step of its own RoomOwnership, or not at all.      *)
LEMMA OwnershipStep ==
  ASSUME OwnershipInv, [OwnershipNext]_ownershipVars, NEW h \in Gateways
  PROVE  [Bus(h)!BusNext \/ Bus(h)!Restart]_(Bus(h)!busVars)
<1>t. /\ TypeOK /\ pc \in [Gateways -> Places]
      /\ revision \in [Gateways -> Nat]
  BY DEF OwnershipInv, IInv, TypeOK, Places
<1>1. ASSUME NEW g \in Gateways, Publish(g)
      PROVE  [Bus(h)!BusNext \/ Bus(h)!Restart]_(Bus(h)!busVars)
  <2>1. CASE h = g
    BY <1>1, <2>1, PublishImplements
  <2>2. CASE h # g
    BY <1>1, <1>t, <2>2, OwnStepOnly, Untouched DEF Publish, Phase
  <2> QED BY <2>1, <2>2
<1>2. ASSUME NEW g \in Gateways, Reboot(g)
      PROVE  [Bus(h)!BusNext \/ Bus(h)!Restart]_(Bus(h)!busVars)
  <2>1. CASE h = g
    <3>1. Bus(g)!Restart
      BY <1>2, <1>t DEF Reboot, Crash, Goto, Release, SetOwnership, Phase,
                        Bus!Restart, TypeOK
    <3> QED BY <2>1, <3>1
  <2>2. CASE h # g
    BY <1>2, <1>t, <2>2, OwnStepOnly, Untouched DEF Reboot, Phase
  <2> QED BY <2>1, <2>2
<1>3. ASSUME NEW g \in Gateways, Proceed(g), UNCHANGED revision
      PROVE  [Bus(h)!BusNext \/ Bus(h)!Restart]_(Bus(h)!busVars)
  <2>1. CASE h = g
    BY <1>3, <2>1, ProceedImplements
  <2>2. CASE h # g
    BY <1>3, <1>t, <2>2, OwnStepOnly, Untouched DEF Phase
  <2> QED BY <2>1, <2>2
<1>4. ASSUME NEW owner \in [Partitions -> Joining], NewGeneration(owner),
             UNCHANGED revision
      PROVE  [Bus(h)!BusNext \/ Bus(h)!Restart]_(Bus(h)!busVars)
  <2>1. UNCHANGED consumeVars
    BY <1>4 DEF NewGeneration
  <2> QED BY <1>4, <2>1, Untouched DEF consumeVars, Phase
<1>5. ASSUME UNCHANGED <<consumeVars, revision>>
      PROVE  [Bus(h)!BusNext \/ Bus(h)!Restart]_(Bus(h)!busVars)
  BY <1>5, Untouched DEF consumeVars, Phase
<1> QED
  BY <1>1, <1>2, <1>3, <1>4, <1>5
  DEF OwnershipNext, Produce, BrokerStep, Rebalance, Evict, ownershipVars, vars

(* Every gateway's consumer is a RoomOwnership to its own process: what    *)
(* Gateway assumes of the bus is what KafkaBus does in any group.          *)
THEOREM KafkaImplementsOwnership == OwnershipSpec => ImplementsOwnership
<1>1. OwnershipInit => OwnershipInv
  BY KafkaInit DEF OwnershipInit, OwnershipInv
<1>2. OwnershipInit => \A g \in Gateways : Bus(g)!BusInit
  BY DEF OwnershipInit, Init, Bus!BusInit, Phase
<1>3. OwnershipInv /\ [OwnershipNext]_ownershipVars =>
        [\A g \in Gateways :
           [Bus(g)!BusNext \/ Bus(g)!Restart]_(Bus(g)!busVars)]_ownershipVars
  BY OwnershipStep
<1> QED
  BY <1>1, <1>2, <1>3, OwnershipInvStep, PTL
  DEF OwnershipSpec, ImplementsOwnership
=============================================================================
