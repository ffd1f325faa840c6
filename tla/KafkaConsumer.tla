--------------------------- MODULE KafkaConsumer ---------------------------
(***************************************************************************)
(* How danmaku come out of Kafka: KafkaBus.Consume of internal/bus/kafka.go *)
(* under the supervisor of internal/httpserver/messagebus.go, on several   *)
(* gateways that share one consumer group.                                 *)
(*                                                                         *)
(* Each gateway takes a generation of the group, looks the topic up,       *)
(* publishes which partitions it owns and runs one worker per assigned     *)
(* partition: fetch, handle, commit.  Anything may fail; the supervisor    *)
(* starts over.                                                            *)
(*                                                                         *)
(* The broker and the kafka-go client are external and are modelled as the *)
(* code uses them.  The client's ConsumerGroup is a goroutine of its own:  *)
(* it joins, offers the generation it got to whoever calls Next, notices   *)
(* that the generation is over, waits for the workers that were registered *)
(* with generation.Start while it was not, and joins again, wherever       *)
(* Consume may be.  The broker gives every partition of a generation to    *)
(* one of its members and refuses the commits of older generations.        *)
(***************************************************************************)
EXTENDS Naturals, Sequences

CONSTANTS Gateways,    \* gateway instances of the consumer group
          Partitions,  \* partitions of the topic
          MaxLog,      \* bound on the messages of a partition
          MaxFaults,   \* bound on crashes, failed calls and evictions
          Stoppable,   \* gateways that may be shut down
          MaxStrays    \* bound on the messages fetched by late workers

ASSUME KafkaConstants ==
  /\ MaxLog \in Nat
  /\ MaxFaults \in Nat
  /\ Stoppable \subseteq Gateways
  /\ MaxStrays \in Nat

(* What consumePartition tells apart: a valid danmaku, or one that         *)
(* json.Unmarshal or Validate rejects.                                     *)
Kinds == {"valid", "poison"}

VARIABLES
  log,          \* broker: messages of each partition
  committed,    \* broker: next offset of the group, per partition
  rebalancing,  \* broker: the members are to join again
  faults,       \* faults that have happened
  grp,          \* where the ConsumerGroup goroutine of each gateway is
  offer,        \* the generation it offers to Next
  stop,         \* how far the shutdown of the message bus has come
  pc,           \* where the consumer goroutine of each gateway is
  plan,         \* partitions that Consume's generation assigns to the gateway
  assigned,     \* KafkaBus.assignedPartition
  ready,        \* KafkaBus.consumerReady
  current,      \* the broker takes commits of Consume's generation
  ended,        \* Consume has no generation, or its context is done
  late,         \* partitions whose worker was started after that
  failed,       \* a worker has put an error into errs
  worker,       \* where the worker of each assigned partition is
  next,         \* offset the worker is at
  handled,      \* history: offsets the handler returned nil for
  strays        \* messages that late workers have fetched

brokerVars == <<log, committed, rebalancing>>
groupVars == <<grp, offer, current>>
consumeVars == <<pc, plan, assigned, ready>>
workerVars == <<ended, late, failed, worker, next, handled, strays>>
vars == <<brokerVars, faults, groupVars, stop, consumeVars, workerVars>>

(* What a partition may hold before the first gateway comes up. *)
Backlogs == UNION {[1..n -> Kinds] : n \in 0..MaxLog}

Nowhere == [p \in Partitions |-> "none"]

AtZero == [p \in Partitions |-> 0]

NoOffer == [plan |-> {}, start |-> AtZero, current |-> FALSE]

Init ==
  /\ log \in [Partitions -> Backlogs]
  /\ committed = AtZero
  /\ rebalancing = FALSE
  /\ faults = 0
  /\ grp = [g \in Gateways |-> "out"]
  /\ offer = [g \in Gateways |-> NoOffer]
  /\ current = [g \in Gateways |-> FALSE]
  /\ stop = [g \in Gateways |-> "running"]
  /\ pc = [g \in Gateways |-> "starting"]
  /\ plan = [g \in Gateways |-> {}]
  /\ assigned = [g \in Gateways |-> {}]
  /\ ready = [g \in Gateways |-> FALSE]
  /\ ended = [g \in Gateways |-> TRUE]
  /\ late = [g \in Gateways |-> {}]
  /\ failed = [g \in Gateways |-> FALSE]
  /\ worker = [g \in Gateways |-> Nowhere]
  /\ next = [g \in Gateways |-> AtZero]
  /\ handled = [p \in Partitions |-> {}]
  /\ strays = 0

(* One of the bounded number of things that go wrong. *)
Fault == faults < MaxFaults /\ faults' = faults + 1

(* The consumer context of the gateway is cancelled. *)
Cancelled(g) == stop[g] # "running"
-----------------------------------------------------------------------------
(* The broker.                                                             *)

(* A producer's message arrives: from websocket.go through KafkaBus.Publish, *)
(* or from any other producer of the topic.                                *)
Produce(p, kind) ==
  /\ Len(log[p]) < MaxLog
  /\ log' = [log EXCEPT ![p] = Append(@, kind)]
  /\ UNCHANGED <<committed, rebalancing, faults, groupVars, stop, consumeVars,
                 workerVars>>

Joining == {g \in Gateways : grp[g] = "joining"}

(* Members of the current generation that have neither rejoined nor left. *)
Active == {g \in Gateways : \/ grp[g] = "offering" /\ offer[g].current
                            \/ grp[g] = "member" /\ current[g]}

(* Mutant: SetOffset is forgotten and the reader starts at the beginning. *)
FromTheStart(p) == 0

(* Mutant: the reader starts at the end of the partition. *)
FromTheEnd(p) == Len(log[p])

(* The assignment's offset: what is committed when the generation begins. *)
StartOffset(p) == committed[p]

(* The generation begins with everyone in JoinGroup and one owner for      *)
(* every partition; all others are out of date.                            *)
NewGeneration(owner) ==
  /\ grp' = [g \in Gateways |-> IF g \in Joining THEN "offering" ELSE grp[g]]
  /\ offer' = [g \in Gateways |->
       IF g \in Joining
       THEN [plan |-> {p \in Partitions : owner[p] = g},
             start |-> [p \in Partitions |->
                          IF owner[p] = g THEN StartOffset(p) ELSE 0],
             current |-> TRUE]
       ELSE [plan |-> offer[g].plan, start |-> offer[g].start, current |-> FALSE]]
  /\ current' = [g \in Gateways |-> FALSE]
  /\ rebalancing' = FALSE
  /\ UNCHANGED <<log, committed, stop, consumeVars, workerVars>>

(* The coordinator waits for the members it hears of. *)
Rebalance(owner) ==
  /\ Joining # {}
  /\ Active = {}
  /\ NewGeneration(owner)
  /\ UNCHANGED faults

(* A member that does not rejoin in time is left out. *)
Evict(owner) ==
  /\ Joining # {}
  /\ Active # {}
  /\ Fault
  /\ NewGeneration(owner)
-----------------------------------------------------------------------------
(* The ConsumerGroup goroutine of gateway g, in kafka-go.                  *)

(* JoinGroup: the coordinator asks everybody else to join again. *)
Join(g) ==
  /\ grp' = [grp EXCEPT ![g] = "joining"]
  /\ offer' = [offer EXCEPT ![g] = NoOffer]
  /\ rebalancing' = TRUE

(* LeaveGroup, or a session that expires. *)
Depart(g) ==
  /\ grp' = [grp EXCEPT ![g] = "out"]
  /\ offer' = [offer EXCEPT ![g] = NoOffer]
  /\ current' = [current EXCEPT ![g] = FALSE]
  /\ rebalancing' = (rebalancing \/ g \in Active)

(* Mutant: nobody closes the group when the context is cancelled. *)
ClosedOnReturn(g) == pc[g] = "starting"

(* group.Close has been called: by the goroutine that waits for the end of *)
(* the context, by Close, or deferred in Consume.                          *)
Closing(g) == Cancelled(g) \/ pc[g] = "starting"

(* A heartbeat is refused, or the group is being closed: the context of    *)
(* the generation is done.  Consume may be anywhere.                       *)
LearnEnd(g) ==
  /\ grp[g] = "member"
  /\ ~ended[g]
  /\ ~current[g] \/ rebalancing \/ Closing(g)
  /\ ended' = [ended EXCEPT ![g] = TRUE]
  /\ UNCHANGED <<brokerVars, faults, groupVars, stop, consumeVars, late, failed,
                 worker, next, handled, strays>>

(* What generation.close waits for: not for workers yet to be started.     *)
RoutinesGone(g) ==
  /\ ended[g]
  /\ \A p \in Partitions : worker[g][p] \in {"none", "due"} \/ p \in late[g]

(* On to the next generation, whatever Consume still does in this one. *)
Rejoin(g) ==
  /\ grp[g] = "member"
  /\ RoutinesGone(g)
  /\ ~Closing(g)
  /\ Join(g)
  /\ UNCHANGED <<log, committed, faults, current, stop, consumeVars, workerVars>>

LeaveGroup(g) ==
  /\ grp[g] # "out"
  /\ grp[g] = "member" => RoutinesGone(g)
  /\ Closing(g)
  /\ Depart(g)
  /\ UNCHANGED <<log, committed, faults, stop, consumeVars, workerVars>>
-----------------------------------------------------------------------------
(* The consumer goroutine of gateway g: supervisor and Consume.            *)

Goto(g, l) == pc' = [pc EXCEPT ![g] = l]

(* Mutant: the map is filled, never replaced. *)
AddOwnership(g, S) == assigned' = [assigned EXCEPT ![g] = @ \cup S]

(* setPartitionOwnership and clearAssignedPartitions, under ownershipMu.   *)
(* They count the revision too: see KafkaOwnership.                        *)
SetOwnership(g, S) == assigned' = [assigned EXCEPT ![g] = S]

(* At the top of Consume's loop and in its deferred function; consumerReady *)
(* is false by then.                                                       *)
Release(g) ==
  /\ ready' = [ready EXCEPT ![g] = FALSE]
  /\ SetOwnership(g, {})

(* The generation goes out of Consume's scope. *)
Drop(g) ==
  /\ plan' = [plan EXCEPT ![g] = {}]
  /\ next' = [next EXCEPT ![g] = AtZero]
  /\ failed' = [failed EXCEPT ![g] = FALSE]

(* The last group.Close has returned and the supervisor has backed off: it *)
(* calls Consume again, which creates a group.                             *)
Start(g) ==
  /\ pc[g] = "starting"
  /\ grp[g] = "out"
  /\ ~Cancelled(g)
  /\ Goto(g, "joining")
  /\ Join(g)
  /\ Release(g)
  /\ UNCHANGED <<log, committed, faults, current, stop, plan, workerVars>>

(* The supervisor returns: its context is cancelled. *)
Finish(g) ==
  /\ pc[g] = "starting"
  /\ grp[g] = "out"
  /\ Cancelled(g)
  /\ Goto(g, "stopped")
  /\ UNCHANGED <<brokerVars, faults, groupVars, stop, plan, assigned, ready,
                 workerVars>>

(* Mutant: no supervisor starts over. *)
ReturnForGood(g) ==
  /\ Goto(g, "stopped")
  /\ Release(g)
  /\ Drop(g)
  /\ UNCHANGED <<brokerVars, groupVars, stop, ended, late, worker, handled,
                 strays>>

(* Consume is to return: its deferred function clears and closes the group. *)
Return(g) ==
  /\ Goto(g, "starting")
  /\ Release(g)
  /\ Drop(g)
  /\ UNCHANGED <<brokerVars, groupVars, stop, ended, late, worker, handled,
                 strays>>

(* Next or lookupTopicPartitions fails or times out, or the assignment     *)
(* names a partition the metadata does not.                                *)
GiveUp(g) ==
  /\ pc[g] \in {"joining", "lookup"}
  /\ Fault
  /\ Return(g)

(* With a cancelled context Next and the lookup return its error. *)
Abort(g) ==
  /\ pc[g] \in {"joining", "lookup"}
  /\ Cancelled(g)
  /\ Return(g)
  /\ UNCHANGED faults

(* The group could not join or synchronise and tries again; Next reports   *)
(* it and the loop goes round.                                             *)
Retry(g) ==
  /\ pc[g] = "joining"
  /\ grp[g] \in {"joining", "offering"}
  /\ ~Cancelled(g)
  /\ Fault
  /\ Join(g)
  /\ Release(g)
  /\ UNCHANGED <<log, committed, current, stop, pc, plan, workerVars>>

(* Next hands over a generation, which may be over by then. *)
Receive(g) ==
  /\ pc[g] = "joining"
  /\ grp[g] = "offering"
  /\ grp' = [grp EXCEPT ![g] = "member"]
  /\ offer' = [offer EXCEPT ![g] = NoOffer]
  /\ current' = [current EXCEPT ![g] = offer[g].current]
  /\ plan' = [plan EXCEPT ![g] = offer[g].plan]
  /\ next' = [next EXCEPT ![g] = offer[g].start]
  /\ ended' = [ended EXCEPT ![g] = FALSE]
  /\ Goto(g, "lookup")
  /\ UNCHANGED <<brokerVars, faults, stop, assigned, ready, late, failed, worker,
                 handled, strays>>

(* lookupTopicPartitions has answered: setPartitionOwnership, which asks    *)
(* neither whether the bus has been closed meanwhile nor whether the       *)
(* generation is over.                                                     *)
Own(g) ==
  /\ pc[g] = "lookup"
  /\ SetOwnership(g, plan[g])
  /\ Goto(g, "owning")
  /\ UNCHANGED <<brokerVars, faults, groupVars, stop, plan, ready, workerVars>>

(* ConsumerReady; consumeGeneration has a worker to start for each         *)
(* assigned partition.                                                     *)
StartWorkers(g) ==
  /\ pc[g] = "owning"
  /\ ready' = [ready EXCEPT ![g] = TRUE]
  /\ worker' = [worker EXCEPT ![g] =
       [p \in Partitions |-> IF p \in plan[g] THEN "due" ELSE "none"]]
  /\ Goto(g, "consuming")
  /\ UNCHANGED <<brokerVars, faults, groupVars, stop, plan, assigned, ended, late,
                 failed, next, handled, strays>>

(* Mutant: Consume goes on without waiting for its workers. *)
NoWait(g) == TRUE

(* workers.Wait *)
WorkersDone(g) == worker[g] = Nowhere

(* consumeGeneration has returned. *)
Unready(g) ==
  /\ pc[g] = "consuming"
  /\ ended[g]
  /\ WorkersDone(g)
  /\ ready' = [ready EXCEPT ![g] = FALSE]
  /\ late' = [late EXCEPT ![g] = {}]
  /\ Goto(g, "ending")
  /\ UNCHANGED <<brokerVars, faults, groupVars, stop, plan, assigned, ended, failed,
                 worker, next, handled, strays>>

Disown(g) ==
  /\ pc[g] = "ending"
  /\ SetOwnership(g, {})
  /\ Goto(g, "returned")
  /\ UNCHANGED <<brokerVars, faults, groupVars, stop, plan, ready, workerVars>>

(* consumeGeneration returned an error: a worker's, or the context's. *)
Erred(g) == failed[g] \/ Cancelled(g)

(* The top of the loop after a rebalance: cleared once more. *)
GoRound(g) ==
  /\ pc[g] = "returned"
  /\ ~Erred(g)
  /\ Goto(g, "joining")
  /\ Release(g)
  /\ Drop(g)
  /\ UNCHANGED <<brokerVars, faults, groupVars, stop, ended, late, worker, handled,
                 strays>>

(* Out to the supervisor after an error. *)
GoOut(g) ==
  /\ pc[g] = "returned"
  /\ Erred(g)
  /\ Return(g)
  /\ UNCHANGED faults

(* The process dies and is started again; the broker keeps its state. *)
Crash(g) ==
  /\ ~Cancelled(g)
  /\ Fault
  /\ Depart(g)
  /\ Goto(g, "starting")
  /\ Release(g)
  /\ Drop(g)
  /\ ended' = [ended EXCEPT ![g] = TRUE]
  /\ late' = [late EXCEPT ![g] = {}]
  /\ worker' = [worker EXCEPT ![g] = Nowhere]
  /\ UNCHANGED <<log, committed, stop, handled, strays>>
-----------------------------------------------------------------------------
(* The shutdown of the message bus, called by Server.Shutdown.             *)

(* cancelConsumer *)
Cancel(g) ==
  /\ stop[g] = "running"
  /\ g \in Stoppable
  /\ stop' = [stop EXCEPT ![g] = "cancelled"]
  /\ UNCHANGED <<brokerVars, faults, groupVars, consumeVars, workerVars>>

(* KafkaBus.Close, while Consume may set again what it clears. *)
CloseReady(g) ==
  /\ stop[g] = "cancelled"
  /\ ready' = [ready EXCEPT ![g] = FALSE]
  /\ stop' = [stop EXCEPT ![g] = "unready"]
  /\ UNCHANGED <<brokerVars, faults, groupVars, pc, plan, assigned, workerVars>>

CloseOwnership(g) ==
  /\ stop[g] = "unready"
  /\ SetOwnership(g, {})
  /\ stop' = [stop EXCEPT ![g] = "closed"]
  /\ UNCHANGED <<brokerVars, faults, groupVars, pc, plan, ready, workerVars>>
-----------------------------------------------------------------------------
(* consumePartition of gateway g on partition p.                           *)

At(g, p, l) == worker' = [worker EXCEPT ![g][p] = l]

(* generation.Start: not registered when the generation is over. *)
StartWorker(g, p) ==
  /\ worker[g][p] = "due"
  /\ At(g, p, "fetching")
  /\ late' = [late EXCEPT ![g] = IF ended[g] THEN @ \cup {p} ELSE @]
  /\ UNCHANGED <<brokerVars, faults, groupVars, stop, consumeVars, ended, failed,
                 next, handled, strays>>

(* FetchMessage has a message; select may prefer it to the end of the      *)
(* generation when both are there.                                         *)
Fetch(g, p) ==
  /\ worker[g][p] = "fetching"
  /\ p \notin late[g]
  /\ next[g][p] < Len(log[p])
  /\ At(g, p, "handling")
  /\ UNCHANGED <<brokerVars, faults, groupVars, stop, consumeVars, ended, late,
                 failed, next, handled, strays>>

(* The same in a worker that began with the end of the generation there:   *)
(* the message arrives before the first select.                            *)
Stray(g, p) ==
  /\ worker[g][p] = "fetching"
  /\ p \in late[g]
  /\ next[g][p] < Len(log[p])
  /\ strays < MaxStrays
  /\ strays' = strays + 1
  /\ At(g, p, "handling")
  /\ UNCHANGED <<brokerVars, faults, groupVars, stop, consumeVars, ended, late,
                 failed, next, handled>>

(* Mutant: FetchMessage is given Consume's context instead of the          *)
(* generation's.                                                           *)
LeaveWhenCancelled(g, p) ==
  /\ worker[g][p] = "fetching"
  /\ Cancelled(g)
  /\ At(g, p, "none")
  /\ UNCHANGED <<brokerVars, faults, groupVars, stop, consumeVars, ended, late,
                 failed, next, handled, strays>>

(* FetchMessage returns ErrGenerationEnded, which is no error. *)
Leave(g, p) ==
  /\ worker[g][p] = "fetching"
  /\ ended[g]
  /\ At(g, p, "none")
  /\ UNCHANGED <<brokerVars, faults, groupVars, stop, consumeVars, ended, late,
                 failed, next, handled, strays>>

(* Malformed JSON or a failed Validate: skipped, straight to the commit. *)
Skippable(g, p) == log[p][next[g][p] + 1] = "poison"

(* The handler broadcasts to the room; an empty room is no error. *)
Handle(g, p) ==
  /\ worker[g][p] = "handling"
  /\ handled' = [handled EXCEPT ![p] =
       IF Skippable(g, p) THEN @ ELSE @ \cup {next[g][p]}]
  /\ At(g, p, "committing")
  /\ UNCHANGED <<brokerVars, faults, groupVars, stop, consumeVars, ended, late,
                 failed, next, strays>>

(* A worker that returns an error ends the generation for all workers. *)
Quit(g, p) ==
  /\ At(g, p, "none")
  /\ ended' = [ended EXCEPT ![g] = TRUE]
  /\ failed' = [failed EXCEPT ![g] = TRUE]
  /\ UNCHANGED <<rebalancing, log, groupVars, stop, consumeVars, late, next,
                 handled, strays>>

(* SetOffset or FetchMessage returns an error of its own. *)
FetchFails(g, p) ==
  /\ worker[g][p] = "fetching"
  /\ Fault
  /\ Quit(g, p)
  /\ UNCHANGED committed

(* Mutant: the handler's error is ignored and the message committed. *)
CommitDespiteError(g, p) ==
  /\ worker[g][p] = "handling"
  /\ ~Skippable(g, p)
  /\ Fault
  /\ At(g, p, "committing")
  /\ UNCHANGED <<brokerVars, groupVars, stop, consumeVars, ended, late, failed,
                 next, handled, strays>>

(* The handler returns an error: no commit. *)
HandlerFails(g, p) ==
  /\ worker[g][p] = "handling"
  /\ ~Skippable(g, p)
  /\ Fault
  /\ Quit(g, p)
  /\ UNCHANGED committed

(* Mutant: the offset of the message itself is committed. *)
OffsetOf(g, p) == next[g][p]

(* Mutant: the offset of the message after next is committed. *)
OffsetTwoAfter(g, p) == next[g][p] + 2

(* offsetsAfter *)
OffsetAfter(g, p) == next[g][p] + 1

(* generation.CommitOffsets, while the broker knows the generation. *)
Commit(g, p) ==
  /\ worker[g][p] = "committing"
  /\ current[g]
  /\ committed' = [committed EXCEPT ![p] = OffsetAfter(g, p)]
  /\ next' = [next EXCEPT ![g][p] = @ + 1]
  /\ At(g, p, "fetching")
  /\ UNCHANGED <<log, rebalancing, faults, groupVars, stop, consumeVars, ended,
                 late, failed, handled, strays>>

(* The broker refuses: the generation is old or the member has left. *)
Refused(g, p) ==
  /\ worker[g][p] = "committing"
  /\ ~current[g]
  /\ Quit(g, p)
  /\ UNCHANGED <<committed, faults>>

(* The commit fails on the way to the broker, or its answer does on the    *)
(* way back.                                                               *)
CommitFails(g, p) ==
  /\ worker[g][p] = "committing"
  /\ current[g]
  /\ Fault
  /\ \/ UNCHANGED committed
     \/ committed' = [committed EXCEPT ![p] = OffsetAfter(g, p)]
  /\ Quit(g, p)
-----------------------------------------------------------------------------
GroupStep(g) ==
  \/ LearnEnd(g)
  \/ Rejoin(g)
  \/ LeaveGroup(g)

ConsumeStep(g) ==
  \/ Start(g)
  \/ Finish(g)
  \/ Abort(g)
  \/ Receive(g)
  \/ Own(g)
  \/ StartWorkers(g)
  \/ Unready(g)
  \/ Disown(g)
  \/ GoRound(g)
  \/ GoOut(g)

CloseStep(g) ==
  \/ CloseReady(g)
  \/ CloseOwnership(g)

WorkerStep(g, p) ==
  \/ StartWorker(g, p)
  \/ Fetch(g, p)
  \/ Leave(g, p)
  \/ Handle(g, p)
  \/ Commit(g, p)
  \/ Refused(g, p)

Disturbance(g) ==
  \/ GiveUp(g)
  \/ Retry(g)
  \/ Cancel(g)
  \/ Crash(g)
  \/ \E p \in Partitions : \/ Stray(g, p)
                           \/ FetchFails(g, p)
                           \/ HandlerFails(g, p)
                           \/ CommitFails(g, p)

BrokerStep == \E owner \in [Partitions -> Joining] : Rebalance(owner)

Next ==
  \/ \E p \in Partitions, kind \in Kinds : Produce(p, kind)
  \/ BrokerStep
  \/ \E owner \in [Partitions -> Joining] : Evict(owner)
  \/ \E g \in Gateways : \/ GroupStep(g)
                         \/ ConsumeStep(g)
                         \/ CloseStep(g)
                         \/ Disturbance(g)
  \/ \E g \in Gateways, p \in Partitions : WorkerStep(g, p)

(* Goroutines run, heartbeats get through, the coordinator completes a     *)
(* rebalance.  Nothing makes producers produce or things go wrong.         *)
Fairness ==
  /\ WF_vars(BrokerStep)
  /\ \A g \in Gateways : /\ WF_vars(GroupStep(g))
                         /\ WF_vars(ConsumeStep(g))
                         /\ WF_vars(CloseStep(g))
  /\ \A g \in Gateways, p \in Partitions : WF_vars(WorkerStep(g, p))

Spec == Init /\ [][Next]_vars /\ Fairness
-----------------------------------------------------------------------------
(* Every variable keeps its type, and no offset lies beyond the end of its *)
(* partition.                                                              *)
TypeOK ==
  /\ log \in [Partitions -> Seq(Kinds)]
  /\ committed \in [Partitions -> Nat]
  /\ \A p \in Partitions : committed[p] <= Len(log[p])
  /\ rebalancing \in BOOLEAN
  /\ faults \in Nat
  /\ grp \in [Gateways -> {"out", "joining", "offering", "member"}]
  /\ offer \in [Gateways -> [plan : SUBSET Partitions,
                             start : [Partitions -> Nat],
                             current : BOOLEAN]]
  /\ current \in [Gateways -> BOOLEAN]
  /\ stop \in [Gateways -> {"running", "cancelled", "unready", "closed"}]
  /\ pc \in [Gateways -> {"starting", "joining", "lookup", "owning", "consuming",
                          "ending", "returned", "stopped"}]
  /\ plan \in [Gateways -> SUBSET Partitions]
  /\ assigned \in [Gateways -> SUBSET Partitions]
  /\ ready \in [Gateways -> BOOLEAN]
  /\ ended \in [Gateways -> BOOLEAN]
  /\ late \in [Gateways -> SUBSET Partitions]
  /\ failed \in [Gateways -> BOOLEAN]
  /\ worker \in [Gateways ->
       [Partitions -> {"none", "due", "fetching", "handling", "committing"}]]
  /\ next \in [Gateways -> [Partitions -> Nat]]
  /\ handled \in [Partitions -> SUBSET Nat]
  /\ strays \in Nat

(* The valid danmaku among the first n of partition p have been handled. *)
HandledUpTo(p, n) ==
  \A o \in 0..(n - 1) : log[p][o + 1] = "valid" => o \in handled[p]

(* At least once: an offset is committed only when every valid danmaku     *)
(* below it has been handed to the rooms of some gateway, whatever failed, *)
(* crashed or was evicted between handler and commit.                      *)
NoSilentLoss == \A p \in Partitions : HandledUpTo(p, committed[p])

(* Redelivery repeats messages but never overtakes: when a valid danmaku   *)
(* has been handled, so have all valid ones before it in its partition,    *)
(* even with an evicted gateway still consuming beside the new owner.      *)
HandledInOrder == \A p \in Partitions : \A o \in handled[p] : HandledUpTo(p, o)

(* No commit takes the group back to an offset it had passed. *)
CommitsAdvance ==
  [][\A p \in Partitions : committed'[p] >= committed[p]]_vars

(* While a worker consumes a partition its gateway tells clients that it   *)
(* owns it: ownership is published before the first worker starts and      *)
(* withdrawn after the last one has returned, unless the server stops.     *)
WorkersWithinOwnership ==
  \A g \in Gateways, p \in Partitions :
    worker[g][p] # "none" /\ ~Cancelled(g) => p \in assigned[g]

(* A partition has one owner in its generation.  Two gateways show it as   *)
(* theirs, and their clients split into two rooms, only while one of them  *)
(* still shows an older generation: one that it knows to be over, because  *)
(* kafka-go joins again while Consume is between Next and                  *)
(* clearAssignedPartitions, or, after a fault, one it was evicted from.    *)
OwnersDisjoint ==
  \A g, h \in Gateways : g # h =>
    \A p \in assigned[g] \cap assigned[h] :
      \E x \in {g, h} : ~current[x] /\ (ended[x] \/ faults > 0)

(* As long as nothing fails every danmaku is handled once: rebalances and  *)
(* shutdowns redeliver nothing, wherever Consume is when they come,        *)
(* because a worker that kafka-go knows of commits before the group goes   *)
(* on.  The exception is a worker started when its generation was over,    *)
(* which the next generation does not wait for, and which got a message.   *)
NoNeedlessRedelivery ==
  \A g \in Gateways, p \in Partitions :
    worker[g][p] = "handling" /\ next[g][p] \in handled[p] =>
      faults > 0 \/ strays > 0

(* The bus behind the interface of bus.go, with a lane for each partition: *)
(* with any number of gateways on it, danmaku are handed over in order and *)
(* none is passed over, but for those no handler could take.               *)
Abstract == INSTANCE OrderedBus WITH
  Lanes <- Partitions,
  Payloads <- Kinds,
  Valid <- {"valid"},
  queued <- log,
  handed <- handled

ImplementsBus == Abstract!OrderedSpec

(* Every valid danmaku is handled in the end, after any bounded number of  *)
(* crashes, evictions and failures, and however many poison messages come  *)
(* before it, unless every gateway is shut down.                           *)
EveryDanmakuHandled ==
  \A p \in Partitions, o \in 0..(MaxLog - 1) :
    (Len(log[p]) > o /\ log[p][o + 1] = "valid")
      ~> (o \in handled[p] \/ \A g \in Gateways : Cancelled(g))

(* A gateway that shows partitions of an older generation takes notice:    *)
(* the clients of a partition are not split between two gateways for good, *)
(* whatever was evicted, crashed or started late.                          *)
StaleOwnersLetGo ==
  \A g \in Gateways :
    assigned[g] # {} /\ ~current[g] ~> assigned[g] = {}

(* A gateway that is shut down lets go: its consumer goroutine ends, and   *)
(* it is neither ready nor the owner of anything afterwards, although      *)
(* Consume may set both after Close has cleared them.                      *)
StopWithdraws ==
  \A g \in Gateways :
    Cancelled(g) ~> [](pc[g] = "stopped" /\ ~ready[g] /\ assigned[g] = {})
=============================================================================
