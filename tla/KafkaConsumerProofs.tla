------------------------ MODULE KafkaConsumerProofs ------------------------
(***************************************************************************)
(* KafkaConsumer's safety for any number of gateways, partitions, messages, *)
(* faults and strays.                                                      *)
(***************************************************************************)
EXTENDS KafkaConsumer, TLAPS

(* A worker is never ahead of what was handled, nor of the partition, and  *)
(* no generation on offer starts one there.                                *)
Offsets ==
  \A g \in Gateways, p \in Partitions :
    /\ next[g][p] <= Len(log[p])
    /\ HandledUpTo(p, next[g][p])
    /\ worker[g][p] \in {"handling", "committing"} => next[g][p] < Len(log[p])
    /\ worker[g][p] = "committing" => HandledUpTo(p, next[g][p] + 1)
    /\ offer[g].start[p] <= Len(log[p])
    /\ HandledUpTo(p, offer[g].start[p])

(* Only what is in a partition can have been handled. *)
HandledExist == \A p \in Partitions : \A o \in handled[p] : o < Len(log[p])

(* Workers run while consumeGeneration does, on assigned partitions. *)
AtWork ==
  \A g \in Gateways, p \in Partitions :
    worker[g][p] # "none" => pc[g] = "consuming" /\ p \in plan[g]

(* The current generation, taken or still on offer, shares the partitions  *)
(* out, and nobody is in it twice.                                         *)
OneOwner ==
  \A g, h \in Gateways :
    /\ g # h /\ current[g] /\ current[h] => plan[g] \cap plan[h] = {}
    /\ g # h /\ current[g] /\ offer[h].current => plan[g] \cap offer[h].plan = {}
    /\ g # h /\ offer[g].current /\ offer[h].current =>
         offer[g].plan \cap offer[h].plan = {}
    /\ ~(current[g] /\ offer[g].current)

(* Who will commit in the current generation stands at the committed       *)
(* offset, which nobody else can move.                                     *)
InStep ==
  \A g \in Gateways, p \in Partitions :
    /\ /\ current[g]
       /\ p \in plan[g]
       /\ pc[g] \in {"lookup", "owning"} \/ worker[g][p] # "none"
       => next[g][p] = committed[p]
    /\ offer[g].current /\ p \in offer[g].plan =>
         offer[g].start[p] = committed[p]

(* Between Own and the end of the workers the gateway shows its plan. *)
Published ==
  \A g \in Gateways :
    pc[g] \in {"owning", "consuming"} /\ ~Cancelled(g) => assigned[g] = plan[g]

(* What a gateway shows is part of its plan, and nothing outside of its    *)
(* generation.                                                             *)
Shown ==
  \A g \in Gateways :
    /\ assigned[g] \subseteq plan[g]
    /\ assigned[g] # {} => pc[g] \in {"owning", "consuming", "ending"}

(* kafka-go stays in a generation until it is over and its workers, but    *)
(* for the late ones, are gone.                                            *)
Member ==
  \A g \in Gateways :
    /\ ~ended[g] => grp[g] = "member"
    /\ \A p \in Partitions :
         worker[g][p] \in {"fetching", "handling", "committing"} /\ p \notin late[g] =>
           grp[g] = "member"

(* As long as nothing fails nobody is evicted. *)
Current ==
  faults = 0 =>
    \A g \in Gateways :
      /\ grp[g] = "member" => current[g]
      /\ grp[g] = "offering" => offer[g].current

(* Late workers that get no message do nothing. *)
LateIdle ==
  strays = 0 =>
    \A g \in Gateways : \A p \in late[g] :
      worker[g][p] \notin {"handling", "committing"}

(* As long as nothing fails or strays what is handled is committed, or     *)
(* about to be.                                                            *)
Once ==
  faults = 0 /\ strays = 0 =>
    \A p \in Partitions : \A o \in handled[p] :
      \/ o < committed[p]
      \/ \E g \in Gateways : worker[g][p] = "committing" /\ o = next[g][p]

(* The inductive invariant. *)
IInv ==
  /\ TypeOK
  /\ Offsets
  /\ HandledExist
  /\ NoSilentLoss
  /\ HandledInOrder
  /\ AtWork
  /\ OneOwner
  /\ InStep
  /\ Published
  /\ Shown
  /\ Member
  /\ Current
  /\ LateIdle
  /\ Once
-----------------------------------------------------------------------------
(* Writing one entry of a table indexed by gateway and partition.          *)
LEMMA NestedWrite ==
  ASSUME NEW C, NEW f \in [Gateways -> [Partitions -> C]],
         NEW g \in Gateways, NEW p \in Partitions, NEW x \in C
  PROVE  LET e == [f EXCEPT ![g][p] = x] IN
         /\ e \in [Gateways -> [Partitions -> C]]
         /\ \A h \in Gateways, q \in Partitions :
              e[h][q] = IF h = g /\ q = p THEN x ELSE f[h][q]
<1>1. [f[g] EXCEPT ![p] = x] \in [Partitions -> C]
  OBVIOUS
<1> QED BY <1>1

(* HandledUpTo as a fact about one partition's messages and the offsets    *)
(* that were handled.                                                      *)
Complete(l, done, n) == \A o \in 0..(n - 1) : l[o + 1] = "valid" => o \in done

(* Appending to a partition and handling more leaves it complete. *)
LEMMA CompleteGrows ==
  ASSUME NEW l \in Seq(Kinds), NEW m, NEW a, NEW b, NEW n \in Nat,
         n <= Len(l), \A i \in 1..Len(l) : m[i] = l[i], a \subseteq b,
         Complete(l, a, n)
  PROVE  Complete(m, b, n)
<1> SUFFICES ASSUME NEW o \in 0..(n - 1), m[o + 1] = "valid"
             PROVE  o \in b
  BY DEF Complete
<1>1. o + 1 \in 1..Len(l)
  OBVIOUS
<1>2. l[o + 1] = "valid"
  BY <1>1
<1> QED BY <1>2 DEF Complete

(* Handling, or skipping, the message at offset n completes n + 1. *)
LEMMA CompleteNext ==
  ASSUME NEW l, NEW a, NEW n \in Nat, Complete(l, a, n),
         l[n + 1] = "valid" => n \in a
  PROVE  Complete(l, a, n + 1)
<1> SUFFICES ASSUME NEW o \in 0..n, l[o + 1] = "valid"
             PROVE  o \in a
  BY DEF Complete
<1> QED BY DEF Complete
-----------------------------------------------------------------------------
(* The actions by what they touch: the goroutines of a gateway, or a worker. *)
Control(g) ==
  \/ LearnEnd(g) \/ Rejoin(g) \/ LeaveGroup(g)
  \/ Start(g) \/ Finish(g) \/ GiveUp(g) \/ Abort(g) \/ Retry(g) \/ Receive(g)
  \/ Own(g) \/ StartWorkers(g) \/ Unready(g) \/ Disown(g) \/ GoRound(g)
  \/ GoOut(g) \/ Crash(g) \/ Cancel(g) \/ CloseReady(g) \/ CloseOwnership(g)

Work(g, p) ==
  \/ StartWorker(g, p) \/ Fetch(g, p) \/ Stray(g, p) \/ Leave(g, p)
  \/ Handle(g, p) \/ Commit(g, p) \/ Refused(g, p)
  \/ FetchFails(g, p) \/ HandlerFails(g, p) \/ CommitFails(g, p)

(* Every step is a producer's, the coordinator's, a gateway's or a worker's. *)
LEMMA NextCases ==
  ASSUME [Next]_vars
  PROVE  \/ \E p \in Partitions, kind \in Kinds : Produce(p, kind)
         \/ \E owner \in [Partitions -> Joining] :
              /\ NewGeneration(owner)
              /\ (Active = {} /\ UNCHANGED faults) \/ Fault
         \/ \E g \in Gateways : Control(g)
         \/ \E g \in Gateways, p \in Partitions : Work(g, p)
         \/ UNCHANGED vars
  BY DEF Next, BrokerStep, Rebalance, Evict, GroupStep, ConsumeStep, CloseStep,
         WorkerStep, Disturbance, Control, Work

Workers == {"none", "due", "fetching", "handling", "committing"}
Places == {"starting", "joining", "lookup", "owning", "consuming", "ending",
           "returned", "stopped"}
Generations == [plan : SUBSET Partitions, start : [Partitions -> Nat],
                current : BOOLEAN]

(* What a control step can do to the generations of a gateway: nothing,    *)
(* except that one it holds may expire or a new one be withdrawn ...       *)
Kept(h) ==
  /\ plan'[h] = plan[h] /\ next'[h] = next[h]
  /\ current'[h] = current[h] \/ ~current'[h]
  /\ offer'[h] = offer[h] \/ offer'[h] = NoOffer
  /\ pc'[h] \in {"lookup", "owning"} => pc[h] \in {"lookup", "owning"}

(* ... or Consume drops it ... *)
Dropped(h) ==
  /\ plan'[h] = {} /\ next'[h] = AtZero
  /\ current'[h] = current[h] \/ ~current'[h]
  /\ offer'[h] = offer[h] \/ offer'[h] = NoOffer
  /\ worker'[h] = Nowhere

(* ... or takes the one on offer. *)
Received(h) ==
  /\ plan'[h] = offer[h].plan /\ next'[h] = offer[h].start
  /\ current'[h] = offer[h].current
  /\ offer'[h] = NoOffer
  /\ worker'[h] = Nowhere

(* A running worker is left alone, or has yet to be started. *)
Undisturbed(h) ==
  \A q \in Partitions :
    worker'[h][q] # "none" =>
      \/ worker'[h][q] = worker[h][q] /\ pc'[h] = pc[h]
      \/ /\ worker'[h][q] = "due"
         /\ pc[h] = "owning"
         /\ pc'[h] = "consuming"
         /\ q \in plan[h]

ControlEffect ==
  /\ UNCHANGED <<log, committed, handled, strays>>
  /\ \A h \in Gateways : Undisturbed(h) /\ (Kept(h) \/ Dropped(h) \/ Received(h))

(* A gateway that is not consuming has no worker. *)
LEMMA Idle ==
  ASSUME TypeOK, AtWork, NEW g \in Gateways, pc[g] # "consuming"
  PROVE  worker[g] = Nowhere
<1>1. worker[g] \in [Partitions -> Workers]
  BY DEF TypeOK, Workers
<1>2. \A p \in Partitions : worker[g][p] = "none"
  BY DEF AtWork
<1> QED BY <1>1, <1>2 DEF Nowhere

(* Each control step has that effect. *)
LEMMA ControlLemma ==
  ASSUME TypeOK, AtWork, NEW g \in Gateways, Control(g)
  PROVE  ControlEffect
<1>t. /\ pc \in [Gateways -> Places] /\ worker \in [Gateways -> [Partitions -> Workers]]
      /\ plan \in [Gateways -> SUBSET Partitions]
      /\ next \in [Gateways -> [Partitions -> Nat]]
      /\ current \in [Gateways -> BOOLEAN] /\ offer \in [Gateways -> Generations]
      /\ grp \in [Gateways -> {"out", "joining", "offering", "member"}]
  BY DEF TypeOK, Places, Workers, Generations
<1>i. pc[g] # "consuming" => worker[g] = Nowhere
  BY Idle
<1>n. \A q \in Partitions : Nowhere[q] = "none"
  BY DEF Nowhere
<1> USE DEF groupVars, consumeVars, workerVars, brokerVars, ControlEffect,
            Undisturbed, Kept
<1>1. CASE LearnEnd(g) \/ Rejoin(g) \/ LeaveGroup(g)
  BY <1>1, <1>t DEF LearnEnd, Rejoin, LeaveGroup, Join, Depart
<1>2. CASE Start(g) \/ Finish(g) \/ Retry(g)
  BY <1>2, <1>t, <1>i, <1>n DEF Start, Finish, Retry, Join, Goto
<1>3. CASE GiveUp(g) \/ Abort(g) \/ GoOut(g) \/ GoRound(g)
  BY <1>3, <1>t, <1>i, <1>n
  DEF GiveUp, Abort, GoOut, GoRound, Return, Drop, Goto, Dropped
<1>4. CASE Receive(g)
  BY <1>4, <1>t, <1>i, <1>n DEF Receive, Goto, Received
<1>5. CASE Own(g) \/ Disown(g)
  BY <1>5, <1>t, <1>i, <1>n DEF Own, Disown, Goto
<1>6. CASE StartWorkers(g)
  BY <1>6, <1>t DEF StartWorkers, Goto
<1>7. CASE Unready(g)
  BY <1>7, <1>t, <1>n DEF Unready, WorkersDone, Goto
<1>8. CASE Crash(g)
  BY <1>8, <1>t, <1>n DEF Crash, Depart, Drop, Goto, Dropped
<1>9. CASE Cancel(g) \/ CloseReady(g) \/ CloseOwnership(g)
  BY <1>9, <1>t DEF Cancel, CloseReady, CloseOwnership
<1> QED
  BY <1>1, <1>2, <1>3, <1>4, <1>5, <1>6, <1>7, <1>8, <1>9 DEF Control
-----------------------------------------------------------------------------
(* What a worker's step does to its own entry of each table. *)
Fetched(g, p) ==
  /\ worker[g][p] = "fetching"
  /\ worker'[g][p] = "handling"
  /\ next[g][p] < Len(log[p])
  /\ UNCHANGED <<next, committed, handled>>

Started(g, p) ==
  /\ worker[g][p] = "due"
  /\ worker'[g][p] = "fetching"
  /\ UNCHANGED <<next, committed, handled>>

Ended(g, p) ==
  /\ worker'[g][p] = "none"
  /\ UNCHANGED <<next, committed, handled>>

Handled(g, p) ==
  /\ worker[g][p] = "handling"
  /\ worker'[g][p] = "committing"
  /\ handled'[p] \in {handled[p], handled[p] \cup {next[g][p]}}
  /\ log[p][next[g][p] + 1] = "valid" => next[g][p] \in handled'[p]
  /\ UNCHANGED <<next, committed>>

Committed(g, p) ==
  /\ worker[g][p] = "committing"
  /\ current[g]
  /\ committed'[p] = next[g][p] + 1
  /\ \/ worker'[g][p] = "fetching" /\ next'[g][p] = next[g][p] + 1
     \/ worker'[g][p] = "none" /\ next'[g][p] = next[g][p]
  /\ UNCHANGED handled

(* Nothing else changes. *)
OthersKeep(g, p) ==
  /\ UNCHANGED <<log, groupVars, stop, consumeVars>>
  /\ \A h \in Gateways, q \in Partitions : h # g \/ q # p =>
       worker'[h][q] = worker[h][q] /\ next'[h][q] = next[h][q]
  /\ \A q \in Partitions : q # p =>
       committed'[q] = committed[q] /\ handled'[q] = handled[q]

(* The tables a worker writes. *)
WorkType ==
  /\ worker \in [Gateways -> [Partitions -> Workers]]
  /\ next \in [Gateways -> [Partitions -> Nat]]
  /\ committed \in [Partitions -> Nat]
  /\ handled \in [Partitions -> SUBSET Nat]

WorkEffect(g, p) ==
  /\ WorkType'
  /\ OthersKeep(g, p)
  /\ \/ Started(g, p)
     \/ Fetched(g, p)
     \/ Ended(g, p)
     \/ Handled(g, p)
     \/ Committed(g, p)

(* The entry of worker[g][p] after At. *)
LEMMA AtWrite ==
  ASSUME TypeOK, NEW g \in Gateways, NEW p \in Partitions, NEW l \in Workers,
         At(g, p, l)
  PROVE  /\ worker' \in [Gateways -> [Partitions -> Workers]]
         /\ \A h \in Gateways, q \in Partitions :
              worker'[h][q] = IF h = g /\ q = p THEN l ELSE worker[h][q]
<1>1. worker \in [Gateways -> [Partitions -> Workers]]
  BY DEF TypeOK, Workers
<1>2. worker' = [worker EXCEPT ![g][p] = l]
  BY DEF At
<1> QED BY <1>1, <1>2, NestedWrite

(* Each worker step has one of those effects. *)
LEMMA WorkLemma ==
  ASSUME TypeOK, NEW g \in Gateways, NEW p \in Partitions, Work(g, p)
  PROVE  WorkEffect(g, p)
<1> USE DEF WorkEffect, OthersKeep, WorkType, brokerVars
<1>t. /\ next \in [Gateways -> [Partitions -> Nat]]
      /\ committed \in [Partitions -> Nat]
      /\ handled \in [Partitions -> SUBSET Nat]
      /\ next[g][p] \in Nat
  BY DEF TypeOK
<1>l. {"none", "due", "fetching", "handling", "committing"} \subseteq Workers
  BY DEF Workers
<1>0. CASE StartWorker(g, p)
  <2>1. At(g, p, "fetching")
    BY <1>0 DEF StartWorker
  <2> QED BY <1>0, <1>t, <1>l, <2>1, AtWrite DEF StartWorker, Started
<1>1. CASE Fetch(g, p) \/ Stray(g, p)
  <2>1. At(g, p, "handling")
    BY <1>1 DEF Fetch, Stray
  <2> QED BY <1>1, <1>t, <1>l, <2>1, AtWrite DEF Fetch, Stray, Fetched
<1>2. ASSUME At(g, p, "none"), UNCHANGED <<log, groupVars, stop, consumeVars>>,
             UNCHANGED <<next, committed, handled>>
      PROVE  WorkEffect(g, p)
  BY <1>2, <1>t, <1>l, AtWrite DEF Ended
<1>3. CASE Leave(g, p) \/ FetchFails(g, p) \/ HandlerFails(g, p) \/ Refused(g, p)
  BY <1>2, <1>3 DEF Leave, FetchFails, HandlerFails, Refused, Quit
<1>4. CASE Handle(g, p)
  <2>1. At(g, p, "committing")
    BY <1>4 DEF Handle
  <2>2. /\ handled' \in [Partitions -> SUBSET Nat]
        /\ handled'[p] \in {handled[p], handled[p] \cup {next[g][p]}}
        /\ log[p][next[g][p] + 1] = "valid" => next[g][p] \in handled'[p]
        /\ \A q \in Partitions : q # p => handled'[q] = handled[q]
    BY <1>4, <1>t DEF Handle, Skippable
  <2>3. UNCHANGED <<log, groupVars, stop, consumeVars, next, committed>>
        /\ worker[g][p] = "handling"
    BY <1>4 DEF Handle
  <2> QED BY <1>t, <1>l, <2>1, <2>2, <2>3, AtWrite DEF Handled
<1>5. ASSUME current[g], worker[g][p] = "committing",
             committed' = [committed EXCEPT ![p] = OffsetAfter(g, p)],
             UNCHANGED <<log, groupVars, stop, consumeVars, handled>>,
             \/ At(g, p, "fetching") /\ next' = [next EXCEPT ![g][p] = @ + 1]
             \/ At(g, p, "none") /\ UNCHANGED next
      PROVE  WorkEffect(g, p)
  <2>1. /\ committed' \in [Partitions -> Nat]
        /\ committed'[p] = next[g][p] + 1
        /\ \A q \in Partitions : q # p => committed'[q] = committed[q]
    BY <1>5, <1>t DEF OffsetAfter
  <2>2. CASE At(g, p, "fetching") /\ next' = [next EXCEPT ![g][p] = @ + 1]
    <3>1. next' = [next EXCEPT ![g][p] = next[g][p] + 1]
      BY <2>2, <1>t
    <3>2. next[g][p] + 1 \in Nat
      BY <1>t
    <3>3. /\ next' \in [Gateways -> [Partitions -> Nat]]
          /\ \A h \in Gateways, q \in Partitions :
               next'[h][q] = IF h = g /\ q = p THEN next[g][p] + 1 ELSE next[h][q]
      BY <1>t, <3>1, <3>2, NestedWrite
    <3> QED BY <1>5, <1>t, <1>l, <2>1, <2>2, <3>3, AtWrite DEF Committed
  <2>3. CASE At(g, p, "none") /\ UNCHANGED next
    BY <1>5, <1>t, <1>l, <2>1, <2>3, AtWrite DEF Committed
  <2> QED BY <1>5, <2>2, <2>3
<1>6. CASE Commit(g, p)
  BY <1>5, <1>6 DEF Commit
<1>7. CASE CommitFails(g, p)
  BY <1>2, <1>5, <1>7 DEF CommitFails, Quit
<1> QED
  BY <1>0, <1>1, <1>3, <1>4, <1>6, <1>7 DEF Work
-----------------------------------------------------------------------------
(* Types.                                                                  *)

(* Every control step keeps the types. *)
LEMMA ControlType ==
  ASSUME TypeOK, NEW g \in Gateways, Control(g)
  PROVE  TypeOK'
<1>n. /\ AtZero \in [Partitions -> Nat] /\ Nowhere \in [Partitions -> Workers]
      /\ NoOffer \in Generations
  BY DEF AtZero, Nowhere, NoOffer, Workers, Generations
<1>o. offer[g] \in Generations /\ offer[g].plan \subseteq Partitions
      /\ offer[g].start \in [Partitions -> Nat] /\ offer[g].current \in BOOLEAN
  BY DEF TypeOK, Generations
<1> USE DEF TypeOK, groupVars, consumeVars, workerVars, brokerVars, Goto, Release,
            SetOwnership, Fault, Join, Depart, Drop, Workers, Generations
<1>1. CASE LearnEnd(g)
  BY <1>1 DEF LearnEnd
<1>2. CASE Rejoin(g)
  BY <1>2, <1>n DEF Rejoin
<1>3. CASE LeaveGroup(g)
  BY <1>3, <1>n DEF LeaveGroup
<1>4. CASE Start(g)
  BY <1>4, <1>n DEF Start
<1>5. CASE Finish(g)
  BY <1>5 DEF Finish
<1>6. CASE Retry(g)
  BY <1>6, <1>n DEF Retry
<1>7. CASE GiveUp(g)
  BY <1>7, <1>n DEF GiveUp, Return
<1>8. CASE Abort(g)
  BY <1>8, <1>n DEF Abort, Return
<1>9. CASE GoOut(g)
  BY <1>9, <1>n DEF GoOut, Return
<1>10. CASE GoRound(g)
  BY <1>10, <1>n DEF GoRound
<1>11. CASE Receive(g)
  BY <1>11, <1>n, <1>o DEF Receive
<1>12. CASE Own(g)
  BY <1>12 DEF Own
<1>13. CASE Disown(g)
  BY <1>13 DEF Disown
<1>14. CASE StartWorkers(g)
  BY <1>14 DEF StartWorkers
<1>15. CASE Unready(g)
  BY <1>15 DEF Unready
<1>16. CASE Crash(g)
  BY <1>16, <1>n DEF Crash
<1>17. CASE Cancel(g)
  BY <1>17 DEF Cancel
<1>18. CASE CloseReady(g)
  BY <1>18 DEF CloseReady
<1>19. CASE CloseOwnership(g)
  BY <1>19 DEF CloseOwnership
<1> QED
  BY <1>1, <1>2, <1>3, <1>4, <1>5, <1>6, <1>7, <1>8, <1>9, <1>10,
     <1>11, <1>12, <1>13, <1>14, <1>15, <1>16, <1>17, <1>18, <1>19
  DEF Control

(* Every worker step keeps the types; a commit stays within the partition  *)
(* because its worker does.                                                *)
LEMMA WorkTypes ==
  ASSUME TypeOK, Offsets, NEW g \in Gateways, NEW p \in Partitions, Work(g, p)
  PROVE  TypeOK'
<1>1. WorkEffect(g, p)
  BY WorkLemma
<1>0. late' \in [Gateways -> SUBSET Partitions]
  <2>1. late \in [Gateways -> SUBSET Partitions]
    BY DEF TypeOK
  <2>2. late' = late \/ late' = [late EXCEPT ![g] = late[g] \cup {p}]
    BY <2>1 DEF Work, StartWorker, Fetch, Stray, Leave, Handle, Commit, Refused,
                FetchFails, HandlerFails, CommitFails, Quit
  <2> QED BY <2>1, <2>2
<1>2. /\ ended' \in [Gateways -> BOOLEAN]
      /\ failed' \in [Gateways -> BOOLEAN]
  BY DEF TypeOK, Work, StartWorker, Fetch, Stray, Leave, Handle, Commit, Refused,
         FetchFails, HandlerFails, CommitFails, Quit
<1>3. faults' \in Nat /\ strays' \in Nat
  BY DEF TypeOK, Work, StartWorker, Fetch, Stray, Leave, Handle, Commit, Refused,
         FetchFails, HandlerFails, CommitFails, Quit, Fault
<1>r. UNCHANGED rebalancing
  BY DEF Work, StartWorker, Fetch, Stray, Leave, Handle, Commit, Refused,
         FetchFails, HandlerFails, CommitFails, Quit, brokerVars
<1>4. \A q \in Partitions : committed'[q] <= Len(log'[q])
  <2> SUFFICES ASSUME NEW q \in Partitions PROVE committed'[q] <= Len(log[q])
    BY <1>1 DEF WorkEffect, OthersKeep
  <2>1. committed[q] <= Len(log[q]) /\ Len(log[p]) \in Nat
    BY DEF TypeOK
  <2>2. CASE UNCHANGED committed
    BY <2>1, <2>2
  <2>3. CASE Committed(g, p) /\ q = p
    <3>1. next[g][p] < Len(log[p]) /\ next[g][p] \in Nat
      BY <2>3 DEF Committed, Offsets, TypeOK
    <3> QED BY <2>1, <2>3, <3>1 DEF Committed
  <2>4. CASE q # p
    BY <1>1, <2>1, <2>4 DEF WorkEffect, OthersKeep
  <2> QED
    BY <1>1, <2>2, <2>3, <2>4 DEF WorkEffect, Started, Fetched, Ended, Handled
<1> QED
  BY <1>0, <1>1, <1>2, <1>3, <1>4, <1>r
  DEF WorkEffect, WorkType, OthersKeep, Workers, TypeOK, groupVars, consumeVars

(* A new generation keeps the types. *)
LEMMA GenerationType ==
  ASSUME TypeOK, NEW owner \in [Partitions -> Joining], NewGeneration(owner),
         UNCHANGED faults \/ Fault
  PROVE  TypeOK'
<1>1. /\ grp' \in [Gateways -> {"out", "joining", "offering", "member"}]
      /\ current' \in [Gateways -> BOOLEAN]
      /\ rebalancing' \in BOOLEAN
  BY DEF NewGeneration, TypeOK
<1>2. offer' \in [Gateways -> Generations]
  <2> SUFFICES ASSUME NEW g \in Gateways PROVE offer'[g] \in Generations
    BY DEF NewGeneration
  <2>1. CASE g \in Joining
    <3>1. [p \in Partitions |-> IF owner[p] = g THEN StartOffset(p) ELSE 0]
            \in [Partitions -> Nat]
      BY DEF StartOffset, TypeOK
    <3> QED BY <2>1, <3>1 DEF NewGeneration, Generations
  <2>2. CASE g \notin Joining
    BY <2>2 DEF NewGeneration, Generations, TypeOK
  <2> QED BY <2>1, <2>2
<1>3. faults' \in Nat
  BY DEF Fault, TypeOK
<1> QED
  BY <1>1, <1>2, <1>3
  DEF NewGeneration, TypeOK, Generations, consumeVars, workerVars

(* Every step keeps every variable in its type. *)
LEMMA TypeStep == TypeOK /\ Offsets /\ [Next]_vars => TypeOK'
<1> SUFFICES ASSUME TypeOK, Offsets, [Next]_vars PROVE TypeOK'
  OBVIOUS
<1>1. ASSUME NEW p \in Partitions, NEW kind \in Kinds, Produce(p, kind)
      PROVE  TypeOK'
  <2>1. Append(log[p], kind) \in Seq(Kinds)
        /\ Len(Append(log[p], kind)) = Len(log[p]) + 1
    BY DEF TypeOK
  <2>2. log' \in [Partitions -> Seq(Kinds)]
    BY <1>1, <2>1 DEF Produce, TypeOK
  <2>3. \A q \in Partitions : Len(log'[q]) >= Len(log[q])
    BY <1>1, <2>1 DEF Produce, TypeOK
  <2>4. \A q \in Partitions : committed'[q] <= Len(log'[q])
    <3> SUFFICES ASSUME NEW q \in Partitions PROVE committed[q] <= Len(log'[q])
      BY <1>1 DEF Produce
    <3>1. /\ committed[q] \in Nat /\ Len(log[q]) \in Nat
          /\ Len(log'[q]) \in Nat /\ committed[q] <= Len(log[q])
      BY <2>2 DEF TypeOK
    <3> QED BY <2>3, <3>1
  <2> QED
    BY <1>1, <2>2, <2>4 DEF Produce, TypeOK, groupVars, consumeVars, workerVars
<1>2. CASE UNCHANGED vars
  BY <1>2 DEF vars, groupVars, consumeVars, workerVars, brokerVars, TypeOK
<1> QED
  BY <1>1, <1>2, NextCases, GenerationType, ControlType, WorkTypes
-----------------------------------------------------------------------------
(* Who works where.                                                        *)

(* A worker step is one of a worker that is there. *)
LEMMA WorkerThere ==
  ASSUME NEW g \in Gateways, NEW p \in Partitions, Work(g, p)
  PROVE  worker[g][p] # "none"
  BY DEF Work, StartWorker, Fetch, Stray, Leave, Handle, Commit, Refused,
         FetchFails, HandlerFails, CommitFails

(* Workers run only in consumeGeneration, on the gateway's own partitions. *)
LEMMA AtWorkStep == TypeOK /\ AtWork /\ [Next]_vars => AtWork'
<1> SUFFICES ASSUME TypeOK, AtWork, [Next]_vars,
                    NEW h \in Gateways, NEW q \in Partitions,
                    worker'[h][q] # "none"
             PROVE  pc'[h] = "consuming" /\ q \in plan'[h]
  BY DEF AtWork
<1>1. ASSUME UNCHANGED <<consumeVars, worker>>
      PROVE  pc'[h] = "consuming" /\ q \in plan'[h]
  BY <1>1 DEF consumeVars, AtWork
<1>2. ASSUME NEW owner \in [Partitions -> Joining], NewGeneration(owner)
      PROVE  pc'[h] = "consuming" /\ q \in plan'[h]
  BY <1>1, <1>2 DEF NewGeneration, workerVars
<1>3. ASSUME NEW g \in Gateways, Control(g)
      PROVE  pc'[h] = "consuming" /\ q \in plan'[h]
  <2>1. Undisturbed(h) /\ (Kept(h) \/ Dropped(h) \/ Received(h))
    BY <1>3, ControlLemma DEF ControlEffect
  <2>2. worker'[h] # Nowhere
    BY DEF Nowhere
  <2> QED BY <2>1, <2>2 DEF Undisturbed, Kept, Dropped, Received, AtWork
<1>4. ASSUME NEW g \in Gateways, NEW p \in Partitions, Work(g, p)
      PROVE  pc'[h] = "consuming" /\ q \in plan'[h]
  <2>1. WorkEffect(g, p)
    BY <1>4, WorkLemma
  <2>2. worker[h][q] # "none"
    BY <1>4, <2>1, WorkerThere DEF WorkEffect, OthersKeep
  <2> QED BY <2>1, <2>2 DEF WorkEffect, OthersKeep, consumeVars, AtWork
<1>5. ASSUME NEW p \in Partitions, NEW kind \in Kinds, Produce(p, kind)
      PROVE  pc'[h] = "consuming" /\ q \in plan'[h]
  BY <1>1, <1>5 DEF Produce, workerVars
<1>6. CASE UNCHANGED vars
  BY <1>1, <1>6 DEF vars, workerVars
<1> QED BY <1>2, <1>3, <1>4, <1>5, <1>6, NextCases

(* What is on offer in a new generation. *)
LEMMA Offered ==
  ASSUME TypeOK, NEW owner \in [Partitions -> Joining], NewGeneration(owner),
         NEW h \in Gateways
  PROVE  /\ ~current'[h]
         /\ offer'[h].current => h \in Joining
         /\ h \in Joining =>
              /\ offer'[h].current
              /\ offer'[h].plan = {p \in Partitions : owner[p] = h}
              /\ \A p \in Partitions : owner[p] = h =>
                   offer'[h].start[p] = committed[p]
         /\ \A p \in Partitions :
              offer'[h].start[p] \in {offer[h].start[p], 0, committed[p]}
<1>1. CASE h \in Joining
  BY <1>1 DEF NewGeneration, StartOffset
<1>2. CASE h \notin Joining
  BY <1>2 DEF NewGeneration
<1> QED BY <1>1, <1>2

(* The current generation stays shared out. *)
LEMMA OwnerStep == TypeOK /\ AtWork /\ OneOwner /\ [Next]_vars => OneOwner'
<1> SUFFICES ASSUME TypeOK, AtWork, OneOwner, [Next]_vars PROVE OneOwner'
  OBVIOUS
<1>1. ASSUME UNCHANGED <<current, offer, plan>> PROVE OneOwner'
  BY <1>1 DEF OneOwner
<1>2. ASSUME NEW owner \in [Partitions -> Joining], NewGeneration(owner)
      PROVE  OneOwner'
  <2> SUFFICES ASSUME NEW g \in Gateways, NEW h \in Gateways, g # h,
                      offer'[g].current, offer'[h].current
               PROVE  offer'[g].plan \cap offer'[h].plan = {}
    BY <1>2, Offered DEF OneOwner
  <2> QED BY <1>2, Offered
<1>3. ASSUME NEW f \in Gateways, Control(f) PROVE OneOwner'
  <2>1. \A h \in Gateways : Kept(h) \/ Dropped(h) \/ Received(h)
    BY <1>3, ControlLemma DEF ControlEffect
  <2>2. ~NoOffer.current
    BY DEF NoOffer
  <2>3. ASSUME NEW h \in Gateways, current'[h]
        PROVE  \/ current[h] /\ plan'[h] \subseteq plan[h]
               \/ /\ offer[h].current /\ plan'[h] = offer[h].plan
                  /\ ~offer'[h].current
    BY <2>1, <2>2, <2>3 DEF Kept, Dropped, Received
  <2>4. ASSUME NEW h \in Gateways, offer'[h].current
        PROVE  offer[h].current /\ offer'[h].plan = offer[h].plan
    BY <2>1, <2>2, <2>4 DEF Kept, Dropped, Received
  <2> QED BY <2>3, <2>4 DEF OneOwner
<1>4. ASSUME NEW g \in Gateways, NEW p \in Partitions, Work(g, p)
      PROVE  OneOwner'
  BY <1>1, <1>4, WorkLemma DEF WorkEffect, OthersKeep, groupVars, consumeVars
<1>5. ASSUME NEW p \in Partitions, NEW kind \in Kinds, Produce(p, kind)
      PROVE  OneOwner'
  BY <1>1, <1>5 DEF Produce, groupVars, consumeVars
<1>6. CASE UNCHANGED vars
  BY <1>1, <1>6 DEF vars, groupVars, consumeVars
<1> QED BY <1>2, <1>3, <1>4, <1>5, <1>6, NextCases

(* A worker of the current generation stays at the committed offset of its *)
(* partition, and so does a generation on offer: nobody else of that       *)
(* generation may commit there.                                            *)
LEMMA InStepStep ==
  TypeOK /\ AtWork /\ OneOwner /\ InStep /\ [Next]_vars => InStep'
<1> SUFFICES ASSUME TypeOK, AtWork, OneOwner, InStep, [Next]_vars,
                    NEW h \in Gateways, NEW q \in Partitions
             PROVE  /\ /\ current'[h]
                       /\ q \in plan'[h]
                       /\ pc'[h] \in {"lookup", "owning"} \/ worker'[h][q] # "none"
                       => next'[h][q] = committed'[q]
                    /\ offer'[h].current /\ q \in offer'[h].plan =>
                         offer'[h].start[q] = committed'[q]
  BY DEF InStep
<1> DEFINE Goal == /\ /\ current'[h]
                      /\ q \in plan'[h]
                      /\ pc'[h] \in {"lookup", "owning"} \/ worker'[h][q] # "none"
                      => next'[h][q] = committed'[q]
                   /\ offer'[h].current /\ q \in offer'[h].plan =>
                        offer'[h].start[q] = committed'[q]
<1>1. ASSUME UNCHANGED <<committed, groupVars, consumeVars, next, worker>>
      PROVE  Goal
  BY <1>1 DEF InStep, groupVars, consumeVars
<1>2. ASSUME NEW owner \in [Partitions -> Joining], NewGeneration(owner)
      PROVE  Goal
  <2>1. UNCHANGED committed
    BY <1>2 DEF NewGeneration
  <2> QED BY <1>2, <2>1, Offered
<1>3. ASSUME NEW g \in Gateways, Control(g)
      PROVE  Goal
  <2>1. /\ UNCHANGED committed /\ Undisturbed(h)
        /\ Kept(h) \/ Dropped(h) \/ Received(h)
    BY <1>3, ControlLemma DEF ControlEffect
  <2>2. ~NoOffer.current
    BY DEF NoOffer
  <2>3. CASE Kept(h)
    BY <2>1, <2>2, <2>3 DEF Kept, Undisturbed, InStep
  <2>4. CASE Dropped(h) \/ Received(h)
    BY <2>1, <2>2, <2>4 DEF Dropped, Received, InStep
  <2> QED BY <2>1, <2>3, <2>4
<1>4. ASSUME NEW g \in Gateways, NEW p \in Partitions, Work(g, p)
      PROVE  Goal
  <2>1. /\ WorkEffect(g, p)
        /\ UNCHANGED <<current, offer, plan, pc>>
    BY <1>4, WorkLemma DEF WorkEffect, OthersKeep, groupVars, consumeVars
  <2>2. worker[g][p] # "none" /\ pc[g] = "consuming" /\ p \in plan[g]
    BY <1>4, WorkerThere DEF AtWork
  <2>3. CASE UNCHANGED committed
    <3>1. next'[h][q] = next[h][q] \/ Committed(g, p)
      BY <2>1 DEF WorkEffect, OthersKeep, Started, Fetched, Ended, Handled
    <3>2. worker'[h][q] # "none" => worker[h][q] # "none"
      BY <2>1, <2>2 DEF WorkEffect, OthersKeep
    <3>3. CASE Committed(g, p)
      <4>1. next[g][p] = committed[p] /\ committed[p] \in Nat
        BY <2>2, <3>3 DEF Committed, InStep, TypeOK
      <4> QED BY <2>3, <3>3, <4>1 DEF Committed
    <3> QED BY <2>1, <2>3, <3>1, <3>2, <3>3 DEF InStep
  <2>4. CASE Committed(g, p)
    <3>1. current[g]
      BY <2>4 DEF Committed
    <3>2. \A f \in Partitions : f # p => committed'[f] = committed[f]
      BY <2>1 DEF WorkEffect, OthersKeep
    <3>3. CASE h = g /\ q = p
      BY <2>1, <2>2, <2>4, <3>1, <3>3 DEF Committed, OneOwner
    <3>4. CASE h # g \/ q # p
      <4>1. next'[h][q] = next[h][q] /\ worker'[h][q] = worker[h][q]
        BY <2>1, <3>4 DEF WorkEffect, OthersKeep
      <4>2. CASE q # p
        BY <2>1, <3>2, <4>1, <4>2 DEF InStep
      <4>3. CASE q = p
        BY <2>1, <2>2, <3>1, <3>4, <4>3 DEF OneOwner
      <4> QED BY <4>2, <4>3
    <3> QED BY <3>3, <3>4
  <2> QED
    BY <2>1, <2>3, <2>4 DEF WorkEffect, Started, Fetched, Ended, Handled
<1>5. ASSUME NEW p \in Partitions, NEW kind \in Kinds, Produce(p, kind)
      PROVE  Goal
  BY <1>1, <1>5 DEF Produce, workerVars
<1>6. CASE UNCHANGED vars
  BY <1>1, <1>6 DEF vars, brokerVars, workerVars
<1> QED BY <1>2, <1>3, <1>4, <1>5, <1>6, NextCases
-----------------------------------------------------------------------------
(* What has been handled.                                                  *)

(* The three invariants about completeness, for one partition. *)
CompleteAt(q) ==
  /\ \A o \in handled[q] : o < Len(log[q])
  /\ HandledUpTo(q, committed[q])
  /\ \A o \in handled[q] : HandledUpTo(q, o)
  /\ \A h \in Gateways :
       /\ next[h][q] <= Len(log[q])
       /\ HandledUpTo(q, next[h][q])
       /\ worker[h][q] \in {"handling", "committing"} => next[h][q] < Len(log[q])
       /\ worker[h][q] = "committing" => HandledUpTo(q, next[h][q] + 1)
       /\ offer[h].start[q] <= Len(log[q])
       /\ HandledUpTo(q, offer[h].start[q])

Completeness == \A q \in Partitions : CompleteAt(q)

(* They are the conjuncts of IInv, partition by partition. *)
LEMMA CompletenessSplit ==
  Completeness <=> Offsets /\ HandledExist /\ NoSilentLoss /\ HandledInOrder
  BY DEF Completeness, CompleteAt, Offsets, HandledExist, NoSilentLoss,
         HandledInOrder

(* A partition on which at most new messages arrive stays complete, with   *)
(* idle workers put back to where a generation on offer starts.            *)
LEMMA CompleteProduced ==
  ASSUME TypeOK, TypeOK', NEW q \in Partitions, CompleteAt(q),
         Len(log[q]) <= Len(log'[q]),
         \A i \in 1..Len(log[q]) : log'[q][i] = log[q][i],
         committed'[q] = committed[q], handled'[q] = handled[q],
         \A h \in Gateways :
           \/ /\ next'[h][q] = next[h][q]
              /\ worker'[h][q] \in {"handling", "committing"} =>
                   worker'[h][q] = worker[h][q]
           \/ /\ next'[h][q] \in {0, offer[h].start[q]}
              /\ worker'[h][q] = "none",
         \A h \in Gateways :
           offer'[h].start[q] \in {offer[h].start[q], 0, committed[q]}
  PROVE  CompleteAt(q)'
<1>t. /\ log[q] \in Seq(Kinds) /\ Len(log[q]) \in Nat /\ Len(log'[q]) \in Nat
      /\ committed[q] \in Nat /\ committed[q] <= Len(log[q])
      /\ handled[q] \subseteq Nat
      /\ \A h \in Gateways : next[h][q] \in Nat /\ offer[h].start[q] \in Nat
  BY DEF TypeOK
<1>g. ASSUME NEW n \in Nat, n <= Len(log[q]), Complete(log[q], handled[q], n)
      PROVE  Complete(log'[q], handled'[q], n) /\ n <= Len(log'[q])
  BY <1>t, <1>g, CompleteGrows
<1>0. Complete(log[q], handled[q], 0)
  BY DEF Complete
<1>c. Complete(log[q], handled[q], committed[q])
  BY DEF CompleteAt, HandledUpTo, Complete
<1>1. \A o \in handled'[q] : o < Len(log'[q])
  BY <1>t DEF CompleteAt
<1>2. Complete(log'[q], handled'[q], committed'[q])
  BY <1>t, <1>g, <1>c
<1>3. \A o \in handled'[q] : Complete(log'[q], handled'[q], o)
  <2> SUFFICES ASSUME NEW o \in handled[q]
               PROVE  Complete(log'[q], handled'[q], o)
    OBVIOUS
  <2>1. o \in Nat /\ o <= Len(log[q])
    BY <1>t DEF CompleteAt
  <2>2. Complete(log[q], handled[q], o)
    BY DEF CompleteAt, HandledUpTo, Complete
  <2> QED BY <1>g, <2>1, <2>2
<1>o. ASSUME NEW h \in Gateways
      PROVE  /\ offer[h].start[q] \in Nat /\ offer[h].start[q] <= Len(log[q])
             /\ Complete(log[q], handled[q], offer[h].start[q])
  BY <1>t DEF CompleteAt, HandledUpTo, Complete
<1>4. ASSUME NEW h \in Gateways
      PROVE  /\ next'[h][q] <= Len(log'[q])
             /\ Complete(log'[q], handled'[q], next'[h][q])
             /\ worker'[h][q] \in {"handling", "committing"} =>
                  next'[h][q] < Len(log'[q])
             /\ worker'[h][q] = "committing" =>
                  Complete(log'[q], handled'[q], next'[h][q] + 1)
  <2>1. CASE next'[h][q] \in {0, offer[h].start[q]} /\ worker'[h][q] = "none"
    BY <1>t, <1>g, <1>0, <1>o, <2>1
  <2>2. CASE /\ next'[h][q] = next[h][q]
             /\ worker'[h][q] \in {"handling", "committing"} =>
                  worker'[h][q] = worker[h][q]
    <3>1. /\ next[h][q] \in Nat /\ next[h][q] <= Len(log[q])
          /\ Complete(log[q], handled[q], next[h][q])
      BY <1>t DEF CompleteAt, HandledUpTo, Complete
    <3>2. Complete(log'[q], handled'[q], next[h][q])
      BY <1>g, <3>1
    <3>3. ASSUME worker'[h][q] \in {"handling", "committing"}
          PROVE  next[h][q] < Len(log[q])
      BY <2>2, <3>3 DEF CompleteAt
    <3>4. ASSUME worker'[h][q] = "committing"
          PROVE  Complete(log'[q], handled'[q], next[h][q] + 1)
      <4>1. Complete(log[q], handled[q], next[h][q] + 1)
        BY <2>2, <3>4 DEF CompleteAt, HandledUpTo, Complete
      <4>2. next[h][q] + 1 \in Nat /\ next[h][q] + 1 <= Len(log[q])
        BY <1>t, <3>1, <3>3, <3>4
      <4> QED BY <1>g, <4>1, <4>2
    <3> QED BY <1>t, <2>2, <3>1, <3>2, <3>3, <3>4
  <2> QED BY <2>1, <2>2
<1>5. ASSUME NEW h \in Gateways
      PROVE  /\ offer'[h].start[q] <= Len(log'[q])
             /\ Complete(log'[q], handled'[q], offer'[h].start[q])
  BY <1>t, <1>g, <1>0, <1>c, <1>o
<1> QED
  BY <1>1, <1>2, <1>3, <1>4, <1>5 DEF CompleteAt, HandledUpTo, Complete

(* A worker's own step keeps its partition complete: it handles the next   *)
(* message before it commits, and commits no more than it handled.         *)
LEMMA CompleteWorked ==
  ASSUME TypeOK, TypeOK', NEW g \in Gateways, NEW p \in Partitions,
         CompleteAt(p), WorkEffect(g, p)
  PROVE  CompleteAt(p)'
<1>t. /\ log[p] \in Seq(Kinds) /\ Len(log[p]) \in Nat
      /\ committed[p] \in Nat /\ committed[p] <= Len(log[p])
      /\ handled[p] \subseteq Nat /\ next[g][p] \in Nat
      /\ \A h \in Gateways : next[h][p] \in Nat /\ offer[h].start[p] \in Nat
  BY DEF TypeOK
<1>u. /\ log'[p] = log[p]
      /\ \A h \in Gateways : h # g =>
           worker'[h][p] = worker[h][p] /\ next'[h][p] = next[h][p]
      /\ offer' = offer
  BY DEF WorkEffect, OthersKeep, groupVars
<1>0. CASE Started(g, p)
  BY <1>0, <1>t, <1>u DEF Started, CompleteAt, HandledUpTo
<1>1. CASE Fetched(g, p)
  BY <1>1, <1>t, <1>u DEF Fetched, CompleteAt, HandledUpTo
<1>2. CASE Ended(g, p)
  BY <1>2, <1>t, <1>u DEF Ended, CompleteAt, HandledUpTo
<1>3. CASE Handled(g, p)
  <2> DEFINE n == next[g][p]
  <2>1. /\ handled[p] \subseteq handled'[p]
        /\ \A o \in handled'[p] : o \in handled[p] \/ o = n
        /\ log[p][n + 1] = "valid" => n \in handled'[p]
        /\ UNCHANGED <<next, committed>>
        /\ worker[g][p] = "handling"
    BY <1>3 DEF Handled
  <2>2. n < Len(log[p]) /\ Complete(log[p], handled[p], n)
    BY <2>1 DEF CompleteAt, HandledUpTo, Complete
  <2>g. ASSUME NEW m \in Nat, m <= Len(log[p]), Complete(log[p], handled[p], m)
        PROVE  Complete(log[p], handled'[p], m)
    BY <1>t, <2>1, <2>g, CompleteGrows
  <2>3. Complete(log[p], handled'[p], n)
    BY <1>t, <2>2, <2>g
  <2>4. Complete(log[p], handled'[p], n + 1)
    BY <1>t, <2>1, <2>3, CompleteNext
  <2>5. \A o \in handled'[p] : o < Len(log[p])
    BY <2>1, <2>2 DEF CompleteAt
  <2>6. Complete(log[p], handled'[p], committed[p])
    BY <1>t, <2>g DEF CompleteAt, HandledUpTo, Complete
  <2>7. ASSUME NEW o \in handled'[p]
        PROVE  Complete(log[p], handled'[p], o)
    <3>1. CASE o = n
      BY <2>3, <3>1
    <3>2. CASE o \in handled[p]
      <4>1. o \in Nat /\ o <= Len(log[p])
        BY <1>t, <3>2 DEF CompleteAt
      <4>2. Complete(log[p], handled[p], o)
        BY <3>2 DEF CompleteAt, HandledUpTo, Complete
      <4> QED BY <2>g, <4>1, <4>2
    <3> QED BY <2>1, <3>1, <3>2
  <2>9. ASSUME NEW h \in Gateways
        PROVE  /\ offer[h].start[p] <= Len(log[p])
               /\ Complete(log[p], handled'[p], offer[h].start[p])
    BY <1>t, <2>g DEF CompleteAt, HandledUpTo, Complete
  <2>8. ASSUME NEW h \in Gateways
        PROVE  /\ next[h][p] <= Len(log[p])
               /\ Complete(log[p], handled'[p], next[h][p])
               /\ worker'[h][p] \in {"handling", "committing"} =>
                    next[h][p] < Len(log[p])
               /\ worker'[h][p] = "committing" =>
                    Complete(log[p], handled'[p], next[h][p] + 1)
    <3>1. CASE h = g
      BY <1>t, <2>2, <2>3, <2>4, <3>1
    <3>2. CASE h # g
      <4>1. /\ next[h][p] \in Nat /\ next[h][p] <= Len(log[p])
            /\ Complete(log[p], handled[p], next[h][p])
            /\ worker[h][p] \in {"handling", "committing"} =>
                 next[h][p] < Len(log[p])
            /\ worker[h][p] = "committing" =>
                 Complete(log[p], handled[p], next[h][p] + 1)
        BY <1>t DEF CompleteAt, HandledUpTo, Complete
      <4>2. Complete(log[p], handled'[p], next[h][p])
        BY <2>g, <4>1
      <4>3. ASSUME worker[h][p] = "committing"
            PROVE  Complete(log[p], handled'[p], next[h][p] + 1)
        <5>1. next[h][p] + 1 \in Nat /\ next[h][p] + 1 <= Len(log[p])
          BY <1>t, <4>1, <4>3
        <5> QED BY <2>g, <4>1, <4>3, <5>1
      <4> QED BY <1>u, <3>2, <4>1, <4>2, <4>3
    <3> QED BY <3>1, <3>2
  <2> HIDE DEF n
  <2> QED
    BY <1>u, <2>1, <2>5, <2>6, <2>7, <2>8, <2>9 DEF CompleteAt, HandledUpTo, Complete
<1>4. CASE Committed(g, p)
  <2>1. next[g][p] < Len(log[p]) /\ HandledUpTo(p, next[g][p] + 1)
    BY <1>4 DEF Committed, CompleteAt
  <2>2. /\ handled'[p] = handled[p]
        /\ committed'[p] = next[g][p] + 1
        /\ worker'[g][p] \notin {"handling", "committing"}
        /\ next'[g][p] \in {next[g][p], next[g][p] + 1}
    BY <1>4 DEF Committed
  <2>3. Complete(log[p], handled[p], next[g][p] + 1)
    BY <2>1 DEF HandledUpTo, Complete
  <2>4. /\ \A o \in handled'[p] : o < Len(log'[p])
        /\ \A o \in handled'[p] : Complete(log'[p], handled'[p], o)
        /\ Complete(log'[p], handled'[p], committed'[p])
    BY <1>u, <2>2, <2>3 DEF CompleteAt, HandledUpTo, Complete
  <2>5. ASSUME NEW h \in Gateways
        PROVE  /\ next'[h][p] <= Len(log'[p])
               /\ Complete(log'[p], handled'[p], next'[h][p])
               /\ worker'[h][p] \in {"handling", "committing"} =>
                    next'[h][p] < Len(log'[p])
               /\ worker'[h][p] = "committing" =>
                    Complete(log'[p], handled'[p], next'[h][p] + 1)
    <3>1. CASE h = g
      <4>1. Complete(log[p], handled[p], next[g][p])
        BY DEF CompleteAt, HandledUpTo, Complete
      <4>2. next[g][p] + 1 <= Len(log[p]) /\ next[g][p] <= Len(log[p])
        BY <1>t, <2>1
      <4> QED BY <1>u, <2>2, <2>3, <3>1, <4>1, <4>2
    <3>2. CASE h # g
      BY <1>u, <2>2, <3>2 DEF CompleteAt, HandledUpTo, Complete
    <3> QED BY <3>1, <3>2
  <2>6. ASSUME NEW h \in Gateways
        PROVE  /\ offer'[h].start[p] <= Len(log'[p])
               /\ Complete(log'[p], handled'[p], offer'[h].start[p])
    BY <1>u, <2>2 DEF CompleteAt, HandledUpTo, Complete
  <2> QED
    BY <2>4, <2>5, <2>6 DEF CompleteAt, HandledUpTo, Complete
<1> QED BY <1>0, <1>1, <1>2, <1>3, <1>4 DEF WorkEffect

(* Every step keeps every partition complete. *)
LEMMA CompletenessStep ==
  ASSUME TypeOK, TypeOK', AtWork, Completeness, [Next]_vars
  PROVE  Completeness'
<1> SUFFICES ASSUME NEW q \in Partitions PROVE CompleteAt(q)'
  BY DEF Completeness
<1>a. CompleteAt(q)
  BY DEF Completeness
<1>t. log[q] \in Seq(Kinds) /\ Len(log[q]) \in Nat
  BY DEF TypeOK
<1>1. ASSUME NEW p \in Partitions, NEW kind \in Kinds, Produce(p, kind)
      PROVE  CompleteAt(q)'
  <2>1. log'[q] = IF q = p THEN Append(log[q], kind) ELSE log[q]
    BY <1>1 DEF Produce, TypeOK
  <2>2. /\ Len(log[q]) <= Len(log'[q])
        /\ \A i \in 1..Len(log[q]) : log'[q][i] = log[q][i]
    BY <1>t, <2>1
  <2> QED
    BY <1>1, <1>a, <2>2, CompleteProduced DEF Produce, workerVars, groupVars
<1>2. ASSUME NEW owner \in [Partitions -> Joining], NewGeneration(owner)
      PROVE  CompleteAt(q)'
  <2>1. UNCHANGED <<log, committed, worker, next, handled>>
    BY <1>2 DEF NewGeneration, workerVars
  <2>2. \A h \in Gateways :
          offer'[h].start[q] \in {offer[h].start[q], 0, committed[q]}
    BY <1>2, Offered
  <2> QED
    BY <1>a, <1>t, <2>1, <2>2, CompleteProduced
<1>3. ASSUME NEW g \in Gateways, Control(g)
      PROVE  CompleteAt(q)'
  <2>1. ControlEffect
    BY <1>3, ControlLemma
  <2>2. NoOffer.start[q] = 0 /\ AtZero[q] = 0 /\ Nowhere[q] = "none"
    BY DEF NoOffer, AtZero, Nowhere
  <2>3. \A h \in Gateways :
          offer'[h].start[q] \in {offer[h].start[q], 0, committed[q]}
    BY <2>1, <2>2 DEF ControlEffect, Kept, Dropped, Received
  <2>4. ASSUME NEW h \in Gateways
        PROVE  \/ /\ next'[h][q] = next[h][q]
                  /\ worker'[h][q] \in {"handling", "committing"} =>
                       worker'[h][q] = worker[h][q]
               \/ /\ next'[h][q] \in {0, offer[h].start[q]}
                  /\ worker'[h][q] = "none"
    BY <2>1, <2>2 DEF ControlEffect, Undisturbed, Kept, Dropped, Received
  <2> QED
    BY <1>a, <1>t, <2>1, <2>3, <2>4, CompleteProduced DEF ControlEffect
<1>4. ASSUME NEW g \in Gateways, NEW p \in Partitions, Work(g, p)
      PROVE  CompleteAt(q)'
  <2>1. WorkEffect(g, p)
    BY <1>4, WorkLemma
  <2>2. CASE q = p
    BY <1>a, <2>1, <2>2, CompleteWorked
  <2>3. CASE q # p
    BY <1>a, <1>t, <2>1, <2>3, CompleteProduced
    DEF WorkEffect, OthersKeep, groupVars
  <2> QED BY <2>2, <2>3
<1>5. CASE UNCHANGED vars
  BY <1>5, <1>a DEF vars, brokerVars, groupVars, workerVars, CompleteAt, HandledUpTo
<1> QED BY <1>1, <1>2, <1>3, <1>4, <1>5, NextCases
-----------------------------------------------------------------------------
(* The ownership a gateway shows.                                          *)

(* What a control step does to it. *)
ShowEffect(h) ==
  \/ /\ UNCHANGED <<assigned[h], plan[h]>>
     /\ \/ pc'[h] = pc[h]
        \/ pc[h] = "owning" /\ pc'[h] = "consuming"
        \/ pc[h] = "consuming" /\ pc'[h] = "ending"
        \/ /\ pc[h] \in {"starting", "joining"}
           /\ pc'[h] \in {"stopped", "joining"}
  \/ /\ assigned'[h] = {}
     /\ pc'[h] \notin {"owning", "consuming"} \/ Cancelled(h)
  \/ /\ assigned'[h] = plan[h]
     /\ plan'[h] = plan[h]
     /\ pc'[h] = "owning"
  \/ pc[h] = "joining" /\ pc'[h] = "lookup" /\ assigned'[h] = assigned[h]

(* Each control step has that effect. *)
LEMMA ShowLemma ==
  ASSUME TypeOK, NEW g \in Gateways, Control(g), NEW h \in Gateways
  PROVE  ShowEffect(h) /\ (Cancelled(h) => Cancelled(h)')
<1>t. /\ pc \in [Gateways -> Places] /\ assigned \in [Gateways -> SUBSET Partitions]
      /\ plan \in [Gateways -> SUBSET Partitions]
      /\ stop \in [Gateways -> {"running", "cancelled", "unready", "closed"}]
  BY DEF TypeOK, Places
<1> USE <1>t DEF consumeVars, workerVars, ShowEffect, Cancelled, Goto, Release,
                 SetOwnership
<1>1. CASE LearnEnd(g) \/ Rejoin(g) \/ LeaveGroup(g)
  BY <1>1 DEF LearnEnd, Rejoin, LeaveGroup
<1>2. CASE Start(g) \/ Finish(g) \/ Retry(g)
  BY <1>2 DEF Start, Finish, Retry
<1>3. CASE GiveUp(g) \/ Abort(g) \/ GoOut(g)
  BY <1>3 DEF GiveUp, Abort, GoOut, Return, Drop
<1>4. CASE GoRound(g) \/ Disown(g)
  BY <1>4 DEF GoRound, Disown, Drop
<1>5. CASE Receive(g) \/ Own(g)
  BY <1>5 DEF Receive, Own
<1>6. CASE StartWorkers(g) \/ Unready(g)
  BY <1>6 DEF StartWorkers, Unready
<1>7. CASE Crash(g)
  BY <1>7 DEF Crash, Drop
<1>8. CASE Cancel(g) \/ CloseReady(g) \/ CloseOwnership(g)
  BY <1>8 DEF Cancel, CloseReady, CloseOwnership
<1> QED
  BY <1>1, <1>2, <1>3, <1>4, <1>5, <1>6, <1>7, <1>8 DEF Control

(* From Own to the last worker's return the published partitions are the   *)
(* assigned ones, unless the gateway is being shut down; and they are      *)
(* withdrawn before the gateway takes another generation.                  *)
LEMMA ShownStep ==
  ASSUME TypeOK, Published, Shown, [Next]_vars
  PROVE  Published' /\ Shown'
<1> SUFFICES ASSUME NEW h \in Gateways
             PROVE  /\ pc'[h] \in {"owning", "consuming"} /\ ~Cancelled(h)' =>
                         assigned'[h] = plan'[h]
                    /\ assigned'[h] \subseteq plan'[h]
                    /\ assigned'[h] # {} => pc'[h] \in {"owning", "consuming", "ending"}
  BY DEF Published, Shown
<1> DEFINE Goal == /\ pc'[h] \in {"owning", "consuming"} /\ ~Cancelled(h)' =>
                        assigned'[h] = plan'[h]
                   /\ assigned'[h] \subseteq plan'[h]
                   /\ assigned'[h] # {} => pc'[h] \in {"owning", "consuming", "ending"}
<1>1. ASSUME UNCHANGED <<stop, consumeVars>> PROVE Goal
  BY <1>1 DEF consumeVars, Published, Shown, Cancelled
<1>2. ASSUME NEW p \in Partitions, NEW kind \in Kinds, Produce(p, kind)
      PROVE  Goal
  BY <1>1, <1>2 DEF Produce
<1>3. ASSUME NEW owner \in [Partitions -> Joining], NewGeneration(owner)
      PROVE  Goal
  BY <1>1, <1>3 DEF NewGeneration
<1>4. ASSUME NEW g \in Gateways, Control(g)
      PROVE  Goal
  BY <1>4, ShowLemma DEF ShowEffect, Published, Shown
<1>5. ASSUME NEW g \in Gateways, NEW p \in Partitions, Work(g, p)
      PROVE  Goal
  BY <1>1, <1>5, WorkLemma DEF WorkEffect, OthersKeep
<1>6. CASE UNCHANGED vars
  BY <1>1, <1>6 DEF vars
<1> QED BY <1>2, <1>3, <1>4, <1>5, <1>6, NextCases
-----------------------------------------------------------------------------
(* Membership.                                                             *)

(* What a worker's step does to the flags of its generation. *)
FlagEffect(g, p) ==
  /\ \A h \in Gateways : ended[h] => ended'[h]
  /\ \A h \in Gateways : h # g => late'[h] = late[h]
  /\ \/ /\ late'[g] = late[g]
        /\ worker[g][p] \in {"fetching", "handling", "committing"}
        /\ worker'[g][p] = "none" \/ ended' = ended
     \/ /\ worker[g][p] = "due" /\ worker'[g][p] = "fetching"
        /\ ended' = ended
        /\ late'[g] = IF ended[g] THEN late[g] \cup {p} ELSE late[g]

(* Each worker step has that effect. *)
LEMMA FlagLemma ==
  ASSUME TypeOK, NEW g \in Gateways, NEW p \in Partitions, Work(g, p)
  PROVE  FlagEffect(g, p)
<1>t. /\ ended \in [Gateways -> BOOLEAN] /\ late \in [Gateways -> SUBSET Partitions]
      /\ worker \in [Gateways -> [Partitions -> Workers]]
  BY DEF TypeOK, Workers
<1>w. /\ \A l \in Workers : At(g, p, l) => worker'[g][p] = l
      /\ "none" \in Workers /\ "fetching" \in Workers
  BY AtWrite DEF Workers
<1> USE DEF FlagEffect
<1>1. CASE StartWorker(g, p)
  BY <1>1, <1>t, <1>w DEF StartWorker
<1>2. CASE Fetch(g, p) \/ Stray(g, p) \/ Leave(g, p) \/ Handle(g, p) \/ Commit(g, p)
  BY <1>2, <1>t DEF Fetch, Stray, Leave, Handle, Commit
<1>3. CASE \/ Refused(g, p) \/ FetchFails(g, p) \/ HandlerFails(g, p)
           \/ CommitFails(g, p)
  BY <1>3, <1>t, <1>w DEF Refused, FetchFails, HandlerFails, CommitFails, Quit
<1> QED BY <1>1, <1>2, <1>3 DEF Work

(* kafka-go goes on only when a generation is over and its registered      *)
(* workers are gone.                                                       *)
LEMMA MemberStep == TypeOK /\ AtWork /\ Member /\ [Next]_vars => Member'
<1> DEFINE Busy == {"fetching", "handling", "committing"}
<1> SUFFICES ASSUME TypeOK, AtWork, Member, [Next]_vars, NEW h \in Gateways
             PROVE  /\ ~ended'[h] => grp'[h] = "member"
                    /\ \A q \in Partitions :
                         worker'[h][q] \in Busy /\ q \notin late'[h] =>
                           grp'[h] = "member"
  BY DEF Member
<1> DEFINE Goal == /\ ~ended'[h] => grp'[h] = "member"
                   /\ \A q \in Partitions :
                        worker'[h][q] \in Busy /\ q \notin late'[h] =>
                          grp'[h] = "member"
<1>t. /\ ended \in [Gateways -> BOOLEAN] /\ late \in [Gateways -> SUBSET Partitions]
      /\ worker \in [Gateways -> [Partitions -> Workers]]
      /\ grp \in [Gateways -> {"out", "joining", "offering", "member"}]
  BY DEF TypeOK, Workers
<1>1. ASSUME UNCHANGED <<ended, late, worker>>, grp[h] = "member" => grp'[h] = "member"
      PROVE  Goal
  BY <1>1 DEF Member
<1>2. ASSUME NEW p \in Partitions, NEW kind \in Kinds, Produce(p, kind)
      PROVE  Goal
  BY <1>1, <1>2 DEF Produce, groupVars, workerVars
<1>3. ASSUME NEW owner \in [Partitions -> Joining], NewGeneration(owner)
      PROVE  Goal
  <2>1. grp[h] = "member" => grp'[h] = "member"
    BY <1>3 DEF NewGeneration, Joining
  <2> QED BY <1>1, <1>3, <2>1 DEF NewGeneration, workerVars
<1>4. ASSUME NEW g \in Gateways, Control(g)
      PROVE  Goal
  <2>n. \A q \in Partitions : Nowhere[q] \notin Busy
    BY DEF Nowhere
  <2>i. pc[g] # "consuming" => worker[g] = Nowhere
    BY Idle
  <2> USE DEF groupVars, workerVars, Member
  <2>1. CASE LearnEnd(g)
    BY <2>1, <1>t DEF LearnEnd
  <2>2. CASE Rejoin(g) \/ LeaveGroup(g)
    <3>1. grp[g] = "member" => RoutinesGone(g)
      BY <2>2 DEF Rejoin, LeaveGroup
    <3>2. grp' = [grp EXCEPT ![g] = grp'[g]] /\ UNCHANGED <<ended, late, worker>>
      BY <2>2, <1>t DEF Rejoin, LeaveGroup, Join, Depart
    <3> QED BY <3>1, <3>2, <1>t DEF RoutinesGone
  <2>3. CASE Start(g) \/ Retry(g)
    BY <2>3, <1>t, <2>n, <2>i DEF Start, Retry, Join
  <2>4. CASE Finish(g) \/ GiveUp(g) \/ Abort(g) \/ GoOut(g) \/ GoRound(g)
    BY <2>4, <1>1 DEF Finish, GiveUp, Abort, GoOut, GoRound, Return
  <2>5. CASE Own(g) \/ Disown(g) \/ Cancel(g) \/ CloseReady(g) \/ CloseOwnership(g)
    BY <2>5, <1>1 DEF Own, Disown, Cancel, CloseReady, CloseOwnership
  <2>6. CASE Receive(g)
    BY <2>6, <1>t DEF Receive
  <2>7. CASE StartWorkers(g)
    BY <2>7, <1>t DEF StartWorkers
  <2>8. CASE Unready(g)
    BY <2>8, <1>t, <2>n DEF Unready, WorkersDone
  <2>9. CASE Crash(g)
    BY <2>9, <1>t, <2>n DEF Crash, Depart
  <2> QED
    BY <1>4, <2>1, <2>2, <2>3, <2>4, <2>5, <2>6, <2>7, <2>8, <2>9 DEF Control
<1>5. ASSUME NEW g \in Gateways, NEW p \in Partitions, Work(g, p)
      PROVE  Goal
  <2>1. /\ UNCHANGED grp
        /\ \A q \in Partitions : h # g \/ q # p => worker'[h][q] = worker[h][q]
    BY <1>5, WorkLemma DEF WorkEffect, OthersKeep, groupVars
  <2>2. FlagEffect(g, p)
    BY <1>5, FlagLemma
  <2> QED BY <1>t, <2>1, <2>2 DEF FlagEffect, Member
<1>6. CASE UNCHANGED vars
  BY <1>1, <1>6 DEF vars, groupVars, workerVars
<1> QED BY <1>2, <1>3, <1>4, <1>5, <1>6, NextCases
-----------------------------------------------------------------------------
(* While nothing fails.                                                    *)

(* Faults and strays are never forgotten. *)
LEMMA FaultsGrow ==
  ASSUME TypeOK, [Next]_vars
  PROVE  /\ faults' = 0 => faults = 0 /\ ~Fault
         /\ strays' = 0 => strays = 0
<1>t. faults \in Nat /\ strays \in Nat
  BY DEF TypeOK
<1>1. Fault => faults' # 0
  BY <1>t DEF Fault
<1>2. UNCHANGED faults \/ Fault
  BY DEF Next, Produce, BrokerStep, Rebalance, Evict, GroupStep, ConsumeStep,
         CloseStep, WorkerStep, Disturbance, LearnEnd, Rejoin, LeaveGroup, Start,
         Finish, Abort, Receive, Own, StartWorkers, Unready, Disown, GoRound,
         GoOut, CloseReady, CloseOwnership, StartWorker, Fetch, Stray, Leave,
         Handle, Commit, Refused, GiveUp, Retry, Cancel, Crash, FetchFails,
         HandlerFails, CommitFails, vars
<1>3. UNCHANGED strays \/ strays' = strays + 1
  <2>1. ASSUME NEW g \in Gateways, NEW p \in Partitions, Work(g, p)
        PROVE  UNCHANGED strays \/ strays' = strays + 1
    BY <2>1 DEF Work, StartWorker, Fetch, Stray, Leave, Handle, Commit, Refused,
       FetchFails, HandlerFails, CommitFails, Quit
  <2>2. ASSUME NEW g \in Gateways, Control(g) PROVE UNCHANGED strays
    BY <2>2 DEF Control, LearnEnd, Rejoin, LeaveGroup, Start, Finish, GiveUp,
       Abort, Retry, Receive, Own, StartWorkers, Unready, Disown, GoRound, GoOut,
       Return, Crash, Cancel, CloseReady, CloseOwnership, workerVars
  <2>3. ASSUME NEW p \in Partitions, NEW kind \in Kinds, Produce(p, kind)
        PROVE  UNCHANGED strays
    BY <2>3 DEF Produce, workerVars
  <2>4. ASSUME NEW owner \in [Partitions -> Joining], NewGeneration(owner)
        PROVE  UNCHANGED strays
    BY <2>4 DEF NewGeneration, workerVars
  <2>5. UNCHANGED vars => UNCHANGED strays
    BY DEF vars, workerVars
  <2> QED BY <2>1, <2>2, <2>3, <2>4, <2>5, NextCases
<1> QED BY <1>t, <1>1, <1>2, <1>3

(* Nobody is evicted: a generation begins when the last one has been left  *)
(* by everybody.                                                           *)
LEMMA CurrentStep == TypeOK /\ AtWork /\ Current /\ [Next]_vars => Current'
<1> SUFFICES ASSUME TypeOK, AtWork, Current, [Next]_vars, faults' = 0,
                    NEW h \in Gateways
             PROVE  /\ grp'[h] = "member" => current'[h]
                    /\ grp'[h] = "offering" => offer'[h].current
  BY DEF Current
<1> DEFINE Goal == /\ grp'[h] = "member" => current'[h]
                   /\ grp'[h] = "offering" => offer'[h].current
<1>0. faults = 0 /\ ~Fault
  BY FaultsGrow
<1>c. /\ grp[h] = "member" => current[h]
      /\ grp[h] = "offering" => offer[h].current
  BY <1>0 DEF Current
<1>1. ASSUME UNCHANGED groupVars PROVE Goal
  BY <1>1, <1>c DEF groupVars
<1>2. ASSUME NEW p \in Partitions, NEW kind \in Kinds, Produce(p, kind)
      PROVE  Goal
  BY <1>1, <1>2 DEF Produce
<1>3. ASSUME NEW owner \in [Partitions -> Joining], NewGeneration(owner),
             (Active = {} /\ UNCHANGED faults) \/ Fault
      PROVE  Goal
  <2>1. h \notin Active
    BY <1>0, <1>3
  <2>2. grp[h] \notin {"member", "offering"}
    BY <1>c, <2>1 DEF Active
  <2>3. grp'[h] = IF h \in Joining THEN "offering" ELSE grp[h]
    BY <1>3 DEF NewGeneration
  <2> QED BY <1>3, <2>2, <2>3, Offered
<1>4. ASSUME NEW g \in Gateways, Control(g)
      PROVE  Goal
  <2>t. /\ grp \in [Gateways -> {"out", "joining", "offering", "member"}]
        /\ current \in [Gateways -> BOOLEAN] /\ offer \in [Gateways -> Generations]
    BY DEF TypeOK, Generations
  <2>1. CASE Rejoin(g) \/ LeaveGroup(g) \/ Start(g)
    BY <2>1, <2>t, <1>c DEF Rejoin, LeaveGroup, Start, Join, Depart
  <2>2. CASE Receive(g)
    BY <2>2, <2>t, <1>c DEF Receive
  <2>3. ~(GiveUp(g) \/ Retry(g) \/ Crash(g))
    BY <1>0 DEF GiveUp, Retry, Crash
  <2>4. CASE LearnEnd(g) \/ Finish(g) \/ Abort(g) \/ GoOut(g) \/ GoRound(g)
    BY <2>4, <1>1 DEF LearnEnd, Finish, Abort, GoOut, GoRound, Return
  <2>5. CASE Own(g) \/ StartWorkers(g) \/ Unready(g) \/ Disown(g)
    BY <2>5, <1>1 DEF Own, StartWorkers, Unready, Disown
  <2>6. CASE Cancel(g) \/ CloseReady(g) \/ CloseOwnership(g)
    BY <2>6, <1>1 DEF Cancel, CloseReady, CloseOwnership
  <2> QED BY <1>4, <2>1, <2>2, <2>3, <2>4, <2>5, <2>6 DEF Control
<1>5. ASSUME NEW g \in Gateways, NEW p \in Partitions, Work(g, p)
      PROVE  Goal
  BY <1>1, <1>5, WorkLemma DEF WorkEffect, OthersKeep
<1>6. CASE UNCHANGED vars
  BY <1>1, <1>6 DEF vars
<1> QED BY <1>2, <1>3, <1>4, <1>5, <1>6, NextCases

(* A control step makes no worker late. *)
LEMMA NoneLater ==
  ASSUME TypeOK, NEW g \in Gateways, Control(g), NEW h \in Gateways
  PROVE  late'[h] \subseteq late[h]
<1>t. late \in [Gateways -> SUBSET Partitions]
  BY DEF TypeOK
<1> USE DEF workerVars
<1>1. CASE Unready(g) \/ Crash(g)
  BY <1>1, <1>t DEF Unready, Crash
<1>2. CASE ~(Unready(g) \/ Crash(g))
  <2>1. UNCHANGED late
    BY <1>2 DEF Control, LearnEnd, Rejoin, LeaveGroup, Start, Finish, GiveUp,
       Abort, Retry, Receive, Own, StartWorkers, Disown, GoRound, GoOut,
       Return, Cancel, CloseReady, CloseOwnership
  <2> QED BY <2>1
<1> QED BY <1>1, <1>2

(* Without a stray no late worker has a message. *)
LEMMA LateIdleStep == TypeOK /\ AtWork /\ LateIdle /\ [Next]_vars => LateIdle'
<1> DEFINE Has == {"handling", "committing"}
<1> SUFFICES ASSUME TypeOK, AtWork, LateIdle, [Next]_vars, strays' = 0,
                    NEW h \in Gateways, NEW q \in late'[h]
             PROVE  worker'[h][q] \notin Has
  BY DEF LateIdle
<1>0. strays = 0
  BY FaultsGrow
<1>a. \A r \in late[h] : worker[h][r] \notin Has /\ r \in Partitions
  BY <1>0 DEF LateIdle, TypeOK
<1>1. ASSUME UNCHANGED <<late, worker>> PROVE worker'[h][q] \notin Has
  BY <1>1, <1>a
<1>2. ASSUME NEW p \in Partitions, NEW kind \in Kinds, Produce(p, kind)
      PROVE  UNCHANGED <<late, worker>>
  BY <1>2 DEF Produce, workerVars
<1>3. ASSUME NEW owner \in [Partitions -> Joining], NewGeneration(owner)
      PROVE  UNCHANGED <<late, worker>>
  BY <1>3 DEF NewGeneration, workerVars
<1>4. ASSUME NEW g \in Gateways, Control(g)
      PROVE  worker'[h][q] \notin Has
  <2>1. q \in late[h]
    BY <1>4, NoneLater
  <2>2. Undisturbed(h)
    BY <1>4, ControlLemma DEF ControlEffect
  <2> QED BY <1>a, <2>1, <2>2 DEF Undisturbed
<1>5. ASSUME NEW g \in Gateways, NEW p \in Partitions, Work(g, p)
      PROVE  worker'[h][q] \notin Has
  <2>1. FlagEffect(g, p) /\ WorkEffect(g, p)
    BY <1>5, FlagLemma, WorkLemma
  <2>2. CASE h = g /\ q = p
    <3>1. CASE StartWorker(g, p)
      BY <2>1, <2>2, <3>1 DEF StartWorker, FlagEffect
    <3>2. CASE ~StartWorker(g, p)
      <4>1. worker[g][p] # "due"
        BY <1>5, <3>2 DEF Work, Fetch, Stray, Leave, Handle, Commit, Refused,
                          FetchFails, HandlerFails, CommitFails
      <4>2. p \in late[g] /\ worker[g][p] \notin Has
        BY <1>a, <2>1, <2>2, <4>1 DEF FlagEffect
      <4>3. ~Stray(g, p)
        <5>1. strays \in Nat
          BY DEF TypeOK
        <5> QED BY <1>0, <5>1 DEF Stray
      <4>4. Leave(g, p) \/ FetchFails(g, p)
        BY <1>5, <3>2, <4>2, <4>3 DEF Work, Fetch, Handle, Commit, Refused,
                                      HandlerFails, CommitFails
      <4>5. worker'[g][p] = "none"
        <5>1. At(g, p, "none") /\ "none" \in Workers
          BY <4>4 DEF Leave, FetchFails, Quit, Workers
        <5> QED BY <5>1, AtWrite
      <4> QED BY <2>2, <4>5
    <3> QED BY <3>1, <3>2
  <2>3. CASE h # g \/ q # p
    <3>1. q \in late[h]
      BY <2>1, <2>3 DEF FlagEffect
    <3>2. worker'[h][q] = worker[h][q]
      BY <1>a, <2>1, <2>3, <3>1 DEF WorkEffect, OthersKeep
    <3> QED BY <1>a, <3>1, <3>2
  <2> QED BY <2>2, <2>3
<1>6. UNCHANGED vars => UNCHANGED <<late, worker>>
  BY DEF vars, workerVars
<1> QED BY <1>1, <1>2, <1>3, <1>4, <1>5, <1>6, NextCases

(* As long as nothing fails or strays a worker with a message belongs to   *)
(* the current generation.                                                 *)
LEMMA AtWorkCurrent ==
  ASSUME IInv, faults = 0, strays = 0, NEW h \in Gateways, NEW q \in Partitions,
         worker[h][q] \in {"handling", "committing"}
  PROVE  current[h] /\ pc[h] = "consuming" /\ q \in plan[h]
<1>1. q \notin late[h]
  BY DEF IInv, LateIdle
<1>2. grp[h] = "member"
  BY <1>1 DEF IInv, Member
<1> QED BY <1>2 DEF IInv, Current, AtWork

(* Then a worker stops only between two messages, and a control step never *)
(* stops one that has a commit to make.                                    *)
LEMMA CommitsToCome ==
  ASSUME IInv, [Next]_vars, faults' = 0, strays' = 0,
         NEW h \in Gateways, NEW q \in Partitions, worker[h][q] = "committing"
  PROVE  \/ worker'[h][q] = "committing" /\ next'[h][q] = next[h][q]
         \/ committed'[q] = next[h][q] + 1
<1>i. TypeOK /\ AtWork
  BY DEF IInv
<1>0. faults = 0 /\ strays = 0 /\ ~Fault
  BY <1>i, FaultsGrow
<1>a. current[h] /\ pc[h] = "consuming"
  BY <1>0, AtWorkCurrent
<1>1. ASSUME UNCHANGED <<worker, next>>
      PROVE  worker'[h][q] = "committing" /\ next'[h][q] = next[h][q]
  BY <1>1
<1>2. ASSUME NEW p \in Partitions, NEW kind \in Kinds, Produce(p, kind)
      PROVE  UNCHANGED <<worker, next>>
  BY <1>2 DEF Produce, workerVars
<1>3. ASSUME NEW owner \in [Partitions -> Joining], NewGeneration(owner)
      PROVE  UNCHANGED <<worker, next>>
  BY <1>3 DEF NewGeneration, workerVars
<1>4. ASSUME NEW g \in Gateways, Control(g)
      PROVE  worker'[h][q] = "committing" /\ next'[h][q] = next[h][q]
  <2>1. worker'[h][q] = "committing"
    <3>1. CASE StartWorkers(g)
      BY <1>a, <1>i, <3>1 DEF StartWorkers, TypeOK
    <3>2. CASE ~StartWorkers(g)
      BY <1>4, <1>0, <3>2
      DEF Control, LearnEnd, Rejoin, LeaveGroup, Start, Finish, GiveUp, Abort,
          Retry, Receive, Own, Unready, Disown, GoRound, GoOut, Return, Crash,
          Cancel, CloseReady, CloseOwnership, workerVars
    <3> QED BY <3>1, <3>2
  <2>2. worker'[h] # Nowhere
    BY <2>1 DEF Nowhere
  <2>3. Kept(h) \/ Dropped(h) \/ Received(h)
    BY <1>4, <1>i, ControlLemma DEF ControlEffect
  <2> QED BY <2>1, <2>2, <2>3 DEF Kept, Dropped, Received
<1>5. ASSUME NEW g \in Gateways, NEW p \in Partitions, Work(g, p)
      PROVE  \/ worker'[h][q] = "committing" /\ next'[h][q] = next[h][q]
             \/ committed'[q] = next[h][q] + 1
  <2>1. CASE h # g \/ q # p
    BY <1>5, <1>i, <2>1, WorkLemma DEF WorkEffect, OthersKeep
  <2>2. CASE h = g /\ q = p
    <3>1. Commit(g, p)
      BY <1>5, <1>0, <1>a, <2>2
      DEF Work, StartWorker, Fetch, Stray, Leave, Handle, Refused, FetchFails,
          HandlerFails, CommitFails
    <3> QED BY <1>i, <2>2, <3>1 DEF Commit, OffsetAfter, TypeOK
  <2> QED BY <2>1, <2>2
<1>6. UNCHANGED vars => UNCHANGED <<worker, next>>
  BY DEF vars, workerVars
<1> QED BY <1>1, <1>2, <1>3, <1>4, <1>5, <1>6, NextCases

(* A message is handled by a worker that has yet to commit it. *)
LEMMA NewlyHandled ==
  ASSUME TypeOK, AtWork, [Next]_vars, NEW q \in Partitions,
         NEW o \in handled'[q], o \notin handled[q]
  PROVE  \E g \in Gateways : worker'[g][q] = "committing" /\ o = next'[g][q]
<1>1. ASSUME UNCHANGED handled PROVE FALSE
  BY <1>1
<1>2. ASSUME NEW p \in Partitions, NEW kind \in Kinds, Produce(p, kind)
      PROVE  FALSE
  BY <1>1, <1>2 DEF Produce, workerVars
<1>3. ASSUME NEW owner \in [Partitions -> Joining], NewGeneration(owner)
      PROVE  FALSE
  BY <1>1, <1>3 DEF NewGeneration, workerVars
<1>4. ASSUME NEW g \in Gateways, Control(g)
      PROVE  FALSE
  BY <1>1, <1>4, ControlLemma DEF ControlEffect
<1>5. ASSUME NEW g \in Gateways, NEW p \in Partitions, Work(g, p)
      PROVE  \E f \in Gateways : worker'[f][q] = "committing" /\ o = next'[f][q]
  <2>1. WorkEffect(g, p)
    BY <1>5, WorkLemma
  <2>2. Handled(g, p) /\ q = p
    BY <2>1 DEF WorkEffect, OthersKeep, Started, Fetched, Ended, Committed
  <2>3. worker'[g][q] = "committing" /\ o = next'[g][q]
    BY <2>2 DEF Handled
  <2> QED BY <2>3
<1>6. UNCHANGED vars => UNCHANGED handled
  BY DEF vars, workerVars
<1> QED BY <1>1, <1>2, <1>3, <1>4, <1>5, <1>6, NextCases

(* No step of the group moves a committed offset back. *)
LEMMA CommittedGrows ==
  ASSUME IInv, [Next]_vars, NEW q \in Partitions
  PROVE  committed'[q] >= committed[q]
<1>t. committed[q] \in Nat /\ TypeOK /\ AtWork
  BY DEF IInv, TypeOK
<1>1. CASE UNCHANGED committed
  BY <1>1, <1>t
<1>2. ASSUME NEW g \in Gateways, NEW p \in Partitions, Work(g, p)
      PROVE  committed'[q] >= committed[q]
  <2>1. WorkEffect(g, p)
    BY <1>2, <1>t, WorkLemma
  <2>2. CASE Committed(g, p) /\ q = p
    <3>1. p \in plan[g]
      BY <2>2 DEF Committed, IInv, AtWork
    <3>2. next[g][p] = committed[p]
      BY <2>2, <3>1 DEF Committed, IInv, InStep
    <3> QED BY <1>t, <2>2, <3>2 DEF Committed
  <2>3. CASE q # p
    BY <1>t, <2>1, <2>3 DEF WorkEffect, OthersKeep
  <2> QED
    BY <1>1, <2>1, <2>2, <2>3 DEF WorkEffect, Started, Fetched, Ended, Handled
<1>3. ASSUME NEW g \in Gateways, Control(g) PROVE UNCHANGED committed
  BY <1>3, <1>t, ControlLemma DEF ControlEffect
<1>4. ASSUME NEW p \in Partitions, NEW kind \in Kinds, Produce(p, kind)
      PROVE  UNCHANGED committed
  BY <1>4 DEF Produce
<1>5. ASSUME NEW owner \in [Partitions -> Joining], NewGeneration(owner)
      PROVE  UNCHANGED committed
  BY <1>5 DEF NewGeneration
<1>6. UNCHANGED vars => UNCHANGED committed
  BY DEF vars, brokerVars
<1> QED BY <1>1, <1>2, <1>3, <1>4, <1>5, <1>6, NextCases

(* What is handled stays committed, or about to be. *)
LEMMA OnceStep == IInv /\ TypeOK' /\ [Next]_vars => Once'
<1> SUFFICES ASSUME IInv, TypeOK', [Next]_vars, faults' = 0, strays' = 0,
                    NEW q \in Partitions, NEW o \in handled'[q]
             PROVE  \/ o < committed'[q]
                    \/ \E g \in Gateways :
                         worker'[g][q] = "committing" /\ o = next'[g][q]
  BY DEF Once
<1>i. TypeOK /\ AtWork /\ Once
  BY DEF IInv
<1>0. faults = 0 /\ strays = 0
  BY <1>i, FaultsGrow
<1>t. /\ committed[q] \in Nat /\ committed'[q] \in Nat /\ o \in Nat
      /\ committed'[q] >= committed[q]
  BY <1>i, CommittedGrows DEF TypeOK
<1>1. CASE o \notin handled[q]
  BY <1>1, <1>i, NewlyHandled
<1>2. CASE o \in handled[q] /\ o < committed[q]
  BY <1>2, <1>t
<1>3. ASSUME NEW g \in Gateways, worker[g][q] = "committing", o = next[g][q]
      PROVE  \/ o < committed'[q]
             \/ worker'[g][q] = "committing" /\ o = next'[g][q]
  BY <1>3, <1>t, CommitsToCome
<1> QED BY <1>0, <1>1, <1>2, <1>3, <1>i DEF Once
-----------------------------------------------------------------------------
(* The inductive invariant, at the start and step by step. *)
LEMMA KafkaInit == Init => IInv
<1> SUFFICES ASSUME Init PROVE IInv
  OBVIOUS
<1>1. Backlogs \subseteq Seq(Kinds)
  <2> SUFFICES ASSUME NEW n \in 0..MaxLog, NEW l \in [1..n -> Kinds]
               PROVE  l \in Seq(Kinds)
    BY DEF Backlogs
  <2> QED BY KafkaConstants
<1>2. log \in [Partitions -> Seq(Kinds)]
  BY <1>1 DEF Init
<1>3. \A p \in Partitions : Len(log[p]) \in Nat
  BY <1>2
<1>4. TypeOK
  <2>1. AtZero \in [Partitions -> Nat]
    BY DEF AtZero
  <2>2. NoOffer \in [plan : SUBSET Partitions, start : [Partitions -> Nat],
                     current : BOOLEAN]
    BY <2>1 DEF NoOffer
  <2>3. offer \in [Gateways -> [plan : SUBSET Partitions,
                                start : [Partitions -> Nat],
                                current : BOOLEAN]]
    BY <2>2 DEF Init
  <2>4. committed \in [Partitions -> Nat] /\ next \in [Gateways -> [Partitions -> Nat]]
    BY <2>1 DEF Init
  <2>5. \A p \in Partitions : committed[p] <= Len(log[p])
    BY <1>3 DEF Init, AtZero
  <2>6. worker \in [Gateways ->
          [Partitions -> {"none", "due", "fetching", "handling", "committing"}]]
    BY DEF Init, Nowhere
  <2> QED BY <1>2, <2>3, <2>4, <2>5, <2>6 DEF Init, TypeOK
<1>5. Offsets /\ HandledExist /\ NoSilentLoss /\ HandledInOrder
  BY <1>3 DEF Init, Offsets, HandledExist, NoSilentLoss, HandledInOrder,
              HandledUpTo, Nowhere, AtZero, NoOffer
<1>6. AtWork /\ OneOwner /\ InStep /\ Published
  BY DEF Init, AtWork, OneOwner, InStep, Published, Nowhere, NoOffer
<1>7. Shown /\ Member /\ Current /\ LateIdle /\ Once
  BY DEF Init, Shown, Member, Current, LateIdle, Once, Nowhere
<1> QED BY <1>4, <1>5, <1>6, <1>7 DEF IInv

(* Every step keeps it. *)
LEMMA KafkaStep == IInv /\ [Next]_vars => IInv'
<1> SUFFICES ASSUME IInv, [Next]_vars PROVE IInv'
  OBVIOUS
<1>1. TypeOK'
  BY TypeStep DEF IInv
<1>2. Completeness'
  BY <1>1, CompletenessSplit, CompletenessStep DEF IInv
<1>3. Offsets' /\ HandledExist' /\ NoSilentLoss' /\ HandledInOrder'
  BY <1>2 DEF Completeness, CompleteAt, Offsets, HandledExist, NoSilentLoss,
              HandledInOrder
<1>4. AtWork' /\ OneOwner' /\ InStep' /\ Published' /\ Shown'
  BY AtWorkStep, OwnerStep, InStepStep, ShownStep DEF IInv
<1>5. Member' /\ Current' /\ LateIdle' /\ Once'
  BY <1>1, MemberStep, CurrentStep, LateIdleStep, OnceStep DEF IInv
<1> QED BY <1>1, <1>3, <1>4, <1>5 DEF IInv

(* The inductive invariant holds in every reachable state. *)
THEOREM KafkaInvariant == Spec => []IInv
  BY KafkaInit, KafkaStep, PTL DEF Spec

(* Offsets stay within their partitions and every variable in its type. *)
THEOREM KafkaType == Spec => []TypeOK
<1>1. IInv => TypeOK
  BY DEF IInv
<1> QED BY <1>1, KafkaInvariant, PTL

(* At-least-once delivery: what is committed has been handled. *)
THEOREM KafkaNoSilentLoss == Spec => []NoSilentLoss
<1>1. IInv => NoSilentLoss
  BY DEF IInv
<1> QED BY <1>1, KafkaInvariant, PTL

(* No danmaku is handled before the valid ones that precede it. *)
THEOREM KafkaOrder == Spec => []HandledInOrder
<1>1. IInv => HandledInOrder
  BY DEF IInv
<1> QED BY <1>1, KafkaInvariant, PTL

(* Workers run only on partitions their gateway shows as its own. *)
THEOREM KafkaWorkersWithinOwnership == Spec => []WorkersWithinOwnership
<1>1. IInv => WorkersWithinOwnership
  BY DEF IInv, AtWork, Published, WorkersWithinOwnership
<1> QED BY <1>1, KafkaInvariant, PTL

(* One owner per partition, but for a gateway that still shows an older    *)
(* generation, and knows it or was evicted.                                *)
THEOREM KafkaOwnersDisjoint == Spec => []OwnersDisjoint
<1>1. IInv => OwnersDisjoint
  <2> SUFFICES ASSUME IInv, NEW g \in Gateways, NEW h \in Gateways, g # h,
                      NEW p \in assigned[g] \cap assigned[h]
               PROVE  \E x \in {g, h} : ~current[x] /\ (ended[x] \/ faults > 0)
    BY DEF OwnersDisjoint
  <2>1. p \in plan[g] \cap plan[h]
    BY DEF IInv, Shown
  <2>2. PICK x \in {g, h} : ~current[x]
    BY <2>1 DEF IInv, OneOwner
  <2>3. CASE faults = 0
    <3>1. grp[x] # "member"
      BY <2>2, <2>3 DEF IInv, Current
    <3>2. ended[x]
      BY <3>1 DEF IInv, Member
    <3> QED BY <2>2, <3>2
  <2>4. CASE faults # 0
    <3>1. faults > 0
      BY <2>4 DEF IInv, TypeOK
    <3> QED BY <2>2, <3>1
  <2> QED BY <2>3, <2>4
<1> QED BY <1>1, KafkaInvariant, PTL

(* Exactly once while nothing fails and no late worker gets a message. *)
THEOREM KafkaNoNeedlessRedelivery == Spec => []NoNeedlessRedelivery
<1>1. IInv => NoNeedlessRedelivery
  <2> SUFFICES ASSUME IInv, NEW g \in Gateways, NEW p \in Partitions,
                      worker[g][p] = "handling", next[g][p] \in handled[p],
                      faults = 0, strays = 0
               PROVE  FALSE
    BY DEF NoNeedlessRedelivery, IInv, TypeOK
  <2>1. current[g] /\ p \in plan[g]
    BY AtWorkCurrent
  <2>2. next[g][p] = committed[p] /\ committed[p] \in Nat
    BY <2>1 DEF IInv, InStep, TypeOK
  <2>3. PICK h \in Gateways : worker[h][p] = "committing"
    BY <2>2 DEF IInv, Once
  <2>4. current[h] /\ p \in plan[h]
    BY <2>3, AtWorkCurrent
  <2> QED BY <2>1, <2>3, <2>4 DEF IInv, OneOwner
<1> QED BY <1>1, KafkaInvariant, PTL

(* No step of any gateway moves a committed offset back. *)
THEOREM KafkaCommits == Spec => CommitsAdvance
<1>1. IInv /\ [Next]_vars =>
        [\A p \in Partitions : committed'[p] >= committed[p]]_vars
  BY CommittedGrows
<1> QED BY <1>1, KafkaInvariant, PTL DEF Spec, CommitsAdvance
-----------------------------------------------------------------------------
(* Kafka as an OrderedBus: what matters is that a worker has handled, or   *)
(* somebody before it has, all that it leaves behind (Offsets).            *)
LEMMA BusStep ==
  ASSUME IInv, [Next]_vars
  PROVE  [Abstract!LanesNext]_(Abstract!lanes)
<1>i. TypeOK /\ AtWork /\ Offsets
  BY DEF IInv
<1>1. ASSUME UNCHANGED <<log, handled>>
      PROVE  UNCHANGED Abstract!lanes
  BY <1>1 DEF Abstract!lanes
<1>2. ASSUME NEW p \in Partitions, NEW kind \in Kinds, Produce(p, kind)
      PROVE  Abstract!LanesNext
  <2>1. Abstract!Offer(p, kind)
    BY <1>2 DEF Produce, workerVars, Abstract!Offer
  <2> QED BY <2>1 DEF Abstract!LanesNext
<1>3. ASSUME NEW owner \in [Partitions -> Joining], NewGeneration(owner)
      PROVE  UNCHANGED <<log, handled>>
  BY <1>3 DEF NewGeneration, workerVars
<1>4. ASSUME NEW g \in Gateways, Control(g)
      PROVE  UNCHANGED <<log, handled>>
  BY <1>4, <1>i, ControlLemma DEF ControlEffect
<1>t. handled \in [Partitions -> SUBSET Nat]
  BY <1>i DEF TypeOK
<1>5. ASSUME NEW g \in Gateways, NEW p \in Partitions, Handle(g, p)
      PROVE  [Abstract!LanesNext]_(Abstract!lanes)
  <2>1. CASE Skippable(g, p)
    BY <1>1, <1>t, <1>5, <2>1 DEF Handle, brokerVars
  <2>2. CASE ~Skippable(g, p)
    <3>1. /\ next[g][p] \in Nat /\ Len(log[p]) \in Nat
          /\ next[g][p] < Len(log[p])
          /\ HandledUpTo(p, next[g][p])
      BY <1>5, <1>i DEF Handle, Offsets, TypeOK
    <3>2. PICK o \in 0..(Len(log[p]) - 1) : o = next[g][p]
      BY <3>1
    <3>3. log[p][o + 1] \in Kinds
      BY <1>i, <3>1, <3>2 DEF TypeOK
    <3>4. log[p][o + 1] = "valid"
      BY <2>2, <3>2, <3>3 DEF Skippable, Kinds
    <3>5. UNCHANGED log /\ handled' = [handled EXCEPT ![p] = @ \cup {o}]
      BY <1>5, <2>2, <3>2 DEF Handle, brokerVars
    <3>6. Abstract!Hand(p, o)
      BY <3>1, <3>2, <3>4, <3>5 DEF Abstract!Hand, HandledUpTo
    <3> QED BY <3>2, <3>6 DEF Abstract!LanesNext
  <2> QED BY <2>1, <2>2
<1>6. ASSUME NEW g \in Gateways, NEW p \in Partitions, Work(g, p), ~Handle(g, p)
      PROVE  UNCHANGED <<log, handled>>
  BY <1>6 DEF Work, StartWorker, Fetch, Stray, Leave, Commit, Refused,
              FetchFails, HandlerFails, CommitFails, Quit, brokerVars
<1>7. UNCHANGED vars => UNCHANGED <<log, handled>>
  BY DEF vars, brokerVars, workerVars
<1> QED BY <1>1, <1>2, <1>3, <1>4, <1>5, <1>6, <1>7, NextCases

(* Kafka, with any number of gateways on it, is an ordered bus: crashes,   *)
(* evictions and failures repeat danmaku but never pass one over.          *)
THEOREM KafkaImplementsBus == Spec => ImplementsBus
<1>1. Init => Abstract!LanesInit
  BY KafkaInit DEF IInv, TypeOK, Init, Abstract!LanesInit
<1> QED
  BY <1>1, KafkaInit, KafkaStep, BusStep, PTL
  DEF Spec, ImplementsBus, Abstract!OrderedSpec
-----------------------------------------------------------------------------
(* The end of a gateway.                                                   *)

(* Ready means consuming, and only a cancelled consumer is over. *)
ReadyOrOver ==
  \A g \in Gateways :
    /\ ready[g] => pc[g] = "consuming"
    /\ pc[g] = "stopped" => Cancelled(g)

(* What a control step does to a gateway that is over, or not ready. *)
LEMMA ReadyControl ==
  ASSUME TypeOK, ReadyOrOver, NEW g \in Gateways, Control(g), NEW h \in Gateways
  PROVE  /\ ready'[h] => pc'[h] = "consuming"
         /\ pc'[h] = "stopped" => Cancelled(h)'
         /\ pc[h] = "stopped" /\ Cancelled(h) => pc'[h] = "stopped"
<1>t. /\ pc \in [Gateways -> Places] /\ ready \in [Gateways -> BOOLEAN]
      /\ stop \in [Gateways -> {"running", "cancelled", "unready", "closed"}]
  BY DEF TypeOK, Places
<1> USE <1>t DEF consumeVars, ReadyOrOver, Cancelled, Goto, Release
<1>1. CASE LearnEnd(g) \/ Rejoin(g) \/ LeaveGroup(g)
  BY <1>1 DEF LearnEnd, Rejoin, LeaveGroup
<1>2. CASE Start(g) \/ Finish(g) \/ Retry(g)
  BY <1>2 DEF Start, Finish, Retry
<1>3. CASE GiveUp(g) \/ Abort(g) \/ GoOut(g)
  BY <1>3 DEF GiveUp, Abort, GoOut, Return
<1>4. CASE GoRound(g) \/ Disown(g)
  BY <1>4 DEF GoRound, Disown
<1>5. CASE Receive(g) \/ Own(g)
  BY <1>5 DEF Receive, Own
<1>6. CASE StartWorkers(g) \/ Unready(g)
  BY <1>6 DEF StartWorkers, Unready
<1>7. CASE Crash(g)
  BY <1>7 DEF Crash
<1>8. CASE Cancel(g) \/ CloseReady(g) \/ CloseOwnership(g)
  BY <1>8 DEF Cancel, CloseReady, CloseOwnership
<1> QED
  BY <1>1, <1>2, <1>3, <1>4, <1>5, <1>6, <1>7, <1>8 DEF Control

(* Every step keeps that. *)
LEMMA ReadyStep == IInv /\ ReadyOrOver /\ [Next]_vars => ReadyOrOver'
<1> SUFFICES ASSUME IInv, ReadyOrOver, [Next]_vars PROVE ReadyOrOver'
  OBVIOUS
<1>i. TypeOK
  BY DEF IInv
<1>1. ASSUME UNCHANGED <<stop, consumeVars>> PROVE ReadyOrOver'
  BY <1>1 DEF consumeVars, ReadyOrOver, Cancelled
<1>2. ASSUME NEW p \in Partitions, NEW kind \in Kinds, Produce(p, kind)
      PROVE  ReadyOrOver'
  BY <1>1, <1>2 DEF Produce
<1>3. ASSUME NEW owner \in [Partitions -> Joining], NewGeneration(owner)
      PROVE  ReadyOrOver'
  BY <1>1, <1>3 DEF NewGeneration
<1>4. ASSUME NEW g \in Gateways, Control(g) PROVE ReadyOrOver'
  BY <1>4, <1>i, ReadyControl DEF ReadyOrOver
<1>5. ASSUME NEW g \in Gateways, NEW p \in Partitions, Work(g, p)
      PROVE  ReadyOrOver'
  BY <1>1, <1>5, <1>i, WorkLemma DEF WorkEffect, OthersKeep
<1>6. CASE UNCHANGED vars
  BY <1>1, <1>6 DEF vars
<1> QED BY <1>2, <1>3, <1>4, <1>5, <1>6, NextCases

(* Nothing revives a gateway whose consumer is over. *)
LEMMA OverStays ==
  ASSUME IInv, ReadyOrOver, [Next]_vars, NEW h \in Gateways, pc[h] = "stopped"
  PROVE  pc'[h] = "stopped"
<1>i. TypeOK /\ Cancelled(h)
  BY DEF IInv, ReadyOrOver
<1>1. ASSUME NEW p \in Partitions, NEW kind \in Kinds, Produce(p, kind)
      PROVE  UNCHANGED pc
  BY <1>1 DEF Produce, consumeVars
<1>2. ASSUME NEW owner \in [Partitions -> Joining], NewGeneration(owner)
      PROVE  UNCHANGED pc
  BY <1>2 DEF NewGeneration, consumeVars
<1>3. ASSUME NEW g \in Gateways, Control(g) PROVE pc'[h] = "stopped"
  BY <1>3, <1>i, ReadyControl
<1>4. ASSUME NEW g \in Gateways, NEW p \in Partitions, Work(g, p)
      PROVE  UNCHANGED pc
  BY <1>4, <1>i, WorkLemma DEF WorkEffect, OthersKeep, consumeVars
<1>5. UNCHANGED vars => UNCHANGED pc
  BY DEF vars, consumeVars
<1> QED BY <1>1, <1>2, <1>3, <1>4, <1>5, NextCases

(* The safety half of StopWithdraws: a gateway whose consumer goroutine    *)
(* has ended is neither ready nor an owner, then and ever after, although  *)
(* Consume may publish an ownership after Close has cleared it.            *)
THEOREM KafkaStoppedForGood ==
  ASSUME NEW CONSTANT g \in Gateways
  PROVE  Spec => [](pc[g] = "stopped" =>
                      [](pc[g] = "stopped" /\ ~ready[g] /\ assigned[g] = {}))
<1>1. Init => ReadyOrOver
  BY DEF Init, ReadyOrOver, Cancelled
<1>2. IInv /\ ReadyOrOver /\ pc[g] = "stopped" => ~ready[g] /\ assigned[g] = {}
  BY DEF IInv, TypeOK, Shown, ReadyOrOver
<1>3. IInv /\ ReadyOrOver /\ pc[g] = "stopped" /\ [Next]_vars => (pc[g] = "stopped")'
  BY OverStays
<1> QED
  BY <1>1, <1>2, <1>3, KafkaInvariant, ReadyStep, PTL DEF Spec
=============================================================================
