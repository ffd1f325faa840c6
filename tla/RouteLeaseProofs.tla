-------------------------- MODULE RouteLeaseProofs --------------------------
(***************************************************************************)
(* Route leases for any processes, partitions, TTL, poll interval and      *)
(* number of faults.  The invariant joins what a publisher has done so far *)
(* (Local), where a lease can be found in its publisher's bookkeeping      *)
(* (Held), and how the two clocks, the ticker's and the lease's, stand to  *)
(* each other (Clocks, Fresh).                                             *)
(***************************************************************************)
EXTENDS RouteLease, TLAPS

Quiet == faults = 0 => late = {}

(* What process g has read, dealt with and published. *)
LocalOf(g) ==
  /\ lastRevision[g] <= revision[g]
  /\ pc[g] = "working" =>
       /\ todo[g] \subseteq next[g]
       /\ revision[g] = lastRevision[g] => next[g] = assigned[g]
  /\ pc[g] # "working" => todo[g] = {}
  /\ pc[g] = "idle" /\ revision[g] = lastRevision[g] => published[g] = assigned[g]
  /\ pc[g] = "starting" => published[g] = {}
  /\ stage[g] = "crashed" => pc[g] = "done"

Local == \A g \in Processes : LocalOf(g)

(* A lease in the name of g is one that g is going to release. *)
Held ==
  faults = 0 =>
    \A g \in Processes, p \in Partitions :
      stage[g] = "up" /\ lease[p] = g =>
        \/ p \in published[g]
        \/ pc[g] = "working" /\ p \in next[g] \ todo[g]

(* Since the last tick of g's ticker, since[g] has grown by poll - until[g]. *)
(* At that tick a round began, or one was not due yet.                       *)
ClockOf(g) ==
  /\ pc[g] = "starting" => since[g] = 0 /\ until[g] = poll /\ ~tick[g]
  /\ pc[g] \in {"reading", "working"} => since[g] = 0 /\ until[g] = poll /\ ~tick[g]
  /\ tick[g] => until[g] = poll /\ since[g] >= poll
  /\ ~tick[g] =>
       \/ since[g] + until[g] = poll
       \/ since[g] + until[g] >= poll + poll /\ 3 * (since[g] + until[g] - poll) < TTL

Clocks == faults = 0 => \A g \in Processes : ClockOf(g)

(* What is left of a lease is at least what its publisher counts on. *)
Fresh ==
  faults = 0 =>
    \A g \in Processes, p \in Partitions :
      stage[g] = "up" /\ lease[p] = g =>
        /\ pc[g] = "idle" /\ p \in published[g] => left[p] >= TTL - since[g]
        /\ pc[g] = "working" /\ p \in next[g] \ todo[g] => left[p] = TTL

(* The inductive invariant. *)
IInv == TypeOK /\ Quiet /\ Local /\ Held /\ Clocks /\ Fresh
-----------------------------------------------------------------------------
(* What a Redis command does, and what a call of the client may do. *)

LEMMA SetEffect ==
  ASSUME TypeOK, NEW g \in Processes, NEW p \in Partitions, Set(g, p)
  PROVE  /\ lease' \in [Partitions -> Processes \cup {NoProcess}]
         /\ left' \in [Partitions -> 0..TTL]
         /\ \A q \in Partitions : left'[q] = 0 <=> lease'[q] = NoProcess
         /\ lease'[p] = g /\ left'[p] = TTL
         /\ \A q \in Partitions \ {p} : lease'[q] = lease[q] /\ left'[q] = left[q]
BY RouteConstants DEF TypeOK, Set

LEMMA DeleteEffect ==
  ASSUME TypeOK, NEW g \in Processes, NEW p \in Partitions, DeleteIfOurs(g, p)
  PROVE  /\ lease' \in [Partitions -> Processes \cup {NoProcess}]
         /\ left' \in [Partitions -> 0..TTL]
         /\ \A q \in Partitions : left'[q] = 0 <=> lease'[q] = NoProcess
         /\ lease'[p] # g
         /\ lease[p] # g => lease'[p] = lease[p] /\ left'[p] = left[p]
         /\ \A q \in Partitions \ {p} : lease'[q] = lease[q] /\ left'[q] = left[q]
BY RouteConstants DEF TypeOK, DeleteIfOurs

(* Types survive a call, and a call without a fault either did what it was *)
(* asked to do or belongs to a process on its way down.                    *)
LEMMA SetCall ==
  ASSUME TypeOK, NEW g \in Processes, NEW p \in Partitions, Call("set", g, p)
  PROVE  /\ lease' \in [Partitions -> Processes \cup {NoProcess}]
         /\ left' \in [Partitions -> 0..TTL]
         /\ \A q \in Partitions : left'[q] = 0 <=> lease'[q] = NoProcess
         /\ late' \subseteq Commands
         /\ faults' \in Nat
         /\ faults' = 0 =>
              /\ faults = 0 /\ late' = late
              /\ \/ Set(g, p)
                 \/ stage[g] # "up" /\ lease' = lease /\ left' = left
<1>1. CASE stage[g] \in {"up", "stopping"} /\ Set(g, p) /\ UNCHANGED <<late, faults>>
  BY <1>1, SetEffect DEF TypeOK
<1>2. CASE Hopeless(g) /\ UNCHANGED <<redisVars, faults>>
  BY <1>2 DEF TypeOK, Hopeless, redisVars
<1>3. CASE /\ Fault
           /\ late' \in {late, late \cup {Command("set", g, p)}}
           /\ UNCHANGED <<lease, left>>
  BY <1>3 DEF TypeOK, Fault, Command, Commands
<1> QED BY <1>1, <1>2, <1>3 DEF Call

LEMMA DeleteCall ==
  ASSUME TypeOK, NEW g \in Processes, NEW p \in Partitions, Call("delete", g, p)
  PROVE  /\ lease' \in [Partitions -> Processes \cup {NoProcess}]
         /\ left' \in [Partitions -> 0..TTL]
         /\ \A q \in Partitions : left'[q] = 0 <=> lease'[q] = NoProcess
         /\ late' \subseteq Commands
         /\ faults' \in Nat
         /\ faults' = 0 =>
              /\ faults = 0 /\ late' = late
              /\ \/ DeleteIfOurs(g, p)
                 \/ stage[g] # "up" /\ lease' = lease /\ left' = left
<1>1. CASE /\ stage[g] \in {"up", "stopping"}
           /\ DeleteIfOurs(g, p)
           /\ UNCHANGED <<late, faults>>
  BY <1>1, DeleteEffect DEF TypeOK
<1>2. CASE Hopeless(g) /\ UNCHANGED <<redisVars, faults>>
  BY <1>2 DEF TypeOK, Hopeless, redisVars
<1>3. CASE /\ Fault
           /\ late' \in {late, late \cup {Command("delete", g, p)}}
           /\ UNCHANGED <<lease, left>>
  BY <1>3 DEF TypeOK, Fault, Command, Commands
<1> QED BY <1>1, <1>2, <1>3 DEF Call

(* Time passing keeps the types, and a lease goes only when its time is up. *)
LEMMA TimeEffect ==
  ASSUME TypeOK, TimePasses
  PROVE  /\ lease' \in [Partitions -> Processes \cup {NoProcess}]
         /\ left' \in [Partitions -> 0..TTL]
         /\ \A q \in Partitions : left'[q] = 0 <=> lease'[q] = NoProcess
         /\ since' \in [Processes -> 0..TTL]
         /\ until' \in [Processes -> 1..poll]
         /\ tick' \in [Processes -> BOOLEAN]
         /\ \A p \in Partitions :
              /\ lease'[p] \in {lease[p], NoProcess}
              /\ left[p] > 1 => lease'[p] = lease[p] /\ left'[p] = left[p] - 1
<1>1. /\ lease' \in [Partitions -> Processes \cup {NoProcess}]
      /\ left' \in [Partitions -> 0..TTL]
      /\ \A q \in Partitions : left'[q] = 0 <=> lease'[q] = NoProcess
      /\ \A p \in Partitions :
              /\ lease'[p] \in {lease[p], NoProcess}
              /\ left[p] > 1 => lease'[p] = lease[p] /\ left'[p] = left[p] - 1
  BY RouteConstants DEF TypeOK, TimePasses, Expired
<1>2. since' \in [Processes -> 0..TTL]
  BY RouteConstants DEF TypeOK, TimePasses
<1>3. until' \in [Processes -> 1..poll]
  BY RouteConstants DEF TypeOK, TimePasses
<1>4. tick' \in [Processes -> BOOLEAN]
  BY DEF TypeOK, TimePasses
<1> QED BY <1>1, <1>2, <1>3, <1>4
-----------------------------------------------------------------------------
(* One lemma for each conjunct of the invariant, one step for each action.  *)

USE DEF redisVars, busVars, runVars, clockVars

LEMMA TypeStep ==
  ASSUME TypeOK, Next
  PROVE  TypeOK'
<1>1. ASSUME NEW g \in Processes, NEW T \in SUBSET Partitions, SetOwnership(g, T)
      PROVE  TypeOK'
  BY <1>1 DEF TypeOK, SetOwnership
<1>2. ASSUME NEW g \in Processes, Start(g) PROVE TypeOK'
  BY <1>2, RouteConstants DEF TypeOK, Start, BeginRound, Goto
<1>3. ASSUME NEW g \in Processes, Wake(g) PROVE TypeOK'
  BY <1>3, RouteConstants DEF TypeOK, Wake, BeginRound, Goto
<1>4. ASSUME NEW g \in Processes, ReadAssigned(g) PROVE TypeOK'
  BY <1>4 DEF TypeOK, ReadAssigned, Wanted, Goto
<1>5. ASSUME NEW g \in Processes, NEW p \in Partitions, Register(g, p) PROVE TypeOK'
  BY <1>5, SetCall DEF TypeOK, Register
<1>6. ASSUME NEW g \in Processes, NEW p \in Partitions, Release(g, p) PROVE TypeOK'
  BY <1>6, DeleteCall DEF TypeOK, Release
<1>7. ASSUME NEW g \in Processes, EndRound(g) PROVE TypeOK'
  BY <1>7 DEF TypeOK, EndRound, Remember, Goto
<1>8. ASSUME NEW g \in Processes, Leave(g) \/ Exit(g) PROVE TypeOK'
  BY <1>8 DEF TypeOK, Leave, Exit, Goto
<1>9. ASSUME NEW g \in Processes, StopPublisher(g) PROVE TypeOK'
  BY <1>9 DEF TypeOK, StopPublisher
<1>10. ASSUME NEW g \in Processes, CloseRegistry(g) PROVE TypeOK'
  BY <1>10 DEF TypeOK, CloseRegistry, Fault
<1>11. ASSUME NEW g \in Processes, StopConsumer(g) PROVE TypeOK'
  BY <1>11 DEF TypeOK, StopConsumer
<1>12. ASSUME NEW g \in Processes, Crash(g) PROVE TypeOK'
  BY <1>12 DEF TypeOK, Crash, Goto, Fault
<1>13. ASSUME NEW m \in late, Arrive(m) PROVE TypeOK'
  <2>1. m.by \in Processes /\ m.on \in Partitions
    BY DEF TypeOK, Commands
  <2>2. /\ lease' \in [Partitions -> Processes \cup {NoProcess}]
        /\ left' \in [Partitions -> 0..TTL]
        /\ \A q \in Partitions : left'[q] = 0 <=> lease'[q] = NoProcess
    BY <1>13, <2>1, SetEffect, DeleteEffect DEF Arrive
  <2> QED BY <1>13, <2>2 DEF TypeOK, Arrive
<1>14. ASSUME Tick \/ Delay PROVE TypeOK'
  <2>1. TimePasses /\ faults' \in Nat
    BY <1>14 DEF Tick, Delay, Fault, TypeOK
  <2>2. UNCHANGED <<poll, late, busVars, runVars, stage>>
    BY <2>1 DEF TimePasses
  <2> QED BY <2>1, <2>2, TimeEffect DEF TypeOK
<1> QED
  BY <1>1, <1>2, <1>3, <1>4, <1>5, <1>6, <1>7, <1>8, <1>9, <1>10, <1>11, <1>12,
     <1>13, <1>14 DEF Next, ProcessStep, PublisherStep

LEMMA LocalStep ==
  ASSUME TypeOK, Local, Next
  PROVE  Local'
<1> USE DEF Local, LocalOf
<1>1. ASSUME NEW g \in Processes, NEW T \in SUBSET Partitions, SetOwnership(g, T)
      PROVE  Local'
  BY <1>1 DEF TypeOK, SetOwnership
<1>2. ASSUME NEW g \in Processes, Start(g) PROVE Local'
  BY <1>2 DEF TypeOK, Start, BeginRound, Goto
<1>3. ASSUME NEW g \in Processes, Wake(g) PROVE Local'
  BY <1>3 DEF TypeOK, Wake, BeginRound, Goto
<1>4. ASSUME NEW g \in Processes, ReadAssigned(g) PROVE Local'
  BY <1>4 DEF TypeOK, ReadAssigned, Wanted, Goto
<1>5. ASSUME NEW g \in Processes, NEW p \in Partitions, Register(g, p) PROVE Local'
  BY <1>5 DEF TypeOK, Register
<1>6. ASSUME NEW g \in Processes, NEW p \in Partitions, Release(g, p) PROVE Local'
  BY <1>6 DEF TypeOK, Release, Releasable
<1>7. ASSUME NEW g \in Processes, EndRound(g) PROVE Local'
  BY <1>7 DEF TypeOK, EndRound, Remember, Goto
<1>8. ASSUME NEW g \in Processes, Leave(g) \/ Exit(g) PROVE Local'
  BY <1>8 DEF TypeOK, Leave, Exit, Goto
<1>9. ASSUME NEW g \in Processes, StopPublisher(g) \/ CloseRegistry(g) PROVE Local'
  BY <1>9 DEF TypeOK, StopPublisher, CloseRegistry
<1>10. ASSUME NEW g \in Processes, StopConsumer(g) PROVE Local'
  BY <1>10 DEF TypeOK, StopConsumer
<1>11. ASSUME NEW g \in Processes, Crash(g) PROVE Local'
  BY <1>11 DEF TypeOK, Crash, Goto
<1>12. ASSUME UNCHANGED <<busVars, runVars, stage>> PROVE Local'
  BY <1>12
<1>13. ASSUME (\E m \in late : Arrive(m)) \/ Tick \/ Delay
       PROVE  UNCHANGED <<busVars, runVars, stage>>
  BY <1>13 DEF Arrive, Tick, Delay, TimePasses
<1> QED
  BY <1>1, <1>2, <1>3, <1>4, <1>5, <1>6, <1>7, <1>8, <1>9, <1>10, <1>11, <1>12,
     <1>13 DEF Next, ProcessStep, PublisherStep

(* Without a fault nothing is on its way to Redis any more. *)
LEMMA QuietStep ==
  ASSUME TypeOK, Quiet, Next
  PROVE  Quiet'
<1> USE DEF Quiet
<1>1. ASSUME NEW g \in Processes, NEW p \in Partitions, Register(g, p) PROVE Quiet'
  BY <1>1, SetCall DEF Register
<1>2. ASSUME NEW g \in Processes, NEW p \in Partitions, Release(g, p) PROVE Quiet'
  BY <1>2, DeleteCall DEF Release
<1>3. ASSUME NEW g \in Processes,
             \/ \E T \in SUBSET Partitions : SetOwnership(g, T)
             \/ Start(g) \/ Wake(g) \/ ReadAssigned(g) \/ EndRound(g)
             \/ Leave(g) \/ Exit(g) \/ StopPublisher(g) \/ StopConsumer(g)
      PROVE  Quiet'
  BY <1>3 DEF SetOwnership, Start, Wake, ReadAssigned, EndRound, Leave, Exit,
              StopPublisher, StopConsumer
<1>4. ASSUME NEW g \in Processes, CloseRegistry(g) \/ Crash(g) PROVE Quiet'
  BY <1>4 DEF CloseRegistry, Crash, Fault, TypeOK
<1>5. ASSUME \E m \in late : Arrive(m) PROVE Quiet'
  BY <1>5 DEF Arrive
<1>6. ASSUME Tick \/ Delay PROVE Quiet'
  BY <1>6 DEF Tick, Delay, TimePasses, Fault, TypeOK
<1> QED
  BY <1>1, <1>2, <1>3, <1>4, <1>5, <1>6 DEF Next, ProcessStep, PublisherStep

LEMMA HeldStep ==
  ASSUME TypeOK, Quiet, Local, Held, Next
  PROVE  Held'
<1> SUFFICES ASSUME faults' = 0,
                    NEW h \in Processes, NEW q \in Partitions,
                    stage'[h] = "up", lease'[q] = h
             PROVE  \/ q \in published'[h]
                    \/ pc'[h] = "working" /\ q \in next'[h] \ todo'[h]
  BY DEF Held
<1> USE DEF Held
<1>1. ASSUME NEW g \in Processes,
             \/ \E T \in SUBSET Partitions : SetOwnership(g, T)
             \/ StopPublisher(g) \/ StopConsumer(g) \/ CloseRegistry(g) \/ Crash(g)
      PROVE  /\ faults = 0 /\ stage[h] = "up" /\ lease[q] = h
             /\ UNCHANGED <<published, pc, next, todo>>
  BY <1>1 DEF SetOwnership, StopPublisher, StopConsumer, CloseRegistry, Crash,
              Fault, TypeOK
<1>2. ASSUME NEW g \in Processes, Start(g) \/ Wake(g) PROVE Held'
  BY <1>2 DEF Start, Wake, BeginRound, Goto, TypeOK
<1>3. ASSUME NEW g \in Processes, ReadAssigned(g) PROVE Held'
  BY <1>3 DEF ReadAssigned, Wanted, Goto, TypeOK
<1>4. ASSUME NEW g \in Processes, NEW p \in Partitions, Register(g, p)
      PROVE  \/ q \in published'[h]
             \/ pc'[h] = "working" /\ q \in next'[h] \ todo'[h]
  <2>1. /\ faults = 0
        /\ Set(g, p) \/ (stage[g] # "up" /\ lease' = lease)
    BY <1>4, SetCall DEF Register
  <2>2. /\ pc[g] = "working" /\ p \in next[g]
        /\ UNCHANGED <<pc, next, published, stage>>
        /\ todo'[g] = todo[g] \ {p}
        /\ \A x \in Processes \ {g} : todo'[x] = todo[x]
    BY <1>4 DEF Register, Local, LocalOf, TypeOK
  <2>3. CASE q = p /\ Set(g, p)
    BY <2>2, <2>3, SetEffect
  <2>4. CASE lease'[q] = lease[q]
    BY <2>1, <2>2, <2>4
  <2> QED BY <2>1, <2>3, <2>4, SetEffect
<1>5. ASSUME NEW g \in Processes, NEW p \in Partitions, Release(g, p)
      PROVE  \/ q \in published'[h]
             \/ pc'[h] = "working" /\ q \in next'[h] \ todo'[h]
  <2>1. /\ faults = 0
        /\ DeleteIfOurs(g, p) \/ (stage[g] # "up" /\ lease' = lease)
    BY <1>5, DeleteCall DEF Release
  <2>2. /\ UNCHANGED <<pc, next, todo, stage>>
        /\ published'[g] = published[g] \ {p}
        /\ \A x \in Processes \ {g} : published'[x] = published[x]
    BY <1>5 DEF Release, TypeOK
  <2>3. lease[q] = h
    BY <2>1, DeleteEffect, RouteConstants DEF DeleteIfOurs, TypeOK
  <2>4. q # p \/ h # g
    BY <2>1, <2>2, DeleteEffect
  <2> QED BY <2>1, <2>2, <2>3, <2>4
<1>6. ASSUME NEW g \in Processes, EndRound(g)
      PROVE  \/ q \in published'[h]
             \/ pc'[h] = "working" /\ q \in next'[h] \ todo'[h]
  BY <1>6 DEF EndRound, Releasable, Goto, TypeOK
<1>7. ASSUME NEW g \in Processes, Leave(g) \/ Exit(g) PROVE Held'
  BY <1>7 DEF Leave, Exit, Goto, TypeOK
<1>8. ASSUME \E m \in late : Arrive(m) PROVE FALSE
  BY <1>8 DEF Arrive, Quiet
<1>9. ASSUME Tick \/ Delay
      PROVE  /\ faults = 0 /\ stage[h] = "up" /\ lease[q] = h
             /\ UNCHANGED <<published, pc, next, todo>>
  BY <1>9, TimeEffect, RouteConstants DEF Tick, Delay, TimePasses, Fault, TypeOK
<1> QED
  BY <1>1, <1>2, <1>3, <1>4, <1>5, <1>6, <1>7, <1>8, <1>9
     DEF Next, ProcessStep, PublisherStep

LEMMA ClocksStep ==
  ASSUME TypeOK, Clocks, Next
  PROVE  Clocks'
<1> SUFFICES ASSUME faults' = 0, NEW h \in Processes
             PROVE  ClockOf(h)'
  BY DEF Clocks
<1>1. CASE \/ \E g \in Processes :
               \/ \E T \in SUBSET Partitions : SetOwnership(g, T)
               \/ StopPublisher(g) \/ CloseRegistry(g) \/ StopConsumer(g)
           \/ \E m \in late : Arrive(m)
  BY <1>1 DEF SetOwnership, StopPublisher, CloseRegistry, StopConsumer, Arrive,
              Fault, Clocks, ClockOf, TypeOK
<1>2. ASSUME NEW g \in Processes, Start(g) \/ Wake(g) PROVE ClockOf(h)'
  <2>1. faults = 0 /\ ClockOf(h) /\ ClockOf(g) /\ UNCHANGED <<poll, until>>
    BY <1>2 DEF Start, Wake, Clocks
  <2>2. CASE h # g
    BY <1>2, <2>1, <2>2 DEF Start, Wake, BeginRound, Goto, ClockOf, TypeOK
  <2>3. CASE h = g /\ BeginRound(g)
    <3>1. since'[g] = 0 /\ pc'[g] = "reading"
      BY <2>3 DEF BeginRound, Goto, TypeOK
    <3>2. until'[g] = poll /\ ~tick'[g]
      BY <1>2, <2>1 DEF Start, Wake, ClockOf, TypeOK
    <3> QED BY <2>1, <2>3, <3>1, <3>2 DEF ClockOf, TypeOK
  <2>4. CASE /\ h = g
             /\ Wake(g)
             /\ ~RefreshDue(g)
             /\ UNCHANGED <<pc, lastRevision, since>>
    <3>1. ~tick'[g] /\ tick[g] /\ pc[g] = "idle"
      BY <2>4 DEF Wake, TypeOK
    <3>2. until[g] = poll /\ since[g] >= poll /\ ~(3 * since[g] >= TTL)
      BY <2>1, <2>4, <3>1 DEF ClockOf, RefreshDue
    <3> QED BY <2>1, <2>4, <3>1, <3>2, RouteConstants DEF ClockOf, TypeOK
  <2> QED BY <1>2, <2>2, <2>3, <2>4 DEF Start, Wake
<1>3. ASSUME NEW g \in Processes,
             \/ ReadAssigned(g) \/ EndRound(g) \/ Leave(g) \/ Exit(g)
      PROVE  ClockOf(h)'
  BY <1>3 DEF ReadAssigned, EndRound, Leave, Exit, Goto, Clocks, ClockOf, TypeOK
<1>4. ASSUME NEW g \in Processes, NEW p \in Partitions,
             Register(g, p) \/ Release(g, p)
      PROVE  ClockOf(h)'
  <2>1. faults = 0
    BY <1>4, SetCall, DeleteCall DEF Register, Release
  <2>2. UNCHANGED <<pc, poll, clockVars>>
    BY <1>4 DEF Register, Release
  <2> QED BY <2>1, <2>2 DEF Clocks, ClockOf
<1>5. ASSUME NEW g \in Processes, Crash(g) PROVE FALSE
  BY <1>5 DEF Crash, Fault, TypeOK
<1>6. ASSUME Tick PROVE ClockOf(h)'
  <2>1. faults = 0 /\ ClockOf(h) /\ TimePasses /\ UNCHANGED <<pc, poll>>
    BY <1>6 DEF Tick, TimePasses, Clocks
  <2>2. CASE pc[h] = "done"
    BY <2>1, <2>2 DEF TimePasses, Timed, ClockOf, TypeOK
  <2>3. CASE pc[h] = "idle" /\ ~tick[h]
    <3> DEFINE s == since[h]
               u == until[h]
    <3>1. /\ s \in 0..TTL /\ u \in 1..poll /\ poll \in 1..(TTL - 1)
          /\ s + u = poll \/ (s + u >= poll + poll /\ 3 * (s + u - poll) < TTL)
      BY <2>1, <2>3 DEF ClockOf, TypeOK
    <3>2. s + u < TTL
      BY <3>1, RouteConstants
    <3>6. /\ since'[h] = s + 1
          /\ until'[h] = IF u = 1 THEN poll ELSE u - 1
      BY <2>1, <2>3, <3>1, <3>2, RouteConstants DEF TimePasses, Timed, TypeOK
    <3>7. Timed(h)
      BY <2>3 DEF Timed
    <3>8. tick'[h] <=> u = 1
      BY <2>1, <2>3, <3>7, Zenon DEF TimePasses
    <3>3. /\ since'[h] = s + 1
          /\ until'[h] = IF u = 1 THEN poll ELSE u - 1
          /\ tick'[h] <=> u = 1
      BY <3>6, <3>8
    <3>4. CASE u = 1
      BY <2>1, <2>3, <3>1, <3>3, <3>4 DEF ClockOf
    <3>5. CASE u # 1
      BY <2>1, <2>3, <3>1, <3>3, <3>5 DEF ClockOf
    <3> QED BY <3>4, <3>5
  <2> QED BY <1>6, <2>2, <2>3 DEF Tick, Waiting
<1>7. ASSUME Delay PROVE FALSE
  BY <1>7 DEF Delay, Fault, TypeOK
<1> QED
  BY <1>1, <1>2, <1>3, <1>4, <1>5, <1>6, <1>7 DEF Next, ProcessStep, PublisherStep

(* A step that ends a lease in use would be a tick that comes too late. *)
LEMMA LeaseOutlivesTick ==
  ASSUME TypeOK, Clocks, Fresh, faults = 0, NEW g \in Processes,
         NEW p \in Partitions, stage[g] = "up", pc[g] = "idle", ~tick[g],
         p \in published[g], lease[p] = g
  PROVE  left[p] > 1 /\ since[g] < TTL
<1>1. /\ since[g] \in 0..TTL /\ until[g] \in 1..poll /\ poll \in 1..(TTL - 1)
      /\ \/ since[g] + until[g] = poll
         \/ /\ since[g] + until[g] >= poll + poll
            /\ 3 * (since[g] + until[g] - poll) < TTL
  BY DEF TypeOK, Clocks, ClockOf
<1>2. since[g] + until[g] < TTL
  BY <1>1, RouteConstants
<1>3. left[p] \in 0..TTL /\ left[p] >= TTL - since[g]
  BY DEF TypeOK, Fresh
<1> QED BY <1>1, <1>2, <1>3, RouteConstants

LEMMA FreshStep ==
  ASSUME TypeOK, Quiet, Local, Held, Clocks, Fresh, Next
  PROVE  Fresh'
<1> SUFFICES ASSUME faults' = 0,
                    NEW h \in Processes, NEW q \in Partitions,
                    stage'[h] = "up", lease'[q] = h
             PROVE  /\ pc'[h] = "idle" /\ q \in published'[h] => left'[q] >= TTL - since'[h]
                    /\ pc'[h] = "working" /\ q \in next'[h] \ todo'[h] => left'[q] = TTL
  BY DEF Fresh
<1> USE DEF Fresh
<1>1. CASE \E g \in Processes :
             \/ \E T \in SUBSET Partitions : SetOwnership(g, T)
             \/ StopPublisher(g) \/ StopConsumer(g) \/ CloseRegistry(g) \/ Crash(g)
  <2>1. /\ faults = 0 /\ stage[h] = "up" /\ lease[q] = h
        /\ UNCHANGED <<published, pc, next, todo, left, since>>
    BY <1>1 DEF SetOwnership, StopPublisher, StopConsumer, CloseRegistry, Crash,
                Fault, TypeOK
  <2> QED BY <2>1
<1>2. ASSUME NEW g \in Processes, Start(g) \/ Wake(g) PROVE Fresh'
  BY <1>2 DEF Start, Wake, BeginRound, Goto, TypeOK
<1>3. ASSUME NEW g \in Processes, ReadAssigned(g) PROVE Fresh'
  BY <1>3 DEF ReadAssigned, Wanted, Goto, TypeOK
<1>4. ASSUME NEW g \in Processes, NEW p \in Partitions, Register(g, p)
      PROVE  /\ pc'[h] = "idle" /\ q \in published'[h] => left'[q] >= TTL - since'[h]
             /\ pc'[h] = "working" /\ q \in next'[h] \ todo'[h] => left'[q] = TTL
  <2>1. /\ faults = 0
        /\ Set(g, p) \/ (stage[g] # "up" /\ lease' = lease /\ left' = left)
    BY <1>4, SetCall DEF Register
  <2>2. /\ pc[g] = "working"
        /\ UNCHANGED <<pc, next, published, stage, since>>
        /\ todo'[g] = todo[g] \ {p}
        /\ \A x \in Processes \ {g} : todo'[x] = todo[x]
    BY <1>4 DEF Register, TypeOK
  <2>3. CASE q = p /\ Set(g, p)
    BY <2>2, <2>3, SetEffect
  <2>4. CASE q # p \/ ~Set(g, p)
    BY <2>1, <2>2, <2>4, SetEffect
  <2> QED BY <2>3, <2>4
<1>5. ASSUME NEW g \in Processes, NEW p \in Partitions, Release(g, p)
      PROVE  /\ pc'[h] = "idle" /\ q \in published'[h] => left'[q] >= TTL - since'[h]
             /\ pc'[h] = "working" /\ q \in next'[h] \ todo'[h] => left'[q] = TTL
  <2>1. /\ faults = 0
        /\ DeleteIfOurs(g, p) \/ (stage[g] # "up" /\ lease' = lease /\ left' = left)
    BY <1>5, DeleteCall DEF Release
  <2>2. /\ UNCHANGED <<pc, next, todo, stage, since>>
        /\ published'[h] \subseteq published[h]
    BY <1>5 DEF Release, TypeOK
  <2>3. lease[q] = h /\ left'[q] = left[q]
    BY <2>1, DeleteEffect, RouteConstants DEF DeleteIfOurs, TypeOK
  <2> QED BY <2>1, <2>2, <2>3
<1>6. ASSUME NEW g \in Processes, EndRound(g)
      PROVE  /\ pc'[h] = "idle" /\ q \in published'[h] => left'[q] >= TTL - since'[h]
             /\ pc'[h] = "working" /\ q \in next'[h] \ todo'[h] => left'[q] = TTL
  <2>1. /\ faults = 0 /\ stage[h] = "up" /\ lease[q] = h
        /\ UNCHANGED <<todo, left, since>>
    BY <1>6 DEF EndRound
  <2>2. CASE h # g
    BY <1>6, <2>1, <2>2 DEF EndRound, Goto, TypeOK
  <2>3. CASE h = g
    <3>1. /\ pc[g] = "working" /\ todo[g] = {} /\ since[g] = 0
          /\ pc'[g] = "idle" /\ published'[g] = next[g]
      BY <1>6, <2>1 DEF EndRound, Goto, Clocks, ClockOf, TypeOK
    <3> QED BY <2>1, <2>3, <3>1, RouteConstants
  <2> QED BY <2>2, <2>3
<1>7. ASSUME NEW g \in Processes, Leave(g) \/ Exit(g) PROVE Fresh'
  BY <1>7 DEF Leave, Exit, Goto, TypeOK
<1>8. ASSUME \E m \in late : Arrive(m) PROVE FALSE
  BY <1>8 DEF Arrive, Quiet
<1>9. ASSUME Tick
      PROVE  /\ pc'[h] = "idle" /\ q \in published'[h] => left'[q] >= TTL - since'[h]
             /\ pc'[h] = "working" /\ q \in next'[h] \ todo'[h] => left'[q] = TTL
  <2>1. /\ faults = 0 /\ stage[h] = "up" /\ TimePasses
        /\ UNCHANGED <<pc, published>>
        /\ pc[h] # "working"
        /\ pc[h] = "idle" => ~tick[h]
    BY <1>9 DEF Tick, TimePasses, Waiting
  <2>2. lease[q] = h
    BY <2>1, TimeEffect, RouteConstants
  <2>3. CASE pc[h] = "idle" /\ q \in published[h]
    <3>1. left[q] > 1 /\ since[h] < TTL
      BY <2>1, <2>2, <2>3, LeaseOutlivesTick
    <3>2. left[q] \in 0..TTL /\ since[h] \in 0..TTL /\ left[q] >= TTL - since[h]
      BY <2>1, <2>2, <2>3 DEF TypeOK
    <3>3. left'[q] = left[q] - 1
      BY <2>1, <3>1, TimeEffect
    <3>4. since'[h] = since[h] + 1
      BY <2>1, <2>3, <3>1 DEF TimePasses, Timed
    <3> QED BY <2>1, <3>2, <3>3, <3>4, RouteConstants
  <2> QED BY <2>1, <2>3
<1>10. ASSUME Delay PROVE FALSE
  BY <1>10 DEF Delay, Fault, TypeOK
<1> QED
  BY <1>1, <1>2, <1>3, <1>4, <1>5, <1>6, <1>7, <1>8, <1>9, <1>10
     DEF Next, ProcessStep, PublisherStep
-----------------------------------------------------------------------------
LEMMA InitIInv ==
  ASSUME Init
  PROVE  IInv
<1>1. TypeOK
  BY RouteConstants DEF Init, TypeOK
<1>2. Quiet /\ Local
  BY DEF Init, Quiet, Local, LocalOf
<1>3. Held /\ Fresh
  BY RouteConstants DEF Init, Held, Fresh
<1>4. Clocks
  <2> SUFFICES ASSUME NEW g \in Processes PROVE ClockOf(g)
    BY DEF Clocks
  <2>1. ~tick[g]
    BY Zenon DEF Init
  <2>2. since[g] = 0 /\ until[g] = poll /\ poll \in Nat /\ pc[g] = "starting"
    BY RouteConstants DEF Init
  <2> QED BY <2>1, <2>2 DEF ClockOf
<1> QED BY <1>1, <1>2, <1>3, <1>4 DEF IInv

LEMMA StutterIInv ==
  ASSUME IInv, UNCHANGED vars
  PROVE  IInv'
<1> USE DEF IInv, vars
<1>1. TypeOK' BY DEF TypeOK
<1>2. Quiet' /\ Local' BY DEF Quiet, Local, LocalOf
<1>3. Held' /\ Fresh' BY DEF Held, Fresh
<1>4. Clocks' BY DEF Clocks, ClockOf
<1> QED BY <1>1, <1>2, <1>3, <1>4

(* The invariant of the publishers and their leases holds in every state. *)
THEOREM RouteInvariant == Spec => []IInv
<1>1. Init => IInv
  BY InitIInv
<1>2. IInv /\ [Next]_vars => IInv'
  <2> SUFFICES ASSUME IInv, [Next]_vars PROVE IInv'
    OBVIOUS
  <2>1. CASE Next
    BY <2>1, TypeStep, QuietStep, LocalStep, HeldStep, ClocksStep, FreshStep DEF IInv
  <2>2. CASE UNCHANGED vars
    BY <2>2, StutterIInv
  <2> QED BY <2>1, <2>2
<1> QED BY <1>1, <1>2, PTL DEF Spec

(* Every variable keeps its type, and a key of Redis that has expired holds *)
(* no lease.                                                                *)
THEOREM RouteType == Spec => []TypeOK
<1>1. IInv => TypeOK BY DEF IInv
<1> QED BY <1>1, RouteInvariant, PTL

(* reconcile leaves the publisher in step with the partitions it owns,      *)
(* although revision, partitions and leases are read and written at         *)
(* different times.                                                         *)
THEOREM RouteInSync == Spec => []InSync
<1>1. IInv => InSync
  BY DEF IInv, InSync, Local, LocalOf, Held
<1> QED BY <1>1, RouteInvariant, PTL

(* No lease in use expires between two rounds or is deleted by another      *)
(* process, for any TTL and any poll interval below it.                     *)
THEOREM RouteLeaseKept == Spec => LeaseKept
<1> DEFINE Kept == \A g \in Processes, p \in Partitions :
                     /\ faults' = 0
                     /\ stage[g] = "up"
                     /\ pc[g] = "idle"
                     /\ p \in published[g]
                     /\ lease[p] = g
                     => lease'[p] # NoProcess
<1>1. IInv /\ [Next]_vars => [Kept]_vars
  <2> SUFFICES ASSUME IInv, Next, faults' = 0,
                      NEW g \in Processes, NEW p \in Partitions,
                      stage[g] = "up", pc[g] = "idle", p \in published[g], lease[p] = g
               PROVE  lease'[p] # NoProcess
    OBVIOUS
  <2>1. ASSUME NEW h \in Processes, NEW q \in Partitions, Register(h, q)
        PROVE  lease'[p] # NoProcess
    <3>1. Set(h, q) \/ lease' = lease
      BY <2>1, SetCall DEF Register, IInv
    <3> QED BY <3>1, SetEffect, RouteConstants DEF IInv
  <2>2. ASSUME NEW h \in Processes, NEW q \in Partitions, Release(h, q)
        PROVE  lease'[p] # NoProcess
    <3>1. DeleteIfOurs(h, q) \/ lease' = lease
      BY <2>2, DeleteCall DEF Release, IInv
    <3>2. h # g
      BY <2>2 DEF Release, Releasable
    <3> QED BY <3>1, <3>2, DeleteEffect, RouteConstants DEF IInv
  <2>3. ASSUME \E m \in late : Arrive(m) PROVE FALSE
    BY <2>3 DEF Arrive, IInv, Quiet
  <2>4. ASSUME Tick PROVE lease'[p] # NoProcess
    <3>1. ~tick[g] /\ faults = 0 /\ TimePasses
      BY <2>4 DEF Tick, Waiting
    <3>2. left[p] > 1
      BY <3>1, LeaseOutlivesTick DEF IInv
    <3> QED BY <3>1, <3>2, TimeEffect, RouteConstants DEF IInv
  <2>5. ASSUME Delay PROVE FALSE
    BY <2>5 DEF Delay, Fault, IInv, TypeOK
  <2>6. ASSUME NEW h \in Processes,
               \/ \E T \in SUBSET Partitions : SetOwnership(h, T)
               \/ Start(h) \/ Wake(h) \/ ReadAssigned(h) \/ EndRound(h)
               \/ Leave(h) \/ Exit(h) \/ StopPublisher(h) \/ CloseRegistry(h)
               \/ StopConsumer(h) \/ Crash(h)
        PROVE  lease' = lease
    BY <2>6 DEF SetOwnership, Start, Wake, ReadAssigned, EndRound, Leave, Exit,
                StopPublisher, CloseRegistry, StopConsumer, Crash
  <2> QED
    BY <2>1, <2>2, <2>3, <2>4, <2>5, <2>6, RouteConstants
       DEF Next, ProcessStep, PublisherStep
<1> QED BY <1>1, RouteInvariant, PTL DEF Spec, LeaseKept
=============================================================================
