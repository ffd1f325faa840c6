----------------------------- MODULE RouteLease -----------------------------
(***************************************************************************)
(* Which gateway should a client of a room connect to?  Every gateway      *)
(* process keeps leases in Redis for the partitions it owns                *)
(* (internal/routing), /route answers from them (internal/httpserver/      *)
(* server.go), and Server.Shutdown takes them down.                        *)
(*                                                                         *)
(* A process reads its own ownership in steps (revision, then partitions)  *)
(* and writes leases one by one, while the consumer group moves partitions *)
(* about and two processes may believe that they own the same one.  Redis  *)
(* calls fail, are carried out late, or take too long; processes crash.    *)
(*                                                                         *)
(* A process stands for its token, which is new at every start: a gateway  *)
(* that is restarted is another process.  Redis is external.  Time passes  *)
(* in steps of one unit, and only when every publisher has done what it    *)
(* has to do at that time, unless something is slow (Delay).               *)
(***************************************************************************)
EXTENDS Naturals

CONSTANTS Processes,    \* gateway processes, each with a token of its own
          Partitions,   \* partitions of the topic
          NoProcess,    \* no lease, no address
          TTL,          \* LeaseTTL, in units of time
          Stoppable,    \* processes that may be shut down or crash
          MaxRevision,  \* bound on the ownership changes of each process
          MaxFaults     \* bound on failed, late or slow calls and crashes

ASSUME RouteConstants ==
  /\ NoProcess \notin Processes
  /\ TTL \in Nat \ {0, 1}
  /\ MaxRevision \in [Processes -> Nat]
  /\ MaxFaults \in Nat
  /\ Stoppable \subseteq Processes

VARIABLES
  poll,          \* PollInterval, any value that StartPublisher accepts
  lease,         \* Redis: holder of each partition's lease
  left,          \* Redis: time the lease has left
  late,          \* Redis: commands that were given up but still arrive
  assigned,      \* KafkaBus.AssignedPartitions of each process
  revision,      \* KafkaBus.OwnershipRevision of each process
  pc,            \* where Publisher.run is
  lastRevision,  \* lastRevision of run
  next,          \* next of reconcile
  todo,          \* partitions reconcile has not registered yet
  published,     \* published of run, less what has been released already
  since,         \* time since lastRefresh, TTL standing for anything longer
  until,         \* time until the ticker fires
  tick,          \* ticker.C holds a tick
  stage,         \* how far Server.Shutdown is
  faults         \* faults that have happened

redisVars == <<lease, left, late>>
busVars == <<assigned, revision>>
clockVars == <<since, until, tick>>
runVars == <<pc, lastRevision, next, todo, published>>
vars == <<poll, redisVars, busVars, runVars, clockVars, stage, faults>>

Commands == [op : {"set", "delete"}, by : Processes, on : Partitions]

Init ==
  /\ poll \in 1..(TTL - 1)
  /\ lease = [p \in Partitions |-> NoProcess]
  /\ left = [p \in Partitions |-> 0]
  /\ late = {}
  /\ assigned = [g \in Processes |-> {}]
  /\ revision = [g \in Processes |-> 0]
  /\ pc = [g \in Processes |-> "starting"]
  /\ lastRevision = [g \in Processes |-> 0]
  /\ next = [g \in Processes |-> {}]
  /\ todo = [g \in Processes |-> {}]
  /\ published = [g \in Processes |-> {}]
  /\ since = [g \in Processes |-> 0]
  /\ until = [g \in Processes |-> poll]
  /\ tick = [g \in Processes |-> FALSE]
  /\ stage = [g \in Processes |-> "up"]
  /\ faults = 0

(* One of the bounded number of things that go wrong. *)
Fault == faults < MaxFaults /\ faults' = faults + 1

Alive(g) == stage[g] # "crashed"
-----------------------------------------------------------------------------
(* Ownership, as the consumer publishes it: any partitions at any time.    *)

SetOwnership(g, S) ==
  /\ Alive(g)
  /\ stage[g] # "down"
  /\ revision[g] < MaxRevision[g]
  /\ assigned' = [assigned EXCEPT ![g] = S]
  /\ revision' = [revision EXCEPT ![g] = @ + 1]
  /\ UNCHANGED <<poll, redisVars, runVars, clockVars, stage, faults>>
-----------------------------------------------------------------------------
(* Redis.                                                                  *)

(* Mutant: SET without an expiry. *)
SetForGood(g, p) ==
  /\ lease' = [lease EXCEPT ![p] = g]
  /\ left' = [left EXCEPT ![p] = 0]

(* SET with the full TTL, whoever holds the lease. *)
Set(g, p) ==
  /\ lease' = [lease EXCEPT ![p] = g]
  /\ left' = [left EXCEPT ![p] = TTL]

(* Mutant: the key is deleted whatever token it holds. *)
DeleteAnyway(g, p) ==
  /\ lease' = [lease EXCEPT ![p] = NoProcess]
  /\ left' = [left EXCEPT ![p] = 0]

(* releaseLeaseScript: delete if the token is still ours. *)
DeleteIfOurs(g, p) ==
  IF lease[p] = g
  THEN /\ lease' = [lease EXCEPT ![p] = NoProcess]
       /\ left' = [left EXCEPT ![p] = 0]
  ELSE UNCHANGED <<lease, left>>

Command(op, g, p) == [op |-> op, by |-> g, on |-> p]

(* The Redis client is closed; or the context of run is cancelled, which   *)
(* reconcile uses and releaseAll does not.                                 *)
Hopeless(g) ==
  \/ stage[g] \in {"closed", "down"}
  \/ stage[g] = "stopping" /\ pc[g] # "leaving"

(* A call of the Redis client: it is carried out now (also if the context  *)
(* is cancelled while it is on its way); it fails; or Redis is in trouble, *)
(* and the command is lost or still arrives later.                         *)
Call(op, g, p) ==
  \/ /\ stage[g] \in {"up", "stopping"}
     /\ IF op = "set" THEN Set(g, p) ELSE DeleteIfOurs(g, p)
     /\ UNCHANGED <<late, faults>>
  \/ /\ Hopeless(g)
     /\ UNCHANGED <<redisVars, faults>>
  \/ /\ Fault
     /\ late' \in {late, late \cup {Command(op, g, p)}}
     /\ UNCHANGED <<lease, left>>

Arrive(m) ==
  /\ m \in late
  /\ late' = late \ {m}
  /\ IF m.op = "set" THEN Set(m.by, m.on) ELSE DeleteIfOurs(m.by, m.on)
  /\ UNCHANGED <<poll, busVars, runVars, clockVars, stage, faults>>
-----------------------------------------------------------------------------
(* Publisher.run of process g.                                             *)

Goto(g, l) == pc' = [pc EXCEPT ![g] = l]

(* Mutant: a round only when ownership has changed. *)
NeverDue(g) == FALSE

(* A third of the lease has passed since the last round began. *)
RefreshDue(g) == 3 * since[g] >= TTL

(* A round begins: revision and time are read before anything else. *)
BeginRound(g) ==
  /\ lastRevision' = [lastRevision EXCEPT ![g] = revision[g]]
  /\ since' = [since EXCEPT ![g] = 0]
  /\ Goto(g, "reading")

(* The goroutine starts; the first round is due in any case. *)
Start(g) ==
  /\ pc[g] = "starting"
  /\ BeginRound(g)
  /\ UNCHANGED <<poll, redisVars, busVars, next, todo, published, until, tick,
                 stage, faults>>

Wake(g) ==
  /\ pc[g] = "idle"
  /\ tick[g]
  /\ tick' = [tick EXCEPT ![g] = FALSE]
  /\ IF revision[g] # lastRevision[g] \/ RefreshDue(g)
     THEN BeginRound(g)
     ELSE UNCHANGED <<pc, lastRevision, since>>
  /\ UNCHANGED <<poll, redisVars, busVars, next, todo, published, until, stage,
                 faults>>

(* Mutant: leases are added and renewed, never given up. *)
WantedAndHeld(g) == assigned[g] \cup published[g]

(* AssignedPartitions. *)
Wanted(g) == assigned[g]

(* reconcile reads it once per round. *)
ReadAssigned(g) ==
  /\ pc[g] = "reading"
  /\ next' = [next EXCEPT ![g] = Wanted(g)]
  /\ todo' = [todo EXCEPT ![g] = Wanted(g)]
  /\ Goto(g, "working")
  /\ UNCHANGED <<poll, redisVars, busVars, lastRevision, published, clockVars,
                 stage, faults>>

(* A failed registration is only logged. *)
Register(g, p) ==
  /\ pc[g] = "working"
  /\ p \in todo[g]
  /\ todo' = [todo EXCEPT ![g] = @ \ {p}]
  /\ Call("set", g, p)
  /\ UNCHANGED <<poll, busVars, pc, lastRevision, next, published, clockVars,
                 stage>>

(* What is not in next any more, after all registrations; or everything,   *)
(* on the way out.  A failed release is only logged too.                   *)
Releasable(g) ==
  {p \in published[g] : \/ pc[g] = "working" /\ todo[g] = {} /\ p \notin next[g]
                        \/ pc[g] = "leaving"}

Release(g, p) ==
  /\ p \in Releasable(g)
  /\ published' = [published EXCEPT ![g] = @ \ {p}]
  /\ Call("delete", g, p)
  /\ UNCHANGED <<poll, busVars, pc, lastRevision, next, todo, clockVars, stage>>

(* Mutant: the revision of the end of the round counts as dealt with. *)
RememberLatest(g) ==
  lastRevision' = [lastRevision EXCEPT ![g] = revision[g]]

(* The revision dealt with is the one read when the round began. *)
Remember(g) == UNCHANGED lastRevision

EndRound(g) ==
  /\ pc[g] = "working"
  /\ todo[g] = {}
  /\ Releasable(g) = {}
  /\ published' = [published EXCEPT ![g] = next[g]]
  /\ next' = [next EXCEPT ![g] = {}]
  /\ Remember(g)
  /\ Goto(g, "idle")
  /\ UNCHANGED <<poll, redisVars, busVars, todo, clockVars, stage,
                 faults>>

(* ctx.Done: releaseAll. *)
Leave(g) ==
  /\ pc[g] = "idle"
  /\ stage[g] # "up"
  /\ Goto(g, "leaving")
  /\ UNCHANGED <<poll, redisVars, busVars, lastRevision, next, todo, published,
                 clockVars, stage, faults>>

Exit(g) ==
  /\ pc[g] = "leaving"
  /\ published[g] = {}
  /\ Goto(g, "done")
  /\ UNCHANGED <<poll, redisVars, busVars, lastRevision, next, todo, published,
                 clockVars, stage, faults>>

PublisherStep(g) ==
  \/ Start(g)
  \/ Wake(g)
  \/ ReadAssigned(g)
  \/ \E p \in Partitions : Register(g, p) \/ Release(g, p)
  \/ EndRound(g)
  \/ Leave(g)
  \/ Exit(g)
-----------------------------------------------------------------------------
(* Server.Shutdown after the ownership monitor has stopped, and crashes.   *)

(* Publisher.Stop cancels the context of run. *)
StopPublisher(g) ==
  /\ g \in Stoppable
  /\ stage[g] = "up"
  /\ stage' = [stage EXCEPT ![g] = "stopping"]
  /\ UNCHANGED <<poll, redisVars, busVars, runVars, clockVars, faults>>

(* Stop returns when run is done, or when the time for Shutdown is up; the *)
(* Redis client is closed in either case.                                  *)
CloseRegistry(g) ==
  /\ stage[g] = "stopping"
  /\ \/ pc[g] = "done" /\ UNCHANGED faults
     \/ pc[g] # "done" /\ Fault
  /\ stage' = [stage EXCEPT ![g] = "closed"]
  /\ UNCHANGED <<poll, redisVars, busVars, runVars, clockVars>>

StopConsumer(g) ==
  /\ stage[g] = "closed"
  /\ stage' = [stage EXCEPT ![g] = "down"]
  /\ assigned' = [assigned EXCEPT ![g] = {}]
  /\ revision' = [revision EXCEPT ![g] = @ + 1]
  /\ UNCHANGED <<poll, redisVars, runVars, clockVars, faults>>

Crash(g) ==
  /\ g \in Stoppable
  /\ Alive(g)
  /\ Fault
  /\ stage' = [stage EXCEPT ![g] = "crashed"]
  /\ Goto(g, "done")
  /\ assigned' = [assigned EXCEPT ![g] = {}]
  /\ published' = [published EXCEPT ![g] = {}]
  /\ next' = [next EXCEPT ![g] = {}]
  /\ todo' = [todo EXCEPT ![g] = {}]
  /\ UNCHANGED <<poll, redisVars, revision, lastRevision, clockVars>>
-----------------------------------------------------------------------------
(* GET /route: the lease Redis holds, or 503.                              *)

(* GET of the key. *)
Resolve(p) == lease[p]

Route(p) == Resolve(p)

(* A handshake for a room of the partition gets past readiness and OwnsRoom. *)
Serves(g, p) == stage[g] = "up" /\ p \in assigned[g]
-----------------------------------------------------------------------------
(* Time.                                                                   *)

(* Nobody has anything to do before time passes. *)
Waiting(g) == pc[g] = "done" \/ (pc[g] = "idle" /\ ~tick[g] /\ stage[g] = "up")

(* The ticker exists while run does. *)
Timed(g) == pc[g] \notin {"starting", "done"}

Expired(p) == left[p] <= 1

TimePasses ==
  /\ lease' = [p \in Partitions |-> IF Expired(p) THEN NoProcess ELSE lease[p]]
  /\ left' = [p \in Partitions |-> IF Expired(p) THEN 0 ELSE left[p] - 1]
  /\ since' = [g \in Processes |->
                IF Timed(g) /\ since[g] < TTL THEN since[g] + 1 ELSE since[g]]
  /\ until' = [g \in Processes |->
                IF ~Timed(g) THEN until[g]
                ELSE IF until[g] = 1 THEN poll ELSE until[g] - 1]
  /\ tick' = [g \in Processes |-> tick[g] \/ (Timed(g) /\ until[g] = 1)]
  /\ UNCHANGED <<poll, late, busVars, runVars, stage>>

Tick == (\A g \in Processes : Waiting(g)) /\ TimePasses /\ UNCHANGED faults

(* A slow call, a busy machine. *)
Delay == (\E g \in Processes : ~Waiting(g)) /\ Fault /\ TimePasses
-----------------------------------------------------------------------------
ProcessStep(g) ==
  \/ \E S \in SUBSET Partitions : SetOwnership(g, S)
  \/ PublisherStep(g)
  \/ StopPublisher(g)
  \/ CloseRegistry(g)
  \/ StopConsumer(g)
  \/ Crash(g)

Next ==
  \/ \E g \in Processes : ProcessStep(g)
  \/ \E m \in late : Arrive(m)
  \/ Tick
  \/ Delay

(* The publisher's goroutine runs and time passes.  Nothing makes          *)
(* partitions move, things fail or the server shut down.                   *)
Fairness ==
  /\ \A g \in Processes : WF_vars(PublisherStep(g))
  /\ WF_vars(Tick)

Spec == Init /\ [][Next]_vars /\ Fairness
-----------------------------------------------------------------------------
(* Every variable keeps its type, and no lease stands for ever: whatever   *)
(* Register wrote, also by a command that arrives late, has an expiry of   *)
(* at most the TTL, and a partition without a lease has none.              *)
TypeOK ==
  /\ poll \in 1..(TTL - 1)
  /\ lease \in [Partitions -> Processes \cup {NoProcess}]
  /\ left \in [Partitions -> 0..TTL]
  /\ \A p \in Partitions : left[p] = 0 <=> lease[p] = NoProcess
  /\ late \subseteq Commands
  /\ assigned \in [Processes -> SUBSET Partitions]
  /\ revision \in [Processes -> Nat]
  /\ pc \in [Processes -> {"starting", "idle", "reading", "working",
                           "leaving", "done"}]
  /\ lastRevision \in [Processes -> Nat]
  /\ next \in [Processes -> SUBSET Partitions]
  /\ todo \in [Processes -> SUBSET Partitions]
  /\ published \in [Processes -> SUBSET Partitions]
  /\ since \in [Processes -> 0..TTL]
  /\ until \in [Processes -> 1..poll]
  /\ tick \in [Processes -> BOOLEAN]
  /\ stage \in [Processes -> {"up", "stopping", "closed", "down", "crashed"}]
  /\ faults \in Nat

(* A lease that its publisher has published and not withdrawn never goes   *)
(* away: as long as nothing fails it does not expire between two rounds,   *)
(* for any PollInterval below the TTL that StartPublisher accepts, nor is  *)
(* it deleted by a former owner that cleans up late.  Only the lease of    *)
(* another process may take its place.                                     *)
LeaseKept ==
  [][\A g \in Processes, p \in Partitions :
       /\ faults' = 0
       /\ stage[g] = "up"
       /\ pc[g] = "idle"
       /\ p \in published[g]
       /\ lease[p] = g
       => lease'[p] # NoProcess]_vars

(* A publisher at rest that has not seen a newer revision has published    *)
(* what it owns, though it reads revision and partitions separately; and   *)
(* while nothing fails there is no lease in its name for anything else.    *)
InSync ==
  \A g \in Processes :
    pc[g] = "idle" /\ revision[g] = lastRevision[g] /\ Alive(g) =>
      /\ published[g] = assigned[g]
      /\ faults = 0 /\ stage[g] = "up" =>
           \A p \in Partitions : lease[p] = g => p \in assigned[g]

(* A process that has lost a partition for good disappears from /route,    *)
(* although releases fail and are never repeated, registrations arrive     *)
(* late and Redis may be cut off half way through a shutdown.              *)
FormerOwnerForgotten ==
  \A g \in Processes, p \in Partitions :
    <>[](p \notin assigned[g]) => <>[](lease[p] # g)

(* Once a partition has settled on one process, /route names that process  *)
(* from some time on, whatever leases, late registrations and half-done    *)
(* shutdowns were left behind before.                                      *)
OwnerReached ==
  \A g \in Processes, p \in Partitions :
    <>[](\A h \in Processes : Serves(h, p) <=> h = g) => <>[](Route(p) = g)

(* "Stop stops renewals, conditionally deletes the leases published by this *)
(* instance, and waits for the goroutine to exit" (publisher.go:131): after *)
(* a shutdown in which nothing failed no lease in its name is left.         *)
StopReleases ==
  \A g \in Processes, p \in Partitions :
    faults = 0 /\ stage[g] \in {"closed", "down"} => Route(p) # g
=============================================================================
