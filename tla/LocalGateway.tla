---------------------------- MODULE LocalGateway ----------------------------
(***************************************************************************)
(* The way of a danmaku through one process on the in-memory bus: the read *)
(* loops of its connections, which may belong to the same user, the rate   *)
(* limiter they share, the bus and the supervisors that consume it.        *)
(***************************************************************************)
EXTENDS RateLimiter, InMemoryBus

CONSTANTS Conns,     \* connections
          MaxFrames  \* bound on the valid frames of each connection

ASSUME LocalConstants ==
  /\ MaxFrames \in Nat
  /\ NoMessage \notin Conns \X (1..MaxFrames)

VARIABLES
  user,      \* userID of each connection
  pc,        \* "reading" or "publishing"
  frames     \* valid frames read

connVars == <<user, pc, frames>>
vars == <<limiterVars, busVars, connVars>>

Messages == Conns \X (1..MaxFrames)
Danmaku(c) == <<c, frames[c]>>

Init ==
  /\ LimiterInit
  /\ BusInit
  /\ user \in [Conns -> Keys]
  /\ pc = [c \in Conns |-> "reading"]
  /\ frames = [c \in Conns |-> 0]

(* A valid frame: dropped without a word, or on to Publish. *)
ReadFrame(c) ==
  /\ pc[c] = "reading"
  /\ frames[c] < MaxFrames
  /\ frames' = [frames EXCEPT ![c] = @ + 1]
  /\ Allow(user[c])
  /\ pc' = [pc EXCEPT ![c] = IF Allowed(user[c]) THEN "publishing" ELSE "reading"]
  /\ UNCHANGED <<user, busVars>>

Publish(c) ==
  /\ pc[c] = "publishing"
  /\ Enqueue(Danmaku(c))
  /\ pc' = [pc EXCEPT ![c] = "reading"]
  /\ UNCHANGED <<user, frames, limiterVars>>

(* No canPublish, no message ID, or messageBusPublishWait is over:         *)
(* message_bus_unavailable.                                                *)
PublishFails(c) ==
  /\ pc[c] = "publishing"
  /\ pc' = [pc EXCEPT ![c] = "reading"]
  /\ UNCHANGED <<user, frames, limiterVars, busVars>>

Consumer(s) ==
  /\ SupervisorStep(s)
  /\ UNCHANGED <<limiterVars, connVars>>

Tick == TimePasses /\ UNCHANGED <<busVars, connVars>>

Next ==
  \/ \E c \in Conns : ReadFrame(c) \/ Publish(c) \/ PublishFails(c)
  \/ \E s \in Supervisors :
       \/ Consumer(s)
       \/ (HandlerFails(s) \/ Cancel(s)) /\ UNCHANGED <<limiterVars, connVars>>
  \/ Tick

(* The supervisors' goroutines run and handlers return. *)
Fairness == \A s \in Supervisors : WF_vars(Consumer(s))

Spec == Init /\ [][Next]_vars /\ Fairness
-----------------------------------------------------------------------------
(* Every variable keeps its type, no bucket exceeds the burst and the      *)
(* queue never exceeds its capacity.                                       *)
TypeOK ==
  /\ LimiterTypeOK
  /\ BusTypeOK(Messages)
  /\ user \in [Conns -> Keys]
  /\ pc \in [Conns -> {"reading", "publishing"}]
  /\ frames \in [Conns -> 0..MaxFrames]

(* "Messages over the limit are dropped silently" (README), and no others: *)
(* a frame is dropped only if allowing it would exceed burst and rate over *)
(* the time since some earlier message of the user, on any connection.     *)
DropsJustified ==
  [][\A c \in Conns :
       frames'[c] # frames[c] /\ pc'[c] = "reading" => Exhausted(user[c])]_vars

(* The bus catches up with its publishers, who send a bounded number of    *)
(* frames: every message that Publish accepted is handled, though handlers *)
(* fail, supervisors find the bus taken and the one that has it stops,     *)
(* unless all of them are told to stop.                                    *)
AcceptedIsHandled ==
  Len(handled) < Len(accepted)
    ~> Len(handled) = Len(accepted) \/ cancelled = Supervisors
=============================================================================
