---------------------------- MODULE InMemoryBus ----------------------------
(***************************************************************************)
(* internal/bus/inmemory.go, the bus of a single process: a bounded queue, *)
(* publishers that wait at a full one, and Consume, which may be called by *)
(* several supervisors (internal/httpserver/messagebus.go) but runs once.  *)
(***************************************************************************)
EXTENDS Naturals, Sequences

CONSTANTS Supervisors,  \* goroutines of startMessageBusConsumer on this bus
          NoMessage,    \* a supervisor whose handler is not running
          BufferSize,   \* capacity of the queue
          MaxFailures   \* bound on the handler's errors

ASSUME BusConstants ==
  /\ BufferSize \in Nat \ {0}
  /\ MaxFailures \in Nat

VARIABLES
  messages,    \* the channel
  consuming,   \* InMemoryBus.consuming
  supervisor,  \* where the loop of each supervisor is
  handling,    \* the message its handler is working on
  cancelled,   \* supervisors whose context is cancelled
  failures,    \* errors of handlers
  accepted,    \* history: messages for which Publish returned nil
  handled      \* history: messages whose handler has returned

busVars == <<messages, consuming, supervisor, handling, cancelled, failures,
             accepted, handled>>

BusInit ==
  /\ messages = << >>
  /\ consuming = FALSE
  /\ supervisor = [s \in Supervisors |-> "calling"]
  /\ handling = [s \in Supervisors |-> NoMessage]
  /\ cancelled = {}
  /\ failures = 0
  /\ accepted = << >>
  /\ handled = << >>

(* Publish, when there is room; otherwise it waits for room or its context. *)
Enqueue(m) ==
  /\ Len(messages) < BufferSize
  /\ messages' = Append(messages, m)
  /\ accepted' = Append(accepted, m)
  /\ UNCHANGED <<consuming, supervisor, handling, cancelled, failures, handled>>

Goto(s, l) == supervisor' = [supervisor EXCEPT ![s] = l]

(* Mutant: anybody may consume. *)
AnyTime == TRUE

(* CompareAndSwap finds nobody consuming. *)
Unused == ~consuming

(* Consume is called: it runs, or ErrConsumerAlreadyRunning. *)
Consume(s) ==
  /\ supervisor[s] = "calling"
  /\ IF Unused
     THEN consuming' = TRUE /\ Goto(s, "selecting")
     ELSE Goto(s, "failed") /\ UNCHANGED consuming
  /\ UNCHANGED <<messages, handling, cancelled, failures, accepted, handled>>

(* The select receives; it may do so although the context is done. *)
Receive(s) ==
  /\ supervisor[s] = "selecting"
  /\ messages # << >>
  /\ messages' = Tail(messages)
  /\ handling' = [handling EXCEPT ![s] = Head(messages)]
  /\ Goto(s, "handling")
  /\ UNCHANGED <<consuming, cancelled, failures, accepted, handled>>

(* Mutant: a Consume that ends in an error still counts as running. *)
KeepConsuming == UNCHANGED consuming

(* defer consuming.Store(false) *)
StopConsuming == consuming' = FALSE

(* The handler returns, with nil or an error, which ends Consume; the      *)
(* message is gone in either case.                                         *)
HandlerReturns(s) ==
  /\ supervisor[s] = "handling"
  /\ Goto(s, "selecting")
  /\ UNCHANGED <<consuming, failures>>
  /\ handled' = Append(handled, handling[s])
  /\ handling' = [handling EXCEPT ![s] = NoMessage]
  /\ UNCHANGED <<messages, cancelled, accepted>>

HandlerFails(s) ==
  /\ supervisor[s] = "handling"
  /\ failures < MaxFailures
  /\ failures' = failures + 1
  /\ Goto(s, "failed")
  /\ StopConsuming
  /\ handled' = Append(handled, handling[s])
  /\ handling' = [handling EXCEPT ![s] = NoMessage]
  /\ UNCHANGED <<messages, cancelled, accepted>>

(* ctx.Done in the select of Consume; the supervisor returns. *)
Finish(s) ==
  /\ supervisor[s] = "selecting"
  /\ s \in cancelled
  /\ StopConsuming
  /\ Goto(s, "ended")
  /\ UNCHANGED <<messages, handling, cancelled, failures, accepted, handled>>

(* After an error: back-off and another call, or the end. *)
Retry(s) ==
  /\ supervisor[s] = "failed"
  /\ Goto(s, IF s \in cancelled THEN "ended" ELSE "calling")
  /\ UNCHANGED <<messages, consuming, handling, cancelled, failures, accepted, handled>>

(* cancelConsumer *)
Cancel(s) ==
  /\ s \notin cancelled
  /\ cancelled' = cancelled \cup {s}
  /\ UNCHANGED <<messages, consuming, supervisor, handling, failures, accepted, handled>>

SupervisorStep(s) ==
  \/ Consume(s)
  \/ Receive(s)
  \/ HandlerReturns(s)
  \/ Finish(s)
  \/ Retry(s)
-----------------------------------------------------------------------------
BusTypeOK(M) ==
  /\ messages \in Seq(M)
  /\ Len(messages) <= BufferSize
  /\ consuming \in BOOLEAN
  /\ supervisor \in [Supervisors -> {"calling", "selecting", "handling", "failed",
                                     "ended"}]
  /\ handling \in [Supervisors -> M \cup {NoMessage}]
  /\ cancelled \subseteq Supervisors
  /\ failures \in Nat
  /\ accepted \in Seq(M)
  /\ handled \in Seq(M)

(* "Consume calls handler in the order in which messages entered the queue" *)
(* whichever supervisor runs it: handlers never overlap, and what has been  *)
(* handled, is being handled and is waiting is what was accepted, in order. *)
HandledInOrder ==
  /\ \A s, t \in Supervisors :
       handling[s] # NoMessage /\ handling[t] # NoMessage => s = t
  /\ \A s \in Supervisors :
       handling[s] # NoMessage => accepted = handled \o <<handling[s]>> \o messages
  /\ (\A s \in Supervisors : handling[s] = NoMessage) => accepted = handled \o messages
=============================================================================
