------------------------------ MODULE Gateway ------------------------------
(***************************************************************************)
(* One gateway process: the WebSocket handlers, the table of connections,  *)
(* the ownership monitor and the shutdown sequence of internal/httpserver, *)
(* over the room ownership that the Kafka consumer loop publishes          *)
(* (RoomOwnership).                                                        *)
(*                                                                         *)
(* The question is who closes a connection whose room has moved to another *)
(* instance.  The handler learns the ownership in separate steps (revision,*)
(* owner, join, registration, revision again, owner again), the consumer   *)
(* changes it at any time, the monitor polls the revision and takes        *)
(* connections out of the table, and Shutdown takes a snapshot of the same *)
(* table and cancels the monitor.                                          *)
(*                                                                         *)
(* Every connection attempt is one element of Conns; Rooms are the room_id *)
(* values (trimmed, not blank).                                            *)
(***************************************************************************)
EXTENDS RoomOwnership, FiniteSets

CONSTANTS Conns,           \* connection attempts
          Users,           \* user_id values (trimmed, not blank)
          NoConn,          \* absence of an entry in Room.clients
          CloseWorkers,    \* websocketCloseWorkers
          MaxRevision,     \* bound on the ownership revision
          MayShutDown,     \* whether the server is shut down at some point
          BudgetCanRunOut  \* whether a peer may be slow enough for the
                           \* context of closeWebSockets to expire

ASSUME GatewayConstants ==
  /\ NoConn \notin Conns
  /\ CloseWorkers \in Nat \ {0}
  /\ MaxRevision \in Nat
  /\ MayShutDown \in BOOLEAN
  /\ BudgetCanRunOut \in BOOLEAN

(* The two callers of closeWebSockets. *)
Closers == {"monitor", "shutdown"}

VARIABLES
  draining,      \* Server.draining
  shutdown,      \* where Server.Shutdown is
  items,         \* websocketConnections.items
  closing,       \* websocketConnections.closing
  clients,       \* Room.clients of every room: room -> user -> connection
  pc,            \* where the handler of each connection is
  user,          \* userID of each handler
  room,          \* roomID of each handler
  seenRevision,  \* handshakeOwnershipRevision of each handler
  sock,          \* "none", "open" or "closed"
  monitor,       \* where the ownership monitor goroutine is
  lastRevision,  \* lastRevision of the monitor
  stopping,      \* the monitor's context is cancelled
  pending,       \* connections a closer has not handed to a worker yet
  busy,          \* connections a worker of the closer is closing
  expired,       \* the closer's own deadline has passed
  orphans,       \* connections whose worker outlived its closer
  abandoned      \* history: connections dropped by a closer that gave up

handlerVars == <<pc, user, room, seenRevision>>
closerVars == <<pending, busy, expired, orphans, abandoned>>
vars == <<busVars, draining, shutdown, items, closing, clients, handlerVars,
          sock, monitor, lastRevision, stopping, closerVars>>

(* Handlers between a successful Join and the matching Leave. *)
Holding == {"joined", "added", "rechecking", "unregister", "undo",
            "serving", "leaving"}

Locations == {"idle", "probing", "admitted", "versioned", "upgraded",
              "reject", "left", "departing", "done"} \cup Holding

Init ==
  /\ BusInit
  /\ draining = FALSE
  /\ shutdown = "running"
  /\ items = {}
  /\ closing = FALSE
  /\ clients = [r \in Rooms |-> [u \in Users |-> NoConn]]
  /\ pc = [c \in Conns |-> "idle"]
  /\ user \in [Conns -> Users]
  /\ room \in [Conns -> Rooms]
  /\ seenRevision = [c \in Conns |-> 0]
  /\ sock = [c \in Conns |-> "none"]
  /\ monitor = "waiting"
  /\ lastRevision = 0
  /\ stopping = FALSE
  /\ pending = [k \in Closers |-> {}]
  /\ busy = [k \in Closers |-> {}]
  /\ expired = [k \in Closers |-> FALSE]
  /\ orphans = {}
  /\ abandoned = {}
-----------------------------------------------------------------------------
(* The consumer's side of RoomOwnership, as far as the bound allows.       *)
ConsumerStep ==
  /\ \/ /\ revision < MaxRevision
        /\ Rejoin \/ \E S \in SUBSET Rooms : Assign(S)
     \/ BecomeReady
     \/ EndGeneration
     \/ ForgetGeneration
  /\ UNCHANGED <<draining, shutdown, items, closing, clients, handlerVars,
                 sock, monitor, lastRevision, stopping, closerVars>>
-----------------------------------------------------------------------------
(* The WebSocket handler of connection c.                                  *)

Goto(c, l) == pc' = [pc EXCEPT ![c] = l]

OwnsRoom(r) == r \in owned

(* canPublish reads draining first; a draining server refuses with 503. *)
Probe(c) ==
  /\ pc[c] = "idle"
  /\ Goto(c, IF draining THEN "done" ELSE "probing")
  /\ UNCHANGED <<user, room, seenRevision, items, clients, sock>>

(* 503 when the consumer is not ready or Check fails, 400 for a blank ID. *)
Refuse(c) ==
  /\ pc[c] = "probing"
  /\ Goto(c, "done")
  /\ UNCHANGED <<user, room, seenRevision, items, clients, sock>>

Admit(c) ==
  /\ pc[c] = "probing"
  /\ ready
  /\ Goto(c, "admitted")
  /\ UNCHANGED <<user, room, seenRevision, items, clients, sock>>

ReadRevision(c) ==
  /\ pc[c] = "admitted"
  /\ seenRevision' = [seenRevision EXCEPT ![c] = revision]
  /\ Goto(c, "versioned")
  /\ UNCHANGED <<user, room, items, clients, sock>>

(* 421 when another instance owns the room; otherwise the upgrade, which   *)
(* may fail.  Nobody else knows the new socket yet.                        *)
Upgrade(c) ==
  /\ pc[c] = "versioned"
  /\ \/ /\ OwnsRoom(room[c])
        /\ Goto(c, "upgraded")
        /\ sock' = [sock EXCEPT ![c] = "open"]
     \/ /\ Goto(c, "done")
        /\ UNCHANGED sock
  /\ UNCHANGED <<user, room, seenRevision, items, clients>>

(* Mutant: a second connection of the same user replaces the first. *)
Free(c) == TRUE

(* No client of the room has this user's ID. *)
Unclaimed(c) == clients[room[c]][user[c]] = NoConn

(* GetOrCreate and Room.Join; a duplicate user is disconnected. *)
JoinRoom(c) ==
  /\ pc[c] = "upgraded"
  /\ IF Unclaimed(c)
     THEN /\ clients' = [clients EXCEPT ![room[c]][user[c]] = c]
          /\ Goto(c, "joined")
          /\ UNCHANGED sock
     ELSE /\ Goto(c, "done")
          /\ sock' = [sock EXCEPT ![c] = "closed"]
          /\ UNCHANGED clients
  /\ UNCHANGED <<user, room, seenRevision, items>>

(* Mutant: connections are registered after Shutdown took its snapshot. *)
AlwaysAccepting == TRUE

Accepting == ~closing

(* websocketConnections.add *)
Add(c) ==
  /\ pc[c] = "joined"
  /\ IF Accepting
     THEN items' = items \cup {c} /\ Goto(c, "added")
     ELSE Goto(c, "undo") /\ UNCHANGED items
  /\ UNCHANGED <<user, room, seenRevision, clients, sock>>

(* Mutant: the revision is not compared again after registration. *)
RecheckNothing(c) ==
  /\ pc[c] = "added"
  /\ Goto(c, "rechecking")
  /\ UNCHANGED <<user, room, seenRevision, items, clients, sock>>

RecheckRevision(c) ==
  /\ pc[c] = "added"
  /\ Goto(c, IF revision = seenRevision[c] THEN "rechecking" ELSE "unregister")
  /\ UNCHANGED <<user, room, seenRevision, items, clients, sock>>

RecheckOwner(c) ==
  /\ pc[c] = "rechecking"
  /\ Goto(c, IF OwnsRoom(room[c]) THEN "serving" ELSE "unregister")
  /\ UNCHANGED <<user, room, seenRevision, items, clients, sock>>

(* connections.remove, on the rejection path and when a session is over. *)
Remove(c) ==
  /\ \/ pc[c] = "unregister" /\ Goto(c, "undo")
     \/ pc[c] = "departing" /\ Goto(c, "done")
  /\ items' = items \ {c}
  /\ UNCHANGED <<user, room, seenRevision, clients, sock>>

(* Mutant: the rejection after registration does not leave the room. *)
LeaveAfterSession(c) ==
  /\ \/ pc[c] = "undo" /\ Goto(c, "reject") /\ UNCHANGED clients
     \/ /\ pc[c] = "leaving" /\ Goto(c, "left")
        /\ clients' = [clients EXCEPT ![room[c]][user[c]] = NoConn]
  /\ UNCHANGED <<user, room, seenRevision, items, sock>>

(* Room.Leave: by user ID, whoever holds it. *)
LeaveRoom(c) ==
  /\ \/ pc[c] = "undo" /\ Goto(c, "reject")
     \/ pc[c] = "leaving" /\ Goto(c, "left")
  /\ clients' = [clients EXCEPT ![room[c]][user[c]] = NoConn]
  /\ UNCHANGED <<user, room, seenRevision, items, sock>>

(* The read loop ends: the socket was closed under it, the peer went away, *)
(* the pong is overdue or the peer broke the protocol.                     *)
EndSession(c) ==
  /\ pc[c] = "serving"
  /\ Goto(c, "leaving")
  /\ UNCHANGED <<user, room, seenRevision, items, clients, sock>>

(* conn.Close; the writer goroutine then ends too, its channel is closed. *)
CloseSocket(c) ==
  /\ \/ pc[c] = "reject" /\ Goto(c, "done")
     \/ pc[c] = "left" /\ Goto(c, "departing")
  /\ sock' = [sock EXCEPT ![c] = "closed"]
  /\ UNCHANGED <<user, room, seenRevision, items, clients>>

(* What the handler does without waiting for its client. *)
HandlerProgress(c) ==
  \/ Refuse(c)
  \/ Admit(c)
  \/ ReadRevision(c)
  \/ Upgrade(c)
  \/ JoinRoom(c)
  \/ Add(c)
  \/ RecheckRevision(c)
  \/ RecheckOwner(c)
  \/ Remove(c)
  \/ LeaveRoom(c)
  \/ sock[c] = "closed" /\ EndSession(c)
  \/ CloseSocket(c)

(* A request arrives, the handler goes on, or the client ends the session. *)
HandlerStep(c) == Probe(c) \/ HandlerProgress(c) \/ EndSession(c)

HandlerFrame == <<busVars, draining, shutdown, closing, monitor, lastRevision,
                  stopping, closerVars>>
-----------------------------------------------------------------------------
(* closeWebSockets, run by closer k on a batch of connections.             *)

Running(k) == IF k = "monitor" THEN monitor = "closing" ELSE shutdown = "closing"

(* ctx.Done: the closer's deadline, and for the monitor its own context. *)
Done(k) == expired[k] \/ (k = "monitor" /\ stopping)

Begin(k, batch) ==
  /\ pending' = [pending EXCEPT ![k] = batch]
  /\ expired' = [expired EXCEPT ![k] = FALSE]
  /\ UNCHANGED <<busy, orphans, abandoned>>

(* An idle worker receives a job; the select may do so after ctx.Done. *)
Take(k, c) ==
  /\ Running(k)
  /\ c \in pending[k]
  /\ Cardinality(busy[k]) < CloseWorkers
  /\ pending' = [pending EXCEPT ![k] = @ \ {c}]
  /\ busy' = [busy EXCEPT ![k] = @ \cup {c}]
  /\ UNCHANGED <<sock, expired, orphans, abandoned>>

(* closeWebSocketForReconnect returns: 1012 was tried, the socket closed. *)
Finish(k, c) ==
  /\ c \in busy[k]
  /\ busy' = [busy EXCEPT ![k] = @ \ {c}]
  /\ sock' = [sock EXCEPT ![c] = "closed"]
  /\ UNCHANGED <<pending, expired, orphans, abandoned>>

FinishOrphan(c) ==
  /\ c \in orphans
  /\ orphans' = orphans \ {c}
  /\ sock' = [sock EXCEPT ![c] = "closed"]
  /\ UNCHANGED <<pending, busy, expired, abandoned>>

(* The deadline passes while a worker waits for a slow peer. *)
Expire(k) ==
  /\ BudgetCanRunOut
  /\ Running(k)
  /\ busy[k] # {}
  /\ ~expired[k]
  /\ expired' = [expired EXCEPT ![k] = TRUE]
  /\ UNCHANGED <<sock, pending, busy, orphans, abandoned>>

(* The workers of closer k, and those a closer left behind. *)
WorkerStep(k) == \E c \in Conns : Take(k, c) \/ Finish(k, c)
OrphanStep == \E c \in Conns : FinishOrphan(c)

CloserFrame == <<busVars, draining, shutdown, items, closing, clients,
                 handlerVars, monitor, lastRevision, stopping>>

(* closeWebSockets returns: every worker is finished, or ctx is done.  In  *)
(* the second case workers go on with what they hold (and the racing       *)
(* select may still hand them some jobs); the other jobs are dropped.      *)
Return(k) ==
  /\ Running(k)
  /\ \/ pending[k] = {} /\ busy[k] = {}
     \/ Done(k)
  /\ \E late \in SUBSET pending[k] :
       /\ orphans' = orphans \cup busy[k] \cup late
       /\ abandoned' = abandoned \cup (pending[k] \ late)
  /\ pending' = [pending EXCEPT ![k] = {}]
  /\ busy' = [busy EXCEPT ![k] = {}]
  /\ UNCHANGED expired
-----------------------------------------------------------------------------
(* startOwnershipMonitor                                                   *)

(* A tick that finds a new revision. *)
Notice ==
  /\ monitor = "waiting"
  /\ revision # lastRevision
  /\ lastRevision' = revision
  /\ monitor' = "scanning"
  /\ UNCHANGED <<items, closerVars>>

(* closeForOwnershipChange empties the table before it closes anything. *)
CloseForOwnershipChange ==
  /\ monitor = "scanning"
  /\ Begin("monitor", items)
  /\ items' = {}
  /\ monitor' = "closing"
  /\ UNCHANGED lastRevision

MonitorReturn ==
  /\ Return("monitor")
  /\ monitor' = "waiting"
  /\ UNCHANGED <<lastRevision, items>>

MonitorExit ==
  /\ monitor = "waiting"
  /\ stopping
  /\ monitor' = "stopped"
  /\ UNCHANGED <<lastRevision, items, closerVars>>

MonitorStep ==
  /\ Notice \/ CloseForOwnershipChange \/ MonitorReturn \/ MonitorExit
  /\ UNCHANGED <<busVars, draining, shutdown, closing, clients, handlerVars,
                 sock, stopping>>
-----------------------------------------------------------------------------
(* Server.Shutdown                                                         *)

BeginShutdown ==
  /\ MayShutDown
  /\ shutdown = "running"
  /\ draining' = TRUE
  /\ shutdown' = "draining"
  /\ UNCHANGED <<busVars, closing, stopping, closerVars>>

(* closeForServiceRestart: a snapshot, the table keeps its entries. *)
CloseForServiceRestart ==
  /\ shutdown = "draining"
  /\ closing' = TRUE
  /\ Begin("shutdown", items)
  /\ shutdown' = "closing"
  /\ UNCHANGED <<busVars, draining, stopping>>

ShutdownReturn ==
  /\ Return("shutdown")
  /\ shutdown' = "notified"
  /\ UNCHANGED <<busVars, draining, closing, stopping>>

(* Mutant: Shutdown waits for the monitor without cancelling it. *)
WaitOnly ==
  /\ shutdown = "notified"
  /\ shutdown' = "waiting"
  /\ UNCHANGED <<busVars, draining, closing, stopping, closerVars>>

(* stopOwnershipMonitor: cancel, then wait for the goroutine. *)
CancelMonitor ==
  /\ shutdown = "notified"
  /\ stopping' = TRUE
  /\ shutdown' = "waiting"
  /\ UNCHANGED <<busVars, draining, closing, closerVars>>

(* The monitor is gone: cancelConsumer and the first half of               *)
(* KafkaBus.Close.                                                         *)
StopConsumer ==
  /\ shutdown = "waiting"
  /\ monitor = "stopped"
  /\ CloseReady
  /\ shutdown' = "unready"
  /\ UNCHANGED <<draining, closing, stopping, closerVars>>

(* The second half.  Consume may have set the first again, or this one     *)
(* afterwards: its loop notices later and clears both once more.           *)
StopOwning ==
  /\ shutdown = "unready"
  /\ CloseOwnership
  /\ shutdown' = "stopped"
  /\ UNCHANGED <<draining, closing, stopping, closerVars>>

(* Shutdown goes on once it was called. *)
ShutdownProgress ==
  \/ CloseForServiceRestart
  \/ ShutdownReturn
  \/ CancelMonitor
  \/ StopConsumer
  \/ StopOwning

ShutdownFrame == <<items, clients, handlerVars, sock, monitor, lastRevision>>
-----------------------------------------------------------------------------
Next ==
  \/ ConsumerStep
  \/ \E c \in Conns : HandlerStep(c) /\ UNCHANGED HandlerFrame
  \/ \E k \in Closers : (WorkerStep(k) \/ Expire(k)) /\ UNCHANGED CloserFrame
  \/ OrphanStep /\ UNCHANGED CloserFrame
  \/ MonitorStep
  \/ (BeginShutdown \/ ShutdownProgress) /\ UNCHANGED ShutdownFrame

(* Goroutines that can run do run: the Go scheduler is fair, every blocking *)
(* call of a worker has a deadline and the monitor is driven by a ticker.   *)
(* Nothing makes clients arrive or hang up, the group rebalance or the      *)
(* server shut down.                                                        *)
Fairness ==
  /\ \A c \in Conns : WF_vars(HandlerProgress(c) /\ UNCHANGED HandlerFrame)
  /\ \A k \in Closers : WF_vars(WorkerStep(k) /\ UNCHANGED CloserFrame)
  /\ WF_vars(OrphanStep /\ UNCHANGED CloserFrame)
  /\ WF_vars(MonitorStep)
  /\ WF_vars(ShutdownProgress /\ UNCHANGED ShutdownFrame)

Spec == Init /\ [][Next]_vars /\ Fairness
-----------------------------------------------------------------------------
(* Every variable keeps its type. *)
TypeOK ==
  /\ owned \subseteq Rooms
  /\ revision \in Nat
  /\ ready \in BOOLEAN
  /\ consumer \in {"joining", "assigned", "consuming", "ending"}
  /\ draining \in BOOLEAN
  /\ shutdown \in {"running", "draining", "closing", "notified", "waiting",
                   "unready", "stopped"}
  /\ items \subseteq Conns
  /\ closing \in BOOLEAN
  /\ clients \in [Rooms -> [Users -> Conns \cup {NoConn}]]
  /\ pc \in [Conns -> Locations]
  /\ user \in [Conns -> Users]
  /\ room \in [Conns -> Rooms]
  /\ seenRevision \in [Conns -> Nat]
  /\ sock \in [Conns -> {"none", "open", "closed"}]
  /\ monitor \in {"waiting", "scanning", "closing", "stopped"}
  /\ lastRevision \in Nat
  /\ stopping \in BOOLEAN
  /\ pending \in [Closers -> SUBSET Conns]
  /\ busy \in [Closers -> SUBSET Conns]
  /\ expired \in [Closers -> BOOLEAN]
  /\ orphans \subseteq Conns
  /\ abandoned \subseteq Conns

(* A room's entry for a user is the connection whose handler joined it and *)
(* has not left: Leave takes a user ID, and yet no handler ever removes    *)
(* the membership of another connection, on no rejection path, and none    *)
(* leaves an entry behind.                                                 *)
MembershipOwned ==
  \A r \in Rooms, u \in Users, c \in Conns :
    clients[r][u] = c <=> pc[c] \in Holding /\ room[c] = r /\ user[c] = u

(* A connection served under the current ownership revision is in a room   *)
(* this instance owns, although revision and owner are read separately and *)
(* the generation may end and begin again between any two of the reads.    *)
OwnedWhileCurrent ==
  \A c \in Conns :
    pc[c] = "serving" /\ seenRevision[c] = revision => room[c] \in owned

(* Somebody has taken charge of closing the connection, or gave it up. *)
Covered(c) ==
  \/ sock[c] = "closed"
  \/ c \in orphans \cup abandoned
  \/ \E k \in Closers : c \in pending[k] \cup busy[k]

(* No connection slips between the registration, the second look at the    *)
(* ownership and the monitor's rounds: one nobody is closing is in the     *)
(* table, and if its revision is old the monitor has yet to take a round.  *)
NoStaleForgotten ==
  \A c \in Conns :
    pc[c] \in {"rechecking", "serving"} /\ ~Covered(c) =>
      /\ c \in items
      /\ seenRevision[c] >= lastRevision \/ monitor = "scanning"

(* Once the table is closing every registered connection is in someone's   *)
(* batch: late registrations are refused, and those the monitor had        *)
(* already taken out of the table are in the monitor's.                    *)
RestartMissesNobody ==
  \A c \in Conns :
    closing /\ pc[c] \in {"added", "rechecking", "serving"} => Covered(c)

(* A session whose ownership revision is out of date ends, unless a closer *)
(* gave it up.                                                             *)
StaleSessionEnds ==
  \A c \in Conns :
    (pc[c] = "serving" /\ seenRevision[c] < revision)
      ~> (pc[c] = "done" \/ c \in abandoned)

(* Shutdown returns: it waits for the workers and for the monitor, and the *)
(* monitor for its own workers, but nobody waits for ever.                 *)
ShutdownCompletes == draining ~> shutdown = "stopped"

(* Every connection that is open when the server starts to drain goes      *)
(* away, those still in the handshake too, unless a closer gave it up.     *)
DrainEndsSessions ==
  \A c \in Conns :
    (draining /\ sock[c] = "open") ~> (pc[c] = "done" \/ c \in abandoned)

(* A user whose connection has been closed can come back: the old handler  *)
(* gives up the membership under which Join refuses a reconnect, however   *)
(* the connection was closed and wherever the handler was.                 *)
ReconnectPossible ==
  \A c \in Conns :
    (sock[c] = "closed" /\ clients[room[c]][user[c]] = c)
      ~> clients[room[c]][user[c]] # c

(* "closeForOwnershipChange closes all connections made under the old      *)
(* Kafka generation" (websocket.go).                                       *)
OldGenerationClosed ==
  \A c \in Conns :
    (pc[c] = "serving" /\ seenRevision[c] < revision) ~> sock[c] = "closed"

(* "On a restart, online connections receive 1012" (README, and the        *)
(* comment on Shutdown): a worker gets to every one of them.               *)
OnlineConnectionsNotified ==
  \A c \in Conns :
    (draining /\ pc[c] = "serving") ~> sock[c] = "closed"
=============================================================================
