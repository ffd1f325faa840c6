--------------------------- MODULE GatewayProofs ---------------------------
(***************************************************************************)
(* Proofs of Gateway's safety, for any number of connections, users,       *)
(* rooms, workers and ownership changes.                                   *)
(***************************************************************************)
EXTENDS Gateway, TLAPS

(* The members of all rooms. *)
Memberships == [Rooms -> [Users -> Conns \cup {NoConn}]]

(* Room.Join and Room.Leave write one entry of one room. *)
LEMMA EntryWrite ==
  ASSUME NEW f \in Memberships, NEW r \in Rooms, NEW u \in Users,
         NEW x \in Conns \cup {NoConn}
  PROVE  LET g == [f EXCEPT ![r][u] = x] IN
         /\ g \in Memberships
         /\ \A s \in Rooms, t \in Users :
              g[s][t] = IF s = r /\ t = u THEN x ELSE f[s][t]
<1>1. [f[r] EXCEPT ![u] = x] \in [Users -> Conns \cup {NoConn}]
  BY DEF Memberships
<1> QED BY <1>1 DEF Memberships

(* The steps of the handlers keep the types. *)
LEMMA HandlerType ==
  ASSUME TypeOK, NEW c \in Conns, HandlerStep(c), UNCHANGED HandlerFrame
  PROVE  TypeOK'
<1> USE DEF TypeOK, HandlerFrame, busVars, closerVars, Goto, Locations, Holding
<1>p. ASSUME NEW l \in Locations, Goto(c, l)
      PROVE pc' \in [Conns -> Locations]
  BY <1>p
<1>1. CASE Probe(c)
  <2>1. pc' \in [Conns -> Locations]
    BY <1>1, <1>p DEF Probe
  <2>2. UNCHANGED <<user, room, seenRevision, items, clients, sock>>
    BY <1>1 DEF Probe
  <2> QED BY <2>1, <2>2
<1>2. CASE Refuse(c) \/ Admit(c)
  <2>1. pc' \in [Conns -> Locations]
    BY <1>2, <1>p DEF Refuse, Admit
  <2>2. UNCHANGED <<user, room, seenRevision, items, clients, sock>>
    BY <1>2 DEF Refuse, Admit
  <2> QED BY <2>1, <2>2
<1>3. CASE ReadRevision(c)
  <2>1. pc' \in [Conns -> Locations] /\ seenRevision' \in [Conns -> Nat]
    BY <1>3, <1>p DEF ReadRevision
  <2>2. UNCHANGED <<user, room, items, clients, sock>>
    BY <1>3 DEF ReadRevision
  <2> QED BY <2>1, <2>2
<1>4. CASE Upgrade(c)
  <2>1. pc' \in [Conns -> Locations]
    BY <1>4, <1>p DEF Upgrade
  <2>2. sock' \in [Conns -> {"none", "open", "closed"}]
    BY <1>4 DEF Upgrade
  <2>3. UNCHANGED <<user, room, seenRevision, items, clients>>
    BY <1>4 DEF Upgrade
  <2> QED BY <2>1, <2>2, <2>3
<1>5. CASE JoinRoom(c)
  <2>1. pc' \in [Conns -> Locations]
    BY <1>5, <1>p DEF JoinRoom
  <2>2. sock' \in [Conns -> {"none", "open", "closed"}]
    BY <1>5 DEF JoinRoom
  <2>3. clients' \in [Rooms -> [Users -> Conns \cup {NoConn}]]
    <3>1. room[c] \in Rooms /\ user[c] \in Users
      OBVIOUS
    <3>2. \/ clients' = clients
          \/ clients' = [clients EXCEPT ![room[c]][user[c]] = c]
      BY <1>5 DEF JoinRoom
    <3>3. clients \in Memberships /\ c \in Conns \cup {NoConn}
      BY DEF Memberships
    <3>4. [clients EXCEPT ![room[c]][user[c]] = c] \in Memberships
      BY ONLY <3>1, <3>3, EntryWrite
    <3>5. clients' \in Memberships
      BY ONLY <3>2, <3>3, <3>4
    <3> QED BY <3>5 DEF Memberships
  <2>4. UNCHANGED <<user, room, seenRevision, items>>
    BY <1>5 DEF JoinRoom
  <2> QED BY <2>1, <2>2, <2>3, <2>4
<1>6. CASE Add(c)
  <2>1. pc' \in [Conns -> Locations]
    BY <1>6, <1>p DEF Add
  <2>2. items' \subseteq Conns
    BY <1>6 DEF Add
  <2>3. UNCHANGED <<user, room, seenRevision, clients, sock>>
    BY <1>6 DEF Add
  <2> QED BY <2>1, <2>2, <2>3
<1>7. CASE RecheckRevision(c) \/ RecheckOwner(c)
  <2>1. pc' \in [Conns -> Locations]
    BY <1>7, <1>p DEF RecheckRevision, RecheckOwner
  <2>2. UNCHANGED <<user, room, seenRevision, items, clients, sock>>
    BY <1>7 DEF RecheckRevision, RecheckOwner
  <2> QED BY <2>1, <2>2
<1>8. CASE Remove(c)
  <2>1. pc' \in [Conns -> Locations]
    BY <1>8, <1>p DEF Remove
  <2>2. items' \subseteq Conns
    BY <1>8 DEF Remove
  <2>3. UNCHANGED <<user, room, seenRevision, clients, sock>>
    BY <1>8 DEF Remove
  <2> QED BY <2>1, <2>2, <2>3
<1>9. CASE LeaveRoom(c)
  <2>1. pc' \in [Conns -> Locations]
    BY <1>9, <1>p DEF LeaveRoom
  <2>2. clients' \in [Rooms -> [Users -> Conns \cup {NoConn}]]
    BY <1>9 DEF LeaveRoom
  <2>3. UNCHANGED <<user, room, seenRevision, items, sock>>
    BY <1>9 DEF LeaveRoom
  <2> QED BY <2>1, <2>2, <2>3
<1>10. CASE EndSession(c)
  <2>1. pc' \in [Conns -> Locations]
    BY <1>10, <1>p DEF EndSession
  <2>2. UNCHANGED <<user, room, seenRevision, items, clients, sock>>
    BY <1>10 DEF EndSession
  <2> QED BY <2>1, <2>2
<1>11. CASE CloseSocket(c)
  <2>1. pc' \in [Conns -> Locations]
    BY <1>11, <1>p DEF CloseSocket
  <2>2. sock' \in [Conns -> {"none", "open", "closed"}]
    BY <1>11 DEF CloseSocket
  <2>3. UNCHANGED <<user, room, seenRevision, items, clients>>
    BY <1>11 DEF CloseSocket
  <2> QED BY <2>1, <2>2, <2>3
<1> QED
  BY <1>1, <1>2, <1>3, <1>4, <1>5, <1>6, <1>7, <1>8, <1>9, <1>10, <1>11
  DEF HandlerStep, HandlerProgress

(* The types of the variables only closeWebSockets touches. *)
CloserType ==
  /\ pending \in [Closers -> SUBSET Conns]
  /\ busy \in [Closers -> SUBSET Conns]
  /\ expired \in [Closers -> BOOLEAN]
  /\ orphans \subseteq Conns
  /\ abandoned \subseteq Conns

(* The other steps keep the types. *)
LEMMA TypeStep == TypeOK /\ [Next]_vars => TypeOK'
<1> SUFFICES ASSUME TypeOK, [Next]_vars PROVE TypeOK'
  OBVIOUS
<1>b. ASSUME NEW k \in Closers, NEW S \in SUBSET Conns, Begin(k, S)
      PROVE CloserType'
  BY <1>b DEF Begin, TypeOK, CloserType
<1>r. ASSUME NEW k \in Closers, Return(k) PROVE CloserType'
  <2>1. PICK late \in SUBSET pending[k] :
          /\ orphans' = orphans \cup busy[k] \cup late
          /\ abandoned' = abandoned \cup (pending[k] \ late)
    BY <1>r DEF Return
  <2>2. pending[k] \subseteq Conns /\ busy[k] \subseteq Conns
    BY DEF TypeOK
  <2>3. orphans' \subseteq Conns /\ abandoned' \subseteq Conns
    BY <2>1, <2>2 DEF TypeOK
  <2>4. /\ pending' \in [Closers -> SUBSET Conns]
        /\ busy' \in [Closers -> SUBSET Conns]
    BY <1>r DEF Return, TypeOK
  <2>5. expired' = expired
    BY <1>r DEF Return
  <2> QED BY <2>3, <2>4, <2>5 DEF CloserType, TypeOK
<1>u. closerVars' = closerVars => CloserType'
  BY DEF closerVars, TypeOK, CloserType
<1>1. CASE ConsumerStep
  <2>1. /\ owned' \subseteq Rooms /\ revision' \in Nat
        /\ consumer' \in {"joining", "assigned", "consuming", "ending"}
    BY <1>1 DEF TypeOK, ConsumerStep, Assign, BecomeReady, EndGeneration,
      ForgetGeneration, Rejoin, SetPartitionOwnership, ClearAssignedPartitions
  <2>2. ready' \in BOOLEAN
    BY <1>1 DEF TypeOK, ConsumerStep, Assign, BecomeReady, EndGeneration,
      ForgetGeneration, Rejoin
  <2>3. UNCHANGED <<draining, shutdown, items, closing, clients, handlerVars,
                    sock, monitor, lastRevision, stopping, closerVars>>
    BY <1>1 DEF ConsumerStep
  <2> QED BY <2>1, <2>2, <2>3 DEF TypeOK, handlerVars, closerVars
<1>2. CASE \E c \in Conns : HandlerStep(c) /\ UNCHANGED HandlerFrame
  BY <1>2, HandlerType
<1>3. ASSUME NEW k \in Closers, WorkerStep(k) \/ Expire(k),
             UNCHANGED CloserFrame
      PROVE TypeOK'
  <2>1. CloserType'
    <3>1. ASSUME NEW c \in Conns, Take(k, c) PROVE CloserType'
      BY <3>1 DEF TypeOK, CloserType, Take
    <3>2. ASSUME NEW c \in Conns, Finish(k, c) PROVE CloserType'
      BY <3>2 DEF TypeOK, CloserType, Finish
    <3>3. CASE Expire(k)
      <4>1. expired' \in [Closers -> BOOLEAN]
        BY <3>3 DEF Expire, TypeOK
      <4> QED BY <3>3, <4>1 DEF TypeOK, CloserType, Expire
    <3> QED BY <1>3, <3>1, <3>2, <3>3 DEF WorkerStep
  <2>2. sock' \in [Conns -> {"none", "open", "closed"}]
    BY <1>3 DEF TypeOK, WorkerStep, Take, Finish, Expire
  <2> QED
    BY <1>3, <2>1, <2>2
    DEF TypeOK, CloserType, CloserFrame, busVars, handlerVars
<1>4. CASE OrphanStep /\ UNCHANGED CloserFrame
  <2>1. CloserType'
    BY <1>4 DEF TypeOK, CloserType, OrphanStep, FinishOrphan
  <2>2. sock' \in [Conns -> {"none", "open", "closed"}]
    BY <1>4 DEF TypeOK, OrphanStep, FinishOrphan
  <2> QED
    BY <1>4, <2>1, <2>2
    DEF TypeOK, CloserType, CloserFrame, busVars, handlerVars
<1>5. CASE MonitorStep
  <2>1. CloserType'
    BY <1>5, <1>b, <1>r, <1>u
    DEF TypeOK, MonitorStep, Notice, CloseForOwnershipChange, MonitorReturn,
      MonitorExit, Closers
  <2>2. /\ lastRevision' \in Nat /\ items' \subseteq Conns
        /\ monitor' \in {"waiting", "scanning", "closing", "stopped"}
    BY <1>5 DEF TypeOK, MonitorStep, Notice, CloseForOwnershipChange,
      MonitorReturn, MonitorExit
  <2>3. UNCHANGED <<busVars, draining, shutdown, closing, clients,
                    handlerVars, sock, stopping>>
    BY <1>5 DEF MonitorStep
  <2> QED BY <2>1, <2>2, <2>3 DEF TypeOK, CloserType, busVars, handlerVars
<1>6. CASE (BeginShutdown \/ ShutdownProgress) /\ UNCHANGED ShutdownFrame
  <2> USE DEF BeginShutdown, ShutdownProgress, CloseForServiceRestart,
        ShutdownReturn, CancelMonitor, StopConsumer, CloseReady, StopOwning,
        CloseOwnership
  <2>1. CloserType'
    BY <1>6, <1>b, <1>r, <1>u DEF TypeOK, Closers
  <2>2. /\ draining' \in BOOLEAN /\ closing' \in BOOLEAN
        /\ stopping' \in BOOLEAN /\ ready' \in BOOLEAN
    BY <1>6 DEF TypeOK, busVars
  <2>3. /\ shutdown' \in {"running", "draining", "closing", "notified",
                          "waiting", "unready", "stopped"}
        /\ owned' \subseteq Rooms /\ revision' \in Nat
        /\ consumer' = consumer
    BY <1>6 DEF TypeOK, busVars, ClearAssignedPartitions
  <2>4. UNCHANGED ShutdownFrame
    BY <1>6
  <2> QED
    BY <2>1, <2>2, <2>3, <2>4
    DEF TypeOK, CloserType, ShutdownFrame, handlerVars
<1>7. CASE UNCHANGED vars
  BY <1>7 DEF TypeOK, vars, busVars, handlerVars, closerVars
<1> QED BY <1>1, <1>2, <1>3, <1>4, <1>5, <1>6, <1>7 DEF Next

---------------------------------------------------------------------------
(* Facts about the handlers that several proofs need.                      *)

(* A handler changes nothing that belongs to another connection. *)
LEMMA HandlerLocal ==
  ASSUME TypeOK, NEW c \in Conns, HandlerStep(c)
  PROVE  /\ user' = user /\ room' = room
         /\ \A d \in Conns \ {c} :
              /\ pc'[d] = pc[d] /\ sock'[d] = sock[d]
              /\ seenRevision'[d] = seenRevision[d]
              /\ d \in items' <=> d \in items
  BY DEF TypeOK, HandlerStep, HandlerProgress, Goto, Probe, Refuse, Admit,
    ReadRevision, Upgrade, JoinRoom, Add, RecheckRevision, RecheckOwner,
    Remove, LeaveRoom, EndSession, CloseSocket

(* How a handler comes to each of the places where it counts as owner. *)
LEMMA HandlerMoves ==
  ASSUME TypeOK, NEW c \in Conns, HandlerStep(c)
  PROVE  /\ pc'[c] = "upgraded" =>
              /\ pc[c] = "versioned" /\ room[c] \in owned
              /\ seenRevision' = seenRevision
         /\ pc'[c] = "joined" =>
              pc[c] = "upgraded" /\ seenRevision' = seenRevision
         /\ pc'[c] = "added" =>
              /\ pc[c] = "joined" /\ seenRevision' = seenRevision
              /\ ~closing /\ c \in items'
         /\ pc'[c] = "rechecking" =>
              /\ pc[c] = "added" /\ seenRevision' = seenRevision
              /\ revision = seenRevision[c] /\ items' = items /\ sock' = sock
         /\ pc'[c] = "serving" =>
              /\ pc[c] = "rechecking" /\ seenRevision' = seenRevision
              /\ items' = items /\ sock' = sock
         /\ seenRevision'[c] \in {seenRevision[c], revision}
         /\ pc[c] # "versioned" /\ sock[c] = "closed" => sock'[c] = "closed"
<1> USE DEF TypeOK, Goto
<1>1. CASE Probe(c) \/ Refuse(c) \/ Admit(c) \/ ReadRevision(c)
  BY <1>1 DEF Probe, Refuse, Admit, ReadRevision
<1>2. CASE Upgrade(c) \/ JoinRoom(c) \/ Add(c)
  BY <1>2 DEF Upgrade, JoinRoom, Add, OwnsRoom, Accepting
<1>3. CASE RecheckRevision(c) \/ RecheckOwner(c)
  BY <1>3 DEF RecheckRevision, RecheckOwner
<1>4. CASE Remove(c) \/ LeaveRoom(c) \/ EndSession(c) \/ CloseSocket(c)
  BY <1>4 DEF Remove, LeaveRoom, EndSession, CloseSocket
<1> QED
  BY <1>1, <1>2, <1>3, <1>4 DEF HandlerStep, HandlerProgress

(* The steps of everyone else leave the handlers and the rooms alone. *)
LEMMA OthersLeaveHandlers ==
  ASSUME [Next]_vars, ~(\E c \in Conns : HandlerStep(c) /\ UNCHANGED HandlerFrame)
  PROVE  UNCHANGED <<pc, user, room, seenRevision, clients>>
<1>1. CASE ConsumerStep
  BY <1>1 DEF ConsumerStep, handlerVars
<1>2. CASE \E k \in Closers : (WorkerStep(k) \/ Expire(k)) /\ UNCHANGED CloserFrame
  BY <1>2 DEF CloserFrame, handlerVars
<1>3. CASE OrphanStep /\ UNCHANGED CloserFrame
  BY <1>3 DEF CloserFrame, handlerVars
<1>4. CASE MonitorStep
  BY <1>4 DEF MonitorStep, handlerVars
<1>5. CASE (BeginShutdown \/ ShutdownProgress) /\ UNCHANGED ShutdownFrame
  BY <1>5 DEF ShutdownFrame, handlerVars
<1>6. CASE UNCHANGED vars
  BY <1>6 DEF vars, handlerVars
<1> QED BY <1>1, <1>2, <1>3, <1>4, <1>5, <1>6 DEF Next
---------------------------------------------------------------------------
(* Rooms and handlers agree on who is a member. *)
LEMMA MembershipStep ==
  ASSUME TypeOK, MembershipOwned, [Next]_vars
  PROVE  MembershipOwned'
<1>1. ASSUME NEW c \in Conns, HandlerStep(c) PROVE MembershipOwned'
  <2> USE DEF MembershipOwned
  <2>l. /\ user' = user /\ room' = room
        /\ \A d \in Conns \ {c} : pc'[d] = pc[d]
    BY <1>1, HandlerLocal
  <2>t. /\ clients \in Memberships /\ room[c] \in Rooms /\ user[c] \in Users
        /\ NoConn \in Conns \cup {NoConn} /\ c \in Conns \cup {NoConn}
        /\ NoConn \notin Conns
    BY GatewayConstants DEF TypeOK, Memberships
  <2>1. CASE JoinRoom(c) /\ Unclaimed(c)
    <3>1. /\ clients' = [clients EXCEPT ![room[c]][user[c]] = c]
          /\ pc[c] = "upgraded" /\ pc'[c] = "joined"
      BY <2>1 DEF JoinRoom, Goto, TypeOK
    <3>2. \A r \in Rooms, u \in Users :
            clients'[r][u] = IF r = room[c] /\ u = user[c] THEN c ELSE clients[r][u]
      BY ONLY <2>t, <3>1, EntryWrite
    <3>3. clients[room[c]][user[c]] = NoConn
      BY <2>1 DEF Unclaimed
    <3> QED BY <2>l, <2>t, <3>1, <3>2, <3>3 DEF Holding
  <2>2. CASE LeaveRoom(c)
    <3>1. /\ clients' = [clients EXCEPT ![room[c]][user[c]] = NoConn]
          /\ pc[c] \in Holding /\ pc'[c] \notin Holding
      BY <2>2 DEF LeaveRoom, Goto, TypeOK, Holding
    <3>2. \A r \in Rooms, u \in Users :
            clients'[r][u] =
              IF r = room[c] /\ u = user[c] THEN NoConn ELSE clients[r][u]
      BY ONLY <2>t, <3>1, EntryWrite
    <3>3. clients[room[c]][user[c]] = c
      BY <2>t, <3>1
    <3> QED BY <2>l, <2>t, <3>1, <3>2, <3>3
  <2>3. CASE ~(JoinRoom(c) /\ Unclaimed(c)) /\ ~LeaveRoom(c)
    <3>1. clients' = clients
      BY <1>1, <2>3 DEF HandlerStep, HandlerProgress, Probe, Refuse, Admit,
        ReadRevision, Upgrade, JoinRoom, Add, RecheckRevision, RecheckOwner,
        Remove, EndSession, CloseSocket
    <3>2. pc'[c] \in Holding <=> pc[c] \in Holding
      BY <1>1, <2>3 DEF TypeOK, Goto, Holding, HandlerStep, HandlerProgress,
        Probe, Refuse, Admit, ReadRevision, Upgrade, JoinRoom, Add,
        RecheckRevision, RecheckOwner, Remove, EndSession, CloseSocket
    <3> QED BY <2>l, <3>1, <3>2
  <2> QED BY <2>1, <2>2, <2>3
<1>2. CASE UNCHANGED <<pc, user, room, seenRevision, clients>>
  BY <1>2 DEF MembershipOwned
<1> QED BY <1>1, <1>2, OthersLeaveHandlers
---------------------------------------------------------------------------
(* Nobody has seen a revision that does not exist yet. *)
RevisionsSeen ==
  /\ lastRevision <= revision
  /\ \A c \in Conns : seenRevision[c] <= revision

(* OwnedWhileCurrent from the first look at the owner on: it is the        *)
(* revision read before it that vouches for the answer.                    *)
OwnedSinceHandshake ==
  \A c \in Conns :
    /\ pc[c] \in {"upgraded", "joined", "added", "rechecking", "serving"}
    /\ seenRevision[c] = revision
    => room[c] \in owned

(* Ownership changes only together with the revision. *)
LEMMA RevisionMoves ==
  ASSUME TypeOK, [Next]_vars
  PROVE  \/ owned' = owned /\ revision' = revision
         \/ /\ revision' = revision + 1
            /\ UNCHANGED <<pc, room, seenRevision, lastRevision>>
<1>1. CASE ConsumerStep
  BY <1>1 DEF ConsumerStep, Assign, BecomeReady, EndGeneration,
    ForgetGeneration, Rejoin, SetPartitionOwnership, ClearAssignedPartitions,
    handlerVars
<1>2. CASE \E c \in Conns : HandlerStep(c) /\ UNCHANGED HandlerFrame
  BY <1>2 DEF HandlerFrame, busVars
<1>3. CASE \/ \E k \in Closers : (WorkerStep(k) \/ Expire(k)) /\ UNCHANGED CloserFrame
           \/ OrphanStep /\ UNCHANGED CloserFrame
  BY <1>3 DEF CloserFrame, busVars
<1>4. CASE MonitorStep
  BY <1>4 DEF MonitorStep, busVars
<1>5. CASE (BeginShutdown \/ ShutdownProgress) /\ UNCHANGED ShutdownFrame
  BY <1>5 DEF BeginShutdown, ShutdownProgress, CloseForServiceRestart,
    ShutdownReturn, CancelMonitor, StopConsumer, CloseReady,
    StopOwning, CloseOwnership, ClearAssignedPartitions, ShutdownFrame,
    busVars, handlerVars
<1>6. CASE UNCHANGED vars
  BY <1>6 DEF vars, busVars
<1> QED BY <1>1, <1>2, <1>3, <1>4, <1>5, <1>6 DEF Next

(* The monitor's revision changes only to the current one. *)
LEMMA LastRevisionMoves ==
  ASSUME [Next]_vars
  PROVE  \/ lastRevision' = lastRevision
         \/ lastRevision' = revision /\ revision' = revision
<1>1. CASE ConsumerStep
  BY <1>1 DEF ConsumerStep
<1>2. CASE \E c \in Conns : HandlerStep(c) /\ UNCHANGED HandlerFrame
  BY <1>2 DEF HandlerFrame
<1>3. CASE \/ \E k \in Closers : (WorkerStep(k) \/ Expire(k)) /\ UNCHANGED CloserFrame
           \/ OrphanStep /\ UNCHANGED CloserFrame
  BY <1>3 DEF CloserFrame
<1>4. CASE MonitorStep
  BY <1>4 DEF MonitorStep, Notice, CloseForOwnershipChange, MonitorReturn,
    MonitorExit, busVars
<1>5. CASE (BeginShutdown \/ ShutdownProgress) /\ UNCHANGED ShutdownFrame
  BY <1>5 DEF ShutdownFrame
<1>6. CASE UNCHANGED vars
  BY <1>6 DEF vars
<1> QED BY <1>1, <1>2, <1>3, <1>4, <1>5, <1>6 DEF Next

(* The handshake's revision keeps vouching for the ownership. *)
LEMMA OwnershipStep ==
  ASSUME TypeOK, RevisionsSeen, OwnedSinceHandshake, [Next]_vars
  PROVE  RevisionsSeen' /\ OwnedSinceHandshake'
<1>t. /\ revision \in Nat /\ lastRevision \in Nat
      /\ \A c \in Conns : seenRevision[c] \in Nat
  BY DEF TypeOK
<1>1. CASE /\ revision' = revision + 1
           /\ UNCHANGED <<pc, room, seenRevision, lastRevision>>
  BY <1>1, <1>t DEF RevisionsSeen, OwnedSinceHandshake
<1>2. CASE owned' = owned /\ revision' = revision
  <2>1. ASSUME NEW c \in Conns, HandlerStep(c), UNCHANGED HandlerFrame
        PROVE RevisionsSeen' /\ OwnedSinceHandshake'
    <3>1. lastRevision' = lastRevision
      BY <2>1 DEF HandlerFrame
    <3>2. \A d \in Conns : seenRevision'[d] <= revision
      BY <2>1, <1>t, HandlerLocal, HandlerMoves DEF RevisionsSeen
    <3>3. ASSUME NEW d \in Conns,
                 pc'[d] \in {"upgraded", "joined", "added", "rechecking",
                             "serving"},
                 seenRevision'[d] = revision'
          PROVE room'[d] \in owned'
      <4>1. CASE d # c
        BY <1>2, <2>1, <3>3, <4>1, HandlerLocal DEF OwnedSinceHandshake
      <4>2. CASE d = c
        BY <1>2, <2>1, <3>3, <4>2, HandlerLocal, HandlerMoves
        DEF OwnedSinceHandshake
      <4> QED BY <4>1, <4>2
    <3> QED BY <1>2, <3>1, <3>2, <3>3 DEF RevisionsSeen, OwnedSinceHandshake
  <2>2. CASE UNCHANGED <<pc, user, room, seenRevision, clients>>
    BY <1>2, <1>t, <2>2, LastRevisionMoves
    DEF RevisionsSeen, OwnedSinceHandshake
  <2> QED BY <2>1, <2>2, OthersLeaveHandlers
<1> QED BY <1>1, <1>2, RevisionMoves
---------------------------------------------------------------------------
(* A closer that is not running holds nothing. *)
Settled ==
  \A k \in Closers : ~Running(k) => pending[k] = {} /\ busy[k] = {}

(* Every registered connection is in the table or somebody's concern. *)
Registered ==
  \A c \in Conns :
    pc[c] \in {"added", "rechecking", "serving"} => c \in items \/ Covered(c)

(* A closer holds connections only while it runs. *)
LEMMA SettledStep ==
  ASSUME TypeOK, Settled, [Next]_vars
  PROVE  Settled'
<1> USE DEF Settled, Running, Closers
<1>1. CASE ConsumerStep
  BY <1>1 DEF ConsumerStep, closerVars
<1>2. CASE \E c \in Conns : HandlerStep(c) /\ UNCHANGED HandlerFrame
  BY <1>2 DEF HandlerFrame, closerVars
<1>3. ASSUME NEW k \in Closers, WorkerStep(k) \/ Expire(k),
             UNCHANGED CloserFrame
      PROVE Settled'
  BY <1>3 DEF TypeOK, WorkerStep, Take, Finish, Expire, CloserFrame
<1>4. CASE OrphanStep /\ UNCHANGED CloserFrame
  BY <1>4 DEF OrphanStep, FinishOrphan, CloserFrame
<1>5. CASE MonitorStep
  BY <1>5 DEF TypeOK, MonitorStep, Notice, CloseForOwnershipChange, Begin,
    MonitorReturn, Return, MonitorExit, closerVars
<1>6. CASE (BeginShutdown \/ ShutdownProgress) /\ UNCHANGED ShutdownFrame
  BY <1>6 DEF TypeOK, BeginShutdown, ShutdownProgress, Begin,
    CloseForServiceRestart, ShutdownReturn, Return, CancelMonitor,
    StopConsumer, StopOwning, ShutdownFrame, closerVars
<1>7. CASE UNCHANGED vars
  BY <1>7 DEF vars, closerVars
<1> QED BY <1>1, <1>2, <1>3, <1>4, <1>5, <1>6, <1>7 DEF Next

(* What somebody has taken charge of stays so. *)
LEMMA CoveredStays ==
  ASSUME TypeOK, Settled, [Next]_vars,
         NEW c \in Conns, Covered(c), pc[c] # "versioned"
  PROVE  Covered(c)'
<1> USE DEF Covered, TypeOK
<1>r. ASSUME NEW k \in Closers, Return(k), sock' = sock PROVE Covered(c)'
  <2>1. PICK late \in SUBSET pending[k] :
          /\ orphans' = orphans \cup busy[k] \cup late
          /\ abandoned' = abandoned \cup (pending[k] \ late)
    BY <1>r DEF Return
  <2>2. \A j \in Closers \ {k} : pending'[j] = pending[j] /\ busy'[j] = busy[j]
    BY <1>r DEF Return
  <2> QED BY <1>r, <2>1, <2>2
<1>b. ASSUME NEW k \in Closers, NEW S \in SUBSET Conns, Begin(k, S), ~Running(k),
             sock' = sock
      PROVE Covered(c)'
  <2>1. pending[k] = {}
    BY <1>b DEF Settled
  <2>2. /\ \A j \in Closers \ {k} : pending'[j] = pending[j]
        /\ UNCHANGED <<busy, orphans, abandoned>>
    BY <1>b DEF Begin
  <2> QED BY <1>b, <2>1, <2>2
<1>u. ASSUME UNCHANGED <<sock, pending, busy, orphans, abandoned>>
      PROVE Covered(c)'
  BY <1>u
<1>1. CASE ConsumerStep
  BY <1>1, <1>u DEF ConsumerStep, closerVars
<1>2. ASSUME NEW d \in Conns, HandlerStep(d), UNCHANGED HandlerFrame
      PROVE Covered(c)'
  <2>1. UNCHANGED <<pending, busy, orphans, abandoned>>
    BY <1>2 DEF HandlerFrame, closerVars
  <2>2. sock[c] = "closed" => sock'[c] = "closed"
    BY <1>2, HandlerLocal, HandlerMoves
  <2> QED BY <2>1, <2>2
<1>3. ASSUME NEW k \in Closers, WorkerStep(k) \/ Expire(k)
      PROVE Covered(c)'
  <2>1. ASSUME NEW d \in Conns, Take(k, d) PROVE Covered(c)'
    BY <2>1 DEF Take
  <2>2. ASSUME NEW d \in Conns, Finish(k, d) PROVE Covered(c)'
    BY <2>2 DEF Finish
  <2>3. CASE Expire(k)
    BY <2>3, <1>u DEF Expire
  <2> QED BY <1>3, <2>1, <2>2, <2>3 DEF WorkerStep
<1>4. CASE OrphanStep
  BY <1>4 DEF OrphanStep, FinishOrphan
<1>5. CASE MonitorStep
  <2>1. sock' = sock /\ "monitor" \in Closers
    BY <1>5 DEF MonitorStep, Closers
  <2> QED
    BY <1>5, <1>b, <1>r, <1>u, <2>1
    DEF MonitorStep, Notice, CloseForOwnershipChange, MonitorReturn,
      MonitorExit, Running, closerVars
<1>6. CASE (BeginShutdown \/ ShutdownProgress) /\ UNCHANGED ShutdownFrame
  <2>1. sock' = sock /\ "shutdown" \in Closers
    BY <1>6 DEF ShutdownFrame, Closers
  <2> QED
    BY <1>6, <1>b, <1>r, <1>u, <2>1
    DEF BeginShutdown, ShutdownProgress, CloseForServiceRestart,
      ShutdownReturn, CancelMonitor, StopConsumer, StopOwning, Running, closerVars
<1>7. CASE UNCHANGED vars
  BY <1>7, <1>u DEF vars, closerVars
<1> QED BY <1>1, <1>2, <1>3, <1>4, <1>5, <1>6, <1>7 DEF Next

(* The inductive invariant of the gateway. *)
IInv ==
  /\ TypeOK
  /\ MembershipOwned
  /\ RevisionsSeen
  /\ OwnedSinceHandshake
  /\ Settled
  /\ Registered
  /\ NoStaleForgotten
  /\ RestartMissesNobody

(* Who is in the table, and which revision it was registered under.  Only  *)
(* Add puts a connection there, only Remove and the monitor take one out,  *)
(* and the monitor takes charge of all it takes out.                       *)
LEMMA TrackStep ==
  ASSUME IInv, [Next]_vars
  PROVE  Registered' /\ NoStaleForgotten' /\ RestartMissesNobody'
<1> DEFINE Live == {"added", "rechecking", "serving"}
           Tracked(c) == c \in items /\ (seenRevision[c] >= lastRevision
                                         \/ monitor = "scanning")
<1>i. /\ TypeOK /\ Settled
      /\ \A c \in Conns : pc[c] \in Live => c \in items \/ Covered(c)
      /\ \A c \in Conns :
           pc[c] \in {"rechecking", "serving"} /\ ~Covered(c) => Tracked(c)
      /\ \A c \in Conns : closing /\ pc[c] \in Live => Covered(c)
  BY DEF IInv, Registered, NoStaleForgotten, RestartMissesNobody
<1>t. /\ revision \in Nat /\ lastRevision \in Nat /\ lastRevision <= revision
      /\ \A c \in Conns : seenRevision[c] \in Nat
  BY <1>i DEF TypeOK, IInv, RevisionsSeen
<1>s. SUFFICES ASSUME NEW c \in Conns, pc'[c] \in Live, ~Covered(c)'
      PROVE /\ c \in items'
            /\ pc'[c] # "added" => Tracked(c)'
            /\ ~closing'
  BY DEF Registered, NoStaleForgotten, RestartMissesNobody
<1>c. pc[c] # "versioned" => ~Covered(c)
  BY <1>i, <1>s, CoveredStays
<1>u. ASSUME UNCHANGED <<pc, seenRevision, items, lastRevision, monitor, closing>>
      PROVE c \in items' /\ (pc'[c] # "added" => Tracked(c)') /\ ~closing'
  BY <1>u, <1>c, <1>i, <1>s
<1>1. CASE ConsumerStep
  BY <1>1, <1>u DEF ConsumerStep, handlerVars
<1>2. ASSUME NEW d \in Conns, HandlerStep(d), UNCHANGED HandlerFrame
      PROVE c \in items' /\ (pc'[c] # "added" => Tracked(c)') /\ ~closing'
  <2>1. UNCHANGED <<lastRevision, monitor, closing>>
    BY <1>2 DEF HandlerFrame
  <2>2. CASE d # c
    <3>1. /\ pc'[c] = pc[c] /\ seenRevision'[c] = seenRevision[c]
          /\ c \in items' <=> c \in items
      BY <1>2, <1>i, <2>2, HandlerLocal
    <3> QED BY <1>c, <1>i, <1>s, <2>1, <3>1
  <2>3. CASE d = c
    <3>1. CASE pc'[c] = "added"
      BY <1>2, <1>i, <2>1, <2>3, <3>1, HandlerMoves
    <3>2. CASE pc'[c] = "rechecking"
      BY <1>2, <1>i, <1>t, <1>c, <2>1, <2>3, <3>2, HandlerMoves
    <3>3. CASE pc'[c] = "serving"
      BY <1>2, <1>i, <1>t, <1>c, <2>1, <2>3, <3>3, HandlerMoves
    <3> QED BY <1>s, <3>1, <3>2, <3>3
  <2> QED BY <2>2, <2>3
<1>3. CASE \/ \E k \in Closers : (WorkerStep(k) \/ Expire(k)) /\ UNCHANGED CloserFrame
           \/ OrphanStep /\ UNCHANGED CloserFrame
  BY <1>3, <1>u DEF CloserFrame, handlerVars
<1>4. CASE MonitorStep
  <2>1. UNCHANGED <<pc, seenRevision, closing>>
    BY <1>4 DEF MonitorStep, handlerVars
  <2>2. pc[c] \in Live /\ ~Covered(c) /\ c \in items /\ ~closing
    BY <1>c, <1>i, <1>s, <2>1
  <2>3. CASE Notice
    BY <2>1, <2>2, <2>3 DEF Notice
  <2>4. CASE CloseForOwnershipChange
    <3>1. pending'["monitor"] = items
      BY <2>4, <1>i DEF CloseForOwnershipChange, Begin, TypeOK, Closers
    <3>2. Covered(c)'
      BY <2>2, <3>1 DEF Covered, Closers
    <3> QED BY <1>s, <3>2
  <2>5. CASE MonitorReturn \/ MonitorExit
    <3>1. /\ UNCHANGED <<lastRevision, items>>
          /\ monitor # "scanning"
      BY <2>5 DEF MonitorReturn, MonitorExit, Return, Running
    <3> QED BY <1>i, <2>1, <2>2, <3>1
  <2> QED BY <1>4, <2>3, <2>4, <2>5 DEF MonitorStep
<1>5. CASE (BeginShutdown \/ ShutdownProgress) /\ UNCHANGED ShutdownFrame
  <2>1. UNCHANGED <<pc, seenRevision, items, lastRevision, monitor>>
    BY <1>5 DEF ShutdownFrame, handlerVars
  <2>2. CASE CloseForServiceRestart
    <3>1. c \in items
      BY <1>c, <1>i, <1>s, <2>1
    <3>2. pending'["shutdown"] = items
      BY <2>2, <1>i DEF CloseForServiceRestart, Begin, TypeOK, Closers
    <3>3. Covered(c)'
      BY <3>1, <3>2 DEF Covered, Closers
    <3> QED BY <1>s, <3>3
  <2>3. CASE closing' = closing
    BY <1>u, <2>1, <2>3
  <2> QED
    BY <1>5, <2>2, <2>3
    DEF BeginShutdown, ShutdownProgress, ShutdownReturn, CancelMonitor,
      StopConsumer, StopOwning
<1>6. CASE UNCHANGED vars
  BY <1>6, <1>u DEF vars, handlerVars
<1> QED BY <1>1, <1>2, <1>3, <1>4, <1>5, <1>6 DEF Next

(* The inductive invariant holds in every reachable state. *)
THEOREM GatewayInvariant == Spec => []IInv
<1>1. Init => TypeOK
  <2> SUFFICES ASSUME Init PROVE TypeOK
    OBVIOUS
  <2>1. CloserType
    BY DEF Init, CloserType
  <2>2. pc \in [Conns -> Locations] /\ seenRevision \in [Conns -> Nat]
    BY DEF Init, Locations
  <2>3. clients \in [Rooms -> [Users -> Conns \cup {NoConn}]]
    BY DEF Init
  <2> QED BY <2>1, <2>2, <2>3 DEF Init, BusInit, TypeOK, CloserType
<1>2. Init => IInv
  <2> SUFFICES ASSUME Init PROVE IInv
    OBVIOUS
  <2>1. TypeOK
    BY <1>1
  <2>2. MembershipOwned
    BY GatewayConstants DEF Init, MembershipOwned, Holding
  <2>3. RevisionsSeen /\ OwnedSinceHandshake
    BY DEF Init, BusInit, RevisionsSeen, OwnedSinceHandshake
  <2>4. Settled
    BY DEF Init, Settled
  <2>5. Registered /\ NoStaleForgotten /\ RestartMissesNobody
    BY DEF Init, Registered, NoStaleForgotten, RestartMissesNobody
  <2> QED BY <2>1, <2>2, <2>3, <2>4, <2>5 DEF IInv
<1>3. IInv /\ [Next]_vars => IInv'
  BY TypeStep, MembershipStep, OwnershipStep, SettledStep, TrackStep DEF IInv
<1> QED BY <1>2, <1>3, PTL DEF Spec

(* Every variable of the gateway keeps its type. *)
THEOREM GatewayType == Spec => []TypeOK
<1>1. IInv => TypeOK
  BY DEF IInv
<1> QED BY GatewayInvariant, <1>1, PTL

(* A room's entry for a user always belongs to the connection that joined  *)
(* it and has not left yet.                                                *)
THEOREM GatewayMembership == Spec => []MembershipOwned
<1>1. IInv => MembershipOwned
  BY DEF IInv
<1> QED BY GatewayInvariant, <1>1, PTL

(* A connection served under the current ownership revision is in a room   *)
(* this instance owns.                                                     *)
THEOREM GatewayOwnership == Spec => []OwnedWhileCurrent
<1>1. IInv => OwnedWhileCurrent
  BY DEF IInv, OwnedSinceHandshake, OwnedWhileCurrent
<1> QED BY GatewayInvariant, <1>1, PTL

(* A served connection nobody is closing is in the table, and the monitor  *)
(* has not yet taken its round for the revisions that came after it.       *)
THEOREM GatewayNoStaleForgotten == Spec => []NoStaleForgotten
<1>1. IInv => NoStaleForgotten
  BY DEF IInv
<1> QED BY GatewayInvariant, <1>1, PTL

(* From the shutdown snapshot on, every registered connection is closed,   *)
(* being closed or given up by a closer; none is overlooked.               *)
THEOREM GatewayRestart == Spec => []RestartMissesNobody
<1>1. IInv => RestartMissesNobody
  BY DEF IInv
<1> QED BY GatewayInvariant, <1>1, PTL

(* A revision vouches for an ownership for ever: whoever finds revision r  *)
(* again, however much later, finds the rooms that were owned under r.     *)
(* This is what lets a handshake look at the two separately.               *)
THEOREM GatewayRevisionVouches ==
  ASSUME NEW CONSTANT r \in Nat, NEW CONSTANT S \in SUBSET Rooms
  PROVE  Spec => [](revision = r /\ owned = S => [](revision = r => owned = S))
<1> DEFINE Past == revision > r \/ (revision = r /\ owned = S)
<1>1. IInv /\ Past /\ [Next]_vars => Past'
  BY RevisionMoves DEF IInv, TypeOK
<1>2. revision = r /\ owned = S => Past
  OBVIOUS
<1>3. Past => (revision = r => owned = S)
  OBVIOUS
<1> HIDE DEF Past
<1> QED BY GatewayInvariant, <1>1, <1>2, <1>3, PTL DEF Spec
============================================================================
