-------------------------------- MODULE Room --------------------------------
(***************************************************************************)
(* internal/room/room.go: the in-memory room of one gateway process.       *)
(*                                                                         *)
(* Join, Leave and Publish hold Room.mu from their first line to their     *)
(* last, so each is one action; the reader of a client's channel (the      *)
(* writer goroutine of internal/httpserver/websocket.go) holds no lock and *)
(* interleaves with them freely.                                           *)
(*                                                                         *)
(* A handle stands for one *Client: Join allocates a new one, so a user    *)
(* who leaves and joins again has a new handle with a new channel.         *)
(***************************************************************************)
EXTENDS Naturals, Sequences, FiniteSets

CONSTANTS ClientIDs,   \* strings callers pass as client ID
          Handles,     \* *Client values the run may allocate
          Contents,    \* strings callers pass as content
          Blank,       \* a string strings.TrimSpace reduces to ""
          NoHandle,    \* absence of a map entry
          MaxSequence  \* bound on room.sequence

ASSUME RoomConstants ==
  /\ NoHandle \notin Handles
  /\ IsFiniteSet(Handles)
  /\ MaxSequence \in Nat

(* make(chan Message, 1) *)
ChannelCapacity == 1

VARIABLES
  clients,   \* Room.clients: client ID -> handle or NoHandle
  sequence,  \* Room.sequence
  chan,      \* buffered messages of each handle's channel
  status,    \* "fresh" (not allocated), "open", "closed", "drained"
  reply,     \* what the last call returned
  received,  \* history: what the reader of each handle took out, in order
  log,       \* history: contents of the messages that got a sequence number
  joinedAt,  \* history: sequence when the handle joined
  leftAt,    \* history: sequence when the handle left
  drops      \* history: DroppedClients of each of those messages

history == <<received, log, joinedAt, leftAt, drops>>
vars == <<clients, sequence, chan, status, reply, history>>

Sequenced == [sequence : Nat, content : Contents \ {Blank}]

Errors == {"nil", "ErrEmptyClientID", "ErrClientAlreadyJoined",
           "ErrClientNotFound", "ErrEmptyContent", "ErrNoClient"}

(* Domain of the range over r.clients, and the handles found in it. *)
Joined == {id \in ClientIDs : clients[id] # NoHandle}
Members == {clients[id] : id \in Joined}

(* A return with an error leaves the room as it was. *)
Fail(err) ==
  /\ reply' = [err |-> err, dropped |-> 0]
  /\ UNCHANGED <<clients, sequence, chan, status, history>>

Init ==
  /\ clients = [id \in ClientIDs |-> NoHandle]
  /\ sequence = 0
  /\ chan = [h \in Handles |-> << >>]
  /\ status = [h \in Handles |-> "fresh"]
  /\ reply = [err |-> "nil", dropped |-> 0]
  /\ received = [h \in Handles |-> << >>]
  /\ log = << >>
  /\ joinedAt = [h \in Handles |-> 0]
  /\ leftAt = [h \in Handles |-> 0]
  /\ drops = << >>
-----------------------------------------------------------------------------
Register(id, h) ==
  /\ clients' = [clients EXCEPT ![id] = h]
  /\ status' = [status EXCEPT ![h] = "open"]
  /\ joinedAt' = [joinedAt EXCEPT ![h] = sequence]
  /\ reply' = [err |-> "nil", dropped |-> 0]
  /\ UNCHANGED <<sequence, chan, received, log, leftAt, drops>>

(* Mutant: the map entry is overwritten when the ID is already taken. *)
JoinOverwrites(id, h) ==
  /\ status[h] = "fresh"
  /\ \/ id = Blank /\ Fail("ErrEmptyClientID")
     \/ id # Blank /\ Register(id, h)

Join(id, h) ==
  /\ status[h] = "fresh"
  /\ \/ id = Blank /\ Fail("ErrEmptyClientID")
     \/ id # Blank /\ id \in Joined /\ Fail("ErrClientAlreadyJoined")
     \/ id # Blank /\ id \notin Joined /\ Register(id, h)

Leave(id) ==
  \/ id \notin Joined /\ Fail("ErrClientNotFound")
  \/ /\ id \in Joined
     /\ clients' = [clients EXCEPT ![id] = NoHandle]
     /\ status' = [status EXCEPT ![clients[id]] = "closed"]
     /\ leftAt' = [leftAt EXCEPT ![clients[id]] = sequence]
     /\ reply' = [err |-> "nil", dropped |-> 0]
     /\ UNCHANGED <<sequence, chan, received, log, joinedAt, drops>>

(* Members whose channel has no space left: the default of the select. *)
Full == {h \in Members : Len(chan[h]) >= ChannelCapacity}

(* Mutant: whoever was a member once is sent to. *)
AcceptedEver ==
  {h \in Handles : status[h] # "fresh" /\ Len(chan[h]) < ChannelCapacity}

(* Members the non-blocking send reaches. *)
Accepted == Members \ Full

(* Mutant: the default of the select does nothing. *)
NoneCounted == 0

(* result.DroppedClients++ for each of them. *)
DroppedClients == Cardinality(Full)

(* Mutant: the counter is read and never advanced. *)
SameSequence == sequence

(* r.sequence++ *)
NextSequence == sequence + 1

(* A message gets its number and goes to every member that has space. *)
Send(content) ==
  /\ sequence < MaxSequence
  /\ sequence' = NextSequence
  /\ LET m == [sequence |-> NextSequence, content |-> content] IN
     chan' = [h \in Handles |->
       IF h \in Accepted THEN Append(chan[h], m) ELSE chan[h]]
  /\ reply' = [err |-> "nil", dropped |-> DroppedClients]
  /\ log' = Append(log, content)
  /\ drops' = Append(drops, DroppedClients)
  /\ UNCHANGED <<clients, status, received, joinedAt, leftAt>>

(* Mutant: blank content is sent like any other. *)
PublishBlank(content) ==
  \/ Joined = {} /\ Fail("ErrNoClient")
  \/ Joined # {} /\ Send(content)

Publish(content) ==
  \/ content = Blank /\ Fail("ErrEmptyContent")
  \/ content # Blank /\ Joined = {} /\ Fail("ErrNoClient")
  \/ content # Blank /\ Joined # {} /\ Send(content)
-----------------------------------------------------------------------------
(* <-client.Messages: a buffered message first, even after the channel was *)
(* closed; open = FALSE only from a channel that is closed and empty.      *)
Receive(h) ==
  /\ \/ /\ chan[h] # << >>
        /\ received' = [received EXCEPT ![h] = Append(@, Head(chan[h]))]
        /\ chan' = [chan EXCEPT ![h] = Tail(@)]
        /\ UNCHANGED status
     \/ /\ chan[h] = << >>
        /\ status[h] = "closed"
        /\ status' = [status EXCEPT ![h] = "drained"]
        /\ UNCHANGED <<chan, received>>
  /\ UNCHANGED <<clients, sequence, reply, log, joinedAt, leftAt, drops>>

Next ==
  \/ \E id \in ClientIDs, h \in Handles : Join(id, h)
  \/ \E id \in ClientIDs : Leave(id)
  \/ \E content \in Contents : Publish(content)
  \/ \E h \in Handles : Receive(h)

Spec == Init /\ [][Next]_vars
-----------------------------------------------------------------------------
(* Every variable keeps its type: channels are buffers of their capacity,  *)
(* and no blank content gets a number or reaches a channel.                *)
TypeOK ==
  /\ clients \in [ClientIDs -> Handles \cup {NoHandle}]
  /\ sequence \in Nat
  /\ chan \in [Handles -> Seq(Sequenced)]
  /\ \A h \in Handles : Len(chan[h]) <= ChannelCapacity
  /\ status \in [Handles -> {"fresh", "open", "closed", "drained"}]
  /\ reply \in [err : Errors, dropped : Nat]
  /\ received \in [Handles -> Seq(Sequenced)]
  /\ log \in Seq(Contents \ {Blank})
  /\ joinedAt \in [Handles -> Nat]
  /\ leftAt \in [Handles -> Nat]
  /\ drops \in Seq(Nat)

(* Publish sends to, and Leave closes, exactly the channels in the map: if *)
(* one of them were closed already the process would panic.  A channel is  *)
(* open exactly while its handle is in the map, under one client ID only,  *)
(* so a handle that lost its entry without being closed (a reader blocked  *)
(* for ever) is excluded too.                                              *)
OpenIffMember ==
  /\ \A h \in Handles : status[h] = "open" <=> h \in Members
  /\ \A i, j \in Joined : clients[i] = clients[j] => i = j

(* What a handle was or still will be handed: taken out, then buffered. *)
Stream(h) == received[h] \o chan[h]

(* The end of the stream as far as this handle is concerned. *)
End(h) == IF status[h] = "open" THEN sequence ELSE leftAt[h]

(* s is strictly increasing, within (lo, hi], and agrees with the log. *)
InOrder(s, lo, hi, entries) ==
  /\ \A i \in 1..Len(s) :
       /\ lo < s[i].sequence
       /\ s[i].sequence <= hi
       /\ s[i].content = entries[s[i].sequence]
  /\ \A i, j \in 1..Len(s) : i < j => s[i].sequence < s[j].sequence

(* Each reader's stream is strictly increasing in the room sequence, stays *)
(* within the window between Join and Leave, and carries the content that  *)
(* was published under that number, whatever the readers and a full        *)
(* channel do in between.                                                  *)
StreamInOrder ==
  \A h \in Handles : InOrder(Stream(h), joinedAt[h], End(h), log)

(* The reader of h has got, or will get, message number n. *)
Gets(h, n) == \E i \in 1..Len(Stream(h)) : Stream(h)[i].sequence = n

(* Those who were members when message n was published and never get it. *)
Missed(n) ==
  {h \in Handles : /\ status[h] # "fresh"
                   /\ joinedAt[h] < n
                   /\ n <= End(h)
                   /\ ~Gets(h, n)}

(* Nothing is lost silently: of every message ever published, as many      *)
(* members never get it as Publish reported in DroppedClients, however     *)
(* they read, leave and join again afterwards.                             *)
EveryMessageAccounted ==
  \A n \in 1..sequence : drops[n] = Cardinality(Missed(n))

(* The room implements Broadcast: a handle is a subscription, what its     *)
(* reader took out is what it was handed.                                  *)
Abstract == INSTANCE Broadcast WITH
  Readers <- Handles,
  Payloads <- Contents \ {Blank},
  published <- log,
  phase <- [h \in Handles |->
              CASE status[h] = "fresh" -> "none"
                [] status[h] = "open" -> "on"
                [] OTHER -> "off"],
  from <- joinedAt,
  to <- leftAt,
  delivered <- received

ImplementsBroadcast == Abstract!BSpec
=============================================================================
