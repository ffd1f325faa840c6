-------------------------- MODULE WebSocketSession --------------------------
(***************************************************************************)
(* One WebSocket session after its registration: the read loop, the writer *)
(* goroutine, the heartbeat goroutine and the clean-up of the handler of   *)
(* internal/httpserver/websocket.go.                                       *)
(*                                                                         *)
(* Only the writer may write data frames.  The reader therefore hands each *)
(* error response to it over protocolErrors and waits for the outcome,     *)
(* while the room fills client.Messages, either goroutine may fail, and    *)
(* anybody may close the connection.                                       *)
(*                                                                         *)
(* A frame is abstracted to what the read loop decides about it; one that  *)
(* it publishes goes through KafkaProducer.                                *)
(***************************************************************************)
EXTENDS KafkaProducer

CONSTANTS MaxFrames,     \* bound on the frames the client sends
          MaxBroadcasts  \* bound on the messages the room publishes

ASSUME SessionConstants ==
  /\ MaxFrames \in Nat
  /\ MaxBroadcasts \in Nat

(* Responses after which the session goes on, the three codes for content  *)
(* (empty, too long, sensitive) being one here, and all responses.         *)
SemanticCodes == {"content", "message_bus_unavailable"}
Codes == SemanticCodes \cup {"invalid_json"}

VARIABLES
  reader,          \* where the read loop or its clean-up is
  response,        \* the response the reader wants written
  writer,          \* where the writer goroutine is
  writing,         \* the response the writer is writing
  protocolErrors,  \* the channel of that name, capacity 1
  done,            \* what protocolErr.done holds: "empty", "ok" or "failed"
  messages,        \* client.Messages, capacity 1
  member,          \* the client is in its room, client.Messages is open
  sock,            \* "open", "jammed" (writes fail for good) or "closed"
  beating,         \* the heartbeat goroutine runs
  frames,          \* frames read
  broadcasts,      \* messages the room published
  asked,           \* history: responses the reader decided on
  answers          \* history: responses the writer got onto the wire

channels == <<protocolErrors, done, messages>>
counters == <<frames, broadcasts>>
vars == <<reader, response, writer, writing, channels, member, sock, beating,
          counters, asked, answers, producerVars>>

Init ==
  /\ ProducerInit
  /\ reader = "reading"
  /\ response = "none"
  /\ writer = "selecting"
  /\ writing = "none"
  /\ protocolErrors = << >>
  /\ done = "empty"
  /\ messages = << >>
  /\ member = TRUE
  /\ sock = "open"
  /\ beating = TRUE
  /\ frames = 0
  /\ broadcasts = 0
  /\ asked = << >>
  /\ answers = << >>
-----------------------------------------------------------------------------
(* The read loop.                                                          *)

(* Calls queueProtocolError. *)
Ask(code) ==
  /\ reader' = "queueing"
  /\ response' = code
  /\ asked' = Append(asked, code)

(* A frame arrives: an error response, a silent drop by the rate limiter,  *)
(* the publication, or 1009 for a frame over the limit.                    *)
ReadFrame ==
  /\ reader = "reading"
  /\ sock # "closed"
  /\ frames < MaxFrames
  /\ frames' = frames + 1
  /\ \/ \E code \in Codes : Ask(code)
     \/ reader' \in {"reading", "publishing", "lingering"}
        /\ UNCHANGED <<response, asked>>
  /\ UNCHANGED <<writer, writing, channels, member, sock, beating, broadcasts,
                 answers, producerVars>>

(* Mutant: no read deadline. *)
OnlyIfClosed == sock = "closed"

(* The connection is gone, or no ping leaves any more, so that no pong     *)
(* comes back and the read deadline passes.                                *)
ReadMayFail == sock = "closed" \/ ~beating

ReadFails ==
  /\ \/ reader = "reading" /\ ReadMayFail
     \/ reader = "lingering"   \* its read deadline is writeWait
  /\ reader' = "leaving"
  /\ UNCHANGED <<response, writer, writing, channels, member, sock, beating,
                 counters, asked, answers, producerVars>>

(* messageBus.Publish with a deadline, *)
Publish ==
  /\ reader = "publishing"
  /\ reader' = "inFlight"
  /\ WriteMessages(frames)
  /\ UNCHANGED <<response, writer, writing, channels, member, sock, beating,
                 counters, asked, answers>>

(* its success, *)
Published ==
  /\ reader = "inFlight"
  /\ reader' = "reading"
  /\ Accept(frames)
  /\ UNCHANGED <<response, writer, writing, channels, member, sock, beating,
                 counters, asked, answers>>

(* and its failure: before the message is handed over, when it is given up *)
(* and when the deadline passes, whatever becomes of the message then.     *)
PublishFails ==
  /\ reader \in {"publishing", "inFlight"}
  /\ Ask("message_bus_unavailable")
  /\ UNCHANGED <<writer, writing, channels, member, sock, beating, counters,
                 answers, producerVars>>

(* Mutant: the error is handed over and not waited for. *)
HandOver == IF response = "invalid_json" THEN "leaving" ELSE "reading"

(* Where the reader goes once the writer can have its response. *)
AfterQueueing == "awaiting"

(* Mutant: the writer's end is not watched while the channel is full. *)
NeverGivesUp == FALSE

(* <-writeDone, beside both selects of queueProtocolError. *)
WriterGone == writer = "ended"

(* protocolErrors <- protocolErr, with a new done channel. *)
QueueError ==
  /\ reader = "queueing"
  /\ \/ /\ Len(protocolErrors) < 1
        /\ protocolErrors' = Append(protocolErrors, response)
        /\ done' = "empty"
        /\ reader' = AfterQueueing
     \/ /\ WriterGone
        /\ reader' = "leaving"
        /\ UNCHANGED <<protocolErrors, done>>
  /\ UNCHANGED <<response, writer, writing, messages, member, sock, beating,
                 counters, asked, answers, producerVars>>

AwaitWrite ==
  /\ reader = "awaiting"
  /\ \/ /\ done = "ok"
        /\ reader' = IF response = "invalid_json" THEN "leaving" ELSE "reading"
     \/ (done = "failed" \/ WriterGone) /\ reader' = "leaving"
  /\ UNCHANGED <<response, writer, writing, channels, member, sock, beating,
                 counters, asked, answers, producerVars>>
-----------------------------------------------------------------------------
(* The deferred clean-up.                                                  *)

(* close(heartbeatDone) and Room.Leave, which closes client.Messages.  The *)
(* heartbeat goroutine is told, and not waited for.                        *)
LeaveRoom ==
  /\ reader = "leaving"
  /\ reader' = "closing"
  /\ member' = FALSE
  /\ UNCHANGED <<response, writer, writing, channels, sock, beating, counters,
                 asked, answers, producerVars>>

CloseConn ==
  /\ reader = "closing"
  /\ reader' = "waiting"
  /\ sock' = "closed"
  /\ UNCHANGED <<response, writer, writing, channels, member, beating,
                 counters, asked, answers, producerVars>>

(* <-writeDone *)
Return ==
  /\ reader = "waiting"
  /\ WriterGone
  /\ reader' = "ended"
  /\ UNCHANGED <<response, writer, writing, channels, member, sock, beating,
                 counters, asked, answers, producerVars>>
-----------------------------------------------------------------------------
(* The writer goroutine.                                                   *)

TakeMessage ==
  /\ writer = "selecting"
  /\ \/ /\ messages # << >>
        /\ messages' = Tail(messages)
        /\ writer' = "writingMessage"
     \/ /\ messages = << >>
        /\ ~member
        /\ writer' = "ended"
        /\ UNCHANGED messages
  /\ UNCHANGED <<reader, response, writing, protocolErrors, done, member, sock,
                 beating, counters, asked, answers, producerVars>>

TakeError ==
  /\ writer = "selecting"
  /\ protocolErrors # << >>
  /\ protocolErrors' = Tail(protocolErrors)
  /\ writing' = Head(protocolErrors)
  /\ writer' = "writingError"
  /\ UNCHANGED <<reader, response, done, messages, member, sock, beating,
                 counters, asked, answers, producerVars>>

(* The write succeeds. *)
Written ==
  /\ sock = "open"
  /\ writer' = "selecting"
  /\ UNCHANGED sock

(* A failed write ends the writer; the connection never writes again. *)
WriteFailed ==
  /\ sock' = IF sock = "open" THEN "jammed" ELSE sock
  /\ writer' = "ended"

WriteMessage ==
  /\ writer = "writingMessage"
  /\ Written \/ WriteFailed
  /\ UNCHANGED <<reader, response, writing, channels, member, beating,
                 counters, asked, answers, producerVars>>

WriteError ==
  /\ writer = "writingError"
  /\ \/ Written /\ done' = "ok" /\ answers' = Append(answers, writing)
     \/ WriteFailed /\ done' = "failed" /\ UNCHANGED answers
  /\ UNCHANGED <<reader, response, writing, protocolErrors, messages, member,
                 beating, counters, asked, producerVars>>
-----------------------------------------------------------------------------
(* Heartbeat, room and peer.                                               *)

(* A ping cannot be written, because the writer held the connection for    *)
(* too long or because of an error that spoils it: the goroutine returns.  *)
PingFails ==
  /\ beating
  /\ beating' = FALSE
  /\ UNCHANGED sock \/ (sock = "open" /\ sock' = "jammed")
  /\ UNCHANGED <<reader, response, writer, writing, channels, member, counters,
                 asked, answers, producerVars>>

(* <-heartbeatDone, closed when the client left its room; the goroutine    *)
(* may be in WriteControl until then.                                      *)
HeartbeatDone ==
  /\ beating
  /\ ~member
  /\ beating' = FALSE
  /\ UNCHANGED <<reader, response, writer, writing, channels, member, sock,
                 counters, asked, answers, producerVars>>

(* Mutant: a full channel takes another message. *)
OfferAlways == Append(messages, "danmaku")

(* client.Messages after the select of Room.Publish: dropped when full. *)
Offer == IF messages = << >> THEN <<"danmaku">> ELSE messages

(* Room.Publish by the bus consumer. *)
Broadcast ==
  /\ member
  /\ broadcasts < MaxBroadcasts
  /\ broadcasts' = broadcasts + 1
  /\ messages' = Offer
  /\ UNCHANGED <<reader, response, writer, writing, protocolErrors, done,
                 member, sock, beating, frames, asked, answers, producerVars>>

(* The peer hangs up, or closeWebSockets closes the connection. *)
Disconnect ==
  /\ sock # "closed"
  /\ sock' = "closed"
  /\ UNCHANGED <<reader, response, writer, writing, channels, member, beating,
                 counters, asked, answers, producerVars>>

(* The goroutines of kafka-go. *)
Producer ==
  /\ ProducerStep(frames)
  /\ UNCHANGED <<reader, response, writer, writing, channels, member, sock,
                 beating, counters, asked, answers>>
-----------------------------------------------------------------------------
ReaderProgress ==
  \/ ReadFails
  \/ Publish
  \/ Published
  \/ PublishFails
  \/ QueueError
  \/ AwaitWrite
  \/ LeaveRoom
  \/ CloseConn
  \/ Return

HeartbeatProgress == HeartbeatDone \/ (sock # "open" /\ PingFails)

WriterProgress == TakeMessage \/ TakeError \/ WriteMessage \/ WriteError

Next ==
  \/ ReadFrame
  \/ ReaderProgress
  \/ WriterProgress
  \/ HeartbeatDone
  \/ PingFails
  \/ Broadcast
  \/ Disconnect
  \/ Producer

(* Goroutines run; Publish, every write and the read have a deadline; a    *)
(* heartbeat that cannot write notices at its next tick.  Nothing makes    *)
(* the peer send or hang up, or the room publish.                          *)
Fairness ==
  /\ WF_vars(ReaderProgress)
  /\ WF_vars(WriterProgress)
  /\ WF_vars(HeartbeatProgress)

Spec == Init /\ [][Next]_vars /\ Fairness
-----------------------------------------------------------------------------
(* Every variable keeps its type, no channel exceeds its capacity.         *)
TypeOK ==
  /\ reader \in {"reading", "lingering", "publishing", "inFlight", "queueing",
                 "awaiting", "leaving", "closing", "waiting", "ended"}
  /\ response \in Codes \cup {"none"}
  /\ writer \in {"selecting", "writingMessage", "writingError", "ended"}
  /\ writing \in Codes \cup {"none"}
  /\ protocolErrors \in Seq(Codes)
  /\ Len(protocolErrors) <= 1
  /\ done \in {"empty", "ok", "failed"}
  /\ messages \in Seq({"danmaku"})
  /\ Len(messages) <= 1
  /\ member \in BOOLEAN
  /\ sock \in {"open", "jammed", "closed"}
  /\ beating \in BOOLEAN
  /\ frames \in 0..MaxFrames
  /\ broadcasts \in Nat
  /\ asked \in Seq(Codes)
  /\ answers \in Seq(Codes)
  /\ ProducerTypeOK(1..MaxFrames)

(* queueProtocolError waits for the wire: whenever the read loop turns to  *)
(* the next frame, every response it decided on has been written, in       *)
(* order, though the writer was busy with room messages in between.        *)
AnsweredBeforeNextRead == reader = "reading" => answers = asked

(* A frame the read loop has gone past without message_bus_unavailable is   *)
(* in the topic, before everything the client sent after it, although a    *)
(* frame that was answered with the error may get there late, twice, or    *)
(* after the session; "Kafka ... keeps the order of a room's messages"     *)
(* (Publish) begins here.                                                  *)
AcceptedInOrder ==
  /\ \A f \in accepted : \E k \in DOMAIN topic : topic[k] = f
  /\ \A i \in DOMAIN topic, f \in accepted :
       f < topic[i] => \E k \in 1..(i - 1) : topic[k] = f

(* queueProtocolError always returns, also when the writer dies on a room  *)
(* message while a response waits in the channel.                          *)
ErrorsResolved ==
  reader \in {"queueing", "awaiting"} ~> reader \in {"reading", "leaving"}

(* A connection that is closed, or on which a write has failed while the   *)
(* reader still waits for the peer, loses its handler and both goroutines: *)
(* the writer, which the handler waits for, and the heartbeat, which may   *)
(* be in WriteControl when the handler returns.                            *)
SessionEnds ==
  sock # "open" ~>
    reader = "ended" /\ writer = "ended" /\ ~beating
=============================================================================
