----------------------- MODULE WebSocketSessionProofs -----------------------
(***************************************************************************)
(* WebSocketSession's safety properties for any number of frames and       *)
(* broadcasts.                                                             *)
(***************************************************************************)
EXTENDS WebSocketSession, SequenceTheorems, TLAPS

(* Nothing is on its way from the reader to the wire. *)
Idle == protocolErrors = << >> /\ writer # "writingError"

(* The reader's response is on its way: still in the channel, with the     *)
(* writer, written, or lost with the writer.                               *)
Underway ==
  \/ /\ done = "empty"
     /\ asked = Append(answers, response)
     /\ \/ protocolErrors = <<response>> /\ writer # "writingError"
        \/ protocolErrors = << >> /\ writer = "writingError" /\ writing = response
  \/ done = "ok" /\ asked = answers /\ Idle
  \/ done = "failed" /\ writer = "ended"

(* The protocol between the two goroutines. *)
Exchange ==
  /\ reader \in {"reading", "publishing", "inFlight", "lingering"} => Idle /\ asked = answers
  /\ reader = "queueing" => /\ Idle
                            /\ asked = Append(answers, response)
  /\ reader = "awaiting" => Underway
  /\ reader \in {"queueing", "awaiting"} => response \in Codes
  /\ writer = "writingError" => writing \in Codes

(* Nothing overtakes what Publish accepted: it is in the topic by then, and *)
(* nothing sent later is anywhere.                                         *)
InTopic(f) == \E k \in 1..Len(topic) : topic[k] = f

Delivered ==
  /\ reader \in {"publishing", "inFlight"} => frames \in 1..MaxFrames
  /\ \A i \in 1..Len(pending) : pending[i] <= frames
  /\ \A i \in 1..Len(topic) : topic[i] <= frames
  /\ reader = "inFlight" /\ result = "ok" => InTopic(frames)
  /\ \A f \in accepted : InTopic(f)
  /\ \A i \in 1..Len(topic), f \in accepted :
       f < topic[i] => \E k \in 1..(i - 1) : topic[k] = f

(* The inductive invariant. *)
IInv == TypeOK /\ Exchange /\ Delivered

(* Append keeps a sequence over S a sequence over S. *)
LEMMA AppendType ==
  ASSUME NEW S, NEW s \in Seq(S), NEW e \in S
  PROVE  Append(s, e) \in Seq(S)
  OBVIOUS

(* The select of Room.Publish leaves at most one message in the channel. *)
LEMMA OneMessage ==
  /\ <<"danmaku">> \in Seq({"danmaku"})
  /\ Len(<<"danmaku">>) = 1
  OBVIOUS

(* What a batch of the Writer holds, and what it leaves. *)
LEMMA BatchFacts ==
  ASSUME NEW S, pending \in Seq(S), NEW n \in 1..Len(pending)
  PROVE  /\ Batch(n) \in Seq(S) /\ Len(Batch(n)) = n
         /\ \A i \in 1..n : Batch(n)[i] = pending[i]
         /\ Rest(n) \in Seq(S)
         /\ \A i \in 1..Len(Rest(n)) : \E j \in 1..Len(pending) : Rest(n)[i] = pending[j]
<1>1. Len(pending) \in Nat /\ \A i \in 1..Len(pending) : pending[i] \in S
  OBVIOUS
<1>2. Batch(n) \in Seq(S) /\ Len(Batch(n)) = n /\ \A i \in 1..n : Batch(n)[i] = pending[i]
  BY <1>1 DEF Batch
<1>3. /\ Rest(n) \in Seq(S) /\ Len(Rest(n)) = Len(pending) - n
      /\ \A i \in 1..(Len(pending) - n) : Rest(n)[i] = pending[n + i]
  BY <1>1 DEF Rest
<1>4. \A i \in 1..(Len(pending) - n) : n + i \in 1..Len(pending)
  BY <1>1
<1> QED BY <1>2, <1>3, <1>4

(* Every step keeps every variable in its type. *)
LEMMA TypeStep == TypeOK /\ Exchange /\ Delivered /\ [Next]_vars => TypeOK'
<1> SUFFICES ASSUME TypeOK, Exchange, Delivered, [Next]_vars PROVE TypeOK'
  OBVIOUS
<1> USE DEF TypeOK, channels, counters, producerVars, ProducerTypeOK
<1>0. SemanticCodes \subseteq Codes /\ {"invalid_json", "message_bus_unavailable"} \subseteq Codes
  BY DEF Codes, SemanticCodes
<1>1. CASE ReadFrame
  <2>1. asked' \in Seq(Codes) /\ response' \in Codes \cup {"none"}
    <3>1. CASE UNCHANGED <<response, asked>>
      BY <3>1
    <3>2. CASE \E code \in Codes : Ask(code)
      <4>1. PICK code \in Codes : Ask(code)
        BY <3>2
      <4>2. Append(asked, code) \in Seq(Codes)
        BY AppendType
      <4> QED
        BY <4>1, <4>2 DEF Ask
    <3> QED
      BY <1>1, <3>1, <3>2 DEF ReadFrame
  <2>2. reader' \in {"reading", "publishing", "lingering", "queueing"}
    BY <1>1 DEF ReadFrame, Ask
  <2>3. frames' \in 0..MaxFrames
    BY <1>1, SessionConstants DEF ReadFrame
  <2> QED
    BY <1>1, <2>1, <2>2, <2>3 DEF ReadFrame
<1>2. CASE ReadFails
  BY <1>2 DEF ReadFails
<1>3. CASE PublishFails
  <2>0. Append(asked, "message_bus_unavailable") \in Seq(Codes)
    BY <1>0, AppendType
  <2>1. asked' \in Seq(Codes) /\ response' \in Codes \cup {"none"}
    BY <1>0, <1>3, <2>0 DEF PublishFails, Ask
  <2>2. reader' = "queueing"
    BY <1>3 DEF PublishFails, Ask
  <2> QED
    BY <1>3, <2>1, <2>2 DEF PublishFails
<1>4. CASE QueueError
  BY <1>4 DEF QueueError, AfterQueueing, Exchange
<1>5. CASE AwaitWrite
  BY <1>5 DEF AwaitWrite
<1>6. CASE LeaveRoom
  BY <1>6 DEF LeaveRoom
<1>7. CASE CloseConn
  BY <1>7 DEF CloseConn
<1>8. CASE Return
  BY <1>8 DEF Return
<1>9. CASE TakeMessage
  BY <1>9 DEF TakeMessage
<1>10. CASE TakeError
  BY <1>10 DEF TakeError
<1>11. CASE WriteMessage
  BY <1>11 DEF WriteMessage, Written, WriteFailed
<1>12. CASE WriteError
  <2>0. Append(answers, writing) \in Seq(Codes)
    BY <1>12, AppendType DEF WriteError, Exchange
  <2>1. answers' \in Seq(Codes)
    BY <1>12, <2>0 DEF WriteError
  <2>2. /\ writer' \in {"selecting", "ended"}
        /\ done' \in {"ok", "failed"}
        /\ sock' \in {"open", "jammed", "closed"}
    BY <1>12 DEF WriteError, Written, WriteFailed
  <2> QED
    BY <1>12, <2>1, <2>2 DEF WriteError
<1>13. CASE PingFails \/ HeartbeatDone
  <2>1. beating' \in BOOLEAN /\ sock' \in {"open", "jammed", "closed"}
    BY <1>13 DEF PingFails, HeartbeatDone
  <2> QED
    BY <1>13, <2>1 DEF PingFails, HeartbeatDone
<1>14. CASE Broadcast
  <2>1. messages' = messages \/ messages' = <<"danmaku">>
    BY <1>14 DEF Broadcast, Offer
  <2>2. broadcasts' \in Nat
    BY <1>14 DEF Broadcast
  <2>3. messages' \in Seq({"danmaku"}) /\ Len(messages') <= 1
    <3>1. CASE messages' = messages
      BY <3>1
    <3>2. CASE messages' = <<"danmaku">>
      <4> DEFINE m == messages'
      <4>1. m \in Seq({"danmaku"}) /\ Len(m) = 1
        BY <3>2, OneMessage, Zenon
      <4>2. 1 <= 1
        OBVIOUS
      <4> QED
        BY <4>1, <4>2, Zenon
    <3> QED
      BY <2>1, <3>1, <3>2
  <2> QED
    BY <1>14, <2>2, <2>3 DEF Broadcast
<1>15. CASE Disconnect
  BY <1>15 DEF Disconnect
<1>16. CASE UNCHANGED vars
  BY <1>16 DEF vars
<1>17. CASE Publish
  <2>1. Append(pending, frames) \in Seq(1..MaxFrames)
    BY <1>17, AppendType DEF Publish, Delivered
  <2> QED
    BY <1>17, <2>1 DEF Publish, WriteMessages
<1>18. CASE Published
  BY <1>18 DEF Published, Accept, Delivered
<1>19. CASE Producer
  <2>1. PICK n \in 1..Len(pending) :
          AppendAnswered(n, frames) \/ AppendUnanswered(n) \/ GiveUp(n, frames)
    BY <1>19 DEF Producer, ProducerStep
  <2>2. topic \o Batch(n) \in Seq(1..MaxFrames) /\ Rest(n) \in Seq(1..MaxFrames)
    BY BatchFacts, ConcatProperties
  <2>3. /\ pending' \in Seq(1..MaxFrames) /\ topic' \in Seq(1..MaxFrames)
        /\ result' \in {"none", "ok", "failed"} /\ accepted' = accepted
    BY <2>1, <2>2 DEF AppendAnswered, AppendUnanswered, GiveUp, Conclude
  <2> QED
    BY <1>19, <2>3 DEF Producer
<1> QED
  BY <1>1, <1>2, <1>3, <1>4, <1>5, <1>6, <1>7, <1>8, <1>9, <1>10, <1>11,
     <1>12, <1>13, <1>14, <1>15, <1>16, <1>17, <1>18, <1>19
  DEF Next, ReaderProgress, WriterProgress

(* Every step keeps the protocol between reader and writer. *)
LEMMA ExchangeStep == TypeOK /\ Exchange /\ [Next]_vars => Exchange'
<1> SUFFICES ASSUME TypeOK, Exchange, [Next]_vars PROVE Exchange'
  OBVIOUS
<1> USE DEF Exchange, Underway, Idle, channels, counters
<1>0. SemanticCodes \subseteq Codes /\ {"invalid_json", "message_bus_unavailable"} \subseteq Codes
  BY DEF Codes, SemanticCodes
<1>1. CASE ReadFrame
  BY <1>0, <1>1 DEF ReadFrame, Ask
<1>2. CASE ReadFails
  BY <1>2 DEF ReadFails
<1>3. CASE Publish \/ Published \/ PublishFails
  BY <1>0, <1>3 DEF Publish, Published, PublishFails, Ask
<1>4. CASE QueueError
  <2>1. Append(<< >>, response) = <<response>>
    OBVIOUS
  <2> QED
    BY <1>4, <2>1 DEF QueueError, AfterQueueing
<1>5. CASE AwaitWrite
  BY <1>5 DEF AwaitWrite, WriterGone
<1>6. CASE LeaveRoom
  BY <1>6 DEF LeaveRoom
<1>7. CASE CloseConn
  BY <1>7 DEF CloseConn
<1>8. CASE Return
  BY <1>8 DEF Return
<1>9. CASE TakeMessage
  BY <1>9 DEF TakeMessage
<1>10. CASE TakeError
  <2>1. Head(<<response>>) = response /\ Tail(<<response>>) = << >>
    OBVIOUS
  <2>2. Head(protocolErrors) \in Codes
    BY <1>10 DEF TakeError, TypeOK
  <2> QED
    BY <1>10, <2>1, <2>2 DEF TakeError
<1>11. CASE WriteMessage
  BY <1>11 DEF WriteMessage, Written, WriteFailed
<1>12. CASE WriteError
  BY <1>12 DEF WriteError, Written, WriteFailed
<1>13. CASE PingFails \/ HeartbeatDone
  BY <1>13 DEF PingFails, HeartbeatDone
<1>14. CASE Broadcast
  BY <1>14 DEF Broadcast
<1>15. CASE Disconnect
  BY <1>15 DEF Disconnect
<1>16. CASE Producer \/ UNCHANGED vars
  BY <1>16 DEF Producer, vars
<1> QED
  BY <1>1, <1>2, <1>3, <1>4, <1>5, <1>6, <1>7, <1>8, <1>9, <1>10, <1>11,
     <1>12, <1>13, <1>14, <1>15, <1>16
  DEF Next, ReaderProgress, WriterProgress

(* Whatever becomes of the frames that were refused, those accepted stay in *)
(* the topic and ahead.                                                    *)
LEMMA DeliveredStep == TypeOK /\ Delivered /\ [Next]_vars => Delivered'
<1> SUFFICES ASSUME TypeOK, Delivered, [Next]_vars PROVE Delivered'
  OBVIOUS
<1>0. /\ pending \in Seq(1..MaxFrames) /\ topic \in Seq(1..MaxFrames)
      /\ accepted \subseteq 1..MaxFrames /\ frames \in 0..MaxFrames /\ MaxFrames \in Nat
      /\ Len(pending) \in Nat /\ Len(topic) \in Nat
      /\ \A i \in 1..Len(pending) : pending[i] \in Nat
      /\ \A i \in 1..Len(topic) : topic[i] \in Nat
  BY SessionConstants DEF TypeOK, ProducerTypeOK
<1>1. CASE ReadFrame
  <2>1. frames' \in 1..MaxFrames /\ frames <= frames' /\ reader' # "inFlight"
        /\ UNCHANGED <<pending, topic, result, accepted>>
    BY <1>0, <1>1 DEF ReadFrame, Ask, producerVars
  <2>2. /\ \A i \in 1..Len(pending) : pending[i] <= frames'
        /\ \A i \in 1..Len(topic) : topic[i] <= frames'
    BY <1>0, <2>1 DEF Delivered
  <2> QED BY <2>1, <2>2 DEF Delivered, InTopic
<1>2. CASE Publish
  <2>1. frames \in 1..MaxFrames /\ pending' = Append(pending, frames) /\ result' = "none"
        /\ UNCHANGED <<frames, topic, accepted>>
    BY <1>2 DEF Publish, WriteMessages, Delivered, counters
  <2>2. \A i \in 1..Len(pending') : pending'[i] <= frames
    <3>1. /\ Len(pending') = Len(pending) + 1 /\ pending'[Len(pending) + 1] = frames
          /\ \A i \in 1..Len(pending) : pending'[i] = pending[i]
      BY <1>0, <2>1, AppendProperties
    <3> QED BY <1>0, <2>1, <3>1 DEF Delivered
  <2> QED BY <2>1, <2>2 DEF Delivered, InTopic
<1>3. CASE Published
  <2>1. /\ reader = "inFlight" /\ result = "ok" /\ reader' = "reading"
        /\ accepted' = accepted \cup {frames}
        /\ UNCHANGED <<frames, pending, topic, result>>
    BY <1>3 DEF Published, Accept, Succeeded, counters
  <2>2. \A i \in 1..Len(topic) : ~(frames < topic[i])
    BY <1>0 DEF Delivered
  <2> QED BY <2>1, <2>2 DEF Delivered, InTopic
<1>4. CASE Producer
  <2>1. PICK n \in 1..Len(pending) :
          AppendAnswered(n, frames) \/ AppendUnanswered(n) \/ GiveUp(n, frames)
    BY <1>4 DEF Producer, ProducerStep
  <2>2. reader' = reader /\ frames' = frames /\ accepted' = accepted
    BY <1>4, <2>1 DEF Producer, counters, AppendAnswered, AppendUnanswered, GiveUp
  <2>3. /\ Batch(n) \in Seq(1..MaxFrames) /\ Len(Batch(n)) = n
        /\ \A i \in 1..n : Batch(n)[i] = pending[i]
        /\ \A i \in 1..Len(Rest(n)) : \E j \in 1..Len(pending) : Rest(n)[i] = pending[j]
    BY <1>0, BatchFacts
  <2>4. \A i \in 1..Len(pending') : pending'[i] <= frames
    <3>1. pending' = pending \/ pending' = Rest(n)
      BY <2>1 DEF AppendAnswered, AppendUnanswered, GiveUp
    <3> QED BY <2>3, <3>1 DEF Delivered
  <2>5. CASE GiveUp(n, frames)
    <3>1. topic' = topic /\ result' \in {result, "failed"}
      BY <2>5 DEF GiveUp, Conclude
    <3> QED BY <2>2, <2>4, <3>1 DEF Delivered, InTopic
  <2>6. CASE topic' = topic \o Batch(n)
    <3>0. PICK l \in Nat, t \in Seq(1..MaxFrames) :
            l = Len(topic) /\ t = topic' /\ t = topic \o Batch(n)
      BY <1>0, <2>3, <2>6, ConcatProperties
    <3>1. Len(t) = l + n /\ \A i \in 1..(l + n) :
            t[i] = IF i <= l THEN topic[i] ELSE Batch(n)[i - l]
      <4>1. /\ Len(topic \o Batch(n)) = Len(topic) + Len(Batch(n))
            /\ \A i \in 1..(Len(topic) + Len(Batch(n))) :
                 (topic \o Batch(n))[i] =
                   IF i <= Len(topic) THEN topic[i] ELSE Batch(n)[i - Len(topic)]
        BY <1>0, <2>3, ConcatProperties
      <4> QED BY <2>3, <3>0, <4>1
    <3>2. /\ \A i \in 1..l : i \in 1..(l + n) /\ t[i] = topic[i]
          /\ \A i \in 1..n : l + i \in 1..(l + n) /\ t[l + i] = pending[i]
      <4>1. \A i \in 1..l : i \in 1..(l + n) /\ t[i] = topic[i]
        BY <3>1
      <4>2. ASSUME NEW i \in 1..n PROVE l + i \in 1..(l + n) /\ t[l + i] = pending[i]
        <5>1. l + i \in 1..(l + n) /\ ~(l + i <= l) /\ (l + i) - l = i
          OBVIOUS
        <5> QED BY <2>3, <3>1, <5>1
      <4> QED BY <4>1, <4>2
    <3>3. \A i \in 1..(l + n) : i \in 1..l \/ \E j \in 1..n : i = l + j
      <4> SUFFICES ASSUME NEW i \in 1..(l + n), i \notin 1..l
                   PROVE  \E j \in 1..n : i = l + j
        OBVIOUS
      <4>1. i - l \in 1..n /\ i = l + (i - l)
        OBVIOUS
      <4> QED BY <4>1
    <3>4. \A i \in 1..(l + n) : t[i] <= frames
      <4>1. \A i \in 1..l : t[i] <= frames
        BY <3>0, <3>2 DEF Delivered
      <4>2. \A j \in 1..n : j \in 1..Len(pending)
        BY <1>0
      <4>3. \A j \in 1..n : t[l + j] <= frames
        BY <3>2, <4>2 DEF Delivered
      <4> QED BY <3>3, <4>1, <4>3
    <3>5. \A f : InTopic(f) => \E k \in 1..(l + n) : t[k] = f
      BY <3>0, <3>2 DEF InTopic
    <3>6. reader = "inFlight" /\ result' = "ok" => \E k \in 1..(l + n) : t[k] = frames
      <4> SUFFICES ASSUME reader = "inFlight", result' = "ok"
                   PROVE  \E k \in 1..(l + n) : t[k] = frames
        OBVIOUS
      <4>1. CASE result = "ok"
        BY <3>5, <4>1 DEF Delivered
      <4>2. CASE \E i \in 1..n : pending[i] = frames
        BY <3>2, <4>2
      <4>3. result = "ok" \/ \E i \in 1..n : pending[i] = frames
        BY <2>1 DEF AppendAnswered, AppendUnanswered, GiveUp, Conclude
      <4> QED BY <4>1, <4>2, <4>3
    <3>7. ASSUME NEW i \in 1..(l + n), NEW f \in accepted, f < t[i]
          PROVE  \E k \in 1..(i - 1) : t[k] = f
      <4>1. CASE i \in 1..l
        <5>1. PICK k \in 1..(i - 1) : topic[k] = f
          BY <3>0, <3>2, <3>7, <4>1 DEF Delivered
        <5>2. k \in 1..l
          BY <4>1
        <5> QED BY <3>2, <5>1, <5>2
      <4>2. CASE i \notin 1..l
        <5>1. PICK k \in 1..l : topic[k] = f
          BY <3>0 DEF Delivered, InTopic
        <5>2. k \in 1..(i - 1)
          BY <4>2
        <5> QED BY <3>2, <5>1, <5>2
      <4> QED BY <4>1, <4>2
    <3>8. /\ \A i \in 1..Len(topic') : topic'[i] <= frames
          /\ reader = "inFlight" /\ result' = "ok" => InTopic(frames)'
          /\ \A f \in accepted : \E k \in 1..Len(topic') : topic'[k] = f
          /\ \A i \in 1..Len(topic'), f \in accepted :
               f < topic'[i] => \E k \in 1..(i - 1) : topic'[k] = f
      <4>1. topic' = t /\ Len(t) = l + n
        BY <3>0, <3>1
      <4>2. \A f \in accepted : \E k \in 1..(l + n) : t[k] = f
        BY <3>5 DEF Delivered
      <4> QED BY <2>2, <3>4, <3>6, <3>7, <4>1, <4>2 DEF InTopic
    <3> QED BY <2>2, <2>4, <3>8 DEF Delivered, InTopic
  <2> QED BY <2>1, <2>5, <2>6 DEF AppendAnswered, AppendUnanswered, GiveUp
<1>5. CASE PublishFails
  BY <1>5 DEF PublishFails, Ask, Delivered, InTopic, producerVars, counters
<1>6. CASE \/ ReadFails \/ QueueError \/ AwaitWrite \/ LeaveRoom \/ CloseConn \/ Return
           \/ WriterProgress \/ PingFails \/ HeartbeatDone \/ Broadcast \/ Disconnect
           \/ UNCHANGED vars
  <2>1. /\ UNCHANGED <<frames, pending, topic, result, accepted>>
        /\ reader' = reader \/ reader' \notin {"publishing", "inFlight"}
    BY <1>6 DEF ReadFails, QueueError, AfterQueueing, AwaitWrite, LeaveRoom, CloseConn,
                Return, WriterProgress, TakeMessage, TakeError, WriteMessage, WriteError,
                PingFails, HeartbeatDone, Broadcast, Disconnect, vars, producerVars, counters
  <2> QED BY <2>1 DEF Delivered, InTopic
<1> QED BY <1>1, <1>2, <1>3, <1>4, <1>5, <1>6 DEF Next, ReaderProgress

(* The inductive invariant holds in every reachable state: a response of   *)
(* queueProtocolError is in exactly one place between the goroutines.      *)
THEOREM SessionInvariant == Spec => []IInv
<1>1. Init => IInv
  BY SessionConstants
     DEF Init, IInv, TypeOK, Exchange, Idle, Underway, Delivered,
         ProducerInit, ProducerTypeOK
<1>2. IInv /\ [Next]_vars => IInv'
  BY TypeStep, ExchangeStep, DeliveredStep DEF IInv
<1> QED
  BY <1>1, <1>2, PTL DEF Spec

(* The channels of websocket.go keep within their capacity of one. *)
THEOREM SessionType == Spec => []TypeOK
<1>1. IInv => TypeOK
  BY DEF IInv
<1> QED
  BY <1>1, SessionInvariant, PTL

(* The read loop turns to the next frame only when every response it       *)
(* decided on is on the wire.                                              *)
THEOREM SessionAnswers == Spec => []AnsweredBeforeNextRead
<1>1. IInv => AnsweredBeforeNextRead
  BY DEF IInv, Exchange, AnsweredBeforeNextRead
<1> QED
  BY <1>1, SessionInvariant, PTL

(* What Publish accepted is in the topic and never overtaken. *)
THEOREM SessionAccepted == Spec => []AcceptedInOrder
<1>1. IInv => AcceptedInOrder
  <2> SUFFICES ASSUME IInv PROVE AcceptedInOrder
    OBVIOUS
  <2>1. DOMAIN topic = 1..Len(topic)
    BY DEF IInv, TypeOK, ProducerTypeOK
  <2> QED BY <2>1 DEF IInv, Delivered, InTopic, AcceptedInOrder
<1> QED
  BY <1>1, SessionInvariant, PTL
=============================================================================
