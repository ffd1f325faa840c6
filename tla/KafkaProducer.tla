--------------------------- MODULE KafkaProducer ---------------------------
(***************************************************************************)
(* The messages of one session on their way into Kafka: KafkaBus.Publish,  *)
(* as the session calls it, and the kafka-go Writer behind it.  The key of *)
(* a message is its room, so that they all go to one partition; those of   *)
(* other sessions in between are left out.  A message is the number of its *)
(* frame.                                                                  *)
(*                                                                         *)
(* The Writer sends batches in order and tries one again when the leader   *)
(* did not answer, whether or not it has appended it (RequireOne); a       *)
(* leader that loses what it has acknowledged is not modelled.             *)
(***************************************************************************)
EXTENDS Naturals, Sequences

CONSTANT MaxTopic  \* bound on the length at which appends are still repeated

ASSUME ProducerConstants == MaxTopic \in Nat

VARIABLES
  pending,   \* handed to the Writer, neither acknowledged nor given up
  topic,     \* the partition
  result,    \* of the last WriteMessages: "none", "ok" or "failed"
  accepted   \* history: messages for which Publish returned nil

producerVars == <<pending, topic, result, accepted>>

ProducerInit ==
  /\ pending = << >>
  /\ topic = << >>
  /\ result = "none"
  /\ accepted = {}

(* Publish: encodes the message and calls WriteMessages, which waits. *)
WriteMessages(f) ==
  /\ pending' = Append(pending, f)
  /\ result' = "none"
  /\ UNCHANGED <<topic, accepted>>

(* Mutant: an error of Publish is not told from success. *)
WhateverHappened == TRUE

(* WriteMessages returns nil. *)
Succeeded == result = "ok"

(* Publish returns nil for f. *)
Accept(f) ==
  /\ Succeeded
  /\ accepted' = accepted \cup {f}
  /\ UNCHANGED <<pending, topic, result>>

(* The first n pending messages, and those behind them. *)
Batch(n) == SubSeq(pending, 1, n)
Rest(n) == SubSeq(pending, n + 1, Len(pending))

(* A call that waits for f learns how its batch ended. *)
Conclude(n, f, r) ==
  result' = IF \E i \in 1..n : pending[i] = f THEN r ELSE result

(* The leader appends a batch and its answer arrives, *)
AppendAnswered(n, f) ==
  /\ topic' = topic \o Batch(n)
  /\ pending' = Rest(n)
  /\ Conclude(n, f, "ok")
  /\ UNCHANGED accepted

(* its answer is lost and the batch will be sent again, *)
AppendUnanswered(n) ==
  /\ Len(topic) + n <= MaxTopic
  /\ topic' = topic \o Batch(n)
  /\ UNCHANGED <<pending, result, accepted>>

(* or the last attempt has failed. *)
GiveUp(n, f) ==
  /\ pending' = Rest(n)
  /\ Conclude(n, f, "failed")
  /\ UNCHANGED <<topic, accepted>>

ProducerStep(f) ==
  \E n \in 1..Len(pending) : AppendAnswered(n, f) \/ AppendUnanswered(n) \/ GiveUp(n, f)
-----------------------------------------------------------------------------
ProducerTypeOK(F) ==
  /\ pending \in Seq(F)
  /\ topic \in Seq(F)
  /\ result \in {"none", "ok", "failed"}
  /\ accepted \subseteq F
=============================================================================
