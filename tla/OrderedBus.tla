----------------------------- MODULE OrderedBus -----------------------------
(***************************************************************************)
(* What the gateway relies on behind the interface Bus of                  *)
(* internal/bus/bus.go when the bus is Kafka: Publish appends a danmaku to *)
(* a lane, a partition of the topic, and Consume hands the danmaku of a    *)
(* lane to the handler in the order in which they were published, leaving  *)
(* out none but those that are not valid.  Handing one over again changes  *)
(* nothing here: the promise is at least once.                             *)
(***************************************************************************)
EXTENDS Naturals, Sequences

CONSTANTS Lanes,     \* messages of one lane are ordered among themselves
          Payloads,  \* what can be in a lane
          Valid      \* the payloads that reach the handler

VARIABLES queued,    \* what was ever published, per lane
          handed     \* offsets the handler is done with, per lane

lanes == <<queued, handed>>

(* The bus may hold messages from before the process came up. *)
LanesInit ==
  /\ queued \in [Lanes -> Seq(Payloads)]
  /\ handed = [l \in Lanes |-> {}]

(* Publish, from this process or any other. *)
Offer(l, m) ==
  /\ queued' = [queued EXCEPT ![l] = Append(@, m)]
  /\ UNCHANGED handed

(* Consume calls its handler. *)
Hand(l, o) ==
  /\ queued[l][o + 1] \in Valid
  /\ \A q \in 0..(o - 1) : queued[l][q + 1] \in Valid => q \in handed[l]
  /\ handed' = [handed EXCEPT ![l] = @ \cup {o}]
  /\ UNCHANGED queued

LanesNext ==
  \/ \E l \in Lanes, m \in Payloads : Offer(l, m)
  \/ \E l \in Lanes : \E o \in 0..(Len(queued[l]) - 1) : Hand(l, o)

OrderedSpec == LanesInit /\ [][LanesNext]_lanes
=============================================================================
