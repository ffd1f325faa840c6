----------------------------- MODULE Broadcast -----------------------------
(***************************************************************************)
(* What a live room promises its readers, with no mention of client IDs,   *)
(* channels or locks.  There is one stream of published messages; a reader *)
(* subscribes at one point of the stream and unsubscribes at a later one,  *)
(* and is handed a subsequence of what was published in between: in        *)
(* order, never twice, never altered.  A slow reader may miss messages,    *)
(* and a reader that unsubscribed may still be handed what was published   *)
(* before it did.                                                          *)
(***************************************************************************)
EXTENDS Naturals, Sequences

CONSTANTS Readers,   \* one per subscription, never reused
          Payloads   \* what can be published

VARIABLES published, \* every message published so far, in order
          phase,     \* "none", "on" or "off" for each reader
          from,      \* length of the stream when the reader subscribed
          to,        \* length of the stream when the reader unsubscribed
          delivered  \* what each reader was handed, in order

bvars == <<published, phase, from, to, delivered>>

(* The last position of the stream a reader may be handed. *)
Limit(r) == IF phase[r] = "on" THEN Len(published) ELSE to[r]

(* Positions up to this one will never be handed to the reader (again). *)
Position(r) ==
  IF delivered[r] = << >>
  THEN from[r]
  ELSE delivered[r][Len(delivered[r])].sequence

BInit ==
  /\ published = << >>
  /\ phase = [r \in Readers |-> "none"]
  /\ from = [r \in Readers |-> 0]
  /\ to = [r \in Readers |-> 0]
  /\ delivered = [r \in Readers |-> << >>]

Subscribe(r) ==
  /\ phase[r] = "none"
  /\ phase' = [phase EXCEPT ![r] = "on"]
  /\ from' = [from EXCEPT ![r] = Len(published)]
  /\ UNCHANGED <<published, to, delivered>>

Unsubscribe(r) ==
  /\ phase[r] = "on"
  /\ phase' = [phase EXCEPT ![r] = "off"]
  /\ to' = [to EXCEPT ![r] = Len(published)]
  /\ UNCHANGED <<published, from, delivered>>

Announce(p) ==
  /\ published' = Append(published, p)
  /\ UNCHANGED <<phase, from, to, delivered>>

Deliver(r, n) ==
  /\ phase[r] # "none"
  /\ Position(r) < n
  /\ n <= Limit(r)
  /\ delivered' = [delivered EXCEPT
       ![r] = Append(@, [sequence |-> n, content |-> published[n]])]
  /\ UNCHANGED <<published, phase, from, to>>

BNext ==
  \/ \E r \in Readers : Subscribe(r) \/ Unsubscribe(r)
  \/ \E p \in Payloads : Announce(p)
  \/ \E r \in Readers, n \in 1..Len(published) : Deliver(r, n)

BSpec == BInit /\ [][BNext]_bvars
============================================================================
