---------------------------- MODULE RateLimiter ----------------------------
(***************************************************************************)
(* internal/ratelimit: a token bucket for each key, refilled lazily.       *)
(*                                                                         *)
(* Tokens and time are counted in units such that one unit of time refills *)
(* 1/Interval of a token: a bucket holds parts, Interval of which make a   *)
(* token.  The rounding of float64 is not modelled, nor the empty key: it  *)
(* is never allowed, and the handshake admits no blank user_id.            *)
(***************************************************************************)
EXTENDS Integers, Sequences

CONSTANTS Keys,      \* user_id values
          Burst,     \* burst
          Interval,  \* time in which one token is refilled
          MaxTime    \* bound on the clock

ASSUME LimiterConstants ==
  /\ Burst \in Nat \ {0}
  /\ Interval \in Nat \ {0}
  /\ MaxTime \in Nat

VARIABLES
  now,      \* the clock that Limiter.now reads
  buckets,  \* keys that have a bucket
  tokens,   \* bucket.tokens, in parts
  last,     \* bucket.last
  grants    \* history: when each key was allowed

limiterVars == <<now, buckets, tokens, last, grants>>

LimiterInit ==
  /\ now = 0
  /\ buckets = {}
  /\ tokens = [k \in Keys |-> 0]
  /\ last = [k \in Keys |-> 0]
  /\ grants = [k \in Keys |-> << >>]

(* n tokens, in parts. *)
Parts(n) == n * Interval

Full == Parts(Burst)

(* Mutant: tokens pile up while a key is silent. *)
RefilledUncapped(k) == tokens[k] + (now - last[k])

(* Mutant: only whole tokens are added, the rest of the time is forgotten. *)
RefilledWhole(k) ==
  LET t == tokens[k] + ((now - last[k]) \div Interval) * Interval
  IN  IF t < Full THEN t ELSE Full

(* The bucket after the refill, never more than the burst. *)
Refilled(k) ==
  LET t == tokens[k] + (now - last[k]) IN IF t < Full THEN t ELSE Full

(* A key seen for the first time has a full burst. *)
Level(k) == IF k \in buckets THEN Refilled(k) ELSE Full

(* Mutant: a part of a token will do. *)
AllowedOnAnyPart(k) == Level(k) > 0

(* The answer of Allow: there is a whole token. *)
Allowed(k) == Level(k) >= Interval

(* Allow under Limiter.mu; the bucket is refilled whatever the answer. *)
Allow(k) ==
  /\ buckets' = buckets \cup {k}
  /\ tokens' = [tokens EXCEPT ![k] =
                  IF Allowed(k) THEN Level(k) - Interval ELSE Level(k)]
  /\ last' = [last EXCEPT ![k] = now]
  /\ grants' = IF Allowed(k) THEN [grants EXCEPT ![k] = Append(@, now)] ELSE grants
  /\ UNCHANGED now

TimePasses ==
  /\ now < MaxTime
  /\ now' = now + 1
  /\ UNCHANGED <<buckets, tokens, last, grants>>
-----------------------------------------------------------------------------
LimiterTypeOK ==
  /\ now \in Nat
  /\ buckets \subseteq Keys
  /\ tokens \in [Keys -> 0..Full]
  /\ last \in [Keys -> 0..now]
  /\ grants \in [Keys -> Seq(Nat)]

(* What a bucket is for: whatever calls were made and refused in between,  *)
(* from any grant to any later one a key is allowed at most the burst plus *)
(* what the time between them refills (New: "tokensPerSecond ... burst").  *)
GrantsWithinRate ==
  \A k \in Keys : \A i, j \in DOMAIN grants[k] :
    i <= j => Parts(j - i + 1 - Burst) <= grants[k][j] - grants[k][i]

(* One more grant now would be too many since some earlier grant. *)
Exhausted(k) ==
  \E i \in DOMAIN grants[k] :
    Parts(Len(grants[k]) - i + 2 - Burst) > now - grants[k][i]
=============================================================================
