------------------------- MODULE LocalGatewayProofs -------------------------
(***************************************************************************)
(* The local gateway for any users, connections, supervisors, burst, rate  *)
(* and buffer size.  Two invariants that know nothing of each other: the   *)
(* level of a bucket is the least that any window leaves (Tight), and the  *)
(* messages are divided between the handled, the one in hand and the       *)
(* queue (InHand).                                                         *)
(***************************************************************************)
EXTENDS LocalGateway, SequenceTheorems, TLAPS

(* What the window that begins with the i-th of the grants g leaves at t. *)
Leaves(g, i, t) == Full + (t - g[i]) - Parts(Len(g) - i + 1)

(* The bucket of k is as full as the strictest window permits. *)
TightOf(k) ==
  /\ k \notin buckets => grants[k] = << >>
  /\ \A i \in 1..Len(grants[k]) : grants[k][i] <= last[k]
  /\ \A i \in 1..Len(grants[k]) : tokens[k] <= Leaves(grants[k], i, last[k])
  /\ k \in buckets =>
       \/ tokens[k] = Full
       \/ \E i \in 1..Len(grants[k]) : tokens[k] = Leaves(grants[k], i, last[k])

Tight == \A k \in Keys : TightOf(k)

LInv == LimiterTypeOK /\ Tight /\ GrantsWithinRate

(* The only arithmetic that is not linear: parts of several tokens. *)
LEMMA FullFacts ==
  /\ Interval \in Nat /\ Interval >= 1 /\ Burst \in Nat
  /\ Full \in Nat /\ Full >= Interval
  /\ Parts(1) = Interval
<1>1. Burst \in Nat /\ Burst >= 1 /\ Interval \in Nat /\ Interval >= 1
  BY LimiterConstants
<1>2. Burst * Interval \in Nat /\ 1 * Interval = Interval
  BY <1>1
<1>3. Burst * Interval >= Interval
  <2>1. Burst * Interval = (Burst - 1) * Interval + Interval
    BY <1>1
  <2>2. \A m, n \in Nat : m * n \in Nat
    OBVIOUS
  <2>3. Burst - 1 \in Nat
    BY <1>1
  <2> QED BY <1>1, <2>1, <2>2, <2>3
<1> QED BY <1>1, <1>2, <1>3 DEF Full, Parts

LEMMA PartsFacts ==
  ASSUME NEW a \in Int
  PROVE  /\ Parts(a) \in Int
         /\ Parts(a + 1) = Parts(a) + Interval
         /\ Parts(a - Burst) = Parts(a) - Full
<1>1. Burst \in Nat /\ Interval \in Nat
  BY LimiterConstants
<1>2. (a - Burst) * Interval = a * Interval - Burst * Interval
  BY <1>1
<1>3. (a + 1) * Interval = a * Interval + Interval
  BY <1>1
<1>4. a * Interval \in Int
  BY <1>1
<1> QED BY <1>1, <1>2, <1>3, <1>4 DEF Full, Parts

(* A window leaves a unit more for every unit of time, and a token less    *)
(* for a grant; the window that begins with the grant leaves the rest.     *)
LEMMA LeavesFacts ==
  ASSUME NEW g \in Seq(Nat), NEW t \in Nat
  PROVE  /\ \A i \in 1..Len(g) :
              /\ Leaves(g, i, t) \in Int
              /\ \A u \in Nat : Leaves(g, i, u) = Leaves(g, i, t) + (u - t)
              /\ Leaves(Append(g, t), i, t) = Leaves(g, i, t) - Interval
              /\ Leaves(g, i, t) >= Interval =>
                   Parts(Len(g) - i + 2 - Burst) <= t - g[i]
              /\ Leaves(g, i, t) < Interval =>
                   Parts(Len(g) - i + 2 - Burst) > t - g[i]
         /\ Leaves(Append(g, t), Len(g) + 1, t) = Full - Interval
<1> DEFINE n == Len(g)
           h == Append(g, t)
<1>1. n \in Nat /\ Len(h) = n + 1 /\ h[n + 1] = t
      /\ \A i \in 1..n : h[i] = g[i] /\ g[i] \in Nat
  BY AppendProperties
<1> HIDE DEF h, n
<1>2. ASSUME NEW i \in 1..n
      PROVE  /\ Leaves(g, i, t) \in Int
             /\ \A u \in Nat : Leaves(g, i, u) = Leaves(g, i, t) + (u - t)
             /\ Leaves(h, i, t) = Leaves(g, i, t) - Interval
             /\ Leaves(g, i, t) >= Interval => Parts(n - i + 2 - Burst) <= t - g[i]
             /\ Leaves(g, i, t) < Interval => Parts(n - i + 2 - Burst) > t - g[i]
  <2>1. PICK a \in Int : a = n - i + 1
    BY <1>1
  <2>2. n + 1 - i + 1 = a + 1 /\ n - i + 2 - Burst = (a + 1) - Burst /\ a + 1 \in Int
    BY <1>1, <2>1, FullFacts
  <2>3. /\ Parts(a) \in Int
        /\ Parts(a + 1) = Parts(a) + Interval
        /\ Parts((a + 1) - Burst) = Parts(a + 1) - Full
    BY <2>2, PartsFacts
  <2>4. \A u \in Nat : Leaves(g, i, u) = Full + (u - g[i]) - Parts(a)
    BY <2>1 DEF Leaves, n
  <2>5. Leaves(h, i, t) = Full + (t - g[i]) - Parts(a + 1)
    BY <1>1, <2>2 DEF Leaves
  <2>6. g[i] \in Nat
    BY <1>1
  <2>7. PICK b \in Int : b = Parts(a)
    BY <2>3
  <2>8. Parts(a + 1) = b + Interval /\ Parts(n - i + 2 - Burst) = b + Interval - Full
    <3>1. Parts((a + 1) - Burst) = b + Interval - Full
      BY <2>3, <2>7, FullFacts
    <3> QED BY <2>2, <2>3, <2>7, <3>1
  <2>9. PICK q \in Nat, f \in Nat, v \in Nat : q = g[i] /\ f = Full /\ v = Interval
    BY <2>6, FullFacts
  <2>10. /\ \A u \in Nat : Leaves(g, i, u) = f + (u - q) - b
         /\ Leaves(h, i, t) = f + (t - q) - (b + v)
    BY <2>4, <2>5, <2>7, <2>8, <2>9
  <2>11. Leaves(g, i, t) = f + (t - q) - b
    BY <2>10
  <2>12. \A u \in Nat : f + (u - q) - b = (f + (t - q) - b) + (u - t)
    OBVIOUS
  <2>13. \A u \in Nat : Leaves(g, i, u) = Leaves(g, i, t) + (u - t)
    BY <2>10, <2>11, <2>12
  <2>14. Leaves(g, i, t) \in Int /\ Leaves(h, i, t) = Leaves(g, i, t) - Interval
    <3>1. Leaves(h, i, t) = f + (t - q) - (b + v)
      BY <2>10
    <3>2. f + (t - q) - (b + v) = (f + (t - q) - b) - v /\ f + (t - q) - b \in Int
      OBVIOUS
    <3> QED BY <2>9, <2>11, <3>1, <3>2
  <2>15. /\ Leaves(g, i, t) >= v => b + v - f <= t - q
         /\ Leaves(g, i, t) < v => b + v - f > t - q
    BY <2>11
  <2> QED BY <2>8, <2>9, <2>13, <2>14, <2>15
<1>3. Leaves(h, n + 1, t) = Full - Interval
  <2>1. n + 1 - (n + 1) + 1 = 1
    BY <1>1
  <2>2. Leaves(h, n + 1, t) = Full + (t - t) - Parts(1)
    BY <1>1, <2>1 DEF Leaves
  <2> QED BY <2>2, FullFacts
<1> QED BY <1>2, <1>3 DEF h, n

(* The level that Allow finds is what the strictest window leaves now. *)
LEMMA LevelFacts ==
  ASSUME LInv, NEW k \in Keys
  PROVE  /\ Level(k) \in 0..Full
         /\ \A i \in 1..Len(grants[k]) : Level(k) <= Leaves(grants[k], i, now)
         /\ \/ Level(k) = Full
            \/ \E i \in 1..Len(grants[k]) : Level(k) = Leaves(grants[k], i, now)
<1>1. /\ now \in Nat /\ last[k] \in 0..now /\ tokens[k] \in 0..Full
      /\ grants[k] \in Seq(Nat) /\ TightOf(k)
  BY DEF LInv, LimiterTypeOK, Tight
<1>2. \A i \in 1..Len(grants[k]) :
        /\ Leaves(grants[k], i, now) = Leaves(grants[k], i, last[k]) + (now - last[k])
        /\ Leaves(grants[k], i, last[k]) \in Int
  <2>1. PICK t \in Nat : t = last[k]
    BY <1>1
  <2>2. \A i \in 1..Len(grants[k]) :
          /\ Leaves(grants[k], i, now) = Leaves(grants[k], i, t) + (now - t)
          /\ Leaves(grants[k], i, t) \in Int
    BY <1>1, LeavesFacts
  <2> QED BY <2>1, <2>2
<1>3. CASE k \notin buckets
  <2>1. grants[k] = << >> /\ Level(k) = Full
    BY <1>1, <1>3 DEF TightOf, Level
  <2> QED BY <2>1, FullFacts
<1>4. CASE k \in buckets
  <2>1. Level(k) = IF tokens[k] + (now - last[k]) < Full
                   THEN tokens[k] + (now - last[k]) ELSE Full
    BY <1>4 DEF Level, Refilled
  <2>2. \A i \in 1..Len(grants[k]) : tokens[k] <= Leaves(grants[k], i, last[k])
    BY <1>1 DEF TightOf
  <2>3. Level(k) \in 0..Full /\ Level(k) <= tokens[k] + (now - last[k])
    BY <1>1, <2>1, FullFacts
  <2>4. ASSUME NEW i \in 1..Len(grants[k]) PROVE Level(k) <= Leaves(grants[k], i, now)
    <3>1. /\ Leaves(grants[k], i, now) = Leaves(grants[k], i, last[k]) + (now - last[k])
          /\ Leaves(grants[k], i, last[k]) \in Int
          /\ tokens[k] <= Leaves(grants[k], i, last[k])
      BY <1>2, <2>2
    <3> QED BY <1>1, <2>3, <3>1, FullFacts
  <2>5. tokens[k] = Full => Level(k) = Full
    BY <1>1, <2>1, FullFacts
  <2>6. ASSUME NEW i \in 1..Len(grants[k]), tokens[k] = Leaves(grants[k], i, last[k])
        PROVE  Level(k) = Full \/ Level(k) = Leaves(grants[k], i, now)
    BY <1>2, <2>1, <2>6
  <2>7. \/ tokens[k] = Full
        \/ \E i \in 1..Len(grants[k]) : tokens[k] = Leaves(grants[k], i, last[k])
    BY <1>1, <1>4 DEF TightOf
  <2> QED BY <2>3, <2>4, <2>5, <2>6, <2>7
<1> QED BY <1>3, <1>4

(* Allow keeps every window within its limit and the bucket tight. *)
LEMMA AllowStep ==
  ASSUME LInv, NEW k \in Keys, Allow(k)
  PROVE  LInv'
<1>1. /\ now \in Nat /\ last \in [Keys -> 0..now] /\ tokens \in [Keys -> 0..Full]
      /\ buckets \subseteq Keys /\ grants \in [Keys -> Seq(Nat)]
      /\ grants[k] \in Seq(Nat) /\ TightOf(k)
  BY DEF LInv, LimiterTypeOK, Tight
<1>2. PICK g \in Seq(Nat) : g = grants[k]
  BY <1>1
<1>3. PICK n \in Nat : n = Len(g) /\ \A i \in 1..n : g[i] \in Nat /\ g[i] <= now
  <2>1. \A i \in 1..Len(g) : g[i] \in Nat /\ g[i] <= now
    BY <1>1, <1>2 DEF TightOf
  <2> QED BY <2>1
<1>4. PICK l \in 0..Full : l = Level(k)
  BY LevelFacts
<1>5. /\ \A i \in 1..n : l <= Leaves(g, i, now)
      /\ l = Full \/ \E i \in 1..n : l = Leaves(g, i, now)
  BY <1>2, <1>3, <1>4, LevelFacts
<1>6. PICK h \in Seq(Nat) : h = IF Allowed(k) THEN Append(g, now) ELSE g
  BY <1>1, AppendProperties
<1>7. PICK x \in Nat : x = IF Allowed(k) THEN l - Interval ELSE l
  BY <1>4, FullFacts DEF Allowed
<1>8. /\ buckets' = buckets \cup {k} /\ now' = now
      /\ tokens' = [tokens EXCEPT ![k] = x]
      /\ last' = [last EXCEPT ![k] = now]
      /\ grants' = [grants EXCEPT ![k] = h]
  BY <1>1, <1>2, <1>4, <1>6, <1>7 DEF Allow
<1>9. x \in 0..Full
  BY <1>4, <1>7, FullFacts
<1>10. LimiterTypeOK'
  BY <1>1, <1>8, <1>9 DEF LimiterTypeOK, Full
<1>11. /\ \A i \in 1..Len(h) : h[i] <= now
       /\ \A i \in 1..Len(h) : x <= Leaves(h, i, now)
       /\ x = Full \/ \E i \in 1..Len(h) : x = Leaves(h, i, now)
  <2>1. CASE ~Allowed(k)
    BY <1>3, <1>5, <1>6, <1>7, <2>1
  <2>2. CASE Allowed(k)
    <3>1. /\ h = Append(g, now) /\ Len(h) = n + 1 /\ h[n + 1] = now
          /\ \A i \in 1..n : h[i] = g[i]
      BY <1>1, <1>3, <1>6, <2>2, AppendProperties
    <3>2. /\ \A i \in 1..n : /\ Leaves(g, i, now) \in Int
                             /\ Leaves(h, i, now) = Leaves(g, i, now) - Interval
          /\ Leaves(h, n + 1, now) = Full - Interval
      BY <1>1, <1>3, <3>1, LeavesFacts
    <3>3. x = l - Interval
      BY <1>7, <2>2
    <3>4. \A i \in 1..(n + 1) : h[i] <= now
      BY <1>1, <1>3, <3>1
    <3>5. \A i \in 1..(n + 1) : x <= Leaves(h, i, now)
      <4> TAKE i \in 1..(n + 1)
      <4>1. CASE i = n + 1
        BY <1>4, <3>2, <3>3, <4>1, FullFacts
      <4>2. CASE i \in 1..n
        BY <1>4, <1>5, <3>2, <3>3, <4>2, FullFacts
      <4> QED BY <4>1, <4>2
    <3>6. \E i \in 1..(n + 1) : x = Leaves(h, i, now)
      <4>1. CASE l = Full
        BY <3>2, <3>3, <4>1
      <4>2. CASE \E i \in 1..n : l = Leaves(g, i, now)
        BY <3>2, <3>3, <4>2
      <4> QED BY <1>5, <4>1, <4>2
    <3> QED BY <3>1, <3>4, <3>5, <3>6
  <2> QED BY <2>1, <2>2
<1>12. TightOf(k)'
  <2>1. grants'[k] = h /\ tokens'[k] = x /\ last'[k] = now /\ k \in buckets'
    BY <1>1, <1>8
  <2> QED BY <1>11, <2>1 DEF TightOf, Leaves, Full
<1>13. ASSUME NEW y \in Keys, y # k PROVE TightOf(y)'
  <2>1. /\ grants'[y] = grants[y] /\ tokens'[y] = tokens[y] /\ last'[y] = last[y]
        /\ y \in buckets' <=> y \in buckets
    BY <1>1, <1>8, <1>13
  <2>2. TightOf(y)
    BY DEF LInv, Tight
  <2> QED BY <2>1, <2>2 DEF TightOf, Leaves, Full
<1>14. GrantsWithinRate'
  <2> SUFFICES ASSUME NEW y \in Keys,
                      NEW i \in DOMAIN grants'[y], NEW j \in DOMAIN grants'[y], i <= j
               PROVE  Parts(j - i + 1 - Burst) <= grants'[y][j] - grants'[y][i]
    BY DEF GrantsWithinRate, Parts
  <2>1. CASE grants'[y] = grants[y]
    BY <2>1 DEF LInv, GrantsWithinRate
  <2>2. CASE y = k /\ Allowed(k)
    <3>1. /\ grants'[y] = h /\ Len(h) = n + 1 /\ h[n + 1] = now
          /\ \A m \in 1..n : h[m] = g[m]
      BY <1>1, <1>3, <1>6, <1>8, <2>2, AppendProperties
    <3>2. i \in 1..(n + 1) /\ j \in 1..(n + 1)
      BY <3>1
    <3>3. CASE j # n + 1
      <4>1. i \in 1..n /\ j \in 1..n
        BY <3>2, <3>3
      <4>2. Parts(j - i + 1 - Burst) <= g[j] - g[i]
        BY <1>2, <1>3, <4>1 DEF LInv, GrantsWithinRate
      <4> QED BY <3>1, <4>1, <4>2
    <3>4. CASE j = n + 1 /\ i = n + 1
      <4>1. Parts(1 - Burst) = Interval - Full
        BY PartsFacts, FullFacts
      <4>2. j - i + 1 - Burst = 1 - Burst
        BY <3>4, FullFacts
      <4> QED BY <1>1, <3>1, <3>4, <4>1, <4>2, FullFacts
    <3>5. CASE j = n + 1 /\ i \in 1..n
      <4>1. Leaves(g, i, now) \in Int /\ Leaves(g, i, now) >= Interval
        <5>1. Leaves(g, i, now) \in Int
          BY <1>1, <1>3, <3>5, LeavesFacts
        <5>2. l >= Interval /\ l <= Leaves(g, i, now)
          BY <1>4, <1>5, <2>2, <3>5 DEF Allowed
        <5> QED BY <1>4, <5>1, <5>2, FullFacts
      <4>2. Parts(n - i + 2 - Burst) <= now - g[i]
        BY <1>1, <1>3, <3>5, <4>1, LeavesFacts
      <4>3. j - i + 1 - Burst = n - i + 2 - Burst
        BY <3>5, FullFacts
      <4> QED BY <3>1, <3>5, <4>2, <4>3
    <3> QED BY <3>2, <3>3, <3>4, <3>5
  <2>3. y # k \/ ~Allowed(k) => grants'[y] = grants[y]
    BY <1>1, <1>2, <1>6, <1>8
  <2> QED BY <2>1, <2>2, <2>3
<1> QED BY <1>10, <1>12, <1>13, <1>14 DEF LInv, Tight

LEMMA TimeStep ==
  ASSUME LInv, TimePasses
  PROVE  LInv'
<1>1. LimiterTypeOK'
  BY DEF LInv, LimiterTypeOK, TimePasses, Full
<1>2. Tight'
  BY DEF LInv, Tight, TightOf, TimePasses, Leaves, Full
<1>3. GrantsWithinRate'
  BY DEF LInv, GrantsWithinRate, TimePasses, Parts
<1> QED BY <1>1, <1>2, <1>3 DEF LInv

LEMMA LimiterIdle ==
  ASSUME LInv, UNCHANGED limiterVars
  PROVE  LInv'
<1>1. LimiterTypeOK'
  BY DEF LInv, LimiterTypeOK, limiterVars, Full
<1>2. Tight'
  BY DEF LInv, Tight, TightOf, limiterVars, Leaves, Full
<1>3. GrantsWithinRate'
  BY DEF LInv, GrantsWithinRate, limiterVars, Parts
<1> QED BY <1>1, <1>2, <1>3 DEF LInv
-----------------------------------------------------------------------------
(* A connection publishes the frame it has counted. *)
ConnOK ==
  /\ user \in [Conns -> Keys]
  /\ pc \in [Conns -> {"reading", "publishing"}]
  /\ frames \in [Conns -> 0..MaxFrames]
  /\ \A c \in Conns : pc[c] = "publishing" => frames[c] \in 1..MaxFrames

Active(s) == supervisor[s] \in {"selecting", "handling"}

(* The flag keeps a second Consume out, and only a Consume has a message. *)
OneConsumer ==
  /\ \A s \in Supervisors : Active(s) => consuming
  /\ \A s, t \in Supervisors : Active(s) /\ Active(t) => s = t
  /\ \A s \in Supervisors : handling[s] # NoMessage <=> supervisor[s] = "handling"

InHand == BusTypeOK(Messages) /\ OneConsumer /\ HandledInOrder

IInv == LInv /\ ConnOK /\ InHand

(* The sequences by which a message moves on. *)
LEMMA Moves ==
  ASSUME NEW S, NEW a \in Seq(S), NEW q \in Seq(S), NEW x \in S
  PROVE  /\ a \o Append(q, x) = Append(a \o q, x)
         /\ \A y \in S : a \o <<y>> \o Append(q, x) = Append(a \o <<y>> \o q, x)
         /\ Append(a, x) = a \o <<x>>
         /\ q # << >> => a \o q = a \o <<Head(q)>> \o Tail(q)
<1>1. ASSUME NEW b \in Seq(S) PROVE b \o Append(q, x) = Append(b \o q, x)
  <2>1. Append(q, x) = q \o <<x>> /\ <<x>> \in Seq(S)
    BY AppendIsConcat
  <2>2. b \o q \in Seq(S)
    BY ConcatProperties
  <2>3. Append(b \o q, x) = (b \o q) \o <<x>>
    BY <2>2, AppendIsConcat
  <2>4. (b \o q) \o <<x>> = b \o (q \o <<x>>)
    BY <2>1, ConcatAssociative
  <2> QED BY <2>1, <2>3, <2>4
<1>2. ASSUME NEW y \in S PROVE a \o <<y>> \in Seq(S)
  BY ConcatProperties
<1>3. ASSUME q # << >> PROVE a \o q = a \o <<Head(q)>> \o Tail(q)
  <2>1. Head(q) \in S /\ Tail(q) \in Seq(S)
    BY <1>3, HeadTailProperties
  <2>2. q = <<Head(q)>> \o Tail(q)
    BY <1>3
  <2>3. <<Head(q)>> \in Seq(S)
    BY <2>1
  <2>4. (a \o <<Head(q)>>) \o Tail(q) = a \o (<<Head(q)>> \o Tail(q))
    BY <2>1, <2>3, ConcatAssociative
  <2> QED BY <2>2, <2>4
<1>4. Append(a, x) = a \o <<x>>
  BY AppendIsConcat
<1> QED BY <1>1, <1>2, <1>3, <1>4

LEMMA BusIdle ==
  ASSUME InHand, UNCHANGED busVars
  PROVE  InHand'
BY DEF InHand, BusTypeOK, OneConsumer, Active, HandledInOrder, busVars, Messages

LEMMA EnqueueStep ==
  ASSUME InHand, NEW m \in Messages, Enqueue(m)
  PROVE  InHand'
<1>1. BusTypeOK(Messages)'
  <2>1. /\ Append(messages, m) \in Seq(Messages) /\ Append(accepted, m) \in Seq(Messages)
        /\ Len(Append(messages, m)) = Len(messages) + 1
    BY AppendProperties DEF InHand, BusTypeOK
  <2>2. Len(messages) \in Nat /\ BufferSize \in Nat
    BY BusConstants DEF InHand, BusTypeOK
  <2> QED BY <2>1, <2>2 DEF InHand, BusTypeOK, Enqueue, Messages
<1>2. OneConsumer'
  BY DEF InHand, OneConsumer, Active, Enqueue
<1>3. HandledInOrder'
  <2>1. /\ handled \in Seq(Messages) /\ messages \in Seq(Messages)
        /\ handling \in [Supervisors -> Messages \cup {NoMessage}]
    BY DEF InHand, BusTypeOK
  <2>2. /\ handled \o Append(messages, m) = Append(handled \o messages, m)
        /\ \A y \in Messages : handled \o <<y>> \o Append(messages, m)
                                 = Append(handled \o <<y>> \o messages, m)
    BY <2>1, Moves
  <2>3. \A s \in Supervisors : handling[s] # NoMessage => handling[s] \in Messages
    BY <2>1
  <2>4. HandledInOrder /\ messages' = Append(messages, m) /\ accepted' = Append(accepted, m)
        /\ handling' = handling /\ handled' = handled
    BY DEF InHand, Enqueue
  <2> QED BY <2>2, <2>3, <2>4 DEF HandledInOrder
<1> QED BY <1>1, <1>2, <1>3 DEF InHand

LEMMA ReceiveStep ==
  ASSUME InHand, NEW s \in Supervisors, Receive(s)
  PROVE  InHand'
<1>1. /\ handled \in Seq(Messages) /\ messages \in Seq(Messages) /\ messages # << >>
      /\ handling \in [Supervisors -> Messages \cup {NoMessage}]
      /\ supervisor \in [Supervisors -> {"calling", "selecting", "handling", "failed",
                                         "ended"}]
      /\ supervisor[s] = "selecting"
  BY DEF InHand, BusTypeOK, Receive
<1>2. /\ Head(messages) \in Messages /\ Tail(messages) \in Seq(Messages)
      /\ Len(Tail(messages)) = Len(messages) - 1 /\ Len(messages) \in Nat
  BY <1>1, HeadTailProperties
<1>3. BusTypeOK(Messages)'
  BY <1>1, <1>2, BusConstants DEF InHand, BusTypeOK, Receive, Goto, Messages
<1>4. NoMessage \notin Messages
  BY LocalConstants DEF Messages
<1>5. \A t \in Supervisors : t # s => ~Active(t)
  BY <1>1 DEF InHand, OneConsumer, Active
<1>6. OneConsumer'
  BY <1>1, <1>2, <1>4, <1>5 DEF InHand, OneConsumer, Active, Receive, Goto
<1>7. HandledInOrder'
  <2>1. \A t \in Supervisors : handling[t] = NoMessage
    BY <1>1, <1>5 DEF InHand, OneConsumer, Active
  <2>2. accepted = handled \o messages
    BY <2>1 DEF InHand, HandledInOrder
  <2>3. handled \o messages = handled \o <<Head(messages)>> \o Tail(messages)
    BY <1>1, <1>2, Moves
  <2>4. /\ handling'[s] = Head(messages)
        /\ \A t \in Supervisors : t # s => handling'[t] = NoMessage
        /\ accepted' = accepted /\ handled' = handled /\ messages' = Tail(messages)
    BY <1>1, <2>1 DEF Receive
  <2> QED BY <1>2, <1>4, <2>2, <2>3, <2>4 DEF HandledInOrder
<1> QED BY <1>3, <1>6, <1>7 DEF InHand

(* The handler is done, whatever it returned. *)
LEMMA DoneStep ==
  ASSUME InHand, NEW s \in Supervisors, HandlerReturns(s) \/ HandlerFails(s)
  PROVE  InHand'
<1>1. /\ handled \in Seq(Messages) /\ messages \in Seq(Messages)
      /\ handling \in [Supervisors -> Messages \cup {NoMessage}]
      /\ supervisor \in [Supervisors -> {"calling", "selecting", "handling", "failed",
                                         "ended"}]
      /\ supervisor[s] = "handling"
  BY DEF InHand, BusTypeOK, HandlerReturns, HandlerFails
<1>2. handling[s] \in Messages /\ handling[s] # NoMessage
  BY <1>1 DEF InHand, OneConsumer
<1>3. Append(handled, handling[s]) \in Seq(Messages)
  BY <1>1, <1>2, AppendProperties
<1>4. PICK l \in {"selecting", "failed"} :
        /\ supervisor' = [supervisor EXCEPT ![s] = l]
        /\ l = "selecting" => consuming' = consuming
        /\ consuming' \in {consuming, FALSE}
  BY DEF HandlerReturns, HandlerFails, Goto, StopConsuming
<1>5. /\ handled' = Append(handled, handling[s])
      /\ handling' = [handling EXCEPT ![s] = NoMessage]
      /\ messages' = messages /\ cancelled' = cancelled /\ accepted' = accepted
      /\ failures' \in {failures, failures + 1}
  BY DEF HandlerReturns, HandlerFails
<1>6. BusTypeOK(Messages)'
  <2>1. /\ handling' \in [Supervisors -> Messages \cup {NoMessage}]
        /\ supervisor' \in [Supervisors -> {"calling", "selecting", "handling", "failed",
                                            "ended"}]
    BY <1>1, <1>4, <1>5
  <2>2. consuming' \in BOOLEAN
    BY <1>4 DEF InHand, BusTypeOK
  <2>3. failures' \in Nat
    BY <1>5 DEF InHand, BusTypeOK
  <2> QED BY <1>1, <1>3, <1>5, <2>1, <2>2, <2>3 DEF InHand, BusTypeOK, Messages
<1>7. \A t \in Supervisors : t # s => ~Active(t)
  BY <1>1 DEF InHand, OneConsumer, Active
<1>8. OneConsumer'
  BY <1>1, <1>4, <1>5, <1>7 DEF InHand, OneConsumer, Active
<1>9. HandledInOrder'
  <2>1. accepted = handled \o <<handling[s]>> \o messages
    BY <1>2 DEF InHand, HandledInOrder
  <2>2. Append(handled, handling[s]) = handled \o <<handling[s]>>
    BY <1>1, <1>2, Moves
  <2>3. \A t \in Supervisors : handling'[t] = NoMessage
    BY <1>1, <1>5, <1>7 DEF InHand, OneConsumer, Active
  <2> QED BY <1>5, <2>1, <2>2, <2>3 DEF HandledInOrder
<1> QED BY <1>6, <1>8, <1>9 DEF InHand

(* The steps that move no message. *)
LEMMA ControlStep ==
  ASSUME InHand, NEW s \in Supervisors, Consume(s) \/ Finish(s) \/ Retry(s) \/ Cancel(s)
  PROVE  InHand'
<1>1. supervisor \in [Supervisors -> {"calling", "selecting", "handling", "failed",
                                      "ended"}]
  BY DEF InHand, BusTypeOK
<1>2. BusTypeOK(Messages)'
  BY <1>1 DEF InHand, BusTypeOK, Consume, Finish, Retry, Cancel, Goto, StopConsuming,
              Messages
<1>3. OneConsumer'
  <2>1. CASE Consume(s)
    BY <1>1, <2>1 DEF InHand, OneConsumer, Active, Consume, Goto, Unused
  <2>2. CASE Finish(s)
    BY <1>1, <2>2 DEF InHand, OneConsumer, Active, Finish, Goto, StopConsuming
  <2>3. CASE Retry(s)
    BY <1>1, <2>3 DEF InHand, OneConsumer, Active, Retry, Goto
  <2>4. CASE Cancel(s)
    BY <2>4 DEF InHand, OneConsumer, Active, Cancel
  <2> QED BY <2>1, <2>2, <2>3, <2>4
<1>4. HandledInOrder'
  BY DEF InHand, HandledInOrder, Consume, Finish, Retry, Cancel
<1> QED BY <1>2, <1>3, <1>4 DEF InHand
-----------------------------------------------------------------------------
LEMMA InitIInv == Init => IInv
<1> SUFFICES ASSUME Init PROVE IInv
  OBVIOUS
<1>1. LInv
  <2>1. LimiterTypeOK
    BY FullFacts DEF Init, LimiterInit, LimiterTypeOK
  <2>2. Tight
    <3>1. Len(<< >>) = 0 /\ 1..0 = {}
      OBVIOUS
    <3>2. \A k \in Keys : grants[k] = << >>
      BY DEF Init, LimiterInit
    <3>3. buckets = {}
      BY DEF Init, LimiterInit
    <3> QED BY <3>1, <3>2, <3>3 DEF Tight, TightOf
  <2>3. GrantsWithinRate
    BY DEF Init, LimiterInit, GrantsWithinRate
  <2> QED BY <2>1, <2>2, <2>3 DEF LInv
<1>2. ConnOK
  BY LocalConstants DEF Init, ConnOK
<1>3. InHand
  <2>1. BusTypeOK(Messages)
    <3>1. << >> \in Seq(Messages) /\ Len(<< >>) = 0 /\ BufferSize \in Nat
      BY BusConstants
    <3>2. messages = << >> /\ accepted = << >> /\ handled = << >>
      BY DEF Init, BusInit
    <3>3. /\ messages \in Seq(Messages) /\ accepted \in Seq(Messages)
          /\ handled \in Seq(Messages) /\ Len(messages) <= BufferSize
      BY <3>1, <3>2
    <3>4. consuming \in BOOLEAN /\ cancelled \subseteq Supervisors /\ failures \in Nat
      BY DEF Init, BusInit
    <3>5. /\ supervisor \in [Supervisors -> {"calling", "selecting", "handling", "failed",
                                             "ended"}]
          /\ handling \in [Supervisors -> Messages \cup {NoMessage}]
      BY DEF Init, BusInit
    <3> QED BY <3>3, <3>4, <3>5 DEF BusTypeOK
  <2>2. OneConsumer
    BY DEF Init, BusInit, OneConsumer, Active
  <2>3. << >> \o << >> = << >>
    OBVIOUS
  <2>4. HandledInOrder
    BY <2>3 DEF Init, BusInit, HandledInOrder
  <2> QED BY <2>1, <2>2, <2>4 DEF InHand
<1> QED BY <1>1, <1>2, <1>3 DEF IInv

LEMMA NextIInv == IInv /\ [Next]_vars => IInv'
<1> SUFFICES ASSUME IInv, [Next]_vars PROVE IInv'
  OBVIOUS
<1> USE DEF IInv
<1>1. ASSUME NEW c \in Conns, ReadFrame(c) PROVE IInv'
  <2>1. user[c] \in Keys /\ Allow(user[c]) /\ UNCHANGED busVars
    BY <1>1 DEF ConnOK, ReadFrame
  <2>2. ConnOK'
    BY <1>1, LocalConstants DEF ConnOK, ReadFrame
  <2> QED BY <2>1, <2>2, AllowStep, BusIdle
<1>2. ASSUME NEW c \in Conns, Publish(c) PROVE IInv'
  <2>1. Danmaku(c) \in Messages
    BY <1>2 DEF ConnOK, Publish, Danmaku, Messages
  <2>2. InHand'
    BY <1>2, <2>1, EnqueueStep DEF Publish
  <2>3. ConnOK'
    BY <1>2 DEF ConnOK, Publish
  <2>4. LInv'
    BY <1>2, LimiterIdle DEF Publish
  <2> QED BY <2>2, <2>3, <2>4
<1>3. ASSUME NEW c \in Conns, PublishFails(c) PROVE IInv'
  <2>1. ConnOK'
    BY <1>3 DEF ConnOK, PublishFails
  <2> QED BY <1>3, <2>1, LimiterIdle, BusIdle DEF PublishFails
<1>4. ASSUME NEW s \in Supervisors,
             Consumer(s) \/ ((HandlerFails(s) \/ Cancel(s))
                             /\ UNCHANGED <<limiterVars, connVars>>)
      PROVE  IInv'
  <2>1. LInv' /\ ConnOK'
    BY <1>4, LimiterIdle DEF Consumer, ConnOK, connVars
  <2>2. InHand'
    BY <1>4, ReceiveStep, DoneStep, ControlStep DEF Consumer, SupervisorStep
  <2> QED BY <2>1, <2>2
<1>5. CASE Tick
  BY <1>5, TimeStep, BusIdle DEF Tick, ConnOK, connVars
<1>6. CASE UNCHANGED vars
  <2>1. UNCHANGED limiterVars /\ UNCHANGED busVars /\ UNCHANGED connVars
    BY <1>6 DEF vars
  <2> QED BY <2>1, LimiterIdle, BusIdle DEF ConnOK, connVars
<1> QED BY <1>1, <1>2, <1>3, <1>4, <1>5, <1>6 DEF Next

(* The inductive invariant of the local gateway. *)
THEOREM LocalInvariant == Spec => []IInv
<1> QED BY InitIInv, NextIInv, PTL DEF Spec

(* Variables keep their types and queue and buckets their limits. *)
THEOREM LocalType == Spec => []TypeOK
<1>1. IInv => TypeOK
  BY DEF IInv, TypeOK, LInv, ConnOK, InHand
<1> QED BY <1>1, LocalInvariant, PTL

(* Whatever calls Allow, and whenever, no stretch of time sees more grants  *)
(* than burst and rate permit, for any burst and rate.                      *)
THEOREM LocalGrantsWithinRate == Spec => []GrantsWithinRate
<1>1. IInv => GrantsWithinRate
  BY DEF IInv, LInv
<1> QED BY <1>1, LocalInvariant, PTL

(* Consume keeps the order of the queue whichever supervisor runs it.       *)
THEOREM LocalHandledInOrder == Spec => []HandledInOrder
<1>1. IInv => HandledInOrder
  BY DEF IInv, InHand
<1> QED BY <1>1, LocalInvariant, PTL

(* A bucket refuses only what some window of the user could not hold.       *)
THEOREM LocalDropsJustified == Spec => DropsJustified
<1> DEFINE Justified == \A c \in Conns :
             frames'[c] # frames[c] /\ pc'[c] = "reading" => Exhausted(user[c])
<1>1. IInv /\ [Next]_vars => [Justified]_vars
  <2> SUFFICES ASSUME IInv, Next, NEW c \in Conns,
                      frames'[c] # frames[c], pc'[c] = "reading"
               PROVE  Exhausted(user[c])
    OBVIOUS
  <2>1. ReadFrame(c)
    <3>1. ASSUME NEW d \in Conns, ReadFrame(d) PROVE d = c
      BY <3>1 DEF IInv, ConnOK, ReadFrame
    <3>2. ASSUME NEW d \in Conns, Publish(d) \/ PublishFails(d) PROVE FALSE
      BY <3>2 DEF Publish, PublishFails
    <3>3. ASSUME NEW s \in Supervisors,
                 Consumer(s) \/ ((HandlerFails(s) \/ Cancel(s))
                                 /\ UNCHANGED <<limiterVars, connVars>>)
          PROVE  FALSE
      BY <3>3 DEF Consumer, connVars
    <3>4. ASSUME Tick PROVE FALSE
      BY <3>4 DEF Tick, connVars
    <3> QED BY <3>1, <3>2, <3>3, <3>4 DEF Next
  <2>2. PICK k \in Keys : k = user[c]
    BY DEF IInv, ConnOK
  <2>3. ~Allowed(k)
    BY <2>1, <2>2 DEF IInv, ConnOK, ReadFrame
  <2>4. /\ Level(k) \in 0..Full
        /\ Level(k) = Full \/ \E i \in 1..Len(grants[k]) : Level(k) = Leaves(grants[k], i, now)
    BY LevelFacts DEF IInv
  <2>5. PICK i \in 1..Len(grants[k]) : Level(k) = Leaves(grants[k], i, now)
    BY <2>3, <2>4, FullFacts DEF Allowed
  <2>6. Leaves(grants[k], i, now) < Interval
    BY <2>3, <2>4, <2>5, FullFacts DEF Allowed
  <2>7. grants[k] \in Seq(Nat) /\ now \in Nat
    BY DEF IInv, LInv, LimiterTypeOK
  <2>8. Parts(Len(grants[k]) - i + 2 - Burst) > now - grants[k][i]
    BY <2>6, <2>7, LeavesFacts
  <2>9. i \in DOMAIN grants[k]
    BY <2>7
  <2> QED BY <2>2, <2>8, <2>9 DEF Exhausted
<1> QED BY <1>1, LocalInvariant, PTL DEF Spec, DropsJustified
=============================================================================
