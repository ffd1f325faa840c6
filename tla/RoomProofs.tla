---------------------------- MODULE RoomProofs ----------------------------
(***************************************************************************)
(* Proofs about Room, for every set of clients, handles and contents and   *)
(* every bound on the sequence.                                            *)
(***************************************************************************)
EXTENDS Room, FiniteSetTheorems, TLAPS

(* Number of members whose channel is full: a natural number. *)
LEMMA FullCount ==
  ASSUME TypeOK
  PROVE  /\ Members \subseteq Handles
         /\ Cardinality(Full) \in Nat
<1>1. Members \subseteq Handles
  BY DEF TypeOK, Members, Joined
<1>2. Full \subseteq Handles
  BY <1>1 DEF Full
<1> QED
  BY <1>1, <1>2, RoomConstants, FS_Subset, FS_CardinalityType

(* Every step keeps the type invariant. *)
LEMMA TypeStep == TypeOK /\ [Next]_vars => TypeOK'
<1> SUFFICES ASSUME TypeOK, [Next]_vars PROVE TypeOK'
  OBVIOUS
<1> USE DEF TypeOK
<1>f. ASSUME NEW e \in Errors, Fail(e) PROVE TypeOK'
  BY <1>f DEF Fail, history
<1>1. ASSUME NEW id \in ClientIDs, NEW h \in Handles, Join(id, h)
      PROVE TypeOK'
  <2>1. CASE Register(id, h)
    BY <2>1 DEF Register, Errors
  <2> QED BY <1>1, <1>f, <2>1 DEF Join, Errors
<1>2. ASSUME NEW id \in ClientIDs, Leave(id) PROVE TypeOK'
  <2>1. CASE id \in Joined
    <3>1. clients[id] \in Handles
      BY <2>1 DEF Joined
    <3>2. /\ clients' = [clients EXCEPT ![id] = NoHandle]
          /\ status' = [status EXCEPT ![clients[id]] = "closed"]
          /\ leftAt' = [leftAt EXCEPT ![clients[id]] = sequence]
          /\ reply' = [err |-> "nil", dropped |-> 0]
          /\ UNCHANGED <<sequence, chan, received, log, joinedAt, drops>>
      BY <1>2, <2>1 DEF Leave
    <3>3. reply' \in [err : Errors, dropped : Nat]
      BY <3>2 DEF Errors
    <3> QED BY <3>1, <3>2, <3>3
  <2> QED BY <1>2, <1>f, <2>1 DEF Leave, Errors
<1>3. ASSUME NEW content \in Contents, Publish(content) PROVE TypeOK'
  <2>1. CASE content # Blank /\ Joined # {}
    <3> DEFINE m == [sequence |-> NextSequence, content |-> content]
    <3>1. /\ sequence' = NextSequence
          /\ chan' = [h \in Handles |->
               IF h \in Accepted THEN Append(chan[h], m) ELSE chan[h]]
          /\ reply' = [err |-> "nil", dropped |-> DroppedClients]
          /\ log' = Append(log, content)
          /\ drops' = Append(drops, DroppedClients)
          /\ UNCHANGED <<clients, status, received, joinedAt, leftAt>>
      BY <1>3, <2>1 DEF Publish, Send, Fail
    <3>2. m \in Sequenced
      BY <2>1 DEF Sequenced, NextSequence
    <3> HIDE DEF m
    <3>3. chan' \in [Handles -> Seq(Sequenced)]
      BY <3>1, <3>2
    <3>4. ASSUME NEW h \in Handles PROVE Len(chan'[h]) <= ChannelCapacity
      <4>1. Len(chan[h]) \in Nat
        OBVIOUS
      <4>2. CASE h \in Accepted
        <5>1. Len(chan'[h]) = Len(chan[h]) + 1
          BY <3>1, <3>2, <4>2
        <5> QED BY <5>1, <4>1, <4>2 DEF Accepted, Full, ChannelCapacity
      <4> QED BY <3>1, <4>2
    <3>5. reply' \in [err : Errors, dropped : Nat]
      BY <3>1, FullCount DEF Errors, DroppedClients
    <3>6. sequence' \in Nat /\ log' \in Seq(Contents \ {Blank})
      BY <3>1, <2>1 DEF NextSequence
    <3>7. drops' \in Seq(Nat)
      BY <3>1, FullCount DEF DroppedClients
    <3> QED BY <3>1, <3>3, <3>4, <3>5, <3>6, <3>7
  <2> QED BY <1>3, <1>f, <2>1 DEF Publish, Errors
<1>4. ASSUME NEW h \in Handles, Receive(h) PROVE TypeOK'
  <2>1. CASE chan[h] # << >>
    <3>1. Head(chan[h]) \in Sequenced /\ Tail(chan[h]) \in Seq(Sequenced)
          /\ Len(Tail(chan[h])) <= ChannelCapacity
      BY <2>1 DEF ChannelCapacity
    <3>2. /\ received' = [received EXCEPT ![h] = Append(@, Head(chan[h]))]
          /\ chan' = [chan EXCEPT ![h] = Tail(chan[h])]
          /\ UNCHANGED <<status, clients, sequence, reply, log, joinedAt,
                         leftAt, drops>>
      BY <1>4, <2>1 DEF Receive
    <3>3. /\ received' \in [Handles -> Seq(Sequenced)]
          /\ chan' \in [Handles -> Seq(Sequenced)]
      BY <3>1, <3>2
    <3>4. \A k \in Handles : Len(chan'[k]) <= ChannelCapacity
      BY <3>1, <3>2
    <3> QED BY <3>2, <3>3, <3>4
  <2>2. CASE chan[h] = << >>
    BY <1>4, <2>2 DEF Receive
  <2> QED BY <2>1, <2>2
<1>5. CASE UNCHANGED vars
  BY <1>5 DEF vars, history
<1> QED BY <1>1, <1>2, <1>3, <1>4, <1>5 DEF Next

(* Every variable of a room keeps its type and no client's channel ever    *)
(* holds more than its capacity, however Join, Leave, Publish and the      *)
(* readers interleave.                                                     *)
THEOREM RoomType == Spec => []TypeOK
<1>1. Init => TypeOK
  BY DEF Init, TypeOK, Errors, ChannelCapacity
<1> QED BY <1>1, TypeStep, PTL DEF Spec
---------------------------------------------------------------------------
(* The inductive invariant.  OpenIffMember and the two stream properties   *)
(* are not inductive by themselves: they need that a handle Join has not   *)
(* allocated has an empty stream, and that every window lies within what   *)
(* has been logged.                                                        *)
FreshEmpty ==
  \A h \in Handles : status[h] = "fresh" =>
    chan[h] = << >> /\ received[h] = << >>

WindowLogged ==
  /\ Len(log) = sequence /\ Len(drops) = sequence
  /\ \A h \in Handles : joinedAt[h] <= sequence /\ leftAt[h] <= sequence

IInv ==
  /\ TypeOK
  /\ OpenIffMember
  /\ FreshEmpty
  /\ WindowLogged
  /\ StreamInOrder
  /\ EveryMessageAccounted

(* A step keeps channels and map entries in agreement. *)
LEMMA MemberStep ==
  ASSUME TypeOK, OpenIffMember, [Next]_vars
  PROVE  OpenIffMember'
<1> USE DEF OpenIffMember, Members, Joined
<1>f. ASSUME NEW e, Fail(e) PROVE OpenIffMember'
  BY <1>f DEF Fail
<1>1. ASSUME NEW id \in ClientIDs, NEW h \in Handles, Join(id, h)
      PROVE OpenIffMember'
  <2>1. CASE id \notin Joined /\ Register(id, h)
    <3>1. /\ clients' = [clients EXCEPT ![id] = h]
          /\ status' = [status EXCEPT ![h] = "open"]
      BY <2>1 DEF Register
    <3>2. status[h] = "fresh" /\ clients[id] = NoHandle
      BY <1>1, <2>1 DEF Join
    <3>3. h \notin Members /\ h # NoHandle
      BY <3>2, RoomConstants
    <3>4. \A i \in ClientIDs : clients'[i] = IF i = id THEN h ELSE clients[i]
      BY <3>1 DEF TypeOK
    <3>5. Joined' = Joined \cup {id}
      BY <3>3, <3>4
    <3>6. Members' = Members \cup {h}
      <4>1. Members' = {clients'[i] : i \in Joined \cup {id}}
        BY <3>5
      <4>2. \A i \in Joined : clients'[i] = clients[i]
        BY <3>2, <3>4
      <4>3. clients'[id] = h
        BY <3>4
      <4> QED BY <4>1, <4>2, <4>3
    <3>7. \A k \in Handles : status'[k] = IF k = h THEN "open" ELSE status[k]
      BY <3>1 DEF TypeOK
    <3>8. \A k \in Handles : status'[k] = "open" <=> k \in Members'
      BY <3>6, <3>7
    <3>9. \A i, j \in Joined' : clients'[i] = clients'[j] => i = j
      BY <3>3, <3>4, <3>5
    <3> QED BY <3>8, <3>9
  <2> QED BY <1>1, <1>f, <2>1 DEF Join
<1>2. ASSUME NEW id \in ClientIDs, Leave(id) PROVE OpenIffMember'
  <2>1. CASE id \in Joined
    <3>1. /\ clients' = [clients EXCEPT ![id] = NoHandle]
          /\ status' = [status EXCEPT ![clients[id]] = "closed"]
      BY <1>2, <2>1 DEF Leave
    <3>2. clients[id] \in Handles
      BY <2>1 DEF TypeOK
    <3>3. Joined' = Joined \ {id} /\ Members' = Members \ {clients[id]}
      BY <2>1, <3>1 DEF TypeOK
    <3> QED BY <2>1, <3>1, <3>2, <3>3 DEF TypeOK
  <2> QED BY <1>2, <1>f, <2>1 DEF Leave
<1>3. ASSUME NEW content \in Contents, Publish(content)
      PROVE OpenIffMember'
  BY <1>3, <1>f DEF Publish, Send
<1>4. ASSUME NEW h \in Handles, Receive(h) PROVE OpenIffMember'
  BY <1>4 DEF Receive, TypeOK
<1>5. CASE UNCHANGED vars
  BY <1>5 DEF vars
<1> QED BY <1>1, <1>2, <1>3, <1>4, <1>5 DEF Next

(* A step keeps unallocated handles empty and windows within the log. *)
LEMMA WindowStep ==
  ASSUME TypeOK, OpenIffMember, FreshEmpty, WindowLogged, [Next]_vars
  PROVE  FreshEmpty' /\ WindowLogged'
<1> USE DEF FreshEmpty, WindowLogged, TypeOK
<1>f. ASSUME NEW e, Fail(e) PROVE FreshEmpty' /\ WindowLogged'
  BY <1>f DEF Fail, history
<1>1. ASSUME NEW id \in ClientIDs, NEW h \in Handles, Join(id, h)
      PROVE FreshEmpty' /\ WindowLogged'
  <2>1. CASE Register(id, h)
    BY <2>1 DEF Register
  <2> QED BY <1>1, <1>f, <2>1 DEF Join
<1>2. ASSUME NEW id \in ClientIDs, Leave(id)
      PROVE FreshEmpty' /\ WindowLogged'
  <2>1. CASE id \in Joined
    <3>1. /\ status' = [status EXCEPT ![clients[id]] = "closed"]
          /\ leftAt' = [leftAt EXCEPT ![clients[id]] = sequence]
          /\ UNCHANGED <<sequence, chan, received, log, joinedAt, drops>>
      BY <1>2, <2>1 DEF Leave
    <3> QED BY <3>1
  <2> QED BY <1>2, <1>f, <2>1 DEF Leave
<1>3. ASSUME NEW content \in Contents, Publish(content)
      PROVE FreshEmpty' /\ WindowLogged'
  <2>1. CASE content # Blank /\ Joined # {}
    <3>1. ASSUME NEW h \in Handles, status[h] = "fresh"
          PROVE h \notin Members
      BY <3>1 DEF OpenIffMember
    <3>2. FreshEmpty'
      BY <1>3, <2>1, <3>1 DEF Publish, Send, Accepted, Full
    <3>0. DroppedClients \in Nat
      BY FullCount DEF DroppedClients
    <3>3. /\ Len(Append(log, content)) = sequence + 1
          /\ Len(Append(drops, DroppedClients)) = sequence + 1
      BY <2>1, <3>0
    <3>4. WindowLogged'
      BY <1>3, <2>1, <3>3 DEF Publish, Send, NextSequence
    <3> QED BY <3>2, <3>4
  <2> QED BY <1>3, <1>f, <2>1 DEF Publish
<1>4. ASSUME NEW h \in Handles, Receive(h)
      PROVE FreshEmpty' /\ WindowLogged'
  BY <1>4 DEF Receive
<1>5. CASE UNCHANGED vars
  BY <1>5 DEF vars, history
<1> QED BY <1>1, <1>2, <1>3, <1>4, <1>5 DEF Next
---------------------------------------------------------------------------
(* A receive moves one message from the channel to the reader: the stream  *)
(* stays the same.                                                         *)
LEMMA StreamShift ==
  ASSUME NEW S, NEW s \in Seq(S), NEW t \in Seq(S), t # << >>
  PROVE  Append(s, Head(t)) \o Tail(t) = s \o t
<1> DEFINE u == Append(s, Head(t)) \o Tail(t)
           w == s \o t
<1>1. Len(t) \in Nat /\ Len(t) > 0 /\ Len(s) \in Nat
  OBVIOUS
<1>2. Head(t) \in S /\ Tail(t) \in Seq(S) /\ Len(Tail(t)) = Len(t) - 1
  OBVIOUS
<1>3. Append(s, Head(t)) \in Seq(S) /\ Len(Append(s, Head(t))) = Len(s) + 1
  BY <1>2
<1>4. u \in Seq(S) /\ w \in Seq(S) /\ Len(u) = Len(w)
  BY <1>1, <1>2, <1>3
<1>5. ASSUME NEW i \in 1..Len(w) PROVE u[i] = w[i]
  <2>1. CASE i <= Len(s)
    BY <1>1, <1>2, <1>3, <2>1
  <2>2. CASE i = Len(s) + 1
    BY <1>1, <1>2, <1>3, <2>2
  <2>3. CASE i > Len(s) + 1
    <3>1. u[i] = Tail(t)[i - (Len(s) + 1)]
      BY <1>1, <1>2, <1>3, <2>3
    <3>2. w[i] = t[i - Len(s)]
      BY <1>1, <2>3
    <3> QED BY <1>1, <3>1, <3>2, <2>3
  <2> QED BY <1>1, <2>1, <2>2, <2>3
<1> HIDE DEF u, w
<1>6. u = w
  BY <1>4, <1>5
<1> QED BY <1>6 DEF u, w

(* A send appends to the stream. *)
LEMMA StreamSend ==
  ASSUME NEW S, NEW s \in Seq(S), NEW t \in Seq(S), NEW m \in S
  PROVE  s \o Append(t, m) = Append(s \o t, m)
  OBVIOUS

(* The numbers in a stream are natural numbers. *)
LEMMA StreamNumbers ==
  ASSUME NEW s \in Seq(Sequenced), NEW i \in 1..Len(s)
  PROVE  s[i].sequence \in Nat
<1>1. s[i] \in Sequenced
  OBVIOUS
<1> QED BY <1>1 DEF Sequenced

(* Appending the next number keeps a stream in order. *)
LEMMA InOrderAppend ==
  ASSUME NEW s \in Seq(Sequenced), NEW lo \in Nat, NEW n \in Nat, lo <= n,
         NEW C, NEW entries \in Seq(C), NEW c \in C,
         Len(entries) = n, InOrder(s, lo, n, entries),
         [sequence |-> n + 1, content |-> c] \in Sequenced
  PROVE  InOrder(Append(s, [sequence |-> n + 1, content |-> c]),
                 lo, n + 1, Append(entries, c))
<1> DEFINE m == [sequence |-> n + 1, content |-> c]
           t == Append(s, m)
           l == Append(entries, c)
<1>1. /\ Len(t) = Len(s) + 1
      /\ t[Len(s) + 1] = m
      /\ \A i \in 1..Len(s) : t[i] = s[i]
  OBVIOUS
<1>2. /\ l[n + 1] = c
      /\ \A k \in 1..n : l[k] = entries[k]
  OBVIOUS
<1>3. \A i \in 1..Len(s) : s[i].sequence \in Nat
  BY StreamNumbers
<1>4. m.sequence = n + 1 /\ m.content = c
  OBVIOUS
<1> HIDE DEF m, t, l
<1>5. ASSUME NEW i \in 1..Len(t)
      PROVE /\ lo < t[i].sequence
            /\ t[i].sequence <= n + 1
            /\ t[i].content = l[t[i].sequence]
  <2>1. CASE i = Len(s) + 1
    BY <1>1, <1>2, <1>4, <2>1
  <2>2. CASE i \in 1..Len(s)
    <3>1. lo < s[i].sequence /\ s[i].sequence <= n
          /\ s[i].content = entries[s[i].sequence]
      BY <2>2 DEF InOrder
    <3> QED BY <1>1, <1>2, <1>3, <2>2, <3>1
  <2> QED BY <1>1, <2>1, <2>2
<1>6. ASSUME NEW i \in 1..Len(t), NEW j \in 1..Len(t), i < j
      PROVE t[i].sequence < t[j].sequence
  <2>1. i \in 1..Len(s)
    BY <1>1, <1>6
  <2>2. CASE j = Len(s) + 1
    BY <1>1, <1>3, <1>4, <2>1, <2>2 DEF InOrder
  <2>3. CASE j \in 1..Len(s)
    BY <1>1, <1>6, <2>1, <2>3 DEF InOrder
  <2> QED BY <1>1, <2>2, <2>3
<1>7. InOrder(t, lo, n + 1, l)
  BY <1>5, <1>6 DEF InOrder
<1> QED BY <1>7 DEF m, t, l

(* A stream that gets nothing stays in order when the log grows. *)
LEMMA InOrderLater ==
  ASSUME NEW s \in Seq(Sequenced), NEW lo \in Nat, NEW hi \in Nat,
         NEW more \in Nat, hi <= more,
         NEW C, NEW entries \in Seq(C), NEW c \in C,
         hi <= Len(entries), InOrder(s, lo, hi, entries)
  PROVE  InOrder(s, lo, more, Append(entries, c))
<1>1. \A i \in 1..Len(s) : s[i].sequence \in Nat
  BY StreamNumbers
<1>2. \A k \in 1..Len(entries) : Append(entries, c)[k] = entries[k]
  OBVIOUS
<1>3. ASSUME NEW i \in 1..Len(s)
      PROVE /\ lo < s[i].sequence
            /\ s[i].sequence <= more
            /\ s[i].content = Append(entries, c)[s[i].sequence]
  <2>1. lo < s[i].sequence /\ s[i].sequence <= hi
        /\ s[i].content = entries[s[i].sequence]
    BY DEF InOrder
  <2> QED BY <1>1, <1>2, <2>1
<1> QED BY <1>3 DEF InOrder
---------------------------------------------------------------------------
(* A step keeps every stream in order. *)
LEMMA StreamStep ==
  ASSUME IInv, [Next]_vars
  PROVE  StreamInOrder'
<1> DEFINE Ordered(h) == InOrder(Stream(h), joinedAt[h], End(h), log)
<1>t. TypeOK /\ TypeOK'
  BY TypeStep DEF IInv
<1>i. \A h \in Handles : Ordered(h)
  BY DEF IInv, StreamInOrder
<1>w. \A h \in Handles :
        /\ joinedAt[h] \in Nat /\ leftAt[h] \in Nat /\ sequence \in Nat
        /\ joinedAt[h] <= sequence /\ leftAt[h] <= sequence
        /\ Len(received[h]) \in Nat /\ Len(chan[h]) \in Nat
        /\ Stream(h) \in Seq(Sequenced)
  BY <1>t DEF IInv, WindowLogged, TypeOK, Stream
<1>s. SUFFICES ASSUME NEW h \in Handles PROVE Ordered(h)'
  BY DEF StreamInOrder
<1>n. /\ sequence \in Nat
      /\ joinedAt \in [Handles -> Nat]
      /\ received \in [Handles -> Seq(Sequenced)]
      /\ chan \in [Handles -> Seq(Sequenced)]
  BY <1>t DEF TypeOK
<1>u. ASSUME chan'[h] = chan[h], received'[h] = received[h],
             status'[h] = status[h], joinedAt'[h] = joinedAt[h],
             leftAt'[h] = leftAt[h],
             sequence' = sequence, log' = log
      PROVE Ordered(h)'
  BY <1>u, <1>i DEF Stream, End, InOrder
<1>f. ASSUME NEW e, Fail(e) PROVE Ordered(h)'
  BY <1>f, <1>u DEF Fail, history
<1>1. ASSUME NEW id \in ClientIDs, NEW k \in Handles, Join(id, k)
      PROVE Ordered(h)'
  <2>1. CASE Register(id, k) /\ h # k
    BY <2>1, <1>u, <1>t DEF Register, TypeOK
  <2>2. CASE Register(id, k) /\ h = k
    <3>1. /\ chan'[h] = << >> /\ received'[h] = << >>
          /\ status'[h] = "open" /\ joinedAt'[h] = sequence
          /\ sequence' = sequence
      BY <1>1, <2>2, <1>t DEF Join, Register, IInv, FreshEmpty, TypeOK
    <3>2. Stream(h)' = << >>
      BY <3>1 DEF Stream
    <3> QED BY <3>1, <3>2, <1>w DEF End, InOrder
  <2> QED BY <1>1, <1>f, <2>1, <2>2 DEF Join
<1>2. ASSUME NEW id \in ClientIDs, Leave(id)
      PROVE Ordered(h)'
  <2>1. CASE id \in Joined
    <3>1. /\ status' = [status EXCEPT ![clients[id]] = "closed"]
          /\ leftAt' = [leftAt EXCEPT ![clients[id]] = sequence]
          /\ UNCHANGED <<sequence, chan, received, log, joinedAt, drops>>
      BY <1>2, <2>1 DEF Leave
    <3>2. CASE h # clients[id]
      BY <3>1, <3>2, <1>u, <1>t DEF TypeOK
    <3>3. CASE h = clients[id]
      <4>1. status[h] = "open"
        BY <2>1, <3>3 DEF IInv, OpenIffMember, Members
      <4>2. status'[h] = "closed" /\ leftAt'[h] = sequence
        BY <3>1, <3>3, <1>t DEF TypeOK
      <4>3. End(h)' = End(h) /\ Stream(h)' = Stream(h)
        BY <3>1, <4>1, <4>2 DEF End, Stream
      <4> QED BY <1>i, <3>1, <4>1, <4>3 DEF InOrder
    <3> QED BY <3>2, <3>3
  <2> QED BY <1>2, <1>f, <2>1 DEF Leave
<1>3. ASSUME NEW content \in Contents, Publish(content)
      PROVE Ordered(h)'
  <2>1. CASE content # Blank /\ Joined # {}
    <3> DEFINE m == [sequence |-> sequence + 1, content |-> content]
    <3>1. /\ sequence' = sequence + 1
          /\ chan'[h] = IF h \in Accepted THEN Append(chan[h], m) ELSE chan[h]
          /\ log' = Append(log, content)
          /\ UNCHANGED <<clients, status, received, joinedAt, leftAt>>
      BY <1>3, <2>1 DEF Publish, Send, NextSequence
    <3>2. m \in Sequenced /\ m \in [sequence : Nat, content : Contents]
      BY <2>1, <1>w DEF Sequenced
    <3>3. /\ log \in Seq(Contents \ {Blank})
          /\ content \in Contents \ {Blank}
          /\ Len(log) = sequence
          /\ End(h) \in Nat /\ End(h) <= sequence
      BY <1>t, <1>w, <2>1 DEF TypeOK, IInv, WindowLogged, End
    <3>4. Accepted \cap Full = {} /\ Accepted \cup Full = Members
      BY DEF Accepted, Full
    <3>5. h \in Members <=> status[h] = "open"
      BY DEF IInv, OpenIffMember
    <3>6. CASE h \in Accepted
      <4>1. status[h] = "open" /\ End(h) = sequence /\ End(h)' = sequence + 1
        BY <3>1, <3>4, <3>5, <3>6 DEF End
      <4>2. Stream(h)' = Append(Stream(h), m)
        <5>1. received[h] \in Seq(Sequenced) /\ chan[h] \in Seq(Sequenced)
          BY <1>t DEF TypeOK
        <5>2. m \in Sequenced
          BY <3>2
        <5> HIDE DEF m
        <5>3. received[h] \o Append(chan[h], m) = Append(received[h] \o chan[h], m)
          BY ONLY <1>n, <5>2, StreamSend
        <5> QED BY <3>1, <3>6, <5>3 DEF Stream, m
      <4>3. Ordered(h)'
        <5>1. InOrder(Stream(h), joinedAt[h], sequence, log)
          BY <1>i, <4>1
        <5>2. InOrder(Append(Stream(h), m), joinedAt[h], sequence + 1,
                      Append(log, content))
          BY <5>1, <1>w, <3>2, <3>3, InOrderAppend
        <5> QED BY <5>2, <4>1, <4>2, <3>1
      <4> QED BY <4>3
    <3>7. CASE h \notin Accepted
      <4>1. Stream(h)' = Stream(h)
        BY <3>1, <3>7 DEF Stream
      <4>2. End(h)' \in Nat /\ End(h) <= End(h)'
        BY <1>w, <3>1 DEF End
      <4>3. InOrder(Stream(h), joinedAt[h], End(h)', Append(log, content))
        BY <1>i, <1>w, <3>3, <4>2, InOrderLater
      <4>4. Ordered(h)'
        BY <3>1, <4>1, <4>3
      <4> QED BY <4>4
    <3> QED BY <3>6, <3>7
  <2> QED BY <1>3, <1>f, <2>1 DEF Publish
<1>4. ASSUME NEW k \in Handles, Receive(k)
      PROVE Ordered(h)'
  <2>1. CASE h # k
    BY <1>4, <2>1, <1>u, <1>t DEF Receive, TypeOK
  <2>2. CASE h = k /\ chan[h] # << >>
    <3>1. /\ received'[h] = Append(received[h], Head(chan[h]))
          /\ chan'[h] = Tail(chan[h])
          /\ UNCHANGED <<status, sequence, log, joinedAt, leftAt>>
      BY <1>4, <2>2, <1>t DEF Receive, TypeOK
    <3>2. Stream(h)' = Stream(h)
      <4>1. received[h] \in Seq(Sequenced) /\ chan[h] \in Seq(Sequenced)
        BY <1>t DEF TypeOK
      <4>2. Append(received[h], Head(chan[h])) \o Tail(chan[h])
              = received[h] \o chan[h]
        BY ONLY <4>1, <2>2, StreamShift
      <4> QED BY <3>1, <4>2 DEF Stream
    <3>3. End(h)' = End(h)
      BY <3>1 DEF End
    <3> QED BY <1>i, <3>1, <3>2, <3>3
  <2>3. CASE h = k /\ chan[h] = << >>
    <3>1. /\ status[h] = "closed" /\ status'[h] = "drained"
          /\ UNCHANGED <<chan, received, sequence, log, joinedAt, leftAt>>
      BY <1>4, <2>3, <1>t DEF Receive, TypeOK
    <3>2. End(h)' = End(h) /\ Stream(h)' = Stream(h)
      BY <3>1 DEF End, Stream
    <3> QED BY <1>i, <3>1, <3>2
  <2> QED BY <2>1, <2>2, <2>3
<1>5. CASE UNCHANGED vars
  BY <1>5, <1>u DEF vars, history
<1> QED BY <1>1, <1>2, <1>3, <1>4, <1>5 DEF Next

---------------------------------------------------------------------------
(* Whether a handle misses message n. *)
Misses(h, n) ==
  status[h] # "fresh" /\ joinedAt[h] < n /\ n <= End(h) /\ ~Gets(h, n)

(* No number beyond its window is in a stream. *)
LEMMA NotYet ==
  ASSUME IInv, NEW h \in Handles
  PROVE  ~Gets(h, sequence + 1)
<1>1. /\ Stream(h) \in Seq(Sequenced) /\ sequence \in Nat
      /\ End(h) \in Nat /\ End(h) <= sequence
  BY DEF IInv, TypeOK, WindowLogged, Stream, End
<1>2. \A i \in 1..Len(Stream(h)) : Stream(h)[i].sequence <= End(h)
  BY DEF IInv, StreamInOrder, InOrder
<1>3. \A i \in 1..Len(Stream(h)) : Stream(h)[i].sequence \in Nat
  BY <1>1, StreamNumbers
<1> QED BY <1>1, <1>2, <1>3 DEF Gets

(* A send adds its own number to a stream and no other. *)
LEMMA GetsSent ==
  ASSUME NEW s \in Seq(Sequenced), NEW m \in Sequenced, NEW n \in Nat
  PROVE  (\E i \in 1..Len(Append(s, m)) : Append(s, m)[i].sequence = n)
           <=> (\E i \in 1..Len(s) : s[i].sequence = n) \/ m.sequence = n
<1> DEFINE t == Append(s, m)
<1>1. /\ Len(t) = Len(s) + 1 /\ Len(s) \in Nat
      /\ t[Len(s) + 1] = m
      /\ \A i \in 1..Len(s) : t[i] = s[i]
  OBVIOUS
<1> HIDE DEF t
<1>2. ASSUME NEW i \in 1..Len(t), t[i].sequence = n
      PROVE  (\E j \in 1..Len(s) : s[j].sequence = n) \/ m.sequence = n
  <2>1. CASE i = Len(s) + 1
    BY <1>1, <1>2, <2>1
  <2>2. CASE i \in 1..Len(s)
    BY <1>1, <1>2, <2>2
  <2> QED BY <1>1, <2>1, <2>2
<1>3. ASSUME NEW i \in 1..Len(s), s[i].sequence = n
      PROVE  \E j \in 1..Len(t) : t[j].sequence = n
  BY <1>1, <1>3
<1>4. m.sequence = n => \E j \in 1..Len(t) : t[j].sequence = n
  BY <1>1
<1> QED BY <1>2, <1>3, <1>4 DEF t

(* What Publish makes of a stream. *)
LEMMA SendStream ==
  ASSUME IInv, NEW content \in Contents, content # Blank, Send(content),
         NEW h \in Handles, NEW n \in Nat
  PROVE  Gets(h, n)' <=> Gets(h, n) \/ (h \in Accepted /\ n = sequence + 1)
<1> DEFINE m == [sequence |-> sequence + 1, content |-> content]
<1>1. /\ received \in [Handles -> Seq(Sequenced)]
      /\ chan \in [Handles -> Seq(Sequenced)] /\ sequence \in Nat
  BY DEF IInv, TypeOK
<1>2. m \in Sequenced /\ m.sequence = sequence + 1
  BY <1>1 DEF Sequenced
<1>3. /\ chan'[h] = IF h \in Accepted THEN Append(chan[h], m) ELSE chan[h]
      /\ received' = received
  BY DEF Send, NextSequence
<1> HIDE DEF m
<1>4. CASE h \in Accepted
  <2>1. received[h] \o Append(chan[h], m) = Append(received[h] \o chan[h], m)
    BY ONLY <1>1, <1>2, StreamSend
  <2>2. Stream(h)' = Append(Stream(h), m)
    BY <1>3, <1>4, <2>1 DEF Stream
  <2>3. Stream(h) \in Seq(Sequenced)
    BY <1>1 DEF Stream
  <2> QED BY <1>2, <1>4, <2>2, <2>3, GetsSent DEF Gets
<1>5. CASE h \notin Accepted
  BY <1>3, <1>5 DEF Gets, Stream
<1> QED BY <1>4, <1>5

(* Whoever missed a message goes on missing it, and nobody else does. *)
LEMMA MissesKept ==
  ASSUME IInv, [Next]_vars, NEW h \in Handles, NEW n \in 1..sequence
  PROVE  Misses(h, n)' <=> Misses(h, n)
<1>t. /\ sequence \in Nat /\ joinedAt \in [Handles -> Nat]
      /\ leftAt \in [Handles -> Nat]
      /\ status \in [Handles -> {"fresh", "open", "closed", "drained"}]
      /\ received \in [Handles -> Seq(Sequenced)]
      /\ chan \in [Handles -> Seq(Sequenced)]
  BY DEF IInv, TypeOK
<1>u. ASSUME Stream(h)' = Stream(h), status'[h] = status[h],
             joinedAt'[h] = joinedAt[h], leftAt'[h] = leftAt[h],
             sequence' = sequence
      PROVE  Misses(h, n)' <=> Misses(h, n)
  BY <1>u DEF Misses, Gets, End
<1>f. ASSUME NEW e, Fail(e) PROVE Misses(h, n)' <=> Misses(h, n)
  BY <1>f, <1>u DEF Fail, history, Stream
<1>1. ASSUME NEW id \in ClientIDs, NEW k \in Handles, Join(id, k)
      PROVE  Misses(h, n)' <=> Misses(h, n)
  <2>1. CASE Register(id, k) /\ h # k
    BY <2>1, <1>u, <1>t DEF Register, Stream
  <2>2. CASE Register(id, k) /\ h = k
    <3>1. status[h] = "fresh" /\ joinedAt'[h] = sequence
      BY <1>1, <2>2, <1>t DEF Join, Register
    <3> QED BY <3>1, <1>t DEF Misses
  <2> QED BY <1>1, <1>f, <2>1, <2>2 DEF Join
<1>2. ASSUME NEW id \in ClientIDs, Leave(id)
      PROVE  Misses(h, n)' <=> Misses(h, n)
  <2>1. CASE id \in Joined
    <3>1. /\ status' = [status EXCEPT ![clients[id]] = "closed"]
          /\ leftAt' = [leftAt EXCEPT ![clients[id]] = sequence]
          /\ UNCHANGED <<sequence, chan, received, log, joinedAt, drops>>
      BY <1>2, <2>1 DEF Leave
    <3>2. CASE h # clients[id]
      BY <3>1, <3>2, <1>u, <1>t DEF Stream
    <3>3. CASE h = clients[id]
      <4>1. status[h] = "open"
        BY <2>1, <3>3 DEF IInv, OpenIffMember, Members
      <4>2. status'[h] = "closed" /\ leftAt'[h] = sequence
        BY <3>1, <3>3, <1>t
      <4>3. End(h)' = End(h) /\ Stream(h)' = Stream(h)
        BY <3>1, <4>1, <4>2 DEF End, Stream
      <4> QED BY <3>1, <4>1, <4>2, <4>3 DEF Misses, Gets
    <3> QED BY <3>2, <3>3
  <2> QED BY <1>2, <1>f, <2>1 DEF Leave
<1>3. ASSUME NEW content \in Contents, Publish(content)
      PROVE  Misses(h, n)' <=> Misses(h, n)
  <2>1. CASE content # Blank /\ Send(content)
    <3>1. /\ sequence' = sequence + 1
          /\ UNCHANGED <<status, joinedAt, leftAt>>
      BY <2>1 DEF Send, NextSequence
    <3>2. Gets(h, n)' <=> Gets(h, n)
      BY <2>1, <1>t, SendStream
    <3>3. n <= End(h)' <=> n <= End(h)
      BY <3>1, <1>t DEF End
    <3> QED BY <3>1, <3>2, <3>3 DEF Misses
  <2> QED BY <1>3, <1>f, <2>1 DEF Publish
<1>4. ASSUME NEW k \in Handles, Receive(k)
      PROVE  Misses(h, n)' <=> Misses(h, n)
  <2>1. CASE h # k
    BY <1>4, <2>1, <1>u, <1>t DEF Receive, Stream
  <2>2. CASE h = k /\ chan[h] # << >>
    <3>1. /\ received'[h] = Append(received[h], Head(chan[h]))
          /\ chan'[h] = Tail(chan[h])
          /\ UNCHANGED <<status, sequence, joinedAt, leftAt>>
      BY <1>4, <2>2, <1>t DEF Receive
    <3>2. Append(received[h], Head(chan[h])) \o Tail(chan[h])
            = received[h] \o chan[h]
      BY ONLY <1>t, <2>2, StreamShift
    <3> QED BY <3>1, <3>2, <1>u DEF Stream
  <2>3. CASE h = k /\ chan[h] = << >>
    <3>1. /\ status[h] = "closed" /\ status'[h] = "drained"
          /\ UNCHANGED <<chan, received, sequence, joinedAt, leftAt>>
      BY <1>4, <2>3, <1>t DEF Receive
    <3>2. End(h)' = End(h) /\ Stream(h)' = Stream(h)
      BY <3>1 DEF End, Stream
    <3> QED BY <3>1, <3>2 DEF Misses, Gets
  <2> QED BY <2>1, <2>2, <2>3
<1>5. CASE UNCHANGED vars
  BY <1>5, <1>u DEF vars, history, Stream
<1> QED BY <1>1, <1>2, <1>3, <1>4, <1>5 DEF Next

(* The members that miss the message Publish has just sent are the full    *)
(* ones.                                                                   *)
LEMMA MissesNew ==
  ASSUME IInv, NEW content \in Contents, content # Blank, Send(content),
         NEW h \in Handles, NEW n, n = sequence + 1
  PROVE  Misses(h, n)' <=> h \in Full
<1>1. /\ sequence \in Nat /\ joinedAt[h] \in Nat /\ leftAt[h] \in Nat
      /\ joinedAt[h] <= sequence /\ leftAt[h] <= sequence
  BY DEF IInv, TypeOK, WindowLogged
<1>2. /\ sequence' = sequence + 1
      /\ UNCHANGED <<status, joinedAt, leftAt>>
  BY DEF Send, NextSequence
<1>3. n <= End(h)' <=> status[h] = "open"
  BY <1>1, <1>2 DEF End
<1>4. h \in Members <=> status[h] = "open"
  BY DEF IInv, OpenIffMember
<1>5. Gets(h, n)' <=> Gets(h, n) \/ h \in Accepted
  BY <1>1, SendStream
<1>6. ~Gets(h, n)
  BY NotYet
<1> QED BY <1>1, <1>2, <1>3, <1>4, <1>5, <1>6 DEF Misses, Accepted, Full

(* A step keeps every message accounted for. *)
LEMMA AccountStep ==
  ASSUME IInv, [Next]_vars
  PROVE  EveryMessageAccounted'
<1>t. sequence \in Nat /\ drops \in Seq(Nat) /\ Len(drops) = sequence
  BY DEF IInv, TypeOK, WindowLogged
<1>1. ASSUME NEW n \in 1..sequence PROVE Missed(n)' = Missed(n)
  BY MissesKept DEF Missed, Misses
<1>2. \A n \in 1..sequence : drops[n] = Cardinality(Missed(n))
  BY DEF IInv, EveryMessageAccounted
<1>3. CASE sequence' = sequence /\ drops' = drops
  <2>1. \A n \in 1..sequence : drops[n] = Cardinality(Missed(n)')
    BY <1>1, <1>2
  <2> QED BY <1>3, <2>1 DEF EveryMessageAccounted
<1>4. ASSUME NEW content \in Contents, content # Blank, Send(content)
      PROVE  EveryMessageAccounted'
  <2>1. sequence' = sequence + 1 /\ drops' = Append(drops, Cardinality(Full))
    BY <1>4 DEF Send, NextSequence, DroppedClients
  <2>2. Cardinality(Full) \in Nat /\ Full \subseteq Handles
    BY FullCount DEF IInv, Full
  <2>3. /\ \A n \in 1..sequence : drops'[n] = drops[n]
        /\ drops'[sequence + 1] = Cardinality(Full)
    BY <1>t, <2>1, <2>2
  <2>4. ASSUME NEW n, n = sequence + 1 PROVE Missed(n)' = Full
    BY <1>4, <2>2, <2>4, MissesNew DEF Missed, Misses
  <2>5. ASSUME NEW n \in 1..sequence'
        PROVE  drops'[n] = Cardinality(Missed(n)')
    <3>1. CASE n \in 1..sequence
      BY <1>1, <1>2, <2>3, <3>1
    <3>2. CASE n = sequence + 1
      BY <2>3, <2>4, <3>2
    <3> QED BY <1>t, <2>1, <3>1, <3>2
  <2> QED BY <2>5 DEF EveryMessageAccounted
<1>5. ASSUME NEW e, Fail(e) PROVE EveryMessageAccounted'
  BY <1>3, <1>5 DEF Fail, history
<1>6. ASSUME NEW content \in Contents, Publish(content)
      PROVE  EveryMessageAccounted'
  BY <1>4, <1>5, <1>6 DEF Publish
<1>7. CASE UNCHANGED vars
  BY <1>3, <1>7 DEF vars, history
<1>8. ASSUME NEW id \in ClientIDs, Leave(id) \/ (\E h \in Handles : Join(id, h))
      PROVE  EveryMessageAccounted'
  BY <1>3, <1>5, <1>8 DEF Leave, Join, Register
<1>9. ASSUME NEW h \in Handles, Receive(h) PROVE EveryMessageAccounted'
  BY <1>3, <1>9 DEF Receive
<1> QED BY <1>6, <1>7, <1>8, <1>9 DEF Next

(* The inductive invariant holds in every reachable state. *)
THEOREM RoomInvariant == Spec => []IInv
<1>1. Init => IInv
  <2> SUFFICES ASSUME Init PROVE IInv
    OBVIOUS
  <2>1. TypeOK
    BY DEF Init, TypeOK, Errors, ChannelCapacity
  <2>2. OpenIffMember
    BY DEF Init, OpenIffMember, Members, Joined
  <2>3. FreshEmpty /\ WindowLogged
    BY DEF Init, FreshEmpty, WindowLogged
  <2>4. StreamInOrder /\ EveryMessageAccounted
    BY DEF Init, StreamInOrder, EveryMessageAccounted, InOrder, Stream
  <2> QED BY <2>1, <2>2, <2>3, <2>4 DEF IInv
<1>2. IInv /\ [Next]_vars => IInv'
  BY TypeStep, MemberStep, WindowStep, StreamStep, AccountStep DEF IInv
<1> QED BY <1>1, <1>2, PTL DEF Spec

(* A channel is open exactly while its handle is the map entry of one      *)
(* client ID, so Publish never sends on a closed channel and Leave never   *)
(* closes one twice.                                                       *)
THEOREM RoomMembers == Spec => []OpenIffMember
<1>1. IInv => OpenIffMember
  BY DEF IInv
<1> QED BY RoomInvariant, <1>1, PTL

(* Every reader sees a strictly increasing part of what was published      *)
(* while it was a member, with the published content.                      *)
THEOREM RoomOrder == Spec => []StreamInOrder
<1>1. IInv => StreamInOrder
  BY DEF IInv
<1> QED BY RoomInvariant, <1>1, PTL

(* Of every message ever published, as many members never get it as the    *)
(* call reported in DroppedClients.                                        *)
THEOREM RoomAccounting == Spec => []EveryMessageAccounted
<1>1. IInv => EveryMessageAccounted
  BY DEF IInv
<1> QED BY RoomInvariant, <1>1, PTL
---------------------------------------------------------------------------
(* Where the refinement mapping puts a handle. *)
Phase(h) ==
  CASE status[h] = "fresh" -> "none"
    [] status[h] = "open" -> "on"
    [] OTHER -> "off"

(* What the reader takes next comes after all it has taken, was published  *)
(* while its handle was a member, and is what was published.               *)
LEMMA HeadIsNext ==
  ASSUME IInv, NEW h \in Handles, chan[h] # << >>
  PROVE  LET n == Head(chan[h]).sequence IN
         /\ n \in 1..Len(log)
         /\ n <= End(h)
         /\ joinedAt[h] < n
         /\ received[h] # << >> => received[h][Len(received[h])].sequence < n
         /\ Head(chan[h]) = [sequence |-> n, content |-> log[n]]
<1> DEFINE p == Len(received[h])
           s == Stream(h)
<1>1. /\ received \in [Handles -> Seq(Sequenced)]
      /\ chan \in [Handles -> Seq(Sequenced)]
  BY DEF IInv, TypeOK
<1>2. /\ Len(s) = p + Len(chan[h]) /\ Len(chan[h]) > 0 /\ p \in Nat
      /\ s[p + 1] = Head(chan[h])
      /\ p > 0 => s[p] = received[h][p]
      /\ s \in Seq(Sequenced)
  BY <1>1 DEF Stream
<1>3. InOrder(s, joinedAt[h], End(h), log)
  BY DEF IInv, StreamInOrder
<1>4. p + 1 \in 1..Len(s)
  BY <1>1, <1>2
<1>5. Head(chan[h]) \in Sequenced
  BY <1>1
<1>6. /\ joinedAt[h] < s[p + 1].sequence
      /\ s[p + 1].sequence <= End(h)
      /\ s[p + 1].content = log[s[p + 1].sequence]
  BY <1>3, <1>4 DEF InOrder
<1>7. p > 0 => s[p].sequence < s[p + 1].sequence
  <2>0. p \in Nat
    BY <1>2
  <2> HIDE DEF p, s
  <2>1. p > 0 => p \in 1..Len(s) /\ p < p + 1
    BY <1>4, <2>0
  <2>2. \A i, j \in 1..Len(s) : i < j => s[i].sequence < s[j].sequence
    BY <1>3 DEF InOrder
  <2> QED BY <1>4, <2>1, <2>2
<1>8. End(h) \in Nat /\ End(h) <= Len(log) /\ joinedAt[h] \in Nat
  BY DEF IInv, TypeOK, WindowLogged, End
<1>9. received[h] # << >> => p > 0
  BY <1>1
<1>10. Head(chan[h]) = [sequence |-> Head(chan[h]).sequence,
                        content |-> Head(chan[h]).content]
  BY <1>5 DEF Sequenced
<1>11. Head(chan[h]).sequence \in Nat
  BY <1>5 DEF Sequenced
<1> HIDE DEF s, p
<1>12. Head(chan[h]).sequence \in 1..Len(log)
  BY <1>2, <1>6, <1>8, <1>11
<1> QED BY <1>2, <1>6, <1>7, <1>9, <1>10, <1>12 DEF p

(* Every step of the room is a step of Broadcast or leaves it alone. *)
LEMMA BroadcastStep ==
  ASSUME IInv, [Next]_vars
  PROVE  [Abstract!BNext]_(Abstract!bvars)
<1> DEFINE ph == [h \in Handles |-> Phase(h)]
<1>t. TypeOK
  BY DEF IInv
<1>u. ASSUME UNCHANGED <<log, status, joinedAt, leftAt, received>>
      PROVE UNCHANGED Abstract!bvars
  BY <1>u DEF Abstract!bvars
<1>f. ASSUME NEW e, Fail(e) PROVE UNCHANGED Abstract!bvars
  BY <1>f, <1>u DEF Fail, history
<1>1. ASSUME NEW id \in ClientIDs, NEW h \in Handles, Join(id, h)
      PROVE Abstract!BNext \/ UNCHANGED Abstract!bvars
  <2>1. CASE Register(id, h)
    <3>1. /\ status[h] = "fresh"
          /\ status' = [status EXCEPT ![h] = "open"]
          /\ joinedAt' = [joinedAt EXCEPT ![h] = sequence]
          /\ UNCHANGED <<received, log, leftAt>>
      BY <1>1, <2>1 DEF Join, Register
    <3>2. Len(log) = sequence
      BY DEF IInv, WindowLogged
    <3>3. ph[h] = "none" /\ ph' = [ph EXCEPT ![h] = "on"]
      BY <3>1, <1>t DEF Phase, TypeOK
    <3>4. Abstract!Subscribe(h)
      BY <3>1, <3>2, <3>3 DEF Abstract!Subscribe, Phase
    <3> QED BY <3>4 DEF Abstract!BNext
  <2> QED BY <1>1, <1>f, <2>1 DEF Join
<1>2. ASSUME NEW id \in ClientIDs, Leave(id)
      PROVE Abstract!BNext \/ UNCHANGED Abstract!bvars
  <2>1. CASE id \in Joined
    <3>0. PICK h \in Handles : h = clients[id]
      BY <2>1, <1>t DEF Joined, TypeOK
    <3>1. status[h] = "open"
      BY <2>1, <3>0 DEF IInv, OpenIffMember, Members, Joined
    <3>2. /\ status' = [status EXCEPT ![h] = "closed"]
          /\ leftAt' = [leftAt EXCEPT ![h] = sequence]
          /\ UNCHANGED <<received, log, joinedAt>>
      BY <1>2, <2>1, <3>0 DEF Leave
    <3>3. Len(log) = sequence
      BY DEF IInv, WindowLogged
    <3>4. ph[h] = "on" /\ ph' = [ph EXCEPT ![h] = "off"]
      BY <3>1, <3>2, <1>t DEF Phase, TypeOK
    <3>5. Abstract!Unsubscribe(h)
      BY <3>2, <3>3, <3>4 DEF Abstract!Unsubscribe, Phase
    <3> QED BY <3>5 DEF Abstract!BNext
  <2> QED BY <1>2, <1>f, <2>1 DEF Leave
<1>3. ASSUME NEW content \in Contents, Publish(content)
      PROVE Abstract!BNext \/ UNCHANGED Abstract!bvars
  <2>1. CASE content # Blank /\ Joined # {}
    <3>1. /\ log' = Append(log, content)
          /\ UNCHANGED <<status, received, joinedAt, leftAt>>
      BY <1>3, <2>1 DEF Publish, Send
    <3>2. Abstract!Announce(content)
      BY <3>1 DEF Abstract!Announce
    <3> QED BY <2>1, <3>2 DEF Abstract!BNext
  <2> QED BY <1>3, <1>f, <2>1 DEF Publish
<1>4. ASSUME NEW h \in Handles, Receive(h)
      PROVE Abstract!BNext \/ UNCHANGED Abstract!bvars
  <2>1. CASE chan[h] # << >>
    <3> DEFINE n == Head(chan[h]).sequence
    <3>1. /\ received' = [received EXCEPT ![h] = Append(@, Head(chan[h]))]
          /\ UNCHANGED <<status, log, joinedAt, leftAt>>
      BY <1>4, <2>1 DEF Receive
    <3>2. /\ n \in 1..Len(log) /\ n <= End(h) /\ joinedAt[h] < n
          /\ received[h] # << >> => received[h][Len(received[h])].sequence < n
          /\ Head(chan[h]) = [sequence |-> n, content |-> log[n]]
      BY <2>1, HeadIsNext
    <3>3. status[h] # "fresh"
      BY <2>1 DEF IInv, FreshEmpty
    <3> HIDE DEF n
    <3>4. Abstract!Position(h) < n
      BY <3>2 DEF Abstract!Position
    <3>5. n <= Abstract!Limit(h)
      <4>1. Abstract!Limit(h) = End(h)
        <5>1. IInv => Len(log) = sequence
          BY DEF IInv, WindowLogged
        <5> QED BY <5>1 DEF Abstract!Limit, End
      <4> QED BY <3>2, <4>1
    <3>6. ph[h] # "none"
      BY <3>3 DEF Phase
    <3>7. Abstract!Deliver(h, n)
      BY <3>1, <3>2, <3>4, <3>5, <3>6 DEF Abstract!Deliver, Phase
    <3> QED BY <3>2, <3>7 DEF Abstract!BNext
  <2>2. CASE chan[h] = << >>
    <3>1. /\ status[h] = "closed"
          /\ status' = [status EXCEPT ![h] = "drained"]
          /\ UNCHANGED <<received, log, joinedAt, leftAt>>
      BY <1>4, <2>2 DEF Receive
    <3>2. ph' = ph
      BY <3>1, <1>t DEF Phase, TypeOK
    <3> QED BY <3>1, <3>2 DEF Abstract!bvars, Phase
  <2> QED BY <2>1, <2>2
<1>5. CASE UNCHANGED vars
  BY <1>5, <1>u DEF vars, history
<1> QED BY <1>1, <1>2, <1>3, <1>4, <1>5 DEF Next

(* The room, its client map, its bounded channels and its readers together *)
(* implement Broadcast: each reader is handed, in order, once and          *)
(* unaltered, messages published while it was a member.                    *)
THEOREM RoomRefinesBroadcast == Spec => ImplementsBroadcast
<1>1. Init => Abstract!BInit
  BY DEF Init, Abstract!BInit
<1> QED
  BY <1>1, BroadcastStep, RoomInvariant, PTL
  DEF Spec, ImplementsBroadcast, Abstract!BSpec
============================================================================
