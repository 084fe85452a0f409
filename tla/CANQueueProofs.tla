--------------------------- MODULE CANQueueProofs ---------------------------
(* What the operations on the schedule keep, for queues of every length.     *)
EXTENDS CANQueue, SequenceTheorems, FiniteSetTheorems, WellFoundedInduction,
        NaturalsInduction, TLAPS

(* Every set of natural numbers with an element has a least one. *)
LEMMA LeastNatural ==
  ASSUME NEW T, T \subseteq Nat, T # {}
  PROVE  \E m \in T : \A k \in T : m <= k
<1>1. PICK m \in T : \A k \in T : <<k, m>> \notin OpToRel(<, Nat)
  BY WFMin, NatLessThanWellFounded, Zenon
<1>2. \A k \in T : ~(k < m)
  BY <1>1, Zenon DEF OpToRel
<1>. QED  BY <1>2

(* A walk stops in front of the first element outside of S, or at the end. *)
LEMMA PrefixLengthIs ==
  ASSUME NEW n \in Nat, NEW S, S \subseteq 1 .. n
  PROVE  /\ PrefixLength(n, S) \in 0 .. n
         /\ 1 .. PrefixLength(n, S) \subseteq S
         /\ PrefixLength(n, S) + 1 \notin S
<1>. DEFINE T == {k \in Nat : k + 1 \notin S}
<1>1. n \in T
  OBVIOUS
<1>2. PICK m \in T : \A k \in T : m <= k
  BY <1>1, LeastNatural
<1>3. m \in 0 .. n
  BY <1>1, <1>2
<1>4. 1 .. m \subseteq S
  <2>. SUFFICES ASSUME NEW j \in 1 .. m PROVE j \in S
    OBVIOUS
  <2>1. j - 1 \in Nat /\ j - 1 < m
    OBVIOUS
  <2>. QED  BY <1>2, <2>1
<1>5. m + 1 \notin S
  OBVIOUS
<1>. QED  BY <1>3, <1>4, <1>5 DEF PrefixLength

(* The entries a queue of frames from M may have, and the frames it holds. *)
Entries(M) == [time_until : Int, msg : M]
Msgs(queue) == {queue[i].msg : i \in 1 .. Len(queue)}
Elems(seq) == {seq[i] : i \in 1 .. Len(seq)}
Ordered(queue) == \A i, j \in 1 .. Len(queue) : i < j => Due(queue[i]) <= Due(queue[j])

(* r is a, b and c put together. *)
IsConcat(S, r, a, b, c) ==
  /\ r \in Seq(S)
  /\ Len(r) = Len(a) + Len(b) + Len(c)
  /\ \A i \in 1 .. Len(r) :
       r[i] = IF i <= Len(a) THEN a[i]
              ELSE IF i <= Len(a) + Len(b) THEN b[i - Len(a)]
              ELSE c[i - (Len(a) + Len(b))]

(* Three sequences put together, element by element. *)
LEMMA Concat3 ==
  ASSUME NEW S, NEW a \in Seq(S), NEW b \in Seq(S), NEW c \in Seq(S)
  PROVE  IsConcat(S, (a \o b) \o c, a, b, c)
<1>. DEFINE ab == a \o b
            r  == ab \o c
<1>1. /\ ab \in Seq(S)
      /\ Len(ab) = Len(a) + Len(b)
      /\ \A i \in 1 .. Len(a) + Len(b) :
           ab[i] = IF i <= Len(a) THEN a[i] ELSE b[i - Len(a)]
  BY ConcatProperties
<1>. HIDE DEF ab
<1>2. /\ r \in Seq(S)
      /\ Len(r) = Len(ab) + Len(c)
      /\ \A i \in 1 .. Len(ab) + Len(c) :
           r[i] = IF i <= Len(ab) THEN ab[i] ELSE c[i - Len(ab)]
  <2>1. ab \in Seq(S)
    BY <1>1
  <2>. QED  BY <2>1, ConcatProperties, Zenon
<1>. HIDE DEF r
<1>3. IsConcat(S, r, a, b, c)
  BY <1>1, <1>2 DEF IsConcat
<1>. QED  BY <1>3 DEF r, ab

(* InsertBehind returns a queue whose entries are the old ones and the new. *)
LEMMA InsertBehindIs ==
  ASSUME NEW M, NEW queue \in Seq(Entries(M)), NEW k \in 0 .. Len(queue),
         NEW t \in Int, NEW msgs \in Seq(M)
  PROVE  /\ InsertBehind(queue, k, t, msgs) \in Seq(Entries(M))
         /\ Len(InsertBehind(queue, k, t, msgs)) = Len(queue) + Len(msgs)
         /\ \A i \in 1 .. Len(queue) + Len(msgs) :
              InsertBehind(queue, k, t, msgs)[i] =
                IF i <= k THEN queue[i]
                ELSE IF i <= k + Len(msgs) THEN [time_until |-> t, msg |-> msgs[i - k]]
                ELSE queue[i - Len(msgs)]
<1>. DEFINE front == SubSeq(queue, 1, k)
            new   == [i \in 1 .. Len(msgs) |-> [time_until |-> t, msg |-> msgs[i]]]
            back  == SubSeq(queue, k + 1, Len(queue))
            r     == InsertBehind(queue, k, t, msgs)
            n     == Len(queue)
            l     == Len(msgs)
<1>0. n \in Nat /\ l \in Nat /\ k \in 0 .. n
  OBVIOUS
<1>1. /\ front \in Seq(Entries(M))
      /\ Len(front) = k
      /\ \A i \in 1 .. k : front[i] = queue[i]
  <2>1. \A i \in 1 .. k : queue[i] \in Entries(M)
    OBVIOUS
  <2>2. /\ Len(front) = IF 1 <= k THEN k - 1 + 1 ELSE 0
        /\ \A i \in 1 .. k - 1 + 1 : front[i] = queue[1 + i - 1]
        /\ front \in Seq(Entries(M))
    BY <2>1, SubSeqProperties
  <2>. QED  BY <2>2
<1>2. /\ new \in Seq(Entries(M))
      /\ Len(new) = l
      /\ \A i \in 1 .. l : new[i] = [time_until |-> t, msg |-> msgs[i]]
  <2>1. \A i \in 1 .. Len(msgs) : [time_until |-> t, msg |-> msgs[i]] \in Entries(M)
    BY DEF Entries
  <2>2. new \in [1 .. Len(msgs) -> Entries(M)]
    BY <2>1
  <2>. QED  BY <2>2
<1>3. /\ back \in Seq(Entries(M))
      /\ Len(back) = n - k
      /\ \A i \in 1 .. n - k : back[i] = queue[k + i]
  <2>1. \A i \in k + 1 .. Len(queue) : queue[i] \in Entries(M)
    OBVIOUS
  <2>2. /\ Len(back) = IF k + 1 <= Len(queue) THEN Len(queue) - (k + 1) + 1 ELSE 0
        /\ \A i \in 1 .. Len(queue) - (k + 1) + 1 : back[i] = queue[(k + 1) + i - 1]
        /\ back \in Seq(Entries(M))
    BY <2>1, SubSeqProperties
  <2>. QED  BY <2>2
<1>4. r = (front \o new) \o back
  BY DEF InsertBehind
<1>. HIDE DEF front, new, back, r
<1>5. IsConcat(Entries(M), r, front, new, back)
  <2>1. front \in Seq(Entries(M)) /\ new \in Seq(Entries(M)) /\ back \in Seq(Entries(M))
    BY <1>1, <1>2, <1>3
  <2>. QED  BY <1>4, <2>1, Concat3, Zenon
<1>6. /\ r \in Seq(Entries(M))
      /\ Len(r) = n + l
      /\ \A i \in 1 .. n + l :
           r[i] = IF i <= k THEN front[i]
                  ELSE IF i <= k + l THEN new[i - k]
                  ELSE back[i - (k + l)]
  BY <1>0, <1>1, <1>2, <1>3, <1>5 DEF IsConcat
<1>. HIDE DEF n, l
<1>7. ASSUME NEW i \in 1 .. n + l
      PROVE  r[i] = IF i <= k THEN queue[i]
                    ELSE IF i <= k + l THEN [time_until |-> t, msg |-> msgs[i - k]]
                    ELSE queue[i - l]
  <2>1. CASE i <= k
    BY <1>0, <1>1, <1>6, <2>1
  <2>2. CASE i > k /\ i <= k + l
    BY <1>0, <1>1, <1>2, <1>6, <2>2
  <2>3. CASE i > k + l
    <3>1. r[i] = back[i - (k + l)]
      BY <1>0, <1>1, <1>2, <1>6, <2>3
    <3>2. i - (k + l) \in 1 .. n - k
      BY <1>0, <2>3
    <3>3. k + (i - (k + l)) = i - l
      BY <1>0
    <3>. QED  BY <1>0, <1>3, <2>3, <3>1, <3>2, <3>3
  <2>. QED  BY <1>0, <2>1, <2>2, <2>3
<1>. QED  BY <1>6, <1>7 DEF r, n, l

(* Nothing gets lost in a queue, and what is inserted gets in. *)
LEMMA InsertBehindMsgs ==
  ASSUME NEW M, NEW queue \in Seq(Entries(M)), NEW k \in 0 .. Len(queue),
         NEW t \in Int, NEW msgs \in Seq(M)
  PROVE  Msgs(InsertBehind(queue, k, t, msgs)) =
           Msgs(queue) \cup Elems(msgs)
<1>. DEFINE r == InsertBehind(queue, k, t, msgs)
<1>1. /\ Len(r) = Len(queue) + Len(msgs)
      /\ \A i \in 1 .. Len(queue) + Len(msgs) :
           r[i] = IF i <= k THEN queue[i]
                  ELSE IF i <= k + Len(msgs) THEN [time_until |-> t, msg |-> msgs[i - k]]
                  ELSE queue[i - Len(msgs)]
  BY InsertBehindIs
<1>. HIDE DEF r
<1>2. ASSUME NEW i \in 1 .. Len(r)
      PROVE  r[i].msg \in Msgs(queue) \cup Elems(msgs)
  <2>1. CASE i <= k
    BY <1>1, <2>1 DEF Msgs
  <2>2. CASE i > k /\ i <= k + Len(msgs)
    <3>1. i - k \in 1 .. Len(msgs) /\ r[i].msg = msgs[i - k]
      BY <1>1, <2>2
    <3>. QED  BY <3>1 DEF Elems
  <2>3. CASE i > k + Len(msgs)
    <3>1. i - Len(msgs) \in 1 .. Len(queue) /\ r[i] = queue[i - Len(msgs)]
      BY <1>1, <2>3
    <3>. QED  BY <3>1 DEF Msgs
  <2>. QED  BY <2>1, <2>2, <2>3
<1>3. ASSUME NEW j \in 1 .. Len(queue) PROVE queue[j].msg \in Msgs(r)
  <2>1. CASE j <= k
    <3>1. j \in 1 .. Len(r) /\ r[j] = queue[j]
      BY <1>1, <2>1
    <3>. QED  BY <3>1 DEF Msgs
  <2>2. CASE j > k
    <3>1. /\ j + Len(msgs) \in 1 .. Len(queue) + Len(msgs)
          /\ ~(j + Len(msgs) <= k) /\ ~(j + Len(msgs) <= k + Len(msgs))
          /\ (j + Len(msgs)) - Len(msgs) = j
      BY <2>2
    <3>2. r[j + Len(msgs)] = queue[j]
      BY <1>1, <3>1
    <3>. QED  BY <1>1, <3>1, <3>2 DEF Msgs
  <2>. QED  BY <2>1, <2>2
<1>4. ASSUME NEW j \in 1 .. Len(msgs) PROVE msgs[j] \in Msgs(r)
  <2>1. /\ k + j \in 1 .. Len(queue) + Len(msgs)
        /\ ~(k + j <= k) /\ k + j <= k + Len(msgs)
        /\ (k + j) - k = j
    OBVIOUS
  <2>2. r[k + j].msg = msgs[j]
    BY <1>1, <2>1
  <2>. QED  BY <1>1, <2>1, <2>2 DEF Msgs
<1>. QED  BY <1>2, <1>3, <1>4 DEF Msgs, Elems, r

(* How far enqueueCANMessage walks. *)
LEMMA WalkedPastIs ==
  ASSUME NEW M, NEW queue \in Seq(Entries(M)), NEW t, NEW command
  PROVE  /\ WalkedPast(queue, t, command) \in 0 .. Len(queue)
         /\ \A i \in 1 .. WalkedPast(queue, t, command) : GoesBehind(t, command, queue[i])
         /\ WalkedPast(queue, t, command) < Len(queue) =>
              ~GoesBehind(t, command, queue[WalkedPast(queue, t, command) + 1])
<1>. DEFINE n == Len(queue)
            S == {i \in 1 .. Len(queue) : GoesBehind(t, command, queue[i])}
            k == PrefixLength(n, S)
<1>1. n \in Nat /\ S \subseteq 1 .. n
  OBVIOUS
<1>2. WalkedPast(queue, t, command) = k
  BY DEF WalkedPast
<1>3. k \in 0 .. n /\ 1 .. k \subseteq S /\ k + 1 \notin S
  <2>. HIDE DEF n, S
  <2>. QED  BY <1>1, PrefixLengthIs
<1>. HIDE DEF k
<1>. QED  BY <1>1, <1>2, <1>3

(* What EnqueueAll returns is typed, loses no frame and adds the given ones. *)
LEMMA EnqueueAllIs ==
  ASSUME NEW M, NEW queue \in Seq(Entries(M)), NEW t \in Int, NEW msgs \in Seq(M)
  PROVE  /\ EnqueueAll(queue, t, msgs) \in Seq(Entries(M))
         /\ Msgs(EnqueueAll(queue, t, msgs)) =
              Msgs(queue) \cup Elems(msgs)
<1>1. CASE msgs = <<>>
  BY <1>1 DEF EnqueueAll, Elems
<1>2. CASE msgs # <<>> /\ queue = <<>>
  <2>. DEFINE all == <<msgs[1]>> \o msgs
  <2>1. msgs[1] \in M /\ 1 \in 1 .. Len(msgs)
    BY <1>2
  <2>2. /\ all \in Seq(M)
        /\ Len(all) = 1 + Len(msgs)
        /\ \A i \in 1 .. 1 + Len(msgs) : all[i] = IF i <= 1 THEN msgs[1] ELSE msgs[i - 1]
    BY <2>1
  <2>3. EnqueueAll(queue, t, msgs) = InsertBehind(queue, 0, t, all)
    BY <1>2 DEF EnqueueAll
  <2>. HIDE DEF all
  <2>4. /\ InsertBehind(queue, 0, t, all) \in Seq(Entries(M))
        /\ Msgs(InsertBehind(queue, 0, t, all)) =
             Msgs(queue) \cup Elems(all)
    BY <2>2, InsertBehindIs, InsertBehindMsgs
  <2>5. Elems(all) = Elems(msgs)
    <3>1. ASSUME NEW i \in 1 .. Len(all) PROVE all[i] \in Elems(msgs)
      <4>1. CASE i <= 1
        BY <2>1, <2>2, <4>1 DEF Elems
      <4>2. CASE i > 1
        <5>1. i - 1 \in 1 .. Len(msgs) /\ all[i] = msgs[i - 1]
          BY <2>2, <4>2
        <5>. QED  BY <5>1 DEF Elems
      <4>. QED  BY <4>1, <4>2
    <3>2. ASSUME NEW j \in 1 .. Len(msgs) PROVE msgs[j] \in Elems(all)
      <4>1. j + 1 \in 1 .. Len(all) /\ ~(j + 1 <= 1) /\ (j + 1) - 1 = j
        BY <2>2
      <4>. QED  BY <2>2, <4>1 DEF Elems
    <3>. QED  BY <3>1, <3>2 DEF Elems
  <2>. QED  BY <2>3, <2>4, <2>5
<1>3. CASE msgs # <<>> /\ queue # <<>>
  <2>. DEFINE k == WalkedPast(queue, t, msgs[1].command)
  <2>1. k \in 0 .. Len(queue)
    BY WalkedPastIs
  <2>2. EnqueueAll(queue, t, msgs) = InsertBehind(queue, k, t, msgs)
    BY <1>3 DEF EnqueueAll
  <2>. HIDE DEF k
  <2>. QED  BY <2>1, <2>2, InsertBehindIs, InsertBehindMsgs
<1>. QED  BY <1>1, <1>2, <1>3

(* One call of enqueueCANMessage returns a queue that holds the frame as well. *)
LEMMA EnqueueIs ==
  ASSUME NEW M, NEW queue \in Seq(Entries(M)), NEW t \in Int, NEW msg \in M
  PROVE  /\ Enqueue(queue, t, msg) \in Seq(Entries(M))
         /\ Msgs(Enqueue(queue, t, msg)) = Msgs(queue) \cup {msg}
<1>. DEFINE one == <<msg>>
<1>1. one \in Seq(M) /\ Elems(one) = {msg}
  BY DEF Elems
<1>2. Enqueue(queue, t, msg) = EnqueueAll(queue, t, one)
  BY DEF Enqueue
<1>. HIDE DEF one
<1>3. /\ EnqueueAll(queue, t, one) \in Seq(Entries(M))
      /\ Msgs(EnqueueAll(queue, t, one)) = Msgs(queue) \cup Elems(one)
  <2>1. one \in Seq(M)
    BY <1>1
  <2>. QED  BY <2>1, EnqueueAllIs
<1>. QED  BY <1>1, <1>2, <1>3

(* Passing time changes nothing but the times, and all by the same. *)
LEMMA PassTimeIs ==
  ASSUME NEW M, NEW queue \in Seq(Entries(M)), NEW d \in Int
  PROVE  /\ PassTime(queue, d) \in Seq(Entries(M))
         /\ Len(PassTime(queue, d)) = Len(queue)
         /\ \A i \in 1 .. Len(queue) :
              /\ PassTime(queue, d)[i].msg = queue[i].msg
              /\ PassTime(queue, d)[i].time_until = queue[i].time_until - d
         /\ Msgs(PassTime(queue, d)) = Msgs(queue)
<1>. DEFINE r == PassTime(queue, d)
<1>1. r = [i \in 1 .. Len(queue) |->
             [queue[i] EXCEPT !.time_until = queue[i].time_until - d]]
  BY DEF PassTime
<1>2. \A e \in Entries(M) :
        LET f == [e EXCEPT !.time_until = e.time_until - d]
        IN  f \in Entries(M) /\ f.msg = e.msg /\ f.time_until = e.time_until - d
  BY DEF Entries
<1>. HIDE DEF r
<1>3. r \in Seq(Entries(M)) /\ Len(r) = Len(queue)
  BY <1>1, <1>2
<1>4. ASSUME NEW i \in 1 .. Len(queue)
      PROVE  r[i].msg = queue[i].msg /\ r[i].time_until = queue[i].time_until - d
  <2>1. queue[i] \in Entries(M)
    OBVIOUS
  <2>2. r[i] = [queue[i] EXCEPT !.time_until = queue[i].time_until - d]
    BY <1>1
  <2>. QED  BY <1>2, <2>1, <2>2
<1>5. Msgs(r) = Msgs(queue)
  BY <1>3, <1>4 DEF Msgs
<1>. QED  BY <1>3, <1>4, <1>5 DEF r

(* Only frames that are addressed to nobody are dropped. *)
LEMMA DeliverableIs ==
  ASSUME NEW M, NEW queue \in Seq(Entries(M)), NEW nodes
  PROVE  /\ Deliverable(queue, nodes) \in Seq(Entries(M))
         /\ Msgs(Deliverable(queue, nodes)) \subseteq Msgs(queue)
         /\ \A m \in Msgs(queue) : m.to \in nodes => m \in Msgs(Deliverable(queue, nodes))
         /\ Deliverable(queue, nodes) # <<>> =>
              \/ Deliverable(queue, nodes)[1].time_until > 0
              \/ Deliverable(queue, nodes)[1].msg.to \in nodes
         /\ Ordered(queue) => Ordered(Deliverable(queue, nodes))
<1>. DEFINE n == Len(queue)
            S == {i \in 1 .. Len(queue) : /\ queue[i].time_until <= 0
                                          /\ queue[i].msg.to \notin nodes}
            k == PrefixLength(n, S)
            r == SubSeq(queue, k + 1, Len(queue))
<1>1. n \in Nat /\ S \subseteq 1 .. n
  OBVIOUS
<1>2. Deliverable(queue, nodes) = r
  BY DEF Deliverable
<1>3. k \in 0 .. n /\ 1 .. k \subseteq S /\ k + 1 \notin S
  <2>. HIDE DEF n, S
  <2>. QED  BY <1>1, PrefixLengthIs
<1>. HIDE DEF k
<1>4. /\ r \in Seq(Entries(M))
      /\ Len(r) = n - k
      /\ \A i \in 1 .. n - k : r[i] = queue[k + i]
  <2>1. \A i \in k + 1 .. Len(queue) : queue[i] \in Entries(M)
    BY <1>3
  <2>2. /\ Len(r) = IF k + 1 <= Len(queue) THEN Len(queue) - (k + 1) + 1 ELSE 0
        /\ \A i \in 1 .. Len(queue) - (k + 1) + 1 : r[i] = queue[(k + 1) + i - 1]
        /\ r \in Seq(Entries(M))
    <3>1. k + 1 \in Int /\ Len(queue) \in Int
      BY <1>3
    <3>. QED  BY <2>1, <3>1, SubSeqProperties
  <2>. QED  BY <1>3, <2>2
<1>. HIDE DEF r
<1>5. Msgs(r) \subseteq Msgs(queue)
  BY <1>3, <1>4 DEF Msgs
<1>6. ASSUME NEW j \in 1 .. n, queue[j].msg.to \in nodes
      PROVE  queue[j].msg \in Msgs(r)
  <2>1. j > k
    BY <1>3, <1>6
  <2>2. j - k \in 1 .. n - k /\ k + (j - k) = j
    BY <1>3, <2>1
  <2>. QED  BY <1>4, <2>2 DEF Msgs
<1>7. r # <<>> => r[1].time_until > 0 \/ r[1].msg.to \in nodes
  <2>. SUFFICES ASSUME r # <<>> PROVE ~(r[1].time_until <= 0 /\ r[1].msg.to \notin nodes)
    <3>1. r # <<>> => r[1] \in Entries(M)
      BY <1>4
    <3>2. r # <<>> => r[1].time_until \in Int
      BY <3>1 DEF Entries
    <3>. QED  BY <3>2
  <2>1. 1 \in 1 .. n - k
    BY <1>3, <1>4
  <2>. QED  BY <1>3, <1>4, <2>1
<1>8. ASSUME Ordered(queue) PROVE Ordered(r)
  <2>. SUFFICES ASSUME NEW i \in 1 .. Len(r), NEW j \in 1 .. Len(r), i < j
                PROVE  Due(r[i]) <= Due(r[j])
    BY DEF Ordered
  <2>1. k + i \in 1 .. Len(queue) /\ k + j \in 1 .. Len(queue) /\ k + i < k + j
    BY <1>3, <1>4
  <2>2. r[i] = queue[k + i] /\ r[j] = queue[k + j]
    BY <1>3, <1>4
  <2>. QED  BY <1>8, <2>1, <2>2 DEF Ordered
<1>. QED  BY <1>2, <1>4, <1>5, <1>6, <1>7, <1>8 DEF Msgs

(* Taking the first entry off leaves the frames behind it. *)
LEMMA TailIs ==
  ASSUME NEW M, NEW queue \in Seq(Entries(M)), queue # <<>>
  PROVE  /\ Tail(queue) \in Seq(Entries(M))
         /\ queue[1] \in Entries(M)
         /\ Msgs(queue) = Msgs(Tail(queue)) \cup {queue[1].msg}
         /\ Ordered(queue) => Ordered(Tail(queue))
<1>. DEFINE r == Tail(queue)
<1>1. /\ r \in Seq(Entries(M))
      /\ Len(r) = Len(queue) - 1
      /\ \A i \in 1 .. Len(r) : r[i] = queue[i + 1]
      /\ queue[1] \in Entries(M) /\ 1 \in 1 .. Len(queue)
  OBVIOUS
<1>. HIDE DEF r
<1>2. ASSUME NEW j \in 1 .. Len(queue), j # 1 PROVE queue[j].msg \in Msgs(r)
  <2>1. j - 1 \in 1 .. Len(r) /\ (j - 1) + 1 = j
    BY <1>1, <1>2
  <2>. QED  BY <1>1, <2>1 DEF Msgs
<1>3. ASSUME NEW j \in 1 .. Len(r) PROVE r[j].msg \in Msgs(queue)
  BY <1>1 DEF Msgs
<1>4. Ordered(queue) => Ordered(r)
  BY <1>1 DEF Ordered
<1>. QED  BY <1>1, <1>2, <1>3, <1>4 DEF Msgs, r

(* A new frame goes where the order has it. *)
LEMMA InsertBehindOrdered ==
  ASSUME NEW M, NEW queue \in Seq(Entries(M)), NEW k \in 0 .. Len(queue),
         NEW t \in Nat, NEW msgs \in Seq(M), Ordered(queue),
         \A i \in 1 .. k : Due(queue[i]) <= t,
         k < Len(queue) => t <= Due(queue[k + 1])
  PROVE  Ordered(InsertBehind(queue, k, t, msgs))
<1>. DEFINE r == InsertBehind(queue, k, t, msgs)
            l == Len(msgs)
            n == Len(queue)
<1>1. /\ Len(r) = n + l
      /\ \A i \in 1 .. n + l :
           r[i] = IF i <= k THEN queue[i]
                  ELSE IF i <= k + l THEN [time_until |-> t, msg |-> msgs[i - k]]
                  ELSE queue[i - l]
  BY InsertBehindIs
<1>2. n \in Nat /\ l \in Nat
  OBVIOUS
<1>3. \A i \in 1 .. n : Due(queue[i]) \in Int
  <2>1. \A i \in 1 .. n : queue[i] \in Entries(M)
    OBVIOUS
  <2>. QED  BY <2>1 DEF Entries, Due
<1>4. \A i \in k + 1 .. n : t <= Due(queue[i])
  <2>. SUFFICES ASSUME NEW i \in k + 1 .. n PROVE t <= Due(queue[i])
    OBVIOUS
  <2>1. k + 1 \in 1 .. n /\ i \in 1 .. n /\ k < n
    BY <1>2
  <2>2. i = k + 1 \/ Due(queue[k + 1]) <= Due(queue[i])
    BY <2>1 DEF Ordered
  <2>. QED  BY <1>3, <2>1, <2>2
<1>. HIDE DEF r, n, l
<1>5. \A i \in 1 .. n + l :
        Due(r[i]) = IF i <= k THEN Due(queue[i])
                    ELSE IF i <= k + l THEN t
                    ELSE Due(queue[i - l])
  <2>1. \A m : Due([time_until |-> t, msg |-> m]) = t
    BY DEF Due
  <2>. QED  BY <1>1, <1>2, <2>1
<1>. SUFFICES ASSUME NEW i \in 1 .. n + l, NEW j \in 1 .. n + l, i < j
              PROVE  Due(r[i]) <= Due(r[j])
  BY <1>1 DEF Ordered, r
<1>6. \A a, b \in 1 .. n : a < b => Due(queue[a]) <= Due(queue[b])
  BY DEF Ordered, n
<1>7. k \in 0 .. n
  BY DEF n
<1>8. CASE j <= k
  <2>1. i \in 1 .. n /\ j \in 1 .. n
    BY <1>2, <1>7, <1>8
  <2>. QED  BY <1>5, <1>6, <1>7, <1>8, <2>1
<1>9. CASE j > k /\ j <= k + l
  <2>1. i <= k => Due(queue[i]) <= t
    BY <1>7
  <2>. QED  BY <1>2, <1>5, <1>7, <1>9, <2>1
<1>10. CASE j > k + l
  <2>1. /\ j - l \in k + 1 .. n
        /\ Due(r[j]) = Due(queue[j - l])
        /\ t <= Due(queue[j - l])
    BY <1>2, <1>4, <1>5, <1>7, <1>10
  <2>2. CASE i <= k
    <3>1. i \in 1 .. n /\ j - l \in 1 .. n /\ i < j - l /\ Due(r[i]) = Due(queue[i])
      BY <1>2, <1>5, <1>7, <2>1, <2>2
    <3>. QED  BY <1>6, <2>1, <3>1
  <2>3. CASE i > k /\ i <= k + l
    BY <1>2, <1>5, <1>7, <2>1, <2>3
  <2>4. CASE i > k + l
    <3>1. /\ i - l \in 1 .. n /\ j - l \in 1 .. n /\ i - l < j - l
          /\ Due(r[i]) = Due(queue[i - l])
      BY <1>2, <1>5, <1>7, <2>1, <2>4
    <3>. QED  BY <1>6, <2>1, <3>1
  <2>. QED  BY <1>2, <1>7, <2>2, <2>3, <2>4
<1>. QED  BY <1>2, <1>7, <1>8, <1>9, <1>10

(* Frames put in the queue at their due time leave it in order. *)
LEMMA EnqueueAllOrdered ==
  ASSUME NEW M, NEW queue \in Seq(Entries(M)), NEW t \in Nat, NEW msgs \in Seq(M),
         Ordered(queue)
  PROVE  Ordered(EnqueueAll(queue, t, msgs))
<1>1. CASE msgs = <<>>
  BY <1>1 DEF EnqueueAll
<1>2. CASE msgs # <<>> /\ queue = <<>>
  <2>. DEFINE all == <<msgs[1]>> \o msgs
  <2>1. all \in Seq(M)
    BY <1>2
  <2>2. EnqueueAll(queue, t, msgs) = InsertBehind(queue, 0, t, all)
    BY <1>2 DEF EnqueueAll
  <2>. HIDE DEF all
  <2>3. /\ 0 \in 0 .. Len(queue)
        /\ \A i \in 1 .. 0 : Due(queue[i]) <= t
        /\ ~(0 < Len(queue))
    BY <1>2
  <2>4. Ordered(InsertBehind(queue, 0, t, all))
    BY <2>1, <2>3, InsertBehindOrdered
  <2>. QED  BY <2>2, <2>4
<1>3. CASE msgs # <<>> /\ queue # <<>>
  <2>. DEFINE c == msgs[1].command
              k == WalkedPast(queue, t, c)
  <2>1. /\ k \in 0 .. Len(queue)
        /\ \A i \in 1 .. k : GoesBehind(t, c, queue[i])
        /\ k < Len(queue) => ~GoesBehind(t, c, queue[k + 1])
    BY WalkedPastIs
  <2>2. EnqueueAll(queue, t, msgs) = InsertBehind(queue, k, t, msgs)
    BY <1>3 DEF EnqueueAll
  <2>. HIDE DEF k, c
  <2>3. \A i \in 1 .. Len(queue) : Due(queue[i]) \in Int
    <3>1. \A i \in 1 .. Len(queue) : queue[i] \in Entries(M)
      OBVIOUS
    <3>. QED  BY <3>1 DEF Entries, Due
  <2>4. \A i \in 1 .. k : Due(queue[i]) <= t
    BY <2>1, <2>3 DEF GoesBehind
  <2>5. k < Len(queue) => t <= Due(queue[k + 1])
    BY <2>1, <2>3 DEF GoesBehind
  <2>. QED  BY <2>1, <2>2, <2>4, <2>5, InsertBehindOrdered
<1>. QED  BY <1>1, <1>2, <1>3

(* Passing time leaves the queue in order, overdue frames included. *)
LEMMA PassTimeOrdered ==
  ASSUME NEW M, NEW queue \in Seq(Entries(M)), NEW d \in Int, Ordered(queue), d >= 0
  PROVE  Ordered(PassTime(queue, d))
<1>. DEFINE r == PassTime(queue, d)
<1>1. /\ Len(r) = Len(queue)
      /\ \A i \in 1 .. Len(queue) : r[i].time_until = queue[i].time_until - d
  BY PassTimeIs
<1>2. \A i \in 1 .. Len(queue) : queue[i].time_until \in Int
  <2>1. \A i \in 1 .. Len(queue) : queue[i] \in Entries(M)
    OBVIOUS
  <2>. QED  BY <2>1 DEF Entries
<1>. HIDE DEF r
<1>3. \A i, j \in 1 .. Len(queue) : Due(queue[i]) <= Due(queue[j]) => Due(r[i]) <= Due(r[j])
  BY <1>1, <1>2 DEF Due
<1>4. Ordered(r)
  BY <1>1, <1>3 DEF Ordered
<1>. QED  BY <1>4 DEF r

-----------------------------------------------------------------------------
(* Counting: how many entries from position p on hold a frame of F.         *)

After(queue, p, F) == {i \in p .. Len(queue) : queue[i].msg \in F}
Count(queue, p, F) == Cardinality(After(queue, p, F))

(* Two sets that are mapped to one another have the same size. *)
LEMMA SameSize ==
  ASSUME NEW A, NEW B, IsFiniteSet(A), NEW f \in [A -> B],
         \A x, y \in A : f[x] = f[y] => x = y,
         \A b \in B : \E x \in A : f[x] = b
  PROVE  IsFiniteSet(B) /\ Cardinality(B) = Cardinality(A)
<1>1. f \in Bijection(A, B)
  BY DEF Bijection, Injection, Surjection, IsInjective
<1>. QED  BY <1>1, FS_Bijection DEF ExistsBijection

(* Moving numbers up by d changes neither that they are finitely many nor how *)
(* many they are.                                                             *)
LEMMA MovedUp ==
  ASSUME NEW A, A \subseteq Int, IsFiniteSet(A), NEW d \in Int
  PROVE  IsFiniteSet({i + d : i \in A}) /\ Cardinality({i + d : i \in A}) = Cardinality(A)
<1>. DEFINE B == {i + d : i \in A}
            f == [i \in A |-> i + d]
<1>1. f \in [A -> B]
  OBVIOUS
<1>2. \A x, y \in A : f[x] = f[y] => x = y
  OBVIOUS
<1>3. \A b \in B : \E x \in A : f[x] = b
  <2>. SUFFICES ASSUME NEW b \in B PROVE \E x \in A : f[x] = b
    OBVIOUS
  <2>1. PICK x \in A : b = x + d
    OBVIOUS
  <2>. QED  BY <2>1
<1>. HIDE DEF B, f
<1>4. IsFiniteSet(B) /\ Cardinality(B) = Cardinality(A)
  BY <1>1, <1>2, <1>3, SameSize
<1>. QED  BY <1>4 DEF B

(* A count is a number, and no count grows when it starts further back. *)
LEMMA CountIs ==
  ASSUME NEW M, NEW queue \in Seq(Entries(M)), NEW p \in Nat, NEW F
  PROVE  IsFiniteSet(After(queue, p, F)) /\ Count(queue, p, F) \in Nat
<1>1. IsFiniteSet(p .. Len(queue))
  BY FS_Interval
<1>2. After(queue, p, F) \in SUBSET (p .. Len(queue))
  BY DEF After
<1>. QED  BY <1>1, <1>2, FS_Subset, FS_CardinalityType DEF Count

(* Where a count from p on in a queue that l frames were put into, behind its *)
(* first k entries, starts in the queue before.                               *)
OldPosition(k, l, p) == IF p <= k + 1 THEN p ELSE IF p <= k + l THEN k + 1 ELSE p - l

(* The old entries from p on, moved up; and the new ones. *)
LEMMA CountInserted ==
  ASSUME NEW M, NEW queue \in Seq(Entries(M)), NEW k \in 0 .. Len(queue),
         NEW t \in Int, NEW msgs \in Seq(M), NEW F,
         NEW p \in Nat \ {0}
  PROVE  /\ OldPosition(k, Len(msgs), p) \in Nat \ {0}
         /\ Count(InsertBehind(queue, k, t, msgs), p, F) =
              Count(queue, OldPosition(k, Len(msgs), p), F)
                + Cardinality({j \in 1 .. Len(msgs) : p <= k + j /\ msgs[j] \in F})
<1>. DEFINE n == Len(queue)
            l == Len(msgs)
            o == OldPosition(k, l, p)
            r == InsertBehind(queue, k, t, msgs)
            g == [i \in 1 .. n |-> IF i <= k THEN i ELSE i + l]
            J == {j \in 1 .. l : p <= k + j /\ msgs[j] \in F}
            A == After(queue, o, F)
            X == {g[i] : i \in A}
            Y == {j + k : j \in J}
<1>1. n \in Nat /\ l \in Nat /\ k \in 0 .. n /\ p \in Nat \ {0}
  OBVIOUS
<1>2. /\ Len(r) = n + l
      /\ \A i \in 1 .. n + l :
           r[i] = IF i <= k THEN queue[i]
                  ELSE IF i <= k + l THEN [time_until |-> t, msg |-> msgs[i - k]]
                  ELSE queue[i - l]
  BY InsertBehindIs
<1>3. o \in Nat \ {0}
  <2>. HIDE DEF n, l
  <2>. QED  BY <1>1 DEF OldPosition
<1>4. A \subseteq 1 .. n /\ J \subseteq 1 .. l
  BY <1>3 DEF After
<1>5. A = {i \in o .. n : queue[i].msg \in F}
  BY DEF After
<1>6. \A j \in 1 .. l : j \in J <=> p <= k + j /\ msgs[j] \in F
  OBVIOUS
<1>7. /\ \A i \in 1 .. n : i <= k => g[i] = i
      /\ \A i \in 1 .. n : i > k => g[i] = i + l
  BY <1>1
<1>8. After(r, p, F) = {i \in p .. n + l : r[i].msg \in F}
  BY <1>2 DEF After
<1>9. g \in [1 .. n -> Int]
  BY <1>1
<1>. HIDE DEF n, l, r, g, J, A
<1>10. \A i \in A : g[i] \in After(r, p, F)
  <2>. SUFFICES ASSUME NEW i \in A PROVE g[i] \in After(r, p, F)
    OBVIOUS
  <2>1. i \in 1 .. n /\ o <= i /\ queue[i].msg \in F
    BY <1>3, <1>4, <1>5
  <2>2. CASE i <= k
    <3>1. p <= i /\ i \in 1 .. n + l
      BY <1>1, <1>3, <2>1, <2>2 DEF OldPosition
    <3>2. r[i] = queue[i] /\ g[i] = i
      BY <1>2, <1>7, <2>1, <2>2, <3>1
    <3>. QED  BY <1>1, <1>8, <2>1, <3>1, <3>2
  <2>3. CASE i > k
    <3>1. g[i] = i + l /\ i + l \in 1 .. n + l /\ ~(i + l <= k + l) /\ ~(i + l <= k)
          /\ (i + l) - l = i
      BY <1>1, <1>7, <2>1, <2>3
    <3>2. r[g[i]] = queue[i]
      BY <1>2, <3>1
    <3>3. p <= i + l
      BY <1>1, <1>3, <2>1, <2>3 DEF OldPosition
    <3>. QED  BY <1>8, <1>1, <2>1, <3>1, <3>2, <3>3
  <2>. QED  BY <1>1, <2>1, <2>2, <2>3
<1>11. \A j \in J : j + k \in After(r, p, F)
  <2>. SUFFICES ASSUME NEW j \in J PROVE j + k \in After(r, p, F)
    OBVIOUS
  <2>1. /\ j \in 1 .. l /\ p <= k + j /\ msgs[j] \in F
    BY <1>4, <1>6
  <2>2. j + k \in 1 .. n + l /\ ~(j + k <= k) /\ j + k <= k + l /\ (j + k) - k = j
    BY <1>1, <2>1
  <2>3. r[j + k].msg = msgs[j]
    BY <1>2, <2>2
  <2>. QED  BY <1>1, <1>8, <2>1, <2>2, <2>3
<1>12. \A i \in After(r, p, F) : i \in X \/ i \in Y
  <2>. SUFFICES ASSUME NEW i \in After(r, p, F) PROVE i \in X \/ i \in Y
    OBVIOUS
  <2>1. i \in 1 .. n + l /\ p <= i /\ r[i].msg \in F
    BY <1>1, <1>8
  <2>2. CASE i <= k
    <3>1. i \in 1 .. n /\ r[i] = queue[i] /\ o <= i
      BY <1>1, <1>2, <1>3, <2>1, <2>2 DEF OldPosition
    <3>2. i \in A /\ g[i] = i
      BY <1>1, <1>3, <1>5, <1>7, <2>1, <2>2, <3>1
    <3>. QED  BY <3>2
  <2>3. CASE i > k /\ i <= k + l
    <3>1. i - k \in 1 .. l /\ (i - k) + k = i /\ k + (i - k) = i /\ r[i].msg = msgs[i - k]
      BY <1>1, <1>2, <2>1, <2>3
    <3>2. i - k \in J
      BY <1>6, <2>1, <3>1
    <3>. QED  BY <3>1, <3>2
  <2>4. CASE i > k + l
    <3>1. /\ i - l \in 1 .. n /\ i - l > k /\ (i - l) + l = i
          /\ r[i] = queue[i - l]
      BY <1>1, <1>2, <2>1, <2>4
    <3>2. o <= i - l
      BY <1>1, <1>3, <2>1, <2>4 DEF OldPosition
    <3>3. i - l \in A /\ g[i - l] = i
      BY <1>1, <1>3, <1>5, <1>7, <2>1, <3>1, <3>2
    <3>. QED  BY <3>3
  <2>. QED  BY <1>1, <2>1, <2>2, <2>3, <2>4
<1>13. After(r, p, F) = X \cup Y
  BY <1>10, <1>11, <1>12
<1>14. IsFiniteSet(A) /\ IsFiniteSet(J)
  <2>1. IsFiniteSet(1 .. n) /\ IsFiniteSet(1 .. l)
    BY <1>1, FS_Interval
  <2>2. A \in SUBSET (1 .. n) /\ J \in SUBSET (1 .. l)
    BY <1>4
  <2>. QED  BY <2>1, <2>2, FS_Subset
<1>15. IsFiniteSet(Y) /\ Cardinality(Y) = Cardinality(J)
  <2>1. J \subseteq Int /\ k \in Int
    BY <1>1, <1>4
  <2>. QED  BY <1>14, <2>1, MovedUp
<1>16. /\ \A i \in A : g[i] \in X
       /\ \A x \in X : \E i \in A : x = g[i]
       /\ \A y \in Y : \E j \in J : y = j + k
  OBVIOUS
<1>. HIDE DEF X, Y
<1>17. X \cap Y = {}
  <2>1. ASSUME NEW x \in X, x \in Y PROVE FALSE
    <3>1. PICK i \in A : x = g[i]
      BY <1>16
    <3>2. PICK j \in J : x = j + k
      BY <1>16, <2>1
    <3>3. i \in 1 .. n /\ j \in 1 .. l
      BY <1>4
    <3>4. CASE i <= k
      <4>1. g[i] = i
        BY <1>7, <3>3, <3>4
      <4>2. i = j + k
        BY <3>1, <3>2, <4>1, Zenon
      <4>. QED  BY <1>1, <3>3, <3>4, <4>2
    <3>5. CASE i > k
      <4>1. g[i] = i + l
        BY <1>7, <3>3, <3>5
      <4>2. i + l = j + k
        BY <3>1, <3>2, <4>1, Zenon
      <4>. QED  BY <1>1, <3>3, <3>5, <4>2
    <3>. QED  BY <1>1, <3>3, <3>4, <3>5
  <2>. QED  BY <2>1
<1>18. IsFiniteSet(X) /\ Cardinality(X) = Cardinality(A)
  <2>. DEFINE f == [i \in A |-> g[i]]
  <2>1. f \in [A -> X]
    BY <1>16
  <2>2. \A x, y \in A : f[x] = f[y] => x = y
    BY <1>1, <1>4, <1>7
  <2>3. \A b \in X : \E x \in A : f[x] = b
    BY <1>16
  <2>. HIDE DEF f
  <2>. QED  BY <1>14, <2>1, <2>2, <2>3, SameSize
<1>19. Cardinality(A) \in Nat /\ Cardinality(J) \in Nat
  BY <1>14, FS_CardinalityType
<1>20. Cardinality(X \cup Y) = Cardinality(A) + Cardinality(J)
  <2>1. Cardinality(X \cup Y) = Cardinality(X) + Cardinality(Y) - Cardinality(X \cap Y)
    BY <1>15, <1>18, FS_Union
  <2>2. Cardinality(X \cap Y) = 0
    BY <1>17, FS_EmptySet
  <2>. QED  BY <1>15, <1>19, <1>18, <2>1, <2>2
<1>21. Count(r, p, F) = Cardinality(A) + Cardinality(J)
  BY <1>13, <1>20 DEF Count
<1>. QED  BY <1>3, <1>21 DEF Count, A, J, r, n, l

(* No count grows when it starts further back. *)
LEMMA CountGrows ==
  ASSUME NEW M, NEW queue \in Seq(Entries(M)), NEW p \in Nat, NEW o \in Nat, p <= o, NEW F
  PROVE  Count(queue, o, F) <= Count(queue, p, F)
<1>1. After(queue, o, F) \in SUBSET After(queue, p, F)
  BY DEF After
<1>2. IsFiniteSet(After(queue, p, F))
  BY CountIs
<1>. QED  BY <1>1, <1>2, FS_Subset DEF Count

(* A count is zero exactly where no such frame follows. *)
LEMMA CountIsZero ==
  ASSUME NEW M, NEW queue \in Seq(Entries(M)), NEW p \in Nat, NEW F
  PROVE  Count(queue, p, F) = 0 <=> \A i \in p .. Len(queue) : queue[i].msg \notin F
<1>1. IsFiniteSet(After(queue, p, F))
  BY CountIs
<1>2. Count(queue, p, F) = 0 <=> After(queue, p, F) = {}
  BY <1>1, FS_EmptySet DEF Count
<1>. QED  BY <1>2 DEF After

(* A queue that lost its first d entries holds what follows them. *)
LEMMA CountShifted ==
  ASSUME NEW M, NEW queue \in Seq(Entries(M)), NEW r \in Seq(Entries(M)), NEW d \in Nat,
         Len(r) + d = Len(queue),
         \A i \in 1 .. Len(r) : r[i].msg = queue[i + d].msg,
         NEW p \in Nat \ {0}, NEW F
  PROVE  Count(r, p, F) = Count(queue, p + d, F)
<1>. DEFINE n == Len(r)
            A == After(r, p, F)
            B == After(queue, p + d, F)
            X == {i + d : i \in A}
<1>1. n \in Nat /\ d \in Nat /\ p \in Nat /\ p > 0
  OBVIOUS
<1>2. /\ \A i : i \in A <=> i \in p .. n /\ r[i].msg \in F
      /\ \A i : i \in B <=> i \in p + d .. n + d /\ queue[i].msg \in F
  BY DEF After
<1>3. \A i \in 1 .. n : r[i].msg = queue[i + d].msg
  OBVIOUS
<1>4. A \subseteq 1 .. n
  BY <1>1, <1>2
<1>5. IsFiniteSet(A)
  BY <1>1, CountIs
<1>6. /\ \A i \in A : i + d \in X
      /\ \A x \in X : \E i \in A : x = i + d
  OBVIOUS
<1>7. IsFiniteSet(X) /\ Cardinality(X) = Cardinality(A)
  <2>1. A \subseteq Int /\ d \in Int
    BY <1>1, <1>4
  <2>. HIDE DEF A
  <2>. QED  BY <1>5, <2>1, MovedUp
<1>. HIDE DEF n, A, B, X
<1>8. ASSUME NEW x \in X PROVE x \in B
  <2>1. PICK i \in A : x = i + d
    BY <1>6
  <2>2. i \in p .. n /\ i \in 1 .. n /\ r[i].msg \in F
    BY <1>1, <1>2
  <2>3. i + d \in p + d .. n + d
    BY <1>1, <2>2
  <2>4. queue[i + d].msg \in F
    BY <1>3, <2>2
  <2>. QED  BY <1>2, <2>1, <2>3, <2>4
<1>9. ASSUME NEW y \in B PROVE y \in X
  <2>1. y \in p + d .. n + d /\ queue[y].msg \in F
    BY <1>2
  <2>2. y - d \in p .. n /\ y - d \in 1 .. n /\ (y - d) + d = y
    BY <1>1, <2>1
  <2>3. r[y - d].msg \in F
    BY <1>3, <2>1, <2>2
  <2>4. y - d \in A
    BY <1>2, <2>2, <2>3
  <2>. QED  BY <1>6, <2>2, <2>4
<1>10. X = B
  BY <1>8, <1>9
<1>. QED  BY <1>7, <1>10 DEF Count, A, B

(* Every suffix of r holds, of the frames of M, as many of each kind as some *)
(* suffix of the queue does.                                                 *)
SuffixesFrom(r, queue, M) ==
  \A p \in Nat \ {0} : \E o \in Nat \ {0} :
    \A F \in SUBSET M : Count(r, p, F) = Count(queue, o, F)

(* Suffixes of suffixes are suffixes. *)
LEMMA SuffixesTwice ==
  ASSUME NEW q, NEW r, NEW s, NEW M, SuffixesFrom(s, r, M), SuffixesFrom(r, q, M)
  PROVE  SuffixesFrom(s, q, M)
<1>. SUFFICES ASSUME NEW p \in Nat \ {0}
              PROVE  \E o \in Nat \ {0} : \A F \in SUBSET M : Count(s, p, F) = Count(q, o, F)
  BY Zenon DEF SuffixesFrom
<1>1. PICK u \in Nat \ {0} : \A F \in SUBSET M : Count(s, p, F) = Count(r, u, F)
  BY Zenon DEF SuffixesFrom
<1>2. PICK o \in Nat \ {0} : \A F \in SUBSET M : Count(r, u, F) = Count(q, o, F)
  BY Zenon DEF SuffixesFrom
<1>3. \A F \in SUBSET M : Count(s, p, F) = Count(q, o, F)
  BY <1>1, <1>2, Zenon
<1>. QED  BY <1>3, Zenon

(* Passing time leaves every suffix as it is. *)
LEMMA PassTimeCounts ==
  ASSUME NEW M, NEW queue \in Seq(Entries(M)), NEW d \in Int
  PROVE  /\ \A F : \A p \in Nat \ {0} : Count(PassTime(queue, d), p, F) = Count(queue, p, F)
         /\ \A N : SuffixesFrom(PassTime(queue, d), queue, N)
<1>. DEFINE r == PassTime(queue, d)
<1>1. /\ Len(r) = Len(queue)
      /\ \A i \in 1 .. Len(queue) : r[i].msg = queue[i].msg
  BY PassTimeIs
<1>. HIDE DEF r
<1>2. ASSUME NEW p \in Nat \ {0}, NEW F PROVE Count(r, p, F) = Count(queue, p, F)
  <2>1. After(r, p, F) = After(queue, p, F)
    BY <1>1 DEF After
  <2>. QED  BY <2>1 DEF Count
<1>3. \A N : SuffixesFrom(r, queue, N)
  BY <1>2, Zenon DEF SuffixesFrom
<1>. QED  BY <1>2, <1>3 DEF r

(* Taking the first entry off takes its frame out of the counts, and no other. *)
LEMMA TailCounts ==
  ASSUME NEW M, NEW queue \in Seq(Entries(M)), queue # <<>>
  PROVE  /\ \A F : \A p \in Nat \ {0} : Count(Tail(queue), p, F) = Count(queue, p + 1, F)
         /\ \A F : Count(queue, 1, F) =
                     Count(Tail(queue), 1, F) + (IF queue[1].msg \in F THEN 1 ELSE 0)
         /\ \A N : SuffixesFrom(Tail(queue), queue, N)
<1>. DEFINE r == Tail(queue)
<1>1. /\ r \in Seq(Entries(M)) /\ Len(r) + 1 = Len(queue)
      /\ \A i \in 1 .. Len(r) : r[i].msg = queue[i + 1].msg
  OBVIOUS
<1>. HIDE DEF r
<1>2. ASSUME NEW p \in Nat \ {0}, NEW F PROVE Count(r, p, F) = Count(queue, p + 1, F)
  BY <1>1, CountShifted
<1>3. \A N : SuffixesFrom(r, queue, N)
  <2>1. \A p \in Nat \ {0} : p + 1 \in Nat \ {0}
    OBVIOUS
  <2>. QED  BY <1>2, <2>1, Zenon DEF SuffixesFrom
<1>4. ASSUME NEW F
      PROVE  Count(queue, 1, F) = Count(r, 1, F) + (IF queue[1].msg \in F THEN 1 ELSE 0)
  <2>. DEFINE A == After(queue, 1, F)
              B == After(queue, 2, F)
  <2>1. IsFiniteSet(A) /\ IsFiniteSet(B) /\ Cardinality(B) \in Nat
    BY CountIs DEF Count
  <2>2. Count(r, 1, F) = Cardinality(B) /\ Count(queue, 1, F) = Cardinality(A)
    BY <1>2 DEF Count
  <2>3. CASE queue[1].msg \in F
    <3>1. A = B \cup {1} /\ 1 \notin B
      BY <1>1, <2>3 DEF After
    <3>2. Cardinality(A) = Cardinality(B) + 1
      BY <2>1, <3>1, FS_AddElement
    <3>. QED  BY <2>2, <2>3, <3>2
  <2>4. CASE queue[1].msg \notin F
    <3>1. A = B
      BY <1>1, <2>4 DEF After
    <3>. QED  BY <2>1, <2>2, <2>4, <3>1
  <2>. QED  BY <2>3, <2>4
<1>. QED  BY <1>2, <1>3, <1>4 DEF r

(* What simulateCANBus drops is addressed to nobody; the rest of the queue is *)
(* a suffix, so a count of frames that are addressed to nodes stays the same. *)
LEMMA DeliverableCounts ==
  ASSUME NEW M, NEW queue \in Seq(Entries(M)), NEW nodes
  PROVE  /\ \A N : SuffixesFrom(Deliverable(queue, nodes), queue, N)
         /\ \A F : (\A m \in Msgs(queue) : m \in F => m.to \in nodes) =>
                     Count(Deliverable(queue, nodes), 1, F) = Count(queue, 1, F)
<1>. DEFINE n == Len(queue)
            S == {i \in 1 .. Len(queue) : /\ queue[i].time_until <= 0
                                          /\ queue[i].msg.to \notin nodes}
            k == PrefixLength(n, S)
            r == SubSeq(queue, k + 1, Len(queue))
<1>1. n \in Nat /\ S \subseteq 1 .. n
  OBVIOUS
<1>2. Deliverable(queue, nodes) = r
  BY DEF Deliverable
<1>3. k \in 0 .. n /\ 1 .. k \subseteq S
  <2>. HIDE DEF n, S
  <2>. QED  BY <1>1, PrefixLengthIs
<1>. HIDE DEF k
<1>4. /\ r \in Seq(Entries(M))
      /\ Len(r) = n - k
      /\ \A i \in 1 .. n - k : r[i] = queue[k + i]
  <2>1. \A i \in k + 1 .. Len(queue) : queue[i] \in Entries(M)
    BY <1>3
  <2>2. /\ Len(r) = IF k + 1 <= Len(queue) THEN Len(queue) - (k + 1) + 1 ELSE 0
        /\ \A i \in 1 .. Len(queue) - (k + 1) + 1 : r[i] = queue[(k + 1) + i - 1]
        /\ r \in Seq(Entries(M))
    <3>1. k + 1 \in Int /\ Len(queue) \in Int
      BY <1>3
    <3>. QED  BY <2>1, <3>1, SubSeqProperties
  <2>. QED  BY <1>3, <2>2
<1>. HIDE DEF r
<1>5. /\ k \in Nat /\ Len(r) + k = Len(queue)
      /\ \A i \in 1 .. Len(r) : r[i].msg = queue[i + k].msg
  <2>1. k \in Nat /\ Len(r) + k = Len(queue) /\ Len(r) = n - k
    BY <1>3, <1>4
  <2>2. ASSUME NEW i \in 1 .. Len(r) PROVE r[i].msg = queue[i + k].msg
    <3>1. k + i = i + k /\ i \in 1 .. n - k
      BY <2>1
    <3>2. r[i] = queue[k + i]
      BY <1>4, <3>1
    <3>. QED  BY <3>1, <3>2, Zenon
  <2>. QED  BY <2>1, <2>2
<1>. r \in Seq(Entries(M)) /\ k \in Nat
  BY <1>4, <1>5
<1>6. ASSUME NEW p \in Nat \ {0}, NEW F PROVE Count(r, p, F) = Count(queue, p + k, F)
  BY <1>5, CountShifted
<1>7. \A N : SuffixesFrom(r, queue, N)
  <2>1. \A p \in Nat \ {0} : p + k \in Nat \ {0}
    BY <1>3
  <2>. QED  BY <1>6, <2>1, Zenon DEF SuffixesFrom
<1>8. ASSUME NEW F, \A m \in Msgs(queue) : m \in F => m.to \in nodes
      PROVE  Count(r, 1, F) = Count(queue, 1, F)
  <2>1. \A i \in 1 .. k : queue[i].msg \notin F
    <3>. SUFFICES ASSUME NEW i \in 1 .. k PROVE queue[i].msg \notin F
      OBVIOUS
    <3>1. i \in S /\ queue[i].msg \in Msgs(queue)
      BY <1>3 DEF Msgs
    <3>. QED  BY <1>8, <3>1
  <2>2. After(queue, 1 + k, F) = After(queue, 1, F)
    BY <1>3, <2>1 DEF After
  <2>3. Count(r, 1, F) = Count(queue, 1 + k, F)
    BY <1>6
  <2>. QED  BY <2>2, <2>3 DEF Count
<1>. QED  BY <1>2, <1>7, <1>8

(* Where EnqueueAll puts the frames, and which: the first one twice if the *)
(* queue was empty.                                                        *)
LEMMA EnqueueAllAt ==
  ASSUME NEW M, NEW queue \in Seq(Entries(M)), NEW t \in Int, NEW msgs \in Seq(M),
         msgs # <<>>
  PROVE  \E k \in 0 .. Len(queue), all \in Seq(M) :
           /\ EnqueueAll(queue, t, msgs) = InsertBehind(queue, k, t, all)
           /\ all # <<>>
           /\ \A j \in 1 .. Len(all) : all[j] \in Elems(msgs)
           /\ queue # <<>> => all = msgs
           /\ \A i \in 1 .. k : GoesBehind(t, msgs[1].command, queue[i])
           /\ k < Len(queue) => ~GoesBehind(t, msgs[1].command, queue[k + 1])
<1>1. CASE queue = <<>>
  <2>. DEFINE all == <<msgs[1]>> \o msgs
  <2>1. msgs[1] \in M /\ 1 \in 1 .. Len(msgs)
    OBVIOUS
  <2>2. /\ all \in Seq(M)
        /\ Len(all) = 1 + Len(msgs)
        /\ \A j \in 1 .. 1 + Len(msgs) : all[j] = IF j <= 1 THEN msgs[1] ELSE msgs[j - 1]
    BY <2>1
  <2>3. EnqueueAll(queue, t, msgs) = InsertBehind(queue, 0, t, all)
    BY <1>1 DEF EnqueueAll
  <2>. HIDE DEF all
  <2>4. ASSUME NEW j \in 1 .. Len(all) PROVE all[j] \in Elems(msgs)
    <3>1. CASE j <= 1
      BY <2>1, <2>2, <3>1 DEF Elems
    <3>2. CASE j > 1
      <4>1. j - 1 \in 1 .. Len(msgs) /\ all[j] = msgs[j - 1]
        BY <2>2, <3>2
      <4>. QED  BY <4>1 DEF Elems
    <3>. QED  BY <3>1, <3>2
  <2>5. 0 \in 0 .. Len(queue) /\ ~(0 < Len(queue)) /\ 1 .. 0 = {}
    BY <1>1
  <2>6. all # <<>>
    BY <2>2
  <2>. QED  BY <1>1, <2>2, <2>3, <2>4, <2>5, <2>6
<1>2. CASE queue # <<>>
  <2>. DEFINE k == WalkedPast(queue, t, msgs[1].command)
  <2>1. EnqueueAll(queue, t, msgs) = InsertBehind(queue, k, t, msgs)
    BY <1>2 DEF EnqueueAll
  <2>2. /\ k \in 0 .. Len(queue)
        /\ \A i \in 1 .. k : GoesBehind(t, msgs[1].command, queue[i])
        /\ k < Len(queue) => ~GoesBehind(t, msgs[1].command, queue[k + 1])
    BY WalkedPastIs
  <2>3. \A j \in 1 .. Len(msgs) : msgs[j] \in Elems(msgs)
    BY DEF Elems
  <2>. HIDE DEF k
  <2>. QED  BY <2>1, <2>2, <2>3
<1>. QED  BY <1>1, <1>2

(* What is scheduled leaves the suffixes as they are, its own frames aside. *)
LEMMA EnqueueAllSuffixes ==
  ASSUME NEW M, NEW queue \in Seq(Entries(M)), NEW t \in Int, NEW msgs \in Seq(M),
         NEW N, \A m \in Elems(msgs) : m \notin N
  PROVE  SuffixesFrom(EnqueueAll(queue, t, msgs), queue, N)
<1>1. CASE msgs = <<>>
  <2>1. EnqueueAll(queue, t, msgs) = queue
    BY <1>1 DEF EnqueueAll
  <2>. QED  BY <2>1, Zenon DEF SuffixesFrom
<1>2. CASE msgs # <<>>
  <2>1. PICK k \in 0 .. Len(queue), all \in Seq(M) :
          /\ EnqueueAll(queue, t, msgs) = InsertBehind(queue, k, t, all)
          /\ \A j \in 1 .. Len(all) : all[j] \in Elems(msgs)
    BY <1>2, EnqueueAllAt
  <2>. DEFINE r == InsertBehind(queue, k, t, all)
  <2>2. ASSUME NEW p \in Nat \ {0}
        PROVE  \E o \in Nat \ {0} : \A F \in SUBSET N : Count(r, p, F) = Count(queue, o, F)
    <3>. DEFINE o == OldPosition(k, Len(all), p)
    <3>1. o \in Nat \ {0}
      BY CountInserted
    <3>2. ASSUME NEW F \in SUBSET N PROVE Count(r, p, F) = Count(queue, o, F)
      <4>. DEFINE J == {j \in 1 .. Len(all) : p <= k + j /\ all[j] \in F}
      <4>1. J = {}
        BY <2>1
      <4>2. Cardinality(J) = 0
        BY <4>1, FS_EmptySet
      <4>3. Count(r, p, F) = Count(queue, o, F) + Cardinality(J)
        BY CountInserted
      <4>4. Count(queue, o, F) \in Nat
        BY <3>1, CountIs
      <4>. HIDE DEF J, o, r
      <4>. QED  BY <4>2, <4>3, <4>4
    <3>. HIDE DEF o, r
    <3>. QED  BY <3>1, <3>2, Zenon
  <2>. HIDE DEF r
  <2>3. SuffixesFrom(r, queue, N)
    BY <2>2, Zenon DEF SuffixesFrom
  <2>. QED  BY <2>1, <2>3 DEF r
<1>. QED  BY <1>1, <1>2

(* A single frame, in a schedule that is not empty: counted where it is in    *)
(* front of or at the place of the frame, and not counted behind it.          *)
LEMMA OneInserted ==
  ASSUME NEW M, NEW queue \in Seq(Entries(M)), NEW k \in 0 .. Len(queue),
         NEW t \in Int, NEW m \in M, NEW F, NEW p \in Nat \ {0}
  PROVE  /\ p <= k + 1 => Count(InsertBehind(queue, k, t, <<m>>), p, F) =
                            Count(queue, p, F) + (IF m \in F THEN 1 ELSE 0)
         /\ p > k + 1 => /\ p - 1 \in Nat \ {0}
                         /\ Count(InsertBehind(queue, k, t, <<m>>), p, F) =
                              Count(queue, p - 1, F)
<1>. DEFINE one == <<m>>
            r   == InsertBehind(queue, k, t, one)
            o   == OldPosition(k, 1, p)
            J   == {j \in 1 .. 1 : p <= k + j /\ one[j] \in F}
<1>1. one \in Seq(M) /\ Len(one) = 1 /\ one[1] = m
  OBVIOUS
<1>2. /\ OldPosition(k, Len(one), p) \in Nat \ {0}
      /\ Count(r, p, F) = Count(queue, OldPosition(k, Len(one), p), F)
           + Cardinality({j \in 1 .. Len(one) : p <= k + j /\ one[j] \in F})
  <2>. one \in Seq(M)
    BY <1>1
  <2>. HIDE DEF one
  <2>. QED  BY CountInserted
<1>3. o \in Nat \ {0} /\ Count(r, p, F) = Count(queue, o, F) + Cardinality(J)
  BY <1>1, <1>2
<1>4. Count(queue, o, F) \in Nat
  <2>. o \in Nat
    BY <1>3
  <2>. HIDE DEF o
  <2>. QED  BY CountIs
<1>5. k \in Nat
  OBVIOUS
<1>6. CASE p <= k + 1
  <2>1. o = p
    BY <1>6 DEF OldPosition
  <2>2. CASE m \in F
    <3>1. J = {1}
      BY <1>1, <1>5, <1>6, <2>2
    <3>2. Cardinality(J) = 1
      BY <3>1, FS_Singleton
    <3>. HIDE DEF J, o, r
    <3>. QED  BY <1>3, <1>5, <1>6, <2>1, <2>2, <3>2 DEF r
  <2>3. CASE m \notin F
    <3>1. J = {}
      BY <1>1, <1>5, <1>6, <2>3
    <3>2. Cardinality(J) = 0
      BY <3>1, FS_EmptySet
    <3>. HIDE DEF J, o, r
    <3>. QED  BY <1>3, <1>5, <1>6, <2>1, <2>3, <3>2 DEF r
  <2>. QED  BY <2>2, <2>3
<1>7. CASE p > k + 1
  <2>1. o = p - 1
    BY <1>5, <1>7 DEF OldPosition
  <2>2. J = {}
    BY <1>1, <1>5, <1>7
  <2>3. Cardinality(J) = 0
    BY <2>2, FS_EmptySet
  <2>. HIDE DEF J, o, r
  <2>. QED  BY <1>3, <1>4, <1>5, <1>7, <2>1, <2>3 DEF r
<1>. QED  BY <1>5, <1>6, <1>7

(* Where a single frame goes in a schedule that is not empty. *)
LEMMA EnqueueAt ==
  ASSUME NEW M, NEW queue \in Seq(Entries(M)), NEW t \in Int, NEW m \in M, queue # <<>>
  PROVE  \E k \in 0 .. Len(queue) :
           /\ Enqueue(queue, t, m) = InsertBehind(queue, k, t, <<m>>)
           /\ \A i \in 1 .. k : GoesBehind(t, m.command, queue[i])
<1>. DEFINE one == <<m>>
<1>1. one \in Seq(M) /\ one # <<>> /\ one[1] = m /\ Enqueue(queue, t, m) = EnqueueAll(queue, t, one)
  BY DEF Enqueue
<1>2. PICK k \in 0 .. Len(queue) :
        /\ EnqueueAll(queue, t, one) = InsertBehind(queue, k, t, one)
        /\ \A i \in 1 .. k : GoesBehind(t, one[1].command, queue[i])
  <2>. one \in Seq(M)
    BY <1>1
  <2>1. one # <<>>
    BY <1>1
  <2>. HIDE DEF one
  <2>. QED  BY <2>1, EnqueueAllAt
<1>. QED  BY <1>1, <1>2

(* Counting fewer kinds of frames gives no more. *)
LEMMA CountFewer ==
  ASSUME NEW M, NEW queue \in Seq(Entries(M)), NEW p \in Nat, NEW F, NEW G, F \subseteq G
  PROVE  Count(queue, p, F) <= Count(queue, p, G)
<1>1. After(queue, p, F) \in SUBSET After(queue, p, G)
  BY DEF After
<1>2. IsFiniteSet(After(queue, p, G))
  BY CountIs
<1>. QED  BY <1>1, <1>2, FS_Subset DEF Count

(* Frames that are scheduled are counted only among their own kinds. *)
LEMMA EnqueueAllCounts ==
  ASSUME NEW M, NEW queue \in Seq(Entries(M)), NEW t \in Int, NEW msgs \in Seq(M),
         NEW F, \A m \in Elems(msgs) : m \notin F
  PROVE  Count(EnqueueAll(queue, t, msgs), 1, F) = Count(queue, 1, F)
<1>1. CASE msgs = <<>>
  BY <1>1 DEF EnqueueAll
<1>2. CASE msgs # <<>>
  <2>1. PICK k \in 0 .. Len(queue), all \in Seq(M) :
          /\ EnqueueAll(queue, t, msgs) = InsertBehind(queue, k, t, all)
          /\ \A j \in 1 .. Len(all) : all[j] \in Elems(msgs)
    BY <1>2, EnqueueAllAt
  <2>. DEFINE J == {j \in 1 .. Len(all) : 1 <= k + j /\ all[j] \in F}
  <2>2. J = {}
    BY <2>1
  <2>3. Cardinality(J) = 0
    BY <2>2, FS_EmptySet
  <2>4. OldPosition(k, Len(all), 1) = 1
    BY DEF OldPosition
  <2>5. Count(InsertBehind(queue, k, t, all), 1, F) = Count(queue, 1, F) + Cardinality(J)
    BY <2>4, CountInserted
  <2>6. Count(queue, 1, F) \in Nat
    BY CountIs
  <2>. HIDE DEF J
  <2>. QED  BY <2>1, <2>3, <2>5, <2>6
<1>. QED  BY <1>1, <1>2

(* A frame that is scheduled on a bus that is not idle is one frame. *)
LEMMA EnqueueCounts ==
  ASSUME NEW M, NEW queue \in Seq(Entries(M)), NEW t \in Int, NEW m \in M,
         NEW F, m \in F, queue # <<>>
  PROVE  Count(Enqueue(queue, t, m), 1, F) = Count(queue, 1, F) + 1
<1>. DEFINE one == <<m>>
<1>1. one \in Seq(M) /\ one # <<>> /\ Len(one) = 1 /\ one[1] = m
  OBVIOUS
<1>2. Enqueue(queue, t, m) = EnqueueAll(queue, t, one)
  BY DEF Enqueue
<1>. HIDE DEF one
<1>3. PICK k \in 0 .. Len(queue), all \in Seq(M) :
        EnqueueAll(queue, t, one) = InsertBehind(queue, k, t, all) /\ all = one
  BY <1>1, EnqueueAllAt
<1>. DEFINE J == {j \in 1 .. Len(one) : 1 <= k + j /\ one[j] \in F}
<1>4. J = {1}
  BY <1>1
<1>5. Cardinality(J) = 1
  BY <1>4, FS_Singleton
<1>6. OldPosition(k, Len(one), 1) = 1
  BY DEF OldPosition
<1>7. Count(InsertBehind(queue, k, t, one), 1, F) = Count(queue, 1, F) + Cardinality(J)
  <2>. one \in Seq(M)
    BY <1>1
  <2>. QED  BY <1>6, CountInserted
<1>. HIDE DEF J
<1>. QED  BY <1>2, <1>3, <1>5, <1>7

(* A finite set whose elements are all the same has at most one, and back. *)
LEMMA AtMostOne ==
  ASSUME NEW S, IsFiniteSet(S)
  PROVE  Cardinality(S) <= 1 <=> \A x, y \in S : x = y
<1>1. ASSUME Cardinality(S) <= 1, NEW x \in S, NEW y \in S PROVE x = y
  <2>. DEFINE T == S \ {x}
  <2>1. IsFiniteSet(T) /\ Cardinality(T) = Cardinality(S) - 1
    BY FS_RemoveElement
  <2>2. Cardinality(T) \in Nat /\ Cardinality(S) \in Nat
    BY <2>1, FS_CardinalityType
  <2>3. Cardinality(T) = 0
    BY <1>1, <2>1, <2>2
  <2>4. T = {}
    BY <2>1, <2>3, FS_EmptySet
  <2>. QED  BY <2>4
<1>2. ASSUME \A x, y \in S : x = y PROVE Cardinality(S) <= 1
  <2>1. CASE S = {}
    BY <2>1, FS_EmptySet
  <2>2. CASE S # {}
    <3>1. PICK x : S = {x}
      BY <1>2, <2>2
    <3>. QED  BY <3>1, FS_Singleton
  <2>. QED  BY <2>1, <2>2
<1>. QED  BY <1>1, <1>2
=============================================================================
