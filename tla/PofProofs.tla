------------------------------ MODULE PofProofs ------------------------------
(***************************************************************************)
(* The reorder buffer of the packet ordering function is sound and         *)
(* bounded, for every number of packet threads and packets, every buffer   *)
(* size and every sequence space.                                          *)
(***************************************************************************)
EXTENDS Pof, QueueLemmas

\* A packet between the check of queue_len and the lock is with one thread.
EnteringOK ==
    /\ \A t \in Threads : pc[t] # 0 => fate[pc[t]] = "entering"
    /\ \A t, u \in Threads : pc[t] # 0 /\ t # u => pc[t] # pc[u]

\* pkt_to_send is in the buffer.
SendAtOK == wpc = "forward" /\ queue # <<>> => send_at \in DOMAIN queue

IInv == BufferSound /\ EnteringOK /\ SendAtOK

-----------------------------------------------------------------------------
(* Insertion and removal *)

\* The sorted insertion puts the packet behind the smaller ones and before all
\* the others.
LEMMA InsertSortedFacts ==
    ASSUME NEW q \in Seq(Elems), NEW e \in Elems, PofAssumption,
           \A i, j \in DOMAIN q : i < j => q[i].seq <= q[j].seq
    PROVE  \E i \in 1 .. Len(q) + 1 :
              /\ InsertSorted(q, e) = InsertAt(q, i, e)
              /\ \A j \in 1 .. i - 1 : q[j].seq < e.seq
              /\ \A j \in i .. Len(q) : e.seq <= q[j].seq
<1> DEFINE n == Len(q)
           key == [j \in 1 .. n |-> q[j].seq]
           smaller == {i \in DOMAIN q : \A j \in 1 .. i : q[j].seq < e.seq}
<1>1. n \in Nat /\ DOMAIN q = 1 .. n /\ \A j \in 1 .. n : q[j] \in Elems
  BY LenProperties, ElementOfSeq
<1>2. e.seq \in Int /\ \A j \in 1 .. n : q[j].seq \in Int
  BY <1>1 DEF Elems, PofAssumption
<1>3. key \in [1 .. n -> Int] /\ \A i, j \in 1 .. n : i < j => key[i] <= key[j]
  BY <1>1, <1>2
<1>4. PICK k \in 1 .. n + 1 :
        /\ Cardinality({i \in 1 .. n : \A j \in 1 .. i : key[j] < e.seq}) + 1 = k
        /\ \A j \in 1 .. k - 1 : key[j] < e.seq
        /\ \A j \in k .. n : e.seq <= key[j]
  <2> HIDE DEF key, n
  <2> QED  BY <1>1, <1>2, <1>3, SortedPlace
<1>5. {i \in 1 .. n : \A j \in 1 .. i : key[j] < e.seq} = smaller
  <2>1. \A i \in 1 .. n : \A j \in 1 .. i : j \in 1 .. n /\ key[j] = q[j].seq
    BY <1>1
  <2> HIDE DEF key, n
  <2> QED  BY <1>1, <2>1
<1>6. InsertSorted(q, e) = InsertAt(q, Cardinality(smaller) + 1, e)
  BY DEF InsertSorted, InsertAt
<1>7. /\ \A j \in 1 .. k - 1 : q[j].seq < e.seq
      /\ \A j \in k .. n : e.seq <= q[j].seq
  <2>1. /\ \A j \in 1 .. k - 1 : key[j] = q[j].seq
        /\ \A j \in k .. n : key[j] = q[j].seq
    <3> HIDE DEF n
    <3> QED  BY <1>1, <1>4
  <2> HIDE DEF key
  <2> QED  BY <1>4, <2>1
<1>8. Cardinality(smaller) + 1 = k
  <2> HIDE DEF key, n, smaller
  <2> QED  BY <1>4, <1>5
<1>9. InsertSorted(q, e) = InsertAt(q, k, e)
  <2> HIDE DEF smaller
  <2> QED  BY <1>6, <1>8
<1> QED  BY <1>7, <1>9

-----------------------------------------------------------------------------
(* The buffer in a step *)

\* The packet of a thread enters its place in the buffer.
LEMMA InsertKeepsBuffer ==
    ASSUME IInv, PofAssumption, NEW t \in Threads, PofInsert(t)
    PROVE  /\ queue' \in Seq(Elems)
           /\ Len(queue') = Len(queue) + 1
           /\ \A j \in DOMAIN queue' :
                \/ queue'[j].id = pc[t] /\ queue'[j].seq = Number(pc[t])
                \/ \E k \in DOMAIN queue : queue'[j] = queue[k]
           /\ Conservation'
           /\ Sorted'
<1> DEFINE e == [id |-> pc[t], seq |-> Number(pc[t]), left |-> MaxDelay]
           n == Len(queue)
<1>1. TypeOK /\ Conservation /\ Sorted /\ EnteringOK
  BY DEF IInv, BufferSound
<1>2. pc[t] \in Packets /\ fate[pc[t]] = "entering"
  BY <1>1 DEF TypeOK, EnteringOK, PofInsert
<1>3. e \in Elems
  <2>1. pc[t] \in Int /\ Number(pc[t]) \in 0 .. SEQ_SPACE - 1
    BY <1>2 DEF Packets, Number, PofAssumption
  <2> QED  BY <1>2, <2>1 DEF Elems, PofAssumption
<1>4. queue \in Seq(Elems) /\ n \in Nat /\ DOMAIN queue = 1 .. n
      /\ \A i \in 1 .. n : queue[i] \in Elems
  BY <1>1, LenProperties, ElementOfSeq DEF TypeOK
<1>5. queue' = InsertSorted(queue, e)
  BY DEF PofInsert
<1>6. PICK m \in 1 .. n + 1 :
          /\ InsertSorted(queue, e) = InsertAt(queue, m, e)
          /\ \A j \in 1 .. m - 1 : queue[j].seq < e.seq
          /\ \A j \in m .. n : e.seq <= queue[j].seq
  <2> HIDE DEF e
  <2> QED  BY <1>1, <1>3, <1>4, InsertSortedFacts DEF Sorted
<1>7. /\ queue' \in Seq(Elems)
      /\ Len(queue') = n + 1
      /\ \A j \in 1 .. n + 1 :
            queue'[j] = IF j < m THEN queue[j] ELSE IF j = m THEN e ELSE queue[j - 1]
  <2> HIDE DEF e
  <2>1. queue' = InsertAt(queue, m, e)
    BY <1>5, <1>6
  <2>2. /\ InsertAt(queue, m, e) \in Seq(Elems)
        /\ Len(InsertAt(queue, m, e)) = Len(queue) + 1
        /\ \A j \in 1 .. Len(queue) + 1 :
              InsertAt(queue, m, e)[j]
                  = IF j < m THEN queue[j] ELSE IF j = m THEN e ELSE queue[j - 1]
    BY <1>3, <1>4, InsertAtFacts
  <2> QED  BY ONLY <2>1, <2>2
<1>8. DOMAIN queue' = 1 .. n + 1
  BY <1>7, LenProperties
<1>9. \A p \in Packets : fate'[p] = IF p = pc[t] THEN "buffered" ELSE fate[p]
  BY <1>1 DEF PofInsert, TypeOK
<1>10. e.id = pc[t] /\ e.seq = Number(pc[t]) /\ e.seq \in Int /\ \A i \in 1 .. n : queue[i].seq \in Int
  BY <1>3, <1>4 DEF Elems, PofAssumption
<1>11. \A i \in 1 .. n : queue[i].id # e.id
  BY <1>1, <1>2, <1>4, <1>10 DEF Conservation
<1> HIDE DEF e, n
<1>12. Sorted'
  <2> SUFFICES ASSUME NEW i \in 1 .. n + 1, NEW j \in 1 .. n + 1, i < j
               PROVE  queue'[i].seq <= queue'[j].seq
    BY <1>8 DEF Sorted
  <2>1. \A k, l \in 1 .. n : k < l => queue[k].seq <= queue[l].seq
    BY <1>1, <1>4 DEF Sorted
  <2>2. CASE j < m
    BY <1>4, <1>7, <2>1, <2>2
  <2>3. CASE j = m
    <3>1. i \in 1 .. m - 1 /\ i \in 1 .. n /\ queue'[i] = queue[i] /\ queue'[j] = e
      BY <1>4, <1>7, <2>3
    <3> QED  BY <1>6, <1>10, <3>1
  <2>4. CASE j > m /\ i < m
    <3>1. i \in 1 .. n /\ j - 1 \in 1 .. n /\ i < j - 1
          /\ queue'[i] = queue[i] /\ queue'[j] = queue[j - 1]
      BY <1>4, <1>7, <2>4
    <3> QED  BY <2>1, <3>1
  <2>5. CASE j > m /\ i = m
    <3>1. j - 1 \in m .. n /\ queue'[j] = queue[j - 1] /\ queue'[i] = e
      BY <1>4, <1>7, <2>5
    <3> QED  BY <1>6, <3>1
  <2>6. CASE j > m /\ i > m
    <3>1. i - 1 \in 1 .. n /\ j - 1 \in 1 .. n /\ i - 1 < j - 1
          /\ queue'[i] = queue[i - 1] /\ queue'[j] = queue[j - 1]
      BY <1>4, <1>7, <2>6
    <3> QED  BY <2>1, <3>1
  <2> QED  BY <1>4, <2>2, <2>3, <2>4, <2>5, <2>6
<1>13. \A i, j \in DOMAIN queue' : i # j => queue'[i].id # queue'[j].id
  <2> SUFFICES ASSUME NEW i \in 1 .. n + 1, NEW j \in 1 .. n + 1, i < j
               PROVE  queue'[i].id # queue'[j].id
    BY <1>4, <1>8
  <2>1. \A k, l \in 1 .. n : k # l => queue[k].id # queue[l].id
    BY <1>1, <1>4 DEF Conservation
  <2>2. CASE j < m
    BY <1>4, <1>7, <2>1, <2>2
  <2>3. CASE j = m
    BY <1>4, <1>7, <1>11, <2>3
  <2>4. CASE j > m /\ i < m
    BY <1>4, <1>7, <2>1, <2>4
  <2>5. CASE j > m /\ i = m
    BY <1>4, <1>7, <1>11, <2>5
  <2>6. CASE j > m /\ i > m
    <3>1. i - 1 \in 1 .. n /\ j - 1 \in 1 .. n /\ i - 1 < j - 1
          /\ queue'[i] = queue[i - 1] /\ queue'[j] = queue[j - 1]
      BY <1>4, <1>7, <2>6
    <3> QED  BY <2>1, <3>1
  <2> QED  BY <1>4, <2>2, <2>3, <2>4, <2>5, <2>6
<1>14. {queue'[i].id : i \in DOMAIN queue'} = {p \in Packets : fate'[p] = "buffered"}
  <2>1. {queue[i].id : i \in 1 .. n} = {p \in Packets : fate[p] = "buffered"}
    BY <1>1, <1>4 DEF Conservation
  <2>2. ASSUME NEW i \in 1 .. n + 1
        PROVE  queue'[i].id \in Packets /\ fate'[queue'[i].id] = "buffered"
    <3>1. CASE i = m
      BY <1>2, <1>7, <1>9, <1>10, <3>1
    <3>2. CASE i < m
      <4>1. i \in 1 .. n /\ queue'[i] = queue[i]
        BY <1>4, <1>7, <3>2
      <4> QED  BY <1>9, <1>2, <2>1, <4>1
    <3>3. CASE i > m
      <4>1. i - 1 \in 1 .. n /\ queue'[i] = queue[i - 1]
        BY <1>4, <1>7, <3>3
      <4> QED  BY <1>9, <1>2, <2>1, <4>1
    <3> QED  BY <1>4, <3>1, <3>2, <3>3
  <2>3. ASSUME NEW p \in Packets, fate'[p] = "buffered"
        PROVE  \E i \in 1 .. n + 1 : queue'[i].id = p
    <3>1. CASE p = pc[t]
      <4>1. m \in 1 .. n + 1 /\ queue'[m] = e
        BY <1>4, <1>7 DEF n
      <4> QED  BY <1>10, <3>1, <4>1
    <3>2. CASE p # pc[t]
      <4>1. PICK k \in 1 .. n : queue[k].id = p
        BY <1>9, <2>1, <2>3, <3>2
      <4>2. CASE k < m
        BY <1>4, <1>7, <4>1, <4>2
      <4>3. CASE k >= m
        <5>1. k + 1 \in 1 .. n + 1 /\ queue'[k + 1] = queue[k]
          BY <1>4, <1>7, <4>3
        <5> QED  BY <4>1, <5>1
      <4> QED  BY <1>4, <4>2, <4>3
    <3> QED  BY <3>1, <3>2
  <2> QED  BY <1>8, <2>2, <2>3
<1>15. \A j \in DOMAIN queue' :
          \/ queue'[j].id = pc[t] /\ queue'[j].seq = Number(pc[t])
          \/ \E k \in DOMAIN queue : queue'[j] = queue[k]
  <2> SUFFICES ASSUME NEW j \in 1 .. n + 1
               PROVE  queue'[j] = e \/ \E k \in 1 .. n : queue'[j] = queue[k]
    BY <1>4, <1>8, <1>10
  <2>1. CASE j < m
    BY <1>4, <1>7, <2>1
  <2>2. CASE j = m
    BY <1>4, <1>7, <2>2
  <2>3. CASE j > m
    <3>1. j - 1 \in 1 .. n /\ queue'[j] = queue[j - 1]
      BY <1>4, <1>7, <2>3
    <3> QED  BY <3>1
  <2> QED  BY <1>4, <2>1, <2>2, <2>3
<1> QED  BY <1>7, <1>12, <1>13, <1>14, <1>15 DEF Conservation, n

\* The packet the worker sends leaves the buffer, from wherever it is.
LEMMA ForwardKeepsBuffer ==
    ASSUME IInv, PofAssumption, PofForward
    PROVE  /\ send_at \in DOMAIN queue
           /\ queue[send_at] \in Elems
           /\ queue' \in Seq(Elems)
           /\ Len(queue') = Len(queue) - 1
           /\ \A j \in DOMAIN queue' : \E k \in DOMAIN queue : queue'[j] = queue[k]
           /\ Conservation'
           /\ Sorted'
<1> DEFINE n == Len(queue)
           m == send_at
<1>1. TypeOK /\ Conservation /\ Sorted /\ m \in DOMAIN queue
  BY DEF IInv, BufferSound, SendAtOK, PofForward
<1>2. queue \in Seq(Elems) /\ n \in Nat /\ DOMAIN queue = 1 .. n /\ m \in 1 .. n
      /\ \A i \in 1 .. n : queue[i] \in Elems
  BY <1>1, LenProperties, ElementOfSeq DEF TypeOK
<1>3. queue' = RemoveAt(queue, m)
  BY DEF PofForward, RemoveAt
<1>4. /\ queue' \in Seq(Elems)
      /\ Len(queue') = n - 1
      /\ \A j \in 1 .. n - 1 : queue'[j] = IF j < m THEN queue[j] ELSE queue[j + 1]
  BY <1>2, <1>3, RemoveAtFacts
<1>5. DOMAIN queue' = 1 .. n - 1
  BY <1>4, LenProperties
<1>6. queue[m].id \in Packets
  BY <1>2 DEF Elems
<1>7. \A p \in Packets : fate'[p] = IF p = queue[m].id THEN "forwarded" ELSE fate[p]
  BY <1>1, <1>6 DEF PofForward, TypeOK
<1> HIDE DEF n, m
<1>8. \A j \in 1 .. n - 1 : \E k \in 1 .. n : k # m /\ queue'[j] = queue[k]
  <2> TAKE j \in 1 .. n - 1
  <2>1. CASE j < m
    <3>1. j \in 1 .. n /\ queue'[j] = queue[j]
      BY <1>2, <1>4, <2>1
    <3> QED  BY <1>2, <2>1, <3>1
  <2>2. CASE j >= m
    <3>1. j + 1 \in 1 .. n /\ j + 1 # m /\ queue'[j] = queue[j + 1]
      BY <1>2, <1>4, <2>2
    <3> QED  BY <3>1
  <2> QED  BY <1>2, <2>1, <2>2
<1>9. ASSUME NEW i \in 1 .. n - 1, NEW j \in 1 .. n - 1, i < j
      PROVE  \E k, l \in 1 .. n : k < l /\ queue'[i] = queue[k] /\ queue'[j] = queue[l]
  <2>1. CASE j < m
    <3>1. i \in 1 .. n /\ j \in 1 .. n /\ queue'[i] = queue[i] /\ queue'[j] = queue[j]
      BY <1>2, <1>4, <1>9, <2>1
    <3> QED  BY <1>9, <3>1
  <2>2. CASE j >= m /\ i < m
    <3>1. i \in 1 .. n /\ j + 1 \in 1 .. n /\ i < j + 1
          /\ queue'[i] = queue[i] /\ queue'[j] = queue[j + 1]
      BY <1>2, <1>4, <1>9, <2>2
    <3> QED  BY <3>1
  <2>3. CASE j >= m /\ i >= m
    <3>1. i + 1 \in 1 .. n /\ j + 1 \in 1 .. n /\ i + 1 < j + 1
          /\ queue'[i] = queue[i + 1] /\ queue'[j] = queue[j + 1]
      BY <1>2, <1>4, <1>9, <2>3
    <3> QED  BY <3>1
  <2> QED  BY <1>2, <2>1, <2>2, <2>3
<1>10. Sorted'
  <2>1. \A k, l \in 1 .. n : k < l => queue[k].seq <= queue[l].seq
    BY <1>1, <1>2 DEF Sorted
  <2>2. \A i, j \in 1 .. n - 1 : i < j => queue'[i].seq <= queue'[j].seq
    BY <1>9, <2>1
  <2> QED  BY <1>5, <2>2 DEF Sorted
<1>11. \A i, j \in DOMAIN queue' : i # j => queue'[i].id # queue'[j].id
  <2>1. \A k, l \in 1 .. n : k < l => queue[k].id # queue[l].id
    BY <1>1, <1>2 DEF Conservation
  <2>2. \A i, j \in 1 .. n - 1 : i < j => queue'[i].id # queue'[j].id
    BY <1>9, <2>1
  <2>3. \A i, j \in 1 .. n - 1 : i # j => i < j \/ j < i
    BY <1>2
  <2> QED  BY <1>5, <2>2, <2>3
<1>12. {queue'[i].id : i \in DOMAIN queue'} = {p \in Packets : fate'[p] = "buffered"}
  <2>1. {queue[i].id : i \in 1 .. n} = {p \in Packets : fate[p] = "buffered"}
    BY <1>1, <1>2 DEF Conservation
  <2>2. ASSUME NEW i \in 1 .. n - 1
        PROVE  queue'[i].id \in Packets /\ fate'[queue'[i].id] = "buffered"
    <3>1. PICK k \in 1 .. n : k # m /\ queue'[i] = queue[k]
      BY <1>8
    <3>2. queue[k].id # queue[m].id
      BY <1>1, <1>2, <3>1 DEF Conservation
    <3> QED  BY <1>7, <2>1, <3>1, <3>2
  <2>3. ASSUME NEW p \in Packets, fate'[p] = "buffered"
        PROVE  \E i \in 1 .. n - 1 : queue'[i].id = p
    <3>1. p # queue[m].id /\ fate[p] = "buffered"
      BY <1>7, <2>3
    <3>2. PICK k \in 1 .. n : queue[k].id = p
      BY <2>1, <3>1
    <3>3. CASE k < m
      <4>1. k \in 1 .. n - 1 /\ queue'[k] = queue[k]
        BY <1>2, <1>4, <3>3
      <4> QED  BY <3>2, <4>1
    <3>4. CASE k > m
      <4>1. k - 1 \in 1 .. n - 1 /\ queue'[k - 1] = queue[k]
        BY <1>2, <1>4, <3>4
      <4> QED  BY <3>2, <4>1
    <3> QED  BY <1>2, <3>1, <3>2, <3>3, <3>4
  <2> QED  BY <1>5, <2>2, <2>3
<1>13. \A j \in DOMAIN queue' : \E k \in DOMAIN queue : queue'[j] = queue[k]
  BY <1>2, <1>5, <1>8
<1> QED  BY <1>1, <1>2, <1>4, <1>10, <1>11, <1>12, <1>13 DEF Conservation, n, m

-----------------------------------------------------------------------------
(* The invariant *)

\* The empty buffer of new_pof().
LEMMA IInvInit == Init /\ PofAssumption => IInv
<1> SUFFICES ASSUME Init, PofAssumption PROVE IInv
  OBVIOUS
<1>1. TypeOK
  <2>1. queue \in Seq(Elems)
    BY EmptySeq DEF Init
  <2>2. pc \in [Threads -> Packets \cup {0}] /\ fate \in [Packets -> {"away"}]
    BY DEF Init
  <2>3. pof_last_sent \in 0 .. SEQ_SPACE - 1 /\ evfd \in Int /\ timer \in Nat
        /\ send_at \in Nat \ {0} /\ next_to_forward \in Packets \cup {0}
    BY DEF Init, PofAssumption
  <2>4. fate \in [Packets -> {"away", "entering", "buffered", "forwarded", "dropped", "leaked"}]
    BY <2>2
  <2> QED  BY <2>1, <2>2, <2>3, <2>4 DEF Init, TypeOK, LockedSteps
<1>2. Conservation /\ Sorted
  BY EmptySeq DEF Init, Conservation, Sorted, Packets
<1>3. NextToForwardValid /\ EnteringOK /\ SendAtOK
  BY DEF Init, NextToForwardValid, EnteringOK, SendAtOK
<1> QED  BY <1>1, <1>2, <1>3 DEF IInv, BufferSound

\* The worker begins with next_to_forward or with the head of the buffer, both
\* of them packets that are there.
LEMMA TryForwardInBuffer ==
    ASSUME IInv, NEW is_timeout \in BOOLEAN, wpc \notin LockedSteps,
           TryForward(is_timeout)
    PROVE  send_at' \in Nat \ {0} /\ (queue # <<>> => send_at' \in DOMAIN queue)
<1> DEFINE n == Len(queue)
<1>1. TypeOK /\ Conservation /\ NextToForwardValid
  BY DEF IInv, BufferSound
<1>2. n \in Nat /\ DOMAIN queue = 1 .. n /\ (queue # <<>> => n > 0)
  BY <1>1, LenProperties, EmptySeq DEF TypeOK
<1> HIDE DEF n
<1>3. CASE is_timeout /\ ~ take_any /\ next_to_forward # 0
  <2>1. fate[next_to_forward] = "buffered" /\ next_to_forward \in Packets
    BY <1>1, <1>3 DEF NextToForwardValid, LockedSteps, TypeOK
  <2>2. \E i \in DOMAIN queue : queue[i].id = next_to_forward
    BY <1>1, <2>1 DEF Conservation
  <2>3. PositionOf(next_to_forward) \in DOMAIN queue
    BY <2>2 DEF PositionOf
  <2>4. send_at' = PositionOf(next_to_forward)
    BY <1>3 DEF TryForward
  <2> QED  BY <1>2, <2>3, <2>4
<1>4. CASE ~ (is_timeout /\ ~ take_any /\ next_to_forward # 0)
  <2>1. send_at' = 1
    BY <1>4 DEF TryForward
  <2> QED  BY <1>2, <2>1
<1> QED  BY <1>3, <1>4

\* Every step keeps the invariant.
LEMMA IInvNext == IInv /\ PofAssumption /\ [Next]_vars => IInv'
<1> SUFFICES ASSUME IInv, PofAssumption, [Next]_vars PROVE IInv'
  OBVIOUS
<1> USE DEF LockedSteps
<1>0. TypeOK /\ Conservation /\ Sorted /\ NextToForwardValid /\ EnteringOK /\ SendAtOK
  BY DEF IInv, BufferSound
<1>1. ASSUME NEW t \in Threads, NEW p \in Packets, PofEnter(t, p) PROVE IInv'
  <2>1. UNCHANGED <<buffer, evfd, worker, deleted>> /\ pc[t] = 0 /\ fate[p] = "away"
    BY <1>1 DEF PofEnter
  <2>2. \/ pc' = pc /\ fate' = [fate EXCEPT ![p] = "dropped"]
        \/ pc' = [pc EXCEPT ![t] = p] /\ fate' = [fate EXCEPT ![p] = "entering"]
    BY <1>1 DEF PofEnter
  <2>3. TypeOK'
    BY <1>0, <2>1, <2>2 DEF TypeOK, buffer, worker
  <2>4. \A q \in Packets : (fate'[q] = "buffered") <=> (fate[q] = "buffered")
    BY <1>0, <2>1, <2>2 DEF TypeOK
  <2>5. Conservation' /\ Sorted'
    BY <1>0, <2>1, <2>4 DEF Conservation, Sorted, buffer
  <2>6. NextToForwardValid' /\ SendAtOK'
    BY <1>0, <2>1, <2>4 DEF NextToForwardValid, SendAtOK, TypeOK, buffer, worker
  <2>7. EnteringOK'
    <3>1. 0 \notin Packets
      BY DEF Packets, PofAssumption
    <3> QED  BY <1>0, <2>1, <2>2, <3>1 DEF EnteringOK, TypeOK
  <2> QED  BY <2>3, <2>5, <2>6, <2>7 DEF IInv, BufferSound
<1>2. ASSUME NEW t \in Threads, PofInsert(t) PROVE IInv'
  <2>1. /\ pc[t] \in Packets /\ fate[pc[t]] = "entering" /\ wpc \notin LockedSteps
        /\ fate' = [fate EXCEPT ![pc[t]] = "buffered"] /\ pc' = [pc EXCEPT ![t] = 0]
        /\ UNCHANGED <<pof_last_sent, take_any, next_to_forward, worker, deleted>>
    BY <1>0, <1>2 DEF PofInsert, TypeOK, EnteringOK, Locked
  <2>2. queue' \in Seq(Elems) /\ Conservation' /\ Sorted'
    BY <1>2, InsertKeepsBuffer
  <2>3. evfd' \in Int
    BY <1>0, <1>2 DEF PofInsert, EventOf, POF_IN_ORDER_PKT, POF_OUT_OF_ORDER_PKT, TypeOK
  <2>4. TypeOK'
    BY <1>0, <2>1, <2>2, <2>3 DEF TypeOK, worker
  <2>5. NextToForwardValid' /\ SendAtOK'
    BY <1>0, <2>1 DEF NextToForwardValid, SendAtOK, TypeOK, worker
  <2>6. EnteringOK'
    BY <1>0, <2>1 DEF EnteringOK, TypeOK
  <2> QED  BY <2>2, <2>4, <2>5, <2>6 DEF IInv, BufferSound
<1>3. CASE WorkerStart
  <2>1. queue' = <<>> /\ wpc' = "poll" /\ next_to_forward' = 0 /\ pc' = pc
        /\ fate' = [p \in Packets |-> IF fate[p] = "buffered" THEN "leaked" ELSE fate[p]]
    BY <1>3 DEF WorkerStart
  <2>2. \A p \in Packets : fate'[p] # "buffered"
                            /\ (fate[p] = "entering" => fate'[p] = "entering")
    BY <2>1
  <2>3. fate' \in [Packets -> {"away", "entering", "buffered", "forwarded", "dropped", "leaked"}]
    BY <1>0, <2>1 DEF TypeOK
  <2>4. queue' \in Seq(Elems) /\ DOMAIN queue' = {}
    BY <2>1, EmptySeq
  <2>5. TypeOK'
    BY <1>0, <1>3, <2>3, <2>4 DEF TypeOK, WorkerStart, PofAssumption
  <2>6. Conservation' /\ Sorted'
    BY <2>2, <2>4 DEF Conservation, Sorted
  <2>7. NextToForwardValid' /\ SendAtOK'
    BY <2>1 DEF NextToForwardValid, SendAtOK
  <2>8. EnteringOK'
    BY <1>0, <2>1, <2>2 DEF EnteringOK, TypeOK
  <2> QED  BY <2>5, <2>6, <2>7, <2>8 DEF IInv, BufferSound
<1>4. ASSUME UNCHANGED <<queue, fate, pc>> PROVE Conservation' /\ Sorted' /\ EnteringOK'
  BY <1>0, <1>4 DEF Conservation, Sorted, EnteringOK
<1>5. ASSUME PollEvent \/ PollTimeout PROVE IInv'
  <2>1. wpc = "poll" /\ wpc' \in {"event", "expired"}
        /\ UNCHANGED <<buffer, evfd, timer, send_at, timeout, pc, fate, deleted>>
    BY <1>5 DEF PollEvent, PollTimeout
  <2>2. TypeOK' /\ NextToForwardValid' /\ SendAtOK'
    BY <1>0, <2>1 DEF TypeOK, NextToForwardValid, SendAtOK, buffer
  <2> QED  BY <1>4, <2>1, <2>2 DEF IInv, BufferSound, buffer
<1>6. CASE ReadEvent
  <2>1. wpc = "event" /\ evfd' = 0 /\ UNCHANGED <<buffer, timer, pc, fate, deleted>>
    BY <1>6 DEF ReadEvent
  <2>2. CASE wpc' \in {"stopped", "rearm"} /\ UNCHANGED <<send_at, timeout>>
    <3>1. TypeOK' /\ NextToForwardValid' /\ SendAtOK'
      BY <1>0, <2>1, <2>2 DEF TypeOK, NextToForwardValid, SendAtOK, buffer
    <3> QED  BY <1>4, <2>1, <3>1 DEF IInv, BufferSound, buffer
  <2>3. CASE TryForward((evfd \div POF_TIMEOUT) % 2 = 1)
    <3>1. ((evfd \div POF_TIMEOUT) % 2 = 1) \in BOOLEAN
      OBVIOUS
    <3>2. send_at' \in Nat \ {0} /\ (queue # <<>> => send_at' \in DOMAIN queue)
      BY <2>1, <2>3, <3>1, TryForwardInBuffer
    <3>3. wpc' = "forward" /\ timeout' \in BOOLEAN
      BY <2>3, <3>1 DEF TryForward
    <3>4. TypeOK' /\ NextToForwardValid' /\ SendAtOK'
      BY <1>0, <2>1, <3>2, <3>3 DEF TypeOK, NextToForwardValid, SendAtOK, buffer
    <3> QED  BY <1>4, <2>1, <3>4 DEF IInv, BufferSound, buffer
  <2> QED  BY <1>6, <2>2, <2>3 DEF ReadEvent
<1>7. CASE ReadTimeout
  <2>1. wpc = "expired"
        /\ UNCHANGED <<queue, pof_last_sent, next_to_forward, evfd, timer, pc, fate, deleted>>
    BY <1>7 DEF ReadTimeout
  <2>2. CASE take_any' = TRUE /\ wpc' = "rearm" /\ UNCHANGED <<send_at, timeout>>
    <3>1. TypeOK' /\ NextToForwardValid' /\ SendAtOK'
      BY <1>0, <2>1, <2>2 DEF TypeOK, NextToForwardValid, SendAtOK
    <3> QED  BY <1>4, <2>1, <3>1 DEF IInv, BufferSound
  <2>3. CASE TryForward(TRUE) /\ UNCHANGED take_any
    <3>1. send_at' \in Nat \ {0} /\ (queue # <<>> => send_at' \in DOMAIN queue)
      BY <2>1, <2>3, TryForwardInBuffer
    <3>2. wpc' = "forward" /\ timeout' \in BOOLEAN
      BY <2>3 DEF TryForward
    <3>3. TypeOK' /\ NextToForwardValid' /\ SendAtOK'
      BY <1>0, <2>1, <2>3, <3>1, <3>2 DEF TypeOK, NextToForwardValid, SendAtOK
    <3> QED  BY <1>4, <2>1, <3>3 DEF IInv, BufferSound
  <2> QED  BY <1>7, <2>2, <2>3 DEF ReadTimeout
<1>8. CASE PofForward
  <2> DEFINE e == queue[send_at]
  <2>1. /\ e \in Elems /\ queue' \in Seq(Elems) /\ Conservation' /\ Sorted'
    BY <1>8, ForwardKeepsBuffer
  <2>2. e.id \in Packets /\ e.seq \in 0 .. SEQ_SPACE - 1
    BY <2>1 DEF Elems
  <2>3. fate[e.id] = "buffered"
    BY <1>0, <1>8, ForwardKeepsBuffer DEF Conservation
  <2>4. /\ wpc' = "forward" /\ send_at' = 1 /\ timeout' = FALSE
        /\ take_any' \in BOOLEAN /\ pof_last_sent' \in {pof_last_sent, e.seq}
        /\ fate' = [fate EXCEPT ![e.id] = "forwarded"]
        /\ UNCHANGED <<next_to_forward, evfd, timer, pc, deleted>>
    BY <1>8 DEF PofForward
  <2> HIDE DEF e
  <2>5. TypeOK'
    <3>1. fate' \in [Packets -> {"away", "entering", "buffered", "forwarded", "dropped", "leaked"}]
      BY <1>0, <2>2, <2>4 DEF TypeOK
    <3>2. pof_last_sent' \in 0 .. SEQ_SPACE - 1 /\ send_at' \in Nat \ {0}
      BY <1>0, <2>2, <2>4 DEF TypeOK
    <3> QED  BY <1>0, <2>1, <2>4, <3>1, <3>2 DEF TypeOK
  <2>6. SendAtOK'
    BY <2>1, <2>4, LenProperties, EmptySeq DEF SendAtOK
  <2>7. NextToForwardValid' /\ EnteringOK'
    BY <1>0, <2>2, <2>3, <2>4 DEF NextToForwardValid, EnteringOK, TypeOK
  <2> QED  BY <2>1, <2>5, <2>6, <2>7 DEF IInv, BufferSound
<1>9. CASE ForwardDone
  <2>1. wpc' = "rearm" /\ UNCHANGED <<buffer, evfd, timer, send_at, timeout, pc, fate, deleted>>
    BY <1>9 DEF ForwardDone
  <2>2. TypeOK' /\ NextToForwardValid' /\ SendAtOK'
    BY <1>0, <2>1 DEF TypeOK, NextToForwardValid, SendAtOK, buffer
  <2> QED  BY <1>4, <2>1, <2>2 DEF IInv, BufferSound, buffer
<1>10. CASE Rearm
  <2>1. wpc' = "poll" /\ UNCHANGED <<queue, pof_last_sent, take_any, evfd, send_at, timeout, pc,
                                     fate, deleted>>
    BY <1>10 DEF Rearm
  <2>2. queue # <<>> =>
          /\ queue[Len(queue)].id \in Packets /\ fate[queue[Len(queue)].id] = "buffered"
          /\ queue[Len(queue)].left \in Nat
    <3>1. SUFFICES ASSUME queue # <<>>
                   PROVE  /\ queue[Len(queue)].id \in Packets /\ fate[queue[Len(queue)].id] = "buffered"
                          /\ queue[Len(queue)].left \in Nat
      OBVIOUS
    <3>2. Len(queue) \in DOMAIN queue /\ queue[Len(queue)] \in Elems
      BY <1>0, <3>1, LenProperties, EmptySeq, ElementOfSeq DEF TypeOK
    <3> QED  BY <1>0, <3>2 DEF Conservation, Elems, PofAssumption
  <2>3. queue = <<>> => ~ (Len(queue) >= 2)
    BY EmptySeq
  <2>4. next_to_forward' = 0
        \/ (next_to_forward' \in Packets /\ fate[next_to_forward'] = "buffered")
    BY <1>10, <2>2, <2>3 DEF Rearm
  <2>5. timer' \in Nat
    BY <1>10, <2>2 DEF Rearm, PofAssumption
  <2>6. TypeOK' /\ NextToForwardValid' /\ SendAtOK'
    BY <1>0, <2>1, <2>4, <2>5 DEF TypeOK, NextToForwardValid, SendAtOK
  <2> QED  BY <1>4, <2>1, <2>6 DEF IInv, BufferSound
<1>11. CASE Tick
  <2> DEFINE older(i) == [queue[i] EXCEPT !.left = Minus1(@)]
  <2>1. queue' = [i \in DOMAIN queue |-> older(i)]
        /\ UNCHANGED <<pof_last_sent, take_any, next_to_forward, evfd, wpc, send_at, timeout,
                       pc, fate, deleted>>
    BY <1>11 DEF Tick
  <2>2. Len(queue) \in Nat /\ DOMAIN queue = 1 .. Len(queue)
        /\ \A i \in DOMAIN queue : queue[i] \in Elems
    BY <1>0, LenProperties, ElementOfSeq DEF TypeOK
  <2>3. \A i \in DOMAIN queue :
            older(i) \in Elems /\ older(i).id = queue[i].id /\ older(i).seq = queue[i].seq
    BY <2>2 DEF Elems, Minus1, PofAssumption
  <2> HIDE DEF older
  <2>4. queue' \in Seq(Elems) /\ DOMAIN queue' = DOMAIN queue
    BY <2>1, <2>2, <2>3, IsASeq
  <2>5. \A i \in DOMAIN queue : queue'[i].id = queue[i].id /\ queue'[i].seq = queue[i].seq
    BY <2>1, <2>3
  <2>6. timer' \in Nat
    BY <1>0, <1>11 DEF Tick, Minus1, TypeOK
  <2>7. TypeOK'
    BY <1>0, <2>1, <2>4, <2>6 DEF TypeOK
  <2>8. Conservation'
    <3>1. {queue'[i].id : i \in DOMAIN queue'} = {queue[i].id : i \in DOMAIN queue}
      BY <2>4, <2>5
    <3> QED  BY <1>0, <2>1, <2>4, <2>5, <3>1 DEF Conservation
  <2>9. Sorted'
    BY <1>0, <2>4, <2>5 DEF Sorted
  <2>10. SendAtOK'
    <3>1. queue = <<>> => DOMAIN queue = {}
      BY EmptySeq
    <3>2. queue' # <<>> => queue # <<>>
      BY <1>0, <2>4, <3>1, LenProperties, EmptySeq DEF TypeOK
    <3> QED  BY <1>0, <2>1, <2>4, <3>2 DEF SendAtOK
  <2>11. NextToForwardValid' /\ EnteringOK'
    BY <1>0, <2>1 DEF NextToForwardValid, EnteringOK
  <2> QED  BY <2>7, <2>8, <2>9, <2>10, <2>11 DEF IInv, BufferSound
<1>12. CASE DeletePof
  <2>1. UNCHANGED <<buffer, worker, pc, fate>> /\ deleted' = TRUE /\ evfd' \in Int
    BY <1>0, <1>12 DEF DeletePof, TypeOK
  <2>2. TypeOK' /\ NextToForwardValid' /\ SendAtOK'
    BY <1>0, <2>1 DEF TypeOK, NextToForwardValid, SendAtOK, buffer, worker
  <2> QED  BY <1>4, <2>1, <2>2 DEF IInv, BufferSound, buffer
<1>13. CASE UNCHANGED vars
  BY <1>0, <1>4, <1>13 DEF IInv, BufferSound, TypeOK, NextToForwardValid, SendAtOK, vars,
                           buffer, worker
<1> QED  BY <1>1, <1>2, <1>3, <1>5, <1>6, <1>7, <1>8, <1>9, <1>10, <1>11, <1>12, <1>13
         DEF Next, Worker

(***************************************************************************)
(* The buffer of every packet ordering object is sound: it holds exactly   *)
(* the packets that were accepted and not forwarded, each once and in the  *)
(* order of their numbers, and next_to_forward, which the worker keeps     *)
(* from one round to the next, never names a packet that was forwarded and *)
(* freed in between (pof_insert, pof_try_forward, get_next_deadline).      *)
(***************************************************************************)
THEOREM PofBufferSound == Spec => []BufferSound
<1>1. Init => IInv
  BY IInvInit, PofAssumption
<1>2. IInv /\ [Next]_vars => IInv'
  BY IInvNext, PofAssumption
<1>3. IInv => BufferSound
  BY DEF IInv
<1> QED  BY <1>1, <1>2, <1>3, PTL DEF Spec

-----------------------------------------------------------------------------
(* The bound of the buffer *)

Entering == {t \in Threads : pc[t] # 0}

\* A packet that has passed the check of queue_len counts as one in the buffer.
Room == Len(queue) + Cardinality(Entering) <= BufferSize + Cardinality(Threads) - 1

\* The threads between the check and the lock are not more than the threads.
LEMMA EnteringFinite ==
    PofAssumption =>
        /\ Cardinality(Threads) \in Nat \ {0}
        /\ IsFiniteSet(Entering) /\ Cardinality(Entering) \in 0 .. Cardinality(Threads)
        /\ IsFiniteSet(Entering') /\ Cardinality(Entering)' \in 0 .. Cardinality(Threads)
<1> SUFFICES ASSUME PofAssumption
             PROVE  /\ Cardinality(Threads) \in Nat \ {0}
                    /\ IsFiniteSet(Entering)
                    /\ Cardinality(Entering) \in 0 .. Cardinality(Threads)
                    /\ IsFiniteSet(Entering')
                    /\ Cardinality(Entering)' \in 0 .. Cardinality(Threads)
  OBVIOUS
<1>1. IsFiniteSet(Threads) /\ Cardinality(Threads) \in Nat /\ Cardinality(Threads) # 0
  BY FS_CardinalityType, FS_EmptySet DEF PofAssumption
<1>2. ASSUME NEW T \in SUBSET Threads
      PROVE  IsFiniteSet(T) /\ Cardinality(T) \in 0 .. Cardinality(Threads)
  <2>1. IsFiniteSet(T) /\ Cardinality(T) <= Cardinality(Threads)
    BY <1>1, FS_Subset
  <2>2. Cardinality(T) \in Nat
    BY <2>1, FS_CardinalityType
  <2> QED  BY <1>1, <2>1, <2>2
<1>3. Entering \in SUBSET Threads /\ Entering' \in SUBSET Threads
  BY DEF Entering
<1> QED  BY <1>1, <1>2, <1>3

\* The buffer of new_pof() has all its room.
LEMMA RoomInit == Init => Room
<1> SUFFICES ASSUME Init PROVE Room
  OBVIOUS
<1>1. Entering = {} /\ Len(queue) = 0
  BY EmptySeq DEF Init, Entering
<1>2. Cardinality(Entering) = 0
  BY <1>1, FS_EmptySet
<1> QED  BY <1>1, <1>2, EnteringFinite, PofAssumption DEF Room, PofAssumption

\* Time changes no length.
LEMMA TickKeepsLength ==
    ASSUME IInv, PofAssumption, Tick
    PROVE  Len(queue') = Len(queue)
<1> DEFINE n == Len(queue)
           l == Len(queue')
<1>1. DOMAIN queue' = DOMAIN queue
  BY DEF Tick
<1>2. queue \in Seq(Elems) /\ queue' \in Seq(Elems)
  <2>1. IInv'
    BY IInvNext DEF Next
  <2> QED  BY <2>1 DEF IInv, BufferSound, TypeOK
<1>3. n \in Nat /\ l \in Nat /\ 1 .. n = 1 .. l
  BY <1>1, <1>2, LenProperties
<1> HIDE DEF n, l
<1>4. n > 0 => n \in 1 .. l
  BY <1>3
<1>5. l > 0 => l \in 1 .. n
  BY <1>3
<1>6. l = n
  BY <1>3, <1>4, <1>5
<1> QED  BY <1>6 DEF n, l

\* A step that lets a packet through keeps the room that is left.
LEMMA RoomNext == IInv /\ Room /\ PofAssumption /\ [Next]_vars => Room'
<1> SUFFICES ASSUME IInv, Room, PofAssumption, [Next]_vars PROVE Room'
  OBVIOUS
<1> DEFINE n == Len(queue)
           k == Cardinality(Entering)
           c == Cardinality(Threads)
<1>1. c \in Nat \ {0} /\ k \in 0 .. c /\ k' \in 0 .. c /\ IsFiniteSet(Entering)
  BY EnteringFinite
<1>2. TypeOK /\ n \in Nat /\ BufferSize \in Nat
  BY LenProperties DEF IInv, BufferSound, TypeOK, PofAssumption
<1>3. ASSUME NEW t \in Threads, NEW p \in Packets, PofEnter(t, p) PROVE Room'
  <2>1. queue' = queue
    BY <1>3 DEF PofEnter, buffer
  <2>2. CASE n >= BufferSize
    <3>1. Entering' = Entering
      BY <1>3, <2>2 DEF PofEnter, Entering
    <3> QED  BY <2>1, <3>1 DEF Room
  <2>3. CASE n < BufferSize
    <3> DEFINE l == Cardinality(Entering')
    <3>1. l \in 0 .. c
      BY <1>1
    <3> HIDE DEF n, c, l
    <3>2. n + l <= BufferSize + c - 1
      BY <1>1, <1>2, <2>3, <3>1
    <3> QED  BY <2>1, <3>2 DEF Room, n, c, l
  <2> QED  BY <1>2, <2>2, <2>3
<1>4. ASSUME NEW t \in Threads, PofInsert(t) PROVE Room'
  <2>1. Len(queue') = n + 1
    BY <1>4, InsertKeepsBuffer
  <2>2. t \in Entering /\ Entering' = Entering \ {t}
    BY <1>2, <1>4 DEF PofInsert, Entering, TypeOK
  <2>3. k' = k - 1
    BY <1>1, <2>2, FS_RemoveElement
  <2> HIDE DEF n, k, c
  <2>4. n + k <= BufferSize + c - 1
    BY DEF Room, n, k, c
  <2>5. (n + 1) + (k - 1) <= BufferSize + c - 1
    BY <1>1, <1>2, <2>4
  <2> QED  BY <2>1, <2>3, <2>5 DEF Room, k, c
<1>5. ASSUME pc' = pc, Len(queue') \in Nat, Len(queue') <= n PROVE Room'
  <2>1. k' = k
    BY <1>5 DEF Entering
  <2> HIDE DEF n, k, c
  <2>2. n + k <= BufferSize + c - 1
    BY DEF Room, n, k, c
  <2>3. Len(queue') + k <= BufferSize + c - 1
    BY <1>1, <1>2, <1>5, <2>2
  <2> QED  BY <2>1, <2>3 DEF Room, k, c
<1>6. CASE WorkerStart
  BY <1>2, <1>5, <1>6, EmptySeq DEF WorkerStart
<1>7. CASE PofForward
  <2>1. Len(queue') = n - 1 /\ queue' \in Seq(Elems)
    BY <1>7, ForwardKeepsBuffer
  <2>2. Len(queue') \in Nat
    BY <2>1, LenProperties
  <2> QED  BY <1>2, <1>5, <1>7, <2>1, <2>2 DEF PofForward
<1>8. CASE Tick
  BY <1>2, <1>5, <1>8, TickKeepsLength DEF Tick
<1>9. CASE PollEvent \/ PollTimeout \/ ReadEvent \/ ReadTimeout \/ ForwardDone \/ Rearm
           \/ DeletePof \/ UNCHANGED vars
  <2>1. queue' = queue /\ pc' = pc
    BY <1>9 DEF PollEvent, PollTimeout, ReadEvent, ReadTimeout, ForwardDone, Rearm, DeletePof,
                vars, buffer
  <2> QED  BY <1>2, <1>5, <2>1
<1> QED  BY <1>3, <1>4, <1>6, <1>7, <1>8, <1>9 DEF Next, Worker

\* With nobody between the check and the lock, the rest of the room is the buffer's.
LEMMA RoomBounds == IInv /\ Room => BufferBound
<1> SUFFICES ASSUME IInv, Room PROVE BufferBound
  OBVIOUS
<1> DEFINE n == Len(queue)
           k == Cardinality(Entering)
           c == Cardinality(Threads)
<1>1. n \in Nat /\ k \in 0 .. c /\ c \in Nat /\ BufferSize \in Nat
  BY EnteringFinite, LenProperties, PofAssumption
  DEF IInv, BufferSound, TypeOK, PofAssumption
<1>2. n + k <= BufferSize + c - 1
  BY DEF Room
<1> HIDE DEF n, k, c
<1>3. n <= BufferSize + c - 1
  BY <1>1, <1>2
<1> QED  BY <1>3 DEF BufferBound, n, c

(***************************************************************************)
(* The check of queue_len without the lock overfills the buffer by less    *)
(* than the number of the packet threads, however many there are and       *)
(* however they are scheduled (pof_insert).                                *)
(***************************************************************************)
THEOREM PofBufferBound == Spec => []BufferBound
<1>1. Init => IInv /\ Room
  BY RoomInit, IInvInit, PofAssumption
<1>2. IInv /\ Room /\ [Next]_vars => IInv' /\ Room'
  BY IInvNext, RoomNext, PofAssumption
<1>3. IInv /\ Room => BufferBound
  BY RoomBounds
<1> QED  BY <1>1, <1>2, <1>3, PTL DEF Spec

-----------------------------------------------------------------------------
(* The events that are left *)

Cap == 2 * (BufferSize + Cardinality(Threads) - 1)

\* Where the worker looks at the queue next, the events are those of packets
\* that came since it last read them or since the poll that timed out.
EventsOK ==
    ~ deleted =>
        /\ evfd >= 0
        /\ wpc # "stopped"
        /\ (\A p \in Packets : fate[p] # "leaked") =>
              /\ wpc \in {"start", "expired"} => evfd <= 2 * Len(queue)
              /\ wpc \in LockedSteps => evfd <= Cap
              /\ wpc \in {"poll", "event"} => evfd <= Cap + 2 * Len(queue)

\* Every step keeps the bounds; a round of the worker that was woken by a
\* timeout leaves the events of the packets it found.
LEMMA EventsNext ==
    IInv /\ Room /\ EventsOK /\ PofAssumption /\ [Next]_vars => EventsOK'
<1> SUFFICES ASSUME IInv, Room, EventsOK, PofAssumption, [Next]_vars, ~ deleted'
             PROVE  EventsOK'
  BY DEF EventsOK
<1> DEFINE n == Len(queue)
           none == \A p \in Packets : fate[p] # "leaked"
<1> USE DEF LockedSteps
<1>1. TypeOK /\ n \in Nat /\ evfd \in Int
  BY LenProperties DEF IInv, BufferSound, TypeOK
<1>2. Cap \in Nat /\ 2 * n <= Cap
  <2> DEFINE c == Cardinality(Threads)
  <2>1. c \in Nat \ {0} /\ BufferSize \in Nat /\ n <= BufferSize + c - 1
    BY EnteringFinite, RoomBounds DEF BufferBound, PofAssumption
  <2> HIDE DEF n, c
  <2>2. 2 * (BufferSize + c - 1) \in Nat /\ 2 * n <= 2 * (BufferSize + c - 1)
    BY <1>1, <2>1
  <2> QED  BY <2>2 DEF Cap, c
<1>3. CASE UNCHANGED vars
  BY <1>3 DEF EventsOK, vars, buffer, worker
<1>4. ~ deleted
  BY DEF Next, Worker, PofEnter, PofInsert, WorkerStart, PollEvent, PollTimeout, ReadEvent,
         ReadTimeout, PofForward, ForwardDone, Rearm, Tick, DeletePof, vars
<1>5. evfd >= 0 /\ wpc # "stopped"
  BY <1>4 DEF EventsOK
<1>6. none => /\ wpc \in {"start", "expired"} => evfd <= 2 * n
              /\ wpc \in LockedSteps => evfd <= Cap
              /\ wpc \in {"poll", "event"} => evfd <= Cap + 2 * n
  BY <1>4 DEF EventsOK
<1>7. ASSUME NEW t \in Threads, NEW p \in Packets, PofEnter(t, p) PROVE EventsOK'
  <2>1. UNCHANGED <<queue, evfd, wpc>> /\ fate[p] = "away"
    BY <1>7 DEF PofEnter, buffer, worker
  <2>2. \A q \in Packets : fate'[q] # "leaked" => fate[q] # "leaked"
    BY <1>1, <1>7, <2>1 DEF PofEnter, TypeOK
  <2> QED  BY <1>5, <1>6, <2>1, <2>2 DEF EventsOK
<1>8. ASSUME NEW t \in Threads, PofInsert(t) PROVE EventsOK'
  <2> DEFINE l == Len(queue')
             e == EventOf(Number(pc[t]))
  <2>1. l = n + 1
    BY <1>8, InsertKeepsBuffer
  <2>2. evfd' = evfd + e /\ e \in 1 .. 2
    BY <1>8 DEF PofInsert, EventOf, POF_IN_ORDER_PKT, POF_OUT_OF_ORDER_PKT
  <2>3. wpc' = wpc /\ wpc \notin LockedSteps
    BY <1>8 DEF PofInsert, worker, Locked
  <2>4. \A q \in Packets : fate'[q] # "leaked" => fate[q] # "leaked"
    <3>1. fate[pc[t]] = "entering" /\ pc[t] \in Packets
      BY <1>1, <1>8 DEF PofInsert, IInv, EnteringOK, TypeOK
    <3> QED  BY <1>1, <1>8, <3>1 DEF PofInsert, TypeOK
  <2>5. (\A q \in Packets : fate'[q] # "leaked") => none
    BY <2>4
  <2> HIDE DEF n, l, e, none
  <2>6. evfd' >= 0 /\ (evfd <= 2 * n => evfd' <= 2 * l)
        /\ (evfd <= Cap + 2 * n => evfd' <= Cap + 2 * l)
    BY <1>1, <1>2, <1>5, <2>1, <2>2
  <2> QED  BY <1>5, <1>6, <2>3, <2>5, <2>6 DEF EventsOK, l
<1>9. CASE WorkerStart
  <2>1. wpc = "start" /\ wpc' = "poll" /\ evfd' = evfd /\ queue' = <<>>
    BY <1>9 DEF WorkerStart
  <2>2. Len(queue') = 0
    BY <2>1, EmptySeq
  <2>3. ASSUME \A q \in Packets : fate'[q] # "leaked" PROVE none /\ n = 0
    <3>1. \A q \in Packets : fate[q] # "leaked" /\ fate[q] # "buffered"
      BY <1>9, <2>3 DEF WorkerStart
    <3>2. DOMAIN queue = {}
      BY <3>1 DEF IInv, BufferSound, Conservation
    <3> QED  BY <1>1, <3>1, <3>2, LenProperties DEF TypeOK
  <2> HIDE DEF n
  <2>4. n = 0 /\ evfd <= 2 * n => evfd <= Cap + 2 * 0
    BY <1>1, <1>2
  <2> QED  BY <1>5, <1>6, <2>1, <2>2, <2>3, <2>4 DEF EventsOK
<1>10. CASE PollEvent
  BY <1>5, <1>6, <1>10 DEF PollEvent, EventsOK, buffer
<1>11. CASE PollTimeout
  <2>1. evfd' = 0 /\ wpc' = "expired" /\ queue' = queue
    BY <1>11 DEF PollTimeout, buffer
  <2> HIDE DEF n
  <2>2. 0 <= 2 * n
    BY <1>1
  <2> QED  BY <2>1, <2>2 DEF EventsOK, n
<1>12. CASE ReadEvent
  <2>1. evfd' = 0 /\ wpc' \in {"forward", "rearm"}
    BY <1>1, <1>5, <1>12 DEF ReadEvent, TryForward
  <2> QED  BY <1>2, <2>1 DEF EventsOK
<1>13. CASE ReadTimeout
  <2>1. evfd' = evfd /\ fate' = fate /\ wpc = "expired" /\ wpc' \in {"forward", "rearm"}
    BY <1>13 DEF ReadTimeout, TryForward
  <2> HIDE DEF n
  <2>2. evfd <= 2 * n => evfd <= Cap
    BY <1>1, <1>2
  <2> QED  BY <1>5, <1>6, <2>1, <2>2 DEF EventsOK
<1>14. CASE PofForward
  <2>1. evfd' = evfd /\ wpc' = wpc /\ wpc = "forward"
    BY <1>14 DEF PofForward
  <2>2. queue[send_at].id \in Packets /\ fate[queue[send_at].id] = "buffered"
    BY <1>14, ForwardKeepsBuffer DEF Elems, IInv, BufferSound, Conservation
  <2>3. \A q \in Packets : fate'[q] # "leaked" => fate[q] # "leaked"
    BY <1>1, <1>14, <2>2 DEF PofForward, TypeOK
  <2> QED  BY <1>5, <1>6, <2>1, <2>3 DEF EventsOK
<1>15. CASE ForwardDone
  BY <1>5, <1>6, <1>15 DEF ForwardDone, EventsOK
<1>16. CASE Rearm
  <2>1. evfd' = evfd /\ wpc = "rearm" /\ wpc' = "poll" /\ UNCHANGED <<queue, fate>>
    BY <1>16 DEF Rearm
  <2> HIDE DEF n
  <2>2. evfd <= Cap => evfd <= Cap + 2 * n
    BY <1>1, <1>2
  <2> QED  BY <1>5, <1>6, <2>1, <2>2 DEF EventsOK, n
<1>17. CASE Tick
  <2>1. UNCHANGED <<evfd, wpc, fate>>
    BY <1>17 DEF Tick
  <2>2. Len(queue') = n
    BY <1>17, TickKeepsLength
  <2> QED  BY <1>5, <1>6, <2>1, <2>2 DEF EventsOK
<1>18. CASE DeletePof
  BY <1>18 DEF DeletePof
<1> QED  BY <1>3, <1>7, <1>8, <1>9, <1>10, <1>11, <1>12, <1>13, <1>14, <1>15, <1>16, <1>17,
            <1>18 DEF Next, Worker

(***************************************************************************)
(* When the last reference to a packet ordering object goes, the eventfd   *)
(* holds at most the events of one full buffer, for any number of threads  *)
(* and any buffer size; with a buffer of four packets or less and one      *)
(* thread the stop event of delete_pof() always fits (pof_thread,          *)
(* delete_pof).                                                            *)
(***************************************************************************)
THEOREM PofEventsBounded == Spec => []EventsBounded
<1>1. Init => IInv /\ Room /\ EventsOK
  <2>1. Init => EventsOK
    <3> SUFFICES ASSUME Init PROVE EventsOK
      OBVIOUS
    <3>1. evfd = 0 /\ wpc = "start" /\ Len(queue) = 0
      BY EmptySeq DEF Init
    <3> QED  BY <3>1 DEF EventsOK, LockedSteps
  <2> QED  BY <2>1, RoomInit, IInvInit, PofAssumption
<1>2. IInv /\ Room /\ EventsOK /\ [Next]_vars => IInv' /\ Room' /\ EventsOK'
  BY IInvNext, RoomNext, EventsNext, PofAssumption
<1>3. IInv /\ Room /\ EventsOK => EventsBounded
  <2> SUFFICES ASSUME IInv, Room, EventsOK, ~ deleted, ~ Referenced PROVE evfd <= Cap
    BY DEF EventsBounded, Cap
  <2> DEFINE n == Len(queue)
  <2>1. \A p \in Packets : fate[p] # "leaked" /\ fate[p] # "buffered"
    BY DEF Referenced
  <2>2. n = 0 /\ evfd \in Int /\ wpc # "stopped"
    <3>1. DOMAIN queue = {}
      BY <2>1 DEF IInv, BufferSound, Conservation
    <3> QED  BY <3>1, LenProperties DEF IInv, BufferSound, TypeOK, EventsOK
  <2>3. Cap \in Nat
    <3> DEFINE c == Cardinality(Threads)
    <3>1. c \in Nat \ {0} /\ BufferSize \in Nat
      BY EnteringFinite, PofAssumption DEF PofAssumption
    <3> HIDE DEF c
    <3>2. 2 * (BufferSize + c - 1) \in Nat
      BY <3>1
    <3> QED  BY <3>2 DEF Cap, c
  <2>4. evfd <= 2 * n \/ evfd <= Cap \/ evfd <= Cap + 2 * n
    BY <2>1, <2>2 DEF EventsOK, IInv, BufferSound, TypeOK
  <2> HIDE DEF n
  <2> QED  BY <2>2, <2>3, <2>4
<1> QED  BY <1>1, <1>2, <1>3, PTL DEF Spec

-----------------------------------------------------------------------------
(* The order of forwarding *)

\* A buffered packet carries its own number, and pof_last_sent is the number of
\* a packet that was sent.
SentOK ==
    /\ \A i \in DOMAIN queue : queue[i].seq = Number(queue[i].id)
    /\ pof_last_sent # 0 => pof_last_sent \in Packets /\ fate[pof_last_sent] = "forwarded"

\* Before the numbers wrap a packet's number is its place in the stream.
LEMMA NumberIsPlace ==
    ASSUME PofAssumption, MaxPacket < SEQ_SPACE, NEW p \in Packets
    PROVE  Number(p) = p
BY DEF Number, Packets, PofAssumption

LEMMA SentNext ==
    ASSUME MaxPacket < SEQ_SPACE, PofAssumption, IInv, SentOK, [Next]_vars
    PROVE  SentOK'
<1>1. TypeOK
  BY DEF IInv, BufferSound
<1>2. ASSUME UNCHANGED <<queue, pof_last_sent>>,
             \A p \in Packets : fate[p] = "forwarded" => fate'[p] = "forwarded"
      PROVE  SentOK'
  BY <1>2 DEF SentOK
<1>3. ASSUME NEW t \in Threads, NEW p \in Packets, PofEnter(t, p) PROVE SentOK'
  <2>1. \A q \in Packets : fate[q] = "forwarded" => fate'[q] = "forwarded"
    BY <1>1, <1>3 DEF PofEnter, TypeOK
  <2> QED  BY <1>2, <1>3, <2>1 DEF PofEnter, buffer
<1>4. ASSUME NEW t \in Threads, PofInsert(t) PROVE SentOK'
  <2>1. fate[pc[t]] = "entering" /\ pc[t] \in Packets
    BY <1>1, <1>4 DEF PofInsert, IInv, EnteringOK, TypeOK
  <2>2. \A q \in Packets : fate[q] = "forwarded" => fate'[q] = "forwarded"
    BY <1>1, <1>4, <2>1 DEF PofInsert, TypeOK
  <2>3. \A j \in DOMAIN queue' : queue'[j].seq = Number(queue'[j].id)
    BY <1>4, InsertKeepsBuffer DEF SentOK
  <2>4. pof_last_sent' = pof_last_sent
    BY <1>4 DEF PofInsert
  <2> QED  BY <2>2, <2>3, <2>4 DEF SentOK
<1>5. CASE WorkerStart
  <2>1. DOMAIN queue' = {}
    BY <1>5, EmptySeq DEF WorkerStart
  <2>2. pof_last_sent' = pof_last_sent
        /\ \A q \in Packets : fate[q] = "forwarded" => fate'[q] = "forwarded"
    BY <1>5 DEF WorkerStart
  <2> QED  BY <2>1, <2>2 DEF SentOK
<1>6. CASE PofForward
  <2> DEFINE e == queue[send_at]
  <2>1. /\ send_at \in DOMAIN queue /\ e \in Elems
        /\ \A j \in DOMAIN queue' : \E k \in DOMAIN queue : queue'[j] = queue[k]
    BY <1>6, ForwardKeepsBuffer
  <2>2. e.id \in Packets /\ e.seq = e.id
    BY <2>1, NumberIsPlace DEF Elems, SentOK
  <2>3. pof_last_sent' \in {pof_last_sent, e.seq} /\ fate' = [fate EXCEPT ![e.id] = "forwarded"]
    BY <1>6 DEF PofForward
  <2>4. \A j \in DOMAIN queue' : queue'[j].seq = Number(queue'[j].id)
    BY <2>1 DEF SentOK
  <2> HIDE DEF e
  <2>5. fate'[e.id] = "forwarded"
        /\ \A q \in Packets : fate[q] = "forwarded" => fate'[q] = "forwarded"
    BY <1>1, <2>2, <2>3 DEF TypeOK
  <2> QED  BY <2>2, <2>3, <2>4, <2>5 DEF SentOK
<1>7. CASE Tick
  <2>1. DOMAIN queue' = DOMAIN queue /\ pof_last_sent' = pof_last_sent /\ fate' = fate
    BY <1>7 DEF Tick
  <2>2. \A i \in DOMAIN queue : queue'[i] = [queue[i] EXCEPT !.left = Minus1(queue[i].left)]
    BY <1>7 DEF Tick
  <2>3. \A i \in DOMAIN queue : queue[i] \in Elems
    BY <1>1, LenProperties, ElementOfSeq DEF TypeOK
  <2>4. \A i \in DOMAIN queue : queue'[i].id = queue[i].id /\ queue'[i].seq = queue[i].seq
    BY <2>2, <2>3 DEF Elems
  <2> QED  BY <2>1, <2>4 DEF SentOK
<1>8. CASE PollEvent \/ PollTimeout \/ ReadEvent \/ ReadTimeout \/ ForwardDone \/ Rearm
           \/ DeletePof \/ UNCHANGED vars
  <2>1. UNCHANGED <<queue, pof_last_sent, fate>>
    BY <1>8 DEF PollEvent, PollTimeout, ReadEvent, ReadTimeout, ForwardDone, Rearm, DeletePof,
                vars, buffer
  <2> QED  BY <1>2, <2>1
<1> QED  BY <1>3, <1>4, <1>5, <1>6, <1>7, <1>8 DEF Next, Worker

(***************************************************************************)
(* As long as the numbers have not wrapped, a packet that no timeout       *)
(* pushes is forwarded only after its predecessor or after a later one,    *)
(* for any number of threads and in any order of arrival                   *)
(* (pof_try_forward).  The hypothesis cannot be dropped: with fewer        *)
(* numbers than packets the order breaks at the wrap.                      *)
(***************************************************************************)
THEOREM PofForwardsInOrder ==
    ASSUME MaxPacket < SEQ_SPACE
    PROVE  Spec => ForwardsInOrder
<1> DEFINE InOrderStep ==
        \A p \in Packets :
            /\ fate[p] = "buffered"
            /\ fate'[p] = "forwarded"
            /\ ~ timeout /\ ~ take_any
            => \/ p = 1
               \/ fate[p - 1] = "forwarded"
               \/ \E q \in Packets : q > p /\ fate[q] = "forwarded"
<1>1. Init => IInv /\ SentOK
  <2>1. Init => SentOK
    BY EmptySeq DEF Init, SentOK
  <2> QED  BY <2>1, IInvInit, PofAssumption
<1>2. IInv /\ SentOK /\ [Next]_vars => IInv' /\ SentOK'
  BY IInvNext, SentNext, PofAssumption
<1>3. IInv /\ SentOK /\ [Next]_vars => [InOrderStep]_vars
  <2> SUFFICES ASSUME IInv, SentOK, Next,
                      NEW p \in Packets, fate[p] = "buffered", fate'[p] = "forwarded",
                      ~ timeout, ~ take_any
               PROVE  \/ p = 1
                      \/ fate[p - 1] = "forwarded"
                      \/ \E q \in Packets : q > p /\ fate[q] = "forwarded"
    BY DEF IInv, BufferSound
  <2>1. TypeOK
    BY DEF IInv, BufferSound
  <2> DEFINE e == queue[send_at]
  <2>2. PofForward
    <3>1. ASSUME NEW t \in Threads, NEW q \in Packets, PofEnter(t, q) PROVE FALSE
      BY <2>1, <3>1 DEF PofEnter, TypeOK
    <3>2. ASSUME NEW t \in Threads, PofInsert(t) PROVE FALSE
      BY <2>1, <3>2 DEF PofInsert, TypeOK
    <3>3. ~ WorkerStart
      BY DEF WorkerStart
    <3>4. fate' # fate
      OBVIOUS
    <3> QED  BY <3>1, <3>2, <3>3, <3>4 DEF Next, Worker, PollEvent, PollTimeout, ReadEvent,
             ReadTimeout, ForwardDone, Rearm, Tick, DeletePof
  <2>3. send_at \in DOMAIN queue /\ e \in Elems
    BY <2>2, ForwardKeepsBuffer, PofAssumption
  <2>4. e.id \in Packets /\ e.seq = e.id
    BY <2>3, NumberIsPlace, PofAssumption DEF Elems, SentOK
  <2>5. (InOrder(e) \/ Late(e)) /\ fate' = [fate EXCEPT ![e.id] = "forwarded"]
    BY <2>2 DEF PofForward
  <2> HIDE DEF e
  <2>6. p = e.id
    BY <2>1, <2>4, <2>5 DEF TypeOK
  <2>7. p \in Nat \ {0} /\ pof_last_sent \in Nat
    BY <2>1 DEF Packets, TypeOK, PofAssumption
  <2>8. CASE p = pof_last_sent + 1
    <3>1. pof_last_sent = p - 1
      BY <2>7, <2>8
    <3> QED  BY <2>7, <2>8, <3>1 DEF SentOK
  <2>9. CASE p < pof_last_sent + 1
    <3>1. pof_last_sent # 0 /\ pof_last_sent >= p
      BY <2>7, <2>9
    <3>2. pof_last_sent \in Packets /\ fate[pof_last_sent] = "forwarded"
      BY <3>1 DEF SentOK
    <3>3. pof_last_sent # p
      BY <3>2
    <3> QED  BY <2>7, <3>1, <3>2, <3>3
  <2> QED  BY <2>4, <2>5, <2>6, <2>8, <2>9 DEF InOrder, Late
<1> QED  BY <1>1, <1>2, <1>3, PTL DEF Spec, ForwardsInOrder

=============================================================================
