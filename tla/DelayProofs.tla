----------------------------- MODULE DelayProofs ----------------------------
(***************************************************************************)
(* The change of mailboxes of the delay queue loses and repeats nothing,   *)
(* and the delay thread waits for the right deadline, for every number of  *)
(* packet threads and packets and all deadlines.                           *)
(***************************************************************************)
EXTENDS Delay, QueueLemmas

-----------------------------------------------------------------------------
(* The inductive invariant. *)

\* The part of the type invariant the argument needs.
HandoverTypes ==
    /\ mbox \in Boxes \cup {0}
    /\ box \in [Boxes -> Seq(Packets \cup {FLUSH_SIGNAL})]
    /\ dpc \in [Boxes -> {"none", "wait", "late", "idle", "nap", "gone", "crashed"}]
    /\ pc \in [Threads -> {"out", "lock", "push"}]
    /\ held \in [Threads -> Packets \cup {0}]
    /\ m \in [Threads -> Boxes \cup {0}]
    /\ fm \in Boxes \cup {0}

\* A packet thread that inserts has a packet, and a mailbox to push it to.
InsertOK ==
    \A t \in Threads :
        /\ pc[t] # "out" => held[t] \in Packets
        /\ pc[t] = "push" => m[t] \in Boxes

\* No packet thread inserts once the shutdown has started.
Quiet == fpc # "run" => \A t \in Threads : pc[t] = "out"

\* The flush signal is in no mailbox before finish_delay() has pushed it,
\* which has read a pointer by then.
NoFlush ==
    /\ fpc \in {"run", "lock", "push"} =>
         \A b \in Boxes : \A i \in 1 .. Len(box[b]) : box[b][i] # FLUSH_SIGNAL
    /\ fpc \in {"lock", "push"} => fm \in Boxes

\* A thread that naps has given its mailbox up.
NapOK == \A b \in Boxes : dpc[b] = "nap" => mbox # b

\* Nobody pushes to a mailbox that was given up, once its thread has had its
\* nap.
GivenUp ==
    \A b \in Boxes : mbox # b /\ dpc[b] # "nap" => \A t \in Threads : pc[t] = "push" => m[t] # b

IInv ==
    /\ HandoverTypes
    /\ InsertOK
    /\ Quiet
    /\ NoFlush
    /\ NapOK
    /\ GivenUp
    /\ MailboxServed

-----------------------------------------------------------------------------
\* Nothing is served, pushed or flushed before the first packet.
LEMMA InitHandover == Init => IInv
BY DEF Init, IInv, HandoverTypes, InsertOK, Quiet, NoFlush, NapOK, GivenUp, MailboxServed

\* get_mbox() without the mutex: the pointer read is the current mailbox.
LEMMA GetMboxHandover ==
    ASSUME IInv, NEW t \in Threads, NEW p \in Packets, GetMbox(t, p)
    PROVE  IInv'
<1> USE DEF IInv, GetMbox, delayThread, finisher
<1>1. HandoverTypes'
  BY DEF HandoverTypes
<1>2. InsertOK'
  BY DEF HandoverTypes, InsertOK
<1>3. Quiet' /\ NoFlush' /\ NapOK'
  BY DEF Quiet, NoFlush, NapOK
<1>4. GivenUp' /\ MailboxServed'
  BY DEF HandoverTypes, GivenUp, MailboxServed
<1> QED BY <1>1, <1>2, <1>3, <1>4

\* get_mbox() with the mutex: the mailbox is the current one, or a new one.
LEMMA GetMboxLockedHandover ==
    ASSUME IInv, NEW t \in Threads, GetMboxLocked(t)
    PROVE  IInv'
<1> USE DEF IInv
<1>1. CASE mbox # 0
  <2>1. /\ m' = [m EXCEPT ![t] = mbox] /\ pc' = [pc EXCEPT ![t] = "push"] /\ pc[t] = "lock"
        /\ UNCHANGED <<mbox, dpc, timer, mutex, box, queue, held, fpc, fm, fate>>
    BY <1>1 DEF GetMboxLocked, finisher
  <2>2. HandoverTypes' /\ InsertOK'
    BY <1>1, <2>1 DEF HandoverTypes, InsertOK
  <2>3. Quiet' /\ NoFlush' /\ NapOK'
    BY <2>1 DEF Quiet, NoFlush, NapOK
  <2>4. GivenUp' /\ MailboxServed'
    BY <1>1, <2>1 DEF HandoverTypes, GivenUp, MailboxServed, Quiet
  <2> QED BY <2>2, <2>3, <2>4
<1>2. CASE mbox = 0
  <2>1. PICK b \in Boxes : /\ dpc[b] = "none" /\ m' = [m EXCEPT ![t] = b] /\ mbox' = b
                           /\ dpc' = [dpc EXCEPT ![b] = "wait"]
    BY <1>2 DEF GetMboxLocked, NewBox
  <2>2. /\ pc' = [pc EXCEPT ![t] = "push"] /\ pc[t] = "lock"
        /\ UNCHANGED <<box, held, fpc, fm>>
    BY DEF GetMboxLocked, finisher
  <2>3. 0 \notin Boxes
    BY DEF Boxes
  <2>4. HandoverTypes' /\ InsertOK'
    BY <2>1, <2>2, <2>3 DEF HandoverTypes, InsertOK
  <2>5. Quiet' /\ NoFlush' /\ NapOK'
    BY <2>1, <2>2 DEF HandoverTypes, Quiet, NoFlush, NapOK
  <2>6. GivenUp'
    BY <1>2, <2>1, <2>2, <2>3 DEF HandoverTypes, GivenUp
  <2>7. ASSUME NEW s \in Threads, pc'[s] = "push"
        PROVE  dpc'[m'[s]] \notin {"none", "gone"}
    <3>1. CASE s = t
      BY <2>1, <2>2, <3>1 DEF HandoverTypes
    <3>2. CASE s # t
      <4>1. pc[s] = "push" /\ m'[s] = m[s] /\ m[s] \in Boxes
        BY <2>1, <2>2, <2>7, <3>2 DEF HandoverTypes, InsertOK
      <4>2. dpc[m[s]] \notin {"none", "gone"}
        BY <4>1 DEF MailboxServed
      <4> QED BY <2>1, <4>1, <4>2 DEF HandoverTypes
    <3> QED BY <3>1, <3>2
  <2>8. MailboxServed'
    BY <2>1, <2>2, <2>7 DEF HandoverTypes, MailboxServed
  <2> QED BY <2>4, <2>5, <2>6, <2>8
<1> QED BY <1>1, <1>2

\* messagequeue_push(): the mailbox has one more packet.
LEMMA PushHandover ==
    ASSUME IInv, NEW t \in Threads, MessagequeuePush(t)
    PROVE  IInv'
<1> USE DEF IInv
<1>1. /\ pc[t] = "push" /\ held[t] \in Packets /\ m[t] \in Boxes
      /\ box' = [box EXCEPT ![m[t]] = Append(@, held[t])]
      /\ pc' = [pc EXCEPT ![t] = "out"] /\ held' = [held EXCEPT ![t] = 0] /\ m' = [m EXCEPT ![t] = 0]
      /\ UNCHANGED <<mbox, dpc, fpc, fm>>
  BY DEF MessagequeuePush, MailboxServed, InsertOK, delayThread, finisher
<1>2. HandoverTypes'
  BY <1>1 DEF HandoverTypes
<1>3. InsertOK' /\ Quiet' /\ NapOK' /\ GivenUp' /\ MailboxServed'
  BY <1>1 DEF HandoverTypes, InsertOK, Quiet, NapOK, GivenUp, MailboxServed
<1>4. NoFlush'
  BY <1>1 DEF HandoverTypes, NoFlush, Packets, FLUSH_SIGNAL
<1> QED BY <1>2, <1>3, <1>4

\* A step of the delay thread of mailbox b that neither gives the mailbox up
\* nor exits, and takes a packet from the mailbox at most.
LEMMA ServeHandover ==
    ASSUME IInv, NEW b \in Boxes,
           dpc[b] \in {"wait", "late", "nap"}, dpc[b] = "nap" => Pushed(b) /\ mbox # b,
           NEW d \in {"wait", "late", "idle"}, dpc' = [dpc EXCEPT ![b] = d],
           \/ UNCHANGED box
           \/ box[b] # <<>> /\ box' = [box EXCEPT ![b] = Tail(@)],
           UNCHANGED <<mbox, packetThread, finisher>>
    PROVE  IInv'
<1> USE DEF IInv, packetThread, finisher
<1>0. box[b] # <<>> => /\ Tail(box[b]) \in Seq(Packets \cup {FLUSH_SIGNAL})
                       /\ Len(Tail(box[b])) = Len(box[b]) - 1 /\ Len(box[b]) \in Nat
                       /\ \A i \in 1 .. Len(Tail(box[b])) : Tail(box[b])[i] = box[b][i + 1]
  BY HeadTailProperties, LenProperties DEF HandoverTypes
<1>1. box' \in [Boxes -> Seq(Packets \cup {FLUSH_SIGNAL})]
  BY <1>0 DEF HandoverTypes
<1>2. HandoverTypes'
  BY <1>1 DEF HandoverTypes
<1>3. InsertOK' /\ Quiet' /\ NapOK' /\ GivenUp' /\ MailboxServed'
  BY DEF HandoverTypes, InsertOK, Quiet, NapOK, GivenUp, MailboxServed, Pushed
<1>4. NoFlush'
  <2>1. CASE UNCHANGED box
    BY <2>1 DEF NoFlush
  <2>2. CASE box[b] # <<>> /\ box' = [box EXCEPT ![b] = Tail(@)]
    <3>1. /\ box'[b] = Tail(box[b])
          /\ \A c \in Boxes : c # b => box'[c] = box[c]
      BY <2>2 DEF HandoverTypes
    <3>2. ASSUME NEW i \in 1 .. Len(Tail(box[b]))
          PROVE  i + 1 \in 1 .. Len(box[b]) /\ Tail(box[b])[i] = box[b][i + 1]
      <4> DEFINE n == Len(box[b])
      <4>1. n \in Nat /\ i \in 1 .. n - 1 /\ Tail(box[b])[i] = box[b][i + 1]
        BY <1>0, <2>2
      <4>2. i + 1 \in 1 .. n
        <5> HIDE DEF n
        <5> QED BY <4>1
      <4> QED BY <4>1, <4>2
    <3>3. ASSUME NEW c \in Boxes, NEW i \in 1 .. Len(box'[c]), fpc \in {"run", "lock", "push"}
          PROVE  box'[c][i] # FLUSH_SIGNAL
      <4>1. CASE c = b
        <5>1. i \in 1 .. Len(Tail(box[b])) /\ box'[c][i] = Tail(box[b])[i]
          BY <3>1, <4>1
        <5>2. i + 1 \in 1 .. Len(box[b]) /\ box'[c][i] = box[b][i + 1]
          BY <3>2, <5>1
        <5> QED BY <3>3, <5>2 DEF NoFlush
      <4>2. CASE c # b
        BY <3>1, <3>3, <4>2 DEF NoFlush
      <4> QED BY <4>1, <4>2
    <3> QED BY <3>3 DEF NoFlush
  <2> QED BY <2>1, <2>2
<1> QED BY <1>2, <1>3, <1>4

\* A thread that exits: nobody pushes to its mailbox, which is not the current
\* one before the shutdown.
LEMMA ExitHandover ==
    ASSUME IInv, NEW b \in Boxes,
           Pushed(b), mbox # b \/ fpc # "run",
           NEW d \in {"gone", "crashed"}, dpc' = [dpc EXCEPT ![b] = d],
           box' = box \/ box' = [box EXCEPT ![b] = <<>>],
           UNCHANGED <<mbox, packetThread, finisher>>
    PROVE  IInv'
<1> USE DEF IInv, packetThread, finisher
<1>0. <<>> \in Seq(Packets \cup {FLUSH_SIGNAL}) /\ Len(<<>>) = 0
  OBVIOUS
<1>1. HandoverTypes'
  BY <1>0 DEF HandoverTypes
<1>2. InsertOK' /\ Quiet' /\ NapOK' /\ GivenUp' /\ MailboxServed'
  BY DEF HandoverTypes, InsertOK, Quiet, NapOK, GivenUp, MailboxServed, Pushed
<1>3. NoFlush'
  <2>1. \A c \in Boxes : box'[c] = box[c] \/ box'[c] = <<>>
    BY DEF HandoverTypes
  <2> QED BY <1>0, <2>1 DEF NoFlush
<1> QED BY <1>1, <1>2, <1>3

\* The flush signal comes after the packet threads have stopped.
LEMMA FlushIsLate ==
    ASSUME IInv, NEW b \in Boxes, box[b] # <<>>, Head(box[b]) = FLUSH_SIGNAL
    PROVE  fpc # "run" /\ Pushed(b)
<1>1. 1 \in 1 .. Len(box[b]) /\ box[b][1] = FLUSH_SIGNAL
  BY DEF IInv, HandoverTypes
<1>2. fpc # "run"
  BY <1>1 DEF IInv, NoFlush
<1> QED BY <1>2 DEF IInv, Quiet, Pushed

\* One step for every action of the delay thread.
LEMMA DelayThreadHandover ==
    ASSUME IInv, NEW b \in Boxes, DelayThread(b)
    PROVE  IInv'
<1>1. dpc[b] = "nap" => mbox # b
  BY DEF IInv, NapOK
<1>2. dpc \in [Boxes -> {"none", "wait", "late", "idle", "nap", "gone", "crashed"}]
  BY DEF IInv, HandoverTypes
<1>3. ASSUME NEW q, WaitFor(b, q)
      PROVE  \E d \in {"wait", "late", "idle"} : dpc' = [dpc EXCEPT ![b] = d]
  BY <1>3 DEF WaitFor
<1>4. ASSUME NEW d \in 0 .. MaxDelay, DelayReceive(b, d)
      PROVE  IInv'
  BY <1>3, <1>4, ServeHandover DEF DelayReceive, Take
<1>5. ASSUME NEW d \in 0 .. MaxDelay, IdleRescue(b, d)
      PROVE  IInv'
  <2>1. CASE Take(b, d)
    BY <1>1, <1>3, <1>5, <2>1, ServeHandover DEF IdleRescue, Take
  <2>2. CASE box[b] # <<>> /\ Head(box[b]) = FLUSH_SIGNAL /\ dpc' = [dpc EXCEPT ![b] = "crashed"]
             /\ UNCHANGED <<box, queue, timer>>
    BY <1>5, <2>2, FlushIsLate, ExitHandover DEF IdleRescue
  <2> QED BY <1>5, <2>1, <2>2 DEF IdleRescue
<1>6. CASE DelayFlush(b)
  BY <1>6, FlushIsLate, ExitHandover DEF DelayFlush
<1>7. CASE QueueSendFirst(b)
  BY <1>3, <1>7, ServeHandover DEF QueueSendFirst, TimedOut
<1>8. CASE IdleTimeout(b)
  BY <1>8, ServeHandover DEF IdleTimeout, TimedOut
<1>9. CASE IdleLock(b) /\ mbox = b
  <2>1. /\ mbox' = 0 /\ dpc' = [dpc EXCEPT ![b] = "nap"] /\ dpc[b] = "idle" /\ 0 \notin Boxes
        /\ UNCHANGED <<box, pc, held, m, fpc, fm>>
    BY <1>9 DEF IdleLock, packetThread, finisher, Boxes
  <2>2. HandoverTypes' /\ InsertOK' /\ Quiet' /\ NoFlush'
    BY <2>1 DEF IInv, HandoverTypes, InsertOK, Quiet, NoFlush
  <2>3. NapOK' /\ GivenUp'
    BY <1>9, <2>1 DEF IInv, HandoverTypes, NapOK, GivenUp
  <2>4. MailboxServed'
    BY <2>1 DEF IInv, HandoverTypes, InsertOK, MailboxServed
  <2> QED BY <2>2, <2>3, <2>4 DEF IInv
<1>10. CASE IdleLock(b) /\ mbox # b
  <2>1. Pushed(b)
    BY <1>10 DEF IInv, GivenUp, Pushed, IdleLock
  <2> QED BY <1>10, <2>1, ExitHandover DEF IdleLock
<1>11. CASE IdleExit(b)
  BY <1>1, <1>11, ExitHandover DEF IdleExit
<1> QED BY <1>4, <1>5, <1>6, <1>7, <1>8, <1>9, <1>10, <1>11 DEF DelayThread

\* finish_delay() starts when no packet thread inserts.
LEMMA FinishHandover ==
    ASSUME IInv, Finish
    PROVE  IInv'
<1> USE DEF IInv, delayThread, packetThread
<1>1. 0 \notin Boxes
  BY DEF Boxes
<1>2. CASE FinishStart
  BY <1>1, <1>2 DEF FinishStart, HandoverTypes, InsertOK, Quiet, NoFlush, NapOK, GivenUp, MailboxServed
<1>3. CASE FinishLock
  BY <1>3 DEF FinishLock, HandoverTypes, InsertOK, Quiet, NoFlush, NapOK, GivenUp, MailboxServed
<1>4. CASE FinishPush
  <2>1. fm \in Boxes /\ fpc' \in {"wait", "crashed"}
    BY <1>4 DEF FinishPush, NoFlush
  <2>2. HandoverTypes'
    <3>1. Append(box[fm], FLUSH_SIGNAL) \in Seq(Packets \cup {FLUSH_SIGNAL})
      BY <2>1 DEF HandoverTypes
    <3> QED BY <1>4, <2>1, <3>1 DEF FinishPush, HandoverTypes
  <2> QED BY <1>4, <2>1, <2>2 DEF FinishPush, InsertOK, Quiet, NoFlush, NapOK, GivenUp, MailboxServed
<1>5. CASE FinishWait
  BY <1>1, <1>5 DEF FinishWait, HandoverTypes, InsertOK, Quiet, NoFlush, NapOK, GivenUp, MailboxServed
<1> QED BY <1>2, <1>3, <1>4, <1>5 DEF Finish

\* Every step keeps the inductive invariant.
LEMMA NextHandover == IInv /\ [Next]_vars => IInv'
<1> SUFFICES ASSUME IInv, [Next]_vars
             PROVE  IInv'
  OBVIOUS
<1>1. CASE Tick
  BY <1>1 DEF Tick, packetThread, finisher, IInv, HandoverTypes, InsertOK, Quiet, NoFlush, NapOK,
             GivenUp, MailboxServed
<1>2. CASE UNCHANGED vars
  BY <1>2 DEF vars, delayThread, packetThread, finisher, IInv, HandoverTypes, InsertOK, Quiet,
             NoFlush, NapOK, GivenUp, MailboxServed
<1> QED
  BY <1>1, <1>2, GetMboxHandover, GetMboxLockedHandover, PushHandover, DelayThreadHandover,
     FinishHandover DEF Next

(***************************************************************************)
(* Whatever the number of packet threads and packets, the current mailbox  *)
(* has a thread that serves it, and no packet thread pushes to a mailbox   *)
(* that is gone, if the nap of the delay thread is longer than the time a  *)
(* packet thread needs between get_mbox() and messagequeue_push().         *)
(***************************************************************************)
THEOREM MailboxServedAlways == Spec => []MailboxServed
<1>1. IInv => MailboxServed
  BY DEF IInv
<1> QED BY <1>1, InitHandover, NextHandover, PTL DEF Spec

\* The queue of a delay thread: sorted by deadline, no packet twice.
QueueOK(q) ==
    /\ q \in Seq(Elems)
    /\ \A i, j \in 1 .. Len(q) : i < j => q[i].left <= q[j].left
    /\ \A i, j \in 1 .. Len(q) : i # j => q[i].id # q[j].id

Ids(q) == {q[i].id : i \in 1 .. Len(q)}

\* A mailbox: no message twice, and nothing behind the flush signal.
BoxOK(s) ==
    /\ s \in Seq(Packets \cup {FLUSH_SIGNAL})
    /\ \A i, j \in 1 .. Len(s) : i # j => s[i] # s[j]
    /\ \A i \in 1 .. Len(s) : s[i] = FLUSH_SIGNAL => i = Len(s)

Messages(s) == {s[i] : i \in 1 .. Len(s)}

-----------------------------------------------------------------------------
\* Nothing waits in an empty queue or mailbox.
LEMMA EmptyOK ==
    QueueOK(<<>>) /\ Ids(<<>>) = {} /\ BoxOK(<<>>) /\ Messages(<<>>) = {}
BY DEF QueueOK, Ids, BoxOK, Messages

\* queue_push() keeps the order of the deadlines, and adds one packet.
LEMMA QueuePushOK ==
    ASSUME NEW q, QueueOK(q), NEW e \in Elems, e.id \notin Ids(q)
    PROVE  /\ QueueOK(QueuePush(q, e)) /\ QueuePush(q, e) # <<>>
           /\ Ids(QueuePush(q, e)) = Ids(q) \cup {e.id}
<1> DEFINE n == Len(q)
           r == QueuePush(q, e)
           key == [j \in 1 .. n |-> q[j].left]
           earlier == {i \in DOMAIN q : \A j \in 1 .. i : q[j].left < e.left}
<1>1. q \in Seq(Elems) /\ n \in Nat /\ DOMAIN q = 1 .. n /\ \A i \in 1 .. n : q[i] \in Elems
  BY LenProperties, ElementOfSeq DEF QueueOK
<1>2. /\ e.left \in Int /\ e.id \in Packets
      /\ \A i \in 1 .. n : q[i].left \in Int /\ q[i].id \in Packets
  BY <1>1, DelayAssumption DEF Elems
<1>3. key \in [1 .. n -> Int] /\ \A i, j \in 1 .. n : i < j => key[i] <= key[j]
  BY <1>2 DEF QueueOK
<1>4. PICK k \in 1 .. n + 1 :
        /\ Cardinality({i \in 1 .. n : \A j \in 1 .. i : key[j] < e.left}) + 1 = k
        /\ \A j \in 1 .. k - 1 : key[j] < e.left
        /\ \A j \in k .. n : e.left <= key[j]
  <2> HIDE DEF key, n
  <2> QED  BY <1>1, <1>2, <1>3, SortedPlace
<1>5. {i \in 1 .. n : \A j \in 1 .. i : key[j] < e.left} = earlier
  <2>1. \A i \in 1 .. n : \A j \in 1 .. i : j \in 1 .. n /\ key[j] = q[j].left
    BY <1>1
  <2> HIDE DEF key, n
  <2> QED  BY <1>1, <2>1
<1>6. r = InsertAt(q, k, e)
  <2>1. r = InsertAt(q, Cardinality(earlier) + 1, e)
    BY DEF QueuePush, InsertAt
  <2>2. Cardinality(earlier) + 1 = k
    <3> HIDE DEF key, n, earlier, r
    <3> QED  BY <1>4, <1>5
  <2> HIDE DEF earlier, r
  <2> QED  BY <2>1, <2>2
<1>7. /\ r \in Seq(Elems) /\ Len(r) = n + 1
      /\ \A j \in 1 .. n + 1 : r[j] = IF j < k THEN q[j] ELSE IF j = k THEN e ELSE q[j - 1]
  <2>1. /\ InsertAt(q, k, e) \in Seq(Elems) /\ Len(InsertAt(q, k, e)) = Len(q) + 1
        /\ \A j \in 1 .. Len(q) + 1 :
             InsertAt(q, k, e)[j] = IF j < k THEN q[j] ELSE IF j = k THEN e ELSE q[j - 1]
    <3>1. q \in Seq(Elems) /\ e \in Elems /\ k \in 1 .. Len(q) + 1
      BY <1>1
    <3> QED  BY ONLY <3>1, InsertAtFacts
  <2> HIDE DEF r
  <2> QED  BY <1>6, <2>1
<1>8. /\ \A j \in 1 .. k - 1 : q[j].left < e.left
      /\ \A j \in k .. n : e.left <= q[j].left
  <2>1. /\ \A j \in 1 .. k - 1 : key[j] = q[j].left
        /\ \A j \in k .. n : key[j] = q[j].left
    <3> HIDE DEF n
    <3> QED  BY <1>1, <1>4
  <2> HIDE DEF key
  <2> QED  BY <1>4, <2>1
<1>9. /\ \A i, j \in 1 .. n : i < j => q[i].left <= q[j].left
      /\ \A i, j \in 1 .. n : i # j => q[i].id # q[j].id
      /\ \A i \in 1 .. n : q[i].id # e.id
  BY DEF QueueOK, Ids
<1> HIDE DEF n, r
<1>10. \A j \in 1 .. n + 1 :
          \/ j < k /\ j \in 1 .. n /\ r[j] = q[j]
          \/ j = k /\ r[j] = e
          \/ j > k /\ j - 1 \in k .. n /\ j - 1 \in 1 .. n /\ r[j] = q[j - 1]
  BY <1>1, <1>4, <1>7
<1>11. \A i, j \in 1 .. n + 1 : i < j => r[i].left <= r[j].left /\ r[i].id # r[j].id
  <2> SUFFICES ASSUME NEW i \in 1 .. n + 1, NEW j \in 1 .. n + 1, i < j
               PROVE  r[i].left <= r[j].left /\ r[i].id # r[j].id
    OBVIOUS
  <2>0. k \in Int /\ i \in Int /\ j \in Int
    BY <1>4
  <2>1. CASE j < k
    BY <1>9, <1>10, <2>0, <2>1
  <2>2. CASE j = k
    <3>1. r[j] = e /\ i \in 1 .. k - 1 /\ i \in 1 .. n /\ r[i] = q[i]
      BY <1>10, <2>0, <2>2
    <3> QED  BY <1>2, <1>8, <1>9, <3>1
  <2>3. CASE i < k /\ j > k
    <3>1. i \in 1 .. n /\ j - 1 \in 1 .. n /\ i < j - 1 /\ r[i] = q[i] /\ r[j] = q[j - 1]
      BY <1>10, <2>0, <2>3
    <3> QED  BY <1>9, <3>1
  <2>4. CASE i = k
    <3>1. r[i] = e /\ j - 1 \in k .. n /\ j - 1 \in 1 .. n /\ r[j] = q[j - 1]
      BY <1>10, <2>0, <2>4
    <3> QED  BY <1>8, <1>9, <3>1
  <2>5. CASE i > k
    <3>1. i - 1 \in 1 .. n /\ j - 1 \in 1 .. n /\ i - 1 < j - 1
          /\ r[i] = q[i - 1] /\ r[j] = q[j - 1]
      BY <1>10, <2>0, <2>5
    <3> QED  BY <1>9, <3>1
  <2> QED  BY <2>0, <2>1, <2>2, <2>3, <2>4, <2>5
<1>12. QueueOK(r) /\ r # <<>>
  <2>1. \A i, j \in 1 .. n + 1 : i # j => r[i].id # r[j].id
    <3>1. \A i, j \in 1 .. n + 1 : i # j => i < j \/ j < i
      OBVIOUS
    <3> QED  BY <1>11, <3>1
  <2>2. r # <<>>
    BY <1>1, <1>7
  <2> QED  BY <1>7, <1>11, <2>1, <2>2 DEF QueueOK
<1>13. ASSUME NEW j \in 1 .. n + 1 PROVE r[j].id \in Ids(q) \cup {e.id}
  <2>1. r[j] = e \/ \E i \in 1 .. n : r[j] = q[i]
    BY <1>1, <1>4, <1>7
  <2> QED  BY <2>1 DEF Ids, n
<1>14. ASSUME NEW i \in 1 .. n PROVE \E j \in 1 .. n + 1 : r[j].id = q[i].id
  <2>1. CASE i < k
    BY <1>1, <1>4, <1>7, <2>1
  <2>2. CASE i >= k
    <3>1. i + 1 \in 1 .. n + 1 /\ ~ (i + 1 < k) /\ i + 1 # k /\ (i + 1) - 1 = i
      BY <1>1, <1>4, <2>2
    <3> QED  BY <1>7, <3>1
  <2> QED  BY <1>1, <1>4, <2>1, <2>2
<1>15. \E j \in 1 .. n + 1 : r[j].id = e.id
  <2>1. r[k] = e
    BY <1>1, <1>4, <1>7
  <2> QED  BY <1>4, <2>1
<1>16. Ids(r) = Ids(q) \cup {e.id}
  <2>1. Ids(q) = {q[i].id : i \in 1 .. n} /\ Ids(r) = {r[j].id : j \in 1 .. n + 1}
    BY <1>7 DEF Ids, n
  <2> QED  BY <1>13, <1>14, <1>15, <2>1
<1> QED  BY <1>12, <1>16 DEF r

\* queue_send_first() takes the packet with the earliest deadline out.
LEMMA QueueTailOK ==
    ASSUME NEW q, QueueOK(q), q # <<>>
    PROVE  /\ Head(q) \in Elems /\ Head(q).id \in Ids(q)
           /\ QueueOK(Tail(q)) /\ Ids(Tail(q)) = Ids(q) \ {Head(q).id}
<1> DEFINE n == Len(q)
           r == Tail(q)
<1>1. /\ q \in Seq(Elems) /\ n \in Nat /\ n >= 1 /\ Head(q) = q[1] /\ Head(q) \in Elems
      /\ r \in Seq(Elems) /\ Len(r) = n - 1
      /\ \A i \in 1 .. n - 1 : r[i] = q[i + 1]
  BY HeadTailProperties, LenProperties, EmptySeq DEF QueueOK
<1>2. /\ \A i, j \in 1 .. n : i < j => q[i].left <= q[j].left
      /\ \A i, j \in 1 .. n : i # j => q[i].id # q[j].id
      /\ Ids(q) = {q[i].id : i \in 1 .. n}
  BY DEF QueueOK, Ids
<1>3. Head(q) = q[1] /\ Ids(r) = {r[i].id : i \in 1 .. n - 1}
  BY <1>1 DEF Ids
<1> HIDE DEF n, r
<1>4. ASSUME NEW i \in 1 .. n - 1, NEW j \in 1 .. n - 1
      PROVE  (i < j => r[i].left <= r[j].left) /\ (i # j => r[i].id # r[j].id)
  <2>1. i + 1 \in 1 .. n /\ j + 1 \in 1 .. n /\ (i < j => i + 1 < j + 1) /\ (i # j => i + 1 # j + 1)
    BY <1>1
  <2> QED  BY <1>1, <1>2, <2>1
<1>5. QueueOK(r)
  BY <1>1, <1>4 DEF QueueOK
<1>6. ASSUME NEW i \in 1 .. n - 1
      PROVE  r[i].id \in Ids(q) /\ r[i].id # q[1].id
  <2>1. i + 1 \in 1 .. n /\ 1 \in 1 .. n /\ i + 1 # 1
    BY <1>1
  <2> QED  BY <1>1, <1>2, <2>1
<1>7. ASSUME NEW i \in 1 .. n, q[i].id # q[1].id
      PROVE  \E j \in 1 .. n - 1 : r[j].id = q[i].id
  <2>1. i # 1
    BY <1>7
  <2>2. i - 1 \in 1 .. n - 1 /\ (i - 1) + 1 = i
    BY <1>1, <2>1
  <2> QED  BY <1>1, <2>2
<1>8. Ids(r) = Ids(q) \ {Head(q).id}
  BY <1>2, <1>3, <1>6, <1>7
<1>9. Head(q).id \in Ids(q)
  BY <1>1, <1>2, <1>3
<1> QED  BY <1>1, <1>5, <1>8, <1>9 DEF r

\* Time passes for all the packets of a queue alike.
LEMMA QueueTickOK ==
    ASSUME NEW q, QueueOK(q), NEW r,
           r = [i \in DOMAIN q |-> [q[i] EXCEPT !.left = Minus1(@)]]
    PROVE  /\ QueueOK(r) /\ Ids(r) = Ids(q)
           /\ r = <<>> <=> q = <<>>
           /\ q # <<>> => Head(r).left = Minus1(Head(q).left)
<1> DEFINE n == Len(q)
<1>1. /\ q \in Seq(Elems) /\ n \in Nat /\ DOMAIN q = 1 .. n
      /\ \A i \in 1 .. n : q[i] \in Elems
  BY LenProperties, ElementOfSeq DEF QueueOK
<1>2. \A i \in 1 .. n : /\ r[i] \in Elems /\ r[i].id = q[i].id /\ r[i].left = Minus1(q[i].left)
                        /\ q[i].left \in Int
  BY <1>1, DelayAssumption DEF Elems, Minus1
<1>3. r \in Seq(Elems) /\ Len(r) = n
  <2>1. r = [i \in 1 .. n |-> r[i]]
    BY <1>1
  <2> HIDE DEF n
  <2>2. r \in [1 .. n -> Elems]
    BY <1>2, <2>1
  <2> QED  BY <1>1, <2>2
<1>4. /\ \A i, j \in 1 .. n : i < j => q[i].left <= q[j].left
      /\ \A i, j \in 1 .. n : i # j => q[i].id # q[j].id
  BY DEF QueueOK
<1>5. /\ q = <<>> <=> n = 0
      /\ r = <<>> <=> Len(r) = 0
      /\ n # 0 => Head(q) = q[1] /\ Head(r) = r[1]
  BY <1>1, <1>3, EmptySeq, HeadTailProperties
<1>6. Ids(r) = Ids(q)
  BY <1>2, <1>3 DEF Ids
<1> HIDE DEF n
<1>7. QueueOK(r)
  BY <1>2, <1>3, <1>4 DEF QueueOK, Minus1
<1>8. n # 0 => 1 \in 1 .. n
  BY <1>1
<1> QED  BY <1>2, <1>3, <1>5, <1>6, <1>7, <1>8

\* messagequeue_push() of a message that is not there.
LEMMA BoxAppendOK ==
    ASSUME NEW s, BoxOK(s), NEW p \in Packets \cup {FLUSH_SIGNAL},
           p \notin Messages(s), FLUSH_SIGNAL \notin Messages(s)
    PROVE  BoxOK(Append(s, p)) /\ Messages(Append(s, p)) = Messages(s) \cup {p}
<1> DEFINE n == Len(s)
           r == Append(s, p)
<1>1. /\ n \in Nat /\ r \in Seq(Packets \cup {FLUSH_SIGNAL}) /\ Len(r) = n + 1
      /\ \A i \in 1 .. n : r[i] = s[i]
      /\ r[n + 1] = p
  BY AppendProperties, LenProperties DEF BoxOK
<1>2. /\ \A i, j \in 1 .. n : i # j => s[i] # s[j]
      /\ \A i \in 1 .. n : s[i] # p /\ s[i] # FLUSH_SIGNAL
      /\ Messages(s) = {s[i] : i \in 1 .. n}
      /\ Messages(r) = {r[i] : i \in 1 .. n + 1}
  BY <1>1 DEF BoxOK, Messages
<1> HIDE DEF n, r
<1>3. \A i \in 1 .. n + 1 : i \in 1 .. n \/ i = n + 1
  BY <1>1
<1>4. BoxOK(r)
  BY <1>1, <1>2, <1>3 DEF BoxOK
<1>5. Messages(r) = Messages(s) \cup {p}
  <2>1. \A i \in 1 .. n : i \in 1 .. n + 1
    BY <1>1
  <2>2. n + 1 \in 1 .. n + 1
    BY <1>1
  <2> QED  BY <1>1, <1>2, <1>3, <2>1, <2>2
<1> QED  BY <1>4, <1>5 DEF r

\* messagequeue_pop() of a packet; the flush signal is the last message.
LEMMA BoxTailOK ==
    ASSUME NEW s, BoxOK(s), s # <<>>
    PROVE  /\ Head(s) \in Messages(s) /\ Head(s) \in Packets \cup {FLUSH_SIGNAL}
           /\ BoxOK(Tail(s)) /\ Messages(Tail(s)) = Messages(s) \ {Head(s)}
           /\ Head(s) = FLUSH_SIGNAL => Messages(s) = {FLUSH_SIGNAL}
<1> DEFINE n == Len(s)
           r == Tail(s)
<1>1. /\ n \in Nat /\ n >= 1 /\ Head(s) = s[1]
      /\ r \in Seq(Packets \cup {FLUSH_SIGNAL}) /\ Len(r) = n - 1
      /\ \A i \in 1 .. n - 1 : r[i] = s[i + 1]
      /\ \A i \in 1 .. n : s[i] \in Packets \cup {FLUSH_SIGNAL}
  BY HeadTailProperties, LenProperties, EmptySeq, ElementOfSeq DEF BoxOK
<1>2. /\ \A i, j \in 1 .. n : i # j => s[i] # s[j]
      /\ \A i \in 1 .. n : s[i] = FLUSH_SIGNAL => i = n
      /\ Messages(s) = {s[i] : i \in 1 .. n}
      /\ Messages(r) = {r[i] : i \in 1 .. n - 1}
  BY <1>1 DEF BoxOK, Messages
<1> HIDE DEF n, r
<1>3. 1 \in 1 .. n
  BY <1>1
<1>4. BoxOK(r)
  BY <1>1, <1>2 DEF BoxOK
<1>5. \A i \in 1 .. n - 1 : i + 1 \in 1 .. n /\ i + 1 # 1
  BY <1>1
<1>6. ASSUME NEW i \in 1 .. n, s[i] # s[1] PROVE s[i] \in Messages(r)
  <2>1. i # 1
    BY <1>6
  <2>2. i - 1 \in 1 .. n - 1 /\ (i - 1) + 1 = i
    BY <1>1, <2>1
  <2>3. r[i - 1] = s[i]
    BY <1>1, <2>2
  <2> QED  BY <1>2, <2>2, <2>3
<1>7. Messages(r) = Messages(s) \ {Head(s)}
  <2>1. ASSUME NEW i \in 1 .. n - 1 PROVE r[i] \in Messages(s) /\ r[i] # s[1]
    BY <1>1, <1>2, <1>3, <1>5
  <2>2. Head(s) = s[1] /\ Messages(s) = {s[i] : i \in 1 .. n}
        /\ Messages(r) = {r[i] : i \in 1 .. n - 1}
    BY <1>1, <1>2
  <2> QED  BY <1>6, <2>1, <2>2
<1>8. ASSUME Head(s) = FLUSH_SIGNAL PROVE Messages(s) = {FLUSH_SIGNAL}
  <2>1. n = 1
    BY <1>1, <1>2, <1>3, <1>8
  <2>2. \A i \in 1 .. n : s[i] = FLUSH_SIGNAL
    BY <1>1, <1>8, <2>1
  <2> QED  BY <1>2, <1>3, <2>2
<1> QED  BY <1>1, <1>2, <1>3, <1>4, <1>7, <1>8 DEF r

-----------------------------------------------------------------------------
(* The inductive invariant of the queues. *)

\* The rest of the type invariant.
QueueTypes ==
    /\ mutex \in BOOLEAN
    /\ timer \in [Boxes -> Nat]
    /\ fpc \in {"run", "lock", "push", "wait", "done", "crashed"}
    /\ fate \in [Packets -> {"away", "held", "inside", "sent", "lost"}]
    /\ queue \in [Boxes -> Seq(Elems)]

\* Queues and mailboxes are well-formed, and the flush signal goes to the
\* mailbox that finish_delay() has read.
QueuesOK ==
    \A b \in Boxes :
        /\ QueueOK(queue[b])
        /\ BoxOK(box[b])
        /\ FLUSH_SIGNAL \in Messages(box[b]) => b = fm

\* A packet that is being inserted is with one packet thread.
HeldOK ==
    /\ \A t \in Threads : pc[t] # "out" => fate[held[t]] = "held"
    /\ \A t, u \in Threads : t # u /\ pc[t] # "out" /\ pc[u] # "out" => held[t] # held[u]

\* A thread that is idle or gone has nothing to send.  Nothing comes to a
\* mailbox that was given up, except the flush signal of a finish_delay() that
\* has read the pointer before.
Drained ==
    \A b \in Boxes :
        /\ dpc[b] \in {"none", "idle", "nap", "gone"} => queue[b] = <<>>
        /\ dpc[b] \in {"none", "gone"} => box[b] = <<>>
        /\ dpc[b] = "idle" /\ mbox # b => box[b] = <<>> \/ (b = fm /\ mutex)

\* The mutex is locked from finish_delay() to the flush.
FinishOK ==
    /\ fpc \in {"lock", "push", "wait"} => fm \in Boxes
    /\ fm # 0 => dpc[fm] # "none"
    /\ fpc # "run" => mbox \in {0, fm}
    /\ fpc = "push" => mutex
    /\ mutex => fpc \in {"push", "wait", "crashed"}
    /\ fpc = "wait" /\ ~ mutex => dpc[fm] = "gone"

\* What a queue and a mailbox hold.
Holding(q, s) == Ids(q) \cup (Messages(s) \ {FLUSH_SIGNAL})

\* Conservation, as the steps keep it.
Placed ==
    /\ \A p \in Packets : fate[p] = "inside" <=> \E b \in Boxes : p \in Holding(queue[b], box[b])
    /\ \A b, c \in Boxes : b # c => Holding(queue[b], box[b]) \cap Holding(queue[c], box[c]) = {}
    /\ \A b \in Boxes : Ids(queue[b]) \cap Messages(box[b]) = {}

\* The timer of a thread that waits for queue q.
TimerOK(d, q, n) ==
    /\ d = "wait" => \A i \in DOMAIN q : n <= q[i].left
    /\ d = "wait" /\ q # <<>> => n = Head(q).left
    /\ d = "late" => q # <<>> /\ Head(q).left = 0

QInv ==
    /\ IInv
    /\ QueueTypes
    /\ QueuesOK
    /\ HeldOK
    /\ Drained
    /\ FinishOK
    /\ Placed
    /\ TimerIsDeadline

-----------------------------------------------------------------------------
\* What the invariant says in the words of QueueSound.
LEMMA QInvSound == QInv => QueueSound
<1> SUFFICES ASSUME QInv PROVE QueueSound
  OBVIOUS
<1>1. TypeOK
  BY DEF QInv, IInv, HandoverTypes, QueueTypes, TypeOK
<1>2. ASSUME NEW b \in Boxes
      PROVE  /\ InQueue(b) = Ids(queue[b]) /\ InBox(b) = Messages(box[b]) \ {FLUSH_SIGNAL}
             /\ InQueue(b) \cup InBox(b) = Holding(queue[b], box[b])
             /\ Holding(queue[b], box[b]) \subseteq Packets
             /\ dpc[b] = "gone" => Holding(queue[b], box[b]) = {}
  <2>1. QueueOK(queue[b]) /\ BoxOK(box[b])
    BY DEF QInv, QueuesOK
  <2>2. /\ DOMAIN queue[b] = 1 .. Len(queue[b])
        /\ DOMAIN box[b] = 1 .. Len(box[b])
        /\ \A i \in 1 .. Len(queue[b]) : queue[b][i] \in Elems
        /\ \A i \in 1 .. Len(box[b]) : box[b][i] \in Packets \cup {FLUSH_SIGNAL}
    BY <2>1, LenProperties, ElementOfSeq DEF QueueOK, BoxOK
  <2>3. InQueue(b) = Ids(queue[b]) /\ InBox(b) = Messages(box[b]) \ {FLUSH_SIGNAL}
    BY <2>2 DEF InQueue, InBox, Ids, Messages
  <2>4. Ids(queue[b]) \subseteq Packets /\ Messages(box[b]) \subseteq Packets \cup {FLUSH_SIGNAL}
    BY <2>2 DEF Ids, Messages, Elems
  <2>5. dpc[b] = "gone" => Holding(queue[b], box[b]) = {}
    BY EmptyOK DEF QInv, Drained, Holding
  <2> QED  BY <2>3, <2>4, <2>5 DEF Holding
<1>3. Conservation
  <2>1. {p \in Packets : fate[p] = "inside"} =
           UNION {InQueue(b) \cup InBox(b) : b \in {c \in Boxes : dpc[c] # "gone"}}
    <3>1. ASSUME NEW p \in Packets, fate[p] = "inside"
          PROVE  \E b \in Boxes : dpc[b] # "gone" /\ p \in InQueue(b) \cup InBox(b)
      <4>1. PICK b \in Boxes : p \in Holding(queue[b], box[b])
        BY <3>1 DEF QInv, Placed
      <4> QED  BY <1>2, <4>1
    <3>2. ASSUME NEW b \in Boxes, NEW p \in InQueue(b) \cup InBox(b)
          PROVE  p \in Packets /\ fate[p] = "inside"
      BY <1>2, <3>2 DEF QInv, Placed
    <3> QED  BY <3>1, <3>2
  <2>2. \A b, c \in Boxes : b # c => (InQueue(b) \cup InBox(b)) \cap (InQueue(c) \cup InBox(c)) = {}
    BY <1>2 DEF QInv, Placed
  <2>3. \A b \in Boxes : InQueue(b) \cap InBox(b) = {}
    BY <1>2 DEF QInv, Placed
  <2> QED  BY <2>1, <2>2, <2>3 DEF Conservation
<1> QED  BY <1>1, <1>3 DEF QueueSound

\* The first packet of a queue has the earliest deadline.
LEMMA FirstIsEarliest ==
    ASSUME NEW q, QueueOK(q), q # <<>>
    PROVE  Head(q).left \in Nat /\ \A i \in DOMAIN q : Head(q).left <= q[i].left
<1> DEFINE l == Len(q)
<1>1. /\ l \in Nat /\ l >= 1 /\ DOMAIN q = 1 .. l /\ Head(q) = q[1]
      /\ \A i \in 1 .. l : q[i] \in Elems
  BY HeadTailProperties, LenProperties, ElementOfSeq, EmptySeq DEF QueueOK
<1>2. \A i, j \in 1 .. l : i < j => q[i].left <= q[j].left
  BY DEF QueueOK
<1>3. \A i \in 1 .. l : q[i].left \in Nat
  BY <1>1, DelayAssumption DEF Elems
<1> HIDE DEF l
<1>4. 1 \in 1 .. l /\ \A i \in 1 .. l : q[1].left <= q[i].left
  BY <1>1, <1>2, <1>3
<1> QED  BY <1>1, <1>3, <1>4

\* The thread waits for the first packet.
LEMMA WaitTimer ==
    ASSUME NEW q, QueueOK(q),
           NEW d, d = IF q # <<>> /\ Head(q).left = 0 THEN "late" ELSE "wait",
           NEW n, n = IF q # <<>> THEN Head(q).left ELSE IdleTime
    PROVE  TimerOK(d, q, n) /\ n \in Nat
<1>1. CASE q = <<>>
  BY <1>1, DelayAssumption DEF TimerOK
<1>2. CASE q # <<>>
  BY <1>2, FirstIsEarliest DEF TimerOK
<1> QED  BY <1>1, <1>2

\* A step of the delay thread of mailbox b: it leaves a queue q, a mailbox s, a
\* timer n and the state d behind, and sends the packets `sent`.
LEMMA DelayStepKeeps ==
    ASSUME QInv, IInv', NEW b \in Boxes, NEW q, NEW s, NEW d, NEW n, NEW sent,
           queue' = [queue EXCEPT ![b] = q], box' = [box EXCEPT ![b] = s],
           dpc' = [dpc EXCEPT ![b] = d], timer' = [timer EXCEPT ![b] = n],
           UNCHANGED <<packetThread, finisher>>,
           QueueOK(q), BoxOK(s), n \in Nat, TimerOK(d, q, n),
           FLUSH_SIGNAL \in Messages(s) => FLUSH_SIGNAL \in Messages(box[b]),
           d # "none", d \in {"idle", "nap", "gone"} => q = <<>>,
           d \in {"idle", "gone"} => s = <<>>,
           dpc[b] \notin {"none", "gone"},
           mbox' = mbox \/ (mbox' = 0 /\ mbox = b /\ d = "nap"),
           mutex' = mutex \/ (mutex' = FALSE /\ b = fm /\ d = "gone" /\ fpc # "push"),
           fate' \in [Packets -> {"away", "held", "inside", "sent", "lost"}],
           sent \subseteq Holding(queue[b], box[b]),
           \A p \in Packets : fate'[p] = IF p \in sent THEN "sent" ELSE fate[p],
           Holding(q, s) = Holding(queue[b], box[b]) \ sent,
           Ids(q) \cap Messages(s) = {}
    PROVE  QInv'
<1> USE DEF packetThread, finisher
<1>1. /\ mbox \in Boxes \cup {0} /\ fm \in Boxes \cup {0} /\ 0 \notin Boxes
      /\ box \in [Boxes -> Seq(Packets \cup {FLUSH_SIGNAL})]
      /\ dpc \in [Boxes -> {"none", "wait", "late", "idle", "nap", "gone", "crashed"}]
      /\ held \in [Threads -> Packets \cup {0}]
  BY DEF QInv, IInv, HandoverTypes, Boxes
<1>2. QueueTypes
  BY DEF QInv
<1>3. /\ queue'[b] = q /\ box'[b] = s /\ dpc'[b] = d /\ timer'[b] = n
      /\ \A c \in Boxes : c # b => /\ queue'[c] = queue[c] /\ box'[c] = box[c]
                                   /\ dpc'[c] = dpc[c] /\ timer'[c] = timer[c]
  BY <1>1, <1>2 DEF QueueTypes
<1>4. QueueTypes'
  <2>1. q \in Seq(Elems)
    BY DEF QueueOK
  <2> QED  BY <1>2, <2>1 DEF QueueTypes
<1>5. QueuesOK'
  <2>1. \A c \in Boxes : /\ QueueOK(queue[c]) /\ BoxOK(box[c])
                         /\ FLUSH_SIGNAL \in Messages(box[c]) => c = fm
    BY DEF QInv, QueuesOK
  <2>2. \A c \in Boxes : /\ QueueOK(queue'[c]) /\ BoxOK(box'[c])
                         /\ FLUSH_SIGNAL \in Messages(box'[c]) => c = fm'
    BY <1>3, <2>1
  <2> QED  BY <2>2 DEF QueuesOK
<1>6. HeldOK'
  <2>1. \A t \in Threads : pc[t] # "out" => held[t] \in Packets /\ fate[held[t]] = "held"
    BY DEF QInv, IInv, InsertOK, HeldOK
  <2>2. \A p \in Packets : p \in sent => fate[p] = "inside"
    BY DEF QInv, Placed
  <2>3. \A t \in Threads : pc[t] # "out" => fate'[held[t]] = "held"
    BY <2>1, <2>2
  <2> QED  BY <2>3 DEF QInv, HeldOK
<1>7. Drained'
  <2>1. Drained
    BY DEF QInv
  <2>2. ASSUME NEW c \in Boxes
        PROVE  /\ dpc'[c] \in {"none", "idle", "nap", "gone"} => queue'[c] = <<>>
               /\ dpc'[c] \in {"none", "gone"} => box'[c] = <<>>
               /\ dpc'[c] = "idle" /\ mbox' # c => box'[c] = <<>> \/ (c = fm' /\ mutex')
    <3>1. CASE c = b
      BY <1>3, <3>1
    <3>2. CASE c # b
      BY <1>3, <2>1, <3>2 DEF Drained
    <3> QED  BY <3>1, <3>2
  <2> QED  BY <2>2 DEF Drained
<1>8. FinishOK'
  <2>1. FinishOK
    BY DEF QInv
  <2> QED  BY <1>1, <1>3, <2>1 DEF FinishOK
<1>9. Placed'
  <2> DEFINE H(c) == Holding(queue[c], box[c])
             I(c) == Holding(queue'[c], box'[c])
  <2>1. /\ \A p \in Packets : fate[p] = "inside" <=> \E c \in Boxes : p \in H(c)
        /\ \A c, e \in Boxes : c # e => H(c) \cap H(e) = {}
        /\ \A c \in Boxes : Ids(queue[c]) \cap Messages(box[c]) = {}
    BY DEF QInv, Placed
  <2>2. I(b) = H(b) \ sent /\ \A c \in Boxes : c # b => I(c) = H(c)
    BY <1>3
  <2>3. \A c \in Boxes : Ids(queue'[c]) \cap Messages(box'[c]) = {}
    BY <1>3, <2>1
  <2>4. sent \subseteq H(b)
    OBVIOUS
  <2> HIDE DEF H, I
  <2>5. \A p \in Packets : fate'[p] = "inside" <=> \E c \in Boxes : p \in I(c)
    <3> TAKE p \in Packets
    <3>1. CASE p \in sent
      <4>1. p \in H(b) /\ \A c \in Boxes : c # b => p \notin H(c)
        BY <2>1, <2>4, <3>1
      <4> QED  BY <2>2, <3>1, <4>1
    <3>2. CASE p \notin sent
      <4>1. fate'[p] = fate[p] /\ \A c \in Boxes : p \in I(c) <=> p \in H(c)
        BY <2>2, <3>2
      <4> QED  BY <2>1, <4>1
    <3> QED  BY <3>1, <3>2
  <2>6. \A c, e \in Boxes : c # e => I(c) \cap I(e) = {}
    BY <2>1, <2>2
  <2> QED  BY <2>3, <2>5, <2>6 DEF Placed, I
<1>10. TimerIsDeadline'
  <2>1. \A c \in Boxes : TimerOK(dpc[c], queue[c], timer[c])
    BY DEF QInv, TimerIsDeadline, TimerOK
  <2>2. \A c \in Boxes : TimerOK(dpc'[c], queue'[c], timer'[c])
    BY <1>3, <2>1
  <2> QED  BY <2>2 DEF TimerIsDeadline, TimerOK
<1> QED  BY <1>4, <1>5, <1>6, <1>7, <1>8, <1>9, <1>10 DEF QInv

\* What the invariant says about one mailbox.
LEMMA OneBox ==
    ASSUME QInv, NEW b \in Boxes
    PROVE  /\ queue = [queue EXCEPT ![b] = queue[b]] /\ box = [box EXCEPT ![b] = box[b]]
           /\ timer = [timer EXCEPT ![b] = timer[b]] /\ timer[b] \in Nat
           /\ fate \in [Packets -> {"away", "held", "inside", "sent", "lost"}]
           /\ QueueOK(queue[b]) /\ BoxOK(box[b])
           /\ FLUSH_SIGNAL \in Messages(box[b]) => b = fm /\ fpc # "push"
           /\ Ids(queue[b]) \cap Messages(box[b]) = {}
           /\ Ids(queue[b]) \subseteq Packets
           /\ FLUSH_SIGNAL \notin Packets
<1>1. /\ queue \in [Boxes -> Seq(Elems)] /\ timer \in [Boxes -> Nat]
      /\ fate \in [Packets -> {"away", "held", "inside", "sent", "lost"}]
      /\ box \in [Boxes -> Seq(Packets \cup {FLUSH_SIGNAL})]
  BY DEF QInv, QueueTypes, IInv, HandoverTypes
<1>2. /\ QueueOK(queue[b]) /\ BoxOK(box[b]) /\ Ids(queue[b]) \cap Messages(box[b]) = {}
      /\ FLUSH_SIGNAL \in Messages(box[b]) => b = fm
  BY DEF QInv, QueuesOK, Placed
<1>3. FLUSH_SIGNAL \in Messages(box[b]) => fpc # "push"
  BY DEF QInv, IInv, NoFlush, Messages
<1>4. Ids(queue[b]) \subseteq Packets
  <2>1. \A i \in 1 .. Len(queue[b]) : queue[b][i] \in Elems
    BY <1>2, ElementOfSeq DEF QueueOK
  <2> QED  BY <2>1 DEF Ids, Elems
<1> QED  BY <1>1, <1>2, <1>3, <1>4 DEF Packets, FLUSH_SIGNAL

\* A packet goes from the mailbox to the queue.
LEMMA TakeKeeps ==
    ASSUME QInv, IInv', NEW b \in Boxes, NEW w \in 0 .. MaxDelay, Take(b, w),
           dpc[b] \in {"wait", "nap"},
           UNCHANGED <<mbox, mutex, packetThread, finisher, fate>>
    PROVE  QInv'
<1> DEFINE p == Head(box[b])
           e == [id |-> p, left |-> w]
           q == QueuePush(queue[b], e)
           s == Tail(box[b])
           d == IF q # <<>> /\ Head(q).left = 0 THEN "late" ELSE "wait"
           n == IF q # <<>> THEN Head(q).left ELSE IdleTime
<1>1. /\ box[b] # <<>> /\ p # FLUSH_SIGNAL
      /\ queue' = [queue EXCEPT ![b] = q] /\ box' = [box EXCEPT ![b] = s]
      /\ dpc' = [dpc EXCEPT ![b] = d] /\ timer' = [timer EXCEPT ![b] = n]
  BY DEF Take, WaitFor
<1>2. /\ p \in Messages(box[b]) /\ p \in Packets
      /\ BoxOK(s) /\ Messages(s) = Messages(box[b]) \ {p}
  BY <1>1, OneBox, BoxTailOK
<1>3. e \in Elems /\ e.id = p /\ p \notin Ids(queue[b])
  BY <1>2, OneBox DEF Elems
<1>4. QueueOK(q) /\ q # <<>> /\ Ids(q) = Ids(queue[b]) \cup {p}
  BY <1>3, OneBox, QueuePushOK
<1>5. TimerOK(d, q, n) /\ n \in Nat
  <2> HIDE DEF q
  <2> QED  BY <1>4, WaitTimer
<1>6. /\ Holding(q, s) = Holding(queue[b], box[b]) \ {}
      /\ Ids(q) \cap Messages(s) = {}
  BY <1>1, <1>2, <1>4, OneBox DEF Holding
<1>7. d \in {"wait", "late"}
  OBVIOUS
<1>8. \A r \in Packets : fate'[r] = IF r \in {} THEN "sent" ELSE fate[r]
  OBVIOUS
<1>9. fate' \in [Packets -> {"away", "held", "inside", "sent", "lost"}]
  BY OneBox
<1> HIDE DEF p, e, q, s, d, n
<1> QED  BY <1>1, <1>2, <1>4, <1>5, <1>6, <1>7, <1>8, <1>9, DelayStepKeeps

\* The flush signal is the last message: everything else is in the queue.
LEMMA FlushKeeps ==
    ASSUME QInv, IInv', NEW b \in Boxes, DelayFlush(b)
    PROVE  QInv'
<1>1. /\ dpc[b] = "wait" /\ box[b] # <<>> /\ Head(box[b]) = FLUSH_SIGNAL
      /\ queue' = [queue EXCEPT ![b] = <<>>] /\ box' = [box EXCEPT ![b] = <<>>]
      /\ dpc' = [dpc EXCEPT ![b] = "gone"] /\ timer' = [timer EXCEPT ![b] = 0]
      /\ mutex' = FALSE /\ UNCHANGED <<mbox, packetThread, finisher>>
  BY DEF DelayFlush
<1>2. Messages(box[b]) = {FLUSH_SIGNAL} /\ b = fm /\ fpc # "push"
  BY <1>1, OneBox, BoxTailOK
<1>3. Holding(queue[b], box[b]) = Ids(queue[b])
  BY <1>2, OneBox DEF Holding
<1>4. fate' = [p \in Packets |-> IF p \in Ids(queue[b]) THEN "sent" ELSE fate[p]]
  <2>1. DOMAIN queue[b] = 1 .. Len(queue[b])
    BY OneBox, LenProperties DEF QueueOK
  <2>2. \A p \in Packets : (\E i \in DOMAIN queue[b] : queue[b][i].id = p) <=> p \in Ids(queue[b])
    BY <2>1 DEF Ids
  <2> QED  BY <2>2 DEF DelayFlush
<1>5. fate' \in [Packets -> {"away", "held", "inside", "sent", "lost"}]
  BY <1>4, OneBox
<1>6. Holding(<<>>, <<>>) = Holding(queue[b], box[b]) \ Ids(queue[b])
  BY <1>3, EmptyOK DEF Holding
<1>7. TimerOK("gone", <<>>, 0) /\ 0 \in Nat
  BY DEF TimerOK
<1>8. \A p \in Packets : fate'[p] = IF p \in Ids(queue[b]) THEN "sent" ELSE fate[p]
  BY <1>4
<1> QED  BY <1>1, <1>2, <1>3, <1>5, <1>6, <1>7, <1>8, EmptyOK, DelayStepKeeps

\* The packet with the earliest deadline leaves the queue.
LEMMA SendFirstKeeps ==
    ASSUME QInv, IInv', NEW b \in Boxes, QueueSendFirst(b)
    PROVE  QInv'
<1> DEFINE p == Head(queue[b]).id
           q == Tail(queue[b])
           d == IF q # <<>> /\ Head(q).left = 0 THEN "late" ELSE "wait"
           n == IF q # <<>> THEN Head(q).left ELSE IdleTime
<1>1. /\ dpc[b] \in {"wait", "late"} /\ queue[b] # <<>>
      /\ queue' = [queue EXCEPT ![b] = q] /\ box' = [box EXCEPT ![b] = box[b]]
      /\ dpc' = [dpc EXCEPT ![b] = d] /\ timer' = [timer EXCEPT ![b] = n]
      /\ fate' = [fate EXCEPT ![p] = "sent"]
      /\ UNCHANGED <<mbox, mutex, packetThread, finisher>>
  BY OneBox DEF QueueSendFirst, WaitFor, TimedOut
<1>2. QueueOK(q) /\ p \in Ids(queue[b]) /\ Ids(q) = Ids(queue[b]) \ {p}
  BY <1>1, OneBox, QueueTailOK
<1>3. TimerOK(d, q, n) /\ n \in Nat
  <2> HIDE DEF q
  <2> QED  BY <1>2, WaitTimer
<1>4. /\ {p} \subseteq Holding(queue[b], box[b])
      /\ Holding(q, box[b]) = Holding(queue[b], box[b]) \ {p}
      /\ Ids(q) \cap Messages(box[b]) = {}
  BY <1>2, OneBox DEF Holding
<1>5. d \in {"wait", "late"}
  OBVIOUS
<1> HIDE DEF p, q, d, n
<1>6. /\ fate' \in [Packets -> {"away", "held", "inside", "sent", "lost"}]
      /\ \A r \in Packets : fate'[r] = IF r \in {p} THEN "sent" ELSE fate[r]
  BY <1>1, <1>2, OneBox
<1>7. BoxOK(box[b])
  BY OneBox
<1> QED  BY <1>1, <1>2, <1>3, <1>4, <1>5, <1>6, <1>7, DelayStepKeeps

\* A thread with an empty queue changes its state only.
LEMMA RestingKeeps ==
    ASSUME QInv, IInv', NEW b \in Boxes, queue[b] = <<>>,
           dpc[b] \in {"wait", "idle", "nap"},
           NEW d \in {"idle", "nap", "gone", "crashed"}, dpc' = [dpc EXCEPT ![b] = d],
           d \in {"idle", "gone"} => box[b] = <<>>,
           mbox' = mbox \/ (mbox' = 0 /\ mbox = b /\ d = "nap"),
           UNCHANGED <<mutex, box, queue, timer, packetThread, finisher, fate>>
    PROVE  QInv'
<1>1. /\ queue' = [queue EXCEPT ![b] = queue[b]] /\ box' = [box EXCEPT ![b] = box[b]]
      /\ timer' = [timer EXCEPT ![b] = timer[b]] /\ timer[b] \in Nat
      /\ QueueOK(queue[b]) /\ BoxOK(box[b])
      /\ Ids(queue[b]) \cap Messages(box[b]) = {}
      /\ fate' \in [Packets -> {"away", "held", "inside", "sent", "lost"}]
  BY OneBox
<1>2. TimerOK(d, queue[b], timer[b])
  BY DEF TimerOK
<1>3. /\ Holding(queue[b], box[b]) = Holding(queue[b], box[b]) \ {}
      /\ \A r \in Packets : fate'[r] = IF r \in {} THEN "sent" ELSE fate[r]
  OBVIOUS
<1> QED  BY <1>1, <1>2, <1>3, DelayStepKeeps

\* One step for every action of the delay thread.
LEMMA DelayThreadKeeps ==
    ASSUME QInv, IInv', NEW b \in Boxes, DelayThread(b)
    PROVE  QInv'
<1>1. dpc[b] \in {"idle", "nap"} => queue[b] = <<>>
  BY DEF QInv, Drained
<1>2. ASSUME NEW w \in 0 .. MaxDelay, DelayReceive(b, w)
      PROVE  QInv'
  BY <1>2, TakeKeeps DEF DelayReceive
<1>3. ASSUME NEW w \in 0 .. MaxDelay, IdleRescue(b, w)
      PROVE  QInv'
  <2>1. CASE Take(b, w)
    BY <1>3, <2>1, TakeKeeps DEF IdleRescue
  <2>2. CASE dpc' = [dpc EXCEPT ![b] = "crashed"] /\ UNCHANGED <<box, queue, timer>>
    BY <1>1, <1>3, <2>2, RestingKeeps DEF IdleRescue
  <2> QED  BY <1>3, <2>1, <2>2 DEF IdleRescue
<1>4. CASE IdleTimeout(b)
  BY <1>4, RestingKeeps DEF IdleTimeout, TimedOut
<1>5. CASE IdleLock(b)
  <2>1. CASE mbox = b
    BY <1>1, <1>5, <2>1, RestingKeeps DEF IdleLock
  <2>2. CASE mbox # b
    <3>1. box[b] = <<>>
      BY <1>5, <2>2 DEF IdleLock, QInv, Drained
    <3> QED  BY <1>1, <1>5, <2>2, <3>1, RestingKeeps DEF IdleLock
  <2> QED  BY <2>1, <2>2
<1>6. CASE IdleExit(b)
  BY <1>1, <1>6, RestingKeeps DEF IdleExit
<1> QED  BY <1>2, <1>3, <1>4, <1>5, <1>6, FlushKeeps, SendFirstKeeps DEF DelayThread

\* Nothing is queued before the first packet.
LEMMA InitQueues == Init => QInv
<1> SUFFICES ASSUME Init PROVE QInv
  OBVIOUS
<1>1. IInv
  BY InitHandover
<1>2. /\ mbox = 0 /\ mutex = FALSE /\ fm = 0 /\ fpc = "run"
      /\ box = [b \in Boxes |-> <<>>] /\ dpc = [b \in Boxes |-> "none"]
      /\ queue = [b \in Boxes |-> <<>>] /\ timer = [b \in Boxes |-> 0]
      /\ pc = [t \in Threads |-> "out"] /\ fate = [p \in Packets |-> "away"]
  BY DEF Init
<1>3. QueueTypes
  BY <1>2, EmptyOK DEF QueueTypes, QueueOK
<1>6. HeldOK /\ Drained /\ FinishOK
  BY <1>2 DEF HeldOK, Drained, FinishOK
<1>4. QueuesOK /\ Placed
  BY <1>2, EmptyOK DEF QueuesOK, Placed, Holding
<1>5. TimerIsDeadline
  BY <1>2 DEF TimerIsDeadline
<1> QED  BY <1>1, <1>3, <1>4, <1>5, <1>6 DEF QInv

\* A step that leaves the queues and mailboxes alone.
LEMMA SameQueues ==
    ASSUME QInv, UNCHANGED <<queue, box>>,
           \A p \in Packets : fate'[p] = "inside" <=> fate[p] = "inside",
           fm' = fm \/ fpc = "run"
    PROVE  QueuesOK' /\ Placed'
<1>1. QueuesOK'
  <2>1. fpc = "run" => \A b \in Boxes : FLUSH_SIGNAL \notin Messages(box[b])
    BY DEF QInv, IInv, NoFlush, Messages
  <2> QED  BY <2>1 DEF QInv, QueuesOK
<1>2. Placed'
  BY DEF QInv, Placed
<1> QED  BY <1>1, <1>2

\* A packet that comes is in no queue yet.
LEMMA GetMboxKeeps ==
    ASSUME QInv, IInv', NEW t \in Threads, NEW p \in Packets, GetMbox(t, p)
    PROVE  QInv'
<1>1. /\ pc[t] = "out" /\ fate[p] = "away"
      /\ held' = [held EXCEPT ![t] = p] /\ fate' = [fate EXCEPT ![p] = "held"]
      /\ \E x \in {"push", "lock"} : pc' = [pc EXCEPT ![t] = x]
      /\ UNCHANGED <<mbox, mutex, box, dpc, queue, timer, fpc, fm>>
  BY DEF GetMbox, NextPacket, delayThread, finisher
<1>2. QueueTypes
  BY DEF QInv
<1>3. QueueTypes'
  BY <1>1, <1>2 DEF QueueTypes
<1>4. QueuesOK' /\ Placed'
  <2>1. \A r \in Packets : fate'[r] = "inside" <=> fate[r] = "inside"
    BY <1>1, <1>2 DEF QueueTypes
  <2> QED  BY <1>1, <2>1, SameQueues
<1>5. HeldOK'
  <2>1. \A u \in Threads : pc[u] # "out" => held[u] \in Packets /\ fate[held[u]] = "held"
    BY DEF QInv, IInv, InsertOK, HeldOK
  <2>2. held \in [Threads -> Packets \cup {0}] /\ pc \in [Threads -> {"out", "lock", "push"}]
    BY DEF QInv, IInv, HandoverTypes
  <2>3. /\ held'[t] = p /\ fate'[p] = "held"
        /\ \A u \in Threads : u # t => held'[u] = held[u] /\ pc'[u] = pc[u]
        /\ \A r \in Packets : r # p => fate'[r] = fate[r]
    BY <1>1, <1>2, <2>2 DEF QueueTypes
  <2>4. \A u \in Threads : u # t /\ pc[u] # "out" => held[u] # p
    BY <1>1, <2>1
  <2> QED  BY <2>1, <2>3, <2>4 DEF QInv, HeldOK
<1>6. Drained' /\ FinishOK' /\ TimerIsDeadline'
  BY <1>1 DEF QInv, Drained, FinishOK, TimerIsDeadline
<1> QED  BY <1>3, <1>4, <1>5, <1>6 DEF QInv

\* A new mailbox is empty, and so is the queue of its thread.
LEMMA GetMboxLockedKeeps ==
    ASSUME QInv, IInv', NEW t \in Threads, GetMboxLocked(t)
    PROVE  QInv'
<1>1. /\ pc[t] = "lock" /\ pc' = [pc EXCEPT ![t] = "push"]
      /\ UNCHANGED <<mutex, box, queue, held, fpc, fm, fate>>
  BY DEF GetMboxLocked, finisher
<1>2. QueuesOK' /\ Placed'
  BY <1>1, SameQueues
<1>3. HeldOK'
  <2>1. \A u \in Threads : pc'[u] # "out" => pc[u] # "out"
    BY <1>1 DEF QInv, IInv, HandoverTypes
  <2> QED  BY <1>1, <2>1 DEF QInv, HeldOK
<1>4. CASE mbox # 0
  <2>1. UNCHANGED <<mbox, dpc, timer>>
    BY <1>4 DEF GetMboxLocked
  <2>2. QueueTypes' /\ Drained' /\ FinishOK' /\ TimerIsDeadline'
    BY <1>1, <2>1 DEF QInv, QueueTypes, Drained, FinishOK, TimerIsDeadline
  <2> QED  BY <1>2, <1>3, <2>2 DEF QInv
<1>5. CASE mbox = 0
  <2>1. PICK b \in Boxes : /\ dpc[b] = "none" /\ mbox' = b
                           /\ dpc' = [dpc EXCEPT ![b] = "wait"]
                           /\ timer' = [timer EXCEPT ![b] = IdleTime]
    BY <1>5 DEF GetMboxLocked, NewBox
  <2>2. QueueTypes' /\ queue[b] = <<>> /\ fpc = "run"
    BY <1>1, <2>1, DelayAssumption DEF QInv, QueueTypes, Drained, IInv, Quiet
  <2>3. /\ dpc'[b] = "wait" /\ \A c \in Boxes : c # b => dpc'[c] = dpc[c] /\ timer'[c] = timer[c]
    BY <2>1 DEF QInv, QueueTypes, IInv, HandoverTypes
  <2>4. Drained'
    <3>1. \A c \in Boxes : mbox # c
      BY <1>5 DEF Boxes
    <3> QED  BY <1>1, <2>3, <3>1 DEF QInv, Drained
  <2>5. FinishOK'
    BY <1>1, <2>2, <2>3 DEF QInv, FinishOK, IInv, HandoverTypes
  <2>6. TimerIsDeadline'
    BY <1>1, <2>2, <2>3 DEF QInv, TimerIsDeadline
  <2> QED  BY <1>2, <1>3, <2>2, <2>4, <2>5, <2>6 DEF QInv
<1> QED  BY <1>4, <1>5

\* The packet goes from its thread to the mailbox, which has a thread that
\* serves it.
LEMMA PushKeeps ==
    ASSUME QInv, IInv', NEW t \in Threads, MessagequeuePush(t)
    PROVE  QInv'
<1> DEFINE b == m[t]
           p == held[t]
<1>1. pc[t] = "push" /\ b \in Boxes /\ p \in Packets /\ dpc[b] \notin {"none", "gone"}
  BY DEF MessagequeuePush, QInv, IInv, InsertOK, MailboxServed
<1>2. /\ fate' = [fate EXCEPT ![p] = "inside"] /\ box' = [box EXCEPT ![b] = Append(box[b], p)]
      /\ pc' = [pc EXCEPT ![t] = "out"] /\ held' = [held EXCEPT ![t] = 0]
      /\ UNCHANGED <<mbox, mutex, dpc, queue, timer, fpc, fm>>
  BY <1>1 DEF MessagequeuePush, delayThread, finisher
<1>3. fate[p] = "held" /\ fpc = "run"
  BY <1>1 DEF QInv, HeldOK, IInv, Quiet
<1>4. /\ box \in [Boxes -> Seq(Packets \cup {FLUSH_SIGNAL})] /\ held \in [Threads -> Packets \cup {0}]
      /\ pc \in [Threads -> {"out", "lock", "push"}]
  BY DEF QInv, IInv, HandoverTypes
<1>5. QueueTypes
  BY DEF QInv
<1>6. mbox # b => dpc[b] = "nap"
  BY <1>1 DEF QInv, IInv, GivenUp
<1>7. Placed /\ FLUSH_SIGNAL \notin Packets /\ FLUSH_SIGNAL \notin Messages(box[b])
  BY <1>1, <1>3 DEF QInv, IInv, NoFlush, Messages, Packets, FLUSH_SIGNAL
<1> HIDE DEF b, p
<1>8. \A c \in Boxes : p \notin Holding(queue[c], box[c])
  BY <1>1, <1>3, <1>7 DEF Placed
<1>9. BoxOK(Append(box[b], p)) /\ Messages(Append(box[b], p)) = Messages(box[b]) \cup {p}
  <2>1. p \notin Messages(box[b])
    BY <1>1, <1>7, <1>8 DEF Holding
  <2> QED  BY <1>1, <1>7, <2>1, OneBox, BoxAppendOK
<1>10. /\ box'[b] = Append(box[b], p) /\ \A c \in Boxes : c # b => box'[c] = box[c]
       /\ fate'[p] = "inside" /\ \A r \in Packets : r # p => fate'[r] = fate[r]
  BY <1>1, <1>2, <1>4, <1>5 DEF QueueTypes
<1>11. QueueTypes'
  BY <1>2, <1>5 DEF QueueTypes
<1>12. QueuesOK'
  <2>1. \A c \in Boxes : /\ QueueOK(queue[c]) /\ BoxOK(box[c])
                         /\ FLUSH_SIGNAL \in Messages(box[c]) => c = fm
    BY DEF QInv, QueuesOK
  <2>2. FLUSH_SIGNAL \notin Messages(box'[b]) /\ BoxOK(box'[b])
    BY <1>1, <1>7, <1>9, <1>10
  <2>3. \A c \in Boxes : /\ QueueOK(queue'[c]) /\ BoxOK(box'[c])
                         /\ FLUSH_SIGNAL \in Messages(box'[c]) => c = fm'
    BY <1>2, <1>10, <2>1, <2>2
  <2> QED  BY <2>3 DEF QueuesOK
<1>13. HeldOK'
  <2>1. \A u \in Threads : u # t => held'[u] = held[u] /\ pc'[u] = pc[u]
    BY <1>2, <1>4
  <2>2. pc'[t] = "out"
    BY <1>2, <1>4
  <2>3. \A u \in Threads : u # t /\ pc[u] # "out" => held[u] # p /\ held[u] \in Packets
    BY <1>1 DEF QInv, HeldOK, IInv, InsertOK, p
  <2>4. /\ \A u \in Threads : pc[u] # "out" => fate[held[u]] = "held"
        /\ \A u, v \in Threads : u # v /\ pc[u] # "out" /\ pc[v] # "out" => held[u] # held[v]
    BY DEF QInv, HeldOK
  <2>5. \A u \in Threads : pc'[u] # "out" => fate'[held'[u]] = "held"
    BY <1>10, <2>1, <2>2, <2>3, <2>4
  <2>6. \A u, v \in Threads : u # v /\ pc'[u] # "out" /\ pc'[v] # "out" => held'[u] # held'[v]
    BY <2>1, <2>2, <2>4
  <2> QED  BY <2>5, <2>6 DEF HeldOK
<1>14. Drained'
  BY <1>1, <1>2, <1>6, <1>10 DEF QInv, Drained
<1>15. FinishOK' /\ TimerIsDeadline'
  BY <1>2 DEF QInv, FinishOK, TimerIsDeadline
<1>16. Placed'
  <2> DEFINE H(c) == Holding(queue[c], box[c])
             I(c) == Holding(queue'[c], box'[c])
  <2>1. I(b) = H(b) \cup {p} /\ \A c \in Boxes : c # b => I(c) = H(c)
    BY <1>1, <1>2, <1>7, <1>9, <1>10 DEF Holding
  <2>2. \A c \in Boxes : Ids(queue'[c]) \cap Messages(box'[c]) = {}
    <3>1. \A c \in Boxes : Ids(queue[c]) \cap Messages(box[c]) = {}
      BY <1>7 DEF Placed
    <3>2. p \notin Ids(queue[b]) /\ b \in Boxes
      BY <1>1, <1>8 DEF Holding
    <3> TAKE c \in Boxes
    <3>3. CASE c = b
      <4>1. Ids(queue'[c]) = Ids(queue[b]) /\ Messages(box'[c]) = Messages(box[b]) \cup {p}
        BY <1>2, <1>9, <1>10, <3>3
      <4> QED  BY <3>1, <3>2, <4>1
    <3>4. CASE c # b
      <4>1. Ids(queue'[c]) = Ids(queue[c]) /\ Messages(box'[c]) = Messages(box[c])
        BY <1>2, <1>10, <3>4
      <4> QED  BY <3>1, <4>1
    <3> QED  BY <3>3, <3>4
  <2>3. /\ \A r \in Packets : fate[r] = "inside" <=> \E c \in Boxes : r \in H(c)
        /\ \A c, e \in Boxes : c # e => H(c) \cap H(e) = {}
        /\ \A c \in Boxes : p \notin H(c)
    BY <1>7, <1>8 DEF Placed
  <2> HIDE DEF H, I
  <2>4. \A r \in Packets : fate'[r] = "inside" <=> \E c \in Boxes : r \in I(c)
    <3> TAKE r \in Packets
    <3>1. CASE r = p
      BY <1>1, <1>10, <2>1, <3>1
    <3>2. CASE r # p
      <4>1. fate'[r] = fate[r] /\ \A c \in Boxes : r \in I(c) <=> r \in H(c)
        BY <1>10, <2>1, <3>2
      <4> QED  BY <2>3, <4>1
    <3> QED  BY <3>1, <3>2
  <2>5. \A c, e \in Boxes : c # e => I(c) \cap I(e) = {}
    BY <2>1, <2>3
  <2> QED  BY <2>2, <2>4, <2>5 DEF Placed, I
<1> QED  BY <1>11, <1>12, <1>13, <1>14, <1>15, <1>16 DEF QInv

\* finish_delay(): the mutex, and the flush signal behind the last packet.
LEMMA FinishKeeps ==
    ASSUME QInv, IInv', Finish
    PROVE  QInv'
<1> USE DEF delayThread, packetThread
<1>1. CASE FinishStart
  <2>1. /\ fpc = "run" /\ fm' = mbox /\ fpc' = IF mbox # 0 THEN "lock" ELSE "done"
        /\ UNCHANGED <<mbox, mutex, box, dpc, queue, timer, pc, held, fate>>
    BY <1>1 DEF FinishStart
  <2>2. QueuesOK' /\ Placed'
    BY <2>1, SameQueues
  <2>3. ~ mutex /\ QueueTypes' /\ HeldOK' /\ TimerIsDeadline'
    BY <2>1 DEF QInv, FinishOK, QueueTypes, HeldOK, TimerIsDeadline
  <2>4. Drained'
    BY <2>1, <2>3 DEF QInv, Drained
  <2>5. FinishOK'
    <3>1. mbox \in Boxes \cup {0} /\ (mbox # 0 => dpc[mbox] # "none")
      BY <2>1 DEF QInv, IInv, HandoverTypes, MailboxServed
    <3> QED  BY <2>1, <2>3, <3>1 DEF FinishOK
  <2> QED  BY <2>2, <2>3, <2>4, <2>5 DEF QInv
<1>2. CASE FinishLock
  <2>1. /\ fpc = "lock" /\ mutex' = TRUE /\ fpc' = "push" /\ ~ mutex
        /\ UNCHANGED <<mbox, box, dpc, queue, timer, pc, held, fm, fate>>
    BY <1>2 DEF FinishLock
  <2>2. QueuesOK' /\ Placed'
    BY <2>1, SameQueues
  <2>3. QueueTypes' /\ HeldOK' /\ TimerIsDeadline' /\ Drained' /\ FinishOK'
    BY <2>1 DEF QInv, FinishOK, QueueTypes, HeldOK, TimerIsDeadline, Drained
  <2> QED  BY <2>2, <2>3 DEF QInv
<1>3. CASE FinishPush /\ dpc[fm] = "gone"
  <2>1. /\ fpc = "push" /\ fpc' = "crashed"
        /\ UNCHANGED <<mbox, mutex, box, dpc, queue, timer, pc, held, fm, fate>>
    BY <1>3 DEF FinishPush
  <2>2. QueuesOK' /\ Placed'
    BY <2>1, SameQueues
  <2>3. QueueTypes' /\ HeldOK' /\ TimerIsDeadline' /\ Drained' /\ FinishOK'
    BY <2>1 DEF QInv, FinishOK, QueueTypes, HeldOK, TimerIsDeadline, Drained
  <2> QED  BY <2>2, <2>3 DEF QInv
<1>4. CASE FinishPush /\ dpc[fm] # "gone"
  <2>1. /\ fpc = "push" /\ fpc' = "wait"
        /\ box' = [box EXCEPT ![fm] = Append(box[fm], FLUSH_SIGNAL)]
        /\ UNCHANGED <<mbox, mutex, dpc, queue, timer, pc, held, fm, fate>>
    BY <1>4 DEF FinishPush
  <2>2. fm \in Boxes /\ mutex /\ dpc[fm] \notin {"none", "gone"} /\ 0 \notin Boxes
    BY <1>4, <2>1 DEF QInv, FinishOK, Boxes
  <2>3. \A c \in Boxes : FLUSH_SIGNAL \notin Messages(box[c])
    BY <2>1 DEF QInv, IInv, NoFlush, Messages
  <2>4. /\ BoxOK(Append(box[fm], FLUSH_SIGNAL))
        /\ Messages(Append(box[fm], FLUSH_SIGNAL)) = Messages(box[fm]) \cup {FLUSH_SIGNAL}
    BY <2>2, <2>3, OneBox, BoxAppendOK
  <2>5. /\ box'[fm] = Append(box[fm], FLUSH_SIGNAL)
        /\ \A c \in Boxes : c # fm => box'[c] = box[c]
    BY <2>1, <2>2 DEF QInv, IInv, HandoverTypes
  <2>6. QueuesOK'
    <3>1. \A c \in Boxes : /\ QueueOK(queue'[c]) /\ BoxOK(box'[c])
                           /\ FLUSH_SIGNAL \in Messages(box'[c]) => c = fm'
      BY <2>1, <2>3, <2>4, <2>5 DEF QInv, QueuesOK
    <3> QED  BY <3>1 DEF QueuesOK
  <2>7. Placed'
    <3>1. \A c \in Boxes : /\ Holding(queue'[c], box'[c]) = Holding(queue[c], box[c])
                           /\ Ids(queue'[c]) \cap Messages(box'[c]) = {}
      <4>1. \A c \in Boxes : Ids(queue[c]) \cap Messages(box[c]) = {} /\ FLUSH_SIGNAL \notin Ids(queue[c])
        BY OneBox
      <4> QED  BY <2>1, <2>4, <2>5, <4>1 DEF Holding
    <3> QED  BY <2>1, <3>1 DEF QInv, Placed
  <2>8. QueueTypes' /\ HeldOK' /\ TimerIsDeadline' /\ FinishOK'
    BY <2>1, <2>2 DEF QInv, FinishOK, QueueTypes, HeldOK, TimerIsDeadline
  <2>9. Drained'
    BY <2>1, <2>2, <2>5 DEF QInv, Drained
  <2> QED  BY <2>6, <2>7, <2>8, <2>9 DEF QInv
<1>5. CASE FinishWait
  <2>1. /\ fpc = "wait" /\ ~ mutex /\ mbox' = 0 /\ fpc' = "done"
        /\ UNCHANGED <<mutex, box, dpc, queue, timer, pc, held, fm, fate>>
    BY <1>5 DEF FinishWait
  <2>2. QueuesOK' /\ Placed'
    BY <2>1, SameQueues
  <2>3. fm \in Boxes /\ dpc[fm] = "gone" /\ mbox \in {0, fm} /\ 0 \notin Boxes
    BY <2>1 DEF QInv, FinishOK, Boxes
  <2>4. QueueTypes' /\ HeldOK' /\ TimerIsDeadline' /\ FinishOK'
    BY <2>1, <2>3 DEF QInv, FinishOK, QueueTypes, HeldOK, TimerIsDeadline
  <2>5. Drained'
    BY <2>1, <2>3 DEF QInv, Drained
  <2> QED  BY <2>2, <2>4, <2>5 DEF QInv
<1> QED  BY <1>1, <1>2, <1>3, <1>4, <1>5 DEF Finish

\* Time passes.
LEMMA TickKeeps ==
    ASSUME QInv, IInv', Tick
    PROVE  QInv'
<1>1. /\ queue' = [b \in Boxes |-> [i \in DOMAIN queue[b] |-> [queue[b][i] EXCEPT !.left = Minus1(@)]]]
      /\ timer' = [b \in Boxes |-> Minus1(timer[b])]
      /\ UNCHANGED <<mbox, mutex, box, dpc, pc, held, m, fpc, fm, fate>>
  BY DEF Tick, packetThread, finisher
<1>2. \A b \in Boxes : QueueOK(queue[b]) /\ timer[b] \in Nat
  BY DEF QInv, QueuesOK, QueueTypes
<1>3. ASSUME NEW b \in Boxes
      PROVE  /\ QueueOK(queue'[b]) /\ Ids(queue'[b]) = Ids(queue[b])
             /\ queue'[b] = <<>> <=> queue[b] = <<>>
             /\ queue[b] # <<>> => Head(queue'[b]).left = Minus1(Head(queue[b]).left)
  <2>1. queue'[b] = [i \in DOMAIN queue[b] |-> [queue[b][i] EXCEPT !.left = Minus1(@)]]
    BY <1>1
  <2> QED  BY <1>2, <2>1, QueueTickOK
<1>4. QueueTypes'
  <2>1. timer' \in [Boxes -> Nat]
    BY <1>1, <1>2 DEF Minus1
  <2>2. \A b \in Boxes : queue'[b] \in Seq(Elems)
    BY <1>3 DEF QueueOK
  <2>3. queue' \in [Boxes -> Seq(Elems)]
    BY <1>1, <2>2
  <2> QED  BY <1>1, <2>1, <2>3 DEF QInv, QueueTypes
<1>5. QueuesOK'
  BY <1>1, <1>3 DEF QInv, QueuesOK
<1>6. HeldOK' /\ FinishOK'
  BY <1>1 DEF QInv, HeldOK, FinishOK
<1>7. Drained'
  BY <1>1, <1>3 DEF QInv, Drained
<1>8. Placed'
  BY <1>1, <1>3 DEF QInv, Placed, Holding
<1>9. TimerIsDeadline'
  <2>1. ASSUME NEW b \in Boxes
        PROVE  TimerOK(dpc'[b], queue'[b], timer'[b])
    <3>1. TimerOK(dpc[b], queue[b], timer[b])
      BY DEF QInv, TimerIsDeadline, TimerOK
    <3>2. dpc'[b] = dpc[b] /\ timer'[b] = Minus1(timer[b])
      BY <1>1
    <3>3. CASE queue[b] = <<>>
      BY <1>3, <3>1, <3>2, <3>3 DEF TimerOK
    <3>4. CASE queue[b] # <<>>
      <4>1. dpc[b] = "wait" => timer'[b] = Head(queue'[b]).left
        BY <1>3, <3>1, <3>2, <3>4 DEF TimerOK
      <4>2. dpc[b] = "late" => Head(queue'[b]).left = 0
        BY <1>3, <3>1, <3>4 DEF TimerOK, Minus1
      <4>3. \A i \in DOMAIN queue'[b] : Head(queue'[b]).left <= queue'[b][i].left
        BY <1>3, <3>4, FirstIsEarliest
      <4> QED  BY <1>3, <3>2, <3>4, <4>1, <4>2, <4>3 DEF TimerOK
    <3> QED  BY <3>3, <3>4
  <2> QED  BY <2>1 DEF TimerIsDeadline, TimerOK
<1> QED  BY <1>4, <1>5, <1>6, <1>7, <1>8, <1>9 DEF QInv

\* Every step keeps the inductive invariant of the queues.
LEMMA NextQueues == QInv /\ [Next]_vars => QInv'
<1> SUFFICES ASSUME QInv, [Next]_vars
             PROVE  QInv'
  OBVIOUS
<1>1. IInv'
  BY NextHandover DEF QInv
<1>2. CASE UNCHANGED vars
  <2>1. UNCHANGED <<mbox, mutex, box, dpc, queue, timer, pc, held, m, fpc, fm, fate>>
    BY <1>2 DEF vars, delayThread, packetThread, finisher
  <2>2. QueuesOK' /\ Placed'
    BY <2>1, SameQueues
  <2> QED
    BY <1>1, <2>1, <2>2 DEF QInv, QueueTypes, HeldOK, Drained, FinishOK, TimerIsDeadline
<1> QED
  BY <1>1, <1>2, GetMboxKeeps, GetMboxLockedKeeps, PushKeeps, DelayThreadKeeps, FinishKeeps,
     TickKeeps DEF Next

(***************************************************************************)
(* Whatever the number of packet threads, packets and mailboxes, and       *)
(* whatever the deadlines: no packet that was pushed is lost or in two     *)
(* places, neither when the mailbox is changed or rescued after the nap    *)
(* nor when it is flushed (delay_thread, get_mbox, finish_delay).          *)
(***************************************************************************)
THEOREM DelayQueueSound == Spec => []QueueSound
BY InitQueues, NextQueues, QInvSound, PTL DEF Spec

(***************************************************************************)
(* The delay thread always waits for the earliest deadline of its queue,   *)
(* in whatever order the packets came (queue_push, queue_deadline).        *)
(***************************************************************************)
THEOREM DelayTimerExact == Spec => []TimerIsDeadline
<1>1. QInv => TimerIsDeadline
  BY DEF QInv
<1> QED  BY <1>1, InitQueues, NextQueues, PTL DEF Spec
=============================================================================
