--------------------------------- MODULE Pof --------------------------------
(***************************************************************************)
(* The packet ordering function (pof.c, after RFC 9550).  Packet threads   *)
(* put packets in a buffer sorted by sequence number and post an event to  *)
(* an eventfd, which adds the events up; the worker thread waits for the   *)
(* events or for the deadline of a packet, and forwards what is in order.  *)
(*                                                                         *)
(* The lock protects everything but the check of queue_len on entry, so a  *)
(* packet is two steps, and the worker's part under the lock is a step for *)
(* the event, one for each forwarded packet and one that sets the timeout  *)
(* of the next ppoll().                                                    *)
(*                                                                         *)
(* Time is relative: a packet has left ticks until its deadline, the       *)
(* worker timer ticks until ppoll() returns.  No two packets have the same *)
(* deadline to the nanosecond, so that get_next_deadline(), which compares *)
(* with !=, always ends at the last packet of the buffer.  OAM packets     *)
(* bypass the buffer and leave no trace in it.                             *)
(***************************************************************************)
EXTENDS Integers, FiniteSets, Sequences

CONSTANTS
    SEQ_SPACE,     \* numbers are 16 bit in the code
    MaxPacket,     \* bound of the model: packets 1 .. MaxPacket of a stream
    MaxLag,        \* a packet is overtaken by less than MaxLag later ones
    Threads,       \* the packet threads
    BufferSize,    \* queue_max_len
    MaxDelay,      \* pof_max_delay, in ticks
    TakeAnyTime    \* pof_take_any_time, in ticks

ASSUME PofAssumption ==
    /\ SEQ_SPACE \in Nat \ {0}
    /\ MaxPacket \in Nat
    /\ MaxLag \in Nat \ {0}
    /\ IsFiniteSet(Threads) /\ Threads # {}
    /\ BufferSize \in Nat
    /\ MaxDelay \in Nat \ {0}
    /\ TakeAnyTime \in Nat \ {0}

VARIABLES
    queue,             \* the buffer: [id, seq, left]
    pof_last_sent,
    take_any,
    evfd,              \* the eventfd's counter
    next_to_forward,   \* the packet get_next_deadline() stopped at, or 0
    wpc,               \* the worker
    timer,             \* ticks until ppoll() returns
    send_at,           \* position of pkt_to_send in the buffer
    timeout,           \* event & POF_TIMEOUT
    pc,                \* per packet thread: 0, or the packet to insert
    fate,              \* ghost: what became of every packet
    deleted            \* delete_pof() has been called

buffer == <<queue, pof_last_sent, take_any, next_to_forward>>

worker == <<wpc, timer, send_at, timeout>>

vars == <<buffer, evfd, worker, pc, fate, deleted>>

Packets == 1 .. MaxPacket

Number(p) == p % SEQ_SPACE

\* The worker holds the lock.
LockedSteps == {"forward", "rearm"}

Locked == wpc \in LockedSteps

Elems == [id : Packets, seq : 0 .. SEQ_SPACE - 1, left : 0 .. MaxDelay]

TypeOK ==
    /\ queue \in Seq(Elems)
    /\ pof_last_sent \in 0 .. SEQ_SPACE - 1
    /\ take_any \in BOOLEAN
    /\ evfd \in Int
    /\ next_to_forward \in Packets \cup {0}
    /\ wpc \in {"start", "poll", "event", "expired", "stopped"} \cup LockedSteps
    /\ timer \in Nat
    /\ send_at \in Nat \ {0}
    /\ timeout \in BOOLEAN
    /\ pc \in [Threads -> Packets \cup {0}]
    /\ fate \in [Packets -> {"away", "entering", "buffered", "forwarded", "dropped", "leaked"}]
    /\ deleted \in BOOLEAN

Init ==
    /\ queue = <<>>
    /\ pof_last_sent = 0
    /\ take_any = TRUE
    /\ evfd = 0
    /\ next_to_forward = 0
    /\ wpc = "start"
    /\ timer = 0
    /\ send_at = 1
    /\ timeout = FALSE
    /\ pc = [t \in Threads |-> 0]
    /\ fate = [p \in Packets |-> "away"]
    /\ deleted = FALSE

-----------------------------------------------------------------------------
(* The packet threads: pof_insert(). *)

\* Mutant: > for >= in the check of queue_len.
EnterOneTooMany(t, p) ==
    /\ ~ deleted
    /\ pc[t] = 0
    /\ fate[p] = "away"
    /\ IF Len(queue) > BufferSize
       THEN fate' = [fate EXCEPT ![p] = "dropped"] /\ UNCHANGED pc
       ELSE /\ fate' = [fate EXCEPT ![p] = "entering"]
            /\ pc' = [pc EXCEPT ![t] = p]
    /\ UNCHANGED <<buffer, evfd, worker, deleted>>

\* queue_len is checked without the lock.
PofEnter(t, p) ==
    /\ ~ deleted
    /\ pc[t] = 0
    /\ fate[p] = "away"
    /\ \A q \in Packets : q + MaxLag <= p => fate[q] # "away"
    /\ IF Len(queue) >= BufferSize
       THEN fate' = [fate EXCEPT ![p] = "dropped"] /\ UNCHANGED pc
       ELSE /\ fate' = [fate EXCEPT ![p] = "entering"]
            /\ pc' = [pc EXCEPT ![t] = p]
    /\ UNCHANGED <<buffer, evfd, worker, deleted>>

\* Before the first packet whose number is not smaller.
InsertSorted(q, e) ==
    LET smaller == {i \in DOMAIN q : \A j \in 1 .. i : q[j].seq < e.seq}
        k == Cardinality(smaller) + 1
    IN  SubSeq(q, 1, k - 1) \o <<e>> \o SubSeq(q, k, Len(q))

POF_IN_ORDER_PKT == 1

POF_OUT_OF_ORDER_PKT == 2

POF_TIMEOUT == 4

\* Mutant: the wrong event.
EventTimeout(seq) ==
    IF seq <= pof_last_sent + 1 \/ take_any
    THEN POF_IN_ORDER_PKT ELSE POF_TIMEOUT

EventOf(seq) ==
    IF seq <= pof_last_sent + 1 \/ take_any
    THEN POF_IN_ORDER_PKT ELSE POF_OUT_OF_ORDER_PKT

PofInsert(t) ==
    LET e == [id |-> pc[t], seq |-> Number(pc[t]), left |-> MaxDelay]
    IN  /\ pc[t] # 0
        /\ ~ Locked
        /\ queue' = InsertSorted(queue, e)
        /\ evfd' = evfd + EventOf(e.seq)
        /\ fate' = [fate EXCEPT ![e.id] = "buffered"]
        /\ pc' = [pc EXCEPT ![t] = 0]
        /\ UNCHANGED <<pof_last_sent, take_any, next_to_forward, worker, deleted>>

-----------------------------------------------------------------------------
(* The worker: pof_thread(). *)

\* The thread starts with a pof_reset() without the lock, which drops what
\* is already in the buffer and leaks the iterators of these packets.
WorkerStart ==
    /\ wpc = "start"
    /\ queue' = <<>>
    /\ fate' = [p \in Packets |-> IF fate[p] = "buffered" THEN "leaked" ELSE fate[p]]
    /\ take_any' = TRUE
    /\ next_to_forward' = 0
    /\ timer' = TakeAnyTime
    /\ wpc' = "poll"
    /\ UNCHANGED <<pof_last_sent, evfd, send_at, timeout, pc, deleted>>

PollEvent ==
    /\ wpc = "poll"
    /\ evfd # 0
    /\ wpc' = "event"
    /\ UNCHANGED <<buffer, evfd, timer, send_at, timeout, pc, fate, deleted>>

PollTimeout ==
    /\ wpc = "poll"
    /\ evfd = 0
    /\ timer = 0
    /\ wpc' = "expired"
    /\ UNCHANGED <<buffer, evfd, timer, send_at, timeout, pc, fate, deleted>>

PositionOf(p) == CHOOSE i \in DOMAIN queue : queue[i].id = p

\* The entry of pof_try_forward().
TryForward(is_timeout) ==
    /\ wpc' = "forward"
    /\ timeout' = is_timeout
    /\ send_at' = IF is_timeout /\ ~ take_any /\ next_to_forward # 0
                  THEN PositionOf(next_to_forward) ELSE 1

\* Mutant: the stop event is taken for one more packet event.
ReadEventNoStop ==
    /\ wpc = "event"
    /\ evfd' = 0
    /\ IF evfd % 2 = 1
       THEN TryForward((evfd \div POF_TIMEOUT) % 2 = 1)
       ELSE wpc' = "rearm" /\ UNCHANGED <<send_at, timeout>>
    /\ UNCHANGED <<buffer, timer, pc, fate, deleted>>

\* The worker takes the lock and reads the sum of the events.
ReadEvent ==
    /\ wpc = "event"
    /\ evfd' = 0
    /\ CASE evfd < 0     -> wpc' = "stopped" /\ UNCHANGED <<send_at, timeout>>
         [] evfd % 2 = 1 -> TryForward((evfd \div POF_TIMEOUT) % 2 = 1)
         [] OTHER        -> wpc' = "rearm" /\ UNCHANGED <<send_at, timeout>>
    /\ UNCHANGED <<buffer, timer, pc, fate, deleted>>

\* Mutant: pof_try_forward() is not told of the timeout.
ReadTimeoutNoFlag ==
    /\ wpc = "expired"
    /\ IF queue # <<>>
       THEN TryForward(FALSE) /\ UNCHANGED take_any
       ELSE take_any' = TRUE /\ wpc' = "rearm" /\ UNCHANGED <<send_at, timeout>>
    /\ UNCHANGED <<queue, pof_last_sent, next_to_forward, evfd, timer, pc, fate, deleted>>

\* The worker takes the lock after a timeout: pof_reset() if there is nothing
\* to forward.
ReadTimeout ==
    /\ wpc = "expired"
    /\ IF queue # <<>>
       THEN TryForward(TRUE) /\ UNCHANGED take_any
       ELSE take_any' = TRUE /\ wpc' = "rearm" /\ UNCHANGED <<send_at, timeout>>
    /\ UNCHANGED <<queue, pof_last_sent, next_to_forward, evfd, timer, pc, fate, deleted>>

\* Mutant: any number above the last one is in order.
InOrderAbove(e) == e.seq >= pof_last_sent + 1

InOrder(e) == e.seq = pof_last_sent + 1

Late(e) == e.seq < pof_last_sent + 1

\* Mutant: the head of the buffer is popped, whatever was sent.
ForwardPopsHead ==
    LET e == queue[send_at]
    IN  /\ wpc = "forward"
        /\ queue # <<>>
        /\ InOrder(e) \/ timeout \/ Late(e)
        /\ take_any' = (take_any /\ ~ InOrder(e) /\ ~ timeout)
        /\ timeout' = FALSE
        /\ pof_last_sent' = IF e.seq > pof_last_sent THEN e.seq ELSE pof_last_sent
        /\ fate' = [fate EXCEPT ![e.id] = "forwarded"]
        /\ queue' = Tail(queue)
        /\ send_at' = 1
        /\ UNCHANGED <<next_to_forward, evfd, wpc, timer, pc, deleted>>

\* One round of the loop in pof_try_forward().
PofForward ==
    LET e == queue[send_at]
    IN  /\ wpc = "forward"
        /\ queue # <<>>
        /\ InOrder(e) \/ timeout \/ Late(e)
        /\ take_any' = (take_any /\ ~ InOrder(e) /\ ~ timeout)
        /\ timeout' = FALSE
        /\ pof_last_sent' = IF e.seq > pof_last_sent THEN e.seq ELSE pof_last_sent
        /\ fate' = [fate EXCEPT ![e.id] = "forwarded"]
        /\ queue' = SubSeq(queue, 1, send_at - 1) \o SubSeq(queue, send_at + 1, Len(queue))
        /\ send_at' = 1
        /\ UNCHANGED <<next_to_forward, evfd, wpc, timer, pc, deleted>>

ForwardDone ==
    /\ wpc = "forward"
    /\ queue # <<>> => ~ (InOrder(queue[send_at]) \/ timeout \/ Late(queue[send_at]))
    /\ wpc' = "rearm"
    /\ UNCHANGED <<buffer, evfd, timer, send_at, timeout, pc, fate, deleted>>

\* get_next_deadline() and the unlock.  A deadline that has passed counts as
\* none.
Rearm ==
    /\ wpc = "rearm"
    /\ next_to_forward' = IF Len(queue) >= 2 THEN queue[Len(queue)].id ELSE 0
    /\ timer' = IF queue # <<>> /\ queue[Len(queue)].left > 0
                THEN queue[Len(queue)].left ELSE TakeAnyTime
    /\ wpc' = "poll"
    /\ UNCHANGED <<queue, pof_last_sent, take_any, evfd, send_at, timeout, pc, fate, deleted>>

-----------------------------------------------------------------------------
Minus1(n) == IF n > 0 THEN n - 1 ELSE 0

\* Time passes.
Tick ==
    /\ (wpc = "poll" /\ timer > 0) \/ \E i \in DOMAIN queue : queue[i].left > 0
    /\ queue' = [i \in DOMAIN queue |-> [queue[i] EXCEPT !.left = Minus1(@)]]
    /\ timer' = IF wpc = "poll" THEN Minus1(timer) ELSE timer
    /\ UNCHANGED <<pof_last_sent, take_any, next_to_forward, evfd, wpc, send_at, timeout,
                   pc, fate, deleted>>

\* A packet's iterator holds its pipeline, and the pipeline this object.
Referenced == \E p \in Packets : fate[p] \in {"entering", "buffered", "leaked"}

\* delete_pof() runs when the last reference is gone.  The event -10 is written to a
\* nonblocking eventfd, whose counter ends 2 below 2^64.
DeletePof ==
    /\ ~ deleted
    /\ ~ Referenced
    /\ deleted' = TRUE
    /\ evfd' = IF evfd <= 8 THEN evfd - 10 ELSE evfd
    /\ UNCHANGED <<buffer, worker, pc, fate>>

-----------------------------------------------------------------------------
Worker ==
    \/ WorkerStart
    \/ PollEvent
    \/ PollTimeout
    \/ ReadEvent
    \/ ReadTimeout
    \/ PofForward
    \/ ForwardDone
    \/ Rearm

Next ==
    \/ \E t \in Threads, p \in Packets : PofEnter(t, p)
    \/ \E t \in Threads : PofInsert(t)
    \/ Worker
    \/ Tick
    \/ DeletePof

Spec == Init /\ [][Next]_vars

\* A packet that has found room gets the lock, which the worker holds for a
\* bounded number of steps; the worker and the clock go on.
FairSpec ==
    /\ Spec
    /\ \A t \in Threads : SF_vars(PofInsert(t))
    /\ WF_vars(Worker)
    /\ WF_vars(Tick)

-----------------------------------------------------------------------------
(***************************************************************************)
(* The buffer holds every packet that was accepted and not yet forwarded,  *)
(* once: neither the sorted insertion nor the removal from the middle of   *)
(* the list loses or repeats a packet (pof_insert, pof_pop_item).          *)
(***************************************************************************)
Conservation ==
    /\ \A i, j \in DOMAIN queue : i # j => queue[i].id # queue[j].id
    /\ {queue[i].id : i \in DOMAIN queue} = {p \in Packets : fate[p] = "buffered"}

(***************************************************************************)
(* The buffer stays sorted by sequence number while packets are taken out  *)
(* of its middle on timeouts, so that its head is the next one to forward  *)
(* (pof_insert, pof_pop_item).                                             *)
(***************************************************************************)
Sorted ==
    \A i, j \in DOMAIN queue : i < j => queue[i].seq <= queue[j].seq

(***************************************************************************)
(* next_to_forward, set at the end of one round of the worker and used in  *)
(* the next, never points to a packet that has been freed in between       *)
(* (get_next_deadline, pof_try_forward).                                   *)
(***************************************************************************)
NextToForwardValid ==
    wpc # "forward" /\ wpc # "rearm" /\ next_to_forward # 0 =>
        fate[next_to_forward] = "buffered"

(***************************************************************************)
(* The buffer is sound whatever packets, timeouts and the deletion do to   *)
(* it: it loses and repeats nothing, is sorted, and what the worker has    *)
(* chosen to forward is still in it (pof_insert, pof_try_forward).         *)
(***************************************************************************)
BufferSound == TypeOK /\ Conservation /\ Sorted /\ NextToForwardValid

(***************************************************************************)
(* Several threads that pass the unlocked check of queue_len at the same   *)
(* time overfill the buffer by at most one packet each, less the one that  *)
(* had room (pof_insert).                                                  *)
(***************************************************************************)
BufferBound == Len(queue) <= BufferSize + Cardinality(Threads) - 1

(***************************************************************************)
(* Events that have not been read are those of packets in the buffer, and  *)
(* those of packets that came between a timeout of ppoll() and the lock,   *)
(* were forwarded on that timeout and left their events behind.  When the  *)
(* last reference to the object is gone, so at most one buffer full of     *)
(* events is left (pof_insert, pof_thread).  The write of the stop event   *)
(* in delete_pof() fails if the counter is above 8.                        *)
(***************************************************************************)
EventsBounded ==
    ~ deleted /\ ~ Referenced => evfd <= 2 * (BufferSize + Cardinality(Threads) - 1)

(***************************************************************************)
(* After the first packet, and unless a timeout says otherwise, a packet   *)
(* is forwarded only when its predecessor has been, or when a later packet *)
(* has been and it is late anyway: "continues the actions on this pipeline *)
(* when the ordering is okay" (doc/config_format.md, pof_try_forward).     *)
(***************************************************************************)
ForwardsInOrder ==
    [][\A p \in Packets :
        /\ fate[p] = "buffered"
        /\ fate'[p] = "forwarded"
        /\ ~ timeout /\ ~ take_any
        => \/ p = 1
           \/ fate[p - 1] = "forwarded"
           \/ \E q \in Packets : q > p /\ fate[q] = "forwarded"]_vars

(***************************************************************************)
(* No accepted packet stays in the buffer for ever, whatever is missing    *)
(* before it (pof_thread, get_next_deadline).                              *)
(***************************************************************************)
AllForwarded ==
    \A p \in Packets : fate[p] = "buffered" ~> fate[p] # "buffered"

(***************************************************************************)
(* The worker stops after delete_pof(), so that thread_join() returns.     *)
(***************************************************************************)
DeleteStops == deleted ~> wpc = "stopped"

(***************************************************************************)
(* "has no timeout, so make sure the thread will stop" (thread_join() in   *)
(* thread_utils.h): the stop event reaches the worker.                     *)
(***************************************************************************)
StopEventWritten == deleted => evfd < 0 \/ wpc = "stopped"

=============================================================================
