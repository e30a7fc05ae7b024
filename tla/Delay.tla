-------------------------------- MODULE Delay -------------------------------
(***************************************************************************)
(* The delay queue (delay.c) with the message queue of thread_utils.c.     *)
(* Packet threads push packets to the mailbox of the delay thread, which   *)
(* keeps them in a queue sorted by deadline and resumes each one when its  *)
(* time has come.  The mailbox and its thread are created by the first     *)
(* packet, and go away after an idle time; the pointer mbox is read        *)
(* without the mutex.  finish_delay() makes the thread send everything at  *)
(* once, and uses the mutex to wait for it.                                *)
(*                                                                         *)
(* A mailbox and its thread are one number, in order of creation; 0 is     *)
(* NULL.  A critical section that does not block in the middle is a step.  *)
(* Time is relative, as in module Pof: ticks left to a deadline, ticks     *)
(* left to wait for a message.                                             *)
(***************************************************************************)
EXTENDS Integers, FiniteSets, Sequences

CONSTANTS
    Threads,     \* the packet threads
    MaxPacket,   \* bound of the model: packets 1 .. MaxPacket
    MaxDelay,    \* ticks a packet may still have to wait when it comes
    IdleTime     \* IDLE_TIMEOUT_US, in ticks

ASSUME DelayAssumption ==
    /\ MaxPacket \in Nat
    /\ MaxDelay \in Nat
    /\ IdleTime \in Nat \ {0}

VARIABLES
    mbox,      \* the current mailbox, or 0
    mutex,     \* does finish_delay() hold the mutex?
    box,       \* per mailbox: the messages in it
    dpc,       \* per mailbox: its thread
    queue,     \* per mailbox: its thread's queue of [id, left]
    timer,     \* per mailbox: ticks until messagequeue_pop() returns
    pc,        \* per packet thread
    held,      \* per packet thread: the packet to insert, or 0
    m,         \* per packet thread: the pointer it has read
    fpc,       \* the shutdown: finish_delay()
    fm,        \* the pointer finish_delay() has read
    fate       \* ghost: what became of every packet

delayThread == <<dpc, queue, timer>>

packetThread == <<pc, held, m>>

finisher == <<fpc, fm>>

vars == <<mbox, mutex, box, delayThread, packetThread, finisher, fate>>

Packets == 1 .. MaxPacket

\* A mailbox is created by a packet that finds none.
Boxes == 1 .. MaxPacket

\* The message of finish_delay().
FLUSH_SIGNAL == 0

Elems == [id : Packets, left : 0 .. MaxDelay]

TypeOK ==
    /\ mbox \in Boxes \cup {0}
    /\ mutex \in BOOLEAN
    /\ box \in [Boxes -> Seq(Packets \cup {FLUSH_SIGNAL})]
    /\ dpc \in [Boxes -> {"none", "wait", "late", "idle", "nap", "gone", "crashed"}]
    /\ queue \in [Boxes -> Seq(Elems)]
    /\ timer \in [Boxes -> Nat]
    /\ pc \in [Threads -> {"out", "lock", "push"}]
    /\ held \in [Threads -> Packets \cup {0}]
    /\ m \in [Threads -> Boxes \cup {0}]
    /\ fm \in Boxes \cup {0}
    /\ fpc \in {"run", "lock", "push", "wait", "done", "crashed"}
    /\ fate \in [Packets -> {"away", "held", "inside", "sent", "lost"}]

Init ==
    /\ mbox = 0
    /\ mutex = FALSE
    /\ box = [b \in Boxes |-> <<>>]
    /\ dpc = [b \in Boxes |-> "none"]
    /\ queue = [b \in Boxes |-> <<>>]
    /\ timer = [b \in Boxes |-> 0]
    /\ pc = [t \in Threads |-> "out"]
    /\ held = [t \in Threads |-> 0]
    /\ m = [t \in Threads |-> 0]
    /\ fm = 0
    /\ fpc = "run"
    /\ fate = [p \in Packets |-> "away"]

-----------------------------------------------------------------------------
(* The packet threads: delay_insert(). *)

\* Packets come in order of their numbers, which stand for nothing else.
NextPacket(p) == fate[p] = "away" /\ \A q \in 1 .. p - 1 : fate[q] # "away"

\* get_mbox() without the mutex.
GetMbox(t, p) ==
    /\ pc[t] = "out"
    /\ fpc = "run"
    /\ NextPacket(p)
    /\ held' = [held EXCEPT ![t] = p]
    /\ fate' = [fate EXCEPT ![p] = "held"]
    /\ m' = [m EXCEPT ![t] = mbox]
    /\ pc' = [pc EXCEPT ![t] = IF mbox # 0 THEN "push" ELSE "lock"]
    /\ UNCHANGED <<mbox, mutex, box, delayThread, finisher>>

\* Mailboxes are numbered in order of creation.
NewBox(b) == dpc[b] = "none" /\ \A c \in 1 .. b - 1 : dpc[c] # "none"

\* Mutant: no fallback for a thread without priority, so that nobody serves
\* the new mailbox.
GetMboxNoThread(t) ==
    /\ pc[t] = "lock"
    /\ ~ mutex
    /\ pc' = [pc EXCEPT ![t] = "push"]
    /\ IF mbox # 0 THEN UNCHANGED mbox ELSE \E b \in Boxes : NewBox(b) /\ mbox' = b
    /\ m' = [m EXCEPT ![t] = mbox']
    /\ UNCHANGED <<mutex, box, delayThread, held, finisher, fate>>

\* get_mbox() with the mutex: another thread might have created the mailbox.
GetMboxLocked(t) ==
    /\ pc[t] = "lock"
    /\ ~ mutex
    /\ pc' = [pc EXCEPT ![t] = "push"]
    /\ IF mbox # 0
       THEN /\ m' = [m EXCEPT ![t] = mbox]
            /\ UNCHANGED <<mbox, dpc, timer>>
       ELSE \E b \in Boxes :
            /\ NewBox(b)
            /\ m' = [m EXCEPT ![t] = b]
            /\ mbox' = b
            /\ dpc' = [dpc EXCEPT ![b] = "wait"]
            /\ timer' = [timer EXCEPT ![b] = IdleTime]
    /\ UNCHANGED <<mutex, box, queue, held, finisher, fate>>

\* messagequeue_push(); the mailbox may be gone.
MessagequeuePush(t) ==
    LET b == m[t]
        p == held[t]
    IN  /\ pc[t] = "push"
        /\ IF dpc[b] = "gone"
           THEN fate' = [fate EXCEPT ![p] = "lost"] /\ UNCHANGED box
           ELSE /\ fate' = [fate EXCEPT ![p] = "inside"]
                /\ box' = [box EXCEPT ![b] = Append(@, p)]
        /\ pc' = [pc EXCEPT ![t] = "out"]
        /\ held' = [held EXCEPT ![t] = 0]
        /\ m' = [m EXCEPT ![t] = 0]
        /\ UNCHANGED <<mbox, mutex, delayThread, finisher>>

-----------------------------------------------------------------------------
(* The delay thread. *)

\* Mutant: the queue is in order of arrival.
QueueAppend(q, e) == Append(q, e)

\* Before the first packet whose deadline is not earlier.
QueuePush(q, e) ==
    LET earlier == {i \in DOMAIN q : \A j \in 1 .. i : q[j].left < e.left}
        k == Cardinality(earlier) + 1
    IN  SubSeq(q, 1, k - 1) \o <<e>> \o SubSeq(q, k, Len(q))

\* The thread waits for its queue q: it skips the mailbox if it is late.
WaitFor(b, q) ==
    /\ queue' = [queue EXCEPT ![b] = q]
    /\ dpc' = [dpc EXCEPT ![b] = IF q # <<>> /\ Head(q).left = 0 THEN "late" ELSE "wait"]
    /\ timer' = [timer EXCEPT ![b] = IF q # <<>> THEN Head(q).left ELSE IdleTime]

\* A packet that still has to wait for d ticks is taken from the mailbox.
Take(b, d) ==
    /\ box[b] # <<>>
    /\ Head(box[b]) # FLUSH_SIGNAL
    /\ box' = [box EXCEPT ![b] = Tail(@)]
    /\ WaitFor(b, QueuePush(queue[b], [id |-> Head(box[b]), left |-> d]))

\* messagequeue_pop() returns a packet.
DelayReceive(b, d) ==
    /\ dpc[b] = "wait"
    /\ Take(b, d)
    /\ UNCHANGED <<mbox, mutex, packetThread, finisher, fate>>

\* messagequeue_pop() returns the flush signal: everything is sent, and the
\* mutex that finish_delay() has locked is unlocked.
DelayFlush(b) ==
    /\ dpc[b] = "wait"
    /\ box[b] # <<>>
    /\ Head(box[b]) = FLUSH_SIGNAL
    /\ fate' = [p \in Packets |->
                  IF \E i \in DOMAIN queue[b] : queue[b][i].id = p THEN "sent" ELSE fate[p]]
    /\ queue' = [queue EXCEPT ![b] = <<>>]
    /\ box' = [box EXCEPT ![b] = <<>>]
    /\ mutex' = FALSE
    /\ dpc' = [dpc EXCEPT ![b] = "gone"]
    /\ timer' = [timer EXCEPT ![b] = 0]
    /\ UNCHANGED <<mbox, packetThread, finisher>>

\* The wait for a message timed out.
TimedOut(b) == dpc[b] = "wait" /\ timer[b] = 0 /\ box[b] = <<>>

\* The wait timed out, or the thread is late: queue_send_first().
QueueSendFirst(b) ==
    /\ dpc[b] = "late" \/ TimedOut(b)
    /\ queue[b] # <<>>
    /\ fate' = [fate EXCEPT ![Head(queue[b]).id] = "sent"]
    /\ WaitFor(b, Tail(queue[b]))
    /\ UNCHANGED <<mbox, mutex, box, packetThread, finisher>>

\* The idle timeout; messages may still come before the thread gets the mutex.
IdleTimeout(b) ==
    /\ TimedOut(b)
    /\ queue[b] = <<>>
    /\ dpc' = [dpc EXCEPT ![b] = "idle"]
    /\ UNCHANGED <<mbox, mutex, box, queue, timer, packetThread, finisher, fate>>

\* Mutant: the mailbox is not given up before the nap.
IdleKeepsMbox(b) ==
    /\ dpc[b] = "idle"
    /\ ~ mutex
    /\ dpc' = [dpc EXCEPT ![b] = IF mbox = b THEN "nap" ELSE "gone"]
    /\ UNCHANGED <<mbox, mutex, box, queue, timer, packetThread, finisher, fate>>

\* The thread gives its mailbox up, or exits if it is not the current one.
IdleLock(b) ==
    /\ dpc[b] = "idle"
    /\ ~ mutex
    /\ mbox' = IF mbox = b THEN 0 ELSE mbox
    /\ dpc' = [dpc EXCEPT ![b] = IF mbox = b THEN "nap" ELSE "gone"]
    /\ UNCHANGED <<mutex, box, queue, timer, packetThread, finisher, fate>>

\* A packet thread that has read the pointer pushes within the 10 ms of the
\* nap.
Pushed(b) == \A t \in Threads : pc[t] = "push" => m[t] # b

\* "let's not lose the packet": the first message is rescued after the nap.
\* The flush signal would be taken for a packet.
IdleRescue(b, d) ==
    /\ dpc[b] = "nap"
    /\ Pushed(b)
    /\ \/ Take(b, d)
       \/ /\ box[b] # <<>> /\ Head(box[b]) = FLUSH_SIGNAL
          /\ dpc' = [dpc EXCEPT ![b] = "crashed"]
          /\ UNCHANGED <<box, queue, timer>>
    /\ UNCHANGED <<mbox, mutex, packetThread, finisher, fate>>

\* Mutant: the mailbox is not checked after the nap.
IdleExitUnchecked(b) ==
    /\ dpc[b] = "nap"
    /\ Pushed(b)
    /\ dpc' = [dpc EXCEPT ![b] = "gone"]
    /\ UNCHANGED <<mbox, mutex, box, queue, timer, packetThread, finisher, fate>>

IdleExit(b) ==
    /\ dpc[b] = "nap"
    /\ Pushed(b)
    /\ box[b] = <<>>
    /\ dpc' = [dpc EXCEPT ![b] = "gone"]
    /\ UNCHANGED <<mbox, mutex, box, queue, timer, packetThread, finisher, fate>>

-----------------------------------------------------------------------------
(* finish_delay(), after the interfaces have been closed. *)

FinishStart ==
    /\ fpc = "run"
    /\ \A t \in Threads : pc[t] = "out"
    /\ fm' = mbox
    /\ fpc' = IF mbox # 0 THEN "lock" ELSE "done"
    /\ UNCHANGED <<mbox, mutex, box, delayThread, packetThread, fate>>

FinishLock ==
    /\ fpc = "lock"
    /\ ~ mutex
    /\ mutex' = TRUE
    /\ fpc' = "push"
    /\ UNCHANGED <<mbox, box, delayThread, packetThread, fm, fate>>

\* messagequeue_push(); the mailbox may be gone here, too.
FinishPush ==
    /\ fpc = "push"
    /\ IF dpc[fm] = "gone"
       THEN fpc' = "crashed" /\ UNCHANGED box
       ELSE /\ fpc' = "wait"
            /\ box' = [box EXCEPT ![fm] = Append(@, FLUSH_SIGNAL)]
    /\ UNCHANGED <<mbox, mutex, delayThread, packetThread, fm, fate>>

\* The second lock, which the delay thread makes possible.
FinishWait ==
    /\ fpc = "wait"
    /\ ~ mutex
    /\ mbox' = 0
    /\ fpc' = "done"
    /\ UNCHANGED <<mutex, box, delayThread, packetThread, fm, fate>>

-----------------------------------------------------------------------------
Minus1(n) == IF n > 0 THEN n - 1 ELSE 0

\* Time passes.
Tick ==
    /\ \E b \in Boxes : timer[b] > 0
    /\ queue' = [b \in Boxes |-> [i \in DOMAIN queue[b] |->
                    [queue[b][i] EXCEPT !.left = Minus1(@)]]]
    /\ timer' = [b \in Boxes |-> Minus1(timer[b])]
    /\ UNCHANGED <<mbox, mutex, box, dpc, packetThread, finisher, fate>>

DelayThread(b) ==
    \/ \E d \in 0 .. MaxDelay : DelayReceive(b, d) \/ IdleRescue(b, d)
    \/ DelayFlush(b)
    \/ QueueSendFirst(b)
    \/ IdleTimeout(b)
    \/ IdleLock(b)
    \/ IdleExit(b)

Finish == FinishStart \/ FinishLock \/ FinishPush \/ FinishWait

Next ==
    \/ \E t \in Threads : GetMboxLocked(t) \/ MessagequeuePush(t)
    \/ \E t \in Threads, p \in Packets : GetMbox(t, p)
    \/ \E b \in Boxes : DelayThread(b)
    \/ Finish
    \/ Tick

Spec == Init /\ [][Next]_vars

\* All threads go on, and so does the clock.  Nothing makes packets come, and
\* nothing makes the shutdown start.
FairSpec ==
    /\ Spec
    /\ \A t \in Threads : WF_vars(GetMboxLocked(t) \/ MessagequeuePush(t))
    /\ \A b \in Boxes : WF_vars(DelayThread(b))
    /\ WF_vars(FinishLock \/ FinishPush \/ FinishWait)
    /\ WF_vars(Tick)

-----------------------------------------------------------------------------
InQueue(b) == {queue[b][i].id : i \in DOMAIN queue[b]}

InBox(b) == {box[b][i] : i \in DOMAIN box[b]} \ {FLUSH_SIGNAL}

(***************************************************************************)
(* A packet that was pushed and not yet sent is in one mailbox or in one   *)
(* queue, and the mailbox or queue is not gone: neither the change of      *)
(* mailboxes nor the rescue after the nap loses or repeats a packet        *)
(* (delay_thread, get_mbox).                                               *)
(***************************************************************************)
Conservation ==
    /\ {p \in Packets : fate[p] = "inside"} =
           UNION {InQueue(b) \cup InBox(b) : b \in {c \in Boxes : dpc[c] # "gone"}}
    /\ \A b, c \in Boxes : b # c => (InQueue(b) \cup InBox(b)) \cap (InQueue(c) \cup InBox(c)) = {}
    /\ \A b \in Boxes : InQueue(b) \cap InBox(b) = {}

(***************************************************************************)
(* The mailboxes and queues are sound: no wait is negative, and no packet  *)
(* is lost or repeated (queue_deadline, delay_thread, get_mbox).           *)
(***************************************************************************)
QueueSound == TypeOK /\ Conservation

(***************************************************************************)
(* The delay thread wakes up for the earliest deadline of its queue,       *)
(* whatever the order in which packets came: never after it, and before it *)
(* only for a message (queue_push, queue_deadline, delay_thread).          *)
(***************************************************************************)
TimerIsDeadline ==
    \A b \in Boxes :
        /\ dpc[b] = "wait" => \A i \in DOMAIN queue[b] : timer[b] <= queue[b][i].left
        /\ dpc[b] = "wait" /\ queue[b] # <<>> => timer[b] = Head(queue[b]).left
        /\ dpc[b] = "late" => queue[b] # <<>> /\ Head(queue[b]).left = 0

(***************************************************************************)
(* The current mailbox has a thread that will look into it again before it *)
(* exits, and no packet thread is about to push to a mailbox that is gone, *)
(* although it reads the pointer without the mutex (get_mbox,              *)
(* delay_thread).                                                          *)
(***************************************************************************)
MailboxServed ==
    /\ mbox # 0 /\ fpc = "run" => dpc[mbox] \in {"wait", "late", "idle"}
    /\ \A t \in Threads : pc[t] = "push" => dpc[m[t]] \notin {"none", "gone"}

(***************************************************************************)
(* Until the shutdown, every packet that is inserted is sent, however its  *)
(* insertion meets the idle exit of the thread (delay_insert,              *)
(* delay_thread).                                                          *)
(***************************************************************************)
AllSent ==
    \A p \in Packets : fate[p] = "held" ~> (fate[p] = "sent" \/ fpc # "run")

(***************************************************************************)
(* "this will unlock when ready" (finish_delay in delay.c): the shutdown   *)
(* gets the mutex back from the delay thread.                              *)
(***************************************************************************)
FinishReturns == fpc = "lock" ~> fpc = "done"

=============================================================================
