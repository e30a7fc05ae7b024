------------------------- MODULE SeqRecoveryProofs --------------------------
(***************************************************************************)
(* The races of the reset thread with the packet threads are benign in two *)
(* respects, for any number of packet threads, any traffic and any of the  *)
(* three algorithms: a window that may discard packets always has a timer  *)
(* running, and no packet thread decides on another one's window.          *)
(***************************************************************************)
EXTENDS SeqRecovery, TLAPS

\* The & 0xffff of the code: a remainder is a sequence number.
LEMMA ModRange ==
    ASSUME NEW a \in Int
    PROVE  a % SEQ_SPACE \in Seq16
BY SeqSpaceAssumption DEF Seq16

\* calc_delta() is an integer between minus half and half of the sequence
\* space.
LEMMA DeltaRange ==
    ASSUME NEW a \in Int, NEW b \in Int
    PROVE  /\ CalcDelta(a, b) \in Int
           /\ - SEQ_SPACE <= 2 * CalcDelta(a, b)
           /\ 2 * CalcDelta(a, b) < SEQ_SPACE
<1>1. (a - b) % SEQ_SPACE \in Seq16
  BY ModRange
<1> QED
  BY <1>1, SeqSpaceAssumption DEF CalcDelta, Seq16

\* shift_seq_history() of a history is a history.
LEMMA ShiftType ==
    ASSUME NEW h \in Histories, NEW d \in Nat \ {0}
    PROVE  ShiftSeqHistory(h, d) \in Histories
BY HistoryLengthAssumption DEF ShiftSeqHistory, Histories, Bits

\* recover() leaves a well-formed window, for any distance.
LEMMA WindowType ==
    ASSUME NEW w \in Windows, NEW s \in Seq16, NEW d \in Int
    PROVE  RecoverWindow(w, s, d) \in Windows
<1>1. ASSUME RecoverPasses(w, d)
      PROVE  RecoverHistory(w, d) \in Histories
  <2>1. w.history \in Histories
    BY DEF Windows
  <2>2. CASE w.take_any \/ d <= 0
    BY <1>1, <2>1, <2>2, HistoryLengthAssumption
    DEF RecoverHistory, RecoverPasses, Histories, Bits
  <2>3. CASE ~ w.take_any /\ d > 0
    BY <2>1, <2>3, ShiftType DEF RecoverHistory
  <2> QED  BY <2>2, <2>3
<1> QED
  BY <1>1 DEF RecoverWindow, Windows

-----------------------------------------------------------------------------
(* The inductive invariant. *)

\* Only the holder of the mutex is inside of seq_recovery().
MutexOK == \A t \in Threads : pc[t] # "idle" => mutex = t

\* decrement_ticks() writes only what it read as positive.
DecrementOK == tpc = "dec" => ticks_read >= 1

\* The window of the init space is used by SeamlessVector only.
InitSpaceOK == Algorithm # "SeamlessVector" => rec["init"].take_any

Armed(s) ==
    \/ rec[s].take_any
    \/ remaining_ticks > 0
    \/ \E t \in Threads : pc[t] = "ticks"

\* A window without a timer is about to be reset.
ArmedOK ==
    \A s \in Spaces :
        Armed(s) \/ (tpc = "reset" /\ <<s, "take_any">> \in stores)

IInv ==
    /\ TypeOK
    /\ MutexOK
    /\ DecrementOK
    /\ InitSpaceOK
    /\ ArmedOK
    /\ DeltaFresh

-----------------------------------------------------------------------------
\* Handling the flags of a packet only ever makes a window take any packet.
LEMMA FlagsKeep ==
    ASSUME TypeOK, NEW p \in SeqMetadata, NEW s \in Spaces
    PROVE  /\ FlagsHandled(p) \in [Spaces -> Windows]
           /\ rec[s].take_any => FlagsHandled(p)[s].take_any
           /\ FlagsHandled(p)[s].recv_seq = rec[s].recv_seq
<1>1. \A r \in Spaces : rec[r] \in Windows
  BY DEF TypeOK
<1>2. \A w \in Windows : /\ [w EXCEPT !.take_any = TRUE] \in Windows
                         /\ [w EXCEPT !.take_any = TRUE].take_any
                         /\ [w EXCEPT !.take_any = TRUE].recv_seq = w.recv_seq
  BY DEF Windows
<1>3. \A w \in Windows : /\ ResetFlagWindow(w, p) \in Windows
                         /\ w.take_any => ResetFlagWindow(w, p).take_any
                         /\ ResetFlagWindow(w, p).recv_seq = w.recv_seq
  BY <1>2 DEF ResetFlagWindow
<1> QED
  BY <1>1, <1>2, <1>3 DEF FlagsHandled, TypeOK

\* The window after a packet is well-formed, and unchanged if it is discarded.
LEMMA UpdatedWindow ==
    ASSUME NEW w \in Windows, NEW p \in SeqMetadata, NEW d \in Int
    PROVE  /\ Updated(w, p, d) \in Windows
           /\ ~ Passes(w, p, d) => Updated(w, p, d) = w
<1>1. p.seq \in Seq16
  BY DEF SeqMetadata
<1>2. RecoverWindow(w, p.seq, d) \in Windows
  BY <1>1, WindowType
<1>3. MatchWindow(w, p.seq) \in Windows
  BY <1>1 DEF MatchWindow, Windows
<1> QED
  BY <1>2, <1>3 DEF Updated, Passes, RecoverWindow, MatchWindow

\* A new object satisfies the invariant.
LEMMA InitInv == Init => IInv
<1> SUFFICES ASSUME Init PROVE IInv
  OBVIOUS
<1>1. NewWindow \in Windows /\ NewWindow.take_any
  BY SeqSpaceAssumption, HistoryLengthAssumption
  DEF NewWindow, NoHistory, Windows, Histories, Bits, Seq16
<1>2. NoPacket \in SeqMetadata
  BY SeqSpaceAssumption DEF NoPacket, SeqMetadata, Seq16
<1>3. TypeOK
  BY <1>1, <1>2, SeqRecoveryAssumption, SeqSpaceAssumption DEF Init, TypeOK
<1>4. InitSpaceOK /\ ArmedOK
  BY <1>1 DEF Init, InitSpaceOK, ArmedOK, Armed, Spaces
<1>5. MutexOK /\ DecrementOK /\ DeltaFresh
  BY DEF Init, MutexOK, DecrementOK, DeltaFresh
<1> QED
  BY <1>3, <1>4, <1>5 DEF IInv

-----------------------------------------------------------------------------
(* The packet threads. *)

\* Taking the mutex, handling the flags and measuring the distance.
LEMMA LockInv ==
    ASSUME IInv, NEW t \in Threads, NEW p \in Traffic, SeqRecoveryLock(t, p)
    PROVE  IInv'
<1>1. p \in SeqMetadata /\ SpaceOf(p) \in Spaces
  BY SeqRecoveryAssumption DEF SpaceOf, Spaces
<1>2. /\ rec' \in [Spaces -> Windows]
      /\ \A s \in Spaces : /\ rec[s].take_any => rec'[s].take_any
                           /\ rec'[s].recv_seq = rec[s].recv_seq
  BY <1>1, FlagsKeep DEF IInv, SeqRecoveryLock
<1>3. \A u \in Threads : pc[u] = "idle"
  BY SeqRecoveryAssumption DEF IInv, MutexOK, SeqRecoveryLock
<1>4. /\ pc' = [pc EXCEPT ![t] = "decide"]
      /\ pc \in [Threads -> {"idle", "decide", "ticks"}]
      /\ mutex' = t
  BY DEF SeqRecoveryLock, IInv, TypeOK
<1>5. TypeOK'
  <2>1. p.seq \in Int /\ rec[SpaceOf(p)].recv_seq \in Int
    BY <1>1 DEF IInv, TypeOK, SeqMetadata, Seq16, Windows
  <2>2. CalcDelta(p.seq, rec[SpaceOf(p)].recv_seq) \in (- SEQ_SPACE) .. SEQ_SPACE
    <3> DEFINE x == CalcDelta(p.seq, rec[SpaceOf(p)].recv_seq)
    <3>1. x \in Int /\ - SEQ_SPACE <= 2 * x /\ 2 * x < SEQ_SPACE
      BY <2>1, DeltaRange
    <3> HIDE DEF x
    <3>2. x \in (- SEQ_SPACE) .. SEQ_SPACE
      BY <3>1, SeqSpaceAssumption
    <3> QED  BY <3>2 DEF x
  <2> QED  BY <1>1, <1>2, <1>4, <2>2 DEF IInv, TypeOK, SeqRecoveryLock, timerVars
<1>6. MutexOK'
  BY <1>3, <1>4 DEF MutexOK
<1>7. DecrementOK'
  BY DEF IInv, DecrementOK, SeqRecoveryLock, timerVars
<1>8. InitSpaceOK'
  BY <1>2 DEF IInv, InitSpaceOK, Spaces
<1>9. ArmedOK'
  BY <1>2, <1>3 DEF IInv, ArmedOK, Armed, SeqRecoveryLock, timerVars
<1>10. DeltaFresh'
  <2> SUFFICES ASSUME NEW u \in Threads, pc'[u] = "decide"
               PROVE  delta'[u] = CalcDelta(packet'[u].seq,
                                            rec'[SpaceOf(packet'[u])].recv_seq)
    BY DEF DeltaFresh, SpaceOf, InitFlagged
  <2>1. u = t
    BY <1>3, <1>4
  <2>2. packet'[t] = p /\ delta'[t] = CalcDelta(p.seq, rec[SpaceOf(p)].recv_seq)
    BY DEF IInv, TypeOK, SeqRecoveryLock
  <2> QED  BY <1>1, <1>2, <2>1, <2>2
<1> QED
  BY <1>5, <1>6, <1>7, <1>8, <1>9, <1>10 DEF IInv

\* The decision on a packet.
LEMMA DecideInv ==
    ASSUME IInv, NEW t \in Threads, SeqRecoveryDecide(t)
    PROVE  IInv'
<1> DEFINE p == packet[t]
           s == SpaceOf(p)
           d == delta[t]
<1>1. p \in SeqMetadata /\ d \in Int /\ s \in Spaces
  BY SeqSpaceAssumption DEF IInv, TypeOK, SpaceOf, Spaces
<1>2. rec \in [Spaces -> Windows] /\ rec[s] \in Windows
  BY <1>1 DEF IInv, TypeOK
<1>3. rec' = [rec EXCEPT ![s] = Updated(rec[s], p, d)]
  BY DEF SeqRecoveryDecide
<1>4. rec' \in [Spaces -> Windows]
  BY <1>1, <1>2, <1>3, UpdatedWindow
<1>5. /\ pc' = [pc EXCEPT ![t] = IF Passes(rec[s], p, d) THEN "ticks" ELSE "idle"]
      /\ mutex' = IF Passes(rec[s], p, d) THEN t ELSE NoThread
      /\ pc[t] = "decide"
      /\ pc \in [Threads -> {"idle", "decide", "ticks"}]
  BY DEF SeqRecoveryDecide, IInv, TypeOK
<1>6. \A u \in Threads : u # t => pc[u] = "idle"
  BY <1>5 DEF IInv, MutexOK
<1>7. TypeOK'
  <2>1. NoPacket \in SeqMetadata /\ 0 \in (- SEQ_SPACE) .. SEQ_SPACE
    BY SeqSpaceAssumption DEF NoPacket, SeqMetadata, Seq16
  <2> QED  BY <1>4, <1>5, <2>1 DEF IInv, TypeOK, SeqRecoveryDecide, timerVars
<1>8. MutexOK'
  BY <1>5, <1>6 DEF MutexOK
<1>9. DecrementOK'
  BY DEF IInv, DecrementOK, SeqRecoveryDecide, timerVars
<1>10. InitSpaceOK'
  <2>1. Algorithm # "SeamlessVector" => s = "reg"
    BY DEF SpaceOf, InitFlagged
  <2> QED  BY <1>2, <1>3, <2>1 DEF IInv, InitSpaceOK, Spaces
<1>11. ArmedOK'
  <2> HIDE DEF s, p, d
  <2>1. CASE Passes(rec[s], p, d)
    BY <1>5, <2>1 DEF ArmedOK, Armed
  <2>2. CASE ~ Passes(rec[s], p, d)
    <3>1. rec' = rec
      BY <1>1, <1>2, <1>3, <2>2, UpdatedWindow
    <3>2. \A u \in Threads : pc[u] # "ticks"
      BY <1>5, <1>6
    <3>3. remaining_ticks' = remaining_ticks /\ tpc' = tpc /\ stores' = stores
      BY DEF SeqRecoveryDecide, timerVars
    <3> QED  BY <3>1, <3>2, <3>3 DEF IInv, ArmedOK, Armed
  <2> QED  BY <2>1, <2>2
<1>12. DeltaFresh'
  <2>1. \A u \in Threads : pc'[u] # "decide"
    BY <1>5, <1>6
  <2> QED  BY <2>1 DEF DeltaFresh
<1> QED
  BY <1>7, <1>8, <1>9, <1>10, <1>11, <1>12 DEF IInv

\* A passed packet refreshes the ticks and releases the mutex.
LEMMA PassInv ==
    ASSUME IInv, NEW t \in Threads, SeqRecoveryPass(t)
    PROVE  IInv'
<1>1. /\ pc' = [pc EXCEPT ![t] = "idle"]
      /\ pc[t] = "ticks"
      /\ pc \in [Threads -> {"idle", "decide", "ticks"}]
      /\ remaining_ticks' = ResetTicks
  BY DEF SeqRecoveryPass, IInv, TypeOK
<1>2. \A u \in Threads : pc'[u] = "idle"
  BY <1>1 DEF IInv, MutexOK
<1>3. TypeOK'
  BY <1>1, SeqRecoveryAssumption DEF IInv, TypeOK, SeqRecoveryPass, timerVars
<1>4. MutexOK' /\ DeltaFresh'
  BY <1>2 DEF MutexOK, DeltaFresh
<1>5. DecrementOK' /\ InitSpaceOK'
  BY DEF IInv, DecrementOK, InitSpaceOK, SeqRecoveryPass, timerVars
<1>6. ArmedOK'
  BY <1>1, SeqRecoveryAssumption DEF ArmedOK, Armed
<1> QED
  BY <1>3, <1>4, <1>5, <1>6 DEF IInv

-----------------------------------------------------------------------------
(* The reset thread. *)

\* The start of the reset thread and the read of the ticks.
LEMMA TickInv ==
    ASSUME IInv, ResetThreadStart \/ DecrementTicksRead
    PROVE  IInv'
<1> USE SeqRecoveryAssumption
<1>1. UNCHANGED <<rec, mutex, pc, packet, delta, stores>>
  BY DEF ResetThreadStart, DecrementTicksRead, packetVars
<1>2. TypeOK'
  BY <1>1 DEF IInv, TypeOK, ResetThreadStart, DecrementTicksRead
<1>3. MutexOK' /\ InitSpaceOK' /\ DeltaFresh'
  BY <1>1 DEF IInv, MutexOK, InitSpaceOK, DeltaFresh, SpaceOf, InitFlagged
<1>4. DecrementOK'
  BY DEF IInv, TypeOK, DecrementOK, ResetThreadStart, DecrementTicksRead
<1>5. ArmedOK'
  <2>1. CASE ResetThreadStart
    BY <2>1 DEF ArmedOK, Armed, ResetThreadStart
  <2>2. CASE DecrementTicksRead
    <3>1. \A s \in Spaces : Armed(s)
      BY <2>2 DEF IInv, ArmedOK, DecrementTicksRead
    <3>2. remaining_ticks' = remaining_ticks
      BY <2>2 DEF DecrementTicksRead
    <3> QED  BY <1>1, <3>1, <3>2 DEF ArmedOK, Armed
  <2> QED  BY <2>1, <2>2
<1> QED
  BY <1>2, <1>3, <1>4, <1>5 DEF IInv

\* The write of the ticks: either ticks remain, or the reset begins and has
\* the take_any of every window that is in use among its stores.
LEMMA WriteInv ==
    ASSUME IInv, DecrementTicksWrite
    PROVE  IInv'
<1> USE SeqRecoveryAssumption
<1>1. UNCHANGED <<rec, mutex, pc, packet, delta, silence>>
  BY DEF DecrementTicksWrite, packetVars
<1>2. ticks_read \in 1 .. ResetTicks /\ remaining_ticks' = ticks_read - 1
  BY DEF IInv, TypeOK, DecrementOK, DecrementTicksWrite
<1>3. TypeOK'
  BY <1>1, <1>2 DEF IInv, TypeOK, DecrementTicksWrite
<1>4. MutexOK' /\ InitSpaceOK' /\ DeltaFresh'
  BY <1>1 DEF IInv, MutexOK, InitSpaceOK, DeltaFresh, SpaceOf, InitFlagged
<1>5. DecrementOK'
  BY DEF DecrementOK, DecrementTicksWrite
<1>6. ArmedOK'
  <2>1. CASE ticks_read = 1
    <3>1. tpc' = "reset" /\ stores' = ResetStores
      BY <2>1 DEF DecrementTicksWrite
    <3>2. <<"reg", "take_any">> \in ResetStores
      BY DEF ResetStores, Spaces
    <3>3. Algorithm = "SeamlessVector" => <<"init", "take_any">> \in ResetStores
      BY DEF ResetStores, Spaces
    <3> QED
      BY <1>1, <3>1, <3>2, <3>3 DEF IInv, InitSpaceOK, ArmedOK, Armed, Spaces
  <2>2. CASE ticks_read # 1
    BY <1>2, <2>2 DEF ArmedOK, Armed
  <2> QED  BY <2>1, <2>2
<1> QED
  BY <1>3, <1>4, <1>5, <1>6 DEF IInv

\* A store of the reset.
LEMMA StoreInv ==
    ASSUME IInv, NEW st \in stores, SeqRecoveryResetStore(st)
    PROVE  IInv'
<1>1. PICK s \in Spaces, f \in {"take_any", "recv_seq", "history"} : st = <<s, f>>
  BY SeqRecoveryAssumption DEF IInv, TypeOK, ResetStores, Spaces
<1>2. UNCHANGED <<remaining_ticks, mutex, pc, packet, delta, ticks_read, silence>>
  BY DEF SeqRecoveryResetStore, packetVars
<1>3. rec \in [Spaces -> Windows]
  BY DEF IInv, TypeOK
<1>4. rec' = [rec EXCEPT ![s] = [rec[s] EXCEPT ![f] = ResetValue(f)]]
  BY <1>1, <1>3 DEF SeqRecoveryResetStore
<1>5. /\ rec' \in [Spaces -> Windows]
      /\ \A r \in Spaces : /\ rec[r].take_any => rec'[r].take_any
                           /\ \/ rec'[r].recv_seq = rec[r].recv_seq
                              \/ rec'[r].recv_seq = SEQ_SPACE - 1
      /\ f = "take_any" => rec'[s].take_any
  <2>1. NoHistory \in Histories /\ SEQ_SPACE - 1 \in Seq16
    BY SeqSpaceAssumption, HistoryLengthAssumption
    DEF NoHistory, Histories, Bits, Seq16
  <2>2. CASE f = "take_any"
    BY <1>3, <1>4, <2>2 DEF ResetValue, Windows
  <2>3. CASE f = "recv_seq"
    BY <1>3, <1>4, <2>1, <2>3 DEF ResetValue, Windows
  <2>4. CASE f = "history"
    BY <1>3, <1>4, <2>1, <2>4 DEF ResetValue, Windows
  <2> QED  BY <2>2, <2>3, <2>4
<1>6. stores' = stores \ {st} /\ (tpc' = "reset" \/ stores' = {}) /\ tpc' # "dec"
  BY DEF SeqRecoveryResetStore
<1>7. TypeOK'
  BY <1>2, <1>5, <1>6 DEF IInv, TypeOK, SeqRecoveryResetStore
<1>8. MutexOK' /\ DecrementOK'
  BY <1>2, <1>6 DEF IInv, MutexOK, DecrementOK
<1>9. InitSpaceOK'
  BY <1>5 DEF IInv, InitSpaceOK, Spaces
<1>10. ArmedOK'
  <2> SUFFICES ASSUME NEW r \in Spaces, ~ rec'[r].take_any, ~ (remaining_ticks > 0),
                      \A t \in Threads : pc[t] # "ticks"
               PROVE  tpc' = "reset" /\ <<r, "take_any">> \in stores'
    BY <1>2 DEF ArmedOK, Armed
  <2>1. <<r, "take_any">> \in stores
    BY <1>5 DEF IInv, ArmedOK, Armed
  <2>2. <<r, "take_any">> # st
    BY <1>1, <1>5
  <2> QED  BY <1>6, <2>1, <2>2
<1>11. DeltaFresh'
  <2>1. \A q \in SeqMetadata : SpaceOf(q) \in Spaces
    BY DEF SpaceOf, Spaces
  <2> QED  BY <1>2, <1>5, <2>1 DEF IInv, TypeOK, DeltaFresh, SpaceOf, InitFlagged
<1> QED
  BY <1>7, <1>8, <1>9, <1>10, <1>11 DEF IInv

-----------------------------------------------------------------------------
\* Every step of a packet thread or of the reset thread preserves the
\* invariant.
THEOREM StepInv == IInv /\ [Next]_vars => IInv'
<1> SUFFICES ASSUME IInv, [Next]_vars PROVE IInv'
  OBVIOUS
<1>1. ASSUME NEW t \in Threads, PacketThread(t) PROVE IInv'
  BY <1>1, LockInv, DecideInv, PassInv DEF PacketThread
<1>2. CASE ResetThread
  BY <1>2, TickInv, WriteInv, StoreInv DEF ResetThread
<1>3. CASE UNCHANGED vars
  BY <1>3 DEF vars, packetVars, timerVars, IInv, TypeOK, MutexOK, DecrementOK,
     InitSpaceOK, ArmedOK, Armed, DeltaFresh, SpaceOf, InitFlagged
<1> QED
  BY <1>1, <1>2, <1>3 DEF Next

\* The invariant of the sequence recovery object and its threads.
THEOREM Invariance == Spec => []IInv
<1>1. Init => IInv
  BY InitInv
<1>2. IInv /\ [Next]_vars => IInv'
  BY StepInv
<1> QED
  BY <1>1, <1>2, PTL DEF Spec

(***************************************************************************)
(* Type correctness of the recovery object and its threads.                *)
(***************************************************************************)
THEOREM RecoveryTypeOK == Spec => []TypeOK
<1>1. IInv => TypeOK
  BY DEF IInv
<1> QED
  BY <1>1, Invariance, PTL

(***************************************************************************)
(* Whatever the interleaving of the unlocked reset thread with the packet  *)
(* threads, a window that may discard packets has a running timer          *)
(* (reset_thread, decrement_ticks, seq_recovery_reset, recover).           *)
(***************************************************************************)
THEOREM RecoveryTimerArmed == Spec => []TimerArmed
<1>1. IInv => TimerArmed
  BY DEF IInv, ArmedOK, Armed, TimerArmed
<1> QED
  BY <1>1, Invariance, PTL

(***************************************************************************)
(* A packet is decided on the distance to the window as it is, unless a    *)
(* reset came in between (seq_recovery, recover).                          *)
(***************************************************************************)
THEOREM RecoveryDeltaFresh == Spec => []DeltaFresh
<1>1. IInv => DeltaFresh
  BY DEF IInv
<1> QED
  BY <1>1, Invariance, PTL

=============================================================================
