----------------------------- MODULE FrerProofs -----------------------------
(***************************************************************************)
(* Replication and elimination are correct for every size of the sequence  *)
(* space, every history length and every number of member streams, as long *)
(* as a lag and a history length fit twice into the sequence space.        *)
(***************************************************************************)
EXTENDS Frer, TLAPS

-----------------------------------------------------------------------------
(* Arithmetic of sequence numbers: what calc_delta() computes for every size of
   the sequence space, and what a shift of the history keeps. *)

\* The & 0xffff of the code: a remainder is a sequence number.
LEMMA ModRange ==
    ASSUME NEW a \in Int
    PROVE  a % SEQ_SPACE \in Seq16
BY SeqSpaceAssumption DEF Seq16

\* The number of laps and the sequence number make up the packet's position.
LEMMA DivMod ==
    ASSUME NEW a \in Int
    PROVE  /\ a \div SEQ_SPACE \in Int
           /\ a = SEQ_SPACE * (a \div SEQ_SPACE) + (a % SEQ_SPACE)
BY SeqSpaceAssumption, SMT

\* The sequence number of a position is the same in every lap.
LEMMA ModUnique ==
    ASSUME NEW q \in Int, NEW r \in Seq16
    PROVE  (SEQ_SPACE * q + r) % SEQ_SPACE = r
BY SeqSpaceAssumption, Z3 DEF Seq16

\* calc_delta() is an integer between minus half and half of the sequence
\* space.
LEMMA DeltaRange ==
    ASSUME NEW a \in Int, NEW b \in Int
    PROVE  /\ CalcDelta(a, b) \in Int
           /\ - SEQ_SPACE <= 2 * CalcDelta(a, b)
           /\ 2 * CalcDelta(a, b) < SEQ_SPACE
<1>1. (a - b) % SEQ_SPACE \in Seq16
  BY ModRange
<1> QED
  BY <1>1, SeqSpaceAssumption DEF CalcDelta, Seq16

\* calc_delta() of the sequence numbers of two positions is the distance of
\* the positions, when they are less than half of the sequence space apart.
LEMMA DeltaExact ==
    ASSUME NEW a \in Int, NEW b \in Int,
           - SEQ_SPACE <= 2 * (a - b), 2 * (a - b) < SEQ_SPACE
    PROVE  CalcDelta(a % SEQ_SPACE, b % SEQ_SPACE) = a - b
<1> DEFINE qa == a \div SEQ_SPACE
           qb == b \div SEQ_SPACE
           d  == (a % SEQ_SPACE) - (b % SEQ_SPACE)
<1>1. qa \in Int /\ a = SEQ_SPACE * qa + (a % SEQ_SPACE)
  BY DivMod
<1>2. qb \in Int /\ b = SEQ_SPACE * qb + (b % SEQ_SPACE)
  BY DivMod
<1>3. a % SEQ_SPACE \in Int /\ b % SEQ_SPACE \in Int
  BY ModRange DEF Seq16
<1>4. d = (a - b) + SEQ_SPACE * (qb - qa)
  <2> DEFINE ra == a % SEQ_SPACE
             rb == b % SEQ_SPACE
  <2>1. a = SEQ_SPACE * qa + ra /\ b = SEQ_SPACE * qb + rb /\ ra \in Int /\ rb \in Int
    BY <1>1, <1>2, <1>3
  <2> HIDE DEF qa, qb, ra, rb
  <2>2. SEQ_SPACE * (qb - qa) = SEQ_SPACE * qb - SEQ_SPACE * qa
    BY <1>1, <1>2, SeqSpaceAssumption
  <2>3. ra - rb = (a - b) + SEQ_SPACE * (qb - qa)
    BY <1>1, <1>2, <2>1, <2>2, SeqSpaceAssumption
  <2> QED  BY <2>3 DEF ra, rb
<1>5. CASE a - b >= 0
  <2>1. a - b \in Seq16
    BY <1>5, SeqSpaceAssumption DEF Seq16
  <2>2. d % SEQ_SPACE = a - b
    <3> HIDE DEF qa, qb, d
    <3>1. (SEQ_SPACE * (qb - qa) + (a - b)) % SEQ_SPACE = a - b
      BY <1>1, <1>2, <2>1, ModUnique
    <3>2. SEQ_SPACE * (qb - qa) + (a - b) = d
      BY <1>1, <1>2, <1>4, SeqSpaceAssumption
    <3> QED  BY <3>1, <3>2
  <2> QED  BY <2>2, SeqSpaceAssumption DEF CalcDelta
<1>6. CASE a - b < 0
  <2>1. a - b + SEQ_SPACE \in Seq16
    BY <1>6, SeqSpaceAssumption DEF Seq16
  <2>2. d % SEQ_SPACE = a - b + SEQ_SPACE
    <3> HIDE DEF qa, qb, d
    <3>1. (SEQ_SPACE * (qb - qa - 1) + (a - b + SEQ_SPACE)) % SEQ_SPACE
             = a - b + SEQ_SPACE
      BY <1>1, <1>2, <2>1, ModUnique
    <3>2. SEQ_SPACE * (qb - qa - 1) + (a - b + SEQ_SPACE) = d
      BY <1>1, <1>2, <1>4, SeqSpaceAssumption
    <3> QED  BY <3>1, <3>2
  <2> QED  BY <2>2, SeqSpaceAssumption DEF CalcDelta
<1> QED
  BY <1>5, <1>6

\* Going back by calc_delta() from a packet leads to a position with the
\* sequence number that the distance was measured from.
LEMMA DeltaAnchor ==
    ASSUME NEW a \in Int, NEW r \in Seq16
    PROVE  (a - CalcDelta(a % SEQ_SPACE, r)) % SEQ_SPACE = r
<1> DEFINE qa == a \div SEQ_SPACE
           d  == (a % SEQ_SPACE) - r
           qd == d \div SEQ_SPACE
<1>1. qa \in Int /\ a = SEQ_SPACE * qa + (a % SEQ_SPACE)
  BY DivMod
<1>2. r \in Int /\ a % SEQ_SPACE \in Int
  BY ModRange DEF Seq16
<1>3. d \in Int
  BY <1>2
<1>4. qd \in Int /\ d = SEQ_SPACE * qd + (d % SEQ_SPACE)
  BY <1>3, DivMod
<1>5. d % SEQ_SPACE \in Int
  BY <1>3, ModRange DEF Seq16
<1>6. PICK k \in {0, 1} : CalcDelta(a % SEQ_SPACE, r) = (d % SEQ_SPACE) - SEQ_SPACE * k
  BY <1>5, SeqSpaceAssumption DEF CalcDelta
<1>7. a - CalcDelta(a % SEQ_SPACE, r) = SEQ_SPACE * (qa + qd + k) + r
  <2>1. d = (a % SEQ_SPACE) - r
    OBVIOUS
  <2> HIDE DEF qa, d, qd
  <2> QED  BY <1>1, <1>2, <1>3, <1>4, <1>5, <1>6, <2>1, SeqSpaceAssumption
<1>8. qa + qd + k \in Int
  BY <1>1, <1>4
<1> QED
  <2> HIDE DEF qa, d, qd
  <2>1. (SEQ_SPACE * (qa + qd + k) + r) % SEQ_SPACE = r
    BY <1>8, ModUnique
  <2> QED  BY <1>7, <2>1

\* The generator's increment, which wraps at the end of the sequence space
\* (sequence_generation), counts positions modulo the sequence space.
LEMMA NextSeq ==
    ASSUME NEW n \in Nat
    PROVE  (n + 1) % SEQ_SPACE
              = IF n % SEQ_SPACE >= SEQ_SPACE - 1 THEN 0 ELSE (n % SEQ_SPACE) + 1
<1> DEFINE q == n \div SEQ_SPACE
           r == n % SEQ_SPACE
<1>1. q \in Int /\ n = SEQ_SPACE * q + r
  BY DivMod
<1>2. r \in Seq16
  BY ModRange
<1>3. CASE r >= SEQ_SPACE - 1
  <2> HIDE DEF q, r
  <2>1. SEQ_SPACE * (q + 1) + 0 = n + 1
    BY <1>1, <1>2, <1>3, SeqSpaceAssumption DEF Seq16
  <2>2. (SEQ_SPACE * (q + 1) + 0) % SEQ_SPACE = 0
    BY <1>1, ModUnique, SeqSpaceAssumption DEF Seq16
  <2> QED  BY <1>3, <2>1, <2>2 DEF r
<1>4. CASE r < SEQ_SPACE - 1
  <2> HIDE DEF q, r
  <2>1. SEQ_SPACE * q + (r + 1) = n + 1
    BY <1>1, <1>2, SeqSpaceAssumption DEF Seq16
  <2>2. r + 1 \in Seq16
    BY <1>2, <1>4, SeqSpaceAssumption DEF Seq16
  <2>3. (SEQ_SPACE * q + (r + 1)) % SEQ_SPACE = r + 1
    BY <1>1, <2>2, ModUnique
  <2> QED  BY <1>2, <1>4, <2>1, <2>3, SeqSpaceAssumption DEF r, Seq16
<1> QED
  BY <1>2, <1>3, <1>4, SeqSpaceAssumption DEF Seq16

-----------------------------------------------------------------------------
(* The window after recover(). *)

\* shift_seq_history() of a history is a history.
LEMMA ShiftType ==
    ASSUME NEW h \in Histories, NEW d \in Nat \ {0}
    PROVE  ShiftSeqHistory(h, d) \in Histories
BY HistoryLengthAssumption DEF ShiftSeqHistory, Histories, Bits

\* recover() leaves a well-formed window, for any distance.
LEMMA WindowType ==
    ASSUME NEW w \in Windows, NEW s \in Seq16, NEW d \in Int
    PROVE  RecoverWindow(w, s, d) \in Windows
<1>1. ASSUME RecoverPasses(w, d)
      PROVE  RecoverHistory(w, d) \in Histories
  <2>1. w.history \in Histories
    BY DEF Windows
  <2>2. CASE w.take_any \/ d <= 0
    BY <1>1, <2>1, <2>2, HistoryLengthAssumption
    DEF RecoverHistory, RecoverPasses, Histories, Bits
  <2>3. CASE ~ w.take_any /\ d > 0
    BY <2>1, <2>3, ShiftType DEF RecoverHistory
  <2> QED  BY <2>2, <2>3
<1> QED
  BY <1>1 DEF RecoverWindow, Windows

-----------------------------------------------------------------------------
(* The inductive invariant. *)

\* The generator numbers packets modulo the sequence space, and copies in the
\* network carry the number of their packet and lag by MaxLag at most.
NumbersOK ==
    /\ gen_seq_num = sent % SEQ_SPACE
    /\ \A c \in net : /\ c.seq = c.idx % SEQ_SPACE
                      /\ c.idx < sent
                      /\ c.idx >= sent - MaxLag

PassedOK == \A i \in passed : i < sent

\* recv_seq is the number of top, which may be ahead of the newest packet by
\* less than the history, when a packet of a later lap was taken for a late
\* one.  A window that takes any packet has an empty history.
AnchorOK ==
    /\ ~ win.take_any => win.recv_seq = top % SEQ_SPACE /\ top < sent + HistoryLength
    /\ win.take_any => win.history = NoHistory

\* The copy of a passed packet is not ahead of top, and it is marked in the
\* history if it is within it.
BehindTop(c) ==
    /\ ~ win.take_any
    /\ 0 <= top - c.idx
    /\ top - c.idx < HistoryLength => win.history[top - c.idx] = 1

DuplicatesOK == \A c \in net : c.idx \in passed => BehindTop(c)

\* A mark in the history is the mark of a packet that passed.
MarksOK ==
    ~ aliased /\ ~ win.take_any =>
        \A k \in 0 .. HistoryLength - 1 : win.history[k] = 1 => (top - k) \in passed

IInv ==
    /\ TypeOK
    /\ NumbersOK
    /\ PassedOK
    /\ AnchorOK
    /\ DuplicatesOK
    /\ MarksOK

-----------------------------------------------------------------------------
(* While the copy of a passed packet is in the network, every copy in it is *)
(* so near to top that calc_delta() measures its true distance.             *)
LEMMA NearTop ==
    ASSUME IInv, NEW c \in net, NEW e \in net, e.idx \in passed
    PROVE  CalcDelta(c.seq, win.recv_seq) = c.idx - top
<1>1. c.idx \in Nat /\ e.idx \in Nat /\ top \in Int /\ sent \in Nat
  BY DEF IInv, TypeOK, Copies
<1>2. c.seq = c.idx % SEQ_SPACE /\ c.idx < sent /\ c.idx >= sent - MaxLag
  BY DEF IInv, NumbersOK
<1>3. e.idx >= sent - MaxLag
  BY DEF IInv, NumbersOK
<1>4. ~ win.take_any /\ 0 <= top - e.idx
  BY DEF IInv, DuplicatesOK, BehindTop
<1>5. win.recv_seq = top % SEQ_SPACE /\ top < sent + HistoryLength
  BY <1>4 DEF IInv, AnchorOK
<1>6. - SEQ_SPACE <= 2 * (c.idx - top) /\ 2 * (c.idx - top) < SEQ_SPACE
  <2>1. c.idx - top < MaxLag
    BY <1>1, <1>2, <1>3, <1>4, FrerAssumption
  <2>2. top - c.idx < MaxLag + HistoryLength
    BY <1>1, <1>2, <1>5, FrerAssumption, HistoryLengthAssumption
  <2> QED
    BY <1>1, <2>1, <2>2, FrerAssumption, HistoryLengthAssumption, SeqSpaceAssumption
<1> QED
  BY <1>1, <1>2, <1>5, <1>6, DeltaExact

\* The invariant is strong enough for the elimination of duplicates (recover).
THEOREM InvNoDuplicate == IInv => NoDuplicate
<1> SUFFICES ASSUME IInv, NEW c \in net, c.idx \in passed
             PROVE  ~ WouldPass(c)
  BY DEF NoDuplicate
<1>1. CalcDelta(c.seq, win.recv_seq) = c.idx - top
  BY NearTop
<1>2. BehindTop(c)
  BY DEF IInv, DuplicatesOK
<1>3. c.idx \in Nat /\ top \in Int
  BY DEF IInv, TypeOK, Copies
<1> QED
  BY <1>1, <1>2, <1>3, HistoryLengthAssumption
  DEF WouldPass, RecoverPasses, Rogue, BehindTop

\* The invariant is strong enough for packets within the window to pass
\* (recover).
THEOREM InvNoFalseDiscard == IInv => NoFalseDiscard
<1> SUFFICES ASSUME IInv, NEW c \in net, c.idx \notin passed, ~ aliased,
                    ~ Rogue(c.idx - top), ~ win.take_any
             PROVE  WouldPass(c)
  BY DEF NoFalseDiscard, WouldPass, RecoverPasses
<1> DEFINE d == c.idx - top
<1>1. c.idx \in Nat /\ top \in Int /\ win \in Windows
  BY DEF IInv, TypeOK, Copies
<1>2. c.seq = c.idx % SEQ_SPACE /\ win.recv_seq = top % SEQ_SPACE
  BY DEF IInv, NumbersOK, AnchorOK
<1>3. - SEQ_SPACE <= 2 * d /\ 2 * d < SEQ_SPACE
  BY <1>1, HistoryLengthAssumption, SeqSpaceAssumption DEF Rogue
<1>4. CalcDelta(c.seq, win.recv_seq) = d
  BY <1>1, <1>2, <1>3, DeltaExact
<1>5. ASSUME d <= 0
      PROVE  win.history[- d] = 0
  <2>1. - d \in 0 .. HistoryLength - 1 /\ top - (- d) = c.idx
    BY <1>1, <1>5, HistoryLengthAssumption DEF Rogue
  <2>2. win.history[- d] # 1
    BY <2>1 DEF IInv, MarksOK
  <2>3. win.history[- d] \in {0, 1}
    BY <1>1, <2>1 DEF Windows, Histories, Bits
  <2> QED  BY <2>2, <2>3
<1> QED
  BY <1>4, <1>5 DEF WouldPass, RecoverPasses

-----------------------------------------------------------------------------
(* The steps of the induction. *)

\* A new generator and a new recovery satisfy the invariant.
LEMMA InitInv == Init => IInv
<1> SUFFICES ASSUME Init PROVE IInv
  OBVIOUS
<1>1. NewWindow \in Windows
  BY SeqSpaceAssumption, HistoryLengthAssumption
  DEF NewWindow, NoHistory, Windows, Histories, Bits, Seq16
<1>2. 0 % SEQ_SPACE = 0 /\ 0 \in Seq16
  BY SeqSpaceAssumption DEF Seq16
<1>3. TypeOK
  <2>1. aliased \in BOOLEAN
    BY Zenon DEF Init
  <2>2. win \in Windows /\ gen_seq_num \in Seq16
    BY <1>1, <1>2 DEF Init
  <2>3. sent \in Nat /\ top \in Int
    BY DEF Init
  <2>4. mask \in SUBSET Paths /\ net \in SUBSET Copies /\ passed \in SUBSET Nat
    BY DEF Init
  <2> QED  BY <2>1, <2>2, <2>3, <2>4 DEF TypeOK
<1>4. NumbersOK /\ PassedOK /\ DuplicatesOK
  BY <1>2 DEF Init, NumbersOK, PassedOK, DuplicatesOK
<1>5. AnchorOK /\ MarksOK
  BY DEF Init, NewWindow, AnchorOK, MarksOK
<1> QED
  BY <1>3, <1>4, <1>5 DEF IInv

\* Numbering and replicating a packet preserves the invariant.
LEMMA GenerateInv == IInv /\ Generate => IInv'
<1> SUFFICES ASSUME IInv, Generate PROVE IInv'
  OBVIOUS
<1> USE FrerAssumption
<1>1. sent \in Nat /\ sent' = sent + 1 /\ gen_seq_num = sent % SEQ_SPACE
  BY DEF IInv, TypeOK, NumbersOK, Generate
<1>2. gen_seq_num' = sent' % SEQ_SPACE /\ gen_seq_num' \in Seq16
  <2>1. gen_seq_num' = (sent + 1) % SEQ_SPACE
    BY <1>1, NextSeq DEF Generate
  <2> QED  BY <1>1, <2>1, ModRange
<1>3. \A c \in net' : c \in net \/ (c \in Copies /\ c.idx = sent /\ c.seq = gen_seq_num)
  BY <1>1 DEF IInv, TypeOK, Generate, ReplCopies, Copies
<1>4. TypeOK'
  BY <1>1, <1>2, <1>3 DEF IInv, TypeOK, Generate
<1>5. NumbersOK'
  BY <1>1, <1>2, <1>3 DEF IInv, TypeOK, Copies, NumbersOK, Generate
<1>6. PassedOK'
  BY <1>1 DEF IInv, TypeOK, PassedOK, Generate
<1>7. AnchorOK'
  BY <1>1, HistoryLengthAssumption DEF IInv, TypeOK, AnchorOK, Generate
<1>8. DuplicatesOK'
  <2> SUFFICES ASSUME NEW c \in net', c.idx \in passed PROVE BehindTop(c)'
    BY DEF DuplicatesOK, Generate
  <2>1. c \in net
    BY <1>1, <1>3 DEF IInv, PassedOK
  <2>2. BehindTop(c)
    BY <2>1 DEF IInv, DuplicatesOK
  <2> QED  BY <2>2 DEF BehindTop, Generate
<1>9. MarksOK'
  BY DEF IInv, MarksOK, Generate
<1> QED
  BY <1>4, <1>5, <1>6, <1>7, <1>8, <1>9 DEF IInv

\* A copy that leaves the network without a trace, and a change of masks.
LEMMA NetShrinksInv ==
    ASSUME IInv, net' \subseteq net, mask' \in SUBSET Paths,
           UNCHANGED <<gen_seq_num, sent, win, passed, top, aliased>>
    PROVE  IInv'
<1>1. TypeOK' /\ NumbersOK' /\ PassedOK' /\ AnchorOK' /\ MarksOK'
  BY DEF IInv, TypeOK, NumbersOK, PassedOK, AnchorOK, MarksOK
<1>2. DuplicatesOK'
  BY DEF IInv, DuplicatesOK, BehindTop
<1> QED
  BY <1>1, <1>2 DEF IInv

\* The timeout of the recovery preserves the invariant.
LEMMA ResetInv == IInv /\ SeqRecoveryReset => IInv'
<1> SUFFICES ASSUME IInv, SeqRecoveryReset PROVE IInv'
  OBVIOUS
<1>1. win' \in Windows /\ win'.take_any /\ win'.history = NoHistory
  BY SeqSpaceAssumption, HistoryLengthAssumption
  DEF SeqRecoveryReset, Windows, NoHistory, Histories, Bits, Seq16
<1>2. TypeOK' /\ NumbersOK' /\ PassedOK' /\ AnchorOK' /\ MarksOK'
  BY <1>1 DEF IInv, TypeOK, NumbersOK, PassedOK, AnchorOK, MarksOK, SeqRecoveryReset
<1>3. DuplicatesOK'
  BY DEF SeqRecoveryReset, DuplicatesOK
<1> QED
  BY <1>2, <1>3 DEF IInv

\* A copy that passes elimination.
LEMMA ElimPassInv ==
    ASSUME IInv, NEW c \in net, ElimPass(c)
    PROVE  IInv'
<1> DEFINE d == CalcDelta(c.seq, win.recv_seq)
           h == win.history
           Hist == 0 .. HistoryLength - 1
<1> USE HistoryLengthAssumption
<1>1. /\ c.idx \in Nat /\ c.idx < sent /\ c.seq = c.idx % SEQ_SPACE /\ c.seq \in Seq16
      /\ top \in Int /\ sent \in Nat /\ win \in Windows /\ passed \in SUBSET Nat
      /\ c.idx >= sent - MaxLag
  BY DEF IInv, TypeOK, Copies, NumbersOK
<1>2. win.recv_seq \in Seq16 /\ h \in Histories /\ win.take_any \in BOOLEAN
  BY <1>1 DEF Windows
<1>3. d \in Int
  <2>1. c.seq \in Int /\ win.recv_seq \in Int
    BY <1>1, <1>2 DEF Seq16
  <2> QED  BY <2>1, DeltaRange
<1>4. RecoverPasses(win, d) /\ win' = RecoverWindow(win, c.seq, d)
  BY DEF ElimPass
<1>5. passed' = passed \cup {c.idx} /\ net' = net \ {c} /\ sent' = sent
  BY DEF ElimPass
<1>6. /\ ~ win'.take_any
      /\ win'.history = RecoverHistory(win, d)
      /\ win'.recv_seq = IF win.take_any \/ d > 0 THEN c.seq ELSE win.recv_seq
  BY <1>4 DEF RecoverWindow
<1>7. top' = IF win.take_any \/ d > 0 THEN c.idx ELSE c.idx - d
  BY DEF ElimPass
<1>8. ~ win.take_any => d <= HistoryLength /\ d > - HistoryLength
  BY <1>3, <1>4 DEF RecoverPasses, Rogue
<1>9. TypeOK'
  <2>1. win' \in Windows
    BY <1>1, <1>3, <1>4, WindowType
  <2>2. top' \in Int
    BY <1>1, <1>3, <1>7
  <2>3. aliased' \in BOOLEAN
    BY DEF ElimPass
  <2> QED  BY <1>1, <1>5, <2>1, <2>2, <2>3 DEF IInv, TypeOK, ElimPass
<1>10. NumbersOK'
  BY <1>5 DEF IInv, NumbersOK, ElimPass
<1>11. PassedOK'
  BY <1>1, <1>5 DEF IInv, PassedOK
<1>12. AnchorOK'
  <2>1. win'.recv_seq = top' % SEQ_SPACE
    <3>1. CASE win.take_any \/ d > 0
      BY <1>1, <1>6, <1>7, <3>1
    <3>2. CASE ~ (win.take_any \/ d > 0)
      BY <1>1, <1>2, <1>6, <1>7, <3>2, DeltaAnchor
    <3> QED  BY <3>1, <3>2
  <2>2. top' < sent' + HistoryLength
    BY <1>1, <1>3, <1>5, <1>7, <1>8
  <2> QED  BY <1>6, <2>1, <2>2 DEF AnchorOK
\* The mark of the packet itself.
<1>13. /\ 0 <= top' - c.idx
       /\ top' - c.idx < HistoryLength
       /\ win'.history[top' - c.idx] = 1
  <2> HIDE DEF d
  <2>1. CASE win.take_any
    BY <1>1, <1>2, <1>6, <1>7, <2>1 DEF RecoverHistory, Histories
  <2>2. CASE ~ win.take_any /\ d <= 0
    BY <1>1, <1>2, <1>3, <1>6, <1>7, <1>8, <2>2 DEF RecoverHistory, Histories
  <2>3. CASE ~ win.take_any /\ d > 0
    BY <1>1, <1>2, <1>3, <1>6, <1>7, <2>3 DEF RecoverHistory, ShiftSeqHistory
  <2> QED  BY <1>3, <2>1, <2>2, <2>3
\* The marks of the others, when the window moves by the true distance.
<1>14. ASSUME ~ win.take_any, d = c.idx - top, NEW i \in Int,
              top - i \in Hist, h[top - i] = 1, top' - i < HistoryLength
       PROVE  win'.history[top' - i] = 1
  <2> HIDE DEF d
  <2>1. CASE d <= 0
    <3>1. top' = top
      BY <1>1, <1>7, <1>14, <2>1
    <3>2. win'.history = [h EXCEPT ![- d] = 1]
      BY <1>6, <1>14, <2>1 DEF RecoverHistory
    <3> QED  BY <1>2, <1>14, <3>1, <3>2 DEF Histories
  <2>2. CASE d > 0
    <3>1. top' - i >= d /\ (top' - i) - d = top - i /\ top' - i \in Hist
      BY <1>1, <1>3, <1>7, <1>14, <2>2
    <3>2. win'.history = ShiftSeqHistory(h, d)
      BY <1>3, <1>6, <1>14, <2>2 DEF RecoverHistory
    <3> QED  BY <1>14, <3>1, <3>2 DEF ShiftSeqHistory
  <2> QED  BY <1>3, <2>1, <2>2
<1>15. DuplicatesOK'
  <2> SUFFICES ASSUME NEW e \in net, e.idx \in passed \cup {c.idx}
               PROVE  BehindTop(e)'
    BY <1>5 DEF DuplicatesOK
  <2>1. CASE e.idx = c.idx
    BY <1>6, <1>13, <2>1 DEF BehindTop
  <2>2. CASE e.idx \in passed
    <3>1. d = c.idx - top
      BY <2>2, NearTop
    <3>2. BehindTop(e) /\ e.idx \in Nat
      BY <2>2 DEF IInv, DuplicatesOK, TypeOK, Copies
    <3>3. top' >= top
      BY <1>1, <1>7, <3>1, <3>2 DEF BehindTop
    <3>4. ASSUME top' - e.idx < HistoryLength
          PROVE  win'.history[top' - e.idx] = 1
      <4>1. top - e.idx \in Hist /\ top' \in Int
        BY <1>1, <1>9, <3>2, <3>3, <3>4 DEF BehindTop, TypeOK
      <4>2. h[top - e.idx] = 1
        BY <3>2, <4>1 DEF BehindTop
      <4>3. ~ win.take_any /\ e.idx \in Int
        BY <3>2 DEF BehindTop
      <4> HIDE DEF d, h, Hist
      <4> QED  BY <1>14, <3>1, <3>4, <4>1, <4>2, <4>3
    <3>5. 0 <= top' - e.idx
      BY <1>1, <1>9, <3>2, <3>3 DEF BehindTop, TypeOK
    <3> QED  BY <1>6, <3>4, <3>5 DEF BehindTop
  <2> QED  BY <2>1, <2>2
<1>16. MarksOK'
  <2> SUFFICES ASSUME ~ aliased', NEW k \in Hist, win'.history[k] = 1
               PROVE  (top' - k) \in passed'
    BY DEF MarksOK
  <2>1. CASE win.take_any
    <3>1. h = NoHistory /\ top' = c.idx
      BY <1>7, <2>1 DEF IInv, AnchorOK
    <3>2. k = 0
      BY <1>6, <2>1, <3>1 DEF RecoverHistory, NoHistory
    <3> QED  BY <1>1, <1>5, <3>1, <3>2
  <2>2. CASE ~ win.take_any
    <3>1. d = c.idx - top /\ ~ aliased
      BY <2>2 DEF ElimPass
    <3>2. \A j \in Hist : h[j] = 1 => (top - j) \in passed
      BY <2>2, <3>1 DEF IInv, MarksOK
    <3> HIDE DEF d
    <3>3. CASE d <= 0
      <4>1. top' = top
        BY <1>1, <1>7, <2>2, <3>1, <3>3
      <4>2. k = - d \/ h[k] = 1
        BY <1>2, <1>3, <1>6, <2>2, <3>3 DEF RecoverHistory, Histories
      <4> QED  BY <1>1, <1>5, <3>1, <3>2, <4>1, <4>2
    <3>4. CASE d > 0
      <4>1. k = 0 \/ (k - d \in Hist /\ h[k - d] = 1)
        BY <1>2, <1>3, <1>6, <2>2, <3>4 DEF RecoverHistory, ShiftSeqHistory
      <4>2. top' = c.idx
        BY <1>7, <3>4
      <4>3. top - (k - d) = top' - k
        BY <1>1, <1>3, <3>1, <4>2
      <4> QED  BY <1>1, <1>5, <3>2, <4>1, <4>2, <4>3
    <3> QED  BY <1>3, <3>3, <3>4
  <2> QED  BY <2>1, <2>2
<1> QED
  BY <1>9, <1>10, <1>11, <1>12, <1>15, <1>16 DEF IInv

\* Every step preserves the invariant.
THEOREM StepInv == IInv /\ [Next]_vars => IInv'
<1> SUFFICES ASSUME IInv, [Next]_vars PROVE IInv'
  OBVIOUS
<1>0. mask \in SUBSET Paths
  BY DEF IInv, TypeOK
<1>1. CASE Generate
  BY <1>1, GenerateInv
<1>2. CASE \E m \in SUBSET Paths : SetMask(m)
  <2>1. net' \subseteq net /\ mask' \in SUBSET Paths
    BY <1>2 DEF SetMask
  <2>2. UNCHANGED <<gen_seq_num, sent, win, passed, top, aliased>>
    BY <1>2 DEF SetMask
  <2> QED  BY <2>1, <2>2, NetShrinksInv
<1>3. ASSUME NEW c \in net, Lose(c) PROVE IInv'
  <2>1. net' \subseteq net /\ mask' \in SUBSET Paths
    BY <1>0, <1>3 DEF Lose
  <2>2. UNCHANGED <<gen_seq_num, sent, win, passed, top, aliased>>
    BY <1>3 DEF Lose
  <2> QED  BY <2>1, <2>2, NetShrinksInv
<1>4. ASSUME NEW c \in net, ElimPass(c) PROVE IInv'
  BY <1>4, ElimPassInv
<1>5. ASSUME NEW c \in net, ElimDiscard(c) PROVE IInv'
  <2>1. net' \subseteq net /\ mask' \in SUBSET Paths
    BY <1>0, <1>5 DEF ElimDiscard
  <2>2. UNCHANGED <<gen_seq_num, sent, win, passed, top, aliased>>
    BY <1>5 DEF ElimDiscard, RecoverWindow
  <2> QED  BY <2>1, <2>2, NetShrinksInv
<1>6. CASE SeqRecoveryReset
  BY <1>6, ResetInv
<1>7. CASE UNCHANGED vars
  <2>1. net' \subseteq net /\ mask' \in SUBSET Paths
    BY <1>0, <1>7 DEF vars
  <2>2. UNCHANGED <<gen_seq_num, sent, win, passed, top, aliased>>
    BY <1>7 DEF vars
  <2> QED  BY <2>1, <2>2, NetShrinksInv
<1> QED
  BY <1>1, <1>2, <1>3, <1>4, <1>5, <1>6, <1>7 DEF Next

\* The invariant of generator, network and recovery holds for ever.
THEOREM Invariance == Spec => []IInv
<1>1. Init => IInv
  BY InitInv
<1>2. IInv /\ [Next]_vars => IInv'
  BY StepInv
<1> QED
  BY <1>1, <1>2, PTL DEF Spec

(***************************************************************************)
(* Elimination: no copy of a packet passes sequence recovery after the     *)
(* packet has passed, for every sequence space, history and number of      *)
(* paths (recover).                                                        *)
(***************************************************************************)
THEOREM FrerNoDuplicate == Spec => []NoDuplicate
<1>1. IInv => NoDuplicate
  BY InvNoDuplicate
<1> QED
  BY <1>1, Invariance, PTL

(***************************************************************************)
(* Elimination discards only duplicates: the first copy of a packet within *)
(* the window passes (recover, shift_seq_history).                         *)
(***************************************************************************)
THEOREM FrerNoFalseDiscard == Spec => []NoFalseDiscard
<1>1. IInv => NoFalseDiscard
  BY InvNoFalseDiscard
<1> QED
  BY <1>1, Invariance, PTL

=============================================================================
