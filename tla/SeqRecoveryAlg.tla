--------------------------- MODULE SeqRecoveryAlg ---------------------------
(***************************************************************************)
(* The sequence recovery algorithms of seq_recov.c as pure operators on a  *)
(* recovery window.                                                        *)
(*                                                                         *)
(* A window is one (recv_seq, take_any, history) triple of                 *)
(* struct SequenceRecovery; a SeamlessVector object has two of them, the   *)
(* regular one and the one of the init sequence space.  A packet is what   *)
(* the algorithms read of its 32 bit metadata: the 16 bit sequence number  *)
(* and the RESET and INIT flags.  The lost and out-of-order statistics the *)
(* code keeps beside the window do not influence its decisions and are not *)
(* part of it.                                                             *)
(***************************************************************************)
EXTENDS SeqSpace

CONSTANT HistoryLength    \* frerSeqRcvyHistoryLength

\* conf_object.c accepts any integer as history length; with less than one
\* the code indexes outside of the history, so the model starts at one.  The
\* window and its mirror image must fit in the sequence space.
ASSUME HistoryLengthAssumption ==
    /\ HistoryLength \in Nat
    /\ HistoryLength >= 1
    /\ 2 * HistoryLength < SEQ_SPACE

Bits == {0, 1}

Histories == [0 .. HistoryLength - 1 -> Bits]

Windows == [recv_seq : Seq16, take_any : BOOLEAN, history : Histories]

NoHistory == [k \in 0 .. HistoryLength - 1 |-> 0]

\* The object as new_seq_rec leaves it: zeroed, and taking any packet.
NewWindow == [recv_seq |-> 0, take_any |-> TRUE, history |-> NoHistory]

-----------------------------------------------------------------------------
\* A mutant: the distance is not folded to a signed one.
CalcDeltaUnsigned(seq1, seq2) == (seq1 - seq2) % SEQ_SPACE

(***************************************************************************)
(* The signed distance of two sequence numbers on the circle of sequence   *)
(* numbers, between -SEQ_SPACE/2 and SEQ_SPACE/2 - 1.                      *)
(***************************************************************************)
CalcDelta(seq1, seq2) ==
    LET d == (seq1 - seq2) % SEQ_SPACE
    IN  IF 2 * d >= SEQ_SPACE THEN d - SEQ_SPACE ELSE d

\* A mutant: the number of the packet that moves the window is not shifted in,
\* only the skipped ones.
ShiftSeqHistoryShort(history, delta) ==
    [k \in 0 .. HistoryLength - 1 |->
        IF k >= delta - 1 THEN history[k - (delta - 1)] ELSE 0]

\* delta shifts: delta - 1 zeros for the skipped numbers, then a one for the
\* packet that moves the window.
ShiftSeqHistory(history, delta) ==
    [k \in 0 .. HistoryLength - 1 |->
        IF k >= delta THEN history[k - delta] ELSE IF k = 0 THEN 1 ELSE 0]

Rogue(delta) == delta > HistoryLength \/ delta <= - HistoryLength

\* The decision of recover(): does a packet at distance delta pass?
RecoverPasses(w, delta) ==
    \/ w.take_any
    \/ /\ ~ Rogue(delta)
       /\ delta <= 0 => w.history[- delta] = 0

RecoverHistory(w, delta) ==
    IF w.take_any THEN [w.history EXCEPT ![0] = 1]
    ELSE IF delta <= 0 THEN [w.history EXCEPT ![- delta] = 1]
    ELSE ShiftSeqHistory(w.history, delta)

\* The window after recover().  delta was computed from w.recv_seq, but is a
\* parameter: the code reads recv_seq before it reads take_any and history.
RecoverWindow(w, seq, delta) ==
    IF ~ RecoverPasses(w, delta) THEN w
    ELSE [recv_seq |-> IF w.take_any \/ delta > 0 THEN seq ELSE w.recv_seq,
          take_any |-> FALSE,
          history  |-> RecoverHistory(w, delta)]

-----------------------------------------------------------------------------
(***************************************************************************)
(* match_seq_recovery(): only a repetition of the last number is dropped.  *)
(***************************************************************************)
MatchPasses(w, seq) == w.take_any \/ seq # w.recv_seq

MatchWindow(w, seq) ==
    IF MatchPasses(w, seq) THEN [w EXCEPT !.recv_seq = seq, !.take_any = FALSE]
    ELSE w

-----------------------------------------------------------------------------
\* A mutant: a RESET packet behind the window is never far from it.
FarAheadOnly(delta) == delta > HistoryLength

(***************************************************************************)
(* The flag handling of seamless_seq_recovery(), done before recover(): a  *)
(* RESET packet far from the window makes the window take any packet, and  *)
(* the packets near the end of the init space prepare the regular window   *)
(* for the switch back to it.                                              *)
(***************************************************************************)
FarForReset(delta) == delta > HistoryLength \/ delta <= -2 * HistoryLength

ResetFlagWindow(w, p) ==
    IF p.reset /\ FarForReset(CalcDelta(p.seq, w.recv_seq))
    THEN [w EXCEPT !.take_any = TRUE]
    ELSE w

NearInitEnd(seq) ==
    seq >= SEQ_SPACE - 3 * HistoryLength /\ seq < SEQ_SPACE - HistoryLength

=============================================================================
