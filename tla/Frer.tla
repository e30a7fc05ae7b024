-------------------------------- MODULE Frer --------------------------------
(***************************************************************************)
(* Replication and elimination end to end: a sequence generator numbers    *)
(* the packets of a stream (seq_gen.c), the replicate action copies them   *)
(* to the unmasked member streams (action.c), the network loses and        *)
(* reorders copies, and vector recovery eliminates the duplicates          *)
(* (seq_recov.c).                                                          *)
(*                                                                         *)
(* Packets carry, besides their 16 bit number, the ghost idx: the position *)
(* of the packet in the stream.  The ghosts passed and top say what the    *)
(* recovery should know: which packets have left it, and which packet      *)
(* recv_seq stands for.                                                    *)
(*                                                                         *)
(* The network is bounded in time, not in space: a copy is never overtaken *)
(* by MaxLag or more later packets (Generate), and no copy of a passed     *)
(* packet outlives the recovery's reset timeout (SeqRecoveryReset).  These *)
(* are the conditions under which 16 bit numbers can identify packets.     *)
(***************************************************************************)
EXTENDS SeqRecoveryAlg, FiniteSets

CONSTANTS
    Paths,      \* the member streams of the replication
    MaxLag,     \* how many packets a copy may lag behind the newest one
    MaxSent     \* bound of the model on the number of packets sent

ASSUME FrerAssumption ==
    /\ MaxLag \in Nat /\ MaxLag >= 1
    /\ MaxSent \in Nat
    /\ 2 * (MaxLag + HistoryLength) <= SEQ_SPACE

VARIABLES
    gen_seq_num,   \* the generator's next number
    mask,          \* the masked member streams (struct Pipeline.mask)
    sent,          \* ghost: packets generated
    net,           \* copies in the network
    win,           \* the recovery window
    passed,        \* ghost: the packets that passed elimination
    top,           \* ghost: the packet recv_seq stands for
    aliased        \* ghost: recv_seq stands for a packet of another lap

vars == <<gen_seq_num, mask, sent, net, win, passed, top, aliased>>

Copies == [path : Paths, idx : Nat, seq : Seq16]

TypeOK ==
    /\ gen_seq_num \in Seq16
    /\ mask \in SUBSET Paths
    /\ sent \in Nat
    /\ net \in SUBSET Copies
    /\ win \in Windows
    /\ passed \in SUBSET Nat
    /\ top \in Int
    /\ aliased \in BOOLEAN

Init ==
    /\ gen_seq_num = 0
    /\ mask = {}
    /\ sent = 0
    /\ net = {}
    /\ win = NewWindow
    /\ passed = {}
    /\ top = 0
    /\ aliased = FALSE

-----------------------------------------------------------------------------
\* The copies the replicate action makes of a packet.
ReplCopies(idx, seq) == [path : Paths \ mask, idx : {idx}, seq : {seq}]

\* seqgen and replicate actions of the talker.
Generate ==
    /\ sent < MaxSent
    /\ \A c \in net : c.idx > sent - MaxLag
    /\ sent' = sent + 1
    /\ gen_seq_num' = IF gen_seq_num >= SEQ_SPACE - 1 THEN 0 ELSE gen_seq_num + 1
    /\ net' = net \cup ReplCopies(sent, gen_seq_num)
    /\ UNCHANGED <<mask, win, passed, top, aliased>>

\* A mask signal of an OAM maintenance point masks or unmasks a member.
SetMask(m) ==
    /\ mask' = m
    /\ UNCHANGED <<gen_seq_num, sent, net, win, passed, top, aliased>>

Lose(c) ==
    /\ net' = net \ {c}
    /\ UNCHANGED <<gen_seq_num, mask, sent, win, passed, top, aliased>>

\* eliminate action: a copy passes vector recovery and leaves, ...
ElimPass(c) ==
    LET d == CalcDelta(c.seq, win.recv_seq)
        anchor == IF win.take_any \/ d > 0 THEN c.idx ELSE c.idx - d
    IN  /\ RecoverPasses(win, d)
        /\ win' = RecoverWindow(win, c.seq, d)
        /\ passed' = passed \cup {c.idx}
        /\ top' = anchor
        /\ aliased' = (~ win.take_any /\ (aliased \/ d # c.idx - top))
        /\ net' = net \ {c}
        /\ UNCHANGED <<gen_seq_num, mask, sent>>

\* ... or is discarded.
ElimDiscard(c) ==
    LET d == CalcDelta(c.seq, win.recv_seq)
    IN  /\ ~ RecoverPasses(win, d)
        /\ win' = RecoverWindow(win, c.seq, d)
        /\ net' = net \ {c}
        /\ UNCHANGED <<gen_seq_num, mask, sent, passed, top, aliased>>

\* The recovery's timeout: vector_seq_recovery_reset() and take_any.
SeqRecoveryReset ==
    /\ \A c \in net : c.idx \notin passed
    /\ win' = [recv_seq |-> SEQ_SPACE - 1, take_any |-> TRUE, history |-> NoHistory]
    /\ UNCHANGED <<gen_seq_num, mask, sent, net, passed, top, aliased>>

Next ==
    \/ Generate
    \/ \E m \in SUBSET Paths : SetMask(m)
    \/ \E c \in net : Lose(c) \/ ElimPass(c) \/ ElimDiscard(c)
    \/ SeqRecoveryReset

Spec == Init /\ [][Next]_vars

-----------------------------------------------------------------------------
WouldPass(c) == RecoverPasses(win, CalcDelta(c.seq, win.recv_seq))

(***************************************************************************)
(* Elimination: once a packet has passed, none of its copies does.  The    *)
(* recovery sees 16 bit numbers only; the property is about packets, over  *)
(* any number of wraps of the numbering, with losses, reordering, masking  *)
(* and resets of the recovery (recover, calc_delta, shift_seq_history).    *)
(***************************************************************************)
NoDuplicate == \A c \in net : c.idx \in passed => ~ WouldPass(c)

(***************************************************************************)
(* Elimination discards nothing else: the first copy of a packet that is   *)
(* within the window passes, unless the recovery was silent for so many    *)
(* packets that the numbers it remembers are those of an earlier lap.      *)
(***************************************************************************)
NoFalseDiscard ==
    \A c \in net :
        /\ c.idx \notin passed
        /\ ~ aliased
        /\ ~ Rogue(c.idx - top)
        => WouldPass(c)

=============================================================================
