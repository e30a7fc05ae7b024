---------------------------- MODULE MCSeqRecovery ---------------------------
(* The sequence recovery object with two packet threads and packets on both *)
(* sides of the wrap of the sequence numbers, in and out of the window.     *)
EXTENDS SeqRecovery, TLC

CONSTANTS t1, t2

TwoThreads == {t1, t2}

Plain(seqs) == [seq : seqs, reset : {FALSE}, init : {FALSE}]

\* Neighbours around the wrap and one number outside of any of their windows,
\* RESET packets of a restarted generator, and INIT packets.
MixedTraffic ==
    Plain({0, 4, SEQ_SPACE - 1})
    \cup [seq : {4}, reset : {TRUE}, init : BOOLEAN]
    \cup [seq : {5}, reset : {FALSE}, init : {TRUE}]

ThreadSymmetry == Permutations({t1, t2})

=============================================================================
