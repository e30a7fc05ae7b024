------------------------------- MODULE MCDelay ------------------------------
(* The delay queue with two packet threads. *)
EXTENDS Delay

CONSTANTS t1, t2

TwoThreads == {t1, t2}

=============================================================================
