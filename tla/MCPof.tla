------------------------------- MODULE MCPof -------------------------------
(* The packet ordering function with two packet threads. *)
EXTENDS Pof

CONSTANTS t1, t2

OneThread == {t1}

TwoThreads == {t1, t2}

=============================================================================
