------------------------------ MODULE SeqSpace ------------------------------
(***************************************************************************)
(* The sequence metadata of a packet: the 16 bit sequence number and the   *)
(* RESET and INIT flags of the seamless reset, which share the 32 bits of  *)
(* struct Packet's field sequence (seq_recov.h, packet.h).                 *)
(***************************************************************************)
EXTENDS Integers

CONSTANT SEQ_SPACE    \* FRER_RCVY_SEQ_SPACE, 2^16 in the code

ASSUME SeqSpaceAssumption == SEQ_SPACE \in Nat /\ SEQ_SPACE >= 1

Seq16 == 0 .. SEQ_SPACE - 1

SeqMetadata == [seq : Seq16, reset : BOOLEAN, init : BOOLEAN]

=============================================================================
