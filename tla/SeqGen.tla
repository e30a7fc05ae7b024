------------------------------- MODULE SeqGen -------------------------------
(***************************************************************************)
(* The sequence generator object (seq_gen.c).  Packets of a stream get     *)
(* consecutive 16 bit numbers.  With the seamless reset extension the      *)
(* numbering restarts, after a reset, in an init sequence space, whose     *)
(* packets carry the INIT flag, and runs over into the regular space; the  *)
(* first packets after a reset carry the RESET flag.                       *)
(*                                                                         *)
(* Both operations run under the object's mutex from the first line to the *)
(* last, so each one is an atomic action, whatever thread calls it.        *)
(***************************************************************************)
EXTENDS SeqSpace

CONSTANTS
    UseResetFlag,      \* struct SequenceGenerator.use_reset_flag
    UseInitFlag,       \* .use_init_flag
    InitSeqStart,      \* .init_seq_start, an unchecked configuration value
    RESET_FLAG_COUNT   \* FRER_SEQ_GEN_RESET_FLAG_COUNT, 3 in the code

ASSUME SeqGenAssumption ==
    /\ UseResetFlag \in BOOLEAN
    /\ UseInitFlag \in BOOLEAN
    /\ InitSeqStart \in Nat
    /\ RESET_FLAG_COUNT \in Nat
    /\ RESET_FLAG_COUNT < SEQ_SPACE - 1

VARIABLES
    gen_seq_num,          \* next number of the regular space
    init_gen_seq_num,     \* next number of the init space
    reset_flag,           \* do packets carry RESET?
    use_init_seq_space,   \* is the init space in use?
    last,                 \* the metadata of the last packet
    since                 \* packets since the (re)start, saturating

genVars == <<gen_seq_num, init_gen_seq_num, reset_flag, use_init_seq_space>>

seqGenVars == <<genVars, last, since>>

\* since counts to one more than the packets that carry RESET.
SinceMax == RESET_FLAG_COUNT + 1

SeqGenTypeOK ==
    /\ gen_seq_num \in Seq16
    /\ init_gen_seq_num \in Nat
    /\ reset_flag \in BOOLEAN
    /\ use_init_seq_space \in BOOLEAN
    /\ last \in SeqMetadata
    /\ since \in 0 .. SinceMax

-----------------------------------------------------------------------------
Restart ==
    /\ gen_seq_num' = 0
    /\ init_gen_seq_num' = InitSeqStart
    /\ reset_flag' = UseResetFlag
    /\ use_init_seq_space' = UseInitFlag

SeqGenInit ==
    /\ gen_seq_num = 0
    /\ init_gen_seq_num = InitSeqStart
    /\ reset_flag = UseResetFlag
    /\ use_init_seq_space = UseInitFlag
    /\ last = [seq |-> 0, reset |-> FALSE, init |-> FALSE]
    /\ since = 0

\* A mutant: the reset forgets to raise the RESET flag again.
ResetKeepsFlag ==
    /\ gen_seq_num' = 0
    /\ init_gen_seq_num' = InitSeqStart
    /\ use_init_seq_space' = UseInitFlag
    /\ since' = 0
    /\ UNCHANGED <<reset_flag, last>>

\* sequence_generation_reset(): the effect of SIGUSR1 on a generator.
SequenceGenerationReset ==
    /\ Restart
    /\ since' = 0
    /\ UNCHANGED last

\* The flags are put on the packet after the generator has been advanced.
Emit(number) ==
    /\ last' = [seq   |-> number % SEQ_SPACE,
                reset |-> reset_flag',
                init  |-> use_init_seq_space']
    /\ since' = IF since < SinceMax THEN since + 1 ELSE since

\* A mutant: the regular space starts from 0 although 0 is already used.
InitSpaceEndsAtZero ==
    /\ use_init_seq_space
    /\ init_gen_seq_num > SEQ_SPACE - 1
    /\ gen_seq_num' = 0
    /\ use_init_seq_space' = FALSE
    /\ init_gen_seq_num' = InitSeqStart
    /\ UNCHANGED reset_flag
    /\ Emit(init_gen_seq_num)

\* The number of the packet is the first one beyond the init space, that is
\* 0: the regular space continues with 1.
InitSpaceEnds ==
    /\ use_init_seq_space
    /\ init_gen_seq_num > SEQ_SPACE - 1
    /\ gen_seq_num' = 1
    /\ use_init_seq_space' = FALSE
    /\ init_gen_seq_num' = InitSeqStart
    /\ UNCHANGED reset_flag
    /\ Emit(init_gen_seq_num)

GenerateInit ==
    /\ use_init_seq_space
    /\ init_gen_seq_num <= SEQ_SPACE - 1
    /\ init_gen_seq_num' = init_gen_seq_num + 1
    /\ reset_flag' = (reset_flag /\ init_gen_seq_num' <= InitSeqStart + RESET_FLAG_COUNT)
    /\ UNCHANGED <<gen_seq_num, use_init_seq_space>>
    /\ Emit(init_gen_seq_num)

RegularWraps ==
    /\ ~ use_init_seq_space
    /\ gen_seq_num >= SEQ_SPACE - 1
    /\ gen_seq_num' = 0
    /\ UNCHANGED <<init_gen_seq_num, reset_flag, use_init_seq_space>>
    /\ Emit(gen_seq_num)

GenerateRegular ==
    /\ ~ use_init_seq_space
    /\ gen_seq_num < SEQ_SPACE - 1
    /\ gen_seq_num' = gen_seq_num + 1
    /\ reset_flag' = (reset_flag /\ gen_seq_num' <= RESET_FLAG_COUNT)
    /\ UNCHANGED <<init_gen_seq_num, use_init_seq_space>>
    /\ Emit(gen_seq_num)

\* sequence_generation()
SequenceGeneration ==
    InitSpaceEnds \/ GenerateInit \/ RegularWraps \/ GenerateRegular

SeqGenNext == SequenceGenerationReset \/ SequenceGeneration

SeqGenSpec == SeqGenInit /\ [][SeqGenNext]_seqGenVars

-----------------------------------------------------------------------------
\* The init space is long enough for all the RESET packets.
InitSpaceFits == UseInitFlag => InitSeqStart + RESET_FLAG_COUNT < SEQ_SPACE

(***************************************************************************)
(* The RESET flag is on exactly the first RESET_FLAG_COUNT packets after   *)
(* the start or a reset, wherever in the two sequence spaces they fall and *)
(* however often the numbering wraps afterwards (sequence_generation).     *)
(***************************************************************************)
ResetFlagExact ==
    InitSpaceFits /\ since > 0 =>
        (last.reset <=> UseResetFlag /\ since <= RESET_FLAG_COUNT)

(***************************************************************************)
(* Unless a reset comes between them, two consecutive packets have         *)
(* consecutive numbers, also where the init space runs over into the       *)
(* regular one and where the regular one wraps (sequence_generation).      *)
(***************************************************************************)
GaplessStep ==
    InitSpaceFits /\ since > 0 /\ since' > 0 =>
        last'.seq = (last.seq + 1) % SEQ_SPACE

Gapless == [][SequenceGeneration => GaplessStep]_seqGenVars

=============================================================================
