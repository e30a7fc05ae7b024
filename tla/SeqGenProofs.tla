---------------------------- MODULE SeqGenProofs ----------------------------
(***************************************************************************)
(* The sequence generator numbers packets without gaps and flags exactly   *)
(* the first packets after a reset, for every sequence space and every     *)
(* start of the init space that leaves room for the flagged packets.       *)
(***************************************************************************)
EXTENDS SeqGen, TLAPS

\* The numbers used since the restart, in the space in use.
ProgressOK ==
    /\ use_init_seq_space => UseInitFlag
    /\ use_init_seq_space =>
          /\ init_gen_seq_num <= SEQ_SPACE
          /\ since < SinceMax => init_gen_seq_num = InitSeqStart + since
          /\ since = SinceMax => init_gen_seq_num >= InitSeqStart + since
    /\ ~ use_init_seq_space /\ UseInitFlag => since = SinceMax
    /\ ~ use_init_seq_space /\ since < SinceMax => gen_seq_num = since

FlagsOK == reset_flag <=> UseResetFlag /\ since <= RESET_FLAG_COUNT

LastOK ==
    since > 0 =>
        /\ last.reset = reset_flag
        /\ use_init_seq_space => init_gen_seq_num = last.seq + 1
        /\ ~ use_init_seq_space =>
              gen_seq_num = IF last.seq = SEQ_SPACE - 1 THEN 0 ELSE last.seq + 1

GenInv ==
    /\ SeqGenTypeOK
    /\ InitSpaceFits => ProgressOK /\ FlagsOK /\ LastOK

\* The number of a packet, where the init space has room for the flagged
\* packets: the & 0xffff matters for the first number beyond the init space.
LEMMA SmallMod ==
    /\ \A n \in Seq16 : n % SEQ_SPACE = n
    /\ SEQ_SPACE % SEQ_SPACE = 0
    /\ \A n \in Nat : n % SEQ_SPACE \in Seq16
BY SeqSpaceAssumption DEF Seq16

\* A new generator satisfies the invariant.
LEMMA InitInv == SeqGenInit => GenInv
<1> SUFFICES ASSUME SeqGenInit PROVE GenInv
  OBVIOUS
<1> USE SeqSpaceAssumption, SeqGenAssumption
<1>1. SeqGenTypeOK
  BY DEF SeqGenInit, SeqGenTypeOK, SeqMetadata, Seq16, SinceMax
<1>2. ASSUME InitSpaceFits PROVE ProgressOK /\ FlagsOK /\ LastOK
  BY <1>2 DEF SeqGenInit, InitSpaceFits, ProgressOK, FlagsOK, LastOK, SinceMax
<1> QED
  BY <1>1, <1>2 DEF GenInv

\* A reset restarts the numbering.
LEMMA ResetInv == GenInv /\ SequenceGenerationReset => GenInv'
<1> SUFFICES ASSUME GenInv, SequenceGenerationReset PROVE GenInv'
  OBVIOUS
<1> USE SeqSpaceAssumption, SeqGenAssumption
<1>1. SeqGenTypeOK'
  BY DEF GenInv, SequenceGenerationReset, Restart, SeqGenTypeOK, Seq16, SinceMax
<1>2. ASSUME InitSpaceFits PROVE ProgressOK' /\ FlagsOK' /\ LastOK'
  BY <1>2 DEF SequenceGenerationReset, Restart, InitSpaceFits, ProgressOK,
     FlagsOK, LastOK, SinceMax
<1> QED
  BY <1>1, <1>2 DEF GenInv, InitSpaceFits

\* A packet keeps the types.
LEMMA GenerationType == GenInv /\ SequenceGeneration => SeqGenTypeOK'
<1> SUFFICES ASSUME GenInv, SequenceGeneration PROVE SeqGenTypeOK'
  OBVIOUS
<1> USE SeqSpaceAssumption, SeqGenAssumption DEF SinceMax
<1>1. /\ gen_seq_num \in Seq16 /\ init_gen_seq_num \in Nat /\ since \in 0 .. SinceMax
      /\ reset_flag \in BOOLEAN /\ use_init_seq_space \in BOOLEAN
  BY DEF GenInv, SeqGenTypeOK
<1>2. gen_seq_num' \in Seq16 /\ init_gen_seq_num' \in Nat
  BY <1>1 DEF SequenceGeneration, InitSpaceEnds, GenerateInit, RegularWraps,
     GenerateRegular, Seq16
<1>3. reset_flag' \in BOOLEAN /\ use_init_seq_space' \in BOOLEAN
  BY <1>1 DEF SequenceGeneration, InitSpaceEnds, GenerateInit, RegularWraps,
     GenerateRegular
<1>4. PICK n \in Nat : Emit(n)
  BY <1>1 DEF SequenceGeneration, InitSpaceEnds, GenerateInit, RegularWraps,
     GenerateRegular, Seq16
<1>5. last' \in SeqMetadata
  <2>1. n % SEQ_SPACE \in Seq16
    BY SmallMod
  <2> QED  BY <1>3, <1>4, <2>1 DEF Emit, SeqMetadata
<1>6. since' \in 0 .. SinceMax
  BY <1>1, <1>4 DEF Emit
<1> QED
  BY <1>2, <1>3, <1>5, <1>6 DEF SeqGenTypeOK

\* A packet preserves the invariant, in each of the four cases of
\* sequence_generation(), and its number follows the number before it.
LEMMA GenerationInv ==
    ASSUME GenInv, InitSpaceFits, SequenceGeneration
    PROVE  ProgressOK' /\ FlagsOK' /\ LastOK' /\ GaplessStep
<1> USE SeqSpaceAssumption, SeqGenAssumption DEF SinceMax
<1>1. /\ gen_seq_num \in Seq16 /\ init_gen_seq_num \in Nat /\ since \in 0 .. SinceMax
      /\ reset_flag \in BOOLEAN /\ use_init_seq_space \in BOOLEAN
      /\ last.seq \in Seq16
  BY DEF GenInv, SeqGenTypeOK, SeqMetadata
<1>2. ProgressOK /\ FlagsOK /\ LastOK
  BY DEF GenInv
<1>3. since' = IF since < SinceMax THEN since + 1 ELSE since
  BY DEF SequenceGeneration, InitSpaceEnds, GenerateInit, RegularWraps,
     GenerateRegular, Emit
<1>4. CASE InitSpaceEnds
  <2>1. init_gen_seq_num = SEQ_SPACE /\ since = SinceMax
    BY <1>1, <1>2, <1>4 DEF InitSpaceEnds, ProgressOK, InitSpaceFits
  <2>2. last'.seq = 0 /\ last'.reset = reset_flag'
    BY <1>4, <2>1, SmallMod DEF InitSpaceEnds, Emit
  <2>3. ProgressOK' /\ FlagsOK'
    BY <1>2, <1>3, <1>4, <2>1 DEF InitSpaceEnds, ProgressOK, FlagsOK
  <2>4. LastOK'
    BY <1>4, <2>2 DEF InitSpaceEnds, LastOK
  <2>5. GaplessStep
    BY <1>1, <1>2, <1>4, <2>1, <2>2, SmallMod DEF InitSpaceEnds, LastOK, GaplessStep
  <2> QED  BY <2>3, <2>4, <2>5
<1>5. CASE GenerateInit
  <2>1. init_gen_seq_num \in Seq16
    BY <1>1, <1>5 DEF GenerateInit, Seq16
  <2>2. last'.seq = init_gen_seq_num /\ last'.reset = reset_flag'
    BY <1>5, <2>1, SmallMod DEF GenerateInit, Emit
  <2>3. ProgressOK'
    BY <1>1, <1>2, <1>3, <1>5 DEF GenerateInit, ProgressOK
  <2>4. FlagsOK'
    <3>1. init_gen_seq_num' <= InitSeqStart + RESET_FLAG_COUNT <=> since < RESET_FLAG_COUNT
      BY <1>1, <1>2, <1>5 DEF GenerateInit, ProgressOK
    <3>2. since' <= RESET_FLAG_COUNT <=> since < RESET_FLAG_COUNT
      BY <1>1, <1>3
    <3>3. since < RESET_FLAG_COUNT => since <= RESET_FLAG_COUNT
      BY <1>1
    <3> QED  BY <1>2, <1>5, <3>1, <3>2, <3>3 DEF GenerateInit, FlagsOK
  <2>5. LastOK'
    BY <1>5, <2>2 DEF GenerateInit, LastOK
  <2>6. GaplessStep
    BY <1>1, <1>2, <1>5, <2>1, <2>2, SmallMod DEF GenerateInit, LastOK, GaplessStep
  <2> QED  BY <2>3, <2>4, <2>5, <2>6
<1>6. CASE RegularWraps
  <2>1. gen_seq_num = SEQ_SPACE - 1 /\ since = SinceMax
    BY <1>1, <1>2, <1>6 DEF RegularWraps, ProgressOK, Seq16
  <2>2. last'.seq = SEQ_SPACE - 1 /\ last'.reset = reset_flag'
    BY <1>1, <1>6, <2>1, SmallMod DEF RegularWraps, Emit
  <2>3. ProgressOK' /\ FlagsOK'
    BY <1>2, <1>3, <1>6, <2>1 DEF RegularWraps, ProgressOK, FlagsOK
  <2>4. LastOK'
    BY <1>6, <2>2 DEF RegularWraps, LastOK
  <2>5. GaplessStep
    BY <1>1, <1>2, <1>6, <2>1, <2>2, SmallMod DEF RegularWraps, LastOK, GaplessStep, Seq16
  <2> QED  BY <2>3, <2>4, <2>5
<1>7. CASE GenerateRegular
  <2>2. last'.seq = gen_seq_num /\ last'.reset = reset_flag'
    BY <1>1, <1>7, SmallMod DEF GenerateRegular, Emit
  <2>3. ProgressOK'
    BY <1>1, <1>2, <1>3, <1>7 DEF GenerateRegular, ProgressOK, Seq16
  <2>4. FlagsOK'
    BY <1>1, <1>2, <1>3, <1>7 DEF GenerateRegular, ProgressOK, FlagsOK, Seq16
  <2>5. LastOK'
    BY <1>1, <1>7, <2>2 DEF GenerateRegular, LastOK, Seq16
  <2>6. GaplessStep
    <3>1. SEQ_SPACE - 1 + 1 = SEQ_SPACE
      OBVIOUS
    <3> QED
      BY <1>1, <1>2, <1>7, <2>2, <3>1, SmallMod DEF GenerateRegular, LastOK, GaplessStep, Seq16
  <2> QED  BY <2>3, <2>4, <2>5, <2>6
<1> QED
  BY <1>4, <1>5, <1>6, <1>7 DEF SequenceGeneration

\* The invariant of the generator holds for ever.
THEOREM Invariance == SeqGenSpec => []GenInv
<1>1. SeqGenInit => GenInv
  BY InitInv
<1>2. GenInv /\ [SeqGenNext]_seqGenVars => GenInv'
  <2> SUFFICES ASSUME GenInv, [SeqGenNext]_seqGenVars PROVE GenInv'
    OBVIOUS
  <2>1. CASE SequenceGenerationReset
    BY <2>1, ResetInv
  <2>2. CASE SequenceGeneration
    BY <2>2, GenerationType, GenerationInv DEF GenInv, InitSpaceFits
  <2>3. CASE UNCHANGED seqGenVars
    BY <2>3 DEF seqGenVars, genVars, GenInv, SeqGenTypeOK, InitSpaceFits,
       ProgressOK, FlagsOK, LastOK
  <2> QED  BY <2>1, <2>2, <2>3 DEF SeqGenNext
<1> QED
  BY <1>1, <1>2, PTL DEF SeqGenSpec

(***************************************************************************)
(* Exactly the first RESET_FLAG_COUNT packets after the start or a reset   *)
(* carry the RESET flag (sequence_generation).                             *)
(***************************************************************************)
THEOREM GenResetFlagExact == SeqGenSpec => []ResetFlagExact
<1>1. GenInv => ResetFlagExact
  BY DEF GenInv, FlagsOK, LastOK, ResetFlagExact
<1> QED
  BY <1>1, Invariance, PTL

(***************************************************************************)
(* Consecutive packets have consecutive numbers, across the end of the     *)
(* init space and across the wrap (sequence_generation).                   *)
(***************************************************************************)
THEOREM GenGapless == SeqGenSpec => Gapless
<1>1. GenInv /\ [SeqGenNext]_seqGenVars => [SequenceGeneration => GaplessStep]_seqGenVars
  <2> SUFFICES ASSUME GenInv, SequenceGeneration PROVE GaplessStep
    OBVIOUS
  <2> QED  BY GenerationInv DEF GaplessStep
<1> QED
  BY <1>1, Invariance, PTL DEF SeqGenSpec, Gapless

=============================================================================
