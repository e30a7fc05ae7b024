------------------------------ MODULE Seamless ------------------------------
(***************************************************************************)
(* Seamless restart end to end: a sequence generator that may be restarted *)
(* (seq_gen.c), member streams that keep the order of their packets but    *)
(* lose and delay them, and a SeamlessVector recovery with its window for  *)
(* the regular and its window for the init sequence space (seq_recov.c).   *)
(*                                                                         *)
(* Packets carry the ghosts idx, their position in the stream across the   *)
(* restarts, and run, the restart they come after.  As in Frer the network *)
(* is bounded in time: a copy is never overtaken by MaxLag or more later   *)
(* packets, and no copy of a passed packet outlives the recovery's reset   *)
(* timeout.  The generator is restarted after MinRun packets or more.      *)
(***************************************************************************)
EXTENDS SeqGen, SeqRecoveryAlg, Sequences

CONSTANTS
    Paths,        \* the member streams
    MaxLag,       \* how many packets a copy may lag behind the newest one
    MinRun,       \* packets between two restarts, at least
    MaxRestarts,  \* bound of the model on the number of restarts
    MaxSent       \* bound of the model on the number of packets

ASSUME SeamlessAssumption ==
    \* without the init space a restart just after the wrap looks like a copy
    /\ UseResetFlag /\ UseInitFlag
    /\ MaxLag \in 1 .. HistoryLength + 1
    /\ MinRun \in Nat /\ MaxRestarts \in Nat /\ MaxSent \in Nat
    \* a RESET packet is far from the last number of the run before
    /\ MinRun >= 3 * HistoryLength
    /\ SEQ_SPACE - InitSeqStart >= 3 * HistoryLength + RESET_FLAG_COUNT - 1
    \* no copy of the run before arrives when the init space ends
    /\ SEQ_SPACE - InitSeqStart >= 3 * HistoryLength + MaxLag - 1
    /\ InitSeqStart > 2 * HistoryLength

VARIABLES
    run,      \* ghost: restarts so far
    age,      \* ghost: packets since the restart, saturating at MinRun
    sent,     \* ghost: packets since the start
    net,      \* per path: the copies under way, the oldest first
    rec,      \* the regular ("reg") and the init ("init") window
    passed,   \* ghost: packets that passed and may still have copies under way
    newest    \* ghost: the newest packet that passed, while the chain lasts

streamVars == <<run, age, sent, net>>
recVars == <<rec, passed, newest>>
vars == <<seqGenVars, streamVars, recVars>>

Nothing == [idx |-> 0, run |-> 0, reset |-> FALSE, init |-> FALSE, seq |-> 0]

\* newest when a packet passed that did not follow: later than any packet.
Broken == [Nothing EXCEPT !.idx = MaxSent + 1]

Init ==
    /\ SeqGenInit
    /\ run = 0 /\ age = 0 /\ sent = 0
    /\ net = [p \in Paths |-> <<>>]
    /\ rec = [s \in {"reg", "init"} |-> NewWindow]
    /\ passed = {}
    /\ newest = Nothing

InNet == UNION {{net[p][n] : n \in 1 .. Len(net[p])} : p \in Paths}

-----------------------------------------------------------------------------
\* seqgen and replicate actions of the talker.
Generate ==
    /\ sent < MaxSent
    /\ \A c \in InNet : c.idx > sent + 1 - MaxLag
    /\ SequenceGeneration
    /\ sent' = sent + 1
    /\ age' = IF age < MinRun THEN age + 1 ELSE age
    /\ net' = [p \in Paths |->
                 Append(net[p], [idx |-> sent', run |-> run, seq |-> last'.seq,
                                 reset |-> last'.reset, init |-> last'.init])]
    /\ passed' = {i \in passed : i > sent' - MaxLag}
    /\ UNCHANGED <<run, rec, newest>>

\* SIGUSR1 at the talker.
RestartGenerator ==
    /\ run < MaxRestarts
    /\ age >= MinRun
    /\ SequenceGenerationReset
    /\ run' = run + 1
    /\ age' = 0
    /\ UNCHANGED <<sent, net, recVars>>

Lose(p) ==
    /\ net[p] # <<>>
    /\ net' = [net EXCEPT ![p] = Tail(@)]
    /\ UNCHANGED <<seqGenVars, run, age, sent, recVars>>

\* The window of a packet, and the windows after the flags are handled.
SpaceOf(c) == IF c.init THEN "init" ELSE "reg"

\* A mutant: packets up to the end of the init space open the regular window.
OpensRegularToTheEnd(c) ==
    [s \in {"reg", "init"} |->
        IF s = SpaceOf(c) THEN ResetFlagWindow(rec[s], c)
        ELSE IF s = "reg" /\ c.seq >= SEQ_SPACE - 3 * HistoryLength
        THEN [rec[s] EXCEPT !.take_any = TRUE]
        ELSE rec[s]]

FlagsHandled(c) ==
    [s \in {"reg", "init"} |->
        IF s = SpaceOf(c) THEN ResetFlagWindow(rec[s], c)
        ELSE IF s = "reg" /\ NearInitEnd(c.seq)
        THEN [rec[s] EXCEPT !.take_any = TRUE]
        ELSE rec[s]]

Distance(c) == CalcDelta(c.seq, rec[SpaceOf(c)].recv_seq)

WouldPass(c) == RecoverPasses(FlagsHandled(c)[SpaceOf(c)], Distance(c))

\* c continues the chain: fewer than HistoryLength packets are missing between
\* it and the newest one, and the first packet of a run is one with RESET.
Follows(c) ==
    \/ newest = Nothing
    \/ /\ c.idx \in newest.idx + 1 .. newest.idx + HistoryLength
       /\ c.run = newest.run \/ c.reset

\* seamless_seq_recovery() on the next copy of path p.
SeamlessSeqRecovery(p) ==
    /\ net[p] # <<>>
    /\ LET c == Head(net[p])
           s == SpaceOf(c)
       IN /\ rec' = [FlagsHandled(c) EXCEPT ![s] = RecoverWindow(@, c.seq, Distance(c))]
          /\ passed' = IF WouldPass(c) THEN passed \cup {c.idx} ELSE passed
          /\ newest' = IF ~ WouldPass(c) \/ c.idx < newest.idx THEN newest
                       ELSE IF Follows(c) THEN c ELSE Broken
    /\ net' = [net EXCEPT ![p] = Tail(@)]
    /\ UNCHANGED <<seqGenVars, run, age, sent>>

\* The recovery's timeout: seamless_seq_recovery_reset() and take_any.
SeqRecoveryReset ==
    /\ \A c \in InNet : c.idx \notin passed
    /\ rec' = [s \in {"reg", "init"} |->
                 [recv_seq |-> SEQ_SPACE - 1, take_any |-> TRUE, history |-> NoHistory]]
    /\ newest' = Nothing
    /\ UNCHANGED <<seqGenVars, streamVars, passed>>

Next ==
    \/ Generate
    \/ RestartGenerator
    \/ \E p \in Paths : Lose(p) \/ SeamlessSeqRecovery(p)
    \/ SeqRecoveryReset

Spec == Init /\ [][Next]_vars

-----------------------------------------------------------------------------
(***************************************************************************)
(* No packet passes twice, also while copies from before and after a       *)
(* restart arrive mixed, and where the init space runs over into the       *)
(* regular one (seamless_seq_recovery, recover).                           *)
(***************************************************************************)
PassesOnce == \A c \in InNet : c.idx \in passed => ~ WouldPass(c)

(***************************************************************************)
(* A restart is seamless: as long as no HistoryLength packets in a row are *)
(* missing the next packet passes, over the end of the init space, over    *)
(* the wrap of the regular one, and when it is one of the RESET packets of *)
(* a new run (seamless_seq_recovery).                                      *)
(***************************************************************************)
RestartSeamless ==
    \A p \in Paths :
        net[p] # <<>> /\ Follows(Head(net[p])) => WouldPass(Head(net[p]))

=============================================================================
