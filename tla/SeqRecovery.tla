----------------------------- MODULE SeqRecovery ----------------------------
(***************************************************************************)
(* The sequence recovery object (seq_recov.c) and the threads that share   *)
(* it: the packet threads of the member streams, which run one of the      *)
(* recovery algorithms under the object's mutex, and the object's own      *)
(* reset thread, which counts down remaining_ticks and resets the recovery *)
(* when no packet passed for ResetTicks ticks.  The reset thread does not  *)
(* take the mutex, so its reads and writes interleave with a packet's:     *)
(*   - a packet is three steps, the read of recv_seq (with the flag        *)
(*     handling), the decision with the update of the window, and          *)
(*     reset_ticks() with the unlock;                                      *)
(*   - decrement_ticks() is a read and a write;                            *)
(*   - the stores of a reset are separate steps, in any order: nothing in  *)
(*     the code orders them for other threads.                             *)
(* individual_recovery is never set by the code, so that a discarded       *)
(* packet never refreshes the ticks.                                       *)
(***************************************************************************)
EXTENDS SeqRecoveryAlg, FiniteSets

CONSTANTS
    Algorithm,      \* "Match", "Vector" or "SeamlessVector"
    UseResetFlag,   \* struct SequenceRecovery.use_reset_flag
    UseInitFlag,    \* .use_init_flag
    ResetTicks,     \* frerSeqRcvyResetMSec, in ticks of a millisecond
    Threads,        \* the packet threads
    NoThread,       \* the mutex is free
    Traffic         \* the packets that may arrive

ASSUME SeqRecoveryAssumption ==
    /\ Algorithm \in {"Match", "Vector", "SeamlessVector"}
    /\ UseResetFlag \in BOOLEAN
    /\ UseInitFlag \in BOOLEAN
    /\ ResetTicks \in Nat \ {0}
    /\ NoThread \notin Threads
    /\ Traffic \subseteq SeqMetadata

VARIABLES
    rec,               \* the regular ("reg") and the init ("init") window
    remaining_ticks,   \* ticks left until a reset, 0: already reset
    mutex,             \* the holder of rec->mutex
    pc,                \* per packet thread: "idle", "decide" or "ticks"
    packet,            \* per packet thread: the packet it works on
    delta,             \* per packet thread: the distance it computed
    tpc,               \* the reset thread: "start", "sleep", "dec" or "reset"
    ticks_read,        \* the value decrement_ticks() has read
    stores,            \* the stores of the reset still to be made
    silence            \* ticks since a packet passed, saturating

packetVars == <<mutex, pc, packet, delta>>

timerVars == <<tpc, ticks_read, stores>>

vars == <<rec, remaining_ticks, packetVars, timerVars, silence>>

Spaces == {"reg", "init"}

\* A mutant: the reset of SeamlessVector forgets init_take_any.
StoresWithoutInitTakeAny ==
    CASE Algorithm = "Match"          -> {<<"reg", "take_any">>}
      [] Algorithm = "Vector"         -> {"reg"} \X {"take_any", "recv_seq", "history"}
      [] Algorithm = "SeamlessVector" -> (Spaces \X {"take_any", "recv_seq", "history"})
                                             \ {<<"init", "take_any">>}

\* The stores of seq_recovery_reset(): rec->take_any, and what the reset of
\* the algorithm adds.
ResetStores ==
    CASE Algorithm = "Match"          -> {<<"reg", "take_any">>}
      [] Algorithm = "Vector"         -> {"reg"} \X {"take_any", "recv_seq", "history"}
      [] Algorithm = "SeamlessVector" -> Spaces \X {"take_any", "recv_seq", "history"}

TypeOK ==
    /\ rec \in [Spaces -> Windows]
    /\ remaining_ticks \in 0 .. ResetTicks
    /\ mutex \in Threads \cup {NoThread}
    /\ pc \in [Threads -> {"idle", "decide", "ticks"}]
    /\ packet \in [Threads -> SeqMetadata]
    /\ delta \in [Threads -> (- SEQ_SPACE) .. SEQ_SPACE]
    /\ tpc \in {"start", "sleep", "dec", "reset"}
    /\ ticks_read \in 0 .. ResetTicks
    /\ stores \in SUBSET ResetStores
    /\ silence \in 0 .. ResetTicks

\* The locals of a thread that has no packet.
NoPacket == [seq |-> 0, reset |-> FALSE, init |-> FALSE]

Init ==
    /\ rec = [s \in Spaces |-> NewWindow]
    /\ remaining_ticks = 0
    /\ mutex = NoThread
    /\ pc = [t \in Threads |-> "idle"]
    /\ packet = [t \in Threads |-> NoPacket]
    /\ delta = [t \in Threads |-> 0]
    /\ tpc = "start"
    /\ ticks_read = 0
    /\ stores = {}
    /\ silence = 0

-----------------------------------------------------------------------------
(* The packet threads. *)

InitFlagged(p) ==
    Algorithm = "SeamlessVector" /\ UseResetFlag /\ UseInitFlag /\ p.init

\* The window a packet is checked against.
SpaceOf(p) == IF InitFlagged(p) THEN "init" ELSE "reg"

\* The windows after the flag handling of the algorithm.
FlagsHandled(p) ==
    IF Algorithm # "SeamlessVector" \/ ~ UseResetFlag THEN rec
    ELSE [s \in Spaces |->
            IF s = SpaceOf(p) THEN ResetFlagWindow(rec[s], p)
            ELSE IF s = "reg" /\ NearInitEnd(p.seq)
            THEN [rec[s] EXCEPT !.take_any = TRUE]
            ELSE rec[s]]

\* seq_recovery() up to the read of recv_seq in recover().
SeqRecoveryLock(t, p) ==
    /\ pc[t] = "idle"
    /\ mutex = NoThread
    /\ mutex' = t
    /\ pc' = [pc EXCEPT ![t] = "decide"]
    /\ packet' = [packet EXCEPT ![t] = p]
    /\ rec' = FlagsHandled(p)
    /\ delta' = [delta EXCEPT ![t] = CalcDelta(p.seq, rec[SpaceOf(p)].recv_seq)]
    /\ UNCHANGED <<remaining_ticks, timerVars, silence>>

Passes(w, p, d) ==
    IF Algorithm = "Match" THEN MatchPasses(w, p.seq) ELSE RecoverPasses(w, d)

Updated(w, p, d) ==
    IF Algorithm = "Match" THEN MatchWindow(w, p.seq)
    ELSE RecoverWindow(w, p.seq, d)

\* A mutant: discarded packets refresh the ticks, as with individual_recovery.
DecideIndividually(t) ==
    LET s == SpaceOf(packet[t])
        passes == Passes(rec[s], packet[t], delta[t])
    IN  /\ pc[t] = "decide"
        /\ rec' = [rec EXCEPT ![s] = Updated(rec[s], packet[t], delta[t])]
        /\ pc' = [pc EXCEPT ![t] = IF passes THEN "ticks" ELSE "idle"]
        /\ mutex' = IF passes THEN t ELSE NoThread
        /\ packet' = [packet EXCEPT ![t] = NoPacket]
        /\ delta' = [delta EXCEPT ![t] = 0]
        /\ remaining_ticks' = ResetTicks
        /\ UNCHANGED <<timerVars, silence>>

\* The decision; a discarded packet leaves at once.
SeqRecoveryDecide(t) ==
    LET s == SpaceOf(packet[t])
        passes == Passes(rec[s], packet[t], delta[t])
    IN  /\ pc[t] = "decide"
        /\ rec' = [rec EXCEPT ![s] = Updated(rec[s], packet[t], delta[t])]
        /\ pc' = [pc EXCEPT ![t] = IF passes THEN "ticks" ELSE "idle"]
        /\ mutex' = IF passes THEN t ELSE NoThread
        /\ packet' = [packet EXCEPT ![t] = NoPacket]
        /\ delta' = [delta EXCEPT ![t] = 0]
        /\ UNCHANGED <<remaining_ticks, timerVars, silence>>

\* reset_ticks() and the unlock; the packet continues in its pipeline.
SeqRecoveryPass(t) ==
    /\ pc[t] = "ticks"
    /\ remaining_ticks' = ResetTicks
    /\ silence' = 0
    /\ pc' = [pc EXCEPT ![t] = "idle"]
    /\ mutex' = NoThread
    /\ UNCHANGED <<rec, packet, delta, timerVars>>

-----------------------------------------------------------------------------
(* The reset thread. *)

ResetThreadStart ==
    /\ tpc = "start"
    /\ remaining_ticks' = ResetTicks
    /\ tpc' = "sleep"
    /\ UNCHANGED <<rec, packetVars, ticks_read, stores, silence>>

\* A tick has passed; decrement_ticks() reads the ticks.
DecrementTicksRead ==
    /\ tpc = "sleep"
    /\ silence' = IF silence < ResetTicks THEN silence + 1 ELSE silence
    /\ ticks_read' = remaining_ticks
    /\ tpc' = IF remaining_ticks = 0 THEN "sleep" ELSE "dec"
    /\ UNCHANGED <<rec, remaining_ticks, packetVars, stores>>

DecrementTicksWrite ==
    /\ tpc = "dec"
    /\ remaining_ticks' = ticks_read - 1
    /\ IF ticks_read = 1 THEN tpc' = "reset" /\ stores' = ResetStores
                         ELSE tpc' = "sleep" /\ UNCHANGED stores
    /\ ticks_read' = 0
    /\ UNCHANGED <<rec, packetVars, silence>>

ResetValue(field) ==
    CASE field = "take_any" -> TRUE
      [] field = "recv_seq" -> SEQ_SPACE - 1
      [] field = "history"  -> NoHistory

\* One store of seq_recovery_reset().
SeqRecoveryResetStore(st) ==
    /\ tpc = "reset"
    /\ rec' = [rec EXCEPT ![st[1]][st[2]] = ResetValue(st[2])]
    /\ stores' = stores \ {st}
    /\ tpc' = IF stores' = {} THEN "sleep" ELSE "reset"
    /\ UNCHANGED <<remaining_ticks, packetVars, ticks_read, silence>>

-----------------------------------------------------------------------------
PacketThread(t) ==
    \/ \E p \in Traffic : SeqRecoveryLock(t, p)
    \/ SeqRecoveryDecide(t)
    \/ SeqRecoveryPass(t)

ResetThread ==
    \/ ResetThreadStart
    \/ DecrementTicksRead
    \/ DecrementTicksWrite
    \/ \E st \in stores : SeqRecoveryResetStore(st)

Next == (\E t \in Threads : PacketThread(t)) \/ ResetThread

Spec == Init /\ [][Next]_vars

\* A packet that is being processed gets through the critical section, and
\* the reset thread, which waits for nothing but the clock, keeps ticking.
\* Nothing forces packets to arrive.
FairSpec ==
    /\ Spec
    /\ \A t \in Threads : WF_vars(SeqRecoveryDecide(t) \/ SeqRecoveryPass(t))
    /\ WF_vars(ResetThread)
-----------------------------------------------------------------------------
(***************************************************************************)
(* A window that may discard packets has a running timer.  Once a packet   *)
(* has centred a window (take_any is false), either ticks remain, or the   *)
(* reset is under way, or a packet is about to refresh the ticks.  This    *)
(* holds although decrement_ticks() and the stores of the reset race with  *)
(* reset_ticks() and recover(): no interleaving leaves a window that       *)
(* discards packets for ever.                                              *)
(***************************************************************************)
TimerArmed ==
    \A s \in Spaces :
        rec[s].take_any \/ remaining_ticks > 0 \/ tpc = "reset"
                        \/ \E t \in Threads : pc[t] = "ticks"

(***************************************************************************)
(* The distance a packet thread decides on is the distance to the current  *)
(* window: no other packet moves the window between the read of recv_seq   *)
(* in calc_delta() and the decision in recover().  Only a reset can, and   *)
(* it leaves recv_seq at the last number of the space.                     *)
(***************************************************************************)
DeltaFresh ==
    \A t \in Threads : pc[t] = "decide" =>
        LET w == rec[SpaceOf(packet[t])]
        IN  \/ delta[t] = CalcDelta(packet[t].seq, w.recv_seq)
            \/ w.recv_seq = SEQ_SPACE - 1

(***************************************************************************)
(* A stalled recovery recovers: when a window is centred and no packet     *)
(* passes, because there are none or because all of them are duplicates or *)
(* out of the window, the window takes any packet again some time later    *)
(* (reset_thread; recover() does not refresh the ticks for a discarded     *)
(* packet).                                                                *)
(***************************************************************************)
StalledWindowResets ==
    ~ rec["reg"].take_any ~> (rec["reg"].take_any \/ silence = 0)

(***************************************************************************)
(* "reset after reset_msec millisec if no packet seen" (seq_recov.h): a    *)
(* reset starts only when no packet passed for the whole timeout, give or  *)
(* take the tick in progress.                                              *)
(***************************************************************************)
ResetOnlyAfterSilence ==
    [][tpc # "reset" /\ tpc' = "reset" => silence >= ResetTicks - 1]_vars

(***************************************************************************)
(* "window center is at start+1 now" (unit_test/test_seq_rcvy_vector.c):   *)
(* a window that does not take any packet is centred on a number that has  *)
(* passed, the one that moved it there.                                    *)
(***************************************************************************)
WindowCentred ==
    mutex = NoThread /\ tpc # "reset" /\ ~ rec["reg"].take_any =>
        rec["reg"].history[0] = 1

=============================================================================
