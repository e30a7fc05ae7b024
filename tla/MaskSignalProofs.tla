-------------------------- MODULE MaskSignalProofs --------------------------
(***************************************************************************)
(* The masking state of an elimination is sound for every number of paths, *)
(* every configured count, every timeout and all requests that share the   *)
(* paths.                                                                  *)
(***************************************************************************)
EXTENDS MaskSignal, FiniteSetTheorems, TLAPS

Unmasking == {"u_check", "u_set", "u_write", "u_stop", "u_join", "u_done", "u_fail"}
Masking == {"m_write", "m_launch"}

-----------------------------------------------------------------------------
(* The inductive invariant of the masking state *)

ActTypes ==
  /\ scene \in Scenes
  /\ cmd \in [pc : {"idle", "join", "delete"}, p : Paths \cup {Unset}, left : Int]
  /\ cmd.pc # "idle" => cmd.p \in Paths
  /\ act \in [Actors -> [pc : {"none", "idle", "wait"} \cup Unmasking \cup Masking,
                         p : Paths \cup {Unset}, val : Int]]
  /\ \A p \in Paths : act[p].p = p /\ act[p].pc \in {"none", "wait"} \cup Unmasking
  /\ act["inband"].pc \in {"idle"} \cup Unmasking \cup Masking
  /\ act["inband"].pc # "idle" => act["inband"].p \in Paths

Stopping(s) == snd[s].stop > 0 \/ snd[s].th = "ended"

\* A thread is stopped by the one that waits for it.
StopsOwned ==
  /\ \A p \in Paths : Stopping(p) => cmd.pc # "idle" /\ cmd.p = p
  /\ Stopping(Post) => \E a \in Actors : act[a].pc = "u_join"

\* One thread at a time masks or unmasks.
OneActive ==
  \A a, b \in Actors : a # b /\ act[a].pc \notin Resting => act[b].pc \in Resting

\* The count while a thread is between the flag of a path and the count.
Counted ==
  /\ \A a \in Actors : act[a].pc = "m_write" =>
       /\ act[a].p \in masked /\ act[a].val = paths /\ paths > 0
       /\ paths = scene.admin - Cardinality(masked) + 1
  /\ \A a \in Actors : act[a].pc = "u_set" => act[a].p \in masked
  /\ \A a \in Actors : act[a].pc = "u_write" =>
       /\ act[a].p \notin masked /\ act[a].val = paths
       /\ paths = scene.admin - Cardinality(masked) - 1
  /\ (\A a \in Actors : act[a].pc \notin {"m_write", "u_write"})
       => paths = scene.admin - Cardinality(masked)

\* The mask of the output is stopped right after the count leaves zero.
PostOK ==
  /\ \A a \in Actors : act[a].pc \in {"u_stop", "u_join"} => paths = 1
  /\ (\A a \in Actors : act[a].pc \notin {"u_stop", "u_join"}) => (snd[Post].ptr <=> paths = 0 /\ scene.admin > 0)

MInv == TypeOK /\ ActTypes /\ (~raced => StopsOwned /\ OneActive /\ Counted /\ PostOK)

-----------------------------------------------------------------------------
(* The masking state is kept *)

USE DEF Senders, Actors

\* No path is masked at first.
LEMMA InitMasking == ASSUME Init PROVE MInv
<1>0. scene \in Scenes /\ scene.admin \in Nat /\ scene.commands \in Nat
  BY ScenesAssumption DEF Init
<1>1. ActTypes
  <2>1. cmd = [pc |-> "idle", p |-> Unset, left |-> scene.commands]
    BY DEF Init
  <2>2. act = [a \in Actors |-> IF a = "inband" THEN [pc |-> "idle", p |-> Unset, val |-> 0]
                                ELSE [pc |-> "none", p |-> a, val |-> 0]]
    BY DEF Init, Idle, NoThread
  <2>3. cmd \in [pc : {"idle", "join", "delete"}, p : Paths \cup {Unset}, left : Int] /\ cmd.pc = "idle"
    BY <1>0, <2>1
  <2>4. \A p \in Paths : act[p].p = p /\ act[p].pc \in {"none", "wait"} \cup Unmasking
    BY <2>2, PathsAssumption
  <2>5. act["inband"].pc = "idle"
    BY <2>2
  <2>6. act \in [Actors -> [pc : {"none", "idle", "wait"} \cup Unmasking \cup Masking,
                            p : Paths \cup {Unset}, val : Int]]
    BY <2>2
  <2> QED  BY <1>0, <2>3, <2>4, <2>5, <2>6 DEF ActTypes
<1>2. TypeOK
  <2>1. snd \in [Senders -> [ptr : BOOLEAN, th : {"none", "send", "wait", "ended"},
                             stop : 0 .. 1, age : 0 .. Timeout]]
    <3>1. snd = [s \in Senders |-> NoSender]
      BY DEF Init
    <3> QED  BY <3>1, TimeoutAssumption DEF NoSender
  <2>2. rcv \in [Paths -> [ptr : BOOLEAN, msgs : Nat, silent : 0 .. Timeout]]
    <3>1. rcv = [p \in Paths |-> NoReceiver]
      BY DEF Init
    <3> QED  BY <3>1, TimeoutAssumption DEF NoReceiver
  <2>3. lost \in [Paths -> 0 .. Timeout] /\ paths \in 0 .. scene.admin
    <3>1. lost = [p \in Paths |-> 0] /\ paths = scene.admin
      BY DEF Init
    <3> QED  BY <1>0, <3>1, TimeoutAssumption
  <2> QED  BY <2>1, <2>2, <2>3 DEF Init, TypeOK
<1>3. /\ \A a \in Actors : act[a].pc \in {"none", "idle"}
      /\ \A s \in Senders : snd[s] = NoSender
      /\ masked = {} /\ paths = scene.admin
  <2>1. act = [a \in Actors |-> IF a = "inband" THEN Idle ELSE NoThread(a)]
    BY DEF Init
  <2>2. \A a \in Actors : act[a].pc \in {"none", "idle"}
    BY <2>1 DEF Idle, NoThread
  <2> QED  BY <2>2 DEF Init
<1>4. Cardinality(masked) = 0
  BY <1>3, FS_EmptySet
<1>5. StopsOwned /\ OneActive
  BY <1>3 DEF StopsOwned, Stopping, OneActive, NoSender, Resting
<1>6. Counted
  BY <1>0, <1>3, <1>4 DEF Counted
<1>7. PostOK
  BY <1>0, <1>3 DEF PostOK, NoSender
<1> QED  BY <1>1, <1>2, <1>5, <1>6, <1>7 DEF MInv

SenderStates == [ptr : BOOLEAN, th : {"none", "send", "wait", "ended"}, stop : 0 .. 1, age : 0 .. Timeout]
ReceiverStates == [ptr : BOOLEAN, msgs : Nat, silent : 0 .. Timeout]
ActorStates == [pc : {"none", "idle", "wait"} \cup Unmasking \cup Masking, p : Paths \cup {Unset}, val : Int]

\* The state of a thread that is started.
LEMMA FreshSender ==
    /\ NoSender \in SenderStates /\ ~NoSender.ptr /\ NoSender.th = "none" /\ NoSender.stop = 0
    /\ Sending \in SenderStates /\ Sending.ptr /\ Sending.th = "send" /\ Sending.stop = 0
BY TimeoutAssumption DEF NoSender, Sending, SenderStates

\* What the steps below start from.
LEMMA MaskFacts ==
    ASSUME MInv
    PROVE  /\ scene \in Scenes /\ scene.admin \in Nat
           /\ masked \subseteq Paths /\ IsFiniteSet(masked) /\ Cardinality(masked) \in Nat
           /\ paths \in Nat /\ paths <= scene.admin
           /\ snd \in [Senders -> SenderStates] /\ rcv \in [Paths -> ReceiverStates]
           /\ lost \in [Paths -> 0 .. Timeout]
           /\ act \in [Actors -> ActorStates]
<1>1. scene \in Scenes /\ masked \subseteq Paths /\ paths \in 0 .. scene.admin
  BY DEF MInv, TypeOK, ActTypes
<1>2. scene.admin \in Nat
  BY <1>1, ScenesAssumption
<1>3. IsFiniteSet(masked) /\ Cardinality(masked) \in Nat
  BY <1>1, FS_Subset, FS_CardinalityType, PathsAssumption
<1>4. /\ snd \in [Senders -> SenderStates] /\ rcv \in [Paths -> ReceiverStates]
      /\ lost \in [Paths -> 0 .. Timeout] /\ act \in [Actors -> ActorStates]
  BY DEF MInv, TypeOK, ActTypes, SenderStates, ReceiverStates, ActorStates
<1> QED  BY <1>1, <1>2, <1>3, <1>4

\* The steps at the replication, and those of the senders, leave the
\* elimination's count and the mask of its output alone.
LEMMA CountUntouched ==
    ASSUME MInv, UNCHANGED <<masked, paths, act, raced, scene>>,
           pmask' \in [Paths -> BOOLEAN], alive' \subseteq Paths,
           snd' \in [Senders -> SenderStates],
           rcv' \in [Paths -> ReceiverStates],
           lost' \in [Paths -> 0 .. Timeout],
           cmd' \in [pc : {"idle", "join", "delete"}, p : Paths \cup {Unset}, left : Int],
           cmd'.pc # "idle" => cmd'.p \in Paths,
           snd'[Post].ptr = snd[Post].ptr,
           ~raced => /\ \A p \in Paths : Stopping(p)' => cmd'.pc # "idle" /\ cmd'.p = p
                     /\ Stopping(Post)' => Stopping(Post)
    PROVE  MInv'
<1>1. TypeOK'
  BY DEF MInv, TypeOK, SenderStates, ReceiverStates
<1>2. ActTypes'
  BY DEF MInv, ActTypes
<1>3. ASSUME ~raced' PROVE StopsOwned' /\ OneActive' /\ Counted' /\ PostOK'
  <2>1. ~raced /\ StopsOwned /\ OneActive /\ Counted /\ PostOK
    BY <1>3 DEF MInv
  <2>2. StopsOwned'
    BY <2>1 DEF StopsOwned
  <2>3. OneActive'
    BY <2>1 DEF OneActive
  <2>4. Counted'
    BY <2>1 DEF Counted
  <2>5. PostOK'
    BY <2>1 DEF PostOK
  <2> QED  BY <2>2, <2>3, <2>4, <2>5
<1> QED  BY <1>1, <1>2, <1>3 DEF MInv

\* What happens on the paths touches neither senders nor threads.
LEMMA PathStepsKeep ==
    ASSUME MInv, UNCHANGED <<mask_vars, scene>>, lost' \in [Paths -> 0 .. Timeout]
    PROVE  MInv'
<1>1. UNCHANGED <<pmask, alive, cmd, snd, masked, paths, rcv, act, raced, scene>>
  BY DEF mask_vars
<1>2. snd' \in [Senders -> SenderStates] /\ rcv' \in [Paths -> ReceiverStates]
  BY <1>1, MaskFacts
<1>3. pmask' \in [Paths -> BOOLEAN] /\ alive' \subseteq Paths
      /\ cmd' \in [pc : {"idle", "join", "delete"}, p : Paths \cup {Unset}, left : Int]
      /\ (cmd'.pc # "idle" => cmd'.p \in Paths)
  BY <1>1 DEF MInv, TypeOK, ActTypes
<1>4. ~raced => /\ \A p \in Paths : Stopping(p)' => cmd'.pc # "idle" /\ cmd'.p = p
                /\ Stopping(Post)' => Stopping(Post)
  BY <1>1 DEF MInv, StopsOwned, Stopping
<1> QED  BY <1>1, <1>2, <1>3, <1>4, CountUntouched

\* A message goes on, or is lost.
LEMMA LosesKeep ==
    ASSUME MInv, NEW p \in Paths, NEW i, Hop(p, i) \/ Lose(p, i) \/ Request(p)
    PROVE  MInv'
<1>1. UNCHANGED <<mask_vars, scene>>
  BY DEF Hop, Lose, Request
<1>2. lost' \in [Paths -> 0 .. Timeout]
  <2>1. lost \in [Paths -> 0 .. Timeout]
    BY MaskFacts
  <2>2. CASE Hop(p, i) \/ Request(p)
    BY <2>1, <2>2 DEF Hop, Request
  <2>3. CASE Lose(p, i)
    <3>1. \E b \in BOOLEAN : lost' = [lost EXCEPT ![p] = IF b /\ @ < Timeout THEN @ + 1 ELSE @]
      BY <2>3 DEF Lose
    <3> QED  BY <2>1, <3>1, TimeoutAssumption
  <2> QED  BY <2>2, <2>3
<1> QED  BY <1>1, <1>2, PathStepsKeep

\* send_mask_request_thread().
LEMMA SenderKeeps ==
    ASSUME MInv, ~raced, NEW s \in Senders, send_mask_request_thread(s)
    PROVE  MInv'
<1>1. snd \in [Senders -> SenderStates] /\ snd[s] \in SenderStates
  BY MaskFacts
<1>2. UNCHANGED <<pmask, alive, cmd, masked, paths, rcv, act, raced, lost, scene>>
  BY DEF send_mask_request_thread
<1>3. /\ snd' \in [Senders -> SenderStates]
      /\ \A x \in Senders : snd'[x].ptr = snd[x].ptr
      /\ \A x \in Senders : Stopping(x)' => Stopping(x)
  <2>1. CASE snd[s].th = "send" /\ snd' = [snd EXCEPT ![s].th = "wait"]
    BY <1>1, <2>1 DEF SenderStates, Stopping
  <2>2. CASE snd[s].th = "wait" /\ snd[s].stop > 0 /\ snd' = [snd EXCEPT ![s].th = "ended", ![s].stop = @ - 1]
    BY <1>1, <2>2 DEF SenderStates, Stopping
  <2> QED  BY <2>1, <2>2 DEF send_mask_request_thread
<1>4. /\ rcv' \in [Paths -> ReceiverStates] /\ lost' \in [Paths -> 0 .. Timeout]
      /\ pmask' \in [Paths -> BOOLEAN] /\ alive' \subseteq Paths
      /\ cmd' \in [pc : {"idle", "join", "delete"}, p : Paths \cup {Unset}, left : Int]
      /\ (cmd'.pc # "idle" => cmd'.p \in Paths)
  BY <1>2, MaskFacts DEF MInv, TypeOK, ActTypes
<1>5. /\ \A p \in Paths : Stopping(p)' => cmd'.pc # "idle" /\ cmd'.p = p
      /\ Stopping(Post)' => Stopping(Post)
  BY <1>2, <1>3 DEF MInv, StopsOwned
<1> QED  BY <1>2, <1>3, <1>4, <1>5, CountUntouched

\* mask_set() and mask_unset() of the command shell.
LEMMA CommandKeeps ==
    ASSUME MInv, ~raced, NEW p \in Paths,
           mask_set(p) \/ mask_unset(p) \/ oam_unref_maintenance_point(p)
    PROVE  MInv'
<1>1. snd \in [Senders -> SenderStates] /\ snd[p] \in SenderStates /\ p # Post
  BY MaskFacts, PathsAssumption
<1>2. UNCHANGED <<masked, paths, rcv, act, raced, lost, scene>>
  BY DEF mask_set, mask_unset, oam_unref_maintenance_point
<1>3. /\ cmd \in [pc : {"idle", "join", "delete"}, p : Paths \cup {Unset}, left : Int]
      /\ cmd.pc = "idle"
      /\ \A x \in Paths : ~ Stopping(x)
  BY DEF MInv, ActTypes, StopsOwned, mask_set, mask_unset, oam_unref_maintenance_point
<1>4. /\ pmask' \in [Paths -> BOOLEAN] /\ alive' \subseteq Paths
      /\ rcv' \in [Paths -> ReceiverStates] /\ lost' \in [Paths -> 0 .. Timeout]
  <2>1. pmask' \in [Paths -> BOOLEAN] /\ alive' \subseteq Paths
    BY DEF MInv, TypeOK, mask_set, mask_unset, oam_unref_maintenance_point
  <2> QED  BY <1>2, <2>1, MaskFacts
<1>5. snd' = snd \/ snd' = [snd EXCEPT ![p] = Sending]
      => /\ snd' \in [Senders -> SenderStates] /\ snd'[Post].ptr = snd[Post].ptr
         /\ \A x \in Paths : ~ Stopping(x)'
         /\ Stopping(Post)' => Stopping(Post)
  BY <1>1, <1>3, FreshSender DEF Stopping
<1>6. snd' = PushStop(p)
      => /\ snd' \in [Senders -> SenderStates] /\ snd'[Post].ptr = snd[Post].ptr
         /\ \A x \in Paths : Stopping(x)' => x = p
         /\ Stopping(Post)' => Stopping(Post)
  BY <1>1, <1>3 DEF SenderStates, Stopping, PushStop
<1>7. CASE mask_set(p)
  <2>1. snd' = snd \/ snd' = [snd EXCEPT ![p] = Sending]
    BY <1>7 DEF mask_set, mp_initiate_mask_signalling
  <2>2. /\ cmd' \in [pc : {"idle", "join", "delete"}, p : Paths \cup {Unset}, left : Int]
        /\ cmd'.pc = "idle"
    BY <1>3, <1>7 DEF mask_set
  <2> QED  BY <1>2, <1>4, <1>5, <2>1, <2>2, CountUntouched
<1>8. CASE mask_unset(p) \/ oam_unref_maintenance_point(p)
  <2>1. CASE snd[p].ptr
    <3>1. snd' = PushStop(p) /\ \E c \in {"join", "delete"} : cmd' = [pc |-> c, p |-> p, left |-> cmd.left - 1]
      BY <1>8, <2>1 DEF mask_unset, oam_unref_maintenance_point
    <3>2. /\ cmd' \in [pc : {"idle", "join", "delete"}, p : Paths \cup {Unset}, left : Int]
          /\ cmd'.p = p /\ cmd'.pc # "idle"
      BY <1>3, <3>1
    <3> QED  BY <1>2, <1>4, <1>6, <3>1, <3>2, CountUntouched
  <2>2. CASE ~ snd[p].ptr
    <3>1. snd' = snd /\ cmd' = [cmd EXCEPT !.left = @ - 1]
      BY <1>8, <2>2 DEF mask_unset, oam_unref_maintenance_point
    <3>2. /\ cmd' \in [pc : {"idle", "join", "delete"}, p : Paths \cup {Unset}, left : Int]
          /\ cmd'.pc = "idle"
      BY <1>3, <3>1
    <3> QED  BY <1>2, <1>4, <1>5, <3>1, <3>2, CountUntouched
  <2> QED  BY <2>1, <2>2
<1> QED  BY <1>7, <1>8

\* mask_unset() waits for the sender it has stopped, and frees it.
LEMMA JoinKeeps ==
    ASSUME MInv, ~raced, mp_stop_mask_signalling
    PROVE  MInv'
<1>1. snd \in [Senders -> SenderStates] /\ cmd.p \in Paths /\ cmd.p # Post
  BY MaskFacts, PathsAssumption DEF MInv, ActTypes, mp_stop_mask_signalling
<1>2. UNCHANGED <<pmask, alive, masked, paths, rcv, act, raced, lost, scene>>
  BY DEF mp_stop_mask_signalling
<1>3. /\ snd' = [snd EXCEPT ![cmd.p] = NoSender]
      /\ cmd' = [cmd EXCEPT !.pc = "idle", !.p = Unset]
  BY DEF mp_stop_mask_signalling
<1>4. /\ cmd' \in [pc : {"idle", "join", "delete"}, p : Paths \cup {Unset}, left : Int]
      /\ cmd'.pc = "idle"
  BY <1>3 DEF MInv, ActTypes
<1>5. /\ snd' \in [Senders -> SenderStates] /\ snd'[Post] = snd[Post]
      /\ snd'[cmd.p] = NoSender /\ \A x \in Paths : x # cmd.p => snd'[x] = snd[x]
  BY <1>1, <1>3, TimeoutAssumption DEF SenderStates, NoSender
<1>6. /\ \A x \in Paths : ~ Stopping(x)'
      /\ Stopping(Post)' => Stopping(Post)
  BY <1>5 DEF MInv, StopsOwned, Stopping, NoSender
<1>7. /\ pmask' \in [Paths -> BOOLEAN] /\ alive' \subseteq Paths
      /\ rcv' \in [Paths -> ReceiverStates] /\ lost' \in [Paths -> 0 .. Timeout]
  BY <1>2, MaskFacts DEF MInv, TypeOK
<1> QED  BY <1>2, <1>4, <1>5, <1>6, <1>7, CountUntouched

\* A period passes for every thread.
LEMMA PeriodKeeps ==
    ASSUME MInv, ~raced, Period
    PROVE  MInv'
<1>1. snd \in [Senders -> SenderStates] /\ rcv \in [Paths -> ReceiverStates]
  BY MaskFacts
<1>2. UNCHANGED <<pmask, alive, cmd, masked, paths, act, raced, lost, scene>>
  BY DEF Period
<1>3. /\ snd' \in [Senders -> SenderStates]
      /\ \A x \in Senders : snd'[x].ptr = snd[x].ptr /\ ~ Stopping(x)'
  <2>1. \A x \in Senders : snd[x].th \in {"none", "wait"} /\ snd[x].stop = 0
    BY DEF Period
  <2>2. snd' = [s \in Senders |-> IF snd[s].th = "wait"
                               THEN [snd[s] EXCEPT !.th = "send", !.age = IF @ < Timeout THEN @ + 1 ELSE @]
                               ELSE snd[s]]
    BY DEF Period
  <2>3. ASSUME NEW x \in Senders
        PROVE  snd'[x] \in SenderStates /\ snd'[x].ptr = snd[x].ptr /\ snd'[x].stop = 0 /\ snd'[x].th # "ended"
    <3>1. snd[x] \in SenderStates
      BY <1>1
    <3>2. CASE snd[x].th = "wait"
      <4>1. snd'[x] = [snd[x] EXCEPT !.th = "send", !.age = IF @ < Timeout THEN @ + 1 ELSE @]
        BY <2>2, <3>2
      <4>2. /\ snd'[x].ptr = snd[x].ptr /\ snd'[x].th = "send" /\ snd'[x].stop = 0
            /\ snd'[x].age \in 0 .. Timeout
        BY <2>1, <3>1, <4>1, TimeoutAssumption DEF SenderStates
      <4> QED  BY <3>1, <4>1, <4>2 DEF SenderStates
    <3>3. CASE snd[x].th # "wait"
      BY <2>1, <2>2, <3>1, <3>3
    <3> QED  BY <3>2, <3>3
  <2>4. snd' = [s \in Senders |-> snd'[s]]
    BY <2>2
  <2> QED  BY <2>3, <2>4 DEF Stopping
<1>4. rcv' \in [Paths -> ReceiverStates]
  <2>1. \A p \in Paths : act[p].pc = "wait" => rcv[p].silent < Timeout
    BY DEF Period
  <2>2. rcv' = [p \in Paths |-> [rcv[p] EXCEPT !.silent = IF act[p].pc = "wait" THEN @ + 1 ELSE @]]
    BY DEF Period
  <2> QED  BY <1>1, <2>1, <2>2, TimeoutAssumption DEF ReceiverStates
<1>5. /\ pmask' \in [Paths -> BOOLEAN] /\ alive' \subseteq Paths
      /\ lost' \in [Paths -> 0 .. Timeout]
      /\ cmd' \in [pc : {"idle", "join", "delete"}, p : Paths \cup {Unset}, left : Int]
      /\ (cmd'.pc # "idle" => cmd'.p \in Paths)
  BY <1>2, MaskFacts DEF MInv, TypeOK, ActTypes
<1> QED  BY <1>2, <1>3, <1>4, <1>5, CountUntouched
\* Counted and PostOK for the only thread that may be masking or unmasking.
CountOf(a) ==
  /\ act[a].pc = "m_write" =>
       /\ act[a].p \in masked /\ act[a].val = paths /\ paths > 0
       /\ paths = scene.admin - Cardinality(masked) + 1
  /\ act[a].pc = "u_set" => act[a].p \in masked
  /\ act[a].pc = "u_write" =>
       /\ act[a].p \notin masked /\ act[a].val = paths
       /\ paths = scene.admin - Cardinality(masked) - 1
  /\ act[a].pc \notin {"m_write", "u_write"} => paths = scene.admin - Cardinality(masked)

PostOf(a) ==
  /\ act[a].pc \in {"u_stop", "u_join"} => paths = 1
  /\ act[a].pc \notin {"u_stop", "u_join"} => (snd[Post].ptr <=> paths = 0 /\ scene.admin > 0)
  /\ Stopping(Post) => act[a].pc = "u_join"

\* Without a race, a thread that masks or unmasks is the only one.
LEMMA Alone ==
    ASSUME MInv, ~raced, NEW a \in Actors,
           \/ act[a].pc \notin Resting
           \/ \A b \in Actors : b # a => act[b].pc \in Resting
    PROVE  /\ \A b \in Actors : b # a => act[b].pc \in Resting
           /\ CountOf(a) /\ PostOf(a)
<1>1. OneActive /\ Counted /\ PostOK /\ StopsOwned
  BY DEF MInv
<1>2. \A b \in Actors : b # a => act[b].pc \in Resting
  BY <1>1 DEF OneActive
<1>3. \A b \in Actors : b # a => act[b].pc \notin {"m_write", "u_write", "u_set", "u_stop", "u_join"}
  BY <1>2 DEF Resting
<1>4. CountOf(a)
  BY <1>1, <1>3 DEF Counted, CountOf
<1>5. PostOf(a)
  BY <1>1, <1>3 DEF PostOK, PostOf, StopsOwned
<1> QED  BY <1>2, <1>4, <1>5

\* A step of thread a keeps the invariant when it keeps what is about a.
LEMMA ActorStep ==
    ASSUME MInv, ~raced, NEW a \in Actors, UNCHANGED <<pmask, alive, cmd, scene>>,
           masked' \subseteq Paths, paths' \in 0 .. scene.admin,
           snd' \in [Senders -> SenderStates], \A p \in Paths : snd'[p] = snd[p],
           rcv' \in [Paths -> ReceiverStates], lost' \in [Paths -> 0 .. Timeout],
           raced' \in BOOLEAN, ActTypes',
           ~raced' => /\ \A b \in Actors : b # a => act'[b].pc \in Resting
                      /\ CountOf(a)' /\ PostOf(a)'
    PROVE  MInv'
<1>1. TypeOK'
  BY DEF MInv, TypeOK, SenderStates, ReceiverStates
<1>2. ASSUME ~raced' PROVE StopsOwned' /\ OneActive' /\ Counted' /\ PostOK'
  <2>1. \A b \in Actors : b # a => act'[b].pc \notin {"m_write", "u_write", "u_set", "u_stop", "u_join"}
    BY <1>2 DEF Resting
  <2>2. OneActive'
    BY <1>2 DEF OneActive
  <2>3. Counted'
    BY <1>2, <2>1 DEF Counted, CountOf
  <2>4. PostOK'
    BY <1>2, <2>1 DEF PostOK, PostOf
  <2>5. StopsOwned'
    BY <1>2 DEF MInv, StopsOwned, PostOf, Stopping
  <2> QED  BY <2>2, <2>3, <2>4, <2>5
<1> QED  BY <1>1, <1>2 DEF MInv

\* A step of thread a changes its own state only.
LEMMA ActorTypes ==
    ASSUME MInv, NEW a \in Actors, NEW c \in Unmasking \cup Masking, NEW v \in Int,
           act[a].pc \in Unmasking \cup Masking, c \in Masking => a = "inband",
           \/ Goto(a, c) /\ v = act[a].val
           \/ act' = [act EXCEPT ![a].pc = c, ![a].val = v],
           UNCHANGED <<cmd, scene>>
    PROVE  /\ ActTypes'
           /\ act'[a].pc = c /\ act'[a].val = v /\ act'[a].p = act[a].p
           /\ \A b \in Actors : b # a => act'[b] = act[b]
<1>1. act \in [Actors -> ActorStates] /\ act[a] \in ActorStates
  BY MaskFacts
<1>2. /\ act'[a].pc = c /\ act'[a].val = v /\ act'[a].p = act[a].p
      /\ \A b \in Actors : b # a => act'[b] = act[b]
  BY <1>1 DEF ActorStates, Goto
<1>3. act' \in [Actors -> ActorStates]
  BY <1>1 DEF ActorStates, Goto
<1>4. "inband" \in Actors /\ \A p \in Paths : p \in Actors /\ p # "inband"
  BY PathsAssumption
<1>5. \A p \in Paths : act'[p].p = p /\ act'[p].pc \in {"none", "wait"} \cup Unmasking
  BY <1>2, <1>4 DEF MInv, ActTypes
<1>6. /\ act'["inband"].pc \in {"idle"} \cup Unmasking \cup Masking
      /\ act'["inband"].pc # "idle" => act'["inband"].p \in Paths
  BY <1>2, <1>4 DEF MInv, ActTypes, Unmasking, Masking
<1> QED  BY <1>2, <1>3, <1>5, <1>6 DEF MInv, ActTypes, ActorStates

\* seq_rec_path_masked().
LEMMA MaskWriteKeeps ==
    ASSUME MInv, ~raced, seq_rec_path_masked
    PROVE  MInv'
<1> DEFINE a == "inband"
<1>1. a \in Actors /\ act[a].pc = "m_write" /\ act[a] \in ActorStates
  BY MaskFacts DEF seq_rec_path_masked
<1>2. /\ paths' = act[a].val - 1 /\ Goto(a, "m_launch")
      /\ snd' = IF paths' = 0 THEN mp_initiate_mask_signalling(Post) ELSE snd
      /\ UNCHANGED <<pmask, alive, cmd, masked, rcv, raced, lost, scene>>
  BY DEF seq_rec_path_masked
<1>3. (\A b \in Actors : b # a => act[b].pc \in Resting) /\ CountOf(a) /\ PostOf(a)
  BY <1>1, Alone DEF Resting
<1>4. ActTypes' /\ act'[a].pc = "m_launch" /\ \A b \in Actors : b # a => act'[b] = act[b]
  BY <1>1, <1>2, ActorTypes DEF Masking, ActorStates
<1>5. /\ paths \in Nat /\ scene.admin \in Nat /\ Cardinality(masked) \in Nat /\ paths <= scene.admin
      /\ snd \in [Senders -> SenderStates] /\ Post \in Senders /\ \A p \in Paths : p # Post
  BY MaskFacts, PathsAssumption
<1>6. /\ paths' = paths - 1 /\ paths > 0 /\ scene.admin > 0 /\ ~ snd[Post].ptr /\ ~ Stopping(Post)
      /\ paths' = scene.admin - Cardinality(masked)
  BY <1>1, <1>2, <1>3, <1>5 DEF CountOf, PostOf
<1>7. /\ snd' \in [Senders -> SenderStates] /\ \A p \in Paths : snd'[p] = snd[p]
      /\ snd'[Post].ptr <=> paths' = 0
      /\ ~ Stopping(Post)'
  <2>1. CASE paths' = 0
    <3>1. snd' = [snd EXCEPT ![Post] = Sending]
      BY <1>2, <1>6, <2>1 DEF mp_initiate_mask_signalling
    <3>2. snd' \in [Senders -> SenderStates] /\ snd'[Post] = Sending /\ \A p \in Paths : snd'[p] = snd[p]
      BY <1>5, <3>1, FreshSender
    <3> QED  BY <2>1, <3>2, FreshSender DEF Stopping
  <2>2. CASE paths' # 0
    BY <1>2, <1>5, <1>6, <2>2 DEF Stopping
  <2> QED  BY <2>1, <2>2
<1>8. CountOf(a)' /\ PostOf(a)'
  <2>1. CountOf(a)'
    BY <1>2, <1>4, <1>6 DEF CountOf
  <2>2. PostOf(a)'
    BY <1>2, <1>4, <1>6, <1>7 DEF PostOf
  <2> QED  BY <2>1, <2>2
<1>9. /\ masked' \subseteq Paths /\ paths' \in 0 .. scene.admin /\ raced' \in BOOLEAN
      /\ rcv' \in [Paths -> ReceiverStates] /\ lost' \in [Paths -> 0 .. Timeout]
  BY <1>2, <1>5, <1>6, MaskFacts DEF MInv, TypeOK
<1>10. \A b \in Actors : b # a => act'[b].pc \in Resting
  BY <1>3, <1>4
<1> QED  BY <1>1, <1>2, <1>4, <1>7, <1>8, <1>9, <1>10, ActorStep

\* seq_rec_path_unmasked(): the check.
LEMMA UnmaskCheckKeeps ==
    ASSUME MInv, ~raced, NEW a \in Actors, UnmaskCheck(a)
    PROVE  MInv'
<1>1. act[a].pc = "u_check" /\ act[a] \in ActorStates
  BY MaskFacts DEF UnmaskCheck
<1>2. PICK c \in {"u_set", "u_fail"} : Goto(a, c) /\ (c = "u_set" => act[a].p \in masked)
  BY DEF UnmaskCheck
<1>3. UNCHANGED <<pmask, alive, cmd, snd, masked, paths, rcv, raced, lost, scene>>
  BY DEF UnmaskCheck
<1>4. (\A b \in Actors : b # a => act[b].pc \in Resting) /\ CountOf(a) /\ PostOf(a)
  BY <1>1, Alone DEF Resting
<1>5. /\ ActTypes' /\ act'[a].pc = c /\ act'[a].p = act[a].p
      /\ \A b \in Actors : b # a => act'[b] = act[b]
  <2>1. /\ c \in Unmasking \cup Masking /\ c \notin Masking /\ act[a].pc \in Unmasking \cup Masking
        /\ act[a].val \in Int
    BY <1>1 DEF Unmasking, Masking, ActorStates
  <2> QED  BY <1>2, <1>3, <2>1, ActorTypes
<1>6. CountOf(a)'
  BY <1>1, <1>2, <1>3, <1>4, <1>5 DEF CountOf
<1>7. PostOf(a)'
  BY <1>1, <1>2, <1>3, <1>4, <1>5 DEF PostOf, Stopping
<1>8. /\ masked' \subseteq Paths /\ paths' \in 0 .. scene.admin /\ raced' \in BOOLEAN
      /\ rcv' \in [Paths -> ReceiverStates] /\ lost' \in [Paths -> 0 .. Timeout]
      /\ snd' \in [Senders -> SenderStates] /\ \A p \in Paths : snd'[p] = snd[p]
  BY <1>3, MaskFacts DEF MInv, TypeOK
<1>9. \A b \in Actors : b # a => act'[b].pc \in Resting
  BY <1>4, <1>5
<1> QED  BY <1>3, <1>5, <1>6, <1>7, <1>8, <1>9, ActorStep

\* The flag of the path is taken away.
LEMMA UnmaskSetKeeps ==
    ASSUME MInv, ~raced, NEW a \in Actors, UnmaskSet(a)
    PROVE  MInv'
<1>1. act[a].pc = "u_set" /\ act[a] \in ActorStates
  BY MaskFacts DEF UnmaskSet
<1>2. /\ masked' = masked \ {act[a].p} /\ act' = [act EXCEPT ![a].pc = "u_write", ![a].val = paths]
      /\ UNCHANGED <<pmask, alive, cmd, snd, paths, rcv, raced, lost, scene>>
  BY DEF UnmaskSet
<1>3. (\A b \in Actors : b # a => act[b].pc \in Resting) /\ CountOf(a) /\ PostOf(a)
  BY <1>1, Alone DEF Resting
<1>4. /\ paths \in Nat /\ scene.admin \in Nat /\ IsFiniteSet(masked) /\ Cardinality(masked) \in Nat
  BY MaskFacts
<1>5. /\ ActTypes' /\ act'[a].pc = "u_write" /\ act'[a].p = act[a].p /\ act'[a].val = paths
      /\ \A b \in Actors : b # a => act'[b] = act[b]
  <2>1. /\ "u_write" \in Unmasking \cup Masking /\ "u_write" \notin Masking
        /\ act[a].pc \in Unmasking \cup Masking /\ paths \in Int
    BY <1>1, <1>4 DEF Unmasking, Masking
  <2> QED  BY <1>2, <2>1, ActorTypes
<1>6. act[a].p \in masked /\ paths = scene.admin - Cardinality(masked)
  BY <1>1, <1>3 DEF CountOf
<1>7. Cardinality(masked') = Cardinality(masked) - 1
  BY <1>2, <1>4, <1>6, FS_RemoveElement
<1>8. CountOf(a)'
  <2>1. paths' = scene.admin' - Cardinality(masked)' - 1
    BY <1>2, <1>4, <1>6, <1>7
  <2> QED  BY <1>2, <1>5, <2>1 DEF CountOf
<1>9. PostOf(a)'
  BY <1>1, <1>2, <1>3, <1>5 DEF PostOf, Stopping
<1>10. /\ masked' \subseteq Paths /\ paths' \in 0 .. scene.admin /\ raced' \in BOOLEAN
       /\ rcv' \in [Paths -> ReceiverStates] /\ lost' \in [Paths -> 0 .. Timeout]
       /\ snd' \in [Senders -> SenderStates] /\ \A p \in Paths : snd'[p] = snd[p]
  BY <1>2, MaskFacts DEF MInv, TypeOK
<1>11. \A b \in Actors : b # a => act'[b].pc \in Resting
  BY <1>3, <1>5
<1> QED  BY <1>2, <1>5, <1>8, <1>9, <1>10, <1>11, ActorStep

\* The path is counted again.
LEMMA UnmaskWriteKeeps ==
    ASSUME MInv, ~raced, NEW a \in Actors, UnmaskWrite(a)
    PROVE  MInv'
<1>1. act[a].pc = "u_write" /\ act[a] \in ActorStates
  BY MaskFacts DEF UnmaskWrite
<1>2. /\ paths' = act[a].val + 1
      /\ UNCHANGED <<pmask, alive, cmd, snd, masked, rcv, raced, lost, scene>>
  BY DEF UnmaskWrite
<1>3. PICK c \in {"u_stop", "u_done"} : Goto(a, c) /\ (c = "u_stop" <=> paths' = 1)
  BY DEF UnmaskWrite, FirstUnmasked
<1>4. (\A b \in Actors : b # a => act[b].pc \in Resting) /\ CountOf(a) /\ PostOf(a)
  BY <1>1, Alone DEF Resting
<1>5. /\ paths \in Nat /\ scene.admin \in Nat /\ Cardinality(masked) \in Nat
  BY MaskFacts
<1>6. /\ ActTypes' /\ act'[a].pc = c /\ \A b \in Actors : b # a => act'[b] = act[b]
  <2>1. /\ c \in Unmasking \cup Masking /\ c \notin Masking /\ act[a].pc \in Unmasking \cup Masking
        /\ act[a].val \in Int
    BY <1>1 DEF Unmasking, Masking, ActorStates
  <2> QED  BY <1>2, <1>3, <2>1, ActorTypes
<1>7. paths' = paths + 1 /\ paths' = scene.admin - Cardinality(masked) /\ scene.admin > 0
  BY <1>1, <1>2, <1>4, <1>5 DEF CountOf
<1>8. CountOf(a)'
  BY <1>2, <1>3, <1>6, <1>7 DEF CountOf
<1>9. PostOf(a)'
  <2>1. ~ Stopping(Post)' /\ (snd'[Post].ptr <=> paths = 0)
    BY <1>1, <1>2, <1>4, <1>7 DEF PostOf, Stopping
  <2>2. CASE c = "u_stop"
    BY <1>3, <1>6, <2>1, <2>2 DEF PostOf
  <2>3. CASE c = "u_done"
    BY <1>3, <1>5, <1>6, <1>7, <2>1, <2>3 DEF PostOf
  <2> QED  BY <2>2, <2>3
<1>10. /\ masked' \subseteq Paths /\ paths' \in 0 .. scene.admin /\ raced' \in BOOLEAN
       /\ rcv' \in [Paths -> ReceiverStates] /\ lost' \in [Paths -> 0 .. Timeout]
       /\ snd' \in [Senders -> SenderStates] /\ \A p \in Paths : snd'[p] = snd[p]
  BY <1>2, <1>5, <1>7, MaskFacts DEF MInv, TypeOK
<1>11. \A b \in Actors : b # a => act'[b].pc \in Resting
  BY <1>4, <1>6
<1> QED  BY <1>2, <1>6, <1>8, <1>9, <1>10, <1>11, ActorStep

\* The mask of the output is stopped, and its thread joined.
LEMMA StopPostKeeps ==
    ASSUME MInv, ~raced, NEW a \in Actors, StopPost(a)
    PROVE  MInv'
<1>1. act[a].pc \in {"u_stop", "u_join"} /\ act[a] \in ActorStates
  BY MaskFacts DEF StopPost
<1>2. UNCHANGED <<pmask, alive, cmd, masked, paths, rcv, raced, lost, scene>>
  BY DEF StopPost
<1>3. PICK c \in {"u_join", "u_done"} : Goto(a, c)
  BY DEF StopPost
<1>4. (\A b \in Actors : b # a => act[b].pc \in Resting) /\ CountOf(a) /\ PostOf(a)
  BY <1>1, Alone DEF Resting
<1>5. /\ ActTypes' /\ act'[a].pc = c /\ \A b \in Actors : b # a => act'[b] = act[b]
  <2>1. /\ c \in Unmasking \cup Masking /\ c \notin Masking /\ act[a].pc \in Unmasking \cup Masking
        /\ act[a].val \in Int
    BY <1>1 DEF Unmasking, Masking, ActorStates
  <2> QED  BY <1>2, <1>3, <2>1, ActorTypes
<1>6. snd \in [Senders -> SenderStates] /\ Post \in Senders /\ \A p \in Paths : p # Post
  BY MaskFacts, PathsAssumption
<1>7. /\ snd' \in [Senders -> SenderStates] /\ \A p \in Paths : snd'[p] = snd[p]
      /\ c = "u_done" => ~ snd'[Post].ptr /\ ~ Stopping(Post)'
  <2>1. CASE act[a].pc = "u_stop" /\ snd[Post].ptr
    <3>1. snd' = PushStop(Post) /\ Goto(a, "u_join")
      BY <2>1 DEF StopPost
    <3>2. c = "u_join"
      <4>1. act'[a].pc = "u_join"
        BY <1>1, <1>2, <3>1, ActorTypes DEF Unmasking, Masking, ActorStates
      <4> QED  BY <1>5, <4>1
    <3>3. snd[Post].stop = 0
      BY <1>4, <1>6, <2>1 DEF PostOf, Stopping, SenderStates
    <3> QED  BY <1>6, <3>1, <3>2, <3>3 DEF SenderStates, PushStop
  <2>2. CASE act[a].pc = "u_stop" /\ ~ snd[Post].ptr
    <3>1. snd' = snd
      BY <2>2 DEF StopPost
    <3> QED  BY <1>4, <1>6, <2>2, <3>1 DEF PostOf, Stopping
  <2>3. CASE act[a].pc = "u_join"
    <3>1. snd' = [snd EXCEPT ![Post] = NoSender]
      BY <2>3 DEF StopPost
    <3> QED  BY <1>6, <3>1, TimeoutAssumption DEF SenderStates, NoSender, Stopping
  <2> QED  BY <1>1, <2>1, <2>2, <2>3
<1>8. CountOf(a)'
  BY <1>1, <1>2, <1>3, <1>4, <1>5 DEF CountOf
<1>9. PostOf(a)'
  BY <1>1, <1>2, <1>3, <1>4, <1>5, <1>7 DEF PostOf
<1>10. /\ masked' \subseteq Paths /\ paths' \in 0 .. scene.admin /\ raced' \in BOOLEAN
       /\ rcv' \in [Paths -> ReceiverStates] /\ lost' \in [Paths -> 0 .. Timeout]
  BY <1>2, MaskFacts DEF MInv, TypeOK
<1>11. \A b \in Actors : b # a => act'[b].pc \in Resting
  BY <1>4, <1>5
<1> QED  BY <1>2, <1>5, <1>7, <1>8, <1>9, <1>10, <1>11, ActorStep

\* The threads rest when the masking or unmasking is done.
LEMMA RestKeeps ==
    ASSUME MInv, ~raced, NEW a \in Actors, act[a].pc \in Unmasking \cup Masking,
           act[a].pc \notin {"m_write", "u_write", "u_stop", "u_join"},
           UNCHANGED <<pmask, alive, cmd, snd, masked, paths, raced, lost, scene>>,
           rcv' \in [Paths -> ReceiverStates], ActTypes',
           \A b \in Actors : act'[b].pc \in Resting
    PROVE  MInv'
<1>1. (\A b \in Actors : b # a => act[b].pc \in Resting) /\ CountOf(a) /\ PostOf(a)
  BY Alone DEF Resting, Unmasking, Masking
<1>2. CountOf(a)'
  BY <1>1 DEF CountOf, Resting
<1>3. PostOf(a)'
  BY <1>1 DEF PostOf, Resting, Stopping
<1>4. /\ masked' \subseteq Paths /\ paths' \in 0 .. scene.admin /\ raced' \in BOOLEAN
      /\ lost' \in [Paths -> 0 .. Timeout]
      /\ snd' \in [Senders -> SenderStates] /\ \A p \in Paths : snd'[p] = snd[p]
  BY MaskFacts DEF MInv, TypeOK
<1> QED  BY <1>2, <1>3, <1>4, ActorStep

\* The threads of a masked path, and of the output, are started.
LEMMA LaunchKeeps ==
    ASSUME MInv, ~raced, LaunchTimeout
    PROVE  MInv'
<1> DEFINE p == act["inband"].p
<1>1. /\ act["inband"].pc = "m_launch"
      /\ rcv' = [rcv EXCEPT ![p].ptr = TRUE, ![p].silent = 0]
      /\ act' = [act EXCEPT ![p].pc = "wait", !["inband"] = Idle]
      /\ UNCHANGED <<pmask, alive, cmd, snd, masked, paths, raced, lost, scene>>
  BY DEF LaunchTimeout
<1>2. /\ act \in [Actors -> ActorStates] /\ rcv \in [Paths -> ReceiverStates]
      /\ p \in Paths /\ "inband" \in Actors /\ \A q \in Paths : q \in Actors /\ q # "inband"
  BY <1>1, MaskFacts, PathsAssumption DEF MInv, ActTypes
<1>3. \A b \in Actors : b # "inband" => act[b].pc \in Resting
  BY <1>1, <1>2, Alone DEF Resting
<1>4. rcv' \in [Paths -> ReceiverStates]
  <2>1. rcv[p] \in ReceiverStates
    BY <1>2
  <2> HIDE DEF p
  <2>2. rcv'[p].ptr \in BOOLEAN /\ rcv'[p].msgs \in Nat /\ rcv'[p].silent \in 0 .. Timeout
    BY <1>1, <1>2, <2>1, TimeoutAssumption DEF ReceiverStates
  <2> QED  BY <1>1, <1>2, <2>1, <2>2 DEF ReceiverStates
<1>5. /\ act' \in [Actors -> ActorStates] /\ act'["inband"] = Idle
      /\ act'[p].pc = "wait" /\ act'[p].p = act[p].p
      /\ \A b \in Actors : b # "inband" /\ b # p => act'[b] = act[b]
  BY <1>1, <1>2 DEF ActorStates, Idle
<1>6. \A b \in Actors : act'[b].pc \in Resting
  BY <1>3, <1>5 DEF Resting, Idle
<1>7. ActTypes'
  <2>1. \A q \in Paths : act'[q].p = q /\ act'[q].pc \in {"none", "wait"} \cup Unmasking
    BY <1>2, <1>5 DEF MInv, ActTypes
  <2>2. act'["inband"].pc = "idle"
    BY <1>5 DEF Idle
  <2> QED  BY <1>1, <1>5, <2>1, <2>2 DEF MInv, ActTypes, ActorStates
<1> QED  BY <1>1, <1>2, <1>4, <1>6, <1>7, RestKeeps DEF Masking

\* The thread of the unmasked path is told to stop, and ends.
LEMMA UnmaskDoneKeeps ==
    ASSUME MInv, ~raced, NEW a \in Actors, UnmaskDone(a)
    PROVE  MInv'
<1> DEFINE p == act[a].p
           stops == a = p \/ act[a].pc = "u_done"
<1>1. /\ act[a].pc \in {"u_done", "u_fail"}
      /\ rcv' = IF stops THEN [rcv EXCEPT ![p].ptr = FALSE, ![p].silent = 0] ELSE rcv
      /\ act' = [b \in Actors |-> CASE stops /\ b = p -> NoThread(p)
                                      [] b = a /\ b = "inband" -> Idle
                                      [] OTHER -> act[b]]
      /\ UNCHANGED <<pmask, alive, cmd, snd, masked, paths, raced, lost, scene>>
  BY DEF UnmaskDone
<1>2. /\ act \in [Actors -> ActorStates] /\ rcv \in [Paths -> ReceiverStates]
      /\ "inband" \in Actors /\ \A q \in Paths : q \in Actors /\ q # "inband"
  BY MaskFacts, PathsAssumption
<1>3. p \in Paths /\ (a # "inband" => a = p)
  BY <1>1 DEF MInv, ActTypes
<1>4. \A b \in Actors : b # a => act[b].pc \in Resting
  BY <1>1, Alone DEF Resting
<1> HIDE DEF p, stops
<1>5. a # "inband" => stops
  BY <1>3 DEF stops
<1>6. rcv' \in [Paths -> ReceiverStates]
  <2>1. rcv[p] \in ReceiverStates
    BY <1>2, <1>3
  <2>2. CASE stops
    <3>1. rcv' = [rcv EXCEPT ![p].ptr = FALSE, ![p].silent = 0]
      BY <1>1, <2>2
    <3>2. rcv'[p].ptr \in BOOLEAN /\ rcv'[p].msgs \in Nat /\ rcv'[p].silent \in 0 .. Timeout
      BY <1>2, <1>3, <2>1, <3>1, TimeoutAssumption DEF ReceiverStates
    <3> QED  BY <1>2, <1>3, <2>1, <3>1, <3>2 DEF ReceiverStates
  <2> QED  BY <1>1, <1>2, <2>2
<1>7. \A b \in Actors :
         \/ b = p /\ stops /\ act'[b] = NoThread(p)
         \/ b = a /\ b = "inband" /\ act'[b] = Idle
         \/ b # a /\ act'[b] = act[b]
  <2> TAKE b \in Actors
  <2>1. CASE stops /\ b = p
    BY <1>1, <2>1
  <2>2. CASE ~ (stops /\ b = p) /\ b = a /\ b = "inband"
    BY <1>1, <2>2
  <2>3. CASE ~ (stops /\ b = p) /\ ~ (b = a /\ b = "inband")
    BY <1>1, <1>3, <1>5, <2>3
  <2> QED  BY <2>1, <2>2, <2>3
<1>8. act' \in [Actors -> ActorStates]
  <2>1. Idle \in ActorStates /\ NoThread(p) \in ActorStates
    BY <1>3 DEF ActorStates, Idle, NoThread
  <2>2. \A b \in Actors : act'[b] \in ActorStates
    <3> TAKE b \in Actors
    <3>1. act[b] \in ActorStates
      BY <1>2
    <3> QED  BY <1>7, <2>1, <3>1, Zenon
  <2>3. act' = [b \in Actors |-> act'[b]]
    BY <1>1
  <2> QED  BY <2>2, <2>3
<1>9. \A b \in Actors : act'[b].pc \in Resting
  BY <1>4, <1>7 DEF Resting, Idle, NoThread
<1>10. ActTypes'
  <2>1. \A q \in Paths : act'[q].p = q /\ act'[q].pc \in {"none", "wait"} \cup Unmasking
    BY <1>2, <1>7 DEF MInv, ActTypes, NoThread
  <2>2. /\ act'["inband"].pc \in {"idle"} \cup Unmasking \cup Masking
        /\ act'["inband"].pc # "idle" => act'["inband"].p \in Paths
    BY <1>2, <1>3, <1>7 DEF MInv, ActTypes, Idle
  <2> QED  BY <1>1, <1>8, <2>1, <2>2 DEF MInv, ActTypes, ActorStates
<1> QED  BY <1>1, <1>6, <1>9, <1>10, RestKeeps DEF Unmasking

\* A thread begins to mask or to unmask.
LEMMA EnterKeeps ==
    ASSUME MInv, ~raced, NEW a \in Actors, NEW c \in {"m_write", "u_check"}, NEW q \in Paths, NEW v \in Int,
           act[a].pc \in Resting, c = "m_write" => a = "inband", a # "inband" => q = a,
           \/ act' = [act EXCEPT ![a] = [pc |-> c, p |-> q, val |-> v]]
           \/ Goto(a, c) /\ q = act[a].p /\ v = act[a].val,
           Enters(a), UNCHANGED <<pmask, alive, cmd, snd, paths, scene>>,
           masked' \subseteq Paths,
           rcv' \in [Paths -> ReceiverStates], lost' \in [Paths -> 0 .. Timeout],
           c = "m_write" => v = paths /\ paths > 0 /\ q \notin masked /\ masked' = masked \cup {q},
           c = "u_check" => masked' = masked
    PROVE  MInv'
<1>1. /\ act \in [Actors -> ActorStates] /\ act[a] \in ActorStates
      /\ "inband" \in Actors /\ \A p \in Paths : p \in Actors /\ p # "inband"
  BY MaskFacts, PathsAssumption
<1>2. /\ act' \in [Actors -> ActorStates]
      /\ act'[a].pc = c /\ act'[a].p = q /\ act'[a].val = v
      /\ \A b \in Actors : b # a => act'[b] = act[b]
  BY <1>1 DEF ActorStates, Goto, Unmasking, Masking
<1>3. ActTypes'
  <2>1. \A p \in Paths : act'[p].p = p /\ act'[p].pc \in {"none", "wait"} \cup Unmasking
    BY <1>1, <1>2 DEF MInv, ActTypes, Unmasking
  <2>2. /\ act'["inband"].pc \in {"idle"} \cup Unmasking \cup Masking
        /\ act'["inband"].pc # "idle" => act'["inband"].p \in Paths
    BY <1>1, <1>2 DEF MInv, ActTypes, Unmasking, Masking
  <2> QED  BY <1>2, <2>1, <2>2 DEF MInv, ActTypes, ActorStates
<1>4. raced' \in BOOLEAN /\ (~raced' => \A b \in Actors : b # a => act[b].pc \in Resting)
  BY DEF Enters
<1>5. ASSUME ~raced'
      PROVE  (\A b \in Actors : b # a => act'[b].pc \in Resting) /\ CountOf(a)' /\ PostOf(a)'
  <2>1. (\A b \in Actors : b # a => act[b].pc \in Resting) /\ CountOf(a) /\ PostOf(a)
    BY <1>4, <1>5, Alone
  <2>2. paths = scene.admin - Cardinality(masked) /\ ~ Stopping(Post)
        /\ (snd[Post].ptr <=> paths = 0 /\ scene.admin > 0)
    BY <2>1 DEF CountOf, PostOf, Resting
  <2>3. PostOf(a)'
    BY <1>2, <2>2 DEF PostOf, Stopping
  <2>4. CASE c = "u_check"
    <3>1. CountOf(a)'
      BY <1>2, <2>2, <2>4 DEF CountOf
    <3> QED  BY <1>2, <2>1, <2>3, <3>1
  <2>5. CASE c = "m_write"
    <3>1. Cardinality(masked') = Cardinality(masked) + 1
      BY <2>5, MaskFacts, FS_AddElement
    <3>2. paths' = scene.admin' - Cardinality(masked)' + 1
      BY <2>2, <3>1, MaskFacts
    <3>3. CountOf(a)'
      BY <1>2, <2>5, <3>2 DEF CountOf
    <3> QED  BY <1>2, <2>1, <2>3, <3>3
  <2> QED  BY <2>4, <2>5
<1>6. /\ paths' \in 0 .. scene.admin
      /\ snd' \in [Senders -> SenderStates] /\ \A p \in Paths : snd'[p] = snd[p]
  BY MaskFacts
<1> QED  BY <1>3, <1>4, <1>5, <1>6, ActorStep

\* mp_receive_mask_signal().
LEMMA ReceiveMaskKeeps ==
    ASSUME MInv, ~raced, NEW p \in Paths, mp_receive_mask_signal(p)
    PROVE  MInv'
<1>1. /\ act["inband"].pc = "idle" /\ "inband" \in Actors
      /\ lost' = [lost EXCEPT ![p] = 0]
      /\ UNCHANGED <<pmask, alive, cmd, snd, paths, scene>>
  BY DEF mp_receive_mask_signal, Taken
<1>2. lost' \in [Paths -> 0 .. Timeout] /\ rcv \in [Paths -> ReceiverStates]
  BY <1>1, MaskFacts, TimeoutAssumption
<1>3. CASE ~rcv[p].ptr /\ CanMask(p)
  <2>1. /\ p \notin masked /\ paths > 0 /\ masked' = masked \cup {p}
        /\ act' = [act EXCEPT !["inband"] = [pc |-> "m_write", p |-> p, val |-> paths]]
        /\ Enters("inband") /\ rcv' = rcv
    BY <1>3 DEF mp_receive_mask_signal, CanMask
  <2>2. masked' \subseteq Paths /\ paths \in Int
    BY <2>1, MaskFacts
  <2> QED  BY <1>1, <1>2, <2>1, <2>2, EnterKeeps DEF Resting
<1>4. CASE rcv[p].ptr \/ ~CanMask(p)
  <2>1. UNCHANGED <<masked, act, raced>>
        /\ (rcv' = rcv \/ rcv' = [rcv EXCEPT ![p].msgs = @ + 1])
    BY <1>4 DEF mp_receive_mask_signal
  <2>2. rcv' \in [Paths -> ReceiverStates]
    BY <1>2, <2>1 DEF ReceiverStates
  <2>3. snd' \in [Senders -> SenderStates]
    BY <1>1, MaskFacts
  <2>4. /\ pmask' \in [Paths -> BOOLEAN] /\ alive' \subseteq Paths
        /\ cmd' \in [pc : {"idle", "join", "delete"}, p : Paths \cup {Unset}, left : Int]
        /\ (cmd'.pc # "idle" => cmd'.p \in Paths)
    BY <1>1 DEF MInv, TypeOK, ActTypes
  <2>5. /\ \A x \in Paths : Stopping(x)' => cmd'.pc # "idle" /\ cmd'.p = x
        /\ Stopping(Post)' => Stopping(Post)
    BY <1>1 DEF MInv, StopsOwned, Stopping
  <2> QED  BY <1>1, <1>2, <2>1, <2>2, <2>3, <2>4, <2>5, CountUntouched
<1> QED  BY <1>3, <1>4

\* mp_receive_unmask_signal().
LEMMA ReceiveUnmaskKeeps ==
    ASSUME MInv, ~raced, NEW p \in Paths, mp_receive_unmask_signal(p)
    PROVE  MInv'
<1>1. /\ act["inband"].pc = "idle" /\ "inband" \in Actors
      /\ lost' = [lost EXCEPT ![p] = 0]
      /\ UNCHANGED <<pmask, alive, cmd, snd, masked, paths, rcv, scene>>
  BY DEF mp_receive_unmask_signal, Taken
<1>2. lost' \in [Paths -> 0 .. Timeout] /\ rcv' \in [Paths -> ReceiverStates] /\ masked' \subseteq Paths
  BY <1>1, MaskFacts, TimeoutAssumption
<1>3. CASE rcv[p].ptr
  <2>1. /\ act' = [act EXCEPT !["inband"] = [pc |-> "u_check", p |-> p, val |-> 0]]
        /\ Enters("inband")
    BY <1>3 DEF mp_receive_unmask_signal
  <2>2. "u_check" \in {"m_write", "u_check"} /\ 0 \in Int /\ "u_check" # "m_write"
        /\ act["inband"].pc \in Resting
    BY <1>1 DEF Resting
  <2> QED  BY <1>1, <1>2, <2>1, <2>2, EnterKeeps
<1>4. CASE ~rcv[p].ptr
  <2>1. UNCHANGED <<mask_vars, scene>>
    BY <1>1, <1>4 DEF mp_receive_unmask_signal, mask_vars
  <2> QED  BY <1>2, <2>1, PathStepsKeep
<1> QED  BY <1>3, <1>4

\* recv_mask_timeout_thread(), until it unmasks.
LEMMA TimeoutKeeps ==
    ASSUME MInv, ~raced, NEW p \in Paths, TimeoutPops(p) \/ TimeoutFires(p)
    PROVE  MInv'
<1>1. /\ p \in Actors /\ p # "inband" /\ act[p].p = p /\ act[p].pc = "wait" /\ act[p] \in ActorStates
      /\ rcv \in [Paths -> ReceiverStates]
  BY MaskFacts, PathsAssumption DEF MInv, ActTypes, TimeoutPops, TimeoutFires
<1>2. CASE TimeoutFires(p)
  <2>1. /\ Goto(p, "u_check") /\ Enters(p)
        /\ UNCHANGED <<pmask, alive, cmd, snd, masked, paths, rcv, lost, scene>>
    BY <1>2 DEF TimeoutFires
  <2>2. lost' \in [Paths -> 0 .. Timeout] /\ rcv' \in [Paths -> ReceiverStates] /\ masked' \subseteq Paths
        /\ act[p].val \in Int
    BY <1>1, <2>1, MaskFacts DEF ActorStates
  <2> QED  BY <1>1, <2>1, <2>2, EnterKeeps DEF Resting
<1>3. CASE TimeoutPops(p)
  <2>1. /\ rcv' = [rcv EXCEPT ![p].msgs = @ - 1, ![p].silent = 0] /\ rcv[p].msgs > 0
        /\ UNCHANGED <<pmask, alive, cmd, snd, masked, paths, act, raced, lost, scene>>
    BY <1>3 DEF TimeoutPops
  <2>2. rcv' \in [Paths -> ReceiverStates]
    <3>1. rcv[p] \in ReceiverStates
      BY <1>1
    <3>2. rcv'[p].ptr \in BOOLEAN /\ rcv'[p].msgs \in Nat /\ rcv'[p].silent \in 0 .. Timeout
      BY <1>1, <2>1, <3>1, TimeoutAssumption DEF ReceiverStates
    <3> QED  BY <1>1, <2>1, <3>1, <3>2 DEF ReceiverStates
  <2>3. snd' \in [Senders -> SenderStates] /\ lost' \in [Paths -> 0 .. Timeout]
    BY <2>1, MaskFacts
  <2>4. /\ pmask' \in [Paths -> BOOLEAN] /\ alive' \subseteq Paths
        /\ cmd' \in [pc : {"idle", "join", "delete"}, p : Paths \cup {Unset}, left : Int]
        /\ (cmd'.pc # "idle" => cmd'.p \in Paths)
    BY <2>1 DEF MInv, TypeOK, ActTypes
  <2>5. /\ \A x \in Paths : Stopping(x)' => cmd'.pc # "idle" /\ cmd'.p = x
        /\ Stopping(Post)' => Stopping(Post)
    BY <2>1 DEF MInv, StopsOwned, Stopping
  <2> QED  BY <2>1, <2>2, <2>3, <2>4, <2>5, CountUntouched
<1> QED  BY <1>2, <1>3

\* Every step keeps the invariant.
LEMMA NextMasking ==
    ASSUME MInv, [Next]_vars
    PROVE  MInv'
<1>1. CASE UNCHANGED vars
  <2>1. UNCHANGED <<mask_vars, scene>> /\ lost' \in [Paths -> 0 .. Timeout]
    BY <1>1, MaskFacts DEF vars
  <2> QED  BY <2>1, PathStepsKeep
<1>2. ASSUME ~raced, Commander \/ Receiver \/ Period PROVE MInv'
  <2>1. ASSUME NEW p \in Paths, Request(p) PROVE MInv'
    BY <2>1, LosesKeep
  <2>2. ASSUME Unmask("inband") PROVE MInv'
    <3>1. "inband" \in Actors
      OBVIOUS
    <3> QED  BY <1>2, <2>2, <3>1, UnmaskCheckKeeps, UnmaskSetKeeps, UnmaskWriteKeeps, StopPostKeeps,
                UnmaskDoneKeeps DEF Unmask
  <2> QED  BY <1>2, <2>1, <2>2, CommandKeeps, JoinKeeps, MaskWriteKeeps, LaunchKeeps, PeriodKeeps
           DEF Commander, Receiver
<1>3. ASSUME ~raced, NEW p \in Paths, Receive(p) \/ TimeoutThread(p) PROVE MInv'
  <2>1. p \in Actors
    OBVIOUS
  <2> QED  BY <1>3, <2>1, ReceiveMaskKeeps, ReceiveUnmaskKeeps, TimeoutKeeps,
              UnmaskCheckKeeps, UnmaskSetKeeps, UnmaskWriteKeeps, StopPostKeeps, UnmaskDoneKeeps
           DEF Receive, TimeoutThread, Unmask
<1>4. ASSUME ~raced, NEW p \in Paths, NEW i, Hop(p, i) \/ Lose(p, i) PROVE MInv'
  BY <1>4, LosesKeep
<1>5. ASSUME ~raced, NEW s \in Senders, Sender(s) PROVE MInv'
  BY <1>5, SenderKeeps DEF Sender
<1> QED  BY <1>1, <1>2, <1>3, <1>4, <1>5 DEF Next, Pass

(* seq_rec_path_masked() and seq_rec_path_unmasked() keep the count of the *)
(* paths and the mask of the output right, whatever the paths lose.        *)
THEOREM MaskingIsSound == Spec => []MaskingSound
<1>1. MInv => MaskingSound
  <2> SUFFICES ASSUME MInv PROVE MaskingSound
    OBVIOUS
  <2>1. PathsCounted
    <3> SUFFICES ASSUME \A a \in Actors : act[a].pc \in Resting \cup {"m_launch"}, ~raced
                 PROVE  paths = scene.admin - Cardinality(masked)
      BY DEF PathsCounted
    <3> QED  BY DEF MInv, Counted, Resting
  <2>2. PostFollows
    <3> SUFFICES ASSUME \A a \in Actors : act[a].pc \in Resting, ~raced
                 PROVE  snd[Post].ptr <=> paths = 0 /\ masked # {}
      BY DEF PostFollows
    <3>1. paths = scene.admin - Cardinality(masked) /\ (snd[Post].ptr <=> paths = 0 /\ scene.admin > 0)
      BY DEF MInv, Counted, PostOK, Resting
    <3>2. Cardinality(masked) = 0 <=> masked = {}
      BY MaskFacts, FS_EmptySet
    <3>3. Cardinality(masked) \in Nat /\ scene.admin \in Nat
      BY MaskFacts
    <3> QED  BY <3>1, <3>2, <3>3
  <2> QED  BY <2>1, <2>2 DEF MInv, MaskingSound
<1> QED  BY <1>1, InitMasking, NextMasking, PTL DEF Spec
=============================================================================
