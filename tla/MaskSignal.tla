----------------------------- MODULE MaskSignal -----------------------------
(***************************************************************************)
(* In-band OAM between a replication and the elimination that merges its   *)
(* paths.  Masking a path of the replication starts a thread that sends    *)
(* mask signals along the path; the maintenance point in front of the      *)
(* elimination takes the path out of the latent error detection until an   *)
(* unmask signal comes, or no mask signal comes for too long, and when all *)
(* paths are masked the elimination masks its own output.  Pings and the   *)
(* other requests use the same paths.                                      *)
(*                                                                         *)
(* In the elimination's node the paths are masked and unmasked by the      *)
(* in-band receiver and by one timeout thread per path, without a lock: a  *)
(* step is one access to their common state.                               *)
(***************************************************************************)
EXTENDS OamInband

CONSTANTS Unset,        \* no path
          Paths,        \* the paths of the replication
          Post,         \* the output of the elimination
          Start,        \* the maintenance point behind the replication
          Requests,     \* requests of the operator
          Scenes,       \* encapsulation and maintenance points of the paths, and
                        \* bounds: commands, requests, what may go wrong
          Timeout       \* MASK_TIMEOUT_MS in whole MASK_PERIOD_MS, rounded up

ASSUME TimeoutAssumption == Timeout \in Nat /\ Timeout > 1
ASSUME PathsAssumption == IsFiniteSet(Paths) /\ Post \notin Paths /\ "inband" \notin Paths
ASSUME ScenesAssumption ==
  \A s \in Scenes : /\ s.admin \in Nat /\ s.commands \in Nat /\ s.encap \in Encaps
                    /\ \A p \in Paths : s.mps[p] \in Seq(MaintenancePoints) /\ s.mps[p] # <<>>
ASSUME RequestsAssumption == Start \in MaintenancePoints /\ Requests \subseteq RequestMsgs

VARIABLES pmask,    \* the mask flags of the replication's pipelines
          alive,    \* pipelines that exist
          cmd,      \* the command or configuration thread at the replication
          snd,      \* the threads that send mask signals
          wire,     \* messages on their way to each maintenance point
          masked,   \* paths that are masked at the elimination
          paths,    \* latent_error_paths
          rcv,      \* mask_recv and mask_queue of the points before the elimination
          act,      \* the in-band receiver and the timeout threads
          lost,     \* mask signals of a path lost since the last one that came
          raced,    \* two threads were in the unprotected section at once
          asked, replies, failed, scene

mask_vars == <<pmask, alive, cmd, snd, masked, paths, rcv, act, raced>>
vars == <<mask_vars, wire, lost, asked, replies, failed, scene>>

Senders == Paths \cup {Post}
Actors == Paths \cup {"inband"}
Final(p) == Len(scene.mps[p])
NoSender == [ptr |-> FALSE, th |-> "none", stop |-> 0, age |-> 0]
Sending == [ptr |-> TRUE, th |-> "send", stop |-> 0, age |-> 0]
NoReceiver == [ptr |-> FALSE, msgs |-> 0, silent |-> 0]
Idle == [pc |-> "idle", p |-> Unset, val |-> 0]
NoThread(p) == [pc |-> "none", p |-> p, val |-> 0]
Resting == {"none", "wait", "idle"}

Init ==
  /\ scene \in Scenes
  /\ pmask = [p \in Paths |-> FALSE] /\ alive = Paths
  /\ cmd = [pc |-> "idle", p |-> Unset, left |-> scene.commands]
  /\ snd = [s \in Senders |-> NoSender]
  /\ wire = [p \in Paths |-> [i \in 1 .. Final(p) |-> <<>>]]
  /\ masked = {} /\ paths = scene.admin
  /\ rcv = [p \in Paths |-> NoReceiver]
  /\ act = [a \in Actors |-> IF a = "inband" THEN Idle ELSE NoThread(a)]
  /\ lost = [p \in Paths |-> 0]
  /\ raced = FALSE
  /\ asked = {} /\ replies = {} /\ failed = FALSE

-----------------------------------------------------------------------------
(* The paths *)

(* A message leaves for the first maintenance point *)
mp_inject_packet(p, m) ==
  LET pkt == send_request(Start, m, scene.encap)
  IN wire' = IF TtlPasses(scene.encap, pkt) THEN [wire EXCEPT ![p][1] = Append(@, TtlReduced(scene.encap, pkt))]
             ELSE wire

IsMaskSignal(p, i) ==
  /\ i = Final(p) /\ Head(wire[p][i]).json.type \in {"mask", "unmask"}
  /\ mp_compare_level(scene.mps[p][i], Head(wire[p][i])) = 0

(* Whether a reply could be sent *)
send_message_outofband == IF scene.fails THEN BOOLEAN ELSE {TRUE}

(* The in-band receiver of a node takes the next message.  The last        *)
(* maintenance points of all the paths are on one node.                    *)
Hop(p, i) ==
  /\ wire[p][i] # <<>> /\ ~IsMaskSignal(p, i)
  /\ i = Final(p) => act["inband"].pc = "idle"
  /\ \E ok \in send_message_outofband :
       LET r == inband_receiver(scene.mps[p][i], Head(wire[p][i]), scene.encap, ok)
           goes == r.goes_on /\ i < Final(p) /\ TtlPasses(scene.encap, r.pkt)
           popped == [wire EXCEPT ![p][i] = Tail(@)]
       IN /\ wire' = IF goes THEN [popped EXCEPT ![p][i + 1] = Append(@, TtlReduced(scene.encap, r.pkt))]
                     ELSE popped
          /\ replies' = IF r.answered
                        THEN replies \cup {[from |-> i, p |-> p, m |-> mp_unpack_message(scene.encap, r.pkt)]}
                        ELSE replies
          /\ failed' = (failed \/ ~ok)
  /\ UNCHANGED <<mask_vars, lost, asked, scene>>

(* The network loses a message; one that waits for the receiver at the     *)
(* elimination has arrived                                                 *)
Lose(p, i) ==
  /\ scene.loses /\ wire[p][i] # <<>>
  /\ i = Final(p) => act["inband"].pc = "idle"
  /\ wire' = [wire EXCEPT ![p][i] = Tail(@)]
  /\ lost' = [lost EXCEPT ![p] = IF Head(wire[p][i]).json.type = "mask" /\ @ < Timeout THEN @ + 1 ELSE @]
  /\ failed' = TRUE
  /\ UNCHANGED <<mask_vars, asked, replies, scene>>

(* A request of the operator from the maintenance point of a path *)
Request(p) ==
  /\ Cardinality(asked) < scene.requests
  /\ \E m \in Requests :
       /\ asked' = asked \cup {[p |-> p, m |-> m]}
       /\ mp_inject_packet(p, m)
  /\ UNCHANGED <<mask_vars, lost, replies, failed, scene>>

-----------------------------------------------------------------------------
(* The threads that send mask signals *)

mp_initiate_mask_signalling(s) ==
  IF snd[s].ptr THEN snd ELSE [snd EXCEPT ![s] = Sending]

PushStop(s) == [snd EXCEPT ![s].stop = @ + 1]

send_mask_request_thread(s) ==
  \/ /\ snd[s].th = "send"
     /\ snd' = [snd EXCEPT ![s].th = "wait"]
     /\ IF s = Post THEN UNCHANGED wire ELSE mp_inject_packet(s, create_mask_request(Start, "mask"))
     /\ UNCHANGED <<pmask, alive, cmd, masked, paths, rcv, act, raced, lost, asked, replies, failed, scene>>
  \/ /\ snd[s].th = "wait" /\ snd[s].stop > 0
     /\ snd' = [snd EXCEPT ![s].th = "ended", ![s].stop = @ - 1]
     /\ UNCHANGED <<pmask, alive, cmd, masked, paths, rcv, act, raced, wire, lost, asked, replies, failed, scene>>

(* The command thread; mask_lock lets one in *)
mask_set(p) ==
  /\ cmd.pc = "idle" /\ cmd.left > 0 /\ p \in alive /\ ~pmask[p]
  /\ pmask' = [pmask EXCEPT ![p] = TRUE]
  /\ snd' = mp_initiate_mask_signalling(p)
  /\ cmd' = [cmd EXCEPT !.left = @ - 1]
  /\ UNCHANGED <<alive, masked, paths, rcv, act, raced, wire, lost, asked, replies, failed, scene>>

mask_unset(p) ==
  /\ cmd.pc = "idle" /\ cmd.left > 0 /\ p \in alive /\ pmask[p]
  /\ pmask' = [pmask EXCEPT ![p] = FALSE]
  /\ IF snd[p].ptr
     THEN snd' = PushStop(p) /\ cmd' = [pc |-> "join", p |-> p, left |-> cmd.left - 1]
     ELSE snd' = snd /\ cmd' = [cmd EXCEPT !.left = @ - 1]
  /\ UNCHANGED <<alive, masked, paths, rcv, act, raced, wire, lost, asked, replies, failed, scene>>

(* A transaction removes the pipeline, and with it the last reference *)
oam_unref_maintenance_point(p) ==
  /\ cmd.pc = "idle" /\ cmd.left > 0 /\ p \in alive
  /\ alive' = alive \ {p}
  /\ IF snd[p].ptr
     THEN snd' = PushStop(p) /\ cmd' = [pc |-> "delete", p |-> p, left |-> cmd.left - 1]
     ELSE snd' = snd /\ cmd' = [cmd EXCEPT !.left = @ - 1]
  /\ UNCHANGED <<pmask, masked, paths, rcv, act, raced, wire, lost, asked, replies, failed, scene>>

(* The sender is joined; only a stopped signalling sends an unmask signal *)
mp_stop_mask_signalling ==
  /\ cmd.pc \in {"join", "delete"} /\ snd[cmd.p].th = "ended"
  /\ snd' = [snd EXCEPT ![cmd.p] = NoSender]
  /\ cmd' = [cmd EXCEPT !.pc = "idle", !.p = Unset]
  /\ IF cmd.pc = "join" THEN mp_inject_packet(cmd.p, create_mask_request(Start, "unmask"))
     ELSE UNCHANGED wire
  /\ UNCHANGED <<pmask, alive, masked, paths, rcv, act, raced, lost, asked, replies, failed, scene>>

-----------------------------------------------------------------------------
(* The elimination's side *)

Enters(a) == raced' = (raced \/ \E b \in Actors \ {a} : act[b].pc \notin Resting)
Goto(a, pc) == act' = [act EXCEPT ![a].pc = pc]
Taken(p) == wire' = [wire EXCEPT ![p][Final(p)] = Tail(@)] /\ lost' = [lost EXCEPT ![p] = 0]

KeepsOnePath(p) == p \notin masked /\ paths > 1  \* Mutant of CanMask: the last path stays

(* The checks of seq_rec_path_masked *)
CanMask(p) == p \notin masked /\ paths > 0

mp_receive_mask_signal(p) ==
  /\ act["inband"].pc = "idle"
  /\ wire[p][Final(p)] # <<>> /\ IsMaskSignal(p, Final(p)) /\ Head(wire[p][Final(p)]).json.type = "mask"
  /\ Taken(p)
  /\ \/ /\ rcv[p].ptr
        /\ rcv' = [rcv EXCEPT ![p].msgs = @ + 1]
        /\ UNCHANGED <<masked, act, raced>>
     \/ /\ ~rcv[p].ptr /\ ~CanMask(p)
        /\ UNCHANGED <<rcv, masked, act, raced>>
     \/ /\ ~rcv[p].ptr /\ CanMask(p)
        /\ masked' = masked \cup {p}
        /\ act' = [act EXCEPT !["inband"] = [pc |-> "m_write", p |-> p, val |-> paths]]
        /\ Enters("inband")
        /\ UNCHANGED rcv
  /\ UNCHANGED <<pmask, alive, cmd, snd, paths, asked, replies, failed, scene>>

(* seq_rec_path_masked; masking the last path masks the output *)
seq_rec_path_masked ==
  /\ act["inband"].pc = "m_write"
  /\ paths' = act["inband"].val - 1
  /\ snd' = IF paths' = 0 THEN mp_initiate_mask_signalling(Post) ELSE snd
  /\ Goto("inband", "m_launch")
  /\ UNCHANGED <<pmask, alive, cmd, masked, rcv, raced, wire, lost, asked, replies, failed, scene>>

(* recv_mask_timeout_thread is started *)
LaunchTimeout ==
  /\ act["inband"].pc = "m_launch"
  /\ LET p == act["inband"].p IN
     /\ rcv' = [rcv EXCEPT ![p].ptr = TRUE, ![p].silent = 0]
     /\ act' = [act EXCEPT ![p].pc = "wait", !["inband"] = Idle]
  /\ UNCHANGED <<pmask, alive, cmd, snd, masked, paths, raced, wire, lost, asked, replies, failed, scene>>

mp_receive_unmask_signal(p) ==
  /\ act["inband"].pc = "idle"
  /\ wire[p][Final(p)] # <<>> /\ IsMaskSignal(p, Final(p)) /\ Head(wire[p][Final(p)]).json.type = "unmask"
  /\ Taken(p)
  /\ IF rcv[p].ptr
     THEN /\ act' = [act EXCEPT !["inband"] = [pc |-> "u_check", p |-> p, val |-> 0]]
          /\ Enters("inband")
     ELSE UNCHANGED <<act, raced>>
  /\ UNCHANGED <<pmask, alive, cmd, snd, masked, paths, rcv, asked, replies, failed, scene>>

PopKeepsDeadline(p) ==  \* Mutant of TimeoutPops: the timeout is not measured from the signal
  /\ act[p].pc = "wait" /\ rcv[p].msgs > 0
  /\ rcv' = [rcv EXCEPT ![p].msgs = @ - 1]
  /\ UNCHANGED <<pmask, alive, cmd, snd, masked, paths, act, raced, wire, lost, asked, replies, failed, scene>>

(* recv_mask_timeout_thread *)
TimeoutPops(p) ==
  /\ act[p].pc = "wait" /\ rcv[p].msgs > 0
  /\ rcv' = [rcv EXCEPT ![p].msgs = @ - 1, ![p].silent = 0]
  /\ UNCHANGED <<pmask, alive, cmd, snd, masked, paths, act, raced, wire, lost, asked, replies, failed, scene>>

FiresAndForgets(p) ==  \* Mutant of TimeoutFires: the thread ends without unmasking
  /\ act[p].pc = "wait" /\ rcv[p].msgs = 0 /\ rcv[p].silent >= Timeout
  /\ Goto(p, "u_fail") /\ Enters(p)
  /\ UNCHANGED <<pmask, alive, cmd, snd, masked, paths, rcv, wire, lost, asked, replies, failed, scene>>

TimeoutFires(p) ==
  /\ act[p].pc = "wait" /\ rcv[p].msgs = 0 /\ rcv[p].silent >= Timeout
  /\ Goto(p, "u_check") /\ Enters(p)
  /\ UNCHANGED <<pmask, alive, cmd, snd, masked, paths, rcv, wire, lost, asked, replies, failed, scene>>

(* seq_rec_path_unmasked, by the receiver or a timeout thread *)
UnmaskCheck(a) ==
  /\ act[a].pc = "u_check"
  /\ Goto(a, IF act[a].p \in masked /\ paths < scene.admin THEN "u_set" ELSE "u_fail")
  /\ UNCHANGED <<pmask, alive, cmd, snd, masked, paths, rcv, raced, wire, lost, asked, replies, failed, scene>>

UnmaskSet(a) ==
  /\ act[a].pc = "u_set"
  /\ masked' = masked \ {act[a].p}
  /\ act' = [act EXCEPT ![a].pc = "u_write", ![a].val = paths]
  /\ UNCHANGED <<pmask, alive, cmd, snd, paths, rcv, raced, wire, lost, asked, replies, failed, scene>>

FirstUnmasked(n) == n = 1

UnmaskUncounted(a) ==  \* Mutant of UnmaskWrite: the path is not counted again
  /\ act[a].pc = "u_write"
  /\ Goto(a, IF FirstUnmasked(act[a].val + 1) THEN "u_stop" ELSE "u_done")
  /\ UNCHANGED <<pmask, alive, cmd, snd, masked, paths, rcv, raced, wire, lost, asked, replies, failed, scene>>

UnmaskWrite(a) ==
  /\ act[a].pc = "u_write"
  /\ paths' = act[a].val + 1
  /\ Goto(a, IF FirstUnmasked(paths') THEN "u_stop" ELSE "u_done")
  /\ UNCHANGED <<pmask, alive, cmd, snd, masked, rcv, raced, wire, lost, asked, replies, failed, scene>>

(* mp_stop_mask_signalling of the output *)
StopPost(a) ==
  \/ /\ act[a].pc = "u_stop"
     /\ snd' = IF snd[Post].ptr THEN PushStop(Post) ELSE snd
     /\ Goto(a, IF snd[Post].ptr THEN "u_join" ELSE "u_done")
     /\ UNCHANGED <<pmask, alive, cmd, masked, paths, rcv, raced, wire, lost, asked, replies, failed, scene>>
  \/ /\ act[a].pc = "u_join" /\ snd[Post].th = "ended"
     /\ snd' = [snd EXCEPT ![Post] = NoSender]
     /\ Goto(a, "u_done")
     /\ UNCHANGED <<pmask, alive, cmd, masked, paths, rcv, raced, wire, lost, asked, replies, failed, scene>>

(* A timeout thread ends, unmasked or not; the receiver stops the thread *)
(* only when it has unmasked the path, and waits for it                  *)
UnmaskDone(a) ==
  /\ act[a].pc \in {"u_done", "u_fail"}
  /\ LET p == act[a].p
         stops == a = p \/ act[a].pc = "u_done"
     IN /\ a # p /\ stops => act[p].pc \in {"wait", "none"}
        /\ rcv' = IF stops THEN [rcv EXCEPT ![p].ptr = FALSE, ![p].silent = 0] ELSE rcv
        /\ act' = [b \in Actors |-> CASE stops /\ b = p -> NoThread(p)
                                      [] b = a /\ b = "inband" -> Idle
                                      [] OTHER -> act[b]]
  /\ UNCHANGED <<pmask, alive, cmd, snd, masked, paths, raced, wire, lost, asked, replies, failed, scene>>

-----------------------------------------------------------------------------
(* MASK_PERIOD_MS pass when no thread has anything to do *)
Period ==
  /\ cmd.pc = "idle"
  /\ \A p \in Paths : \A i \in DOMAIN wire[p] : wire[p][i] = <<>>
  /\ \A s \in Senders : snd[s].th \in {"none", "wait"} /\ snd[s].stop = 0
  /\ \A a \in Actors : act[a].pc \in Resting
  /\ \A p \in Paths : act[p].pc = "wait" => rcv[p].msgs = 0 /\ rcv[p].silent < Timeout
  /\ snd' = [s \in Senders |-> IF snd[s].th = "wait"
                               THEN [snd[s] EXCEPT !.th = "send", !.age = IF @ < Timeout THEN @ + 1 ELSE @]
                               ELSE snd[s]]
  /\ rcv' = [p \in Paths |-> [rcv[p] EXCEPT !.silent = IF act[p].pc = "wait" THEN @ + 1 ELSE @]]
  /\ UNCHANGED <<pmask, alive, cmd, masked, paths, act, raced, wire, lost, asked, replies, failed, scene>>

Sender(s) == send_mask_request_thread(s)
Commander ==
  \/ \E p \in Paths : mask_set(p) \/ mask_unset(p) \/ oam_unref_maintenance_point(p) \/ Request(p)
  \/ mp_stop_mask_signalling
Unmask(a) == UnmaskCheck(a) \/ UnmaskSet(a) \/ UnmaskWrite(a) \/ StopPost(a) \/ UnmaskDone(a)
TimeoutThread(p) == TimeoutPops(p) \/ TimeoutFires(p) \/ Unmask(p)
Receive(p) == mp_receive_mask_signal(p) \/ mp_receive_unmask_signal(p)
Pass(p) == \E i \in DOMAIN wire[p] : Hop(p, i)
Receiver == seq_rec_path_masked \/ LaunchTimeout \/ Unmask("inband")

(* What two threads do to the counter and to each other in that section at *)
(* once is not followed any further                                        *)
Next ==
  /\ ~raced
  /\ \/ Commander \/ Receiver \/ Period
     \/ \E s \in Senders : Sender(s)
     \/ \E p \in Paths : Receive(p) \/ Pass(p) \/ TimeoutThread(p)
     \/ \E p \in Paths : \E i \in DOMAIN wire[p] : Lose(p, i)

(* Threads run and time passes; a path does not lose every signal *)
Fairness ==
  /\ WF_vars(~raced /\ (mp_stop_mask_signalling \/ Receiver \/ Period))
  /\ \A s \in Senders : WF_vars(~raced /\ Sender(s))
  /\ \A p \in Paths : /\ SF_vars(~raced /\ Receive(p))
                      /\ WF_vars(~raced /\ TimeoutThread(p))
                      /\ SF_vars(~raced /\ Pass(p))

Spec == Init /\ [][Next]_vars /\ Fairness

-----------------------------------------------------------------------------
(* Properties *)

TypeOK ==
  /\ pmask \in [Paths -> BOOLEAN] /\ alive \subseteq Paths /\ masked \subseteq Paths
  /\ snd \in [Senders -> [ptr : BOOLEAN, th : {"none", "send", "wait", "ended"}, stop : 0 .. 1, age : 0 .. Timeout]]
  /\ rcv \in [Paths -> [ptr : BOOLEAN, msgs : Nat, silent : 0 .. Timeout]]
  /\ paths \in 0 .. scene.admin
  /\ lost \in [Paths -> 0 .. Timeout] /\ raced \in BOOLEAN

(* latent_error_paths is the configured number of paths less the masked    *)
(* ones, unless two threads were masking and unmasking at the same time    *)
(* (seq_rec_path_masked(), seq_rec_path_unmasked()).                       *)
PathsCounted ==
  (\A a \in Actors : act[a].pc \in Resting \cup {"m_launch"}) /\ ~raced
    => paths = scene.admin - Cardinality(masked)

(* A path whose signals have been sent all the time is unmasked only after *)
(* at least two of them in a row were lost: MASK_TIMEOUT_MS outlasts one   *)
(* lost signal (recv_mask_timeout_thread()).                               *)
NoSpuriousTimeout ==
  [][\A p \in Paths :
       act[p].pc = "wait" /\ act'[p].pc = "u_check" /\ snd[p].th \in {"send", "wait"} /\ snd[p].age >= Timeout
         => lost[p] >= Timeout - 1]_vars

(* The elimination masks its output exactly while all the paths it counts  *)
(* are masked, once its threads are at rest                                *)
(* (oam_automip_start_mask_session(), oam_automip_stop_mask_session()).    *)
PostFollows ==
  (\A a \in Actors : act[a].pc \in Resting) /\ ~raced
    => (snd[Post].ptr <=> paths = 0 /\ masked # {})

(* The masking state is sound: the count follows the masked paths and the  *)
(* mask behind the elimination follows the count (seq_rec_path_masked(),   *)
(* oam_automip_start_mask_session()).                                      *)
MaskingSound == TypeOK /\ PathsCounted /\ PostFollows

(* A reply comes only from a maintenance point the request gets to, lists  *)
(* exactly the points of the request's level up to that one, and names the *)
(* session of the request wherever the packets can carry it                *)
(* (process_inband_message(), inband_receiver_th()).                       *)
RepliesRight ==
  \A r \in replies : \E q \in asked :
    /\ q.p = r.p /\ q.m.type = r.m.type /\ q.m.target = r.m.target
    /\ r.from \in Reached(scene.mps[q.p], q.m, scene.encap)
    /\ r.m.rr = IF q.m.rec THEN Route(Start.name, scene.mps[q.p], q.m, r.from) ELSE <<>>
    /\ scene.encap # "tsn" => r.m.session = q.m.session /\ r.m.seq = q.m.seq

(* A ping is answered by all the maintenance points it is for when neither *)
(* it nor a reply fails (process_ping_request()).                          *)
PingAnswered ==
  (\A p \in Paths : \A i \in DOMAIN wire[p] : wire[p][i] = <<>>) /\ ~failed =>
    \A q \in asked : q.m.type = "ping" =>
      {r.from : r \in {s \in replies : s.m.type = "ping" /\ s.p = q.p}} =
        UNION {Repliers(scene.mps[q.p], x.m, scene.encap) : x \in {y \in asked : y.p = q.p /\ y.m.type = "ping"}}

(* Requests get their replies and no other ones: from all the points they  *)
(* are for, with the right route and session (process_inband_message()).   *)
RepliesSound == RepliesRight /\ PingAnswered

(* When a path is no longer signalled, by command or because its pipeline  *)
(* is gone, the elimination counts it again sooner or later, even if the   *)
(* unmask signal is lost (recv_mask_timeout_thread()).                     *)
UnmaskReaches ==
  \A p \in Paths : ~snd[p].ptr ~> (p \notin masked \/ snd[p].ptr \/ raced)

(* With its TTL of 1 a mask signal gets to the elimination only if no      *)
(* other point of its level, and no other node that reduces TTLs, is there *)
SignalArrives(p) ==
  Final(p) \in Reached(scene.mps[p], create_mask_request(Start, "mask"), scene.encap)

(* A path that is signalled is masked at the elimination sooner or later,  *)
(* unless that counts no path any more (mp_receive_mask_signal()).         *)
MaskReaches ==
  \A p \in Paths : snd[p].ptr /\ SignalArrives(p) ~> (p \in masked \/ ~snd[p].ptr \/ paths = 0 \/ raced)
=============================================================================
