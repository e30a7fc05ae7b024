------------------------------ MODULE OamNode ------------------------------
(***************************************************************************)
(* The OAM requests of one node on one stream, with all the threads that   *)
(* have a hand in them: the command threads of the telnet connections, the *)
(* in-band receiver (rping), the configuration (background pings), one     *)
(* thread per periodic request, the out-of-band receiver of the replies,   *)
(* and the main thread that shuts the module down.                         *)
(*                                                                         *)
(* A step is what a thread does between two operations on the locks, the   *)
(* threads or the memory of another thread.  Stopping a request joins its  *)
(* thread while session_lock is held; closing a connection does that while *)
(* command_connections_lock is held, too.                                  *)
(***************************************************************************)
EXTENDS OamRequest, OamSession

CONSTANTS Conns,            \* telnet connections, each made once
          Reqs,             \* request objects, each allocated once
          Commands,         \* what is typed, configured or received
          Scenes,           \* bounds: how many connections and requests there
                            \* are, and what else happens with them
          BackgroundLimit   \* 14 in the program

VARIABLES conn,    \* the connections: the thread, the entry in the hash, the references
          op,      \* what each thread that issues or stops requests is doing
          req,     \* the request objects
          th,      \* the threads of the periodic requests
          table,   \* the sessions of the stream
          last,    \* last_session
          slock,   \* who holds session_lock
          clock,   \* who holds command_connections_lock
          ob,      \* the out-of-band receiver
          raced,   \* requests freed under the thread that was initiating them
          scene    \* the one of Scenes that is played

vars == <<conn, op, req, th, table, last, slock, clock, ob, raced, scene>>

Actors == Conns \cup {"inband", "config", "main"}

Idle == [pc |-> "idle", r |-> None, slot |-> -1, conn |-> None, joins |-> FALSE]
Off == [Idle EXCEPT !.pc = "off"]
NoReq == [st |-> "unused", slot |-> -1, conn |-> None, count |-> 1, interval |-> 1,
          background |-> FALSE, originator |-> FALSE, thread |-> FALSE]
NoThread == [st |-> "none", seq |-> 0, nap |-> 0, cancel |-> FALSE]
Done == [NoThread EXCEPT !.st = "done"]

Init ==
  /\ conn = [c \in Conns |-> [st |-> "none", inserted |-> FALSE, refs |-> 0]]
  /\ op = [a \in Actors |-> IF a \in Conns THEN Off ELSE Idle]
  /\ req = [r \in Reqs |-> NoReq]
  /\ th = [r \in Reqs |-> NoThread]
  /\ table = [i \in Slots |-> Free]
  /\ last = 0
  /\ slock = None /\ clock = None
  /\ ob = [pc |-> "idle", slot |-> -1, conn |-> None]
  /\ raced = {}
  /\ scene \in Scenes

Goto(a, pc) == op' = [op EXCEPT ![a].pc = pc]
Initiating == {op[a].r : a \in {b \in Actors : op[b].pc \in {"find", "launch", "store"}}}

-----------------------------------------------------------------------------
(* Connections *)

(* oam_start_command_connection(): the thread runs, and waits only for the *)
(* name; the connection is put into the hash when the lock is free         *)
oam_start_command_connection(c) ==
  /\ conn[c].st = "none" /\ op["main"].pc = "idle"
  /\ Cardinality({d \in Conns : conn[d].st # "none"}) < scene.conns
  /\ conn' = [conn EXCEPT ![c].st = "open"]
  /\ op' = [op EXCEPT ![c] = Idle]
  /\ UNCHANGED <<req, th, table, last, slock, clock, ob, raced, scene>>

InsertConnection(c) ==
  /\ conn[c].st \in {"open", "gone"} /\ ~conn[c].inserted /\ clock = None
  /\ conn' = [conn EXCEPT ![c].inserted = TRUE]
  /\ UNCHANGED <<op, req, th, table, last, slock, clock, ob, raced, scene>>

-----------------------------------------------------------------------------
(* A new request: parsing, the session, the launch *)

Unused == {r \in Reqs : req[r].st = "unused"}
NewRequest(a, q, c) ==
  /\ Cardinality(Reqs \ Unused) < scene.reqs
  /\ \E r \in Unused :
    /\ req' = [req EXCEPT ![r] = [NoReq EXCEPT !.st = "live", !.conn = c, !.count = q.count,
                 !.interval = q.interval, !.background = q.background, !.originator = q.originator]]
    /\ op' = [op EXCEPT ![a] = [Idle EXCEPT !.pc = "alloc", !.r = r]]
    /\ UNCHANGED <<conn, th, table, last, slock, clock, ob, raced, scene>>

(* ping, rping, rlist and notif_trigger of a connection; a command with an *)
(* error changes nothing                                                   *)
command_loop(c) ==
  /\ op[c].pc = "idle"
  /\ \E k \in Commands :
       LET q == parse_command(k.type, k.cmd)
       IN ~q.error /\ NewRequest(c, q, IF q.background THEN None ELSE c)

process_rping_request ==
  /\ "rping" \in scene.with /\ op["inband"].pc = "idle"
  /\ \E k \in Commands :
       LET q == RequestOfRping(k.cmd)
       IN k.type = "ping" /\ ~q.error /\ NewRequest("inband", q, None)

oam_start_background_ping ==
  /\ "background" \in scene.with /\ op["config"].pc = "idle" /\ op["main"].pc = "idle"
  /\ stream_live_session_count(table) < BackgroundLimit
  /\ \E k \in Commands :
       LET q == RequestOfBackground(k.cmd)
       IN k.type = "ping" /\ ~q.error /\ NewRequest("config", q, None)

(* The request in the entry is stopped: its thread is cancelled if there   *)
(* is a pointer to it, and joined in the next step                         *)
StopLocked(a, i, pc) ==
  LET r == table[i].req IN
  /\ op' = [op EXCEPT ![a].pc = pc, ![a].slot = i, ![a].joins = req[r].thread]
  /\ th' = [th EXCEPT ![r].cancel = @ \/ req[r].thread]
  /\ raced' = IF r \in Initiating THEN raced \cup {r} ELSE raced

Alloc(a) ==
  /\ op[a].pc = "alloc" /\ slock = None
  /\ LET i == alloc_session_id(table, last)
         r == op[a].r
     IN \/ /\ i = -1   \* no free session: the command thread forgets the request
           /\ req' = [req EXCEPT ![r].st = IF a = "inband" THEN "freed" ELSE "leaked"]
           /\ op' = [op EXCEPT ![a] = Idle]
           /\ UNCHANGED <<th, table, last, slock, raced>>
        \/ /\ i # -1 /\ table[i].req = None
           /\ table' = Allocated(table, i, r, req[r].conn, req[r].interval)
           /\ last' = i
           /\ req' = [req EXCEPT ![r].slot = i]
           /\ Goto(a, "find")
           /\ UNCHANGED <<th, slock, raced>>
        \/ /\ i # -1 /\ table[i].req # None
           /\ StopLocked(a, i, "steal")
           /\ slock' = a
           /\ UNCHANGED <<req, table, last>>
  /\ UNCHANGED <<conn, clock, ob, scene>>

NoJoin(a) == TRUE  \* Mutant of Joined: the request is freed before its thread has ended

(* The joined thread has ended *)
Joined(a) == op[a].joins => th[table[op[a].slot].req].st = "done"

(* delete_oam_request() of the request in the entry *)
Deleted(i) == req' = [req EXCEPT ![table[i].req].st = "freed"]

Steal(a) ==
  /\ op[a].pc = "steal" /\ Joined(a)
  /\ LET i == op[a].slot
         r == op[a].r
     IN /\ req' = [req EXCEPT ![table[i].req].st = "freed", ![r].slot = i]
        /\ table' = Allocated(table, i, r, req[r].conn, req[r].interval)
        /\ last' = i
        /\ slock' = None
        /\ op' = [op EXCEPT ![a] = [Idle EXCEPT !.pc = "find", !.r = r]]
  /\ UNCHANGED <<conn, th, clock, ob, raced, scene>>

(* The request is reported on its own connection, which is looked up *)
FindOwn(a) ==
  /\ op[a].pc = "find" /\ clock = None
  /\ IF a \in Conns /\ conn[a].inserted
     THEN /\ conn' = [conn EXCEPT ![a].refs = @ + 1]
          /\ op' = [op EXCEPT ![a].pc = "launch", ![a].conn = a]
     ELSE Goto(a, "launch") /\ UNCHANGED conn
  /\ UNCHANGED <<req, th, table, last, slock, clock, ob, raced, scene>>

Released(a) == IF op[a].conn = None THEN conn ELSE [conn EXCEPT ![a].refs = @ - 1]

(* A single packet is sent at once *)
SendOnce(a) ==
  /\ op[a].pc = "launch" /\ req[op[a].r].count = 1
  /\ conn' = Released(a)
  /\ table' = Accessed(table, req[op[a].r].slot)
  /\ op' = [op EXCEPT ![a] = Idle]
  /\ UNCHANGED <<req, th, last, slock, clock, ob, raced, scene>>

Launch(a) ==
  /\ op[a].pc = "launch" /\ req[op[a].r].count # 1
  /\ conn' = Released(a)
  /\ th' = [th EXCEPT ![op[a].r].st = "start"]
  /\ op' = [op EXCEPT ![a].pc = "store", ![a].conn = None]
  /\ UNCHANGED <<req, table, last, slock, clock, ob, raced, scene>>

(* No thread: the request stays in the table, freed if it came from rping *)
LaunchFails(a) ==
  /\ "failure" \in scene.with /\ op[a].pc = "launch" /\ req[op[a].r].count # 1
  /\ conn' = Released(a)
  /\ req' = [req EXCEPT ![op[a].r].st = IF a = "inband" THEN "freed" ELSE @]
  /\ op' = [op EXCEPT ![a] = Idle]
  /\ UNCHANGED <<th, table, last, slock, clock, ob, raced, scene>>

StoreThread(a) ==
  /\ op[a].pc = "store"
  /\ req' = [req EXCEPT ![op[a].r].thread = TRUE]
  /\ op' = [op EXCEPT ![a] = Idle]
  /\ UNCHANGED <<conn, th, table, last, slock, clock, ob, raced, scene>>

-----------------------------------------------------------------------------
(* The thread of a periodic request *)

ThreadStart(r) ==  \* get_stream_sessions() takes the lock for a moment
  /\ th[r].st = "start" /\ slock = None
  /\ th' = [th EXCEPT ![r].st = "run"]
  /\ UNCHANGED <<conn, op, req, table, last, slock, clock, ob, raced, scene>>

(* The sequence number of an endless request makes no difference *)
ThreadSend(r) ==
  /\ th[r].st = "run"
  /\ table' = Accessed(table, req[r].slot)
  /\ LET seq == IF req[r].count = 0 THEN 0 ELSE th[r].seq + 1
         ends == req[r].count # 0 /\ seq >= req[r].count
     IN th' = [th EXCEPT ![r].seq = seq, ![r].st = IF ends THEN "exit" ELSE "sleep"]
  /\ UNCHANGED <<conn, op, req, last, slock, clock, ob, raced, scene>>

ThreadWakes(r) ==
  /\ th[r].st = "sleep" /\ th[r].nap = req[r].interval /\ ~th[r].cancel
  /\ th' = [th EXCEPT ![r].st = "run", ![r].nap = 0]
  /\ UNCHANGED <<conn, op, req, table, last, slock, clock, ob, raced, scene>>

(* Sending and sleeping are cancellation points, waiting for a mutex is not *)
ThreadCancelled(r) ==
  /\ th[r].st \in {"run", "sleep"} /\ th[r].cancel
  /\ th' = [th EXCEPT ![r] = Done]
  /\ UNCHANGED <<conn, op, req, table, last, slock, clock, ob, raced, scene>>

ThreadExit(r) ==
  /\ th[r].st = "exit"
  /\ th' = [th EXCEPT ![r] = Done]
  /\ req' = [req EXCEPT ![r].thread = FALSE]
  /\ UNCHANGED <<conn, op, table, last, slock, clock, ob, raced, scene>>

-----------------------------------------------------------------------------
(* Stopping one session *)

(* stop, also of a session of another connection *)
StopCommand(c, i) ==
  /\ op[c].pc = "idle"
  /\ op' = [op EXCEPT ![c].pc = "stop", ![c].slot = i]
  /\ UNCHANGED <<conn, req, th, table, last, slock, clock, ob, raced, scene>>

OnlyClears(c) ==  \* Mutant of stop_session: the entry is cleared, its request goes on
  /\ op[c].pc = "stop" /\ slock = None
  /\ table' = Cleared(table, op[c].slot)
  /\ op' = [op EXCEPT ![c] = Idle]
  /\ UNCHANGED <<conn, req, th, last, slock, clock, ob, raced, scene>>

stop_session(c) ==
  /\ op[c].pc = "stop" /\ slock = None
  /\ IF table[op[c].slot].req = None
     THEN op' = [op EXCEPT ![c] = Idle] /\ UNCHANGED <<th, slock, raced>>
     ELSE StopLocked(c, op[c].slot, "join") /\ slock' = c
  /\ UNCHANGED <<conn, req, table, last, clock, ob, scene>>

StopJoined(c) ==
  /\ op[c].pc = "join" /\ Joined(c)
  /\ Deleted(op[c].slot)
  /\ table' = Cleared(table, op[c].slot)
  /\ slock' = None
  /\ op' = [op EXCEPT ![c] = Idle]
  /\ UNCHANGED <<conn, th, last, clock, ob, raced, scene>>

-----------------------------------------------------------------------------
(* The end of a connection, by its own thread or at the shutdown *)

Quit(c) ==
  /\ op[c].pc = "idle"
  /\ Goto(c, "leave")
  /\ UNCHANGED <<conn, req, th, table, last, slock, clock, ob, raced, scene>>

(* The connection takes itself out of the hash, if it is there already *)
Leave(c) ==
  /\ op[c].pc = "leave" /\ clock = None
  /\ IF conn[c].inserted
     THEN /\ clock' = c
          /\ op' = [op EXCEPT ![c].pc = "drain", ![c].conn = c]
          /\ UNCHANGED conn
     ELSE /\ conn' = [conn EXCEPT ![c].st = "gone"]
          /\ op' = [op EXCEPT ![c] = Off]
          /\ UNCHANGED clock
  /\ UNCHANGED <<req, th, table, last, slock, ob, raced, scene>>

DrainNot(a) ==  \* Mutant of Drain: the references are not waited for
  /\ op[a].pc = "drain"
  /\ Goto(a, "closeall")
  /\ UNCHANGED <<conn, req, th, table, last, slock, clock, ob, raced, scene>>

(* command_connection_delete_cb() *)
Drain(a) ==
  /\ op[a].pc = "drain" /\ conn[op[a].conn].refs = 0
  /\ Goto(a, "closeall")
  /\ UNCHANGED <<conn, req, th, table, last, slock, clock, ob, raced, scene>>

SessionsOf(c) == {i \in Slots : table[i].req # None /\ table[i].conn = c}

(* The lock is held from the first to the last session that is stopped *)
StopNextOf(a, c, then) ==
  IF SessionsOf(c) = {}
  THEN Goto(a, then) /\ slock' = None /\ UNCHANGED <<th, raced>>
  ELSE StopLocked(a, Min(SessionsOf(c)), op[a].pc \o "_join") /\ slock' = a

stop_all_sessions_of_connection(a) ==
  /\ op[a].pc = "closeall" /\ slock \in {None, a}
  /\ StopNextOf(a, op[a].conn, "close")
  /\ UNCHANGED <<conn, req, table, last, clock, ob, scene>>

StopAllJoined(a) ==
  /\ op[a].pc \in {"closeall_join", "background_join"} /\ Joined(a)
  /\ Deleted(op[a].slot)
  /\ table' = Cleared(table, op[a].slot)
  /\ Goto(a, IF op[a].pc = "closeall_join" THEN "closeall" ELSE "background")
  /\ UNCHANGED <<conn, th, last, slock, clock, ob, raced, scene>>

(* Its own thread goes on without the connection *)
CloseSelf(c) ==
  /\ op[c].pc = "close"
  /\ conn' = [conn EXCEPT ![c].st = "removed", ![c].inserted = FALSE]
  /\ clock' = None
  /\ op' = [op EXCEPT ![c] = Off]
  /\ UNCHANGED <<req, th, table, last, slock, ob, raced, scene>>

-----------------------------------------------------------------------------
(* A reply comes in: the entry is read without the lock *)

process_reply(i) ==
  /\ "reply" \in scene.with /\ ob.pc = "idle" /\ op["main"].pc # "end"
  /\ ob' = [pc |-> "find", slot |-> i, conn |-> IF table[i].req = None THEN None ELSE table[i].conn]
  /\ UNCHANGED <<conn, op, req, th, table, last, slock, clock, raced, scene>>

(* The name may have been freed since; then it names nothing that is known *)
find_command_connection ==
  /\ ob.pc = "find"
  /\ \/ /\ ob.conn # None /\ clock = None
        /\ conn[ob.conn].inserted
        /\ conn' = [conn EXCEPT ![ob.conn].refs = @ + 1]
        /\ ob' = [ob EXCEPT !.pc = "recv"]
     \/ /\ ob.conn # None => clock = None
        /\ ob.conn # None => ~conn[ob.conn].inserted \/ table[ob.slot].conn # ob.conn
        /\ ob' = [ob EXCEPT !.pc = "recv", !.conn = None]
        /\ UNCHANGED conn
  /\ UNCHANGED <<op, req, th, table, last, slock, clock, raced, scene>>

session_recv ==
  /\ ob.pc = "recv" /\ slock = None
  /\ table' = Accessed(table, ob.slot)
  /\ ob' = [ob EXCEPT !.pc = "print"]
  /\ UNCHANGED <<conn, op, req, th, last, slock, clock, raced, scene>>

release_command_connection ==
  /\ ob.pc = "print"
  /\ conn' = IF ob.conn = None THEN conn ELSE [conn EXCEPT ![ob.conn].refs = @ - 1]
  /\ ob' = [pc |-> "idle", slot |-> -1, conn |-> None]
  /\ UNCHANGED <<op, req, th, table, last, slock, clock, raced, scene>>

-----------------------------------------------------------------------------
(* The shutdown of the module by the main thread; the telnet interface is  *)
(* closed already                                                          *)

finish_oam ==
  /\ "finish" \in scene.with /\ op["main"].pc = "idle" /\ op["config"].pc = "idle"
  /\ \A c \in Conns : conn[c].st \in {"open", "gone"} => conn[c].inserted
  /\ Goto("main", "background")
  /\ UNCHANGED <<conn, req, th, table, last, slock, clock, ob, raced, scene>>

StopBackground ==
  /\ op["main"].pc = "background" /\ slock \in {None, "main"}
  /\ StopNextOf("main", None, "finish_cmd")
  /\ UNCHANGED <<conn, req, table, last, clock, ob, scene>>

Remaining == {c \in Conns : conn[c].inserted}

finish_cmd_module ==
  /\ op["main"].pc = "finish_cmd" /\ clock \in {None, "main"}
  /\ IF Remaining = {}
     THEN clock' = None /\ Goto("main", "finish_message")
     ELSE /\ clock' = "main"
          /\ \E c \in Remaining : op' = [op EXCEPT !["main"].pc = "drain", !["main"].conn = c]
  /\ UNCHANGED <<conn, req, th, table, last, slock, ob, raced, scene>>

(* The command thread is cancelled while it reads, writes or joins another *)
(* thread; in the last case session_lock stays locked                      *)
CommandCancelled(c) ==
  /\ op["main"].pc = "close" /\ op["main"].conn = c
  /\ op[c].pc \in {"idle", "launch", "steal", "join"}
  /\ op' = [op EXCEPT ![c] = Off]
  /\ UNCHANGED <<conn, req, th, table, last, slock, clock, ob, raced, scene>>

CloseOther ==
  /\ op["main"].pc = "close" /\ op[op["main"].conn].pc = "off"
  /\ conn' = [conn EXCEPT ![op["main"].conn] = [@ EXCEPT !.st = "removed", !.inserted = FALSE]]
  /\ Goto("main", "finish_cmd")
  /\ UNCHANGED <<req, th, table, last, slock, clock, ob, raced, scene>>

finish_message_module ==
  /\ op["main"].pc = "finish_message" /\ op["inband"].pc = "idle" /\ ob.pc = "idle"
  /\ op' = [op EXCEPT !["main"].pc = "end", !["inband"] = Off]
  /\ UNCHANGED <<conn, req, th, table, last, slock, clock, ob, raced, scene>>

-----------------------------------------------------------------------------
(* Threads that can run do so within a second *)

Waits(a) ==
  \/ op[a].pc \in {"off", "idle", "end"}
  \/ op[a].pc \in {"alloc", "stop", "closeall", "background"} /\ slock \notin {None, a}
  \/ op[a].pc \in {"find", "leave", "finish_cmd"} /\ clock \notin {None, a}
  \/ op[a].pc = "drain" /\ conn[op[a].conn].refs > 0
  \/ op[a].pc \in {"steal", "join", "closeall_join", "background_join"} /\ ~Joined(a)
  \/ a = "main" /\ op[a].pc = "close" /\ op[op[a].conn].pc # "off"
  \/ op[a].pc = "finish_message" /\ (op["inband"].pc # "idle" \/ ob.pc # "idle")

ThreadWaits(r) ==
  \/ th[r].st \in {"none", "done"}
  \/ th[r].st = "start" /\ slock # None
  \/ th[r].st = "sleep" /\ th[r].nap < req[r].interval /\ ~th[r].cancel

ReceiverWaits ==
  \/ ob.pc = "idle"
  \/ ob.pc = "find" /\ ob.conn # None /\ clock # None
  \/ ob.pc = "recv" /\ slock # None

Second ==
  /\ \A a \in Actors : Waits(a)
  /\ \A r \in Reqs : ThreadWaits(r)
  /\ ReceiverWaits
  /\ \A c \in Conns : conn[c].st \in {"open", "gone"} => conn[c].inserted \/ clock # None
  /\ table' = SecondPasses(table)
  /\ th' = [r \in Reqs |-> [th[r] EXCEPT !.nap = IF th[r].st = "sleep" THEN @ + 1 ELSE @]]
  /\ UNCHANGED <<conn, op, req, last, slock, clock, ob, raced, scene>>

Initiate(a) ==
  Alloc(a) \/ Steal(a) \/ FindOwn(a) \/ SendOnce(a) \/ Launch(a) \/ LaunchFails(a) \/ StoreThread(a)

Close(a) == Drain(a) \/ stop_all_sessions_of_connection(a) \/ StopAllJoined(a)

Connection(c) ==
  \/ oam_start_command_connection(c) \/ InsertConnection(c)
  \/ command_loop(c) \/ (\E i \in Slots : StopCommand(c, i)) \/ stop_session(c) \/ StopJoined(c)
  \/ Quit(c) \/ Leave(c) \/ CloseSelf(c) \/ CommandCancelled(c)

RequestThread(r) ==
  ThreadStart(r) \/ ThreadSend(r) \/ ThreadWakes(r) \/ ThreadCancelled(r) \/ ThreadExit(r)

Receiver ==
  \/ \E i \in Slots : process_reply(i)
  \/ find_command_connection \/ session_recv \/ release_command_connection

Shutdown ==
  finish_oam \/ StopBackground \/ finish_cmd_module \/ CloseOther \/ finish_message_module

Next ==
  \/ \E c \in Conns : Connection(c)
  \/ process_rping_request \/ oam_start_background_ping
  \/ \E a \in Actors : Initiate(a) \/ Close(a)
  \/ \E r \in Reqs : RequestThread(r)
  \/ Receiver \/ Shutdown \/ Second

Spec == Init /\ [][Next]_vars

-----------------------------------------------------------------------------
(* Properties *)

TypeOK ==
  /\ conn \in [Conns -> [st : {"none", "open", "gone", "removed"}, inserted : BOOLEAN, refs : 0 .. 2]]
  /\ \A i \in Slots : table[i].req \in Reqs \cup {None} /\ table[i].silent \in 0 .. MaxSilent
  /\ last \in Slots
  /\ slock \in Actors \cup {None} /\ clock \in Actors \cup {None}
  /\ raced \subseteq Reqs
  /\ \A r \in Reqs : /\ req[r].st \in {"unused", "live", "freed", "leaked"}
                     /\ th[r].st \in {"none", "start", "run", "sleep", "exit", "done"}

(* The session table hands out an entry whenever one is free or has timed  *)
(* out, the first one after the last it gave away; so the last one is      *)
(* taken again, and gets late replies to its previous request, only when   *)
(* all the others are live (alloc_session_id(), oam_session.c).            *)
AllocCorrect ==
  LET id == alloc_session_id(table, last)
      live == {i \in Slots : table[i].req # None /\ ~session_timeouted(table[i])}
  IN IF id = -1 THEN live = Slots
     ELSE id \notin live /\ (id = last => live = Slots \ {last})

(* A session that is taken away because it seems to have timed out is not  *)
(* one whose request is being initiated or whose thread is still sending:  *)
(* the timeout outlasts every interval (session_timeouted()).              *)
LiveNotStolen ==
  \A a \in Actors : op[a].pc = "steal" =>
    LET v == table[op[a].slot].req
    IN v \notin Initiating /\ th[v].st \notin {"start", "run", "sleep"}

(* The table gives every session to one live request: it finds what is     *)
(* available, and takes nothing that is in use (alloc_session_id()).       *)
AllocSound == AllocCorrect /\ LiveNotStolen

(* A request that sends is the one in the table under the session number   *)
(* it sends with, so no two requests share a session number.               *)
SessionOwned ==
  \A r \in Reqs :
    th[r].st \in {"run", "sleep"} /\ req[r].st = "live" => table[req[r].slot].req = r

(* No thread runs on a freed request, unless the request was freed by a    *)
(* stop command between its entry into the table and the launch of its     *)
(* thread, where nothing protects it (initiate_request()).                 *)
FreedNotRunning ==
  \A r \in Reqs :
    req[r].st = "freed" /\ th[r].st \in {"start", "run", "sleep"} => r \in raced

(* A connection that the out-of-band receiver prints to is not freed:      *)
(* command_connection_delete_cb() waits for the references.                *)
ConnHeldAlive ==
  ob.pc \in {"recv", "print"} /\ ob.conn # None => conn[ob.conn].st # "removed"

(* When a connection has left, none of its sessions is left, unless it     *)
(* left before it was entered into the hash, or the shutdown overtook its  *)
(* last command (command_connection_delete_cb()).                          *)
ClosedHasNoSessions ==
  \A c \in Conns :
    conn[c].st = "removed" /\ op["main"].pc = "idle" => SessionsOf(c) = {}

(* Only requests that nobody else ends are endless: a background ping runs *)
(* for ever and belongs to no connection, and what another node asked for  *)
(* by rping ends by itself.                                                *)
EndlessOwned ==
  \A r \in Reqs : req[r].st = "live" =>
    /\ req[r].background => req[r].count = 0 /\ req[r].conn = None
    /\ req[r].originator => req[r].count # 0

(* Connections and what belongs to them are sound: a connection is there   *)
(* as long as it is used, its requests go with it, and what belongs to no  *)
(* connection ends or is meant not to (oam_command.c).                     *)
ConnectionsSound == TypeOK /\ ConnHeldAlive /\ ClosedHasNoSessions /\ EndlessOwned
=============================================================================
