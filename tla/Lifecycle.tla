----------------------------- MODULE Lifecycle -----------------------------
(***************************************************************************)
(* Startup and shutdown of DNT: the transaction that adds the configured   *)
(* objects, interfaces and streams, the transaction that removes the       *)
(* interfaces, the reference counts that decide what is deleted when, and  *)
(* the threads that work with the counted things meanwhile (main, one      *)
(* receiver per interface, the delay thread).                              *)
(*                                                                         *)
(* Every thread has a stack of calls still to be made, `todo`.  A step of a *)
(* thread executes the call on top and replaces it by the calls that its   *)
(* body makes, so that the avalanche of deletions runs interleaved with    *)
(* the other threads and re-enters itself as it does in the code.  The     *)
(* first use of freed memory is recorded in `fault` and ends the behaviour. *)
(***************************************************************************)
EXTENDS Integers, FiniteSets, SequencesExt

CONSTANTS
    Ifaces,     \* names of interfaces, also of their receiver threads
    Pipes,      \* names of pipelines, branches of a replication included
    Objects,    \* names of pipeline objects
    Scenes,     \* the configurations, see SceneType
    MaxPackets  \* bound on the packets that arrive from the network

Ids == 1..MaxPackets
Threads == {"main", "delay"} \cup Ifaces

(***************************************************************************)
(* A configuration.  An action is a SEND to an interface, a HOLD (a delay  *)
(* or an ordering buffer that passes the packet to another thread), or a   *)
(* REPL with its branch pipelines.                                         *)
(***************************************************************************)
ActionType ==
    [op : {"send"}, to : [1..1 -> Ifaces]]
      \cup [op : {"hold"}, to : {<<>>}]
      \cup [op : {"repl"}, to : UNION {[1..n -> Pipes] : n \in 1..2}]

SceneType(s) ==
    /\ s.ifs \subseteq Ifaces
    /\ s.internal \subseteq s.ifs
    /\ s.rx \subseteq s.ifs \ s.internal        \* where packets arrive
    /\ \A i \in s.ifs : Range(s.streams[i]) \subseteq Pipes
    /\ \A p \in Pipes : Range(s.acts[p]) \subseteq ActionType
    /\ s.uses \in [Pipes -> SUBSET Objects]
    /\ s.mayFail \in BOOLEAN                    \* the startup may fail
    /\ s.packets \in Ids                        \* bound: packets that arrive

ASSUME ScenesAssumption == \A s \in Scenes : SceneType(s)

VARIABLES
    scene,      \* the configuration of this behaviour
    ifs,        \* struct Interface, and what its memory is used for
    pipes,      \* struct Pipeline
    objs,       \* struct PipelineObject
    todo,       \* per thread: the calls still to be made, the next one first
    held,       \* iterators waiting in the delay thread's queue
    sources,    \* registered notification sources
    arrived,    \* packets received from the network so far
    got,        \* <<packet, pipeline>>: a stream that began processing
    out,        \* <<packet, interface>>: packets sent
    unopened,   \* packets sent on an interface that was not open yet
    missed,     \* interfaces whose receiver was signalled just before it blocked
    fault       \* the first use of freed memory

vars == <<scene, ifs, pipes, objs, todo, held, sources, arrived, got, out,
          unopened, missed, fault>>
counted == <<ifs, pipes, objs>>
traffic == <<held, arrived, got, out, unopened>>

\* A call: what is called, on which interface, pipeline or object, for a loop
\* the set that is left, and for an iterator its position and packet.
Call(op, of) == [op |-> op, of |-> of, left |-> {}, pos |-> 1, id |-> 0]
Loop(op, set) == [op |-> op, of |-> "", left |-> set, pos |-> 1, id |-> 0]
Iter(p, pos, id) == [op |-> "run", of |-> p, left |-> {}, pos |-> pos, id |-> id]
Recv(op, i, id) == [op |-> op, of |-> i, left |-> {}, pos |-> 1, id |-> id]

Calls(op, s) == [n \in 1..Len(s) |-> Call(op, s[n])]

Idle(t) == todo[t] = <<>>
Top(t) == Head(todo[t])
Done == Idle("main")

\* The call on top of t's stack is replaced by the calls of its body.
Becomes(t, calls) == todo' = [todo EXCEPT ![t] = calls \o Tail(@)]
Returns(t) == Becomes(t, <<>>)

Fails(what, which) == fault' = {<<what, which>>}

-----------------------------------------------------------------------------
(***************************************************************************)
(* The counters.                                                           *)
(***************************************************************************)
SendsOf(s, p) ==
    LET own == SelectSeq(s.acts[p], LAMBDA a : a.op = "send")
    IN [n \in 1..Len(own) |-> own[n].to[1]]

BranchesOf(s, p) ==
    FlattenSeq([n \in 1..Len(s.acts[p]) |->
                   IF s.acts[p][n].op = "repl" THEN s.acts[p][n].to ELSE <<>>])

\* The interfaces pipeline_ref_send_interfaces counts for p, branches included.
RECURSIVE AllSendsOf(_, _)
AllSendsOf(s, p) ==
    LET b == BranchesOf(s, p)
    IN SendsOf(s, p) \o FlattenSeq([n \in 1..Len(b) |-> AllSendsOf(s, b[n])])

Targets(p) == Range(AllSendsOf(scene, p))

iface_add_sender(is, i) == [is EXCEPT ![i].snd = @ + 1]

pipeline_ref_send_interfaces(is, s, p) ==
    FoldLeft(iface_add_sender, is, AllSendsOf(s, p))

\* assemble_actions: the new pipeline and its branches belong to the caller,
\* and every action that uses an object takes a reference to it.
assemble_actions(w, s, p) ==
    LET new == {p} \cup Range(BranchesOf(s, p))
    IN [w EXCEPT !.pipes = [q \in Pipes |->
                               IF q \in new THEN [ref |-> 1, freed |-> FALSE]
                               ELSE @[q]],
                 !.objs = [o \in Objects |->
                             [@[o] EXCEPT !.ref =
                               @ + Cardinality({q \in new : o \in s.uses[q]})]]]
-----------------------------------------------------------------------------
(***************************************************************************)
(* The startup transaction.                                                *)
(***************************************************************************)
new_interface ==
    [ref |-> 1, snd |-> 0, st |-> "init", tree |-> "none", th |-> FALSE,
     closed |-> FALSE, freed |-> FALSE, fifo |-> <<>>]

Init ==
    /\ scene \in Scenes
    /\ ifs = [i \in Ifaces |-> new_interface]
    /\ pipes = [p \in Pipes |-> [ref |-> 0, freed |-> FALSE]]
    /\ objs = [o \in Objects |-> [ref |-> 1, kept |-> FALSE]]
    /\ todo = [t \in Threads |->
                 IF t = "main" THEN <<Call("commit", "")>> ELSE <<>>]
    /\ held = {} /\ sources = {} /\ arrived = 0
    /\ got = {} /\ out = {} /\ unopened = {} /\ missed = {} /\ fault = {}

\* add_new_objects_cb and add_new_ifaces_cb: the state's hash maps take a
\* reference beside the transaction's.
commit(t) ==
    /\ objs' = [o \in Objects |-> [ref |-> objs[o].ref + 1, kept |-> TRUE]]
    /\ ifs' = [i \in Ifaces |->
                 [ifs[i] EXCEPT !.ref = IF i \in scene.ifs THEN @ + 1 ELSE @]]
    /\ Becomes(t, <<Loop("addstreams", scene.ifs), Call("dropcache", ""),
                    Loop("open", scene.ifs), Loop("purge", Objects),
                    Call("delete_transaction", ""), Call("main_loop", "")>>)
    /\ UNCHANGED <<scene, pipes, sources, missed, fault, traffic>>

\* state_commit_transaction returned false: main ends without the shutdown
\* transaction, and leaves the rest to the destructor of the state.
Abandoned == <<Call("delete_transaction", ""), Call("finish_delay", ""),
               Call("finish_state", "")>>

\* iface_add_stream; a pipeline that is in the cache is used again.
iface_add_stream(w, i, p) ==
    LET compiled == IF w.pipes[p].ref > 0 THEN w
                    ELSE assemble_actions(w, scene, p)
    IN [compiled EXCEPT
          !.pipes[p].ref = @ + 1,
          !.ifs = [pipeline_ref_send_interfaces(@, scene, p)
                     EXCEPT ![i].tree = "there"]]

addstream_cb(t, i) ==
    LET add(w, p) == iface_add_stream(w, i, p)
        w == FoldLeft(add, [ifs |-> ifs, pipes |-> pipes, objs |-> objs],
                      scene.streams[i])
    IN /\ ifs' = w.ifs /\ pipes' = w.pipes /\ objs' = w.objs
       /\ sources' = IF w.ifs[i].tree = "there"
                     THEN sources \cup {<<"parser", i>>} ELSE sources
       /\ Becomes(t, <<Loop("addstreams", Top(t).left \ {i})>>)

addstreams(t) ==
    /\ \/ \E i \in Top(t).left : addstream_cb(t, i)
       \/ /\ Top(t).left = {}
          /\ Returns(t)
          /\ UNCHANGED <<sources, counted>>
       \/ /\ scene.mayFail
          /\ todo' = [todo EXCEPT ![t] = <<Call("dropcache", "")>> \o Abandoned]
          /\ UNCHANGED <<sources, counted>>
    /\ UNCHANGED <<scene, missed, fault, traffic>>

\* pipe_cache_delete_cb on everything that was compiled as a stream.
StreamPipes == {p \in Pipes : \E i \in scene.ifs : Contains(scene.streams[i], p)}

dropcache(t) ==
    /\ Becomes(t, Calls("pipeline_unref",
                        SetToSeq({p \in StreamPipes : pipes[p].ref > 0})))
    /\ UNCHANGED <<scene, counted, sources, missed, fault, traffic>>

\* The open function: the receiver thread is launched.
int_open(i) == [ifs EXCEPT ![i].st = "open", ![i].th = TRUE]

\* open_new_ifaces_cb: from here on the interface's receiver runs, while the
\* interfaces after it in the hash map are still to be opened.
open_new_ifaces_cb(t) ==
    /\ \/ \E i \in Top(t).left :
             /\ ifs' = int_open(i)
             /\ sources' = sources \cup {<<"iface", i>>}
             /\ todo' = [todo EXCEPT ![i] = <<Recv("loop", i, 0)>>,
                           ![t] = <<Loop("open", Top(t).left \ {i})>> \o Tail(@)]
       \/ /\ Top(t).left = {}
          /\ Returns(t)
          /\ UNCHANGED <<ifs, sources>>
       \/ /\ scene.mayFail
          /\ Top(t).left # {}
          /\ todo' = [todo EXCEPT ![t] = Abandoned]
          /\ UNCHANGED <<ifs, sources>>
    /\ UNCHANGED <<scene, pipes, objs, missed, fault, traffic>>

\* The objects that only the hash map, or it and the transaction, refer to.
Unused(o, new) ==
    objs[o].kept /\ (objs[o].ref = 1 \/ (objs[o].ref = 2 /\ o \in new))

purge_unused_objects_cb(t) ==
    /\ objs' = [o \in Objects |->
                  IF Unused(o, Top(t).left)
                  THEN [ref |-> objs[o].ref - 1, kept |-> FALSE] ELSE objs[o]]
    /\ Returns(t)
    /\ UNCHANGED <<scene, ifs, pipes, sources, missed, fault, traffic>>

delete_transaction(t) ==
    /\ objs' = [o \in Objects |-> [objs[o] EXCEPT !.ref = @ - 1]]
    /\ Becomes(t, Calls("iface_unref", SetToSeq(scene.ifs)))
    /\ UNCHANGED <<scene, ifs, pipes, sources, missed, fault, traffic>>

\* SIGINT or SIGTERM ends main_loop; close_interfaces then commits the
\* transaction "shutdown" and the modules are finished.
main_loop(t) ==
    /\ Becomes(t, <<Loop("del_interfaces", scene.ifs), Loop("purge", {}),
                    Call("finish_delay", ""), Call("finish_state", "")>>)
    /\ UNCHANGED <<scene, counted, sources, missed, fault, traffic>>

del_interfaces_cb(t) ==
    /\ \/ \E i \in Top(t).left :
             Becomes(t, <<Call("iface_unref", i),
                          Loop("del_interfaces", Top(t).left \ {i})>>)
       \/ Top(t).left = {} /\ Returns(t)
    /\ UNCHANGED <<scene, counted, sources, missed, fault, traffic>>

\* finish_delay returns when the delay thread has flushed its queue.
finish_delay(t) ==
    /\ held = {}
    /\ Idle("delay")
    /\ Returns(t)
    /\ UNCHANGED <<scene, counted, sources, missed, fault, traffic>>

\* The destructor of the state: what is still in the two hash maps.
finish_state(t) ==
    /\ Becomes(t, Calls("iface_unref",
                        SetToSeq({i \in scene.ifs : ifs[i].ref > 0}))
                    \o <<Call("object_maps", "")>>)
    /\ UNCHANGED <<scene, counted, sources, missed, fault, traffic>>

object_maps(t) ==
    /\ objs' = [o \in Objects |->
                  IF objs[o].kept THEN [ref |-> objs[o].ref - 1, kept |-> FALSE]
                  ELSE objs[o]]
    /\ Returns(t)
    /\ UNCHANGED <<scene, ifs, pipes, sources, missed, fault, traffic>>
-----------------------------------------------------------------------------
(***************************************************************************)
(* The owner and sender references of an interface.                        *)
(***************************************************************************)
iface_unref(t) ==
    LET i == Top(t).of
        last == ifs[i].ref = 1
    IN /\ ifs' = [ifs EXCEPT ![i].ref = @ - 1,
                             ![i].st = IF last THEN "shutdown" ELSE @]
       /\ Becomes(t, IF last THEN <<Call("shut", i)>> ELSE <<>>)
       /\ UNCHANGED <<scene, pipes, objs, traffic, sources, missed, fault>>

\* The rest of iface_unref, once it has read sender_count.
shut(t) ==
    LET i == Top(t).of
    IN /\ Becomes(t, IF ifs[i].snd > 0
                     THEN <<Call("wakeup", i), Call("join", i),
                            Call("delete_parsetree", i), Call("forget_tree", i)>>
                     ELSE <<Call("delete_interface", i)>>)
       /\ UNCHANGED <<scene, counted, traffic, sources, missed, fault>>

\* Mutant: the interface keeps the pointer to the deleted tree.
TreeRemembered(t) ==
    /\ Returns(t)
    /\ UNCHANGED <<scene, counted, traffic, sources, missed, fault>>

\* iface->parsetree_ = NULL
forget_tree(t) ==
    LET i == Top(t).of
    IN /\ IF ifs[i].freed
          THEN Fails("interface", i) /\ UNCHANGED ifs
          ELSE ifs' = [ifs EXCEPT ![i].tree = "none"] /\ UNCHANGED fault
       /\ Returns(t)
       /\ UNCHANGED <<scene, pipes, objs, traffic, sources, missed>>

iface_del_sender(t) ==
    LET i == Top(t).of
    IN /\ IF ifs[i].freed
          THEN Fails("interface", i) /\ UNCHANGED ifs
          ELSE ifs' = [ifs EXCEPT ![i].snd = @ - 1] /\ UNCHANGED fault
       /\ Becomes(t, IF ifs[i].snd = 1 THEN <<Call("unsent", i)>> ELSE <<>>)
       /\ UNCHANGED <<scene, pipes, objs, traffic, sources, missed>>

\* Mutant: the last sender deletes the interface that still has an owner.
UnsentDeletes(t) ==
    LET i == Top(t).of
    IN /\ Becomes(t, <<Call("delete_interface", i)>>)
       /\ UNCHANGED <<scene, counted, traffic, sources, missed, fault>>

\* The rest of iface_del_sender, once it has read reference_count.
unsent(t) ==
    LET i == Top(t).of
    IN /\ Becomes(t, IF ifs[i].ref > 0 THEN <<>>
                     ELSE <<Call("delete_interface", i)>>)
       /\ UNCHANGED <<scene, counted, traffic, sources, missed, fault>>

\* The close function: the descriptor is closed and the packets in an internal
\* interface's queue are deleted.
int_close(i) == [ifs EXCEPT ![i].closed = TRUE, ![i].fifo = <<>>]

delete_interface(t) ==
    LET i == Top(t).of
    IN /\ IF ifs[i].closed
          THEN Fails("interface", i) /\ UNCHANGED <<ifs, sources>>
          ELSE /\ ifs' = int_close(i)
               /\ sources' = sources \ {<<"iface", i>>}
               /\ UNCHANGED fault
       /\ Becomes(t, <<Call("wakeup", i), Call("join", i),
                       Call("delete_parsetree", i), Call("free_interface", i)>>)
       /\ UNCHANGED <<scene, pipes, objs, traffic, missed>>

free_interface(t) ==
    LET i == Top(t).of
    IN /\ ifs' = [ifs EXCEPT ![i].freed = TRUE]
       /\ Returns(t)
       /\ UNCHANGED <<scene, pipes, objs, traffic, sources, missed, fault>>

\* Mutant: nobody is signalled.
WakesNobody(t) ==
    /\ Returns(t)
    /\ UNCHANGED <<scene, counted, traffic, sources, missed, fault>>

\* thread_wakeup: the signal ends a system call that blocks, and nothing else.
thread_wakeup(t) ==
    LET i == Top(t).of
        at(op) == ifs[i].th /\ ~Idle(i) /\ Top(i).op = op
    IN /\ IF at("blocked")
          THEN todo' = [todo EXCEPT ![t] = Tail(@), ![i] = <<Recv("check", i, 0)>>]
          ELSE Returns(t)
       /\ missed' = IF at("enter") /\ ~ifs[i].closed THEN missed \cup {i}
                    ELSE missed
       /\ UNCHANGED <<scene, counted, traffic, sources, fault>>

\* thread_join returns at once when the thread joins itself.
thread_join(t) ==
    LET i == Top(t).of
    IN /\ ~ifs[i].th \/ t = i \/ Idle(i)
       /\ ifs' = [ifs EXCEPT ![i].th = FALSE]
       /\ Returns(t)
       /\ UNCHANGED <<scene, pipes, objs, traffic, sources, missed, fault>>

delete_parsetree(t) ==
    LET i == Top(t).of
    IN /\ \/ /\ ifs[i].tree = "none"
             /\ Returns(t)
             /\ UNCHANGED <<sources, fault>>
          \/ /\ ifs[i].tree # "none"
             /\ IF ifs[i].tree = "freed" THEN Fails("tree", i) ELSE UNCHANGED fault
             /\ sources' = sources \ {<<"parser", i>>}
             /\ Becomes(t, Calls("pipeline_unref", scene.streams[i])
                             \o <<Call("free_tree", i)>>)
       /\ UNCHANGED <<scene, counted, traffic, missed>>

free_tree(t) ==
    LET i == Top(t).of
    IN /\ IF ifs[i].freed \/ ifs[i].tree = "freed"
          THEN Fails("tree", i) /\ UNCHANGED ifs
          ELSE ifs' = [ifs EXCEPT ![i].tree = "freed"] /\ UNCHANGED fault
       /\ Returns(t)
       /\ UNCHANGED <<scene, pipes, objs, traffic, sources, missed>>

(***************************************************************************)
(* The references to a pipeline.                                           *)
(***************************************************************************)
\* Mutant: the branches of a replication keep their reference.
BranchesKept(t) ==
    LET p == Top(t).of
    IN /\ pipes' = [pipes EXCEPT ![p].ref = @ - 1]
       /\ IF pipes[p].freed THEN Fails("pipeline", p) ELSE UNCHANGED fault
       /\ Becomes(t, IF pipes[p].ref = 1
                     THEN Calls("iface_del_sender", SendsOf(scene, p))
                            \o <<Call("free_pipeline", p)>>
                     ELSE <<>>)
       /\ UNCHANGED <<scene, ifs, objs, traffic, sources, missed>>

pipeline_unref(t) ==
    LET p == Top(t).of
    IN /\ pipes' = [pipes EXCEPT ![p].ref = @ - 1]
       /\ IF pipes[p].freed THEN Fails("pipeline", p) ELSE UNCHANGED fault
       /\ Becomes(t, IF pipes[p].ref = 1
                     THEN Calls("iface_del_sender", SendsOf(scene, p))
                            \o Calls("pipeline_unref", BranchesOf(scene, p))
                            \o <<Call("free_pipeline", p)>>
                     ELSE <<>>)
       /\ UNCHANGED <<scene, ifs, objs, traffic, sources, missed>>

\* delete_action of the actions that use an object, and the pipeline itself.
free_pipeline(t) ==
    LET p == Top(t).of
    IN /\ pipes' = [pipes EXCEPT ![p].freed = TRUE]
       /\ objs' = [o \in Objects |->
                     [objs[o] EXCEPT !.ref =
                        IF o \in scene.uses[p] THEN @ - 1 ELSE @]]
       /\ Returns(t)
       /\ UNCHANGED <<scene, ifs, traffic, sources, missed, fault>>
-----------------------------------------------------------------------------
(***************************************************************************)
(* A receiver thread: the loop reads the state, the system call blocks     *)
(* until a packet, a signal or an error, the state is read again.          *)
(***************************************************************************)
recv_loop(t) ==
    /\ IF ifs[t].freed THEN Fails("interface", t) ELSE UNCHANGED fault
    /\ Becomes(t, IF ifs[t].st = "shutdown" THEN <<>> ELSE <<Recv("enter", t, 0)>>)
    /\ UNCHANGED <<scene, counted, traffic, sources, missed>>

\* The system call is made; on a closed descriptor it fails at once.
enter(t) ==
    /\ Becomes(t, IF ifs[t].closed THEN <<Recv("check", t, 0)>>
                  ELSE <<Recv("blocked", t, 0)>>)
    /\ UNCHANGED <<scene, counted, traffic, sources, missed, fault>>

\* A packet from the network, from the kernel's queue.
Arrives(i) ==
    /\ i \in scene.rx
    /\ ~Idle(i) /\ Top(i).op = "blocked"
    /\ arrived < scene.packets
    /\ arrived' = arrived + 1
    /\ Becomes(i, <<Recv("check", i, arrived + 1)>>)
    /\ UNCHANGED <<scene, counted, held, got, out, unopened, sources, missed, fault>>

\* The eventfd of an internal interface can be read.
Readable(t) ==
    /\ t \in scene.internal
    /\ ifs[t].fifo # <<>>
    /\ Becomes(t, <<Recv("check", t, Head(ifs[t].fifo))>>)
    /\ UNCHANGED <<scene, counted, traffic, sources, missed, fault>>

\* Nothing is taken after the shutdown, nor when the system call failed.
check(t) ==
    /\ IF ifs[t].freed THEN Fails("interface", t) ELSE UNCHANGED fault
    /\ Becomes(t, IF ifs[t].st = "shutdown" \/ Top(t).id = 0
                  THEN <<Recv("loop", t, 0)>>
                  ELSE <<Recv("process", t, Top(t).id), Recv("loop", t, 0)>>)
    /\ UNCHANGED <<scene, counted, traffic, sources, missed>>

packetfifo_get(i) ==
    [ifs EXCEPT ![i].fifo = IF i \in scene.internal THEN Tail(@) ELSE @]

\* packetfifo_get, and then iface_common_process: the packet belongs to one of
\* the interface's streams, whose new iterator takes a reference.
process(t) ==
    LET id == Top(t).id
        stale == t \in scene.internal /\ ifs[t].closed
    IN \/ /\ stale \/ ifs[t].tree = "freed"
          /\ Fails("queue", t)
          /\ UNCHANGED <<scene, counted, traffic, sources, missed, todo>>
       \/ /\ ~stale /\ ifs[t].tree = "none"
          /\ ifs' = packetfifo_get(t)
          /\ Returns(t)
          /\ UNCHANGED <<scene, pipes, objs, traffic, sources, missed, fault>>
       \/ /\ ~stale /\ ifs[t].tree = "there"
          /\ \E p \in Range(scene.streams[t]) :
                /\ got' = got \cup {<<id, p>>}
                /\ Becomes(t, <<[Iter(p, 1, id) EXCEPT !.op = "new_pipe_iterator"]>>)
          /\ ifs' = packetfifo_get(t)
          /\ UNCHANGED <<scene, pipes, objs, held, arrived, out, unopened,
                         sources, missed, fault>>

\* Mutant: the iterator takes no reference.
UncountedIterator(t) ==
    /\ Becomes(t, <<Iter(Top(t).of, 1, Top(t).id)>>)
    /\ UNCHANGED <<scene, counted, traffic, sources, missed, fault>>

new_pipe_iterator(t) ==
    LET p == Top(t).of
    IN /\ pipes' = [pipes EXCEPT ![p].ref = @ + 1]
       /\ Becomes(t, <<Iter(p, 1, Top(t).id)>>)
       /\ UNCHANGED <<scene, ifs, objs, traffic, sources, missed, fault>>

(***************************************************************************)
(* pipe_iterator_run: one action, or the end of the iterator.              *)
(***************************************************************************)
packetfifo_insert(i, id) ==
    [ifs EXCEPT ![i].fifo = IF i \in scene.internal THEN Append(@, id) ELSE @]

\* Mutant: an interface that is being shut down sends nothing.
SendsWhenOpen(t, i, id) ==
    IF ifs[i].closed
    THEN Fails("interface", i) /\ UNCHANGED <<ifs, out, unopened>>
    ELSE IF ifs[i].st # "open"
    THEN UNCHANGED <<ifs, out, unopened, fault>>
    ELSE /\ out' = out \cup {<<id, i>>}
         /\ ifs' = packetfifo_insert(i, id)
         /\ UNCHANGED <<unopened, fault>>

\* The send function of an interface.
Send(t, i, id) ==
    IF ifs[i].closed
    THEN Fails("interface", i) /\ UNCHANGED <<ifs, out, unopened>>
    ELSE IF ifs[i].st = "init"
    THEN unopened' = unopened \cup {id} /\ UNCHANGED <<ifs, out, fault>>
    ELSE /\ out' = out \cup {<<id, i>>}
         /\ ifs' = packetfifo_insert(i, id)
         /\ UNCHANGED <<unopened, fault>>

pipe_iterator_run(t) ==
    LET p == Top(t).of
        pos == Top(t).pos
        id == Top(t).id
        a == scene.acts[p][pos]
        next == Iter(p, pos + 1, id)
    IN /\ \/ /\ pos > Len(scene.acts[p])
             /\ Becomes(t, <<Call("pipeline_unref", p)>>)
             /\ UNCHANGED <<ifs, held, out, unopened, fault>>
          \/ /\ pos <= Len(scene.acts[p]) /\ a.op = "send"
             /\ Send(t, a.to[1], id)
             /\ Becomes(t, <<next>>)
             /\ UNCHANGED held
          \/ /\ pos <= Len(scene.acts[p]) /\ a.op = "hold"
             /\ held' = held \cup {next}
             /\ Returns(t)
             /\ UNCHANGED <<ifs, out, unopened, fault>>
          \/ /\ pos <= Len(scene.acts[p]) /\ a.op = "repl"
             /\ Becomes(t, [n \in 1..Len(a.to) |->
                             [Iter(a.to[n], 1, id) EXCEPT !.op = "new_pipe_iterator"]]
                            \o <<Call("pipeline_unref", p)>>)
             /\ UNCHANGED <<ifs, held, out, unopened, fault>>
       /\ UNCHANGED <<scene, pipes, objs, arrived, got, sources, missed>>

\* The delay thread resumes an iterator, at its deadline or when it flushes.
Resume ==
    /\ Idle("delay")
    /\ \E h \in held :
         /\ held' = held \ {h}
         /\ todo' = [todo EXCEPT !["delay"] = <<h>>]
    /\ UNCHANGED <<scene, counted, arrived, got, out, unopened, sources, missed, fault>>
-----------------------------------------------------------------------------
Body(t) ==
    LET op == Top(t).op
    IN \/ op = "commit" /\ commit(t)
       \/ op = "addstreams" /\ addstreams(t)
       \/ op = "dropcache" /\ dropcache(t)
       \/ op = "open" /\ open_new_ifaces_cb(t)
       \/ op = "purge" /\ purge_unused_objects_cb(t)
       \/ op = "delete_transaction" /\ delete_transaction(t)
       \/ op = "del_interfaces" /\ del_interfaces_cb(t)
       \/ op = "finish_delay" /\ finish_delay(t)
       \/ op = "finish_state" /\ finish_state(t)
       \/ op = "object_maps" /\ object_maps(t)
       \/ op = "iface_unref" /\ iface_unref(t)
       \/ op = "shut" /\ shut(t)
       \/ op = "forget_tree" /\ forget_tree(t)
       \/ op = "iface_del_sender" /\ iface_del_sender(t)
       \/ op = "unsent" /\ unsent(t)
       \/ op = "delete_interface" /\ delete_interface(t)
       \/ op = "free_interface" /\ free_interface(t)
       \/ op = "wakeup" /\ thread_wakeup(t)
       \/ op = "join" /\ thread_join(t)
       \/ op = "delete_parsetree" /\ delete_parsetree(t)
       \/ op = "free_tree" /\ free_tree(t)
       \/ op = "pipeline_unref" /\ pipeline_unref(t)
       \/ op = "free_pipeline" /\ free_pipeline(t)
       \/ op = "loop" /\ recv_loop(t)
       \/ op = "enter" /\ enter(t)
       \/ op = "blocked" /\ Readable(t)
       \/ op = "check" /\ check(t)
       \/ op = "process" /\ process(t)
       \/ op = "new_pipe_iterator" /\ new_pipe_iterator(t)
       \/ op = "run" /\ pipe_iterator_run(t)

Running == ~Done /\ fault = {}

Step(t) == Running /\ ~Idle(t) /\ Body(t)
Signal == Running /\ Top("main").op = "main_loop" /\ main_loop("main")
Arrive == Running /\ \E i \in Ifaces : Arrives(i)
DelayThread == Running /\ Resume

Next ==
    \/ \E t \in Threads : Step(t)
    \/ Signal
    \/ Arrive
    \/ DelayThread

\* The scheduler runs every thread that can run, and a held packet is resumed
\* at its deadline.  Neither packets nor the signal need ever come.
Fairness ==
    /\ \A t \in Threads : WF_vars(Step(t))
    /\ WF_vars(DelayThread)

Spec == Init /\ [][Next]_vars /\ Fairness
-----------------------------------------------------------------------------
(***************************************************************************)
(* Properties.                                                             *)
(***************************************************************************)
\* The variables have their types.
TypeOK ==
    /\ scene \in Scenes
    /\ \A i \in Ifaces :
         /\ ifs[i].ref \in 0..2 /\ ifs[i].snd \in Nat
         /\ ifs[i].st \in {"init", "open", "shutdown"}
         /\ ifs[i].tree \in {"none", "there", "freed"}
         /\ Range(ifs[i].fifo) \subseteq Ids
    /\ \A o \in Objects : objs[o].ref \in Nat
    /\ DOMAIN todo = Threads
    /\ \A h \in held : h.of \in Pipes /\ h.id \in Ids
    /\ arrived \in 0..MaxPackets
    /\ out \subseteq Ids \X Ifaces /\ got \subseteq Ids \X Pipes
    /\ missed \subseteq Ifaces

\* The iterators on a thread's stack and in the delay queue.
Iterators ==
    held \cup UNION {{c \in Range(todo[t]) : c.op = "run"} : t \in Threads}

\* What a packet under way or the notification thread can still touch is
\* there: the iterator's reference keeps its pipeline, the pipeline's sender
\* references keep its outgoing interfaces (pipeline.c, interface.c), and a
\* notification source is removed before what it reads is freed
\* (if_internal.c, parsetree.c).
NothingDangles ==
    /\ \A c \in Iterators :
         /\ ~pipes[c.of].freed
         /\ \A i \in Targets(c.of) : ~ifs[i].closed
         /\ \A o \in scene.uses[c.of] : objs[o].ref > 0
    /\ \A s \in sources :
         /\ ~ifs[s[2]].freed
         /\ s[1] = "parser" => ifs[s[2]].tree = "there"

\* Whatever order the threads run in, the counts stay in their ranges and what
\* they protect is there (pipeline.c, interface.c, parsetree.c).
MemorySound == TypeOK /\ NothingDangles

\* Streams that send on the interface they are received on, and streams whose
\* packets wait in another thread, are where the shutdown is not safe.
Hairpin == \E i \in scene.ifs : \E p \in Range(scene.streams[i]) : i \in Targets(p)
Holds == \E p \in Pipes : \E a \in Range(scene.acts[p]) : a.op = "hold"
Queues == scene.internal # {}

\* Without such streams and without internal interfaces no order of the
\* deletions and of the packets still under way frees anything twice or uses
\* it after it was freed (interface.c, pipeline.c, parsetree.c).
OrderlyShutdown == ~Hairpin /\ ~Holds /\ ~Queues => fault = {}

\* "It can properly start up and shut down DNT" (doc/dev/architecture.md).
NoFault == fault = {}

\* The number of sender references pipeline_ref_send_interfaces takes on i for
\* every interface that receives a stream beyond the first.
Shared(i) ==
    \E p \in StreamPipes :
      /\ i \in Targets(p)
      /\ Cardinality({j \in scene.ifs : Contains(scene.streams[j], p)}) > 1

\* The program has ended, and no packet was left with the delay thread.
Ended == Done /\ fault = {} /\ held = {} /\ Idle("delay")

\* When the program has ended, after a shutdown or after a startup that failed,
\* every pipeline and object is gone, and so is every interface except the
\* outgoing ones of streams received on several interfaces: their sender count
\* was taken once per receiving interface and is released once (state.c,
\* interface.c, pipeline.c).
AllGone ==
    Ended =>
        /\ \A i \in scene.ifs : ~Shared(i) => ifs[i].freed
        /\ \A i \in scene.ifs : Shared(i) /\ ~scene.mayFail => ~ifs[i].freed
        /\ \A p \in Pipes : pipes[p].ref = 0
        /\ \A o \in Objects : objs[o].ref = 0

\* "this shutdown process doesn't lose packets that have already been received
\* and are being processed": a packet that a stream began to process has left
\* on every outgoing interface of the stream when the program ends, unless
\* that was before the startup had opened the interface.
Delivered ==
    Ended =>
        \A g \in got : \A i \in Targets(g[2]) :
            <<g[1], i>> \in out \/ g[1] \in unopened

\* main has left its loop, or has given up the startup.
Closing ==
    \A c \in Range(todo["main"]) :
        c.op \notin {"commit", "addstreams", "open", "main_loop"}

\* The shutdown ends, whatever packets are under way, unless the one signal
\* that thread_wakeup sends came just before the receiver's system call
\* (thread_utils.c, if_utils.c).
ShutdownEnds == Closing ~> (Done \/ fault # {} \/ missed # {})

-----------------------------------------------------------------------------
\* The life of an interface, as the counters decide it.
Life(i) ==
    IF ifs[i].closed THEN "gone" ELSE ifs[i].st

Users(i) == {p \in Pipes : pipes[p].ref > 0 /\ i \in Range(SendsOf(scene, p))}

InterfaceLives ==
    INSTANCE InterfaceLife WITH
        Interfaces <- Ifaces, Senders <- Pipes,
        phase <- [i \in Ifaces |-> Life(i)],
        users <- [i \in Ifaces |-> Users(i)]

\* The two counters of an interface, decremented by different threads,
\* implement its life: opened once, shut for good, and closed only when no
\* pipeline that can still run sends on it (interface.c).
LivesAsPromised == InterfaceLives!Spec
=============================================================================
