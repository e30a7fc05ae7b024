----------------------------- MODULE PipelineRun -----------------------------
(***************************************************************************)
(* The run-time of a compiled pipeline (pipeline.c, action.c, packet.c): a *)
(* packet arrives with the headers of the packet line, or a maintenance    *)
(* point injects an OAM packet at its own place, and the actions work on   *)
(* it one after the other.                                                 *)
(*                                                                         *)
(* A packet is its headers with the values of their fields, the payload    *)
(* last, and its metadata.  ghost holds what no code looks at: the point   *)
(* that injected it, whether a header could not be added, whether the user *)
(* reduced a TTL.  Iterators of other threads touch only their own packet, *)
(* so a held iterator resumes when no other runs.                          *)
(***************************************************************************)
EXTENDS PipelineCompiler, Integers

CONSTANTS
  MaxHeaders,  \* PACKET_MAX_HEADER_NUM
  ScratchLen,  \* room for added headers, PACKET_BUF_START_OFFSET
  PayloadLen   \* octets behind the headers of an arriving packet

ASSUME RunAssumption == MaxHeaders \in Nat /\ ScratchLen \in Nat /\ PayloadLen \in Nat

VARIABLES
  tasks,  \* running iterators, the innermost pipeline first: actions, pos_, packet
  held,   \* iterators kept by a delay, a POF or a maintenance point
  count,  \* packets allocated and not deleted
  ran     \* a packet was already given to this pipeline

run == <<tasks, held, count, ran>>
vars == <<compiler, run>>

-----------------------------------------------------------------------------
(* Packets *)

PayloadHeader == [id |-> "payload", n |-> 0, val |-> <<>>]

(* a header whose fields have the values v says, and "x" otherwise; its     *)
(* next-header field names next                                             *)
Header(id, n, next, v) ==
  [id |-> id, n |-> n,
   val |-> [f \in DOMAIN header_fields[id] |->
     CASE f \in DOMAIN v -> v[f]
       [] header_fields[id][f][3] = "NextHeader" -> next
       [] header_fields[id][f][3] = "TTL" -> "two"
       [] OTHER -> "x"]]

Follows(id, ids, inner) ==
  IF ids # <<>> /\ ids[1] \in DOMAIN get_nexthdr(id) THEN get_nexthdr(id)[ids[1]] ELSE inner

Seqs == {"TSNSeq", "SRv6Seq"}

(* what parsetree_identify hands over: the headers of the packet line; the  *)
(* matched fields have the matched value, an OAM packet is marked in its    *)
(* sequence fields or, without one, by the type of what follows             *)
Arriving(ttl, oam) ==
  LET hs == line.packet
      ids == [i \in DOMAIN hs |-> hs[i][2]]
      seq == [f \in {"seq"} |-> IF oam THEN "oam" ELSE "arr"]
      match(i) == [f \in {g \in DOMAIN header_fields[ids[i]] :
                             \E m \in line.matches : m[1] = hs[i][1] /\ Covers(ids[i], m[2], g)}
                     |-> "m"]
      first(i) == IF i > 1 THEN <<>>
                  ELSE [f \in {g \in DOMAIN header_fields[ids[1]] :
                                 header_fields[ids[1]][g][3] = "TTL"} |-> ttl]
      mark(i) == IF \E t \in Seqs : HasFieldOfType(ids[i], t) THEN seq ELSE <<>>
  IN  [hs |-> Append([i \in DOMAIN hs |->
                Header(ids[i], i, Follows(ids[i], SubSeq(ids, i + 1, Len(ids)),
                                          IF oam THEN "CFM" ELSE "inner"),
                       match(i) @@ first(i) @@ mark(i))], PayloadHeader),
       seq |-> "undef", ttl |-> "undef", scratch |-> 0,
       ghost |-> [mp |-> 0, oam |-> oam, failed |-> FALSE, reduced |-> FALSE]]

(* set_mp_address and the pack_*_message_header functions: the headers of   *)
(* the point's stack, addressed as far as the point knows.  The OAM header  *)
(* of a pseudowire stands in the place of the d-CW and begins like one.     *)
Injected(m) ==
  LET mp == mps[m]
      ids == IF mp.stack[1] = "ipv6" THEN <<"ipv6", "ipv6", "icmpv6">> ELSE mp.stack
      known(g) == CASE mp.addr[g].source \in {"Edit", "Match"} -> mp.addr[g].val
                    [] g = "dmac" /\ mp.addr[g].source = "Unknown" -> "group"
                    [] OTHER -> "unset"
      addr(i) == [g \in DOMAIN mp.addr \cap DOMAIN header_fields[ids[i]] |->
                    IF i <= Len(mp.stack) THEN known(g) ELSE "x"]
      mark(i) == IF i <= Len(mp.stack) /\ "seq" \in DOMAIN header_fields[ids[i]]
                 THEN [seq |-> "oam"] ELSE <<>>
  IN  [hs |-> Append([i \in DOMAIN ids |->
                Header(ids[i], IF i <= Len(mp.stack) THEN mp.ns[i] ELSE 0,
                       Follows(ids[i], SubSeq(ids, i + 1, Len(ids)), "CFM"),
                       addr(i) @@ mark(i))], PayloadHeader),
       seq |-> IF "rtag" \in Range(mp.stack) \/ mp.stack[1] = "mpls" THEN "oam"
               ELSE IF mp.stack[1] = "ipv6" THEN "session" ELSE "undef",
       ttl |-> "two", scratch |-> 0,
       ghost |-> [mp |-> m, oam |-> TRUE, failed |-> FALSE, reduced |-> FALSE]]

\* Mutant of packet_add_header: the new header lands behind the place it is meant for.
AddBehind(p, a) ==
  [p EXCEPT !.hs = InsertAt(@, IF a.hdr > Len(@) THEN Len(@) + 1 ELSE a.hdr + 1,
                            Header(a.id, a.want, "zero", <<>>))]

(* packet_add_header: no room is an error that ADD ignores *)
packet_add_header(p, a) ==
  IF \/ Len(p.hs) = MaxHeaders
     \/ a.hdr > Len(p.hs) + 1
     \/ p.scratch + bytelength[a.id] >= ScratchLen
  THEN [p EXCEPT !.ghost.failed = TRUE]
  ELSE [p EXCEPT !.hs = InsertAt(@, a.hdr, Header(a.id, a.want, "zero", <<>>)),
                 !.scratch = @ + bytelength[a.id]]

packet_del_header(p, a) ==
  IF a.hdr > Len(p.hs) THEN p ELSE [p EXCEPT !.hs = RemoveAt(@, a.hdr)]

(* the readers and writers of header.c, which trust the index *)
ReadField(p, i, f) ==
  IF i <= Len(p.hs) /\ f \in DOMAIN p.hs[i].val THEN p.hs[i].val[f] ELSE "junk"

Default(id, g, old) ==
  LET end == header_fields[id][g][1] + header_fields[id][g][2]
      len == [ipv4 |-> 96, ipv6 |-> 64, arp |-> 64]
  IN  IF id \notin DOMAIN len \/ end > len[id] THEN old
      ELSE IF header_fields[id][g][3] = "TTL" THEN "high" ELSE "default"

WriteField(p, i, f, v) ==
  IF i > Len(p.hs) THEN p
  ELSE LET h == p.hs[i]
           new(g) == CASE f = "default values" -> Default(h.id, g, h.val[g])
                       [] f \notin DOMAIN h.val -> "junk"
                       [] Covers(h.id, f, g) -> v
                       [] Overlaps(h.id, f, g) -> "mixed"
                       [] OTHER -> h.val[g]
       IN  [p EXCEPT !.hs[i].val = [g \in DOMAIN h.val |-> new(g)]]

action_EDIT_execute(p, a) ==
  LET value(q, as) == CASE as.src.k = "const" -> as.src.v
                        [] as.src.k = "field" -> ReadField(q, as.src.hdr, as.src.f)
                        [] OTHER -> "iface"
  IN  FoldLeft(LAMBDA q, as : WriteField(q, as.hdr, as.f, value(q, as)), p, a.asg)

(* a TTL is "zero", "one", "two" or "high"; it never goes below zero *)
Less1(ttl) == CASE ttl = "one" -> "zero" [] ttl = "two" -> "one" [] OTHER -> ttl

action_TTLREDUCE_execute(p, a) ==
  LET f == IF a.hdr > Len(p.hs) THEN NoField ELSE protocol_get_field_by_type(p.hs[a.hdr].id, "TTL")
      new == Less1(ReadField(p, a.hdr, f))
  IN  [(IF f = NoField THEN p ELSE WriteField(p, a.hdr, f, new))
         EXCEPT !.ttl = new, !.ghost.reduced = @ \/ ~a.auto]

(* packet_is_oam with what ANALYZE_PROTOSTACK prepared.  Without an R-tag   *)
(* in the stack both indices stay 0: the loop that would set them stops at  *)
(* PROTO_ID_PAYLOAD, which is 0, before it compares.  What is then taken    *)
(* for the ethertype is the start of the destination address.               *)
packet_is_oam(p, stack) ==
  CASE stack = NoStack -> FALSE
    [] stack[1] = "eth" /\ "rtag" \in Range(stack) -> ReadField(p, 3, "seq") = "oam"
    [] stack[1] = "eth" /\ "rtag" \notin Range(stack) -> FALSE
    [] stack[1] = "mpls" -> ReadField(p, 2, "seq") = "oam"
    [] OTHER -> ReadField(p, 1, "seq") = "oam"

(* The other actions that change the packet *)
action_CHECKSUM_execute(p, a) == WriteField(p, a.hdr, "checksum", "sum")
action_SETLENGTH_execute(p, a) == WriteField(p, a.hdr, "length", "len")
action_READSEQ_execute(p, a) == [p EXCEPT !.seq = ReadField(p, a.hdr, "seq")]
action_WRITESEQ_execute(p, a) == WriteField(p, a.hdr, "seq", p.seq)
action_WRITETSTAMP_execute(p, a) == WriteField(p, a.hdr, "tstamp", "tstamp")
action_SEQGEN_execute(p, a) == [p EXCEPT !.seq = "gen"]

Effect(p, a) ==
  CASE a.type = "ADD" -> packet_add_header(p, a)
    [] a.type = "DEL" -> packet_del_header(p, a)
    [] a.type = "EDIT" -> action_EDIT_execute(p, a)
    [] a.type = "CHECKSUM" -> action_CHECKSUM_execute(p, a)
    [] a.type = "SETLENGTH" -> action_SETLENGTH_execute(p, a)
    [] a.type = "TTLREDUCE" -> action_TTLREDUCE_execute(p, a)
    [] a.type = "READSEQ" -> action_READSEQ_execute(p, a)
    [] a.type = "WRITESEQ" -> action_WRITESEQ_execute(p, a)
    [] a.type = "WRITETSTAMP" -> action_WRITETSTAMP_execute(p, a)
    [] a.type = "SEQGEN" -> action_SEQGEN_execute(p, a)
    [] OTHER -> p  \* READTSTAMP and DELAY only set metadata that nothing here reads

(* The actions that decide over the iterator: the results they can return.  *)
(* Which one a recovery or a POF returns is the business of those objects.  *)
action_ELIM_execute == {"CONTINUE", "DONE"}
action_VERIFY_execute == {"CONTINUE", "DONE"}
action_POF_execute == {"CONTINUE", "DONE", "HOLD"}
action_DELAY_execute(a) == {IF a.offload THEN "CONTINUE" ELSE "HOLD"}
action_DROP_execute == {"DONE"}
action_FILTEROAM_execute(p, a) ==
  {IF ReadField(p, a.hdr, "seq") = "oam" THEN "DONE" ELSE "CONTINUE"}
action_TTLCHECK_execute(p) == {IF p.ttl = "zero" THEN "DONE" ELSE "CONTINUE"}
action_OAMRECEIVE_execute(p, a) ==
  {IF packet_is_oam(p, mps[a.mp].stack) THEN "HOLD" ELSE "CONTINUE"}

Results(p, a) ==
  CASE a.type = "ELIM" -> action_ELIM_execute
    [] a.type = "VERIFY" -> action_VERIFY_execute
    [] a.type = "POF" -> action_POF_execute
    [] a.type = "DELAY" -> action_DELAY_execute(a)
    [] a.type = "DROP" -> action_DROP_execute
    [] a.type = "FILTEROAM" -> action_FILTEROAM_execute(p, a)
    [] a.type = "TTLCHECK" -> action_TTLCHECK_execute(p)
    [] a.type = "OAMRECEIVE" -> action_OAMRECEIVE_execute(p, a)
    [] OTHER -> {"CONTINUE"}

-----------------------------------------------------------------------------
(* Steps *)

Iterator(acts, pos, p) == [acts |-> acts, pos |-> pos, pkt |-> p]

Pipeline == frames[1].actions

(* an interface read a packet of the stream *)
Receive(ttl, oam) ==
  /\ phase = "run" /\ ~ran /\ ran' = TRUE
  /\ tasks' = <<Iterator(Pipeline, 1, Arriving(ttl, oam))>> /\ count' = 1
  /\ UNCHANGED <<compiler, held>>

(* mp_inject_packet: pipeline_process at the injection point, which may be  *)
(* in a branch                                                              *)
Branches(acts) ==
  {acts} \cup UNION {Range(acts[k].pipes) : k \in {j \in DOMAIN acts : acts[j].type = "REPL"}}

mp_inject_packet(m) ==
  /\ phase = "run" /\ ~ran /\ ran' = TRUE
  /\ \E acts \in Branches(Pipeline) : \E k \in DOMAIN acts :
       /\ acts[k].type = "OAMINJECT" /\ acts[k].mp = m
       /\ tasks' = <<Iterator(acts, k, Injected(m))>>
  /\ count' = 1
  /\ UNCHANGED <<compiler, held>>

Current == tasks[1]
Running == tasks # <<>> /\ Current.pos <= Len(Current.acts)
Action == Current.acts[Current.pos]

(* one round of the loop of pipe_iterator_run *)
Execute ==
  /\ Running /\ Action.type # "REPL"
  /\ LET next == Iterator(Current.acts, Current.pos + 1, Effect(Current.pkt, Action))
     IN  \E r \in Results(Current.pkt, Action) :
           \/ r = "CONTINUE" /\ tasks' = <<next>> \o Tail(tasks) /\ UNCHANGED <<held, count>>
           \/ r = "HOLD" /\ tasks' = Tail(tasks) /\ held' = Append(held, next) /\ UNCHANGED count
           \/ r = "DONE" /\ tasks' = Tail(tasks) /\ count' = count - 1 /\ UNCHANGED held
  /\ UNCHANGED <<compiler, ran>>

\* Mutant of action_REPL_execute: nobody deletes the packet when the last branch is masked.
ReplLeak(masks) ==
  /\ Running /\ Action.type = "REPL"
  /\ masks \subseteq DOMAIN Action.pipes /\ (~Action.obj => masks = {})
  /\ LET open == SelectSeq([k \in 1..Len(Action.pipes) |-> k], LAMBDA k : k \notin masks)
     IN  /\ tasks' = [k \in DOMAIN open |-> Iterator(Action.pipes[open[k]], 1, Current.pkt)]
                       \o Tail(tasks)
         /\ count' = count + Len(Action.pipes) - 1 - Cardinality(masks \ {Len(Action.pipes)})
  /\ UNCHANGED <<compiler, held, ran>>

(* action_REPL_execute: the branches run one after the other before the     *)
(* iterator goes on; the last one gets the packet itself, the others copies *)
action_REPL_execute(masks) ==
  /\ Running /\ Action.type = "REPL"
  /\ masks \subseteq DOMAIN Action.pipes /\ (~Action.obj => masks = {})
  /\ LET oam == packet_is_oam(Current.pkt, Action.stack)
         last == Len(Action.pipes)
         open == SelectSeq([k \in 1..last |-> k], LAMBDA k : k \notin masks \/ oam)
         dropped == IF last \in masks /\ ~oam THEN 1 ELSE 0
         copies == Cardinality(Range(open) \ {last})
     IN  /\ tasks' = [k \in DOMAIN open |-> Iterator(Action.pipes[open[k]], 1, Current.pkt)]
                       \o Tail(tasks)
         /\ count' = count + copies - dropped
  /\ UNCHANGED <<compiler, held, ran>>

(* the iterator is done: delete_iterator deletes the packet *)
Done ==
  /\ tasks # <<>> /\ ~Running
  /\ tasks' = Tail(tasks) /\ count' = count - 1
  /\ UNCHANGED <<compiler, held, ran>>

(* the holder lets an iterator go on, or cancels it *)
Resume ==
  /\ tasks = <<>> /\ held # <<>>
  /\ tasks' = <<held[1]>> /\ held' = Tail(held)
  /\ UNCHANGED <<compiler, count, ran>>

pipe_iterator_cancel ==
  /\ tasks = <<>> /\ held # <<>>
  /\ held' = Tail(held) /\ count' = count - 1
  /\ UNCHANGED <<compiler, tasks, ran>>

(* the next configuration: the last one was refused or has seen a packet *)
NextConfig ==
  /\ \/ phase \in {"failed", "crash"}
     \/ phase = "run" /\ ran /\ tasks = <<>> /\ held = <<>>
  /\ phase' = "idle" /\ frames' = <<>> /\ mps' = <<>> /\ warned' = {} /\ stages' = 0
  /\ line' = [packet |-> <<>>, matches |-> {}, stages |-> {}]
  /\ ran' = FALSE /\ UNCHANGED <<tasks, held, count>>

Init == CompilerInit /\ tasks = <<>> /\ held = <<>> /\ count = 0 /\ ran = FALSE

Next ==
  \/ CompilerNext /\ UNCHANGED run
  \/ \E ttl \in {"one", "two"}, oam \in BOOLEAN : Receive(ttl, oam)
  \/ \E m \in DOMAIN mps : mp_inject_packet(m)
  \/ Execute \/ Done \/ Resume \/ pipe_iterator_cancel \/ NextConfig
  \/ \E masks \in SUBSET (1..MaxBranches) : action_REPL_execute(masks)

Spec == Init /\ [][Next]_vars

-----------------------------------------------------------------------------
(* Properties *)

TypeOK ==
  /\ phase \in {"idle", "compile", "repl", "failed", "crash", "run"}
  /\ stages \in 0..MaxStages /\ count \in Nat /\ ran \in BOOLEAN
  /\ \A f \in Range(frames) : f.depth \in 0..(MaxDepth + 1) /\ f.seq_set \in BOOLEAN
  /\ \A t \in Range(tasks \o held) : t.pos \in 1..(Len(t.acts) + 1) /\ Len(t.pkt.hs) <= MaxHeaders

(* an action is about to work on a packet whose headers could all be added *)
Ready(types) == Running /\ Action.type \in types /\ ~Current.pkt.ghost.failed
Data == Current.pkt.ghost.mp = 0

(* the headers an action names: index, and identity of the header meant *)
Named(a) ==
  CASE a.type = "EDIT" ->
         UNION {{<<as.hdr, as.want>>} \cup
                (IF as.src.k = "field" THEN {<<as.src.hdr, as.src.want>>} ELSE {}) : as \in Range(a.asg)}
    [] a.type \in {"CHECKSUM", "VERIFY"} ->
         {<<a.hdr, a.want>>} \cup (IF a.ip > 0 THEN {<<a.ip, a.ipwant>>} ELSE {})
    [] "hdr" \in DOMAIN a /\ a.type # "ADD" -> {<<a.hdr, a.want>>}
    [] OTHER -> {}

(* The header list that the compiler follows is the one the packet has at   *)
(* run time: through adds, deletions, jumps and replication branches the    *)
(* index compiled into an action finds the header that the line names, and  *)
(* the place of an added header exists ("if this happens, the config        *)
(* compiler is broken", packet.c:179).  An injected packet has only the     *)
(* headers of the OAM stack; the ones it has are found.                     *)
IndexFaithful ==
  Running /\ ~Current.pkt.ghost.failed =>
    LET hs == Current.pkt.hs IN
    /\ \A x \in Named(Action) :
         Data \/ (\E j \in DOMAIN hs : hs[j].n = x[2]) => x[1] <= Len(hs) /\ hs[x[1]].n = x[2]
    /\ Action.type = "ADD" /\ Data => Action.hdr <= Len(hs)

(* What leaves by a send is a well-formed chain: every header that names    *)
(* the protocol of the next one names the one that follows, the last one    *)
(* what the last one named on arrival (the edits that add and del make of   *)
(* the neighbours, conf_actions.c:1131-1207).                               *)
NextHeaderConsistent ==
  Ready({"SEND"}) /\ Data =>
    LET hs == Current.pkt.hs IN
    \A i \in 1..(Len(hs) - 1) : HasNextHeader(hs[i].id) =>
      LET code == hs[i].val[NextHeaderField(hs[i].id)]
      IN  IF hs[i + 1].id = "payload" THEN code = IF Current.pkt.ghost.oam THEN "CFM" ELSE "inner"
          ELSE <<hs[i + 1].id, code>> \in {<<id, get_nexthdr(hs[i].id)[id]>> :
                                             id \in DOMAIN get_nexthdr(hs[i].id)}

(* Whatever path through jumps and branches leads to it, an action that     *)
(* uses the sequence number of a data packet finds one that was generated   *)
(* or read before (seq_set of the compiler against the run-time metadata).  *)
SeqDefined ==
  Ready({"WRITESEQ", "ELIM", "POF"}) /\ Data => Current.pkt.seq # "undef"

(* No packet is sent with a TTL that the automatic reduction made zero, in  *)
(* whichever branch the send is; a ttlreduce of the user takes over the     *)
(* TTL that is checked and is excepted.                                     *)
TtlChecked ==
  Ready({"SEND"}) /\ Data /\ ~Current.pkt.ghost.reduced =>
    \A h \in Range(Current.pkt.hs) :
      h.n = 1 /\ HasFieldOfType(h.id, "TTL") => h.val[protocol_get_field_by_type(h.id, "TTL")] # "zero"

(* No OAM packet outlives its marked sequence header: it would go on as     *)
(* data (action_FILTEROAM_execute before action_DEL_execute).               *)
OamFiltered ==
  Ready({"DEL"}) /\ Action.hdr <= Len(Current.pkt.hs) =>
    LET h == Current.pkt.hs[Action.hdr]
    IN  HasFieldOfType(h.id, "TSNSeq") => h.val.seq # "oam"

(* setlength writes the number of octets that follow: what the compiler     *)
(* added up agrees with the headers the packet has (udp and ipv4 count      *)
(* their own header too).                                                   *)
LengthRight ==
  Ready({"SETLENGTH"}) /\ Data =>
    LET hs == Current.pkt.hs
        len(h) == IF h.id = "payload" THEN PayloadLen ELSE bytelength[h.id]
        behind == FoldLeft(LAMBDA sum, h : sum + len(h), 0, SubSeq(hs, Action.hdr + 1, Len(hs)))
        own == IF hs[Action.hdr].id = "ipv6" THEN 0 ELSE bytelength[hs[Action.hdr].id]
    IN  Action.baselen + len(hs[Action.payload]) = own + behind

(* A packet that is sent is well formed: its headers name each other and    *)
(* the lengths in them are right (add, del and setlength of conf_actions.c  *)
(* with action.c).                                                          *)
HeadersRight == NextHeaderConsistent /\ LengthRight

(* The address a maintenance point took from an edit or a match is the one  *)
(* that data packets carry when they pass it (find_addressing_for_mp): an   *)
(* injected packet shares the fate of the stream.                           *)
AddressCurrent ==
  Ready({"OAMINJECT"}) /\ Data =>
    LET mp == mps[Action.mp] IN
    \A g \in DOMAIN mp.addr : \A i \in DOMAIN mp.stack :
      /\ mp.stack[i] \in DOMAIN header_field_thats_address_for_oam
      /\ mp.addr[g].source \in {"Edit", "Match"}
      /\ g = header_field_thats_address_for_oam[mp.stack[i]]
      => Current.pkt.hs[i].val[g] = mp.addr[g].val

(* If the compiler did not warn about a maintenance point, the packets it   *)
(* injects have their address by the time they are sent, in every branch    *)
(* (must_write of conf_actions.c).                                          *)
MustWriteHonoured ==
  Ready({"SEND"}) /\ ~Data /\ Current.pkt.ghost.mp \notin warned =>
    \A h \in Range(Current.pkt.hs) : h.n > 0 => \A g \in DOMAIN h.val : h.val[g] # "unset"

(* What a maintenance point injects goes where the stream goes: it has an   *)
(* address, and it is the address of the data (find_addressing_for_mp and   *)
(* must_write of conf_actions.c).                                           *)
InjectedAddressed == AddressCurrent /\ MustWriteHonoured

(* Every allocated packet belongs to exactly one iterator that runs or is   *)
(* held: none leaks in a masked branch and none is deleted twice            *)
(* (packet_count of packet.c).                                              *)
PacketsAccounted == count = Len(tasks) + Len(held)

(* The run-time state is sound: compiled positions stay inside of their     *)
(* action lists and packets are accounted for (pipeline.c, packet.c).       *)
RunSound == TypeOK /\ PacketsAccounted

(* A packet that bears the OAM mark of the stack is recognised where the    *)
(* pipeline receives OAM: the stacks of config_format.md:179-183, among     *)
(* them eth and a VLAN tag without R-tag.                                   *)
OamRecognised ==
  Ready({"OAMRECEIVE"}) =>
    LET stack == mps[Action.mp].stack
        hs == Current.pkt.hs
        cfm == /\ stack[1] = "eth" /\ "rtag" \notin Range(stack)
               /\ hs[Len(stack)].val.tpid = "CFM"
    IN  cfm => packet_is_oam(Current.pkt, stack)
=============================================================================
