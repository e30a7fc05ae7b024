-------------------------- MODULE PipelineCompiler --------------------------
(***************************************************************************)
(* The compiler of action lines (conf_actions.c with headerdesc.c): a line *)
(* of stages is turned, stage by stage, into the array of run-time actions *)
(* of a pipeline.  The compiler follows what each stage will do to the     *)
(* header list of the packet, because a run-time action names a header by  *)
(* its index only.                                                         *)
(*                                                                         *)
(* A stage arrives here as a record, its text already split into tokens;   *)
(* which stage comes next is the user's choice, so any stage of the line's *)
(* repertoire.  A header has a name, a protocol, its set m of matched      *)
(* fields, the list node that holds it, and an identity n that no code     *)
(* sees: copies of a header share n and the properties speak of it.        *)
(***************************************************************************)
EXTENDS Protocols, Sequences, SequencesExt

CONSTANTS
  Lines,      \* the stream definitions: packet line, matches, stages
  MaxStages,  \* bound: stages compiled of one definition
  MaxBranches,  \* bound: branches of one replicate
  MaxDepth    \* MAX_DEPTH

ASSUME CompilerAssumption == MaxStages \in Nat /\ MaxBranches \in Nat /\ MaxDepth \in Nat

VARIABLES
  line,    \* the definition being compiled
  phase,   \* "idle", "compile", "repl", "assemble", "failed", "crash", "run"
  frames,  \* the stack of StageState structures, innermost last
  mps,     \* the maintenance points met so far, with their addresses
  warned,  \* maintenance points whose addressing was reported unsatisfied
  stages   \* number of stages compiled

compiler == <<line, phase, frames, mps, warned, stages>>

NoNode == <<>>
NoStack == <<>>

-----------------------------------------------------------------------------
(* The header list *)

NamedIdx(hs, name) == {i \in DOMAIN hs : hs[i].name = name}

(* header_list_find_by_name finds the name, and not a second time *)
Unambiguous(hs, name) == Cardinality(NamedIdx(hs, name)) = 1

header_index(hs, name) == CHOOSE i \in NamedIdx(hs, name) : TRUE

Proto(hs, name) == hs[header_index(hs, name)].id

(* copy_header_list: the same headers in nodes of their own *)
copy_header_list(hs, own) ==
  [i \in DOMAIN hs |-> [hs[i] EXCEPT !.node = <<own, hs[i].n>>]]

\* Mutant of copy_mustwrite_list: the branch forgets.
CopyNoMustwrite(must, own) == {}

(* copy_mustwrite_list keeps the field and the requester of every entry *)
copy_mustwrite_list(must, own) ==
  {[mw EXCEPT !.node = <<own, mw.node[2]>>] : mw \in must}

oam_possible_protostacks ==
  << <<"ipv6">>, <<"mpls", "dcw">>, <<"eth", "cvlan", "rtag">>, <<"eth", "svlan", "rtag">>,
     <<"eth", "cvlan">>, <<"eth", "svlan">> >>

(* the first OAM stack that is a prefix of the header list *)
check_header_stack_for_oam(hs) ==
  LET ids == [i \in DOMAIN hs |-> hs[i].id]
      fit == {k \in DOMAIN oam_possible_protostacks : IsPrefix(oam_possible_protostacks[k], ids)}
  IN  IF fit = {} THEN NoStack
      ELSE oam_possible_protostacks[CHOOSE k \in fit : \A j \in fit : k <= j]

(* the field of a protocol that addresses an injected OAM message *)
header_field_thats_address_for_oam ==
  [ipv6 |-> "loc", mpls |-> "label", eth |-> "dmac", cvlan |-> "vid", svlan |-> "vid"]

-----------------------------------------------------------------------------
(* Field assignments.  hdr is the index the run-time action will use; want  *)
(* is the identity of the header the configuration means.                   *)

ConstSrc(v) == [k |-> "const", v |-> v]
FieldSrc(hs, i, f) == [k |-> "field", hdr |-> i, f |-> f, want |-> hs[i].n]

assign_nexthdrid_from_header_type(hs, i, type) ==
  [hdr |-> i, want |-> hs[i].n, name |-> hs[i].name, id |-> "payload",
   f |-> NextHeaderField(hs[i].id), src |-> ConstSrc(get_nexthdr(hs[i].id)[type])]

\* Mutant of assign_nexthdrid_copy_from_srcheader: source and target mixed up.
CopyFromTarget(hs, i, j) ==
  [hdr |-> i, want |-> hs[i].n, name |-> hs[i].name, id |-> "payload",
   f |-> NextHeaderField(hs[i].id), src |-> FieldSrc(hs, i, NextHeaderField(hs[i].id))]

assign_nexthdrid_copy_from_srcheader(hs, i, j) ==
  [hdr |-> i, want |-> hs[i].n, name |-> hs[i].name, id |-> "payload",
   f |-> NextHeaderField(hs[i].id), src |-> FieldSrc(hs, j, NextHeaderField(hs[j].id))]

process_assignment_rhs_ok(hs, id, f, src) ==
  CASE src.k = "field" -> /\ Unambiguous(hs, src.h)
                          /\ src.f \in DOMAIN header_fields[Proto(hs, src.h)]
                          /\ Compatible(id, f, Proto(hs, src.h), src.f)
    [] OTHER -> TRUE  \* a well-formed constant or interface property

process_assignment_rhs(hs, src) ==
  CASE src.k = "field" -> FieldSrc(hs, header_index(hs, src.h), src.f)
    [] OTHER -> src

process_assignment_lhs_ok(hs, a) ==
  /\ Unambiguous(hs, a.h)
  /\ a.f \in DOMAIN header_fields[Proto(hs, a.h)]

EditAssign(hs, a) ==
  LET i == header_index(hs, a.h)
  IN  [hdr |-> i, want |-> hs[i].n, name |-> a.h, id |-> hs[i].id, f |-> a.f,
       src |-> process_assignment_rhs(hs, a.src)]

(* the must_write entries that the assignments of an edit satisfy *)
Satisfied(f, asg) ==
  {mw \in f.must :
     \E k \in DOMAIN asg :
        LET h == f.headers[header_index(f.headers, asg[k].h)]
        IN  h.node = mw.node /\ Covers(h.id, asg[k].f, mw.field)}

(* process_assignment_lhs marks the address in the requester *)
MarkLater(ps, sat) ==
  [m \in DOMAIN ps |->
     [ps[m] EXCEPT !.addr = [fld \in DOMAIN @ |->
        IF \E mw \in sat : mw.mp = m /\ mw.field = fld
        THEN [source |-> "Later", val |-> "none"] ELSE @[fld]]]]

-----------------------------------------------------------------------------
(* Emitting actions.  confaction_swap_with_next puts the newest action      *)
(* before the one that caused it.                                           *)

new_confaction(f, a) == [f EXCEPT !.actions = Append(@, a)]
confaction_swap_with_next(f, a) ==
  [f EXCEPT !.actions = InsertAt(@, Len(@), a)]

Act(type, i, hs) == [type |-> type, hdr |-> i, want |-> hs[i].n]
Plain(type) == [type |-> type]
EditAction(asg) == [type |-> "EDIT", asg |-> asg]

-----------------------------------------------------------------------------
(* Addressing of a maintenance point *)

(* address_for_oam_in_assignment: a constant in the address field *)
address_for_oam_in_assignment(as) ==
  /\ as.src.k = "const"
  /\ \/ as.id = "ipv6" /\ as.f = "loc"
     \/ as.id = "mpls" /\ as.f = "label"
     \/ as.id = "eth" /\ as.f = "dmac"
     \/ as.id \in {"cvlan", "svlan"} /\ as.f \in {"vid", "vlan"}

address_for_oam_in_matches(h) ==
  \/ header_field_thats_address_for_oam[h.id] \in h.m
  \/ h.id \in {"cvlan", "svlan"} /\ "vlan" \in h.m

(* find_addressing_for_mp for one header: the newest action of this chain   *)
(* or of the parents' that added the header or set its address decides      *)
AddressOf(acts, h) ==
  LET writes(a) == {k \in DOMAIN a.asg : a.asg[k].name = h.name
                                           /\ address_for_oam_in_assignment(a.asg[k])}
      hits == {k \in DOMAIN acts :
                 \/ acts[k].type = "ADD" /\ acts[k].name = h.name
                 \/ acts[k].type = "EDIT" /\ writes(acts[k]) # {}}
      last == CHOOSE k \in hits : \A j \in hits : j <= k
      first(a) == CHOOSE k \in writes(a) : \A j \in writes(a) : k <= j
  IN  CASE hits = {} /\ address_for_oam_in_matches(h) -> [source |-> "Match", val |-> "m"]
        [] hits # {} /\ acts[last].type = "EDIT" ->
             [source |-> "Edit", val |-> acts[last].asg[first(acts[last])].src.v]
        [] OTHER -> [source |-> "Unknown", val |-> "none"]

Chain(fs) == FlattenSeq([i \in DOMAIN fs |-> fs[i].actions])

(* an MEP or MIP in frame f on top of the parents fs: its record, and the   *)
(* must_write entries for the addresses that are not known yet              *)
MaintenancePoint(fs, f, type, id) ==
  LET stack == check_header_stack_for_oam(f.headers)
      has == {i \in DOMAIN stack : stack[i] \in DOMAIN header_field_thats_address_for_oam}
      fld(i) == header_field_thats_address_for_oam[stack[i]]
      of == [i \in has |-> AddressOf(Chain(Append(fs, f)), f.headers[i])]
      addr == IF type = "Stop" THEN <<>>
              ELSE [g \in {fld(i) : i \in has} |-> of[CHOOSE i \in has : fld(i) = g]]
  IN  [mp |-> [stack |-> stack, type |-> type, addr |-> addr,
               ns |-> [i \in DOMAIN stack |-> f.headers[i].n]],
       must |-> IF type = "Stop" THEN {}
                ELSE {[node |-> f.headers[i].node, field |-> fld(i), mp |-> id] :
                        i \in {j \in has : of[j].source = "Unknown"}}]

-----------------------------------------------------------------------------
(* process_stage: the frame on top takes one stage.  The operators below    *)
(* say when a stage is accepted and what it makes of the frame; Stage and   *)
(* its relatives are the steps.                                             *)

Top == Last(frames)
Below == Front(frames)

SetTop(f) == frames' = Append(Below, f)

Refused == phase' = "failed" /\ UNCHANGED <<line, frames, mps, warned>>

(* CA_ADD.  The index of a source header is taken before the new header is  *)
(* in the list; only the index of the target is set afterwards.             *)
AddIdx(f, s) ==
  LET i == header_index(f.headers, s.pos) IN IF s.where = "before" THEN i ELSE i + 1

AddOK(f, s) ==
  /\ Unambiguous(f.headers, s.pos)
  /\ \A k \in DOMAIN s.asg :
       /\ s.asg[k].f \in DOMAIN header_fields[s.id]
       /\ process_assignment_rhs_ok(f.headers, s.id, s.asg[k].f, s.asg[k].src)
  /\ HasFieldOfType(s.id, "TSNSeq") => f.seq_set
  /\ LET k == AddIdx(f, s)
         user == \E a \in DOMAIN s.asg : s.asg[a].f = NextHeaderField(s.id)
     IN  /\ HasNextHeader(s.id) /\ ~user =>
              IF k <= Len(f.headers) THEN f.headers[k].id \in DOMAIN get_nexthdr(s.id)
              ELSE get_nexthdr(f.headers[k - 1].id) = get_nexthdr(s.id)
         /\ k > 1 /\ HasNextHeader(f.headers[k - 1].id) =>
              s.id \in DOMAIN get_nexthdr(f.headers[k - 1].id)

AddStage(f, s) ==
  LET k == AddIdx(f, s)
      new == [name |-> s.name, id |-> s.id, m |-> {}, n |-> f.next, node |-> <<f.own, f.next>>]
      hs == InsertAt(f.headers, k, new)
      meta(type, ft) == IF HasFieldOfType(s.id, ft) THEN <<Act(type, k, hs)>> ELSE <<>>
      user == \E a \in DOMAIN s.asg : s.asg[a].f = NextHeaderField(s.id)
      default == IF s.id \in {"ipv4", "ipv6", "arp"}
                 THEN <<[hdr |-> k, want |-> new.n, name |-> s.name, id |-> "payload",
                         f |-> "default values", src |-> ConstSrc("default")]>>
                 ELSE <<>>
      own == IF ~HasNextHeader(s.id) \/ user THEN <<>>
             ELSE IF k < Len(hs) THEN <<assign_nexthdrid_from_header_type(hs, k, hs[k + 1].id)>>
             ELSE <<assign_nexthdrid_copy_from_srcheader(hs, k, k - 1)>>
      prev == IF k > 1 /\ HasNextHeader(hs[k - 1].id)
              THEN <<assign_nexthdrid_from_header_type(hs, k - 1, s.id)>> ELSE <<>>
      mine == [a \in DOMAIN s.asg |->
                 [hdr |-> k, want |-> new.n, name |-> s.name, id |-> s.id, f |-> s.asg[a].f,
                  src |-> process_assignment_rhs(f.headers, s.asg[a].src)]]
      asg == default \o own \o prev \o mine
  IN  [f EXCEPT
        !.headers = hs, !.next = @ + 1,
        !.actions = @ \o <<[type |-> "ADD", hdr |-> k, want |-> new.n, id |-> s.id,
                            name |-> s.name]>>
                      \o meta("WRITESEQ", "TSNSeq") \o meta("WRITETSTAMP", "TSNTstamp")
                      \o (IF asg = <<>> THEN <<>> ELSE <<EditAction(asg)>>)]

(* CA_DEL: the filter and the edit of the previous header go before it *)
DelOK(f, s) ==
  /\ Unambiguous(f.headers, s.h)
  /\ LET i == header_index(f.headers, s.h) IN
     i > 1 /\ HasNextHeader(f.headers[i - 1].id) =>
       IF i < Len(f.headers) THEN f.headers[i + 1].id \in DOMAIN get_nexthdr(f.headers[i - 1].id)
       ELSE get_nexthdr(f.headers[i - 1].id) = get_nexthdr(f.headers[i].id)

\* Mutant of DelStage: no filter before the header goes.
DelUnfiltered(f, s) ==
  LET i == header_index(f.headers, s.h)
  IN  [f EXCEPT !.actions = Append(@, Act("DEL", i, f.headers)), !.headers = RemoveAt(@, i)]

DelStage(f, s) ==
  LET hs == f.headers
      i == header_index(hs, s.h)
      filter == IF HasFieldOfType(hs[i].id, "TSNSeq") THEN <<Act("FILTEROAM", i, hs)>> ELSE <<>>
      edit == IF i > 1 /\ HasNextHeader(hs[i - 1].id)
              THEN <<EditAction(<<IF i < Len(hs)
                                  THEN assign_nexthdrid_from_header_type(hs, i - 1, hs[i + 1].id)
                                  ELSE assign_nexthdrid_copy_from_srcheader(hs, i - 1, i)>>)>>
              ELSE <<>>
  IN  [f EXCEPT !.actions = @ \o filter \o edit \o <<Act("DEL", i, hs)>>,
                !.headers = RemoveAt(hs, i),
                !.needs = IF @ = hs[i].node THEN NoNode ELSE @,
                !.must = {mw \in @ : mw.node # hs[i].node}]

(* the maintenance points that a del leaves without an address field *)
DelWarned(f, s) ==
  {mw.mp : mw \in {w \in f.must : w.node = f.headers[header_index(f.headers, s.h)].node}}

EditOK(f, s) ==
  \A k \in DOMAIN s.asg :
    /\ process_assignment_lhs_ok(f.headers, s.asg[k])
    /\ process_assignment_rhs_ok(f.headers, Proto(f.headers, s.asg[k].h), s.asg[k].f, s.asg[k].src)

EditStage(f, s) ==
  [new_confaction(f, EditAction([k \in DOMAIN s.asg |-> EditAssign(f.headers, s.asg[k])]))
     EXCEPT !.must = @ \ Satisfied(f, s.asg)]

(* The last IP header before a transport header, for its checksum *)
IpBefore(hs, i) == {j \in 1..(i - 1) : hs[j].id \in {"ipv4", "ipv6"}}

ChecksumOK(f, s) ==
  /\ Unambiguous(f.headers, s.h)
  /\ HasFieldOfType(Proto(f.headers, s.h), "Checksum")
  /\ Proto(f.headers, s.h) # "ipv4" => IpBefore(f.headers, header_index(f.headers, s.h)) # {}

ChecksumStage(f, s) ==
  LET i == header_index(f.headers, s.h)
      ip == IF f.headers[i].id = "ipv4" THEN i
            ELSE CHOOSE j \in IpBefore(f.headers, i) : \A l \in IpBefore(f.headers, i) : l <= j
  IN  new_confaction(f, [type |-> s.op, hdr |-> i, want |-> f.headers[i].n,
                         ip |-> ip, ipwant |-> f.headers[ip].n])

\* Mutant of MetaOK: the sequence number may be undefined.
MetaUnchecked(f, s) == Unambiguous(f.headers, s.h)

(* CA_READSEQ, CA_READTSTAMP, CA_WRITESEQ, CA_WRITETSTAMP *)
MetaOK(f, s) ==
  /\ Unambiguous(f.headers, s.h)
  /\ LET id == Proto(f.headers, s.h)
     IN  IF s.op \in {"READSEQ", "WRITESEQ"}
         THEN HasFieldOfType(id, "TSNSeq") \/ HasFieldOfType(id, "SRv6Seq")
         ELSE HasFieldOfType(id, "TSNTstamp")
  /\ s.op = "WRITESEQ" => f.seq_set

MetaStage(f, s) ==
  [new_confaction(f, Act(s.op, header_index(f.headers, s.h), f.headers))
     EXCEPT !.seq_set = @ \/ s.op = "READSEQ"]

(* CA_SETLENGTH: the octets behind the header, as far as the compiler knows *)
LengthBehind(hs, i) == FoldLeft(LAMBDA sum, h : sum + bytelength[h.id], 0, SubSeq(hs, i + 1, Len(hs)))

SetLengthOK(f, s) ==
  Unambiguous(f.headers, s.h) /\ Proto(f.headers, s.h) \in {"ipv4", "ipv6", "udp"}

SetLengthStage(f, s) ==
  LET i == header_index(f.headers, s.h)
      own == [ipv4 |-> 20, ipv6 |-> 0, udp |-> 8]
  IN  new_confaction(f, [type |-> "SETLENGTH", hdr |-> i, want |-> f.headers[i].n,
                         baselen |-> own[f.headers[i].id] + LengthBehind(f.headers, i),
                         payload |-> Len(f.headers) + 1])

TtlReduceOK(f, s) ==
  Unambiguous(f.headers, s.h) /\ HasFieldOfType(Proto(f.headers, s.h), "TTL")

TtlReduceStage(f, s) ==
  LET i == header_index(f.headers, s.h)
  IN  [new_confaction(f, [type |-> "TTLREDUCE", hdr |-> i, want |-> f.headers[i].n, auto |-> FALSE,
                          csum |-> HasFieldOfType(f.headers[i].id, "Checksum")])
         EXCEPT !.ttl_set = TRUE]

\* Mutant of SendStage: the pending check is forgotten.
SendUnchecked(f) == new_confaction(f, Plain("SEND"))

(* CA_SEND: the pending TTL check is made just before the first send *)
SendStage(f) ==
  [f EXCEPT !.actions = IF f.needs # NoNode
                        THEN @ \o <<[type |-> "TTLCHECK", auto |-> TRUE], Plain("SEND")>>
                        ELSE Append(@, Plain("SEND")),
            !.needs = NoNode]

(* the stages of state objects and timing *)
PofOK(f) == f.seq_set
SeqgenStage(f) == [new_confaction(f, Plain("SEQGEN")) EXCEPT !.seq_set = TRUE]
DelayOK(f, s) == s.offload \/ ~f.offload
DelayStage(f, s) == [new_confaction(f, [type |-> "DELAY", offload |-> s.offload])
                       EXCEPT !.offload = @ \/ s.offload]
DropStage(f) == [new_confaction(f, Plain("DROP")) EXCEPT !.final = TRUE]
TtlCheckStage(f) == new_confaction(f, [type |-> "TTLCHECK", auto |-> FALSE])

(* Which of the plain stages a frame accepts, and what they make of it.     *)
(* The tokens of a stage "BAD" are not those of an action.                  *)
Accepts(f, s) ==
  CASE s.op = "ADD" -> AddOK(f, s)
    [] s.op = "DEL" -> DelOK(f, s)
    [] s.op = "EDIT" -> EditOK(f, s)
    [] s.op \in {"CHECKSUM", "VERIFY"} -> ChecksumOK(f, s)
    [] s.op \in {"READSEQ", "READTSTAMP", "WRITESEQ", "WRITETSTAMP"} -> MetaOK(f, s)
    [] s.op = "SETLENGTH" -> SetLengthOK(f, s)
    [] s.op = "TTLREDUCE" -> TtlReduceOK(f, s)
    [] s.op = "TTLCHECK" -> f.ttl_set
    [] s.op = "POF" -> PofOK(f)
    [] s.op = "DELAY" -> DelayOK(f, s)
    [] OTHER -> s.op # "BAD"

Result(f, s) ==
  CASE s.op = "ADD" -> AddStage(f, s)
    [] s.op = "DEL" -> DelStage(f, s)
    [] s.op = "EDIT" -> EditStage(f, s)
    [] s.op \in {"CHECKSUM", "VERIFY"} -> ChecksumStage(f, s)
    [] s.op \in {"READSEQ", "READTSTAMP", "WRITESEQ", "WRITETSTAMP"} -> MetaStage(f, s)
    [] s.op = "SETLENGTH" -> SetLengthStage(f, s)
    [] s.op = "TTLREDUCE" -> TtlReduceStage(f, s)
    [] s.op = "TTLCHECK" -> TtlCheckStage(f)
    [] s.op = "SEND" -> SendStage(f)
    [] s.op = "SEQGEN" -> SeqgenStage(f)
    [] s.op = "DELAY" -> DelayStage(f, s)
    [] s.op = "DROP" -> DropStage(f)
    [] OTHER -> new_confaction(f, Plain(s.op))

PlainOps == {"ADD", "DEL", "EDIT", "CHECKSUM", "VERIFY", "READSEQ", "READTSTAMP", "WRITESEQ",
             "WRITETSTAMP", "SETLENGTH", "TTLREDUCE", "TTLCHECK", "POF", "SEND", "SEQGEN",
             "DELAY", "DROP", "BAD"}

(* The addresses a stage leaves unwritten and reports *)
Reported(f, s) ==
  CASE s.op = "DEL" -> DelWarned(f, s)
    [] s.op = "SEND" -> {mw.mp : mw \in f.must}
    [] OTHER -> {}

Chosen(s) == s \in line.stages /\ stages < MaxStages /\ stages' = stages + 1

Stage(s) ==
  /\ phase = "compile" /\ s.op \in PlainOps /\ Chosen(s)
  /\ IF ~Top.final /\ Accepts(Top, s)
     THEN /\ SetTop([Result(Top, s) EXCEPT !.empty = FALSE])
          /\ mps' = IF s.op = "EDIT" THEN MarkLater(mps, Satisfied(Top, s.asg)) ELSE mps
          /\ warned' = warned \cup Reported(Top, s)
          /\ UNCHANGED <<line, phase>>
     ELSE Refused

(* CA_MEPSTART, CA_MEPSTOP, CA_MIP *)
MpAction(id, type) == [type |-> type, mp |-> id]

MpStage(s) ==
  /\ phase = "compile" /\ s.op \in {"MEPSTART", "MEPSTOP", "MIP"} /\ Chosen(s)
  /\ IF ~Top.final /\ check_header_stack_for_oam(Top.headers) # NoStack
     THEN LET type == [MEPSTART |-> "Start", MEPSTOP |-> "Stop", MIP |-> "Intermediate"][s.op]
              p == MaintenancePoint(Below, Top, type, Len(mps) + 1)
          IN  /\ SetTop([new_confaction(Top, MpAction(Len(mps) + 1, s.op))
                           EXCEPT !.must = @ \cup p.must, !.empty = FALSE])
              /\ mps' = Append(mps, p.mp)
              /\ UNCHANGED <<line, phase, warned>>
     ELSE Refused

(* CA_JUMP, and the tail of CA_ELIM: the pipeline jumped to is compiled     *)
(* with the state as it is, one level deeper, and takes the place of the    *)
(* jump; after it the line is over.                                         *)
JumpStage(s) ==
  /\ phase = "compile" /\ s.op = "JUMP" /\ Chosen(s)
  /\ IF ~Top.final /\ Top.depth <= MaxDepth
     THEN /\ SetTop([Top EXCEPT !.depth = @ + 1, !.empty = TRUE])
          /\ UNCHANGED <<line, phase, mps, warned>>
     ELSE Refused

(* oam_mip_autoconfig fails only for want of an OAM stack; its cleanup then *)
(* reads the action that was not made                                       *)
AutoMipCrash == phase' = "crash" /\ UNCHANGED <<line, frames, mps, warned>>

ElimStage(s) ==
  /\ phase = "compile" /\ s.op = "ELIM" /\ Chosen(s)
  /\ LET stack == check_header_stack_for_oam(Top.headers)
         f0 == new_confaction(Top, [type |-> "ELIM", stack |-> stack])
         pre == MaintenancePoint(Below, f0, "Intermediate", Len(mps) + 1)
         f1 == [confaction_swap_with_next(f0, MpAction(Len(mps) + 1, "MIP"))
                  EXCEPT !.must = @ \cup pre.must]
         post == MaintenancePoint(Below, f1, "Intermediate", Len(mps) + 2)
         f2 == [new_confaction(f1, MpAction(Len(mps) + 2, "MIP"))
                  EXCEPT !.must = @ \cup post.must]
         jump(f) == [f EXCEPT !.depth = @ + 1, !.empty = TRUE]
     IN  IF Top.final \/ ~Top.seq_set THEN Refused
         ELSE IF s.auto /\ stack = NoStack THEN AutoMipCrash
         ELSE IF Top.depth > MaxDepth THEN Refused
         ELSE /\ SetTop(jump(IF s.auto THEN f2 ELSE f0))
              /\ mps' = IF s.auto THEN mps \o <<pre.mp, post.mp>> ELSE mps
              /\ UNCHANGED <<line, phase, warned>>

(* CA_REPL: the object with its pre-AutoMIP, then the branches one by one,  *)
(* each compiled in a copy of the state, then the action itself             *)
ReplStage(s) ==
  /\ phase = "compile" /\ s.op = "REPL" /\ Chosen(s)
  /\ LET p == MaintenancePoint(Below, Top, "Intermediate", Len(mps) + 1)
     IN  IF Top.final THEN Refused
         ELSE IF s.auto /\ p.mp.stack = NoStack THEN AutoMipCrash
         ELSE /\ SetTop([(IF s.auto
                          THEN [new_confaction(Top, MpAction(Len(mps) + 1, "MIP"))
                                  EXCEPT !.must = @ \cup p.must]
                          ELSE Top) EXCEPT !.repl = <<[obj |-> s.obj, auto |-> s.auto, pipes |-> <<>>]>>])
              /\ mps' = IF s.auto THEN Append(mps, p.mp) ELSE mps
              /\ phase' = "repl"
              /\ UNCHANGED <<line, warned>>

BranchStart ==
  /\ phase = "repl" /\ Len(Top.repl[1].pipes) < MaxBranches /\ stages' = stages
  /\ LET own == Top.own + Len(Top.repl[1].pipes) + 1
         f == [Top EXCEPT !.headers = copy_header_list(@, own), !.own = own, !.actions = <<>>,
                          !.must = copy_mustwrite_list(@, own), !.depth = @ + 1,
                          !.repl = <<>>, !.empty = TRUE]
         auto == Top.repl[1].auto
         p == MaintenancePoint(frames, f, "Intermediate", Len(mps) + 1)
     IN  IF Top.depth > MaxDepth THEN Refused
         ELSE /\ frames' = Append(frames, IF auto
                  THEN [new_confaction(f, MpAction(Len(mps) + 1, "MIP"))
                          EXCEPT !.must = @ \cup p.must, !.empty = FALSE]
                  ELSE f)
              /\ mps' = IF auto THEN Append(mps, p.mp) ELSE mps
              /\ phase' = "compile"
              /\ UNCHANGED <<line, warned>>

(* assemble_actions: a MIP becomes a reception and an injection point *)
assemble_actions(acts) ==
  FlattenSeq([k \in DOMAIN acts |->
    CASE acts[k].type = "MIP" -> <<MpAction(acts[k].mp, "OAMRECEIVE"), MpAction(acts[k].mp, "OAMINJECT")>>
      [] acts[k].type = "MEPSTART" -> <<MpAction(acts[k].mp, "OAMINJECT")>>
      [] acts[k].type = "MEPSTOP" -> <<MpAction(acts[k].mp, "OAMRECEIVE")>>
      [] OTHER -> <<acts[k]>>])

BranchEnd ==
  /\ phase = "compile" /\ Len(frames) > 1 /\ stages' = stages
  /\ IF Top.empty THEN Refused
     ELSE /\ frames' = Append(Front(Below), [Last(Below) EXCEPT !.repl[1].pipes =
                           Append(@, assemble_actions(Top.actions))])
          /\ warned' = warned \cup {mw.mp : mw \in Top.must}
          /\ phase' = "repl"
          /\ UNCHANGED <<line, mps>>

ReplEnd ==
  /\ phase = "repl" /\ stages' = stages
  /\ IF Top.repl[1].pipes = <<>> THEN Refused
     ELSE /\ SetTop([new_confaction(Top,
                       [type |-> "REPL", pipes |-> Top.repl[1].pipes, obj |-> Top.repl[1].obj,
                        stack |-> check_header_stack_for_oam(Top.headers)])
                       EXCEPT !.must = {}, !.final = TRUE, !.repl = <<>>, !.empty = FALSE])
          /\ phase' = "compile"
          /\ UNCHANGED <<line, mps, warned>>

(* parse_actions_line: the start of a line and its end *)
parse_match_line(l, name) == {m[2] : m \in {x \in l.matches : x[1] = name}}

parse_packet_line(l) ==
  [i \in DOMAIN l.packet |->
     [name |-> l.packet[i][1], id |-> l.packet[i][2], n |-> i, node |-> <<0, i>>,
      m |-> parse_match_line(l, l.packet[i][1])]]

StartLine(l) ==
  /\ phase = "idle"
  /\ LET hs == parse_packet_line(l)
         ttl == HasFieldOfType(hs[1].id, "TTL")
     IN  frames' = <<[headers |-> hs, own |-> 0, next |-> Len(hs) + 1,
                      actions |-> IF ttl THEN <<[type |-> "TTLREDUCE", hdr |-> 1, want |-> 1,
                                                 auto |-> TRUE, csum |-> FALSE]>> ELSE <<>>,
                      seq_set |-> FALSE, ttl_set |-> ttl, offload |-> FALSE, final |-> FALSE,
                      needs |-> IF ttl THEN hs[1].node ELSE NoNode, must |-> {}, depth |-> 0,
                      empty |-> ~ttl, repl |-> <<>>]>>
  /\ line' = l /\ phase' = "compile" /\ stages' = 0
  /\ UNCHANGED <<mps, warned>>

EndLine ==
  /\ phase = "compile" /\ Len(frames) = 1 /\ stages' = stages
  /\ IF Top.empty THEN Refused
     ELSE /\ SetTop([Top EXCEPT !.actions = assemble_actions(@)])
          /\ warned' = warned \cup {mw.mp : mw \in Top.must}
          /\ phase' = "run"
          /\ UNCHANGED <<line, mps>>

CompilerInit ==
  /\ phase = "idle" /\ frames = <<>> /\ mps = <<>> /\ warned = {} /\ stages = 0
  /\ line = [packet |-> <<>>, matches |-> {}, stages |-> {}]

CompilerNext ==
  \/ \E l \in Lines : StartLine(l)
  \/ \E s \in line.stages : Stage(s)
  \/ \E s \in line.stages : MpStage(s)
  \/ \E s \in line.stages : JumpStage(s)
  \/ \E s \in line.stages : ElimStage(s)
  \/ \E s \in line.stages : ReplStage(s)
  \/ BranchStart \/ BranchEnd \/ ReplEnd \/ EndLine
=============================================================================
