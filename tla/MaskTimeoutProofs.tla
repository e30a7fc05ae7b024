-------------------------- MODULE MaskTimeoutProofs -------------------------
(***************************************************************************)
(* A lost mask signal unmasks no path: the timeout of a path that is       *)
(* signalled all the time fires only after all but one of the signals of   *)
(* MASK_TIMEOUT_MS were lost in a row, for every number of paths, every    *)
(* number of maintenance points on them, every encapsulation and all the   *)
(* requests that share the paths.                                          *)
(***************************************************************************)
EXTENDS MaskSignalProofs

USE DEF Senders, Actors

-----------------------------------------------------------------------------
(* The inductive invariant of the timeouts *)

\* A mask signal as the points on its path see it.
Signal(type) == TtlReduced(scene.encap, send_request(Start, create_mask_request(Start, type), scene.encap))

Passes(p, i, pkt) == mp_compare_level(scene.mps[p][i], pkt) > 0 /\ TtlPasses(scene.encap, pkt)

\* The messages in a queue.
On(q) == {q[k] : k \in DOMAIN q}

OnWire(w, p, type) == \E i \in 1 .. Final(p) : \E pkt \in On(w[p][i]) : pkt.json.type = type

\* Headers and payload of a packet.
Shape(pkt) ==
  /\ pkt = [hdr |-> pkt.hdr, json |-> pkt.json]
  /\ DOMAIN pkt.hdr \subseteq HeaderKeys /\ "type" \in DOMAIN pkt.json
  /\ "level" \in DOMAIN pkt.hdr /\ pkt.hdr.level \in Nat

PktOK(p, i, pkt) ==
  /\ Shape(pkt)
  /\ pkt.json.type \in {"mask", "unmask"} =>
       /\ pkt = Signal(pkt.json.type)
       /\ \A j \in 1 .. i - 1 : Passes(p, j, pkt)

WireOK(w) ==
  /\ w = [p \in Paths |-> [i \in 1 .. Final(p) |-> w[p][i]]]
  /\ \A p \in Paths : \A i \in 1 .. Final(p) :
       /\ w[p][i] \in Seq(On(w[p][i]))
       /\ \A pkt \in On(w[p][i]) : PktOK(p, i, pkt)

\* The signals of the path get to the elimination.
Good(p) ==
  /\ \A j \in 1 .. Final(p) - 1 : Passes(p, j, Signal("mask"))
  /\ mp_compare_level(scene.mps[p][Final(p)], Signal("mask")) = 0

\* A path has a timeout thread exactly while it is masked, or until its
\* unmasking is complete.
Late == {"u_write", "u_stop", "u_join", "u_done"}

ThreadsOK ==
  \A p \in Paths :
    /\ rcv[p].ptr <=> act[p].pc # "none"
    /\ rcv[p].ptr => Good(p)
    /\ act["inband"].pc \in Masking /\ act["inband"].p = p => ~rcv[p].ptr /\ Good(p) /\ p \in masked
    /\ rcv[p].ptr =>
         \/ p \in masked
         \/ act[p].pc \in Late
         \/ act["inband"].p = p /\ act["inband"].pc \in Late
    /\ act["inband"].pc \in {"u_check", "u_set"} /\ act["inband"].p = p => p \in masked
    /\ ~ (act["inband"].p = p /\ act["inband"].pc = "u_fail")

\* An unmask signal is only there in the period in which the sending ended.
Young ==
  \A p \in Paths : OnWire(wire, p, "unmask") \/ (act["inband"].p = p /\ act["inband"].pc \in Unmasking)
    => snd[p].age = 0

Running(s) == snd[s].th \in {"send", "wait"}

\* The periods without a signal are those whose signal was lost, but for
\* the signal of this period.
SilenceIsLoss ==
  \A p \in Paths : act[p].pc = "wait" /\ rcv[p].msgs = 0 /\ Running(p) /\ snd[p].age >= rcv[p].silent
    => rcv[p].silent <= lost[p] + (IF snd[p].th = "send" \/ OnWire(wire, p, "mask") THEN 1 ELSE 0)

TimeoutsOK == WireOK(wire) /\ ThreadsOK /\ Young /\ SilenceIsLoss

TInv == MInv /\ (~raced => TimeoutsOK)

-----------------------------------------------------------------------------
(* Packets *)

\* A payload keeps the type of its message.
LEMMA PayloadType ==
    ASSUME NEW encap, NEW m, "type" \in DOMAIN m
    PROVE  /\ "type" \in DOMAIN mp_pack_message_payload(encap, m)
           /\ mp_pack_message_payload(encap, m)["type"] = m["type"]
<1>1. "type" \notin HeaderKeys
  BY DEF HeaderKeys
<1>2. mp_pack_message_payload(encap, m) \in {m, Without(m, HeaderKeys)}
  BY DEF mp_pack_message_payload, pack_pw_payload, pack_srv6_payload, pack_tsn_payload
<1> QED  BY <1>1, <1>2 DEF Without

\* Every header leaves the type in the payload.
LEMMA HeaderShape ==
    ASSUME NEW encap, NEW m, m.level \in Nat
    PROVE  /\ DOMAIN mp_pack_message_header(encap, m) \subseteq HeaderKeys
           /\ "level" \in DOMAIN mp_pack_message_header(encap, m)
           /\ mp_pack_message_header(encap, m)["level"] \in Nat
BY DEF mp_pack_message_header, pack_pw_message_header, pack_srv6_message_header,
       pack_tsn_message_header, HeaderKeys

\* A request of OAM is packed with its type.
LEMMA RequestShape ==
    ASSUME NEW mp, NEW encap, NEW m, "type" \in DOMAIN m, m.level \in Nat
    PROVE  /\ Shape(send_request(mp, m, encap))
           /\ send_request(mp, m, encap).json.type = m.type
           /\ send_request(mp, m, encap).hdr = mp_pack_message_header(encap, m)
<1> DEFINE m1 == IF m.type = "ping" /\ m.rec THEN [m EXCEPT !.rr = <<mp.name>>] ELSE m
           js == Without(m1, HeaderKeys)
           h == mp_pack_message_header(encap, m)
           j == mp_pack_message_payload(encap, js)
<1>1. "type" \in DOMAIN m1 /\ m1["type"] = m["type"]
  OBVIOUS
<1>2. "type" \notin HeaderKeys
  BY DEF HeaderKeys
<1>3. "type" \in DOMAIN js /\ js["type"] = m["type"]
  <2> HIDE DEF m1
  <2> QED  BY <1>1, <1>2 DEF Without, js
<1>4. send_request(mp, m, encap) = [hdr |-> h, json |-> j]
  BY DEF send_request
<1> HIDE DEF m1, js
<1>5. "type" \in DOMAIN j /\ j["type"] = m["type"]
  BY <1>3, PayloadType
<1>6. DOMAIN h \subseteq HeaderKeys /\ "level" \in DOMAIN h /\ h["level"] \in Nat
  BY HeaderShape
<1> HIDE DEF h, j
<1> QED  BY <1>4, <1>5, <1>6 DEF Shape, h

\* The TTL is all that changes when it is reduced.
LEMMA ReducedShape ==
    ASSUME NEW encap, NEW pkt, Shape(pkt)
    PROVE  Shape(TtlReduced(encap, pkt)) /\ TtlReduced(encap, pkt).json = pkt.json
<1> DEFINE h == [pkt.hdr EXCEPT !.ttl = @ - 1]
<1>1. CASE HasTtl(encap) /\ pkt.hdr.ttl > 0
  <2>1. TtlReduced(encap, pkt) = [pkt EXCEPT !.hdr.ttl = @ - 1]
    BY <1>1 DEF TtlReduced
  <2>2. [pkt EXCEPT !.hdr.ttl = @ - 1] = [hdr |-> h, json |-> pkt.json]
    BY DEF Shape
  <2>3. DOMAIN h = DOMAIN pkt.hdr /\ h["level"] = pkt.hdr["level"]
    BY DEF Shape
  <2> HIDE DEF h
  <2> QED  BY <2>1, <2>2, <2>3 DEF Shape
<1>2. CASE ~ (HasTtl(encap) /\ pkt.hdr.ttl > 0)
  BY <1>2 DEF TtlReduced
<1> QED  BY <1>1, <1>2

\* An unpacked message has the type of its payload.
LEMMA UnpackedType ==
    ASSUME NEW encap, NEW pkt, Shape(pkt)
    PROVE  /\ "type" \in DOMAIN mp_unpack_message(encap, pkt)
           /\ mp_unpack_message(encap, pkt)["type"] = pkt.json["type"]
<1> DEFINE f == Without(pkt.hdr, {"ttl"})
<1>1. mp_unpack_message(encap, pkt) \in {Replaced(f, pkt.json), Replaced(pkt.hdr, pkt.json)}
  BY DEF mp_unpack_message, unpack_pw_message, unpack_srv6_message, unpack_tsn_message
<1>2. "type" \notin DOMAIN pkt.hdr /\ "type" \notin DOMAIN f /\ "type" \in DOMAIN pkt.json
  BY DEF Shape, HeaderKeys, Without
<1> HIDE DEF f
<1>3. \A g : "type" \notin DOMAIN g => "type" \in DOMAIN (Replaced(g, pkt.json)) /\ (Replaced(g, pkt.json))["type"] = pkt.json["type"]
  BY <1>2 DEF Replaced
<1> QED  BY <1>1, <1>2, <1>3

\* What a maintenance point sends on has the type of what came; a mask
\* signal only passes points of a lower level, as it is.
LEMMA Received ==
    ASSUME NEW mp \in MaintenancePoints, NEW pkt, NEW encap, NEW ok, Shape(pkt)
    PROVE  LET r == inband_receiver(mp, pkt, encap, ok) IN
           /\ Shape(r.pkt) /\ r.pkt.json.type = pkt.json.type
           /\ pkt.json.type \in {"mask", "unmask"} => r.pkt = pkt
           /\ pkt.json.type \in {"mask", "unmask"} => (r.goes_on <=> mp_compare_level(mp, pkt) > 0)
<1> DEFINE r == inband_receiver(mp, pkt, encap, ok)
           diff == mp_compare_level(mp, pkt)
           m == mp_unpack_message(encap, pkt)
           m1 == Recorded(mp, m)
           j == mp_pack_message_payload(encap, m1)
           signal == pkt.json.type \in {"mask", "unmask"}
<1>1. "type" \in DOMAIN m /\ m["type"] = pkt.json["type"]
  BY UnpackedType
<1> HIDE DEF m
<1>2. "type" \in DOMAIN m1 /\ m1["type"] = m["type"] /\ (m["type"] # "ping" => m1 = m)
  BY <1>1 DEF Recorded
<1> HIDE DEF m1
<1>3. "type" \in DOMAIN j /\ j["type"] = m["type"]
  BY <1>2, PayloadType
<1> HIDE DEF j
<1>4. diff \in Int
  BY DEF mp_compare_level, Shape, MaintenancePoints
<1> HIDE DEF diff
<1>5. \/ r = Passed(pkt, FALSE) /\ diff < 0
      \/ r = Passed(pkt, TRUE) /\ diff > 0
      \/ r = Processed(mp, pkt, encap, ok) /\ diff = 0
  <2>1. r = CASE diff < 0 -> Passed(pkt, FALSE)
              [] diff > 0 -> Passed(pkt, TRUE)
              [] OTHER -> Processed(mp, pkt, encap, ok)
    BY DEF inband_receiver, diff
  <2> HIDE DEF r
  <2>2. CASE diff < 0
    <3>1. ~ (diff > 0)
      BY <1>4, <2>2
    <3> QED  BY <2>1, <2>2, <3>1
  <2>3. CASE diff > 0
    <3>1. ~ (diff < 0)
      BY <1>4, <2>3
    <3> QED  BY <2>1, <2>3, <3>1
  <2>4. CASE diff = 0
    BY <2>1, <2>4
  <2>5. diff < 0 \/ diff > 0 \/ diff = 0
    BY <1>4
  <2> QED  BY <2>2, <2>3, <2>4, <2>5
<1> HIDE DEF r
<1>6. CASE r = Passed(pkt, FALSE) /\ diff < 0
  <2>1. r.pkt = pkt /\ r.goes_on = FALSE /\ ~ (diff > 0)
    BY <1>4, <1>6 DEF Passed
  <2> QED  BY <2>1 DEF r, diff
<1>7. CASE r = Passed(pkt, TRUE) /\ diff > 0
  <2>1. r.pkt = pkt /\ r.goes_on = TRUE
    BY <1>7 DEF Passed
  <2> QED  BY <1>7, <2>1 DEF r, diff
<1>8. CASE r = Processed(mp, pkt, encap, ok) /\ diff = 0
  <2>1. r.pkt = IF m1 = m THEN pkt ELSE [pkt EXCEPT !.json = j]
    BY <1>8 DEF Processed, process_inband_message, m, m1, j
  <2>2. [pkt EXCEPT !.json = j] = [hdr |-> pkt.hdr, json |-> j]
    BY DEF Shape
  <2>3. r.goes_on = GoesOn(mp, m, mp_get_ttl(encap, pkt), ok)
    BY <1>8 DEF Processed, process_inband_message, m
  <2>4. signal => r.goes_on = FALSE
    BY <1>1, <2>3 DEF GoesOn
  <2>5. Shape(r.pkt) /\ r.pkt.json.type = pkt.json.type
    BY <1>1, <1>3, <2>1, <2>2 DEF Shape
  <2>6. signal => r.pkt = pkt
    BY <1>1, <1>2, <2>1
  <2>7. ~ (diff > 0)
    BY <1>8
  <2> HIDE DEF signal
  <2> QED  BY <2>4, <2>5, <2>6, <2>7 DEF r, diff, signal
<1> QED  BY <1>5, <1>6, <1>7, <1>8

-----------------------------------------------------------------------------
(* Queues *)

\* Nothing is on an empty queue.
LEMMA OnEmpty == On(<<>>) = {} /\ <<>> \in Seq(On(<<>>))
BY DEF On

\* A queue carries one message more.
LEMMA OnAppend ==
    ASSUME NEW s, s \in Seq(On(s)), NEW e
    PROVE  /\ On(Append(s, e)) = On(s) \cup {e}
           /\ Append(s, e) \in Seq(On(Append(s, e)))
<1> DEFINE T == On(s) \cup {e}
<1>1. s \in Seq(T)
  OBVIOUS
<1>2. /\ Append(s, e) \in Seq(T) /\ Len(Append(s, e)) = Len(s) + 1
      /\ \A i \in 1 .. Len(s) : Append(s, e)[i] = s[i]
      /\ Append(s, e)[Len(s) + 1] = e
  BY <1>1
<1>3. Len(s) \in Nat /\ DOMAIN s = 1 .. Len(s) /\ DOMAIN Append(s, e) = 1 .. Len(s) + 1
  BY <1>1, <1>2
<1>4. On(Append(s, e)) = On(s) \cup {e}
  BY <1>2, <1>3 DEF On
<1> QED  BY <1>2, <1>4

\* A queue carries what it did but for its head.
LEMMA OnTail ==
    ASSUME NEW s, s \in Seq(On(s)), s # <<>>
    PROVE  /\ On(Tail(s)) \subseteq On(s) /\ Head(s) \in On(s)
           /\ \A e \in On(s) : e = Head(s) \/ e \in On(Tail(s))
           /\ Tail(s) \in Seq(On(Tail(s)))
<1>1. /\ Tail(s) \in Seq(On(s)) /\ Len(s) \in Nat \ {0} /\ Len(Tail(s)) = Len(s) - 1
      /\ \A i \in 1 .. Len(Tail(s)) : Tail(s)[i] = s[i + 1]
      /\ Head(s) = s[1]
  OBVIOUS
<1>2. DOMAIN s = 1 .. Len(s) /\ DOMAIN Tail(s) = 1 .. Len(s) - 1
  BY <1>1
<1>3. \A i \in 1 .. Len(s) : i = 1 \/ (i - 1 \in 1 .. Len(s) - 1 /\ Tail(s)[i - 1] = s[i])
  BY <1>1
<1>4. On(Tail(s)) \subseteq On(s) /\ Head(s) \in On(s)
  BY <1>1, <1>2 DEF On
<1>5. \A e \in On(s) : e = Head(s) \/ e \in On(Tail(s))
  <2> SUFFICES ASSUME NEW i \in 1 .. Len(s)
               PROVE  s[i] = Head(s) \/ s[i] \in On(Tail(s))
    BY <1>2 DEF On
  <2>1. CASE i = 1
    BY <1>1, <2>1
  <2>2. CASE i - 1 \in 1 .. Len(s) - 1 /\ Tail(s)[i - 1] = s[i]
    BY <1>2, <2>2 DEF On
  <2> QED  BY <1>3, <2>1, <2>2
<1>6. Tail(s) \in Seq(On(Tail(s)))
  <2> DEFINE r == Tail(s)
  <2>1. r \in Seq(On(s)) /\ \A i \in 1 .. Len(r) : r[i] \in On(r)
    BY <1>1, <1>2 DEF On
  <2> HIDE DEF r
  <2>2. r \in Seq(On(r))
    BY <2>1
  <2> QED  BY <2>2 DEF r
<1> QED  BY <1>4, <1>5, <1>6

-----------------------------------------------------------------------------
(* Signals and the wire *)

\* A path has at least one maintenance point.
LEMMA PathLength ==
    ASSUME scene \in Scenes
    PROVE  \A p \in Paths : /\ Final(p) \in Nat \ {0}
                            /\ \A i \in 1 .. Final(p) : scene.mps[p][i] \in MaintenancePoints
<1> TAKE p \in Paths
<1>1. scene.mps[p] \in Seq(MaintenancePoints) /\ scene.mps[p] # <<>>
  BY ScenesAssumption
<1> QED  BY <1>1 DEF Final

\* A signal is made with a TTL of 1, which the first reduction takes.
LEMMA SignalFacts ==
    ASSUME scene \in Scenes, NEW type
    PROVE  LET pkt == send_request(Start, create_mask_request(Start, type), scene.encap) IN
           /\ Shape(Signal(type)) /\ Signal(type).json.type = type
           /\ TtlReduced(scene.encap, Signal(type)) = Signal(type)
           /\ TtlPasses(scene.encap, pkt) /\ TtlReduced(scene.encap, pkt) = Signal(type)
<1> DEFINE m == create_mask_request(Start, type)
           pkt == send_request(Start, m, scene.encap)
<1>1. "type" \in DOMAIN m /\ m.type = type /\ m.level \in Nat /\ m.ttl = 1
  BY RequestsAssumption DEF create_mask_request, Msg, MaintenancePoints
<1> HIDE DEF m
<1>2. Shape(pkt) /\ pkt.json.type = type /\ pkt.hdr = mp_pack_message_header(scene.encap, m)
  BY <1>1, RequestShape
<1>3. HasTtl(scene.encap) => "ttl" \in DOMAIN pkt.hdr /\ pkt.hdr.ttl = 1
  BY <1>1, <1>2 DEF HasTtl, mp_pack_message_header, pack_pw_message_header, pack_srv6_message_header
<1> HIDE DEF pkt
<1>4. Signal(type) = TtlReduced(scene.encap, pkt)
  BY DEF Signal, pkt, m
<1>5. Shape(Signal(type)) /\ Signal(type).json.type = type
  BY <1>2, <1>4, ReducedShape
<1>6. TtlPasses(scene.encap, pkt)
  BY <1>3 DEF TtlPasses
<1>7. TtlReduced(scene.encap, Signal(type)) = Signal(type)
  <2>1. CASE HasTtl(scene.encap)
    <3>1. Signal(type) = [pkt EXCEPT !.hdr.ttl = @ - 1]
      BY <1>3, <1>4, <2>1 DEF TtlReduced
    <3>2. Signal(type).hdr.ttl = 0
      BY <1>2, <1>3, <2>1, <3>1 DEF Shape
    <3> QED  BY <3>2 DEF TtlReduced
  <2>2. CASE ~HasTtl(scene.encap)
    BY <2>2 DEF TtlReduced
  <2> QED  BY <2>1, <2>2
<1> QED  BY <1>4, <1>5, <1>6, <1>7 DEF pkt, m

\* One queue changes.
Puts(v, w, p, i, q) == v = [w EXCEPT ![p][i] = q]

\* The other queues are as before.
LEMMA WireSet ==
    ASSUME NEW w, WireOK(w), NEW p \in Paths, NEW i, i \in 1 .. Final(p), NEW q, NEW v,
           Puts(v, w, p, i, q), q \in Seq(On(q)), \A pkt \in On(q) : PktOK(p, i, pkt)
    PROVE  /\ WireOK(v) /\ v[p][i] = q
           /\ \A r \in Paths : \A j \in 1 .. Final(r) : r # p \/ j # i => v[r][j] = w[r][j]
<1>1. w = [r \in Paths |-> [j \in 1 .. Final(r) |-> w[r][j]]]
  BY DEF WireOK
<1>2. v = [r \in Paths |-> IF r = p THEN [w[p] EXCEPT ![i] = q] ELSE w[r]]
  BY <1>1 DEF Puts
<1>3. w[p] = [j \in 1 .. Final(p) |-> w[p][j]]
  BY <1>1
<1>4. [w[p] EXCEPT ![i] = q] = [j \in 1 .. Final(p) |-> IF j = i THEN q ELSE w[p][j]]
  BY <1>3
<1>5. v[p] = [j \in 1 .. Final(p) |-> IF j = i THEN q ELSE w[p][j]]
  BY <1>2, <1>4
<1>6. \A r \in Paths : r # p => v[r] = w[r] /\ w[r] = [j \in 1 .. Final(r) |-> w[r][j]]
  BY <1>1, <1>2
<1>7. v[p][i] = q /\ \A r \in Paths : \A j \in 1 .. Final(r) : r # p \/ j # i => v[r][j] = w[r][j]
  BY <1>5, <1>6
<1>8. v = [r \in Paths |-> [j \in 1 .. Final(r) |-> v[r][j]]]
  <2>1. v = [r \in Paths |-> v[r]]
    BY <1>2
  <2>2. v[p] = [j \in 1 .. Final(p) |-> v[p][j]]
    BY <1>5
  <2>3. \A r \in Paths : v[r] = [j \in 1 .. Final(r) |-> v[r][j]]
    BY <1>6, <2>2
  <2> QED  BY <2>1, <2>3
<1>9. \A r \in Paths : \A j \in 1 .. Final(r) :
        v[r][j] \in Seq(On(v[r][j])) /\ \A pkt \in On(v[r][j]) : PktOK(r, j, pkt)
  <2> TAKE r \in Paths
  <2> TAKE j \in 1 .. Final(r)
  <2>1. CASE r = p /\ j = i
    BY <1>7, <2>1
  <2>2. CASE r # p \/ j # i
    <3>1. v[r][j] = w[r][j]
      BY <1>7, <2>2
    <3>2. w[r][j] \in Seq(On(w[r][j])) /\ \A pkt \in On(w[r][j]) : PktOK(r, j, pkt)
      BY DEF WireOK
    <3> QED  BY <3>1, <3>2
  <2> QED  BY <2>1, <2>2
<1> QED  BY <1>7, <1>8, <1>9 DEF WireOK

\* A message joins a queue.
LEMMA WireAppend ==
    ASSUME NEW w, WireOK(w), NEW p \in Paths, NEW i, i \in 1 .. Final(p), NEW pkt, PktOK(p, i, pkt), NEW v,
           Puts(v, w, p, i, Append(w[p][i], pkt))
    PROVE  /\ WireOK(v)
           /\ \A r \in Paths : \A type : OnWire(v, r, type) <=> OnWire(w, r, type) \/ (r = p /\ pkt.json.type = type)
<1> DEFINE q == Append(w[p][i], pkt)
<1>1. w[p][i] \in Seq(On(w[p][i])) /\ \A e \in On(w[p][i]) : PktOK(p, i, e)
  BY DEF WireOK
<1>2. On(q) = On(w[p][i]) \cup {pkt} /\ q \in Seq(On(q))
  BY <1>1, OnAppend
<1>3. Puts(v, w, p, i, q)
  OBVIOUS
<1> HIDE DEF q
<1>4. \A e \in On(q) : PktOK(p, i, e)
  BY <1>1, <1>2
<1>5. /\ WireOK(v) /\ v[p][i] = q
      /\ \A r \in Paths : \A j \in 1 .. Final(r) : r # p \/ j # i => v[r][j] = w[r][j]
  BY <1>2, <1>3, <1>4, WireSet
<1>6. \A r \in Paths : \A j \in 1 .. Final(r) :
        On(v[r][j]) = IF r = p /\ j = i THEN On(w[r][j]) \cup {pkt} ELSE On(w[r][j])
  <2> TAKE r \in Paths
  <2> TAKE j \in 1 .. Final(r)
  <2>1. CASE r = p /\ j = i
    BY <1>2, <1>5, <2>1
  <2>2. CASE r # p \/ j # i
    BY <1>5, <2>2
  <2> QED  BY <2>1, <2>2
<1>7. \A r \in Paths : \A type : OnWire(v, r, type) <=> OnWire(w, r, type) \/ (r = p /\ pkt.json.type = type)
  <2> TAKE r \in Paths
  <2> TAKE type
  <2>1. CASE r = p
    <3>1. \A j \in 1 .. Final(p) :
            On(v[p][j]) = IF j = i THEN On(w[p][j]) \cup {pkt} ELSE On(w[p][j])
      BY <1>6
    <3> QED  BY <2>1, <3>1 DEF OnWire
  <2>2. CASE r # p
    BY <1>6, <2>2 DEF OnWire
  <2> QED  BY <2>1, <2>2
<1> QED  BY <1>5, <1>7

\* At most the message h of the path p is no longer on the wire.
AllBut(v, w, p, h) ==
    \A r \in Paths : \A type :
        OnWire(w, r, type) => OnWire(v, r, type) \/ (r = p /\ h.json.type = type)

\* A message leaves a queue.
LEMMA WirePop ==
    ASSUME NEW w, WireOK(w), NEW p \in Paths, NEW i, i \in 1 .. Final(p), w[p][i] # <<>>, NEW v,
           Puts(v, w, p, i, Tail(w[p][i]))
    PROVE  /\ WireOK(v) /\ PktOK(p, i, Head(w[p][i]))
           /\ \A r \in Paths : \A type : OnWire(v, r, type) => OnWire(w, r, type)
           /\ AllBut(v, w, p, Head(w[p][i]))
<1> DEFINE q == Tail(w[p][i])
           h == Head(w[p][i])
<1>1. w[p][i] \in Seq(On(w[p][i])) /\ \A e \in On(w[p][i]) : PktOK(p, i, e)
  BY DEF WireOK
<1>2. /\ On(q) \subseteq On(w[p][i]) /\ h \in On(w[p][i]) /\ q \in Seq(On(q))
      /\ \A e \in On(w[p][i]) : e = h \/ e \in On(q)
  BY <1>1, OnTail
<1>3. Puts(v, w, p, i, q)
  OBVIOUS
<1> HIDE DEF q, h
<1>4. \A e \in On(q) : PktOK(p, i, e)
  BY <1>1, <1>2
<1>5. /\ WireOK(v) /\ v[p][i] = q
      /\ \A r \in Paths : \A j \in 1 .. Final(r) : r # p \/ j # i => v[r][j] = w[r][j]
  BY <1>2, <1>3, <1>4, WireSet
<1>6. \A r \in Paths : \A j \in 1 .. Final(r) :
        /\ On(v[r][j]) \subseteq On(w[r][j])
        /\ \A e \in On(w[r][j]) : e \in On(v[r][j]) \/ (r = p /\ e = h)
  <2> TAKE r \in Paths
  <2> TAKE j \in 1 .. Final(r)
  <2>1. CASE r = p /\ j = i
    BY <1>2, <1>5, <2>1
  <2>2. CASE r # p \/ j # i
    BY <1>5, <2>2
  <2> QED  BY <2>1, <2>2
<1>7. \A r \in Paths : \A type : OnWire(v, r, type) => OnWire(w, r, type)
  BY <1>6 DEF OnWire
<1>8. \A r \in Paths : \A type : OnWire(w, r, type) => OnWire(v, r, type) \/ (r = p /\ h.json.type = type)
  BY <1>6 DEF OnWire
<1> QED  BY <1>1, <1>2, <1>5, <1>7, <1>8 DEF h, AllBut

\* A signal leaves for the first maintenance point.
LEMMA InjectSignal ==
    ASSUME scene \in Scenes, WireOK(wire), NEW p \in Paths, NEW type \in {"mask", "unmask"},
           mp_inject_packet(p, create_mask_request(Start, type))
    PROVE  /\ WireOK(wire')
           /\ \A r \in Paths : \A t : OnWire(wire', r, t) <=> OnWire(wire, r, t) \/ (r = p /\ type = t)
<1>1. Puts(wire', wire, p, 1, Append(wire[p][1], Signal(type)))
  BY SignalFacts DEF mp_inject_packet, Puts
<1>2. PktOK(p, 1, Signal(type)) /\ Signal(type).json.type = type
  BY SignalFacts DEF PktOK
<1>3. 1 \in 1 .. Final(p)
  BY PathLength
<1> QED  BY <1>1, <1>2, <1>3, WireAppend

\* So does a request.
LEMMA InjectRequest ==
    ASSUME scene \in Scenes, WireOK(wire), NEW p \in Paths, NEW m \in Requests, mp_inject_packet(p, m)
    PROVE  /\ WireOK(wire')
           /\ \A r \in Paths : \A t \in {"mask", "unmask"} : OnWire(wire', r, t) <=> OnWire(wire, r, t)
<1> DEFINE pkt == send_request(Start, m, scene.encap)
           red == TtlReduced(scene.encap, pkt)
<1>1. "type" \in DOMAIN m /\ m.type \notin {"mask", "unmask"} /\ m.level \in Nat
  BY RequestsAssumption DEF RequestMsgs
<1>2. Shape(pkt) /\ pkt.json.type = m.type
  BY <1>1, RequestShape
<1>3. Puts(wire', wire, p, 1, Append(wire[p][1], red)) \/ wire' = wire
  BY DEF mp_inject_packet, Puts
<1> HIDE DEF pkt
<1>4. Shape(red) /\ red.json = pkt.json
  BY <1>2, ReducedShape
<1> HIDE DEF red
<1>5. PktOK(p, 1, red) /\ red.json.type \notin {"mask", "unmask"}
  BY <1>1, <1>2, <1>4 DEF PktOK
<1>6. 1 \in 1 .. Final(p)
  BY PathLength
<1>7. CASE Puts(wire', wire, p, 1, Append(wire[p][1], red))
  <2>1. /\ WireOK(wire')
        /\ \A r \in Paths : \A t : OnWire(wire', r, t) <=> OnWire(wire, r, t) \/ (r = p /\ red.json.type = t)
    BY <1>5, <1>6, <1>7, WireAppend
  <2> QED  BY <1>5, <2>1
<1>8. CASE wire' = wire
  BY <1>8
<1> QED  BY <1>3, <1>7, <1>8

\* A maintenance point takes a message: a mask signal goes on towards the
\* elimination when the signals of its path get there.
LEMMA HopWire ==
    ASSUME scene \in Scenes, WireOK(wire), NEW p \in Paths, NEW i \in 1 .. Final(p), Hop(p, i)
    PROVE  /\ WireOK(wire')
           /\ \A r \in Paths : \A t \in {"mask", "unmask"} : OnWire(wire', r, t) => OnWire(wire, r, t)
           /\ \A r \in Paths : Good(r) /\ OnWire(wire, r, "mask") => OnWire(wire', r, "mask")
<1> DEFINE h == Head(wire[p][i])
           popped == [wire EXCEPT ![p][i] = Tail(@)]
<1>1. PICK ok \in send_message_outofband :
        LET r == inband_receiver(scene.mps[p][i], h, scene.encap, ok)
            goes == r.goes_on /\ i < Final(p) /\ TtlPasses(scene.encap, r.pkt)
        IN wire' = IF goes THEN [popped EXCEPT ![p][i + 1] = Append(@, TtlReduced(scene.encap, r.pkt))]
                   ELSE popped
  BY DEF Hop
<1> DEFINE r == inband_receiver(scene.mps[p][i], h, scene.encap, ok)
           goes == r.goes_on /\ i < Final(p) /\ TtlPasses(scene.encap, r.pkt)
           red == TtlReduced(scene.encap, r.pkt)
<1>2. wire[p][i] # <<>> /\ ~IsMaskSignal(p, i)
  BY DEF Hop
<1>3. /\ WireOK(popped) /\ PktOK(p, i, h)
      /\ \A q \in Paths : \A t : OnWire(popped, q, t) => OnWire(wire, q, t)
      /\ \A q \in Paths : \A t : OnWire(wire, q, t) => OnWire(popped, q, t) \/ (q = p /\ h.json.type = t)
  <2>1. Puts(popped, wire, p, i, Tail(wire[p][i]))
    BY DEF Puts
  <2>2. wire[p][i] # <<>>
    BY <1>2
  <2> HIDE DEF popped
  <2>3. /\ WireOK(popped) /\ PktOK(p, i, Head(wire[p][i]))
        /\ \A q \in Paths : \A t : OnWire(popped, q, t) => OnWire(wire, q, t)
        /\ AllBut(popped, wire, p, h)
    BY <2>1, <2>2, WirePop
  <2> QED  BY <2>3 DEF AllBut
<1>4. scene.mps[p][i] \in MaintenancePoints /\ Final(p) \in Nat
  BY PathLength
<1> HIDE DEF h
<1>5. /\ Shape(r.pkt) /\ r.pkt.json.type = h.json.type
      /\ h.json.type \in {"mask", "unmask"} =>
           r.pkt = h /\ (r.goes_on <=> mp_compare_level(scene.mps[p][i], h) > 0)
  BY <1>3, <1>4, Received DEF PktOK
<1>6. wire' = IF goes THEN [popped EXCEPT ![p][i + 1] = Append(@, red)] ELSE popped
  BY <1>1
<1> HIDE DEF popped, r
<1>7. Shape(red) /\ red.json = r.pkt.json
  BY <1>5, ReducedShape
<1>8. ASSUME h.json.type \in {"mask", "unmask"}
      PROVE  h = Signal(h.json.type) /\ r.pkt = h /\ red = h
  BY <1>3, <1>5, <1>8, SignalFacts DEF PktOK
<1>9. CASE goes
  <2>1. i + 1 \in 1 .. Final(p)
    BY <1>4, <1>9
  <2>2. PktOK(p, i + 1, red)
    <3>1. CASE h.json.type \in {"mask", "unmask"}
      <4>1. Passes(p, i, h)
        BY <1>5, <1>8, <1>9, <3>1 DEF Passes
      <4>2. \A j \in 1 .. i - 1 : Passes(p, j, h)
        BY <1>3, <3>1 DEF PktOK
      <4>3. \A j \in 1 .. (i + 1) - 1 : j = i \/ j \in 1 .. i - 1
        BY <1>4
      <4>4. \A j \in 1 .. (i + 1) - 1 : Passes(p, j, h)
        BY <4>1, <4>2, <4>3
      <4> QED  BY <1>7, <1>8, <3>1, <4>4 DEF PktOK
    <3>2. CASE h.json.type \notin {"mask", "unmask"}
      BY <1>5, <1>7, <3>2 DEF PktOK
    <3> QED  BY <3>1, <3>2
  <2>3. Puts(wire', popped, p, i + 1, Append(popped[p][i + 1], red))
    BY <1>6, <1>9 DEF Puts
  <2>4. /\ WireOK(wire')
        /\ \A q \in Paths : \A t : OnWire(wire', q, t) <=> OnWire(popped, q, t) \/ (q = p /\ red.json.type = t)
    <3>1. WireOK(popped)
      BY <1>3
    <3> QED  BY <2>1, <2>2, <2>3, <3>1, WireAppend
  <2>5. red.json.type = h.json.type
    BY <1>5, <1>7
  <2>6. \A t : h.json.type = t => OnWire(wire, p, t)
    <3>1. h \in On(wire[p][i])
      <4>1. wire[p][i] \in Seq(On(wire[p][i]))
        BY DEF WireOK
      <4> QED  BY <1>2, <4>1, OnTail DEF h
    <3> QED  BY <3>1 DEF OnWire
  <2> QED  BY <1>3, <2>4, <2>5, <2>6
<1>10. CASE ~goes
  <2>1. wire' = popped
    BY <1>6, <1>10
  <2>2. ASSUME Good(p), h.json.type = "mask"
        PROVE  FALSE
    <3>1. h = Signal("mask") /\ r.pkt = h
      BY <1>8, <2>2
    <3>2. CASE i = Final(p)
      <4>1. mp_compare_level(scene.mps[p][i], h) = 0
        BY <2>2, <3>1, <3>2 DEF Good
      <4> QED  BY <1>2, <2>2, <3>2, <4>1 DEF IsMaskSignal, h
    <3>3. CASE i < Final(p)
      <4>1. i \in 1 .. Final(p) - 1
        BY <1>4, <3>3
      <4>2. Passes(p, i, h)
        BY <2>2, <3>1, <4>1 DEF Good
      <4>3. r.goes_on /\ TtlPasses(scene.encap, r.pkt)
        BY <1>5, <2>2, <3>1, <4>2 DEF Passes
      <4> QED  BY <1>10, <3>3, <4>3
    <3> QED  BY <1>4, <3>2, <3>3
  <2> QED  BY <1>3, <2>1, <2>2
<1> QED  BY <1>9, <1>10

\* The elimination takes a signal.
LEMMA TakenWire ==
    ASSUME scene \in Scenes, WireOK(wire), NEW p \in Paths, wire[p][Final(p)] # <<>>, Taken(p)
    PROVE  /\ WireOK(wire') /\ PktOK(p, Final(p), Head(wire[p][Final(p)]))
           /\ \A r \in Paths : \A t : OnWire(wire', r, t) => OnWire(wire, r, t)
           /\ AllBut(wire', wire, p, Head(wire[p][Final(p)]))
<1> DEFINE k == Final(p)
           v == wire'
<1>1. k \in 1 .. Final(p)
  BY PathLength
<1>2. Puts(v, wire, p, k, Tail(wire[p][k]))
  BY DEF Taken, Puts
<1>3. wire[p][k] # <<>>
  OBVIOUS
<1> HIDE DEF k, v
<1>4. /\ WireOK(v) /\ PktOK(p, k, Head(wire[p][k]))
      /\ \A r \in Paths : \A t : OnWire(v, r, t) => OnWire(wire, r, t)
      /\ AllBut(v, wire, p, Head(wire[p][k]))
  BY <1>1, <1>2, <1>3, WirePop
<1> QED  BY <1>4 DEF k, v

\* What the wire carries does not depend on the step.
LEMMA SameScene ==
    ASSUME scene' = scene
    PROVE  /\ WireOK(wire') => WireOK(wire)'
           /\ \A p, t : OnWire(wire, p, t)' <=> OnWire(wire', p, t)
           /\ \A p : Good(p)' <=> Good(p)
<1>1. \A p, t : OnWire(wire, p, t)' <=> OnWire(wire', p, t)
  BY DEF OnWire, Final
<1>2. \A t : Signal(t)' = Signal(t)
  BY DEF Signal
<1>3. \A p, i, pkt : Passes(p, i, pkt)' <=> Passes(p, i, pkt)
  BY DEF Passes
<1>4. \A p : Good(p)' <=> Good(p)
  BY <1>2, <1>3 DEF Good, Final
<1>5. \A p, i, pkt : PktOK(p, i, pkt)' <=> PktOK(p, i, pkt)
  BY <1>2, <1>3 DEF PktOK
<1>6. WireOK(wire') => WireOK(wire)'
  BY <1>5 DEF WireOK, Final
<1> QED  BY <1>1, <1>4, <1>6

-----------------------------------------------------------------------------
(* The timeouts are kept *)

\* What is left of the invariant by a step that is not one of these threads.
LEMMA ThreadsKept ==
    ASSUME ThreadsOK, scene' = scene, act' = act, masked' = masked,
           \A p \in Paths : rcv'[p].ptr = rcv[p].ptr
    PROVE  ThreadsOK'
<1>1. \A p : Good(p)' <=> Good(p)
  BY SameScene
<1> QED  BY <1>1 DEF ThreadsOK

\* An unmask signal is on its way only to a period that has just begun.
LEMMA YoungKept ==
    ASSUME Young, scene' = scene,
           \A p \in Paths :
             \/ snd'[p].age = 0
             \/ /\ snd'[p].age = snd[p].age
                /\ OnWire(wire', p, "unmask") => OnWire(wire, p, "unmask")
                /\ act'["inband"].p = p /\ act'["inband"].pc \in Unmasking =>
                     (act["inband"].p = p /\ act["inband"].pc \in Unmasking) \/ OnWire(wire, p, "unmask")
    PROVE  Young'
<1>1. \A p, t : OnWire(wire, p, t)' <=> OnWire(wire', p, t)
  BY SameScene
<1> QED  BY <1>1 DEF Young

\* A path is not silent for longer, or its signals are still on their way.
LEMMA SilenceKept ==
    ASSUME MInv, MInv', SilenceIsLoss, scene' = scene,
           \A p \in Paths :
             act'[p].pc = "wait" /\ rcv'[p].msgs = 0 /\ snd'[p].th \in {"send", "wait"}
                 /\ snd'[p].age >= rcv'[p].silent =>
               \/ rcv'[p].silent <= lost'[p]
               \/ /\ act[p].pc = "wait" /\ rcv[p].msgs = 0 /\ snd[p].th \in {"send", "wait"}
                  /\ snd[p].age >= rcv[p].silent /\ rcv'[p].silent = rcv[p].silent /\ lost'[p] >= lost[p]
                  /\ snd[p].th = "send" \/ OnWire(wire, p, "mask") =>
                       snd'[p].th = "send" \/ OnWire(wire', p, "mask") \/ lost'[p] > lost[p]
    PROVE  SilenceIsLoss'
<1>1. \A p, t : OnWire(wire, p, t)' <=> OnWire(wire', p, t)
  BY SameScene
<1> SUFFICES ASSUME NEW p \in Paths,
                    act'[p].pc = "wait" /\ rcv'[p].msgs = 0 /\ snd'[p].th \in {"send", "wait"}
                      /\ snd'[p].age >= rcv'[p].silent
             PROVE  rcv'[p].silent <= lost'[p] + (IF snd'[p].th = "send" \/ OnWire(wire', p, "mask") THEN 1 ELSE 0)
  BY <1>1 DEF SilenceIsLoss, Running
<1>2. rcv[p].silent \in Nat /\ rcv'[p].silent \in Nat /\ lost[p] \in Nat /\ lost'[p] \in Nat
  <2>1. rcv[p] \in ReceiverStates /\ lost[p] \in 0 .. Timeout
    BY MaskFacts
  <2>2. rcv'[p] \in ReceiverStates /\ lost'[p] \in 0 .. Timeout
    <3>1. (rcv \in [Paths -> ReceiverStates] /\ lost \in [Paths -> 0 .. Timeout])'
      BY DEF MInv, TypeOK, ReceiverStates
    <3> QED  BY <3>1
  <2> QED  BY <2>1, <2>2, TimeoutAssumption DEF ReceiverStates
<1>3. CASE rcv'[p].silent <= lost'[p]
  BY <1>2, <1>3
<1>4. CASE ~ (rcv'[p].silent <= lost'[p])
  <2>1. /\ act[p].pc = "wait" /\ rcv[p].msgs = 0 /\ snd[p].th \in {"send", "wait"}
        /\ snd[p].age >= rcv[p].silent /\ rcv'[p].silent = rcv[p].silent /\ lost'[p] >= lost[p]
        /\ snd[p].th = "send" \/ OnWire(wire, p, "mask") =>
             snd'[p].th = "send" \/ OnWire(wire', p, "mask") \/ lost'[p] > lost[p]
    BY <1>4
  <2>2. rcv[p].silent <= lost[p] + (IF snd[p].th = "send" \/ OnWire(wire, p, "mask") THEN 1 ELSE 0)
    BY <2>1 DEF SilenceIsLoss, Running
  <2> QED  BY <1>2, <2>1, <2>2
<1> QED  BY <1>3, <1>4

\* Messages on the paths.
LEMMA HopTimeouts ==
    ASSUME MInv, MInv', TimeoutsOK, NEW p \in Paths, Pass(p)
    PROVE  TimeoutsOK'
<1>0. scene \in Scenes
  BY DEF MInv, ActTypes
<1>1. DOMAIN wire[p] = 1 .. Final(p)
  BY DEF TimeoutsOK, WireOK
<1>2. PICK i \in 1 .. Final(p) : Hop(p, i)
  BY <1>1 DEF Pass
<1>3. scene' = scene /\ act' = act /\ masked' = masked /\ rcv' = rcv /\ snd' = snd /\ lost' = lost
  BY <1>2 DEF Hop, mask_vars
<1>4. /\ WireOK(wire')
      /\ \A r \in Paths : \A t \in {"mask", "unmask"} : OnWire(wire', r, t) => OnWire(wire, r, t)
      /\ \A r \in Paths : Good(r) /\ OnWire(wire, r, "mask") => OnWire(wire', r, "mask")
  BY <1>0, <1>2, HopWire DEF TimeoutsOK
<1>5. \A r \in Paths : act[r].pc = "wait" => Good(r)
  BY DEF TimeoutsOK, ThreadsOK
<1>6. ThreadsOK'
  BY <1>3, ThreadsKept DEF TimeoutsOK
<1>7. Young'
  BY <1>3, <1>4, YoungKept DEF TimeoutsOK
<1>8. SilenceIsLoss'
  <2>1. \A r \in Paths : lost[r] >= lost[r]
    BY MaskFacts
  <2> QED  BY <1>3, <1>4, <1>5, <2>1, SilenceKept DEF TimeoutsOK
<1> QED  BY <1>3, <1>4, <1>6, <1>7, <1>8, SameScene DEF TimeoutsOK

\* A message is lost, which the count of lost signals records.
LEMMA LoseTimeouts ==
    ASSUME MInv, MInv', TimeoutsOK, NEW p \in Paths, NEW i \in DOMAIN wire[p], Lose(p, i)
    PROVE  TimeoutsOK'
<1>0. scene \in Scenes
  BY DEF MInv, ActTypes
<1>1. i \in 1 .. Final(p)
  BY DEF TimeoutsOK, WireOK
<1>2. /\ scene' = scene /\ act' = act /\ masked' = masked /\ rcv' = rcv /\ snd' = snd
      /\ wire[p][i] # <<>> /\ wire' = [wire EXCEPT ![p][i] = Tail(@)]
      /\ lost' = [lost EXCEPT ![p] = IF Head(wire[p][i]).json.type = "mask" /\ @ < Timeout THEN @ + 1 ELSE @]
  BY DEF Lose, mask_vars
<1>3. /\ WireOK(wire')
      /\ \A r \in Paths : \A t : OnWire(wire', r, t) => OnWire(wire, r, t)
      /\ \A r \in Paths : \A t : OnWire(wire, r, t) =>
           OnWire(wire', r, t) \/ (r = p /\ Head(wire[p][i]).json.type = t)
  <2>1. Puts(wire', wire, p, i, Tail(wire[p][i]))
    BY <1>2 DEF Puts
  <2>2. wire[p][i] # <<>> /\ WireOK(wire)
    BY <1>2 DEF TimeoutsOK
  <2>3. /\ WireOK(wire') /\ PktOK(p, i, Head(wire[p][i]))
        /\ \A r \in Paths : \A t : OnWire(wire', r, t) => OnWire(wire, r, t)
        /\ AllBut(wire', wire, p, Head(wire[p][i]))
    BY <1>1, <2>1, <2>2, WirePop
  <2> QED  BY <2>3 DEF AllBut
<1>4. \A r \in Paths : /\ lost[r] \in 0 .. Timeout /\ rcv[r].silent \in 0 .. Timeout
                       /\ lost'[r] >= lost[r]
                       /\ r = p /\ Head(wire[p][i]).json.type = "mask" => lost'[r] > lost[r] \/ lost'[r] = Timeout
  <2>1. lost \in [Paths -> 0 .. Timeout] /\ \A r \in Paths : rcv[r].silent \in 0 .. Timeout
    BY MaskFacts DEF ReceiverStates
  <2> QED  BY <1>2, <2>1, TimeoutAssumption
<1>5. ThreadsOK'
  BY <1>2, ThreadsKept DEF TimeoutsOK
<1>6. Young'
  BY <1>2, <1>3, YoungKept DEF TimeoutsOK
<1>7. SilenceIsLoss'
  <2>1. \A r \in Paths : /\ rcv'[r].silent <= lost'[r] \/ lost'[r] # Timeout
                         /\ OnWire(wire, r, "mask") =>
                              OnWire(wire', r, "mask") \/ lost'[r] > lost[r] \/ rcv'[r].silent <= lost'[r]
    <3> TAKE r \in Paths
    <3>1. lost'[r] = Timeout => rcv'[r].silent <= lost'[r]
      BY <1>2, <1>4, TimeoutAssumption
    <3>2. OnWire(wire, r, "mask") => OnWire(wire', r, "mask") \/ (r = p /\ Head(wire[p][i]).json.type = "mask")
      BY <1>3
    <3> QED  BY <1>4, <3>1, <3>2
  <2> QED  BY <1>2, <1>4, <2>1, SilenceKept DEF TimeoutsOK
<1> QED  BY <1>2, <1>3, <1>5, <1>6, <1>7, SameScene DEF TimeoutsOK

\* The side of the replication: a sender is started again, stopped, or
\* sends the signal of its period.
LEMMA SenderSide ==
    ASSUME MInv, MInv', TimeoutsOK, scene' = scene, act' = act, masked' = masked, rcv' = rcv, lost' = lost,
           WireOK(wire'),
           \A p \in Paths : OnWire(wire, p, "mask") => OnWire(wire', p, "mask"),
           \A p \in Paths : snd'[p].age = 0 \/ (snd'[p].age = snd[p].age /\ (snd'[p].th \in {"send", "wait"} => snd[p].th \in {"send", "wait"})),
           \A p \in Paths : snd'[p].age = 0 \/ (OnWire(wire', p, "unmask") => OnWire(wire, p, "unmask")),
           \A p \in Paths : snd'[p].age = 0 \/ (snd[p].th = "send" => snd'[p].th = "send" \/ OnWire(wire', p, "mask"))
    PROVE  TimeoutsOK'
<1>1. \A p \in Paths : /\ rcv[p].silent \in Nat /\ lost[p] \in Nat /\ lost[p] >= lost[p]
                       /\ snd'[p].age = 0 /\ snd'[p].age >= rcv[p].silent => rcv[p].silent <= lost[p]
  <2>1. \A p \in Paths : rcv[p] \in ReceiverStates /\ lost[p] \in 0 .. Timeout
    BY MaskFacts
  <2> QED  BY <2>1, TimeoutAssumption DEF ReceiverStates
<1>2. ThreadsOK'
  BY ThreadsKept DEF TimeoutsOK
<1>3. Young'
  BY YoungKept DEF TimeoutsOK
<1>4. SilenceIsLoss'
  <2>1. \A p \in Paths :
          act'[p].pc = "wait" /\ rcv'[p].msgs = 0 /\ snd'[p].th \in {"send", "wait"}
              /\ snd'[p].age >= rcv'[p].silent =>
            \/ rcv'[p].silent <= lost'[p]
            \/ /\ act[p].pc = "wait" /\ rcv[p].msgs = 0 /\ snd[p].th \in {"send", "wait"}
               /\ snd[p].age >= rcv[p].silent /\ rcv'[p].silent = rcv[p].silent /\ lost'[p] >= lost[p]
               /\ snd[p].th = "send" \/ OnWire(wire, p, "mask") =>
                    snd'[p].th = "send" \/ OnWire(wire', p, "mask") \/ lost'[p] > lost[p]
    <3> TAKE p \in Paths
    <3>1. CASE snd'[p].age = 0
      BY <1>1, <3>1
    <3>2. CASE snd'[p].age # 0
      BY <1>1, <3>2
    <3> QED  BY <3>1, <3>2
  <2> QED  BY <2>1, SilenceKept DEF TimeoutsOK
<1> QED  BY <1>2, <1>3, <1>4, SameScene DEF TimeoutsOK

\* send_mask_request_thread().
LEMMA SendTimeouts ==
    ASSUME MInv, MInv', TimeoutsOK, NEW s \in Senders, Sender(s)
    PROVE  TimeoutsOK'
<1>0. scene \in Scenes /\ snd \in [Senders -> SenderStates] /\ WireOK(wire)
  BY MaskFacts DEF TimeoutsOK
<1>1. scene' = scene /\ act' = act /\ masked' = masked /\ rcv' = rcv /\ lost' = lost
  BY DEF Sender, send_mask_request_thread
<1>2. CASE /\ snd[s].th = "send" /\ snd' = [snd EXCEPT ![s].th = "wait"]
           /\ IF s = Post THEN UNCHANGED wire ELSE mp_inject_packet(s, create_mask_request(Start, "mask"))
  <2>1. /\ snd'[s].th = "wait" /\ snd'[s].age = snd[s].age
        /\ \A p \in Paths : p # s => snd'[p] = snd[p]
    BY <1>0, <1>2 DEF SenderStates
  <2>2. CASE s = Post
    <3>1. wire' = wire /\ Post \notin Paths
      BY <1>2, <2>2, PathsAssumption
    <3> QED  BY <1>0, <1>1, <2>1, <2>2, <3>1, SenderSide
  <2>3. CASE s \in Paths
    <3>1. s # Post
      BY <2>3, PathsAssumption
    <3>2. mp_inject_packet(s, create_mask_request(Start, "mask"))
      BY <1>2, <3>1
    <3>3. /\ WireOK(wire')
          /\ \A r \in Paths : \A t : OnWire(wire', r, t) <=> OnWire(wire, r, t) \/ (r = s /\ "mask" = t)
      BY <1>0, <2>3, <3>2, InjectSignal
    <3>4. \A r \in Paths : /\ OnWire(wire, r, "mask") => OnWire(wire', r, "mask")
                           /\ OnWire(wire', r, "unmask") => OnWire(wire, r, "unmask")
      BY <3>3
    <3>5. OnWire(wire', s, "mask")
      BY <2>3, <3>3
    <3> QED  BY <1>1, <1>2, <2>1, <3>3, <3>4, <3>5, SenderSide
  <2> QED  BY <2>2, <2>3
<1>3. CASE /\ snd[s].th = "wait" /\ snd' = [snd EXCEPT ![s].th = "ended", ![s].stop = @ - 1] /\ wire' = wire
  <2>1. /\ snd'[s].th = "ended" /\ snd'[s].age = snd[s].age
        /\ \A p \in Paths : p # s => snd'[p] = snd[p]
    BY <1>0, <1>3 DEF SenderStates
  <2> QED  BY <1>0, <1>1, <1>3, <2>1, SenderSide
<1> QED  BY <1>2, <1>3 DEF Sender, send_mask_request_thread

\* mask_set() and mask_unset().
LEMMA CommandTimeouts ==
    ASSUME MInv, MInv', TimeoutsOK, Commander
    PROVE  TimeoutsOK'
<1>0. scene \in Scenes /\ snd \in [Senders -> SenderStates] /\ WireOK(wire)
  BY MaskFacts DEF TimeoutsOK
<1>1. ASSUME NEW p \in Paths, mask_set(p)
      PROVE  TimeoutsOK'
  <2>1. scene' = scene /\ act' = act /\ masked' = masked /\ rcv' = rcv /\ lost' = lost /\ wire' = wire
    BY <1>1 DEF mask_set
  <2>2. snd' = IF snd[p].ptr THEN snd ELSE [snd EXCEPT ![p] = Sending]
    BY <1>1 DEF mask_set, mp_initiate_mask_signalling
  <2>3. \A q \in Paths : snd'[q] = snd[q] \/ snd'[q].age = 0
    BY <1>0, <2>2 DEF Sending
  <2> QED  BY <1>0, <2>1, <2>3, SenderSide
<1>2. ASSUME NEW p \in Paths, mask_unset(p) \/ oam_unref_maintenance_point(p)
      PROVE  TimeoutsOK'
  <2>1. scene' = scene /\ act' = act /\ masked' = masked /\ rcv' = rcv /\ lost' = lost /\ wire' = wire
    BY <1>2 DEF mask_unset, oam_unref_maintenance_point
  <2>2. snd' = snd \/ snd' = [snd EXCEPT ![p].stop = @ + 1]
    BY <1>2 DEF mask_unset, oam_unref_maintenance_point, PushStop
  <2>3. \A q \in Paths : snd'[q].age = snd[q].age /\ snd'[q].th = snd[q].th
    BY <1>0, <2>2 DEF SenderStates
  <2> QED  BY <1>0, <2>1, <2>3, SenderSide
<1>3. ASSUME NEW p \in Paths, Request(p)
      PROVE  TimeoutsOK'
  <2>1. scene' = scene /\ act' = act /\ masked' = masked /\ rcv' = rcv /\ lost' = lost /\ snd' = snd
    BY <1>3 DEF Request, mask_vars
  <2>2. PICK m \in Requests : mp_inject_packet(p, m)
    BY <1>3 DEF Request
  <2>3. /\ WireOK(wire')
        /\ \A r \in Paths : \A t \in {"mask", "unmask"} : OnWire(wire', r, t) <=> OnWire(wire, r, t)
    BY <1>0, <2>2, InjectRequest
  <2> QED  BY <2>1, <2>3, SenderSide
<1>4. ASSUME mp_stop_mask_signalling
      PROVE  TimeoutsOK'
  <2>1. scene' = scene /\ act' = act /\ masked' = masked /\ rcv' = rcv /\ lost' = lost
    BY <1>4 DEF mp_stop_mask_signalling
  <2>2. cmd.p \in Paths
    BY <1>4 DEF MInv, ActTypes, mp_stop_mask_signalling
  <2>3. snd' = [snd EXCEPT ![cmd.p] = NoSender]
    BY <1>4 DEF mp_stop_mask_signalling
  <2>4. snd'[cmd.p].age = 0 /\ \A q \in Paths : q # cmd.p => snd'[q] = snd[q]
    BY <1>0, <2>2, <2>3 DEF NoSender
  <2>5. mp_inject_packet(cmd.p, create_mask_request(Start, "unmask")) \/ wire' = wire
    BY <1>4 DEF mp_stop_mask_signalling
  <2>6. /\ WireOK(wire')
        /\ \A r \in Paths : /\ OnWire(wire, r, "mask") <=> OnWire(wire', r, "mask")
                            /\ r # cmd.p => (OnWire(wire', r, "unmask") => OnWire(wire, r, "unmask"))
    <3>1. CASE wire' = wire
      BY <1>0, <3>1
    <3>2. CASE mp_inject_packet(cmd.p, create_mask_request(Start, "unmask"))
      <4>1. /\ WireOK(wire')
            /\ \A r \in Paths : \A t : OnWire(wire', r, t) <=> OnWire(wire, r, t) \/ (r = cmd.p /\ "unmask" = t)
        BY <1>0, <2>2, <3>2, InjectSignal
      <4> QED  BY <4>1
    <3> QED  BY <2>5, <3>1, <3>2
  <2> QED  BY <2>1, <2>4, <2>6, SenderSide
<1> QED  BY <1>1, <1>2, <1>3, <1>4 DEF Commander

\* A period passes when all signals have come or are lost.
LEMMA PeriodTimeouts ==
    ASSUME MInv, MInv', TimeoutsOK, Period
    PROVE  TimeoutsOK'
<1>0. scene \in Scenes /\ snd \in [Senders -> SenderStates] /\ rcv \in [Paths -> ReceiverStates] /\ WireOK(wire)
  BY MaskFacts DEF TimeoutsOK
<1>1. scene' = scene /\ act' = act /\ masked' = masked /\ lost' = lost /\ wire' = wire
  BY DEF Period
<1>2. /\ \A p \in Paths : \A i \in DOMAIN wire[p] : wire[p][i] = <<>>
      /\ \A s \in Senders : snd[s].th \in {"none", "wait"}
      /\ \A a \in Actors : act[a].pc \in Resting
      /\ snd' = [s \in Senders |-> IF snd[s].th = "wait"
                                   THEN [snd[s] EXCEPT !.th = "send", !.age = IF @ < Timeout THEN @ + 1 ELSE @]
                                   ELSE snd[s]]
      /\ rcv' = [p \in Paths |-> [rcv[p] EXCEPT !.silent = IF act[p].pc = "wait" THEN @ + 1 ELSE @]]
  BY DEF Period
<1>3. \A p \in Paths : DOMAIN wire[p] = 1 .. Final(p)
  BY <1>0 DEF WireOK
<1>4. \A p \in Paths : \A t : ~OnWire(wire, p, t)
  BY <1>2, <1>3, OnEmpty DEF OnWire
<1>5. \A p \in Paths : /\ rcv'[p].ptr = rcv[p].ptr /\ rcv'[p].msgs = rcv[p].msgs
                       /\ act[p].pc = "wait" => rcv'[p].silent = rcv[p].silent + 1
  BY <1>0, <1>2 DEF ReceiverStates
<1>6. ThreadsOK'
  BY <1>1, <1>5, ThreadsKept DEF TimeoutsOK
<1>7. Young'
  <2>1. act["inband"].pc \notin Unmasking
    BY <1>2 DEF Resting, Unmasking
  <2>2. \A p \in Paths : ~OnWire(wire, p, "unmask")'
    BY <1>1, <1>4, SameScene
  <2> QED  BY <1>1, <2>1, <2>2 DEF Young
<1>8. SilenceIsLoss'
  <2> SUFFICES ASSUME NEW p \in Paths,
                      act[p].pc = "wait" /\ rcv'[p].msgs = 0 /\ snd'[p].th \in {"send", "wait"}
                        /\ snd'[p].age >= rcv'[p].silent
               PROVE  rcv'[p].silent <= lost[p] + (IF snd'[p].th = "send" THEN 1 ELSE 0)
    <3>1. \A p \in Paths : ~OnWire(wire, p, "mask")'
      BY <1>1, <1>4, SameScene
    <3> QED  BY <1>1, <3>1 DEF SilenceIsLoss, Running
  <2>1. snd[p] \in SenderStates /\ snd[p].th \in {"none", "wait"} /\ rcv[p] \in ReceiverStates
    BY <1>0, <1>2
  <2>2. snd[p].th = "wait"
    BY <1>2, <2>1
  <2>3. snd'[p] = [snd[p] EXCEPT !.th = "send", !.age = IF @ < Timeout THEN @ + 1 ELSE @]
    BY <1>2, <2>2
  <2>4. snd'[p].th = "send" /\ snd'[p].age <= snd[p].age + 1
    BY <2>1, <2>3, TimeoutAssumption DEF SenderStates
  <2>5. rcv[p].silent \in Nat /\ snd[p].age \in Nat /\ snd'[p].age \in Nat /\ lost[p] \in Nat
    <3>1. lost[p] \in 0 .. Timeout
      BY MaskFacts
    <3>2. snd'[p].age \in Nat
      BY <2>1, <2>3, TimeoutAssumption DEF SenderStates
    <3> QED  BY <2>1, <3>1, <3>2, TimeoutAssumption DEF SenderStates, ReceiverStates
  <2>6. snd[p].age >= rcv[p].silent /\ rcv[p].msgs = 0
    BY <1>5, <2>4, <2>5
  <2>7. rcv[p].silent <= lost[p] + 0
    BY <1>4, <2>2, <2>6 DEF TimeoutsOK, SilenceIsLoss, Running
  <2> QED  BY <1>5, <2>4, <2>5, <2>7
<1>9. WireOK(wire)'
  BY <1>0, <1>1, SameScene
<1> QED  BY <1>6, <1>7, <1>8, <1>9 DEF TimeoutsOK

\* The side of the elimination.
LEMMA ActorSide ==
    ASSUME MInv, MInv', TimeoutsOK, ThreadsOK', scene' = scene, wire' = wire, lost' = lost,
           \A p \in Paths : snd'[p] = snd[p],
           \A p \in Paths : act'[p].pc = "wait" =>
             rcv'[p].silent = 0 \/ (act[p].pc = "wait" /\ rcv'[p] = rcv[p]),
           act'["inband"].pc \in Unmasking =>
             act["inband"].pc \in Unmasking /\ act'["inband"].p = act["inband"].p
    PROVE  TimeoutsOK'
<1>1. \A p \in Paths : lost[p] \in Nat
  BY MaskFacts, TimeoutAssumption
<1>2. Young'
  BY YoungKept DEF TimeoutsOK
<1>3. SilenceIsLoss'
  <2>1. \A p \in Paths : lost[p] >= lost[p] /\ (rcv'[p].silent = 0 => rcv'[p].silent <= lost[p])
    BY <1>1
  <2> QED  BY <2>1, SilenceKept DEF TimeoutsOK
<1> QED  BY <1>2, <1>3, SameScene DEF TimeoutsOK

\* A thread goes on with its unmasking.
LEMMA UnmaskingThreads ==
    ASSUME MInv, ~raced, ThreadsOK, scene' = scene, rcv' = rcv, NEW a \in Actors,
           act[a].pc \in Unmasking, act'[a].pc \in Unmasking \ {"u_check"}, act'[a].p = act[a].p,
           \A b \in Actors : b # a => act'[b] = act[b],
           \/ masked' = masked
           \/ masked' = masked \ {act[a].p} /\ act'[a].pc \in Late,
           act[a].pc \in Late => act'[a].pc \in Late,
           a = "inband" => act'[a].pc \in Late \/ (act'[a].pc = "u_set" /\ act[a].p \in masked')
    PROVE  ThreadsOK'
<1>1. /\ \A p \in Paths : p \in Actors /\ p # "inband" /\ act[p].p = p
      /\ "inband" \in Actors
  BY PathsAssumption DEF MInv, ActTypes
<1>2. \A b \in Actors : b # a => act[b].pc \in Resting
  BY Alone DEF Unmasking, Resting
<1>3. \A p : Good(p)' <=> Good(p)
  BY SameScene
<1> SUFFICES ASSUME NEW p \in Paths
             PROVE  /\ rcv'[p].ptr <=> act'[p].pc # "none"
                    /\ rcv'[p].ptr => Good(p)
                    /\ act'["inband"].pc \in Masking /\ act'["inband"].p = p => ~rcv'[p].ptr /\ Good(p) /\ p \in masked'
                    /\ rcv'[p].ptr => \/ p \in masked'
                                      \/ act'[p].pc \in Late
                                      \/ act'["inband"].p = p /\ act'["inband"].pc \in Late
                    /\ act'["inband"].pc \in {"u_check", "u_set"} /\ act'["inband"].p = p => p \in masked'
                    /\ ~ (act'["inband"].p = p /\ act'["inband"].pc = "u_fail")
  BY <1>3 DEF ThreadsOK
<1>4. /\ rcv[p].ptr <=> act[p].pc # "none"
      /\ rcv[p].ptr => Good(p)
      /\ rcv[p].ptr => \/ p \in masked \/ act[p].pc \in Late
                       \/ act["inband"].p = p /\ act["inband"].pc \in Late
  BY DEF ThreadsOK
<1>5. CASE a = "inband"
  <2>1. act'[p] = act[p] /\ act[p].pc \in Resting
    BY <1>1, <1>2, <1>5
  <2>2. act'["inband"].pc \in Late \/ (act'["inband"].pc = "u_set" /\ act["inband"].p \in masked')
    BY <1>5
  <2>3. act[p].pc \notin Late /\ act'["inband"].pc \notin Masking \cup {"u_fail", "u_check"}
    BY <2>1, <2>2 DEF Resting, Late, Masking
  <2>4. p # act["inband"].p => (p \in masked' <=> p \in masked)
    BY <1>5
  <2>5. act["inband"].p = p => p \in masked' \/ act'["inband"].pc \in Late
    BY <2>2
  <2> QED  BY <1>4, <1>5, <2>1, <2>2, <2>3, <2>4, <2>5 DEF Late
<1>6. CASE a # "inband"
  <2>1. act'["inband"] = act["inband"] /\ act["inband"].pc \in Resting
    BY <1>1, <1>2, <1>6
  <2>2. act["inband"].pc \notin Masking \cup Late \cup {"u_check", "u_set", "u_fail"}
    BY <2>1 DEF Resting, Masking, Late
  <2>3. a \in Paths /\ act[a].p = a
    BY <1>1, <1>6
  <2>4. CASE p = a
    <3>1. act'[p].pc # "none" /\ act[p].pc # "none"
      BY <2>4 DEF Unmasking
    <3>2. p \in masked' \/ act'[p].pc \in Late \/ masked' = masked
      BY <2>3, <2>4
    <3>3. p \in masked \/ act[p].pc \in Late
      BY <1>4, <2>2, <3>1
    <3>4. p \in masked' \/ act'[p].pc \in Late
      BY <2>4, <3>2, <3>3
    <3> QED  BY <1>4, <2>1, <2>2, <3>1, <3>4
  <2>5. CASE p # a
    <3>1. act'[p] = act[p] /\ (p \in masked' <=> p \in masked)
      BY <1>1, <2>3, <2>5
    <3> QED  BY <1>4, <2>1, <2>2, <3>1
  <2> QED  BY <2>4, <2>5
<1> QED  BY <1>5, <1>6

\* seq_rec_path_unmasked(): the receiver unmasks a masked path, and that
\* never fails.
LEMMA UnmaskTimeouts ==
    ASSUME MInv, MInv', ~raced, TimeoutsOK, NEW a \in Actors,
           UnmaskCheck(a) \/ UnmaskSet(a) \/ UnmaskWrite(a) \/ StopPost(a)
    PROVE  TimeoutsOK'
<1>1. /\ act \in [Actors -> ActorStates] /\ act[a] \in ActorStates
      /\ snd \in [Senders -> SenderStates] /\ Post \notin Paths
      /\ "inband" \in Actors /\ \A p \in Paths : p \in Actors /\ p # "inband"
  BY MaskFacts, PathsAssumption
<1>2. /\ scene' = scene /\ rcv' = rcv /\ wire' = wire /\ lost' = lost
      /\ act[a].pc \in Unmasking \ {"u_done", "u_fail"}
  BY DEF UnmaskCheck, UnmaskSet, UnmaskWrite, StopPost, Unmasking
<1>3. \A p \in Paths : snd'[p] = snd[p]
  <2>1. snd' \in {snd, [snd EXCEPT ![Post].stop = @ + 1], [snd EXCEPT ![Post] = NoSender]}
    BY DEF UnmaskCheck, UnmaskSet, UnmaskWrite, StopPost, PushStop
  <2> QED  BY <1>1, <2>1
<1>4. act[a].p \in Paths
  BY <1>1, <1>2 DEF MInv, ActTypes, Unmasking
<1>5. ASSUME UnmaskCheck(a), a = "inband"
      PROVE  act[a].p \in masked /\ paths < scene.admin
  <2>1. act[a].p \in masked
    BY <1>4, <1>5 DEF UnmaskCheck, TimeoutsOK, ThreadsOK
  <2>2. CountOf(a)
    BY <1>2, Alone DEF Unmasking, Resting
  <2>3. paths = scene.admin - Cardinality(masked)
    BY <1>5, <2>2 DEF UnmaskCheck, CountOf
  <2>4. IsFiniteSet(masked) /\ Cardinality(masked) \in Nat /\ scene.admin \in Nat
    BY MaskFacts
  <2>5. Cardinality(masked) # 0
    BY <2>1, <2>4, FS_EmptySet
  <2> QED  BY <2>1, <2>3, <2>4, <2>5
<1>6. /\ act'[a].pc \in Unmasking \ {"u_check"} /\ act'[a].p = act[a].p
      /\ \A b \in Actors : b # a => act'[b] = act[b]
      /\ \/ masked' = masked
         \/ masked' = masked \ {act[a].p} /\ act'[a].pc \in Late
      /\ act[a].pc \in Late => act'[a].pc \in Late
      /\ a = "inband" => act'[a].pc \in Late \/ (act'[a].pc = "u_set" /\ act[a].p \in masked')
  <2>1. CASE UnmaskCheck(a)
    <3>1. /\ act' = [act EXCEPT ![a].pc = IF act[a].p \in masked /\ paths < scene.admin THEN "u_set" ELSE "u_fail"]
          /\ masked' = masked /\ act[a].pc = "u_check"
      BY <2>1 DEF UnmaskCheck, Goto
    <3>2. act'[a].pc = (IF act[a].p \in masked /\ paths < scene.admin THEN "u_set" ELSE "u_fail") /\ act'[a].p = act[a].p
      BY <1>1, <3>1 DEF ActorStates
    <3>3. \A b \in Actors : b # a => act'[b] = act[b]
      BY <1>1, <3>1
    <3> QED  BY <1>5, <2>1, <3>1, <3>2, <3>3 DEF Unmasking, Late
  <2>2. CASE UnmaskSet(a)
    <3>1. /\ act' = [act EXCEPT ![a].pc = "u_write", ![a].val = paths]
          /\ masked' = masked \ {act[a].p} /\ act[a].pc = "u_set"
      BY <2>2 DEF UnmaskSet
    <3>2. act'[a].pc = "u_write" /\ act'[a].p = act[a].p /\ \A b \in Actors : b # a => act'[b] = act[b]
      BY <1>1, <3>1 DEF ActorStates
    <3> QED  BY <3>1, <3>2 DEF Unmasking, Late
  <2>3. CASE UnmaskWrite(a) \/ StopPost(a)
    <3>1. PICK c \in {"u_stop", "u_join", "u_done"} : act' = [act EXCEPT ![a].pc = c]
      BY <2>3 DEF UnmaskWrite, StopPost, Goto
    <3>2. masked' = masked
      BY <2>3 DEF UnmaskWrite, StopPost
    <3>3. act'[a].pc = c /\ act'[a].p = act[a].p /\ \A b \in Actors : b # a => act'[b] = act[b]
      BY <1>1, <3>1 DEF ActorStates
    <3> QED  BY <3>1, <3>2, <3>3 DEF Unmasking, Late
  <2> QED  BY <2>1, <2>2, <2>3
<1>7. ThreadsOK'
  BY <1>2, <1>6, UnmaskingThreads DEF TimeoutsOK
<1>8. \A p \in Paths : act'[p].pc = "wait" => act[p].pc = "wait"
  BY <1>1, <1>6 DEF Unmasking
<1>9. act'["inband"].pc \in Unmasking => act["inband"].pc \in Unmasking /\ act'["inband"].p = act["inband"].p
  BY <1>1, <1>2, <1>6
<1> QED  BY <1>2, <1>3, <1>7, <1>8, <1>9, ActorSide

\* The thread of an unmasked path ends.
LEMMA DoneTimeouts ==
    ASSUME MInv, MInv', ~raced, TimeoutsOK, NEW a \in Actors, UnmaskDone(a)
    PROVE  TimeoutsOK'
<1> DEFINE p == act[a].p
           stops == a = p \/ act[a].pc = "u_done"
<1>1. /\ "inband" \in Actors /\ \A q \in Paths : q \in Actors /\ q # "inband" /\ act[q].p = q
      /\ rcv \in [Paths -> ReceiverStates]
  BY MaskFacts, PathsAssumption DEF MInv, ActTypes
<1>2. /\ scene' = scene /\ wire' = wire /\ lost' = lost /\ snd' = snd /\ masked' = masked
      /\ act[a].pc \in {"u_done", "u_fail"}
      /\ rcv' = IF stops THEN [rcv EXCEPT ![p].ptr = FALSE, ![p].silent = 0] ELSE rcv
      /\ act' = [b \in Actors |-> CASE stops /\ b = p -> NoThread(p)
                                    [] b = a /\ b = "inband" -> Idle
                                    [] OTHER -> act[b]]
  BY DEF UnmaskDone
<1>3. p \in Paths
  BY <1>1, <1>2 DEF MInv, ActTypes
<1>4. \A b \in Actors : b # a => act[b].pc \in Resting
  BY <1>2, Alone DEF Resting
<1>5. a = "inband" => act[a].pc = "u_done"
  BY <1>2, <1>3 DEF TimeoutsOK, ThreadsOK
<1>6. stops
  BY <1>1, <1>5
<1> HIDE DEF p, stops
<1>7. act'[p].pc = "none" /\ rcv'[p].ptr = FALSE
  BY <1>1, <1>2, <1>3, <1>6 DEF NoThread, ReceiverStates
<1>8. act'["inband"].pc = "idle"
  <2>1. CASE a = "inband"
    BY <1>1, <1>2, <1>3, <2>1 DEF Idle
  <2>2. CASE a # "inband"
    <3>1. act["inband"].pc = "idle"
      BY <1>1, <1>4, <2>2 DEF MInv, ActTypes, Resting, Unmasking, Masking
    <3>2. act'["inband"] = act["inband"]
      BY <1>1, <1>2, <1>3, <2>2
    <3> QED  BY <3>1, <3>2
  <2> QED  BY <2>1, <2>2
<1>9. \A q \in Paths : q # p => act'[q] = act[q] /\ rcv'[q] = rcv[q]
  <2>1. a \in Paths => a = p
    BY <1>1 DEF p
  <2> QED  BY <1>1, <1>2, <1>3, <2>1
<1>10. ThreadsOK'
  <2>1. \A q : Good(q)' <=> Good(q)
    BY <1>2, SameScene
  <2>2. act'["inband"].pc \notin Masking \cup Late \cup {"u_check", "u_set", "u_fail"}
    BY <1>8 DEF Masking, Late
  <2>3. ASSUME NEW q \in Paths, q # p
        PROVE  act["inband"].p = q => act["inband"].pc \notin Late
    <3>1. CASE a = "inband"
      BY <2>3, <3>1 DEF p
    <3>2. CASE a # "inband"
      BY <1>1, <1>4, <3>2 DEF Resting, Late
    <3> QED  BY <3>1, <3>2
  <2>4. \A q \in Paths : /\ rcv'[q].ptr <=> act'[q].pc # "none"
                         /\ rcv'[q].ptr => Good(q) /\ (q \in masked \/ act'[q].pc \in Late)
    <3> TAKE q \in Paths
    <3>1. CASE q = p
      BY <1>7, <3>1
    <3>2. CASE q # p
      BY <1>9, <2>3, <3>2 DEF TimeoutsOK, ThreadsOK
    <3> QED  BY <3>1, <3>2
  <2> QED  BY <1>2, <2>1, <2>2, <2>4 DEF ThreadsOK
<1>11. \A q \in Paths : act'[q].pc = "wait" => act[q].pc = "wait" /\ rcv'[q] = rcv[q]
  BY <1>7, <1>9
<1>12. act'["inband"].pc \notin Unmasking
  BY <1>8 DEF Unmasking
<1> QED  BY <1>2, <1>10, <1>11, <1>12, ActorSide

\* recv_mask_timeout_thread(), before it unmasks.
LEMMA ThreadTimeouts ==
    ASSUME MInv, MInv', TimeoutsOK, NEW p \in Paths, TimeoutPops(p) \/ TimeoutFires(p)
    PROVE  TimeoutsOK'
<1>1. /\ act \in [Actors -> ActorStates] /\ rcv \in [Paths -> ReceiverStates]
      /\ "inband" \in Actors /\ \A q \in Paths : q \in Actors /\ q # "inband"
  BY MaskFacts, PathsAssumption
<1>2. /\ scene' = scene /\ wire' = wire /\ lost' = lost /\ snd' = snd /\ masked' = masked
      /\ act[p].pc = "wait"
  BY DEF TimeoutPops, TimeoutFires
<1>3. CASE TimeoutPops(p)
  <2>1. act' = act /\ rcv' = [rcv EXCEPT ![p].msgs = @ - 1, ![p].silent = 0]
    BY <1>3 DEF TimeoutPops
  <2>2. /\ rcv'[p].silent = 0 /\ rcv'[p].ptr = rcv[p].ptr
        /\ \A q \in Paths : q # p => rcv'[q] = rcv[q]
    BY <1>1, <2>1 DEF ReceiverStates
  <2>3. ThreadsOK'
    BY <1>2, <2>1, <2>2, ThreadsKept DEF TimeoutsOK
  <2> QED  BY <1>2, <2>1, <2>2, <2>3, ActorSide
<1>4. CASE TimeoutFires(p)
  <2>1. act' = [act EXCEPT ![p].pc = "u_check"] /\ rcv' = rcv
    BY <1>4 DEF TimeoutFires, Goto
  <2>2. act'[p].pc = "u_check" /\ \A b \in Actors : b # p => act'[b] = act[b]
    BY <1>1, <2>1 DEF ActorStates
  <2>3. act'["inband"] = act["inband"]
    BY <1>1, <2>2
  <2>4. \A q : Good(q)' <=> Good(q)
    BY <1>2, SameScene
  <2>5. \A q \in Paths : /\ act'[q].pc # "none" <=> act[q].pc # "none"
                         /\ act[q].pc \in Late => act'[q].pc \in Late
                         /\ act'[q].pc = "wait" => act[q].pc = "wait"
    BY <1>1, <1>2, <2>2 DEF Late
  <2>6. ThreadsOK'
    BY <1>2, <2>1, <2>3, <2>4, <2>5 DEF TimeoutsOK, ThreadsOK
  <2> QED  BY <1>2, <2>1, <2>3, <2>5, <2>6, ActorSide
<1> QED  BY <1>3, <1>4

\* seq_rec_path_masked() and the start of recv_mask_timeout_thread().
LEMMA MaskTimeouts ==
    ASSUME MInv, MInv', TimeoutsOK, seq_rec_path_masked \/ LaunchTimeout
    PROVE  TimeoutsOK'
<1> DEFINE p == act["inband"].p
<1>1. /\ act \in [Actors -> ActorStates] /\ act["inband"] \in ActorStates
      /\ rcv \in [Paths -> ReceiverStates] /\ snd \in [Senders -> SenderStates]
      /\ "inband" \in Actors /\ Post \notin Paths /\ \A q \in Paths : q \in Actors /\ q # "inband"
  BY MaskFacts, PathsAssumption
<1>2. /\ scene' = scene /\ wire' = wire /\ lost' = lost /\ masked' = masked
      /\ act["inband"].pc \in Masking
  BY DEF seq_rec_path_masked, LaunchTimeout, Masking
<1>3. p \in Paths
  BY <1>2 DEF MInv, ActTypes, Masking
<1>4. ~rcv[p].ptr /\ Good(p) /\ p \in masked
  BY <1>2, <1>3 DEF TimeoutsOK, ThreadsOK
<1>5. \A q : Good(q)' <=> Good(q)
  BY <1>2, SameScene
<1>6. act["inband"].pc \notin Late
  BY <1>2 DEF Masking, Late
<1> HIDE DEF p
<1>7. CASE seq_rec_path_masked
  <2>1. act' = [act EXCEPT !["inband"].pc = "m_launch"] /\ rcv' = rcv
    BY <1>7 DEF seq_rec_path_masked, Goto
  <2>2. /\ act'["inband"].pc = "m_launch" /\ act'["inband"].p = p
        /\ \A q \in Paths : act'[q] = act[q]
    BY <1>1, <2>1 DEF ActorStates, p
  <2>3. \A q \in Paths : snd'[q] = snd[q]
    <3>1. snd' = snd \/ snd' = [snd EXCEPT ![Post] = Sending]
      BY <1>7 DEF seq_rec_path_masked, mp_initiate_mask_signalling
    <3> QED  BY <1>1, <3>1
  <2>4. ThreadsOK'
    BY <1>2, <1>4, <1>5, <1>6, <2>1, <2>2 DEF TimeoutsOK, ThreadsOK
  <2>5. act'["inband"].pc \notin Unmasking
    BY <2>2 DEF Unmasking
  <2> QED  BY <1>2, <2>1, <2>2, <2>3, <2>4, <2>5, ActorSide
<1>8. CASE LaunchTimeout
  <2>1. /\ act' = [act EXCEPT ![p].pc = "wait", !["inband"] = Idle] /\ snd' = snd
        /\ rcv' = [rcv EXCEPT ![p].ptr = TRUE, ![p].silent = 0]
    BY <1>8 DEF LaunchTimeout, p
  <2>2. act'["inband"] = Idle /\ act'[p].pc = "wait" /\ \A q \in Paths : q # p => act'[q] = act[q]
    BY <1>1, <1>3, <2>1 DEF ActorStates
  <2>3. rcv'[p].ptr = TRUE /\ rcv'[p].silent = 0 /\ \A q \in Paths : q # p => rcv'[q] = rcv[q]
    BY <1>1, <1>3, <2>1 DEF ReceiverStates
  <2>4. act'["inband"].pc \notin Unmasking \cup Masking \cup Late \cup {"u_check", "u_set", "u_fail"}
    BY <2>2 DEF Unmasking, Masking, Late, Idle
  <2>5. ThreadsOK'
    BY <1>2, <1>4, <1>5, <1>6, <2>2, <2>3, <2>4 DEF TimeoutsOK, ThreadsOK
  <2> QED  BY <1>2, <2>1, <2>2, <2>3, <2>4, <2>5, ActorSide
<1> QED  BY <1>7, <1>8

\* The receiver takes a mask signal: it has got there, so all do.
LEMMA ReceiveMaskTimeouts ==
    ASSUME MInv, MInv', TimeoutsOK, NEW p \in Paths, mp_receive_mask_signal(p)
    PROVE  TimeoutsOK'
<1> DEFINE h == Head(wire[p][Final(p)])
<1>1. /\ act \in [Actors -> ActorStates] /\ rcv \in [Paths -> ReceiverStates]
      /\ lost \in [Paths -> 0 .. Timeout] /\ scene \in Scenes
      /\ "inband" \in Actors /\ \A q \in Paths : q \in Actors /\ q # "inband"
  BY MaskFacts, PathsAssumption
<1>2. /\ scene' = scene /\ snd' = snd /\ act["inband"].pc = "idle" /\ Taken(p)
      /\ wire[p][Final(p)] # <<>> /\ IsMaskSignal(p, Final(p)) /\ h.json.type = "mask"
  BY DEF mp_receive_mask_signal
<1>3. /\ WireOK(wire') /\ PktOK(p, Final(p), h)
      /\ \A r \in Paths : \A t : OnWire(wire', r, t) => OnWire(wire, r, t)
      /\ \A r \in Paths : \A t : OnWire(wire, r, t) => OnWire(wire', r, t) \/ (r = p /\ h.json.type = t)
  <2>1. /\ WireOK(wire') /\ PktOK(p, Final(p), h)
        /\ \A r \in Paths : \A t : OnWire(wire', r, t) => OnWire(wire, r, t)
        /\ AllBut(wire', wire, p, h)
    BY <1>1, <1>2, TakenWire DEF TimeoutsOK
  <2> QED  BY <2>1 DEF AllBut
<1>4. \A q \in Paths : q # p => lost'[q] = lost[q] /\ lost[q] >= lost[q]
  <2>1. \A q \in Paths : lost[q] >= lost[q]
    BY <1>1
  <2> QED  BY <1>1, <1>2, <2>1 DEF Taken
<1> HIDE DEF h
<1>5. Good(p)
  <2>1. h = Signal("mask") /\ \A j \in 1 .. Final(p) - 1 : Passes(p, j, h)
    BY <1>2, <1>3 DEF PktOK
  <2>2. mp_compare_level(scene.mps[p][Final(p)], h) = 0
    BY <1>2 DEF IsMaskSignal, h
  <2> QED  BY <2>1, <2>2 DEF Good
<1>6. \A q : Good(q)' <=> Good(q)
  BY <1>2, SameScene
<1>7. \/ /\ rcv[p].ptr /\ rcv' = [rcv EXCEPT ![p].msgs = @ + 1]
         /\ masked' = masked /\ act' = act
      \/ ~rcv[p].ptr /\ rcv' = rcv /\ masked' = masked /\ act' = act
      \/ /\ ~rcv[p].ptr /\ rcv' = rcv /\ masked' = masked \cup {p}
         /\ act' = [act EXCEPT !["inband"] = [pc |-> "m_write", p |-> p, val |-> paths]]
  BY DEF mp_receive_mask_signal
<1>8. /\ \A q \in Paths : act'[q] = act[q] /\ rcv'[q].ptr = rcv[q].ptr
      /\ \A q \in Paths : q # p => rcv'[q] = rcv[q]
      /\ rcv[p].ptr => rcv'[p].msgs # 0
      /\ masked \subseteq masked'
      /\ \/ act'["inband"] = act["inband"]
         \/ act'["inband"].pc = "m_write" /\ act'["inband"].p = p /\ ~rcv[p].ptr /\ p \in masked'
  BY <1>1, <1>7 DEF ReceiverStates
<1>9. act["inband"].pc \notin Late \cup Masking \cup Unmasking /\ "m_write" \notin Late \cup Unmasking
  BY <1>2 DEF Late, Masking, Unmasking
<1>10. ThreadsOK'
  <2>1. act'["inband"].pc \notin {"u_check", "u_set", "u_fail"}
    BY <1>2, <1>8
  <2>2. \A q \in Paths : /\ rcv[q].ptr <=> act[q].pc # "none"
                         /\ rcv[q].ptr => Good(q) /\ (q \in masked \/ act[q].pc \in Late)
    BY <1>9 DEF TimeoutsOK, ThreadsOK
  <2>3. \A q \in Paths : act'["inband"].pc \in Masking /\ act'["inband"].p = q => ~rcv[q].ptr /\ Good(q) /\ q \in masked'
    BY <1>5, <1>8, <1>9
  <2> QED  BY <1>6, <1>8, <2>1, <2>2, <2>3 DEF ThreadsOK
<1>11. Young'
  <2>1. act'["inband"].pc \notin Unmasking
    BY <1>8, <1>9
  <2> QED  BY <1>2, <1>3, <2>1, YoungKept DEF TimeoutsOK
<1>12. SilenceIsLoss'
  <2>1. act[p].pc = "wait" => rcv[p].ptr
    BY DEF TimeoutsOK, ThreadsOK
  <2> QED  BY <1>2, <1>3, <1>4, <1>8, <2>1, SilenceKept DEF TimeoutsOK
<1> QED  BY <1>2, <1>3, <1>10, <1>11, <1>12, SameScene DEF TimeoutsOK

\* The receiver takes an unmask signal.
LEMMA ReceiveUnmaskTimeouts ==
    ASSUME MInv, MInv', ~raced', TimeoutsOK, NEW p \in Paths, mp_receive_unmask_signal(p)
    PROVE  TimeoutsOK'
<1> DEFINE h == Head(wire[p][Final(p)])
<1>1. /\ act \in [Actors -> ActorStates] /\ rcv \in [Paths -> ReceiverStates]
      /\ lost \in [Paths -> 0 .. Timeout] /\ scene \in Scenes
      /\ "inband" \in Actors /\ \A q \in Paths : q \in Actors /\ q # "inband"
  BY MaskFacts, PathsAssumption
<1>2. /\ scene' = scene /\ snd' = snd /\ rcv' = rcv /\ masked' = masked /\ act["inband"].pc = "idle" /\ Taken(p)
      /\ wire[p][Final(p)] # <<>> /\ h.json.type = "unmask"
  BY DEF mp_receive_unmask_signal
<1>3. /\ WireOK(wire')
      /\ \A r \in Paths : \A t : OnWire(wire', r, t) => OnWire(wire, r, t)
      /\ \A r \in Paths : \A t : OnWire(wire, r, t) => OnWire(wire', r, t) \/ (r = p /\ h.json.type = t)
  <2>1. /\ WireOK(wire')
        /\ \A r \in Paths : \A t : OnWire(wire', r, t) => OnWire(wire, r, t)
        /\ AllBut(wire', wire, p, h)
    BY <1>1, <1>2, TakenWire DEF TimeoutsOK
  <2> QED  BY <2>1 DEF AllBut
<1>4. OnWire(wire, p, "unmask")
  <2>1. Final(p) \in 1 .. Final(p)
    BY <1>1, PathLength
  <2>2. wire[p][Final(p)] \in Seq(On(wire[p][Final(p)]))
    BY <2>1 DEF TimeoutsOK, WireOK
  <2>3. h \in On(wire[p][Final(p)])
    BY <1>2, <2>2, OnTail
  <2> QED  BY <1>2, <2>1, <2>3 DEF OnWire
<1>5. snd[p].age = 0
  BY <1>4 DEF TimeoutsOK, Young
<1>6. \A q \in Paths : /\ q # p => lost'[q] = lost[q] /\ lost[q] >= lost[q]
                       /\ snd[q].age = 0 /\ snd[q].age >= rcv[q].silent => rcv[q].silent <= lost'[q]
  <2>1. lost' = [lost EXCEPT ![p] = 0]
    BY <1>2 DEF Taken
  <2>2. \A q \in Paths : lost'[q] \in Nat /\ rcv[q].silent \in Nat /\ lost[q] >= lost[q]
    BY <1>1, <2>1, TimeoutAssumption DEF ReceiverStates
  <2> QED  BY <1>1, <2>1, <2>2
<1> HIDE DEF h
<1>7. \/ act' = act
      \/ /\ rcv[p].ptr /\ act' = [act EXCEPT !["inband"] = [pc |-> "u_check", p |-> p, val |-> 0]]
         /\ raced' = (raced \/ \E b \in Actors \ {"inband"} : act[b].pc \notin Resting)
  BY DEF mp_receive_unmask_signal, Enters
<1>8. /\ \A q \in Paths : act'[q] = act[q]
      /\ \/ act'["inband"] = act["inband"]
         \/ act'["inband"].pc = "u_check" /\ act'["inband"].p = p /\ rcv[p].ptr /\ act[p].pc \in Resting
  <2>1. CASE act' = act
    BY <2>1
  <2>2. CASE /\ rcv[p].ptr /\ act' = [act EXCEPT !["inband"] = [pc |-> "u_check", p |-> p, val |-> 0]]
             /\ raced' = (raced \/ \E b \in Actors \ {"inband"} : act[b].pc \notin Resting)
    <3>1. p \in Actors \ {"inband"} /\ act[p].pc \in Resting
      BY <1>1, <2>2
    <3>2. act'["inband"] = [pc |-> "u_check", p |-> p, val |-> 0] /\ \A q \in Paths : act'[q] = act[q]
      BY <1>1, <2>2
    <3> QED  BY <2>2, <3>1, <3>2
  <2> QED  BY <1>7, <2>1, <2>2
<1>9. act["inband"].pc \notin Late \cup Masking \cup Unmasking
  BY <1>2 DEF Late, Masking, Unmasking
<1>10. ThreadsOK'
  <2>1. \A q : Good(q)' <=> Good(q)
    BY <1>2, SameScene
  <2>2. \A q \in Paths : /\ rcv[q].ptr <=> act[q].pc # "none"
                         /\ rcv[q].ptr => Good(q) /\ (q \in masked \/ act[q].pc \in Late)
    BY <1>9 DEF TimeoutsOK, ThreadsOK
  <2>3. act'["inband"].pc \notin Masking \cup Late \cup {"u_set", "u_fail"}
    BY <1>2, <1>8, <1>9 DEF Masking, Late
  <2>4. ASSUME act'["inband"].pc = "u_check"
        PROVE  act'["inband"].p = p /\ p \in masked
    <3>1. act'["inband"].p = p /\ rcv[p].ptr /\ act[p].pc \in Resting
      BY <1>2, <1>8, <2>4
    <3> QED  BY <2>2, <3>1 DEF Resting, Late
  <2> QED  BY <1>2, <1>8, <2>1, <2>2, <2>3, <2>4 DEF ThreadsOK
<1>11. Young'
  BY <1>2, <1>3, <1>4, <1>5, <1>8, <1>9, YoungKept DEF TimeoutsOK
<1>12. SilenceIsLoss'
  BY <1>2, <1>3, <1>5, <1>6, <1>8, SilenceKept DEF TimeoutsOK
<1> QED  BY <1>2, <1>3, <1>10, <1>11, <1>12, SameScene DEF TimeoutsOK

\* Nothing is silent at first.
LEMMA InitTimeouts == ASSUME Init PROVE TInv
<1>1. MInv /\ scene \in Scenes
  BY InitMasking DEF Init
<1>2. wire = [p \in Paths |-> [i \in 1 .. Final(p) |-> <<>>]]
  BY DEF Init
<1>3. \A p \in Paths : \A i \in 1 .. Final(p) : wire[p][i] = <<>>
  BY <1>2
<1>4. WireOK(wire)
  BY <1>2, <1>3, OnEmpty DEF WireOK
<1>5. \A p \in Paths : ~OnWire(wire, p, "unmask")
  BY <1>3, OnEmpty DEF OnWire
<1>6. /\ \A p \in Paths : rcv[p].ptr = FALSE /\ act[p].pc = "none"
      /\ act["inband"].pc = "idle"
  <2>1. rcv = [p \in Paths |-> NoReceiver] /\ act = [a \in Actors |-> IF a = "inband" THEN Idle ELSE NoThread(a)]
    BY DEF Init
  <2> QED  BY <2>1, PathsAssumption DEF NoReceiver, Idle, NoThread
<1>7. ThreadsOK
  BY <1>6 DEF ThreadsOK, Masking
<1>8. Young /\ SilenceIsLoss
  BY <1>5, <1>6 DEF Young, SilenceIsLoss, Unmasking
<1> QED  BY <1>1, <1>4, <1>7, <1>8 DEF TInv, TimeoutsOK

\* Every step keeps the invariant.
LEMMA NextTimeouts ==
    ASSUME TInv, [Next]_vars
    PROVE  TInv'
<1>1. MInv /\ MInv'
  BY NextMasking DEF TInv
<1>2. CASE UNCHANGED vars
  <2>1. UNCHANGED <<scene, act, masked, rcv, snd, wire, lost, raced>>
    BY <1>2 DEF vars, mask_vars
  <2>2. ASSUME TimeoutsOK PROVE TimeoutsOK'
    BY <1>1, <2>1, <2>2, SenderSide DEF TimeoutsOK
  <2> QED  BY <1>1, <2>1, <2>2 DEF TInv
<1>3. CASE Next
  <2> SUFFICES ASSUME ~raced' PROVE TimeoutsOK'
    BY <1>1 DEF TInv
  <2>1. ~raced /\ TimeoutsOK
    BY <1>3 DEF Next, TInv
  <2>2. ASSUME NEW a \in Actors, Unmask(a) PROVE TimeoutsOK'
    BY <1>1, <2>1, <2>2, UnmaskTimeouts, DoneTimeouts DEF Unmask
  <2>3. ASSUME Commander \/ Receiver \/ Period PROVE TimeoutsOK'
    <3>1. "inband" \in Actors
      OBVIOUS
    <3> QED  BY <1>1, <2>1, <2>2, <2>3, <3>1, CommandTimeouts, MaskTimeouts, PeriodTimeouts DEF Receiver
  <2>4. ASSUME NEW p \in Paths, Receive(p) \/ Pass(p) \/ TimeoutThread(p) PROVE TimeoutsOK'
    <3>1. p \in Actors
      OBVIOUS
    <3> QED  BY <1>1, <2>1, <2>2, <2>4, <3>1, ReceiveMaskTimeouts, ReceiveUnmaskTimeouts, HopTimeouts,
                ThreadTimeouts DEF Receive, TimeoutThread
  <2>5. ASSUME NEW s \in Senders, Sender(s) PROVE TimeoutsOK'
    BY <1>1, <2>1, <2>5, SendTimeouts
  <2>6. ASSUME NEW p \in Paths, NEW i \in DOMAIN wire[p], Lose(p, i) PROVE TimeoutsOK'
    BY <1>1, <2>1, <2>6, LoseTimeouts
  <2> QED  BY <1>3, <2>3, <2>4, <2>5, <2>6 DEF Next
<1> QED  BY <1>2, <1>3

\* Only its own timeout makes the thread of a path unmask it.
LEMMA OnlyFires ==
    ASSUME MInv, Next, NEW p \in Paths, act[p].pc = "wait", act'[p].pc = "u_check"
    PROVE  TimeoutFires(p)
<1>1. /\ act \in [Actors -> ActorStates] /\ act[p] \in ActorStates
      /\ "inband" \in Actors /\ \A q \in Paths : q \in Actors /\ q # "inband"
      /\ act["inband"].pc \in {"idle"} \cup Unmasking \cup Masking
  BY MaskFacts, PathsAssumption DEF MInv, ActTypes
<1>2. act' # act
  OBVIOUS
<1>3. ~ (Commander \/ Period \/ (\E s \in Senders : Sender(s)))
  BY <1>2 DEF Commander, Period, Sender, send_mask_request_thread, mask_set, mask_unset,
     oam_unref_maintenance_point, Request, mp_stop_mask_signalling, mask_vars
<1>4. ASSUME NEW q \in Paths, NEW i, Hop(q, i) \/ Lose(q, i) PROVE FALSE
  BY <1>2, <1>4 DEF Hop, Lose, mask_vars
<1>5. ASSUME NEW a \in Actors, NEW c, act' = [act EXCEPT ![a].pc = c] PROVE a = p /\ c = "u_check"
  BY <1>1, <1>5 DEF ActorStates
<1>6. ASSUME NEW a \in Actors, Unmask(a) PROVE FALSE
  <2>1. act[a].pc \in Unmasking
    BY <1>6 DEF Unmask, UnmaskCheck, UnmaskSet, UnmaskWrite, StopPost, UnmaskDone, Unmasking
  <2>2. a # p
    BY <2>1 DEF Unmasking
  <2>3. CASE UnmaskDone(a)
    <3>1. act'[p] \in {NoThread(act[a].p), Idle, act[p]}
      BY <1>1, <2>3 DEF UnmaskDone
    <3> QED  BY <3>1 DEF NoThread, Idle
  <2>4. CASE UnmaskSet(a)
    <3>1. act' = [act EXCEPT ![a].pc = "u_write", ![a].val = paths]
      BY <2>4 DEF UnmaskSet
    <3> QED  BY <1>1, <2>2, <3>1
  <2>5. CASE UnmaskCheck(a) \/ UnmaskWrite(a) \/ StopPost(a)
    <3>1. \E c : act' = [act EXCEPT ![a].pc = c]
      BY <2>5 DEF UnmaskCheck, UnmaskWrite, StopPost, Goto
    <3> QED  BY <1>5, <2>2, <3>1
  <2> QED  BY <1>6, <2>3, <2>4, <2>5 DEF Unmask
<1>7. ~Receiver
  <2>1. ~seq_rec_path_masked
    <3> SUFFICES ASSUME seq_rec_path_masked PROVE FALSE
      OBVIOUS
    <3>1. act' = [act EXCEPT !["inband"].pc = "m_launch"]
      BY DEF seq_rec_path_masked, Goto
    <3> QED  BY <1>1, <1>5, <3>1
  <2>2. ~LaunchTimeout
    <3> SUFFICES ASSUME LaunchTimeout PROVE FALSE
      OBVIOUS
    <3>1. act' = [act EXCEPT ![act["inband"].p].pc = "wait", !["inband"] = Idle]
      BY DEF LaunchTimeout
    <3> QED  BY <1>1, <3>1 DEF ActorStates
  <2> QED  BY <1>1, <1>6, <2>1, <2>2 DEF Receiver
<1>8. ASSUME NEW q \in Paths, Receive(q) PROVE FALSE
  <2>1. act' = act \/ \E v : act' = [act EXCEPT !["inband"] = v]
    BY <1>8 DEF Receive, mp_receive_mask_signal, mp_receive_unmask_signal
  <2> QED  BY <1>1, <1>2, <2>1
<1>9. ASSUME NEW q \in Paths, TimeoutThread(q) PROVE TimeoutFires(p)
  <2>1. q \in Actors
    OBVIOUS
  <2>2. ~TimeoutPops(q)
    BY <1>2 DEF TimeoutPops
  <2>3. TimeoutFires(q)
    BY <1>6, <1>9, <2>1, <2>2 DEF TimeoutThread
  <2>4. act' = [act EXCEPT ![q].pc = "u_check"]
    BY <2>3 DEF TimeoutFires, Goto
  <2> QED  BY <1>5, <2>1, <2>3, <2>4
<1> QED  BY <1>3, <1>4, <1>7, <1>8, <1>9 DEF Next, Pass

(* A path whose signals are sent all the time is unmasked by its timeout   *)
(* only after all but one of the signals of MASK_TIMEOUT_MS were lost in a *)
(* row (recv_mask_timeout_thread()): however long the paths are, whatever  *)
(* else they carry, and whatever the receiver does in between.             *)
THEOREM LossesUnmask == Spec => NoSpuriousTimeout
<1> DEFINE Loss == \A p \in Paths :
             act[p].pc = "wait" /\ act'[p].pc = "u_check" /\ snd[p].th \in {"send", "wait"} /\ snd[p].age >= Timeout
               => lost[p] >= Timeout - 1
<1>1. TInv /\ [Next]_vars => [Loss]_vars
  <2> SUFFICES ASSUME TInv, Next, NEW p \in Paths, act[p].pc = "wait", act'[p].pc = "u_check",
                      snd[p].th \in {"send", "wait"}, snd[p].age >= Timeout
               PROVE  lost[p] >= Timeout - 1
    OBVIOUS
  <2>1. MInv /\ ~raced /\ SilenceIsLoss
    BY DEF TInv, Next, TimeoutsOK
  <2>2. rcv[p].msgs = 0 /\ rcv[p].silent >= Timeout
    BY <2>1, OnlyFires DEF TimeoutFires
  <2>3. rcv[p].silent \in 0 .. Timeout /\ lost[p] \in 0 .. Timeout /\ Timeout \in Nat
    BY <2>1, MaskFacts, TimeoutAssumption DEF ReceiverStates
  <2>4. rcv[p].silent = Timeout
    BY <2>2, <2>3
  <2>5. rcv[p].silent <= lost[p] + (IF snd[p].th = "send" \/ OnWire(wire, p, "mask") THEN 1 ELSE 0)
    BY <2>1, <2>2, <2>4 DEF SilenceIsLoss, Running
  <2> QED  BY <2>3, <2>4, <2>5
<1> QED  BY <1>1, InitTimeouts, NextTimeouts, PTL DEF Spec, NoSpuriousTimeout
=============================================================================
