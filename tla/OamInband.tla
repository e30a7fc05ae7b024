----------------------------- MODULE OamInband -----------------------------
(***************************************************************************)
(* In-band OAM messages (oam_message.c) and their encapsulations           *)
(* (oam_maintenance.c).  A request is a record with the fields of the JSON *)
(* object, and with ttl; what a packet carries of it depends on the        *)
(* encapsulation of the stream:                                            *)
(*   "pw"     MPLS and an associated channel header,                       *)
(*   "srv6"   two IPv6 headers and ICMPv6,                                 *)
(*   "tsn_r"  Ethernet, VLAN and R-tag,                                    *)
(*   "tsn"    Ethernet and VLAN: there is no place for session and seq.    *)
(* A maintenance point has a name, a level and a type.                     *)
(***************************************************************************)
EXTENDS Integers, Sequences, FiniteSets

Encaps == {"pw", "srv6", "tsn_r", "tsn"}
MPTypes == {"start", "mip", "stop"}
MaintenancePoints == [name : STRING, level : Nat, type : MPTypes]
RequestMsgs ==
  [type : {"ping", "rping", "rlist", "trigger"}, target : STRING, level : Nat, ttl : Nat,
   session : Nat, seq : Nat, rec : BOOLEAN, rr : Seq(STRING)]

(* A request as it is made: what its packet's headers carry, and the rest  *)
Msg(type, target, level, ttl) ==
  [type |-> type, target |-> target, level |-> level, ttl |-> ttl,
   session |-> 1, seq |-> 1, rec |-> FALSE, rr |-> <<>>]

create_mask_request(mp, type) == [Msg(type, "nexthop", mp.level, 1) EXCEPT !.session = 0, !.seq = 0]

-----------------------------------------------------------------------------
(* A packet is its headers and its JSON payload *)

HeaderKeys == {"ttl", "level", "session", "seq"}
Without(m, keys) == [k \in DOMAIN m \ keys |-> m[k]]

(* The label's TTL and the associated channel header *)
pack_pw_message_header(m) ==
  [ttl |-> m.ttl % 256, level |-> m.level % 8, session |-> m.session % 16, seq |-> m.seq % 256]

(* The hop counts and the ICMPv6 header *)
pack_srv6_message_header(m) ==
  [ttl |-> m.ttl % 256, level |-> m.level % 8, session |-> m.session % 16, seq |-> m.seq % 256]

(* The CFM header, and the R-tag if there is one *)
pack_tsn_message_header(m, rtag) ==
  IF rtag THEN [level |-> m.level % 8, session |-> m.session % 16, seq |-> m.seq % 256]
  ELSE [level |-> m.level % 8]

mp_pack_message_header(encap, m) ==
  CASE encap = "pw" -> pack_pw_message_header(m)
    [] encap = "srv6" -> pack_srv6_message_header(m)
    [] OTHER -> pack_tsn_message_header(m, encap = "tsn_r")

(* What the headers carry is left out of the payload, except in SRv6 *)
pack_pw_payload(m) == Without(m, HeaderKeys)
pack_tsn_payload(m) == Without(m, HeaderKeys)
pack_srv6_payload(m) == m

mp_pack_message_payload(encap, m) ==
  CASE encap = "pw" -> pack_pw_payload(m)
    [] encap = "srv6" -> pack_srv6_payload(m)
    [] OTHER -> pack_tsn_payload(m)

(* The fields of the headers replace those of the payload *)
Replaced(hdr, json) ==
  [k \in DOMAIN hdr \cup DOMAIN json |-> IF k \in DOMAIN hdr THEN hdr[k] ELSE json[k]]

unpack_pw_message(pkt) == Replaced(Without(pkt.hdr, {"ttl"}), pkt.json)
unpack_srv6_message(pkt) == Replaced(Without(pkt.hdr, {"ttl"}), pkt.json)
unpack_tsn_message(pkt) == Replaced(pkt.hdr, pkt.json)

mp_unpack_message(encap, pkt) ==
  CASE encap = "pw" -> unpack_pw_message(pkt)
    [] encap = "srv6" -> unpack_srv6_message(pkt)
    [] OTHER -> unpack_tsn_message(pkt)

(* send_request: the route begins with the start point *)
send_request(mp, m, encap) ==
  LET js == Without(IF m.type = "ping" /\ m.rec THEN [m EXCEPT !.rr = <<mp.name>>] ELSE m, HeaderKeys)
  IN [hdr |-> mp_pack_message_header(encap, m), json |-> mp_pack_message_payload(encap, js)]

HasTtl(encap) == encap \in {"pw", "srv6"}

(* A packet comes in: the automatic TTLREDUCE *)
TtlReduced(encap, pkt) ==
  IF HasTtl(encap) /\ pkt.hdr.ttl > 0 THEN [pkt EXCEPT !.hdr.ttl = @ - 1] ELSE pkt

(* The automatic TTLCHECK in front of the SEND *)
TtlPasses(encap, pkt) == HasTtl(encap) => pkt.hdr.ttl > 0

mp_get_ttl(encap, pkt) == IF HasTtl(encap) THEN pkt.hdr.ttl ELSE 255

mp_compare_level(mp, pkt) == pkt.hdr.level - mp.level

HasSession(m) == "session" \in DOMAIN m

-----------------------------------------------------------------------------
(* What a maintenance point of the level of the message does with it: the  *)
(* message as it goes on, if it goes on, and whether it was answered.  The *)
(* answer of a trigger is a notification, the one of an rping the pings it *)
(* asks for, and neither is done without a session.  A reply that cannot   *)
(* be sent (ok) ends a request to "any".                                   *)
RecordedTwice(mp, m) ==  \* Mutant of Recorded: the route grows again at the packing
  IF m.type = "ping" /\ m.rec THEN [m EXCEPT !.rr = @ \o <<mp.name, mp.name>>] ELSE m

Recorded(mp, m) ==
  IF m.type = "ping" /\ m.rec THEN [m EXCEPT !.rr = Append(@, mp.name)] ELSE m

process_ping_request(ok) == ok
process_rlist_request(ok) == ok
process_rping_request(m) == HasSession(m)
process_trigger_request(m) == HasSession(m)

Answered(mp, m, ttl, ok) ==
  CASE m.type = "ping" -> (ttl = 0 \/ m.target \in {"any", mp.name}) /\ process_ping_request(ok)
    [] m.type = "rping" -> ttl # 0 /\ m.target = mp.name /\ process_rping_request(m)
    [] m.type = "rlist" -> ttl # 0 /\ m.target \in {"any", mp.name} /\ process_rlist_request(ok)
    [] m.type = "trigger" -> ttl # 0 /\ m.target \in {"any", mp.name} /\ process_trigger_request(m)
    [] OTHER -> FALSE

(* Only a ping or an rlist to "any" is answered and goes on *)
GoesOn(mp, m, ttl, ok) ==
  /\ m.type \notin {"mask", "unmask"}
  /\ ttl # 0
  /\ IF m.target = "any" THEN m.type \in {"ping", "rlist"} /\ ok ELSE m.target # mp.name
  /\ mp.type # "stop"

process_inband_message(mp, m, ttl, ok) ==
  [msg |-> Recorded(mp, m),
   answered |-> Answered(mp, m, ttl, ok),
   goes_on |-> GoesOn(mp, m, ttl, ok)]

Passed(pkt, goes_on) == [pkt |-> pkt, answered |-> FALSE, goes_on |-> goes_on]

(* The payload is written again when the route has grown *)
Processed(mp, pkt, encap, ok) ==
  LET m == mp_unpack_message(encap, pkt)
      r == process_inband_message(mp, m, mp_get_ttl(encap, pkt), ok)
  IN [pkt |-> IF r.msg = m THEN pkt ELSE [pkt EXCEPT !.json = mp_pack_message_payload(encap, r.msg)],
      answered |-> r.answered, goes_on |-> r.goes_on]

(* inband_receiver_th(): a message of a lower level than the maintenance   *)
(* point's is dropped, one of a higher level passes unread                 *)
inband_receiver(mp, pkt, encap, ok) ==
  LET diff == mp_compare_level(mp, pkt) IN
  CASE diff < 0 -> Passed(pkt, FALSE)
    [] diff > 0 -> Passed(pkt, TRUE)
    [] OTHER -> Processed(mp, pkt, encap, ok)

-----------------------------------------------------------------------------
(* What a request is for: the reference that the replies are compared with *)

OfLevel(path, m) == {i \in DOMAIN path : path[i].level = m.level}

(* Points where a request ends although it still has hops to go *)
Ends(path, m) ==
  {i \in DOMAIN path : path[i].level > m.level}
  \cup {i \in OfLevel(path, m) :
          \/ path[i].type = "stop"
          \/ path[i].name = m.target
          \/ m.type \in {"mask", "unmask"}
          \/ m.target = "any" /\ m.type \in {"rping", "trigger"}}

(* The maintenance points of its level that the request gets to *)
Reached(path, m, encap) ==
  {i \in OfLevel(path, m) : /\ \A j \in Ends(path, m) : j >= i
                            /\ HasTtl(encap) => i <= m.ttl}

(* The points that should answer a ping when nothing fails *)
Repliers(path, m, encap) ==
  {i \in Reached(path, m, encap) :
     m.target \in {"any", path[i].name} \/ (HasTtl(encap) /\ i = m.ttl)}

Route(start, path, m, i) ==
  <<start>> \o [k \in 1 .. Cardinality({j \in OfLevel(path, m) : j <= i}) |->
     path[CHOOSE j \in OfLevel(path, m) : Cardinality({h \in OfLevel(path, m) : h <= j}) = k].name]
=============================================================================
