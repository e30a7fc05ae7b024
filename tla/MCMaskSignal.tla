---------------------------- MODULE MCMaskSignal ----------------------------
(* Two paths of up to three maintenance points. *)
EXTENDS MaskSignal

MP(name, level, type) == [name |-> name, level |-> level, type |-> type]
MCStart == MP("post", 3, "mip")

(* The paths of the mask signals: behind a node of a lower level, or direct *)
MaskPaths == [p1 |-> <<MP("low", 2, "mip"), MP("pre1", 3, "mip")>>,
              p2 |-> <<MP("pre2", 3, "mip")>>]

(* The paths of the requests: points of the level, one of a lower level,   *)
(* the end of the level, and a point behind a higher level                 *)
PingPaths == [p1 |-> <<MP("a", 3, "mip"), MP("b", 2, "mip"), MP("c", 3, "stop"), MP("d", 3, "mip")>>,
              p2 |-> <<MP("a", 3, "mip"), MP("h", 4, "mip"), MP("e", 3, "mip")>>]

MCRequests == {m \in
  {[Msg(type, target, 3, ttl) EXCEPT !.rec = rec] :
     type \in {"ping", "rping", "rlist", "trigger"}, target \in {"any", "a", "c", "e"},
     ttl \in {0, 1, 2, 9}, rec \in BOOLEAN} : m.rec => m.type = "ping"}

MaskScene(encap, admin, commands, requests, loses) ==
  [encap |-> encap, mps |-> MaskPaths, admin |-> admin, commands |-> commands,
   requests |-> requests, loses |-> loses, fails |-> FALSE]
PingScene(encap) ==
  [encap |-> encap, mps |-> PingPaths, admin |-> 2, commands |-> 0,
   requests |-> 1, loses |-> TRUE, fails |-> TRUE]
MCScenes ==
  {MaskScene("tsn_r", 2, 3, 0, FALSE), MaskScene("tsn_r", 2, 2, 0, TRUE),
   MaskScene("tsn_r", 1, 3, 0, FALSE), MaskScene("tsn_r", 0, 1, 0, FALSE),
   MaskScene("pw", 2, 1, 0, FALSE)}
  \cup {PingScene(encap) : encap \in Encaps}
==============================================================================
