------------------------------ MODULE MCOamNode ------------------------------
(* The OAM requests of one node with two connections and a table of two sessions. *)
EXTENDS OamNode, TLC

CONSTANTS c1, c2, r1, r2, r3

Cmd(start, at, opts) == [args |-> TRUE, start |-> start, at |-> at, opts |-> opts, related |-> TRUE]
Opt(c, arg) == [c |-> c, arg |-> arg]

(* One single ping, one of two packets, an endless one, a background one   *)
(* with a count that -b overrides, a slow one, and commands with errors    *)
AllCommands == {
  [type |-> "ping", cmd |-> Cmd("sender", "", <<>>)],
  [type |-> "ping", cmd |-> Cmd("sender", "", <<Opt("n", "2")>>)],
  [type |-> "ping", cmd |-> Cmd("sender", "", <<Opt("n", "inf"), Opt("i", "2")>>)],
  [type |-> "ping", cmd |-> Cmd("sender", "", <<Opt("b", "1"), Opt("n", "2")>>)],
  [type |-> "ping", cmd |-> Cmd("mute", "", <<>>)],
  [type |-> "ping", cmd |-> Cmd("sender", "junk", <<Opt("x", "1")>>)],
  [type |-> "rlist", cmd |-> Cmd("sender", "oam", <<>>)],
  [type |-> "rping", cmd |-> Cmd("sender", "ip", <<>>)],
  [type |-> "notif_trigger", cmd |-> Cmd("sender", "", <<Opt("n", "inf")>>)]}

Scene(conns, reqs, with) == [conns |-> conns, reqs |-> reqs, with |-> with]
AllScenes == {
  Scene(1, 3, {}),                                 \* sessions are stolen
  Scene(1, 2, {"rping", "background", "failure"}),
  Scene(2, 1, {"reply"}),                          \* one connection stops what the other began
  Scene(2, 1, {"finish"}),
  Scene(1, 1, {"finish", "reply"}),
  Scene(1, 1, {"finish", "rping"})}

Symmetry == Permutations({c1, c2}) \cup Permutations({r1, r2, r3})
==============================================================================
