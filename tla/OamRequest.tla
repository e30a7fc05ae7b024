----------------------------- MODULE OamRequest -----------------------------
(***************************************************************************)
(* The requests of the OAM module (oam_request.c): how a command of the    *)
(* telnet interface, of the configuration or of an rping message becomes a *)
(* request or an error.  A command is a record:                            *)
(*   at     what stands behind "@": nothing, the name of a return          *)
(*          interface, an address, or neither of them;                     *)
(*   args   whether the fixed arguments could be read;                     *)
(*   start  whether the start point exists and can send;                   *)
(*   related  whether it is on the stream that carried the rping;          *)
(*   opts   the options in their order, each with its argument.            *)
(* Names, levels and addresses that only travel in the message are left    *)
(* out.                                                                    *)
(***************************************************************************)
EXTENDS Integers, Sequences, SequencesExt

CONSTANT ReturnIfs  \* types of the configured return interfaces: SUBSET {"oam", "oam_eth"}

Starts == {"unknown", "mute", "sender"}
ReturnArgs == {"", "oam", "oam_eth", "ip", "mac", "junk"}

(* An option and its argument: a number, "inf" (which -i would read as a   *)
(* floating point number, too, and is left out there), or junk             *)
Option == {o \in [c : {"r", "b", "i", "n", "t", "x"}, arg : {"1", "2", "inf", "bad"}] :
             o.arg = "inf" => o.c = "n"}

(* count 0 means that the request is repeated for ever *)
new_oam_request(type) ==
  [type |-> type, error |-> FALSE, count |-> 1, interval |-> 1,
   background |-> FALSE, rr |-> FALSE, ret |-> "", originator |-> FALSE]

Error(req) == [req EXCEPT !.error = TRUE]

(* The default return interface is the one for IP, if there is any *)
parse_returnif(req, at) ==
  LET default == IF "oam" \in ReturnIfs THEN "oam" ELSE "oam_eth"
      iface == IF at = "" THEN default ELSE at
  IN CASE iface \in ReturnIfs -> [req EXCEPT !.ret = IF iface = "oam" THEN "ip" ELSE "mac"]
       [] iface \in {"ip", "mac"} -> [req EXCEPT !.ret = iface]
       [] OTHER -> Error(req)

Number(arg) == CASE arg = "1" -> 1 [] arg = "2" -> 2 [] arg = "inf" -> 0

ParseOption(req, o, allow_num, letters) ==
  CASE req.error -> req
    [] o.c \notin letters -> Error(req)
    [] o.c = "r" -> [req EXCEPT !.rr = TRUE]
    [] o.c = "b" -> [req EXCEPT !.background = TRUE]
    [] o.c = "n" /\ ~allow_num -> Error(req)
    [] o.arg = "bad" -> Error(req)
    [] o.c = "n" -> [req EXCEPT !.count = Number(o.arg)]
    [] o.c = "i" -> [req EXCEPT !.interval = Number(o.arg)]
    [] OTHER -> req

parse_ping_options(req, opts, allow_num) ==
  FoldLeft(LAMBDA r, o : ParseOption(r, o, allow_num, {"r", "b", "i", "n", "t"}), req, opts)

parse_trigger_options(req, opts, allow_num) ==
  FoldLeft(LAMBDA r, o : ParseOption(r, o, allow_num, {"i", "n", "t"}), req, opts)

(* A start point that was found is referenced by the request *)
StartOK(cmd) == cmd.args /\ cmd.start = "sender"

BackgroundCount(req) == [req EXCEPT !.count = IF req.background THEN 0 ELSE @]

parse_ping_command(cmd, allow_returniface, allow_num) ==
  LET req == new_oam_request("ping")
      addressed == parse_returnif(req, cmd.at)
  IN CASE cmd.at # "" /\ ~allow_returniface -> Error(req)
       [] ~StartOK(cmd) -> Error(req)
       [] addressed.error -> addressed
       [] OTHER -> BackgroundCount(parse_ping_options(addressed, cmd.opts, allow_num))

(* The rest of an rping command is sent to the remote node unread *)
parse_rping_command(cmd) ==
  LET req == new_oam_request("rping")
  IN IF ~StartOK(cmd) THEN Error(req) ELSE parse_returnif(req, cmd.at)

parse_rlist_command(cmd) ==
  LET req == new_oam_request("rlist")
  IN IF ~StartOK(cmd) THEN Error(req)
     ELSE LET addressed == parse_returnif(req, cmd.at)
          IN IF cmd.opts # <<>> THEN Error(addressed) ELSE addressed

parse_trigger_command(cmd) ==
  LET req == new_oam_request("trigger")
  IN IF cmd.at # "" \/ ~StartOK(cmd) THEN Error(req)
     ELSE parse_trigger_options(req, cmd.opts, TRUE)

(* The requests of the telnet commands *)
parse_command(type, cmd) ==
  CASE type = "ping" -> parse_ping_command(cmd, TRUE, TRUE)
    [] type = "rping" -> parse_rping_command(cmd)
    [] type = "rlist" -> parse_rlist_command(cmd)
    [] type = "notif_trigger" -> parse_trigger_command(cmd)

(* The request of a background line of the configuration; a ping there     *)
(* takes no count, and never ends                                          *)
RequestOfBackground(cmd) ==
  LET req == parse_ping_command(cmd, TRUE, FALSE)
  IN [req EXCEPT !.background = TRUE, !.count = 0]

(* The ping that an rping message asks for: no return interface of its own *)
(* and no infinite count, on a related stream                              *)
RequestOfRping(cmd) ==
  LET req == parse_ping_command(cmd, FALSE, TRUE)
  IN IF req.error \/ ~cmd.related \/ req.count = 0 THEN Error(req) ELSE [req EXCEPT !.originator = TRUE]
=============================================================================
