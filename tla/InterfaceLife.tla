--------------------------- MODULE InterfaceLife ---------------------------
(***************************************************************************)
(* The life of an interface as the rest of the program may rely on it: it  *)
(* is opened at most once, shut down at most once and for good, and its    *)
(* memory goes only after that and only when no packet can be sent on it   *)
(* any more.  Lifecycle implements this with two counters that different   *)
(* threads decrement.                                                      *)
(***************************************************************************)
CONSTANT Interfaces, Senders

VARIABLES
    phase,      \* where each interface is in its life
    users       \* the pipelines that may still send on it

vars == <<phase, users>>

Init ==
    /\ phase = [i \in Interfaces |-> "init"]
    /\ users \in [Interfaces -> SUBSET Senders]

Open(i) ==
    /\ phase[i] = "init"
    /\ phase' = [phase EXCEPT ![i] = "open"]
    /\ UNCHANGED users

Shut(i) ==
    /\ phase[i] \in {"init", "open"}
    /\ phase' = [phase EXCEPT ![i] = "shutdown"]
    /\ UNCHANGED users

\* Streams are compiled before anything is opened.
Compile ==
    /\ \A i \in Interfaces : phase[i] = "init"
    /\ users' \in [Interfaces -> SUBSET Senders]
    /\ UNCHANGED phase

\* A pipeline goes; it never comes back as a user.
Retire(p) ==
    /\ \E i \in Interfaces : p \in users[i]
    /\ users' = [i \in Interfaces |-> users[i] \ {p}]
    /\ UNCHANGED phase

Destruct(i) ==
    /\ phase[i] = "shutdown"
    /\ users[i] = {}
    /\ phase' = [phase EXCEPT ![i] = "gone"]
    /\ UNCHANGED users

Next ==
    \/ Compile
    \/ \E p \in Senders : Retire(p)
    \/ \E i \in Interfaces : Open(i) \/ Shut(i) \/ Destruct(i)

Spec == Init /\ [][Next]_vars
=============================================================================
