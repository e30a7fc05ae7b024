---------------------------- MODULE MCLifecycle ----------------------------
(***************************************************************************)
(* Small configurations of Lifecycle: a stream with a delay, a stream that *)
(* two interfaces receive, a replication, a chain over an internal         *)
(* interface, a startup that may fail, and a stream that is sent back on   *)
(* the interface it came from.                                             *)
(***************************************************************************)
EXTENDS Lifecycle

MCIfaces == {"a", "b", "c"}
MCPipes == {"p", "q", "r"}
MCObjects == {"o"}

send(i) == [op |-> "send", to |-> <<i>>]
hold == [op |-> "hold", to |-> <<>>]
repl(b) == [op |-> "repl", to |-> b]

Streams(a, b) == [i \in MCIfaces |-> CASE i = "a" -> a [] i = "b" -> b [] OTHER -> <<>>]
Acts(p, q, r) == [x \in MCPipes |-> CASE x = "p" -> p [] x = "q" -> q [] OTHER -> r]
Uses(p) == [x \in MCPipes |-> IF x = p THEN MCObjects ELSE {}]

Plain ==
    [ifs |-> {"a", "b"}, internal |-> {}, rx |-> {"a", "b"}, mayFail |-> FALSE,
     packets |-> 2, streams |-> Streams(<<"p">>, <<>>), uses |-> Uses("p"),
     acts |-> Acts(<<send("b")>>, <<>>, <<>>)]

Delayed == [Plain EXCEPT !.acts = Acts(<<hold, send("b")>>, <<>>, <<>>)]

Merged ==
    [Plain EXCEPT !.ifs = MCIfaces, !.streams = Streams(<<"p">>, <<"p">>),
                  !.acts = Acts(<<send("c")>>, <<>>, <<>>)]

Replicated ==
    [Plain EXCEPT !.ifs = MCIfaces, !.rx = {"a"}, !.packets = 1, !.uses = Uses("q"),
                  !.acts = Acts(<<repl(<<"q", "r">>)>>, <<send("b")>>, <<send("c")>>)]

Chained ==
    [Plain EXCEPT !.ifs = MCIfaces, !.internal = {"b"}, !.rx = {"a"},
                  !.streams = Streams(<<"p">>, <<"q">>),
                  !.acts = Acts(<<send("b")>>, <<send("c")>>, <<>>)]

Failing ==
    [Plain EXCEPT !.streams = Streams(<<"p">>, <<"q">>),
                  !.acts = Acts(<<send("b")>>, <<send("a")>>, <<>>),
                  !.packets = 1, !.mayFail = TRUE]

Reflected == [Plain EXCEPT !.acts = Acts(<<send("a")>>, <<>>, <<>>)]

MCScenes == {Plain, Delayed, Merged, Replicated, Chained, Failing, Reflected}
MCReflected == {Reflected}
=============================================================================
