------------------------------ MODULE MCPipeline ------------------------------
(* Five stream definitions, one for each family of header stacks, and the   *)
(* stages their action lines are made of.                                   *)
EXTENDS PipelineRun

add(id, where, pos, asg) ==
  [op |-> "ADD", id |-> id, name |-> id, where |-> where, pos |-> pos, asg |-> asg]
del(h) == [op |-> "DEL", h |-> h]
op(o) == [op |-> o]
on(o, h) == [op |-> o, h |-> h]
edit(h, f, src) == [op |-> "EDIT", asg |-> <<[h |-> h, f |-> f, src |-> src]>>]
val(v) == [k |-> "const", v |-> v]
field(h, f) == [k |-> "field", h |-> h, f |-> f]
repl(obj, auto) == [op |-> "REPL", obj |-> obj, auto |-> auto]
elim(auto) == [op |-> "ELIM", auto |-> auto]
delay(offload) == [op |-> "DELAY", offload |-> offload]

Tsn == [packet |-> << <<"eth", "eth">>, <<"cvlan", "cvlan">>, <<"rtag", "rtag">> >>,
        matches |-> {<<"cvlan", "vlan">>, <<"eth", "dmac">>},
        stages |-> {on("READSEQ", "rtag"), del("rtag"), del("cvlan"), op("MIP"),
                    edit("eth", "dmac", val("a")), elim(TRUE), repl(TRUE, FALSE), op("SEND")}]

Vlan == [packet |-> << <<"eth", "eth">>, <<"cvlan", "cvlan">> >>,
         matches |-> {<<"eth", "dmac">>},
         stages |-> {op("SEQGEN"), add("rtag", "after", "cvlan", <<>>),
                     add("ttag", "before", "cvlan", <<>>), op("MEPSTART"),
                     edit("cvlan", "vid", val("b")), repl(TRUE, TRUE), delay(FALSE), op("SEND")}]

Pw == [packet |-> << <<"mpls", "mpls">>, <<"dcw", "dcw">>, <<"eth", "eth">> >>,
       matches |-> {},
       stages |-> {on("READSEQ", "dcw"), del("mpls"), del("dcw"), op("MEPSTOP"), op("MIP"),
                   edit("mpls", "label", val("c")), op("JUMP"), repl(FALSE, FALSE), op("SEND")}]

Ip == [packet |-> << <<"eth", "eth">>, <<"ipv4", "ipv4">>, <<"udp", "udp">> >>,
       matches |-> {},
       stages |-> {del("eth"), on("SETLENGTH", "udp"), on("CHECKSUM", "udp"), on("TTLREDUCE", "ipv4"),
                   op("TTLCHECK"), add("ipv6", "before", "ipv4", <<[f |-> "dst", src |-> val("d")]>>),
                   on("SETLENGTH", "ipv6"), add("mpls", "before", "ipv4", <<>>), op("SEND")}]

Srv6 == [packet |-> << <<"ipv6", "ipv6">>, <<"ipv4", "ipv4">> >>,
         matches |-> {<<"ipv6", "dst">>},
         stages |-> {on("READSEQ", "ipv6"), on("WRITESEQ", "ipv6"), del("ipv6"), op("MIP"),
                     edit("ipv6", "loc", val("e")), edit("ipv6", "src", field("ipv6", "dst")),
                     on("VERIFY", "ipv4"), op("POF"), op("DROP"), op("SEND"), op("BAD"),
                     repl(FALSE, FALSE)}]

MCLines == {Tsn, Vlan, Pw, Ip, Srv6}
=============================================================================
