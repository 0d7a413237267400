------------------------------ MODULE MCParts ------------------------------
(* Parts that share nothing, checked side by side: one file or one directory *)
(* of the trees a node keeps (FileDag, Hamt), one command line on its way to *)
(* the daemon (Request), and one answer on its way back (Reply).             *)
EXTENDS FileDagFuse, Hamt, Request, Reply, TLC

VARIABLE part  \* which of them a behaviour is about

trees == <<vars, dirVars>>
rest == <<requestVars, replyVars, part>>

\* The parts a behaviour is not about stay in one of their initial states.
PartsInit ==
    /\ part \in {"file", "dir", "request", "reply"}
    /\ part = "request" \/ (line = <<>> /\ stdin = <<>> /\ shape = CHOOSE s \in Shapes : s.args = <<>>)
    /\ part = "reply" \/ (kind = "value" /\ want = 1 /\ task = "running")
    /\ Init /\ DirInit /\ RequestInit /\ ReplyInit
    /\ part # "dir" => ~flag
    /\ part # "file" => node = BalancedLayout(<<>>)

PartsNext ==
    \/ part = "file" /\ Next /\ UNCHANGED <<dirVars, rest>>
    \/ part = "dir" /\ DirNext /\ UNCHANGED <<vars, rest>>
    \/ part = "request" /\ RequestNext /\ UNCHANGED <<trees, replyVars, part>>
    \/ part = "reply" /\ ReplyNext /\ UNCHANGED <<trees, requestVars, part>>

PartsSpec == PartsInit /\ [][PartsNext]_<<trees, rest>>

\* The calls of a mount instead of those of a command.
MountNext == part = "file" /\ FuseNext /\ UNCHANGED <<dirVars, rest>>
MountSpec == PartsInit /\ [][MountNext]_<<trees, rest>>

MCNone == {}
MCInline == {"inline"}
MCEnd == {"end"}
MCAmounts == {1, 3}
MCHash == "a" :> <<0, 0, 0>> @@ "b" :> <<0, 0, 1>> @@ "c" :> <<0, 1, 0>> @@ "d" :> <<1, 0, 0>>

Arg(file, required, variadic, in) ==
    [file |-> file, required |-> required, variadic |-> variadic, stdin |-> in, recursive |-> file /\ in]
Opts == {[names |-> <<"quiet", "q">>, type |-> "bool"], [names |-> <<"num", "n">>, type |-> "int"],
         [names |-> <<"recursive", "r">>, type |-> "bool"], [names |-> <<"hidden">>, type |-> "bool"],
         [names |-> <<"encoding", "enc">>, type |-> "string"], [names |-> <<"api">>, type |-> "string"],
         [names |-> <<"stream-channels">>, type |-> "bool"]}
Default == [names |-> <<"default">>, type |-> "bool"]
Shape(name, args) == [name |-> name, args |-> args, opts |-> Opts]
MCShapes == {
    Shape("cat", <<Arg(FALSE, TRUE, FALSE, TRUE)>>),
    Shape("config", <<Arg(FALSE, TRUE, FALSE, FALSE), Arg(FALSE, FALSE, FALSE, FALSE)>>),
    Shape("write", <<Arg(FALSE, TRUE, FALSE, FALSE), Arg(TRUE, TRUE, FALSE, TRUE)>>),
    Shape("add", <<Arg(TRUE, TRUE, FALSE, TRUE)>>),
    Shape("connect", <<Arg(FALSE, TRUE, TRUE, TRUE)>>),
    [Shape("bootstrap add", <<Arg(FALSE, FALSE, TRUE, TRUE)>>) EXCEPT !.opts = @ \cup {Default}],
    Shape("block put", <<Arg(TRUE, TRUE, FALSE, TRUE), Arg(FALSE, FALSE, FALSE, FALSE)>>),
    Shape("pub", <<Arg(FALSE, TRUE, FALSE, FALSE), Arg(FALSE, TRUE, TRUE, TRUE)>>),
    Shape("dht put", <<Arg(FALSE, TRUE, FALSE, FALSE), Arg(FALSE, TRUE, FALSE, TRUE)>>),
    Shape("dag put", <<Arg(TRUE, TRUE, TRUE, TRUE)>>),
    Shape("dial", <<Arg(FALSE, TRUE, FALSE, FALSE), Arg(FALSE, TRUE, FALSE, FALSE), Arg(FALSE, FALSE, FALSE, FALSE)>>),
    Shape("version", <<>>)}
PlainFile(n, h, lines) == [name |-> n, dir |-> FALSE, hidden |-> h, kids |-> <<>>, lines |-> lines, rank |-> 0]
Folder(n, kids) == [name |-> n, dir |-> TRUE, hidden |-> FALSE, kids |-> kids, lines |-> <<>>, rank |-> 0]
MCTreeOf == [p \in {"x", "5", "d", "stdin"} |->
    CASE p = "x" -> [PlainFile("x", FALSE, <<"x">>) EXCEPT !.rank = 3]
      [] p = "5" -> [PlainFile("5", TRUE, <<>>) EXCEPT !.rank = 1]
      [] p = "d" -> [Folder("d", <<PlainFile("d/.h", TRUE, <<>>), Folder("d/e", <<PlainFile("d/e/x", FALSE, <<>>)>>), Folder("d/f", <<>>), PlainFile("d/g", FALSE, <<>>)>>) EXCEPT !.rank = 2]
      [] p = "stdin" -> [PlainFile("stdin", FALSE, <<>>) EXCEPT !.rank = 4]]
Tokens == {Word("x"), Word("5"), Word("d"), Dashes, Flag("q", Nothing), Flag("quiet", Str("false")), Flag("r", Nothing),
           Flag("num", Nothing), Flag("n", Str("0x5")), Flag("hidden", Nothing), Flag("enc", Str("x")), Flag("api", Nothing)}
MCLines == [n \in {s.name : s \in MCShapes} |->
    LET more == IF n = "bootstrap add" THEN {Flag("default", Nothing), Flag("default", Str("false"))} ELSE {}
    IN  UNION {[1 .. k -> Tokens \cup more] : k \in 0 .. 3}]
MCStdins == {<<>>, <<"x", "y">>}
=============================================================================
