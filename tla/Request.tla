------------------------------ MODULE Request ------------------------------
(***************************************************************************)
(* One command line on its way to a command: parsed by the program it was  *)
(* typed to (commands/cli/parse.go), and either run there or sent to the   *)
(* daemon (commands/http/client.go, multifilereader.go), which parses it   *)
(* again (commands/http/parse.go, commands/files/multipartfile.go).  Each  *)
(* side counts the arguments and converts the options on its own.          *)
(*                                                                         *)
(* A word is a member of a small set; what an option is converted to says  *)
(* which kind it has.                                                      *)
(***************************************************************************)
EXTENDS Naturals, Sequences, SequencesExt, FiniteSets

CONSTANTS
    Shapes,    \* commands, each a record: its argument definitions and its options
    Lines,     \* the command lines of each command: sequences of tokens
    Stdins,    \* what may be on the standard input: a sequence of words, one a line
    TreeOf     \* the file or directory at each path that occurs

VARIABLES
    shape, line, stdin,  \* what was typed, to which command
    stage,               \* "typed", "parsed", "sent", "served" or "refused"
    local,               \* the request as the client's parser made it
    httpReq,             \* what goes over the wire
    remote               \* the request as the daemon's parser made it

requestVars == <<shape, line, stdin, stage, local, httpReq, remote>>

Nothing == [none |-> TRUE]
Bad == [bad |-> TRUE]
Merge(f, k, v) == [x \in DOMAIN f \cup {k} |-> IF x = k THEN v ELSE f[x]]

Bool(b) == [kind |-> "bool", val |-> b]
Num(s) == [kind |-> "int", val |-> s]
Str(s) == [kind |-> "string", val |-> s]

-----------------------------------------------------------------------------
(* Options *)

\* The definition of an option: its names, the long one first, and its type.
DefOf(name) == CHOOSE d \in shape.opts : name \in ToSet(d.names)
Known(name) == \E d \in shape.opts : name \in ToSet(d.names)

\* Mutated: whatever is said of a flag sets it.
Converted_true(s, type) ==
    CASE type = "string" -> Str(s)
      [] type = "bool" /\ s \in {"", "true", "false"} -> Bool(TRUE)
      [] type = "int" /\ s \in {"5", "0x5"} -> Num("5")
      [] OTHER -> Bad

Converted(s, type) ==
    CASE type = "string" -> Str(s)
      [] type = "bool" /\ s \in {"", "true"} -> Bool(TRUE)
      [] type = "bool" /\ s = "false" -> Bool(FALSE)
      [] type = "int" /\ s \in {"5", "0x5"} -> Num("5")
      [] OTHER -> Bad

\* ConvertOptions; two names of one option may not both be there.
ConvertOptions(opts) ==
    LET new == [k \in DOMAIN opts |->
                  IF ~Known(k) \/ opts[k].kind = DefOf(k).type THEN opts[k]
                  ELSE IF opts[k].kind = "string" THEN Converted(opts[k].val, DefOf(k).type) ELSE Bad]
    IN  IF \/ Bad \in {new[k] : k \in DOMAIN new}
           \/ \E j, k \in DOMAIN new : j # k /\ Known(j) /\ k \in ToSet(DefOf(j).names)
        THEN Bad ELSE new

\* Option(name): the value under any of its names.
Option(opts, d) ==
    IF \E k \in DOMAIN opts : k \in ToSet(d.names)
    THEN opts[CHOOSE k \in DOMAIN opts : k \in ToSet(d.names)]
    ELSE Nothing

SetOption(opts, name, v) ==
    IF ~Known(name) THEN opts
    ELSE IF \E k \in DOMAIN opts : k \in ToSet(DefOf(name).names)
    THEN [k \in DOMAIN opts |-> IF k \in ToSet(DefOf(name).names) THEN v ELSE opts[k]]
    ELSE Merge(opts, name, v)

\* parseFlag: what a flag does with the word that may be its value.
ParseFlag(opts, name, word, must) ==
    IF name \in DOMAIN opts \/ ~Known(name) THEN [opts |-> Bad, used |-> FALSE]
    ELSE IF DefOf(name).type = "bool"
    THEN IF word = Nothing \/ ~must THEN [opts |-> Merge(opts, name, Bool(TRUE)), used |-> FALSE]
         ELSE IF word.val \in {"true", "false"}
              THEN [opts |-> Merge(opts, name, Bool(word.val = "true")), used |-> TRUE]
              ELSE [opts |-> Bad, used |-> TRUE]
    ELSE IF word = Nothing THEN [opts |-> Bad, used |-> TRUE]
         ELSE [opts |-> Merge(opts, name, word), used |-> TRUE]

\* A token is a word; "--"; or a flag, with a value behind "=" or without.
Word(s) == [t |-> "word", text |-> s, eq |-> Nothing]
Dashes == [t |-> "dashes", text |-> "--", eq |-> Nothing]
Flag(name, eq) == [t |-> "flag", text |-> name, eq |-> eq]

RECURSIVE ParseOpts(_, _, _)
\* parseOpts: options and positional words, token by token.
ParseOpts(ts, opts, words) ==
    IF opts = Bad \/ ts = <<>> THEN [opts |-> opts, words |-> words]
    ELSE LET t == Head(ts) IN
         CASE t.t = "word" -> ParseOpts(Tail(ts), opts, Append(words, t.text))
           [] t.t = "dashes" -> [opts |-> opts, words |-> words \o [i \in 1 .. Len(ts) - 1 |-> ts[i + 1].text]]
           [] t.t = "flag" ->
                LET next == IF t.eq # Nothing THEN t.eq
                            ELSE IF Len(ts) > 1 THEN Str(ts[2].text) ELSE Nothing
                    f == ParseFlag(opts, t.text, next, t.eq # Nothing)
                    rest == IF f.used /\ t.eq = Nothing /\ f.opts # Bad THEN Tail(Tail(ts)) ELSE Tail(ts)
                IN  ParseOpts(rest, f.opts, words)

-----------------------------------------------------------------------------
(* Arguments *)

Required(defs) == Cardinality({i \in 1 .. Len(defs) : defs[i].required})

\* getArgDef: the last definition stands for all that follow.
GetArgDef(i) == shape.args[IF i <= Len(shape.args) THEN i ELSE Len(shape.args)]

RECURSIVE Skipped(_, _, _)
\* Optional definitions are passed over while there are only enough inputs left
\* for the required ones.
Skipped(d, left, need) ==
    IF left <= need /\ ~GetArgDef(d).required THEN Skipped(d + 1, left, need) ELSE d

RECURSIVE Assign(_, _, _, _, _)
\* The loop of parseArgs: input i, definition d, how many are still required;
\* acc holds the words left, the string arguments and the paths of files.
Assign(i, n, d0, need0, acc) ==
    IF i > n THEN [acc EXCEPT !.next = d0]
    ELSE
    LET d == Skipped(d0, n - i + 1, need0)
        def == GetArgDef(d)
        need == IF def.required THEN need0 - 1 ELSE need0
        late == d > Len(shape.args)
        new == CASE acc.words # <<>> /\ ~def.file ->
                      [acc EXCEPT !.args = Append(@, Head(acc.words)), !.words = Tail(@)]
                 [] acc.words # <<>> /\ def.file ->
                      [acc EXCEPT !.files = @ \cup {Head(acc.words)}, !.words = Tail(@)]
                 [] acc.words = <<>> /\ acc.stdin /\ def.stdin /\ ~late /\ (def.file => def.required) ->
                      [acc EXCEPT !.files = @ \cup {"stdin"}, !.stdin = FALSE]
                 [] OTHER -> acc
    IN  Assign(i + 1, n, d + 1, need, new)

\* appendFile: there is nothing at the path, or a directory that may not be added.
Refuses(path, recursive) ==
    \/ path \notin DOMAIN TreeOf
    \/ TreeOf[path].dir /\ ~(recursive /\ \E i \in 1 .. Len(shape.args) : shape.args[i].recursive)

\* parseArgs; inputs that are more than the definitions are no command.  Without
\* a standard input, nothing is counted or read for it.
ParseArgs(words, recursive, piped) ==
    LET defs == shape.args
        usesStdin == defs # <<>> /\ Last(defs).stdin /\ piped
        n == Len(words) + (IF usesStdin THEN 1 ELSE 0)
        all == Assign(1, n, 1, Required(defs), [words |-> words, args |-> <<>>, files |-> {}, stdin |-> piped, next |-> 0])
    IN  IF (defs = <<>> \/ ~Last(defs).variadic) /\ Len(words) > Len(defs) THEN Bad
        ELSE IF \E i \in all.next .. Len(defs) : i > 0 /\ defs[i].required THEN Bad
        ELSE IF \E p \in all.files : Refuses(p, recursive) THEN Bad
        ELSE [args |-> all.args, files |-> all.files]

\* CheckArguments: every required string argument has a value, or will be read.
CheckArguments(args) ==
    LET defs == shape.args
        Step(a, i) ==
            IF defs[i].file \/ (Len(args) - a.index <= Required(defs) /\ ~defs[i].required) THEN a
            ELSE IF a.index < Len(args) THEN [a EXCEPT !.index = @ + 1]
            ELSE [a EXCEPT !.ok = /\ @
                                  /\ defs[i].required =>
                                       defs[i].stdin /\ (defs[i].variadic \/ i = Len(defs))]
    IN  FoldLeft(Step, [index |-> 0, ok |-> TRUE], [i \in 1 .. Len(defs) |-> i]).ok

\* Arguments(): the lines of the first file where words are missing.
Arguments(req, files) ==
    LET defs == shape.args
        vars == /\ defs # <<>> /\ Last(defs).stdin /\ ~Last(defs).file
                /\ Last(defs).required \/ Last(defs).variadic
                /\ Len(req.args) < Len(defs)
    IN  IF vars /\ files # <<>>
        THEN req.args \o (IF Head(files).lines = <<>> THEN <<"">> ELSE Head(files).lines)
        ELSE req.args

-----------------------------------------------------------------------------
(* Files *)

\* A file, or a directory with its entries in order; "." begins a hidden name.
RECURSIVE ListFiles(_, _)
\* The names a command meets that descends into the directories itself.
ListFiles(trees, hidden) ==
    FlattenSeq([i \in 1 .. Len(trees) |->
        LET t == trees[i]
            kids == SelectSeq(t.kids, LAMBDA k : hidden \/ ~k.hidden)
        IN  <<[name |-> t.name, dir |-> t.dir, lines |-> t.lines]>> \o ListFiles(kids, hidden)])

Files(req) ==
    [i \in 1 .. Cardinality(req.files) |->
        LET p == SetToSortSeq(req.files, LAMBDA a, b : TreeOf[a].rank < TreeOf[b].rank)[i]
        IN  IF p = "stdin" THEN [TreeOf[p] EXCEPT !.lines = stdin] ELSE TreeOf[p]]

RECURSIVE Parts(_, _)
\* MultiFileReader: the next part comes from the directory that was met last.
Parts(stack, hidden) ==
    IF stack = <<>> THEN <<>>
    ELSE LET open == Last(stack)
             below == Front(stack)
         IN  IF open = <<>> THEN Parts(below, hidden)
             ELSE LET t == Head(open)
                      rest == Append(below, Tail(open))
                  IN  IF t.hidden /\ ~hidden /\ below # <<>> THEN Parts(rest, hidden)
                      ELSE <<[name |-> t.name, dir |-> t.dir, lines |-> t.lines]>>
                           \o Parts(IF t.dir THEN Append(rest, t.kids) ELSE rest, hidden)

-----------------------------------------------------------------------------
(* The two parsers and the wire between them *)

Flagged(opts, name) == Option(opts, DefOf(name)) = Bool(TRUE)

RequestInit ==
    /\ \E s \in Shapes : shape = s /\ line \in Lines[s.name]
    /\ stdin \in Stdins
    /\ stage = "typed" /\ local = Nothing /\ httpReq = Nothing /\ remote = Nothing

\* Flags of two commands that make them leave the standard input alone.
LeavesStdin(opts) ==
    \/ shape.name = "bootstrap add" /\ Flagged(opts, "default")
    \/ shape.name = "bootstrap rm" /\ Flagged(opts, "all")

\* cli.Parse
Parse ==
    /\ stage = "typed"
    /\ LET p == ParseOpts(line, [k \in {} |-> Nothing], <<>>)
           opts == IF p.opts = Bad THEN Bad ELSE ConvertOptions(p.opts)
           got == IF opts = Bad THEN Bad ELSE ParseArgs(p.words, Flagged(opts, "r"), ~LeavesStdin(opts))
       IN  IF opts = Bad \/ got = Bad \/ ~CheckArguments(got.args)
           THEN stage' = "refused" /\ UNCHANGED local
           ELSE stage' = "parsed" /\ local' = [opts |-> opts, args |-> got.args, files |-> got.files]
    /\ UNCHANGED <<shape, line, stdin, httpReq, remote>>

Formatted(v) == IF v.kind # "bool" THEN v.val ELSE IF v.val THEN "true" ELSE "false"

\* Send: the encoding becomes JSON, "api" stays behind, all values become text.
SendParsed ==
    /\ stage = "parsed"
    /\ LET opts == SetOption(SetOption(local.opts, "enc", Str("json")), "stream-channels", Str("true"))
       IN  httpReq' = [opts |-> [k \in DOMAIN opts \ {"api"} |-> Formatted(opts[k])],
                       args |-> local.args,
                       parts |-> Parts(<<Files(local)>>, Flagged(local.opts, "hidden"))]
    /\ stage' = "sent"
    /\ UNCHANGED <<shape, line, stdin, local, remote>>

\* The daemon puts the arguments into place once more; a place that was skipped
\* stays empty.
Placed(args) ==
    LET defs == shape.args
        Step(a, i) ==
            IF a.stop \/ (Len(args) - a.taken - a.index <= a.need /\ ~defs[i].required) THEN a
            ELSE LET b == [a EXCEPT !.need = IF defs[i].required THEN @ - 1 ELSE @]
                 IN  CASE defs[i].file -> b
                       [] ~defs[i].file /\ defs[i].variadic ->
                            [b EXCEPT !.out = SubSeq(@, 1, b.index) \o b.left \o
                                              SubSeq(@, b.index + Len(b.left) + 1, Len(@)),
                                      !.index = @ + Len(b.left), !.taken = @ + Len(b.left)]
                       [] ~defs[i].file /\ ~defs[i].variadic /\ b.left # <<>> ->
                            [b EXCEPT !.out[b.index + 1] = Head(b.left), !.left = Tail(@), !.index = @ + 1]
                       [] OTHER -> [b EXCEPT !.stop = TRUE]
    IN  FoldLeft(Step, [left |-> args, out |-> [i \in 1 .. Len(args) |-> ""], index |-> 0, taken |-> 0,
                        need |-> Required(defs), stop |-> FALSE],
                 [i \in 1 .. Len(defs) |-> i]).out

\* http.Parse
ParseServed ==
    /\ stage = "sent"
    /\ LET opts == ConvertOptions([k \in DOMAIN httpReq.opts |-> Str(httpReq.opts[k])])
           args == Placed(httpReq.args)
           needsFile == \E i \in 1 .. Len(shape.args) : shape.args[i].file /\ shape.args[i].required
       IN  IF opts = Bad \/ (needsFile /\ httpReq.parts = <<>>) \/ ~CheckArguments(args)
           THEN stage' = "refused" /\ UNCHANGED remote
           ELSE stage' = "served" /\ remote' = [opts |-> opts, args |-> args, parts |-> httpReq.parts]
    /\ UNCHANGED <<shape, line, stdin, local, httpReq>>

RequestNext == Parse \/ SendParsed \/ ParseServed

RequestSpec == RequestInit /\ [][RequestNext]_requestVars

-----------------------------------------------------------------------------

\* A command that the daemon runs is given what it would be given if it ran in
\* the program the line was typed to: the same arguments, words from standard
\* input included, the same options but for the encoding, and the same files
\* and directories under the same names; and the daemon refuses no line that
\* the program takes (cli/parse.go and http/parse.go, which count and convert
\* each in its own way).
SameRequest ==
    /\ local # Nothing => stage # "refused"
    /\ stage = "served" =>
         LET here == ListFiles(Files(local), Flagged(local.opts, "hidden"))
         IN  /\ here = remote.parts
             /\ Arguments(local, here) = Arguments(remote, remote.parts)
             /\ \A d \in shape.opts :
                  ToSet(d.names) \cap {"enc", "api", "stream-channels"} = {} =>
                    Option(local.opts, d) = Option(remote.opts, d)
=============================================================================
