------------------------------- MODULE Reply -------------------------------
(***************************************************************************)
(* The answer of a command that the daemon runs, on its way back: the      *)
(* command's goroutine, the handler that copies what it puts out to the    *)
(* connection (commands/http/handler.go, channelmarshaler.go, response.go),*)
(* and the client, whose goroutine decodes it for a reader                 *)
(* (commands/http/client.go).                                              *)
(***************************************************************************)
EXTENDS Naturals, Sequences

CONSTANT Outputs  \* bound: values a command puts out

ASSUME ReplyAssumption == Outputs \in Nat

VARIABLES
    kind,    \* the output: one "value", a "chan" of values, or a "stream" of bytes
    want,    \* how many values a complete answer has
    task,     \* the command: "running", "ended", "copied", or "panicked"; "refused" if it never ran
    made,    \* values it has put out
    taskErr,  \* res.Error of the daemon's response
    context, \* of the request in the daemon: "open", "late" when its time is over, "shut" when
             \* the node stops, or "gone" with the connection
    wire,    \* what has been sent and not been read; it ends with how the body ended
    stopped, \* the client's context is done
    held,    \* a value the decoding goroutine has and the reader has not, or 0
    taken,     \* values the reader has
    err,     \* res.Error of the client's response
    end      \* the reader: "reading", "closed", "ok" or "failed"

replyVars == <<kind, want, task, made, taskErr, context, wire, stopped, held, taken, err, end>>

BodyOpen == wire = <<>> \/ wire[Len(wire)] \notin {"eof", "error", "text", "lost"}

ReplyInit ==
    /\ kind \in {"value", "chan", "stream"}
    /\ want \in IF kind = "value" THEN {1} ELSE 0 .. Outputs
    /\ task \in {"running", "refused"}
    /\ made = 0 /\ taskErr = FALSE /\ context = "open" /\ stopped = FALSE
    /\ wire = IF task = "refused" THEN <<"text">> ELSE <<>>
    /\ held = 0 /\ taken = 0 /\ err = FALSE /\ end = "reading"

client == <<held, taken, err, end>>

\* The handler copies a value to the connection as soon as it is put out, and
\* flushes it; once the client is gone nothing arrives.
Yield ==
    /\ task = "running" /\ made < want
    /\ made' = made + 1
    /\ wire' = IF BodyOpen THEN Append(wire, "value") ELSE wire
    /\ UNCHANGED <<kind, want, task, taskErr, context, stopped, client>>

\* The command ends: with all its values out, with an error, or because its
\* context is done, which some commands do not call an error.
Ends ==
    /\ task = "running" /\ task' = "ended"
    /\ \/ made = want /\ taskErr' = FALSE
       \/ taskErr' = TRUE
       \/ context # "open" /\ taskErr' = FALSE
    /\ UNCHANGED <<kind, want, made, context, wire, stopped, client>>

\* Mutated: the error of a stream is not put in the trailer.
Copied_untold ==
    /\ task = "ended" /\ task' = "copied"
    /\ wire' = IF BodyOpen THEN Append(wire, "eof") ELSE wire
    /\ UNCHANGED <<kind, want, made, taskErr, context, stopped, client>>

\* ChannelMarshaler.Read ends with the error of the response, which FlushCopy
\* hands on to the trailer; a single value gives way to it.
Copied ==
    /\ task = "ended" /\ task' = "copied"
    /\ wire' = IF BodyOpen THEN Append(wire, IF taskErr THEN "error" ELSE "eof") ELSE wire
    /\ UNCHANGED <<kind, want, made, taskErr, context, stopped, client>>

\* A panic of the command's Run, or of the marshaller that the handler runs for
\* a value: ServeHTTP recovers and returns, and the body ends as if all were well,
\* without a trailer. The command may have set its error by then.
Panics ==
    /\ task = "running" /\ task' = "panicked" /\ taskErr' \in BOOLEAN
    /\ wire' = IF BodyOpen THEN Append(wire, "eof") ELSE wire
    /\ UNCHANGED <<kind, want, made, context, stopped, client>>

\* The connection breaks: a part of what is on it is lost, and the daemon's
\* context is done, if it was not.
Breaks ==
    /\ context' = IF context = "open" THEN "gone" ELSE context
    /\ \E n \in 0 .. Len(wire) : wire' = IF BodyOpen THEN Append(SubSeq(wire, 1, n), "lost") ELSE wire
    /\ UNCHANGED <<kind, want, task, made, taskErr, stopped, client>>

\* The option timeout runs out in the daemon, or its node stops, and the commands
\* see their context done.
ContextEnds ==
    /\ context = "open" /\ context' \in {"late", "shut"}
    /\ UNCHANGED <<kind, want, task, made, taskErr, wire, stopped, client>>

\* The client's context is done, by that option or by an interrupt.
ClientStops ==
    /\ ~stopped /\ stopped' = TRUE
    /\ UNCHANGED <<kind, want, task, made, taskErr, context, wire, client>>

\* Decode: a value, or the end of the body; anything but a plain end is an error.
\* The text of a refusal is not JSON and is given to the reader as it is.
Decode ==
    /\ end = "reading" /\ held = 0 /\ wire # <<>>
    /\ wire' = Tail(wire)
    /\ CASE Head(wire) = "value" -> held' = 1 /\ UNCHANGED <<end, err>>
         [] Head(wire) \in {"eof", "text"} -> end' = "closed" /\ UNCHANGED <<held, err>>
         [] OTHER -> end' = "closed" /\ err' = TRUE /\ UNCHANGED held
    /\ UNCHANGED <<kind, want, task, made, taskErr, context, stopped, taken>>

\* A read on a connection that the client's context has closed.
ReadFails ==
    /\ stopped /\ end = "reading" /\ held = 0
    /\ end' = "closed" /\ err' = TRUE
    /\ UNCHANGED <<kind, want, task, made, taskErr, context, wire, stopped, held, taken>>

Take ==
    /\ held = 1 /\ held' = 0 /\ taken' = taken + 1
    /\ UNCHANGED <<kind, want, task, made, taskErr, context, wire, stopped, err, end>>

\* readStreamedJson leaves, without an error, where it would hand on a value.
GivesUp ==
    /\ stopped /\ kind = "chan" /\ held = 1
    /\ held' = 0 /\ end' = "closed"
    /\ UNCHANGED <<kind, want, task, made, taskErr, context, wire, stopped, taken, err>>

\* The channel is closed, or the body read: the program reports the error if
\* there is one and prints what it has.
Reports ==
    /\ end = "closed" /\ held = 0
    /\ end' = IF err THEN "failed" ELSE "ok"
    /\ UNCHANGED <<kind, want, task, made, taskErr, context, wire, stopped, held, taken, err>>

ReplyNext ==
    \/ Yield \/ Ends \/ Copied \/ Panics
    \/ Breaks \/ ContextEnds \/ ClientStops
    \/ Decode \/ ReadFails \/ Take \/ GivesUp \/ Reports

ReplySpec == ReplyInit /\ [][ReplyNext]_replyVars

-----------------------------------------------------------------------------

\* An answer that ends without an error has all that the command put out, the
\* command did not fail, and it had come to its end: whatever is lost or cut short
\* on the way is reported (http/client.go readStreamedJson, http/handler.go
\* FlushCopy). A command may end early, and well, when its time is over or the node
\* stops; one that panicked looks as if it had ended where it was; a refusal and a
\* client that was stopped may look like any end.
EndsTrue ==
    end = "ok" => \/ taken = made /\ ~taskErr /\ (made = want \/ context \in {"late", "shut"})
                  \/ taken = made /\ task = "panicked"
                  \/ task = "refused" \/ stopped

\* A command that ends early is reported as an error, whatever ended it (refs
\* local ends where its listing does, and the handler recovers from a panic
\* without a word to the client).
EarlyEndsTold == end = "ok" /\ task # "refused" /\ ~stopped => taken = want

\* A request that the daemon refuses is reported as an error (getResponse, which
\* would, but gives a body that is not JSON to the reader before it looks at the
\* status).
RefusalsTold == end = "ok" => task # "refused"
=============================================================================
