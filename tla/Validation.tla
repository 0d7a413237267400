----------------------------- MODULE Validation -----------------------------
(***************************************************************************)
(* The validation of one UUID among the nodes that store it: the initiator *)
(* of a check (casper/validation/server.go, PerformValidation), the nodes  *)
(* that register with it and answer its chunk info                         *)
(* (CollectResultsAndRespond), and the Thrift handlers that connect them   *)
(* (cmd/ipfs_server/serverhandler.go).                                     *)
(*                                                                         *)
(* A RunningCheck is named by its place in `checks`.  Its chunk is named   *)
(* by the RunningCheck of the initiator, and the checksum of a chunk is    *)
(* the chunk, or Wrong when the node could not compute it.  A sleep may    *)
(* end at any time: a call may be slower than it.                          *)
(***************************************************************************)
EXTENDS Naturals, Sequences, FiniteSets

CONSTANTS
    Storers,
    Unusable,           \* the nodes whose own address others cannot parse or resolve
    Nothing,            \* no entry in uuidProvMap, no result
    FirstNodes,         \* the nodes that may make the first check
    Wrong,              \* the checksum of a node that could not compute it
    MaxChecks,          \* bound: checks started
    MaxRegistrations    \* bound: registrations received

ASSUME ValidationAssumption ==
    /\ Nothing \notin Storers
    /\ FirstNodes \subseteq Storers
    /\ Unusable \subseteq Storers
    /\ MaxChecks \in Nat
    /\ MaxRegistrations \in Nat

VARIABLES
    checks,         \* every RunningCheck, with the goroutine that made it
    uuidProvMap,    \* uuidProvMap[n]: node n's entry for the UUID
    thriftCalls,    \* Thrift calls under way
    registered      \* counter of the bound

checkVars == <<checks, uuidProvMap, thriftCalls, registered>>

Ids == DOMAIN checks
Chunks == Nat \cup {Wrong, Nothing}

RunningCheck ==
    [role : {"initiator", "provider"},
     node : Storers,
     pc : {"get", "info", "self", "gather", "ask", "sum", "store", "open", "nap", "linger", "done"},
     chunk : Nat,
     hasInfo : BOOLEAN,         \* rc.info is not nil
     nodes : Seq(Storers),
     providers : Seq(Storers),    \* rc.info.Providers
     results : [Storers -> Chunks],
     stuck : BOOLEAN]           \* a handler panicked while it held rc.mtx

\* `listed` is the number of providers in the chunk info when the call was made.
Call == [kind : {"chunk", "sum"}, from : Nat, to : Storers, place : Nat, listed : Nat,
         sum : Chunks, waited : BOOLEAN]

CheckTypeOK ==
    /\ checks \in Seq(RunningCheck)
    /\ uuidProvMap \in [Storers -> Ids \cup {Nothing}]
    /\ thriftCalls \subseteq Call
    /\ registered \in 0 .. MaxRegistrations

CheckInit ==
    /\ checks = <<>>
    /\ uuidProvMap = [n \in Storers |-> Nothing]
    /\ thriftCalls = {}
    /\ registered = 0

NewRunningCheck(role, node, pc, chunk, providers) ==
    [role |-> role, node |-> node, pc |-> pc, chunk |-> chunk, hasInfo |-> role = "provider",
     nodes |-> <<>>, providers |-> providers, results |-> [n \in Storers |-> Nothing], stuck |-> FALSE]

At(i, pc) == i \in Ids /\ checks[i].pc = pc
Goto(i, pc) == checks' = [checks EXCEPT ![i].pc = pc]
Store(i) == uuidProvMap' = [uuidProvMap EXCEPT ![checks[i].node] = i]

Finish(i) ==
    /\ Goto(i, "done")
    /\ uuidProvMap' = [uuidProvMap EXCEPT ![checks[i].node] = Nothing]

-----------------------------------------------------------------------------
(* PerformValidation                                                       *)

Initiated == {i \in Ids : checks[i].role = "initiator"}

StartCheck(n) ==
    /\ Cardinality(Initiated) < MaxChecks
    /\ Initiated = {} => n \in FirstNodes
    /\ checks' = Append(checks, NewRunningCheck("initiator", n, "get", Len(checks) + 1, <<>>))
    /\ uuidProvMap' = [uuidProvMap EXCEPT ![n] = Len(checks) + 1]
    /\ UNCHANGED <<thriftCalls, registered>>

MutGetFails(i) ==
    /\ At(i, "get")
    /\ Goto(i, "done")
    /\ UNCHANGED <<uuidProvMap, thriftCalls, registered>>

\* DAG.Get or getRandomChunk returns an error.
GetFails(i) ==
    /\ At(i, "get")
    /\ Finish(i)
    /\ UNCHANGED <<thriftCalls, registered>>

SetInfo(i) ==
    /\ At(i, "get")
    /\ checks' = [checks EXCEPT ![i].pc = "info", ![i].hasInfo = TRUE]
    /\ UNCHANGED <<uuidProvMap, thriftCalls, registered>>

ListSelf(i) ==
    /\ At(i, "info")
    /\ checks' = [checks EXCEPT ![i].pc = "self", ![i].nodes = Append(@, checks[i].node)]
    /\ UNCHANGED <<uuidProvMap, thriftCalls, registered>>

ProvideSelf(i) ==
    /\ At(i, "self")
    /\ checks' = [checks EXCEPT ![i].pc = "gather", ![i].providers = Append(@, checks[i].node)]
    /\ Store(i)
    /\ UNCHANGED <<thriftCalls, registered>>

\* The places of rc.nodes.  A provider of a chunk info whose address does not
\* parse or resolve is left out of the list: its place is one that no call is for.
Reached(i) ==
    {k \in DOMAIN checks[i].nodes : checks[i].role = "initiator" \/ checks[i].nodes[k] \notin Unusable}

Send(i, kind, places, sum) ==
    {[kind |-> kind, from |-> i, to |-> checks[i].nodes[k], place |-> k,
      listed |-> Len(checks[i].providers), sum |-> sum, waited |-> kind = "chunk"] : k \in places}

\* SendChunkInfo to rc.nodes[1:]
SendChunkInfos(i) ==
    /\ At(i, "gather")
    /\ Goto(i, "ask")
    /\ thriftCalls' = thriftCalls \cup Send(i, "chunk", Reached(i) \ {1}, Nothing)
    /\ UNCHANGED <<uuidProvMap, registered>>

\* wg.Wait returns
Asked(i) ==
    /\ At(i, "ask")
    /\ \A c \in thriftCalls : c.from = i => ~ c.waited
    /\ Goto(i, "sum")
    /\ UNCHANGED <<uuidProvMap, thriftCalls, registered>>

\* ChecksumSalt, whose error nobody looks at, and SendChecksumHash to rc.nodes
SendSums(i) ==
    /\ At(i, "sum")
    /\ Goto(i, "linger")
    /\ \E sum \in {checks[i].chunk, Wrong} :
          thriftCalls' = thriftCalls \cup Send(i, "sum", Reached(i), sum)
    /\ UNCHANGED <<uuidProvMap, registered>>

EndCheck(i) ==
    /\ At(i, "linger")
    /\ checks[i].role = "initiator"
    /\ Finish(i)
    /\ UNCHANGED <<thriftCalls, registered>>

-----------------------------------------------------------------------------
(* CollectResultsAndRespond                                                *)

StoreCollected(i) ==
    /\ At(i, "store")
    /\ Store(i)
    /\ Goto(i, "open")
    /\ UNCHANGED <<thriftCalls, registered>>

\* Opening the repository, reading the file or its checksum fails.
CollectFails(i) ==
    /\ At(i, "open")
    /\ Finish(i)
    /\ UNCHANGED <<thriftCalls, registered>>

MutCollect(i) ==
    /\ At(i, "open")
    /\ checks' = [checks EXCEPT ![i].pc = "nap",
                                ![i].results[checks[i].node] = checks[i].chunk]
    /\ UNCHANGED <<uuidProvMap, thriftCalls, registered>>

\* The checksum is computed and the providers are listed (see Reached).
Collect(i) ==
    /\ At(i, "open")
    /\ checks' = [checks EXCEPT ![i].pc = "nap",
                                ![i].nodes = @ \o checks[i].providers,
                                ![i].results[checks[i].node] = checks[i].chunk]
    /\ UNCHANGED <<uuidProvMap, thriftCalls, registered>>

SendCollected(i) ==
    /\ At(i, "nap")
    /\ Goto(i, "linger")
    /\ thriftCalls' = thriftCalls \cup Send(i, "sum", Reached(i), checks[i].chunk)
    /\ UNCHANGED <<uuidProvMap, registered>>

\* SendValidationResults, to rc.nodes[0]: its handler changes nothing.
Respond(i) ==
    /\ At(i, "linger")
    /\ checks[i].role = "provider"
    /\ Reached(i) # {}
    /\ Finish(i)
    /\ UNCHANGED <<thriftCalls, registered>>

\* Without a rc.nodes[0] the goroutine panics, nobody recovers, and the daemon
\* ends with all its checks.  What it has sent may still arrive.
NobodyToAnswer(i) ==
    /\ At(i, "linger")
    /\ checks[i].role = "provider"
    /\ Reached(i) = {}
    /\ checks' = [j \in Ids |-> IF checks[j].node = checks[i].node THEN [checks[j] EXCEPT !.pc = "done"]
                                                                 ELSE checks[j]]
    /\ uuidProvMap' = [uuidProvMap EXCEPT ![checks[i].node] = Nothing]
    /\ UNCHANGED <<thriftCalls, registered>>

-----------------------------------------------------------------------------
(* Handlers and the calls that reach them.                                 *)

\* SendVerificationQuery at n from p, through RegisterUUIDProvider.  It refuses
\* an address that does not parse or resolve.  Without an entry nothing happens; a handler that finds rc.mtx stuck waits forever; one
\* that finds no chunk info panics with the mutex locked.
Register(n, p) ==
    LET i == uuidProvMap[n] IN
    /\ p \notin Unusable
    /\ registered < MaxRegistrations
    /\ registered' = registered + 1
    /\ \/ /\ i = Nothing \/ (i \in Ids /\ checks[i].stuck)
          /\ UNCHANGED checks
       \/ /\ i \in Ids /\ ~ checks[i].stuck
          /\ checks' = IF checks[i].hasInfo
                       THEN [checks EXCEPT ![i].nodes = Append(@, p), ![i].providers = Append(@, p)]
                       ELSE [checks EXCEPT ![i].nodes = Append(@, p), ![i].stuck = TRUE]
    /\ UNCHANGED <<uuidProvMap, thriftCalls>>

\* PerformValidation lists its node without rc.mtx: when its append overlaps
\* the handler's, one of the two is lost.
RegisterRaces(n, p) ==
    LET i == uuidProvMap[n] IN
    /\ p \notin Unusable
    /\ registered < MaxRegistrations
    /\ i \in Ids /\ ~ checks[i].stuck
    /\ registered' = registered + 1
    /\ \E kept \in {checks[i].node, p} :
          \/ /\ At(i, "info")
             /\ checks' = [checks EXCEPT ![i].pc = "self", ![i].nodes = Append(@, kept),
                                         ![i].providers = Append(@, p)]
          \/ /\ At(i, "self")
             /\ checks' = [checks EXCEPT ![i].pc = "gather", ![i].nodes = Append(@, p),
                                         ![i].providers = Append(@, kept)]
    /\ UNCHANGED <<uuidProvMap, thriftCalls>>

\* SendChunkInfo starts CollectResultsAndRespond in a goroutine and returns.
SendChunkInfo(c) ==
    /\ c.kind = "chunk"
    /\ \E len \in c.listed .. Len(checks[c.from].providers) :
          checks' = Append(checks, NewRunningCheck("provider", c.to, "store", checks[c.from].chunk,
                                                   SubSeq(checks[c.from].providers, 1, len)))
    /\ thriftCalls' = thriftCalls \ {c}
    /\ UNCHANGED <<uuidProvMap, registered>>

\* SendChecksumHash, through AddRound1Result; with rc.mtx stuck it never returns.
SendChecksumHash(c) ==
    LET i == uuidProvMap[c.to] IN
    /\ c.kind = "sum"
    /\ \/ i = Nothing /\ UNCHANGED checks
       \/ /\ i \in Ids /\ ~ checks[i].stuck
          /\ checks' = [checks EXCEPT ![i].results[checks[c.from].node] = c.sum]
    /\ thriftCalls' = thriftCalls \ {c}
    /\ UNCHANGED <<uuidProvMap, registered>>

\* The call reaches nobody.
Lose(c) ==
    /\ thriftCalls' = thriftCalls \ {c}
    /\ UNCHANGED <<checks, uuidProvMap, registered>>

MutTimeOut(c) ==
    /\ c.kind = "sum" /\ c.waited
    /\ thriftCalls' = (thriftCalls \ {c}) \cup {[c EXCEPT !.waited = FALSE]}
    /\ UNCHANGED <<checks, uuidProvMap, registered>>

\* The caller's socket times out; the handler may still run.
TimeOut(c) ==
    /\ c.waited
    /\ thriftCalls' = (thriftCalls \ {c}) \cup {[c EXCEPT !.waited = FALSE]}
    /\ UNCHANGED <<checks, uuidProvMap, registered>>

-----------------------------------------------------------------------------
CheckStep(i) ==
    \/ GetFails(i) \/ SetInfo(i) \/ ListSelf(i) \/ ProvideSelf(i)
    \/ SendChunkInfos(i) \/ Asked(i) \/ SendSums(i) \/ EndCheck(i)

CollectStep(i) ==
    \/ StoreCollected(i) \/ CollectFails(i) \/ Collect(i) \/ SendCollected(i)
    \/ Respond(i) \/ NobodyToAnswer(i)

CallStep(c) == SendChunkInfo(c) \/ SendChecksumHash(c) \/ Lose(c) \/ TimeOut(c)

CheckNext ==
    \/ \E n \in Storers : StartCheck(n)
    \/ \E n, p \in Storers : Register(n, p) \/ RegisterRaces(n, p)
    \/ \E i \in Ids : CheckStep(i)
    \/ \E i \in Ids : CollectStep(i)
    \/ \E c \in thriftCalls : CallStep(c)

CheckSpec == CheckInit /\ [][CheckNext]_checkVars

\* The bound on goroutines: one per check and one per node a check asks.
MaxIds == MaxChecks * (1 + MaxRegistrations)

\* Goroutines run, sleeps end, and a socket times out.
CheckFairness ==
    /\ \A i \in 1 .. MaxIds : WF_checkVars(i \in Ids /\ (CheckStep(i) \/ CollectStep(i)))
    /\ WF_checkVars(\E c \in thriftCalls : TimeOut(c))

CheckFairSpec == CheckSpec /\ CheckFairness

-----------------------------------------------------------------------------
(* What a validation promises.                                             *)

\* When all goroutines of a node have ended, whatever failed, the node keeps
\* no entry for the UUID.  An entry of a RunningCheck that has ended would
\* collect the registrations and results of the next one.
MapClean ==
    \A n \in Storers :
       (\A i \in Ids : checks[i].node = n => checks[i].pc = "done") => uuidProvMap[n] = Nothing

\* The node whose check a chunk info is from.
Asker(i) == checks[checks[i].chunk].node

\* A node that answers has somebody to report to, or rc.nodes[0] at line 251 of
\* server.go ends its daemon: only when the one who asked has an address that
\* nobody can use, and no registration is in the list it sent.
ReportHasTarget ==
    \A i \in Ids :
       checks[i].role = "provider" /\ checks[i].pc \in {"nap", "linger"} /\ Reached(i) = {} =>
          /\ Asker(i) \in Unusable
          /\ \A k \in DOMAIN checks[i].providers : checks[i].providers[k] = Asker(i)

\* Every check and every answer to one ends, with calls lost, slow or hung in
\* a handler: in the end none is under way.
ChecksEnd == <>[](\A i \in Ids : At(i, "done"))

\* A check that asks its providers asks all of them ("Perform SendChunkInfo
\* calls on all providers", server.go:108), where the providers are the nodes
\* that have registered by then.
AllAsked ==
    [][\A i \in Ids : At(i, "gather") /\ At(i, "ask")' =>
          \A k \in 1 .. Len(checks[i].nodes) :
             checks[i].nodes[k] # checks[i].node =>
                \E c \in thriftCalls' : c.kind = "chunk" /\ c.from = i /\ c.to = checks[i].nodes[k]]_checkVars

=============================================================================
