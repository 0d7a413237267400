----------------------------- MODULE Providers -----------------------------
(***************************************************************************)
(* The storage network as its members see it: clients that upload a file   *)
(* to providers or delete it (core/commands/addc.go, del.go), providers    *)
(* that ping each other and, when the contract bans one, ask others to     *)
(* store its files (casper/validation/pinger.go), users of a provider's    *)
(* REST interface, for whom it adds or deletes a file itself, and the      *)
(* handlers of cmd/ipfs_server/serverhandler.go.  A handler is             *)
(* a sequence of commands, each with effects of its own; the caller that   *)
(* waits for it gives up after thriftDefaultTimeout and the handler goes   *)
(* on.  Whoever calls walks a list of peers, one request at a time.        *)
(*                                                                         *)
(* The contract is external: it keeps which node lists which file and      *)
(* which nodes are banned, and answers from that.                          *)
(***************************************************************************)
EXTENDS Integers, Sequences, FiniteSets

CONSTANTS
  Nodes,       \* providers
  Files,       \* roots of uploaded files; every add draws a fresh UUID, so
               \* a root is uploaded once
  Pingers,     \* ping loops, each of a provider that stays up
  Attempts,    \* replicateAttemptsCount, peers of one GetPeers answer
  Copies,      \* copies an upload asks for, peers ShowStoringPeers returns
  Starts,      \* who may store the files at the start, or nobody, and who is down
  MaxFaults,   \* bound: failures of a run
  MaxWalks     \* bound: callers that start

Upload == "upload"
Delete == "delete"
None == "none"
Web == "web"         \* an add through the REST interface of a provider

ASSUME ProvidersAssumption ==
  /\ IsFiniteSet(Nodes) /\ IsFiniteSet(Files) /\ None \notin Nodes
  /\ Pingers \cap {Upload, Delete, Web} = {}
  /\ Attempts \in Nat \ {0} /\ Copies \in Nat \ {0}
  /\ Starts \subseteq [home : {{}} \cup {S \in SUBSET Nodes : Cardinality(S) = Copies}, down : SUBSET Nodes]
  /\ MaxFaults \in Nat /\ MaxWalks \in Nat \ {0}

VARIABLES
  list,      \* list[n]: the contract's list of the files of a node
  banned,    \* nodes the contract has banned
  down,      \* nodes that do not answer
  held,      \* held[n]: roots whose block the node has
  entry,     \* entry[n]: names in the root of its mutable file system
  pinned,    \* pinned[n]: roots it has pinned recursively
  job,       \* job[c]: the walk of a caller through its peers
  calls,     \* handlers that run
  scan,      \* scan[q]: startReplication of a ping loop
  faults     \* failures so far

netVars == <<list, banned, down, job, calls, scan, faults>>
nodeVars == <<held, entry, pinned>>
vars == <<list, banned, down, held, entry, pinned, job, calls, scan, faults>>

Callers == ({Upload, Delete, Web} \cup Pingers) \X Files

ToSet(s) == {s[i] : i \in DOMAIN s}
Lists(n) == ToSet(list[n])
Listing(f) == {n \in Nodes : f \in Lists(n)}
\* Distinct nodes in some order, as one answer of the contract holds them.
Answers(S, k) == {s \in [1 .. k -> S] : \A i, j \in 1 .. k : s[i] = s[j] => i = j}
\* A list without one of its entries for f.
Without(s, f) == {SubSeq(s, 1, i - 1) \o SubSeq(s, i + 1, Len(s)) : i \in {j \in DOMAIN s : s[j] = f}}
Fewer(a, b) == IF a < b THEN a ELSE b

NoJob == [st |-> "idle", peers |-> <<>>, k |-> 1, good |-> {}, won |-> 0, on |-> FALSE, of |-> None]
NoScan == [st |-> "none", of |-> None, i |-> 1, n |-> 0]
\* The fields of a call: the caller and the step of its walk, the node that
\* serves it, and the command the handler runs next.
CallOf(c, n, pc) == [by |-> c, nth |-> job[c].k, at |-> n, pc |-> pc]
Walk(peers, of) == [NoJob EXCEPT !.st = "run", !.peers = peers, !.of = of]

TypeOK ==
  /\ \A n \in Nodes : Lists(n) \subseteq Files /\ Len(list[n]) = Cardinality(Lists(n))
  /\ banned \subseteq Nodes /\ down \subseteq Nodes
  /\ \A g \in {held, entry, pinned} : g \in [Nodes -> SUBSET Files]
  /\ \A c \in Callers :
       /\ job[c].st \in {"idle", "before", "run", "ok", "failed"}
       /\ job[c].peers \in Seq(Nodes)
       /\ job[c].k \in 1 .. Len(job[c].peers) + 1
       /\ job[c].good \subseteq ToSet(job[c].peers)
       /\ job[c].won \in 0 .. Copies - 1 \/ c[1] = Delete
       /\ job[c].of \in Nodes \cup {None}
       /\ job[c].on => job[c].st = "run" /\ \E x \in calls : x.by = c /\ x.nth = job[c].k
  /\ \A x \in calls :
       /\ x.by \in Callers /\ x.at \in Nodes \ down
       /\ x.pc \in {"verify", "cp", "pin", "confirm", "unpin", "rm", "rmr", "blockrm", "freed",
                    "webconfirm", "webpin", "webrm"}
  /\ \A q \in Pingers : scan[q].st \in {"none", "run", "over"} /\ scan[q].i \in 1 .. scan[q].n + 1
  /\ faults \in 0 .. MaxFaults

\* A file is new, or it was uploaded to as many nodes as an upload asks for.
Init ==
  /\ \E s \in Starts :
       LET at(n) == {f \in Files : n \in s.home}
       IN  /\ list \in [Nodes -> UNION {Answers(Files, k) : k \in 0 .. Cardinality(Files)}]
           /\ \A n \in Nodes : Lists(n) = at(n)
           /\ held = [n \in Nodes |-> at(n)]
           /\ entry = held
           /\ pinned = held
           /\ job = [c \in Callers |->
                       IF c[1] = Upload /\ s.home /= {} THEN [NoJob EXCEPT !.st = "before"] ELSE NoJob]
           /\ down = s.down
  /\ banned = {} /\ calls = {}
  /\ scan = [q \in Pingers |-> NoScan]
  /\ faults = 0

Room == Cardinality({c \in Callers : job[c].st \notin {"idle", "before"}}) < MaxWalks
Fault == faults < MaxFaults /\ faults' = faults + 1
-----------------------------------------------------------------------------
(***************************************************************************)
(* Callers.                                                                *)
(***************************************************************************)
\* Mutant of After: a replication takes any answer for a success.
After_first(c, ok) ==
  LET j == job[c]
  IN  IF c[1] \in Pingers \/ j.k = Len(j.peers) THEN [NoJob EXCEPT !.st = "ok"]
      ELSE [j EXCEPT !.on = FALSE, !.k = @ + 1]

\* The walk goes on after an answer of the peer it asked: an upload stops
\* when enough peers have succeeded, a replication at the first, and a
\* deletion asks every peer whatever they say and then reports success.
After(c, ok) ==
  LET j == job[c]
      done == CASE c[1] = Upload -> ok /\ j.won + 1 = Copies
                [] c[1] = Delete -> FALSE
                [] OTHER         -> ok
      last == j.k = Len(j.peers)
  IN  IF ~done /\ ~last
      THEN [j EXCEPT !.good = IF ok THEN @ \cup {j.peers[j.k]} ELSE @,
                     !.won = IF ok THEN @ + 1 ELSE @, !.on = FALSE, !.k = @ + 1]
      ELSE [NoJob EXCEPT !.st = IF done \/ c[1] = Delete THEN "ok" ELSE "failed"]

\* The add command asks the contract for peers: 8 of them, in two answers
\* that are each distinct but may name the same node.
StartUpload(f) ==
  /\ job[<<Upload, f>>].st = "idle" /\ job[<<Web, f>>].st = "idle" /\ Room
  /\ \E k \in {Fewer(Copies, Cardinality(Nodes \ banned))} :
     \E a, b \in Answers(Nodes \ banned, k) :
       /\ a \o b /= <<>>
       /\ job' = [job EXCEPT ![<<Upload, f>>] = Walk(a \o b, None)]
  /\ UNCHANGED <<list, banned, down, calls, scan, faults, nodeVars>>

\* The del command asks the peers the contract returns, at most Copies.  Its
\* user has seen the upload end (handlers of it may still run).
StartDelete(f) ==
  /\ job[<<Delete, f>>].st = "idle" /\ Room
  /\ Listing(f) /= {} /\ job[<<Upload, f>>].st /= "run"
  /\ \E peers \in Answers(Listing(f), Fewer(Copies, Cardinality(Listing(f)))) :
       job' = [job EXCEPT ![<<Delete, f>>] = Walk(peers, None)]
  /\ UNCHANGED <<list, banned, down, calls, scan, faults, nodeVars>>

\* A web user adds a file to a provider, or deletes it there: the provider
\* runs `add` or `del` for itself.  The job only says who does so.
Runs(c, n, pc) == calls' = calls \cup {[by |-> c, nth |-> 1, at |-> n, pc |-> pc]}

\* AddCmd stores the file (exch.HasBlock), or fails and nothing is changed.
WebUpload(n, f) ==
  /\ job[<<Upload, f>>].st = "idle" /\ job[<<Web, f>>].st = "idle" /\ Room
  /\ n \notin down
  /\ job' = [job EXCEPT ![<<Web, f>>] = [NoJob EXCEPT !.st = "ok", !.of = n]]
  /\ held' = [held EXCEPT ![n] = @ \cup {f}]
  /\ Runs(<<Web, f>>, n, "webconfirm")
  /\ UNCHANGED <<list, banned, down, scan, faults, entry, pinned>>

\* DelCmd unpins the file, and fails if it was not pinned.
WebDelete(n, f) ==
  /\ job[<<Delete, f>>].st = "idle" /\ Room
  /\ n \notin down /\ job[<<Upload, f>>].st /= "run"
  /\ f \in pinned[n]
  /\ job' = [job EXCEPT ![<<Delete, f>>] = [NoJob EXCEPT !.st = "ok"]]
  /\ pinned' = [pinned EXCEPT ![n] = @ \ {f}]
  /\ Runs(<<Delete, f>>, n, "webrm")
  /\ UNCHANGED <<list, banned, down, scan, faults, held, entry>>

\* A mutant of Skip: the upload does not remember who has the file.
Skip_no(c) == FALSE

\* The caller opens a connection and sends its request, an upload only to a
\* peer that has not received the file yet; it may fail to connect.
Skip(c) == c[1] = Upload /\ job[c].peers[job[c].k] \in job[c].good

Dial(c) ==
  LET n == job[c].peers[job[c].k]
      first == CASE c[1] = Upload -> "cp" [] c[1] = Delete -> "unpin" [] OTHER -> "verify"
  IN  /\ job[c].st = "run" /\ ~job[c].on
      /\ \/ /\ ~Skip(c) /\ n \notin down
            /\ calls' = calls \cup {CallOf(c, n, first)}
            /\ job' = [job EXCEPT ![c].on = TRUE]
            /\ UNCHANGED faults
         \/ /\ Skip(c) \/ n \in down
            /\ job' = [job EXCEPT ![c] = After(c, FALSE)]
            /\ UNCHANGED <<calls, faults>>
         \/ /\ Fault
            /\ job' = [job EXCEPT ![c] = After(c, FALSE)]
            /\ UNCHANGED calls
      /\ UNCHANGED <<list, banned, down, scan, nodeVars>>

\* The socket's timeout: the caller goes on to the next peer, the handler
\* does not learn of it.
GiveUp(c) ==
  /\ job[c].on /\ Fault
  /\ job' = [job EXCEPT ![c] = After(c, FALSE)]
  /\ UNCHANGED <<list, banned, down, calls, scan, nodeVars>>
-----------------------------------------------------------------------------
(***************************************************************************)
(* Handlers.                                                               *)
(***************************************************************************)
\* The handler goes on to its next command, or ends and answers a caller
\* that still waits.
GoTo(x, pc) == calls' = (calls \ {x}) \cup {[x EXCEPT !.pc = pc]} /\ UNCHANGED job
Waits(x) == job[x.by].on /\ job[x.by].k = x.nth
Answer(x, ok) ==
  /\ calls' = calls \ {x}
  /\ job' = IF Waits(x) THEN [job EXCEPT ![x.by] = After(x.by, ok)] ELSE job

Uploads(x) == x.by[1] \in {Upload, Web}
\* The blocks of a file come from its uploader or from a node that has them.
Found(x) == x.by[1] = Upload \/ \E n \in Nodes \ down : x.by[2] \in held[n]
May(x, pc) == x \in calls /\ x.pc = pc

Verify(x) ==
  /\ May(x, "verify")
  /\ \/ job[x.by].of \in banned /\ GoTo(x, "cp") /\ UNCHANGED faults
     \/ job[x.by].of \notin banned /\ Answer(x, FALSE) /\ UNCHANGED faults
     \/ Fault /\ Answer(x, FALSE)
  /\ UNCHANGED <<list, banned, down, scan, nodeVars>>

\* `files cp /ipfs/<file> /`: refused when the directory has the name.  An
\* upload ignores the error, a replication returns it.
CopyIn(x) ==
  LET f == x.by[2]
      failed == IF Uploads(x) THEN GoTo(x, "pin") ELSE Answer(x, FALSE)
  IN  /\ May(x, "cp")
      /\ \/ /\ Found(x) /\ f \notin entry[x.at]
            /\ entry' = [entry EXCEPT ![x.at] = @ \cup {f}]
            /\ held' = [held EXCEPT ![x.at] = @ \cup {f}]
            /\ GoTo(x, "pin") /\ UNCHANGED faults
         \/ (~Found(x) \/ f \in entry[x.at]) /\ failed /\ UNCHANGED <<held, entry, faults>>
         \/ Fault /\ failed /\ UNCHANGED <<held, entry>>
      /\ UNCHANGED <<list, banned, down, scan, pinned>>

\* A mutant of PinFile: its error is overwritten, like that of `files cp`.
PinFile_ignored(x) ==
  LET f == x.by[2]
  IN  /\ May(x, "pin")
      /\ GoTo(x, "confirm")
      /\ \/ /\ Found(x)
            /\ held' = [held EXCEPT ![x.at] = @ \cup {f}]
            /\ pinned' = [pinned EXCEPT ![x.at] = @ \cup {f}]
            /\ UNCHANGED faults
         \/ Fault /\ UNCHANGED <<held, pinned>>
      /\ UNCHANGED <<list, banned, down, scan, entry>>

\* `pin add --recursive <file>`.
PinFile(x) ==
  LET f == x.by[2]
  IN  /\ May(x, "pin")
      /\ \/ /\ Found(x)
            /\ held' = [held EXCEPT ![x.at] = @ \cup {f}]
            /\ pinned' = [pinned EXCEPT ![x.at] = @ \cup {f}]
            /\ GoTo(x, "confirm") /\ UNCHANGED faults
         \/ ~Found(x) /\ Answer(x, FALSE) /\ UNCHANGED <<held, pinned, faults>>
         \/ Fault /\ Answer(x, FALSE) /\ UNCHANGED <<held, pinned>>
      /\ UNCHANGED <<list, banned, down, scan, entry>>

\* ConfirmUpload: the contract lists the file at the node.
Confirm(x) ==
  LET f == x.by[2]
  IN  /\ May(x, "confirm")
      /\ \/ /\ list' = IF f \in Lists(x.at) THEN list ELSE [list EXCEPT ![x.at] = Append(@, f)]
            /\ Answer(x, TRUE) /\ UNCHANGED faults
         \/ Fault /\ Answer(x, FALSE) /\ UNCHANGED list
      /\ UNCHANGED <<banned, down, scan, nodeVars>>

\* The deletion overwrites the error of each command with that of the next:
\* `pin rm`, `files rm`, which refuses a directory, and `files rm -r`.
Unpin(x) ==
  /\ May(x, "unpin")
  /\ pinned' = [pinned EXCEPT ![x.at] = @ \ {x.by[2]}]
  /\ GoTo(x, "rm")
  /\ UNCHANGED <<list, banned, down, scan, faults, held, entry>>

RemoveName(x) ==
  /\ \/ May(x, "rm") /\ GoTo(x, "rmr")
     \/ May(x, "rmr") /\ GoTo(x, "blockrm")
  /\ \/ entry' = [entry EXCEPT ![x.at] = @ \ {x.by[2]}]
     \/ x.pc = "rm" /\ UNCHANGED entry   \* a directory
  /\ UNCHANGED <<list, banned, down, scan, faults, held, pinned>>

\* `block rm <file>` fails when the block is pinned or absent.
RemoveBlock(x) ==
  LET f == x.by[2]
  IN  /\ May(x, "blockrm")
      /\ \/ /\ f \in held[x.at] \ pinned[x.at]
            /\ held' = [held EXCEPT ![x.at] = @ \ {f}]
            /\ GoTo(x, "freed")
         \/ /\ f \notin held[x.at] \ pinned[x.at]
            /\ Answer(x, FALSE) /\ UNCHANGED held
      /\ UNCHANGED <<list, banned, down, scan, faults, entry, pinned>>

\* NotifySpaceFreed: the contract removes the file from the node's list.
SpaceFreed(x) ==
  /\ May(x, "freed")
  /\ \/ /\ IF x.by[2] \in Lists(x.at)
           THEN \E s \in Without(list[x.at], x.by[2]) : list' = [list EXCEPT ![x.at] = s]
           ELSE UNCHANGED list
        /\ Answer(x, TRUE) /\ UNCHANGED faults
     \/ Fault /\ Answer(x, FALSE) /\ UNCHANGED list
  /\ UNCHANGED <<banned, down, scan, nodeVars>>

\* AddCmd for a web user goes on with ConfirmUpload, whose error it drops,
WebConfirm(x) ==
  LET f == x.by[2]
  IN  /\ May(x, "webconfirm")
      /\ \/ /\ list' = IF f \in Lists(x.at) THEN list ELSE [list EXCEPT ![x.at] = Append(@, f)]
            /\ UNCHANGED faults
         \/ Fault /\ UNCHANGED list
      /\ GoTo(x, "webpin")
      /\ UNCHANGED <<banned, down, scan, nodeVars>>

\* and only then PinRootUUID, and an upload to each of the peers the user has
\* named, all at once.  An error of the pin ends the command.
WebPin(x) ==
  LET f == x.by[2]
  IN  /\ May(x, "webpin")
      /\ \/ /\ held' = [held EXCEPT ![x.at] = @ \cup {f}]
            /\ pinned' = [pinned EXCEPT ![x.at] = @ \cup {f}]
            /\ \E ns \in SUBSET (Nodes \ (down \cup {x.at})) :
                 calls' = (calls \ {x}) \cup {[x EXCEPT !.at = n, !.pc = "cp"] : n \in ns}
            /\ UNCHANGED <<job, faults>>
         \/ Fault /\ Answer(x, FALSE) /\ UNCHANGED <<held, pinned>>
      /\ UNCHANGED <<list, banned, down, scan, entry>>

\* DelCmd for a web user removes the block, and nobody tells the contract.
WebRemove(x) ==
  LET f == x.by[2]
  IN  /\ May(x, "webrm")
      /\ held' = IF f \in pinned[x.at] THEN held ELSE [held EXCEPT ![x.at] = @ \ {f}]
      /\ Answer(x, TRUE)
      /\ UNCHANGED <<list, banned, down, scan, faults, entry, pinned>>

Handler(x) ==
  \/ Verify(x) \/ CopyIn(x) \/ PinFile(x) \/ Confirm(x)
  \/ Unpin(x) \/ RemoveName(x) \/ RemoveBlock(x) \/ SpaceFreed(x)
  \/ WebConfirm(x) \/ WebPin(x) \/ WebRemove(x)
-----------------------------------------------------------------------------
(***************************************************************************)
(* Ping loops.                                                             *)
(***************************************************************************)
\* A ping of a node that does not answer, or whose answer is lost: the
\* contract may ban the node, and says so.  A loop is followed for one
\* replication (bound).
PingFails(q, b) ==
  /\ scan[q].st = "none"
  /\ IF b \in down THEN UNCHANGED faults ELSE Fault
  /\ \/ /\ banned' = banned \cup {b}
        /\ scan' = [scan EXCEPT ![q] = [st |-> "run", of |-> b, i |-> 1, n |-> Len(list[b])]]
     \/ UNCHANGED <<banned, scan>>
  /\ UNCHANGED <<list, down, job, calls, nodeVars>>

\* One turn of the loop in startReplication: the file at the index, if the
\* contract still has one there and answers, and GetPeers, which knows the
\* size of the file but not who stores it.
Replicate(q) ==
  /\ scan[q].st = "run" /\ scan[q].i <= scan[q].n /\ Room
  /\ LET b == scan[q].of
         i == scan[q].i
         few == Fewer(Attempts, Cardinality(Nodes \ banned))
         reads == i <= Len(list[b]) /\ few > 0 /\ job[<<q, list[b][i]>>].st = "idle"
     IN  \/ /\ IF reads THEN \E peers \in Answers(Nodes \ banned, few) :
                               job' = [job EXCEPT ![<<q, list[b][i]>>] = Walk(peers, b)]
               ELSE UNCHANGED job
            /\ UNCHANGED faults
         \/ Fault /\ UNCHANGED job
  /\ scan' = [scan EXCEPT ![q].i = @ + 1]
  /\ UNCHANGED <<list, banned, down, calls, nodeVars>>

ScanEnds(q) ==
  /\ scan[q].st = "run" /\ scan[q].i > scan[q].n
  /\ scan' = [scan EXCEPT ![q] = [NoScan EXCEPT !.st = "over"]]
  /\ UNCHANGED <<list, banned, down, job, calls, faults, nodeVars>>

\* The process of a ping loop stops: what it was replicating is only in its
\* memory.
PingerStops(q) ==
  /\ scan[q].st /= "none" /\ Fault
  /\ scan' = [scan EXCEPT ![q] = [NoScan EXCEPT !.st = "over"]]
  /\ job' = [c \in Callers |-> IF c[1] = q /\ job[c].st = "run"
                               THEN [NoJob EXCEPT !.st = "failed"] ELSE job[c]]
  /\ UNCHANGED <<list, banned, down, calls, nodeVars>>

\* A provider stops in the middle of what it serves and comes back with what
\* it had on disk.
NodeStops(n) ==
  /\ n \notin down /\ Fault
  /\ down' = down \cup {n}
  /\ calls' = {x \in calls : x.at /= n}
  /\ job' = [c \in Callers |-> IF \E x \in calls \ calls' : x.by = c /\ Waits(x)
                               THEN After(c, FALSE) ELSE job[c]]
  /\ UNCHANGED <<list, banned, scan, nodeVars>>

NodeReturns(n) ==
  /\ n \in down
  /\ down' = down \ {n}
  /\ UNCHANGED <<list, banned, job, calls, scan, faults, nodeVars>>
-----------------------------------------------------------------------------
Work(c) == Dial(c) \/ \E x \in calls : x.by = c /\ Handler(x)

Next ==
  \/ \E f \in Files : StartUpload(f) \/ StartDelete(f)
  \/ \E n \in Nodes, f \in Files : WebUpload(n, f) \/ WebDelete(n, f)
  \/ \E c \in Callers : Dial(c) \/ GiveUp(c)
  \/ \E x \in calls : Handler(x)
  \/ \E q \in Pingers : Replicate(q) \/ ScanEnds(q) \/ PingerStops(q) \/ \E b \in Nodes : PingFails(q, b)
  \/ \E n \in Nodes : NodeStops(n) \/ NodeReturns(n)

\* Goroutines that can run do run: callers dial, handlers finish, a scan
\* reads on.  Nothing obliges anybody to ping, upload or delete.
Fairness ==
  /\ \A c \in Callers : WF_vars(Work(c))
  /\ \A q \in Pingers : WF_vars(Replicate(q) \/ ScanEnds(q))

Spec == Init /\ [][Next]_vars /\ Fairness
-----------------------------------------------------------------------------
(***************************************************************************)
(* Properties.                                                             *)
(***************************************************************************)
Deleted(f) == job[<<Delete, f>>].st /= "idle"
Serving(n, f) == {x \in calls : x.at = n /\ x.by[2] = f}

\* The node whose web user has uploaded the file, if it was not a client.
Through(f) == job[<<Web, f>>].of

\* "ConfirmUpload is invoked by provider after it has successfully uploaded
\* file" (casper/sc/sc_interface/interface.go): whatever fails, times out or
\* stops, a node listed for a file that others gave it has it pinned, until its
\* deletion is asked.  Only the node that added the file for a web user may be
\* listed without: it confirms first.  When nothing failed, a node that serves
\* no request for the file has the pin exactly when it is listed, and the name
\* as well if others gave it the file.
RecordAgrees ==
  \A f \in Files : ~Deleted(f) =>
    \A n \in Nodes :
      /\ n \in Listing(f) /\ n /= Through(f) => f \in pinned[n]
      /\ faults = 0 /\ Serving(n, f) = {} =>
           /\ f \in pinned[n] <=> n \in Listing(f)
           /\ n /= Through(f) => (f \in entry[n] <=> n \in Listing(f))

\* An upload that reports success has as many different nodes listed as it
\* asks for, although the peers it walks may name a node twice, time out or
\* be banned meanwhile.
UploadedCopies ==
  \A f \in Files :
    job[<<Upload, f>>].st \in {"ok", "before"} /\ ~Deleted(f) => Cardinality(Listing(f)) >= Copies

\* Attempts is large enough: GetPeers does not know the file, so it may name
\* every node that stores it already, and these refuse it.  When a node that
\* stored one of the Copies of a file is banned and nothing fails any more,
\* a replication that starts brings the file back to Copies nodes that are
\* not banned.  (A node that added the file for a web user has no name for it
\* and takes it once more.)
Restorable(q, f) ==
  /\ job[<<q, f>>].st = "run" /\ job[<<q, f>>].k = 1 /\ ~job[<<q, f>>].on
  /\ Len(job[<<q, f>>].peers) = Attempts /\ ToSet(job[<<q, f>>].peers) \cap banned = {}
  /\ Cardinality(Listing(f) \ banned) = Copies - 1
  /\ faults = MaxFaults /\ down \subseteq banned
  /\ \A n \in Nodes : /\ f \in entry[n] => n \in Listing(f) \/ Serving(n, f) /= {}
                      /\ n \in Listing(f) => f \in entry[n]

Rehomed ==
  \A q \in Pingers, f \in Files :
    Restorable(q, f) ~> Deleted(f) \/ Cardinality(Listing(f) \ banned) >= Copies
=============================================================================
