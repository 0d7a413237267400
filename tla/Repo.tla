-------------------------------- MODULE Repo --------------------------------
(***************************************************************************)
(* The processes that share one repository directory: daemons that start,  *)
(* announce themselves in the api file, host requests and stop, and        *)
(* commands that run in the daemon when there is one, or open the          *)
(* repository themselves (cmd/ipfs_server, cmd/ipfs_client, repo/fsrepo,   *)
(* repo/onlyone.go, core/builder.go, core/core.go, core/corehttp).         *)
(*                                                                         *)
(* On disk there are the config file, the rest of the layout (datastore    *)
(* spec and version), the api file and the lock file.  In each process     *)
(* OnlyOne counts the references to one FSRepo, whose config in memory all *)
(* its users share.  A request is a thread of the daemon: nothing waits    *)
(* for it when the daemon stops.                                           *)
(***************************************************************************)
EXTENDS Naturals, FiniteSets

CONSTANTS
    Daemons,     \* processes that run `daemon`
    Initers,     \* daemons that are given --init
    Commands,    \* processes that run one command
    Kinds,       \* Kinds[c]: what the command of process c may be
    Vals,        \* values of the setting that `config` changes
    Default,     \* its value in a new repository
    Typed,       \* its value when a daemon has asked for it
    None,        \* no process
    Fresh,       \* the directory may be empty at first: BOOLEAN
    MaxStarts,   \* bound: how often a process is started
    Hurts,       \* what may go wrong: crash, interrupt, fail
    MaxHurts     \* bound: how often

ASSUME RepoAssumption ==
    /\ Default \in Vals /\ Typed \in Vals \ {Default}
    /\ None \notin Daemons \cup Commands /\ Daemons # {}
    /\ Daemons \cap Commands = {} /\ Initers \subseteq Daemons
    /\ Kinds \in [Commands -> SUBSET {"set", "add", "use", "shutdown", "edit", "fsck", "init"}]
    /\ Hurts \subseteq {"crash", "interrupt", "fail"}
    /\ MaxStarts \in Nat /\ MaxHurts \in Nat

Procs == Daemons \cup Commands

VARIABLES
    conf,    \* the config file: who made the identity, a setting, bootstrap peers
    layout,  \* datastore_spec and version are written
    api,     \* the api file exists
    lock,    \* who holds the lock on the file repo.lock
    port,    \* who listens at the API address
    pc,      \* where the main goroutine of each process is
    repo,    \* the FSRepo each process has open, its references and config
    node,    \* the IpfsNode of each daemon
    serves,  \* daemons whose HTTP server takes requests
    job,     \* the command of each command process, and the process it runs in
    told,    \* the value last given to the setting, and by whom
    added,   \* peers `bootstrap add` has reported
    left     \* what the bounds still allow

disk == <<conf, layout, api>>
owned == <<lock, port>>
threads == <<pc, node, serves, job>>
ghosts == <<told, added>>
vars == <<conf, layout, api, lock, port, pc, repo, node, serves, job, told, added, left>>

\* No config file: it names nobody's identity.
NoConf == [id |-> None, val |-> Default, boot |-> {}]

\* Who gave the setting its value: init, a command or an editor.
Told(v, who) == [val |-> v, by |-> who]

NoRepo == [at |-> "none", refs |-> 0, mem |-> NoConf]

NoJob == [kind |-> "none", val |-> Default, host |-> None, at |-> "none", cfg |-> NoConf]

IsInitialized == conf.id # None

Init ==
    /\ conf \in IF Fresh THEN {NoConf, [NoConf EXCEPT !.id = CHOOSE d \in Daemons : TRUE]}
                         ELSE {[NoConf EXCEPT !.id = CHOOSE d \in Daemons : TRUE]}
    /\ layout = IsInitialized
    /\ api \in {FALSE, IsInitialized /\ "crash" \in Hurts}  \* one that was killed leaves the file
    /\ lock = None /\ port = None
    /\ pc = [p \in Procs |-> "off"]
    /\ repo = [p \in Procs |-> NoRepo]
    /\ node = [p \in Procs |-> "none"]
    /\ serves = [p \in Procs |-> FALSE]
    /\ job = [c \in Commands |-> NoJob]
    /\ told = Told(Default, "init") /\ added = {}
    /\ left = [starts |-> [p \in Procs |-> MaxStarts], hurts |-> MaxHurts]

Goes(p, to) == pc' = [pc EXCEPT ![p] = to]

Hurt(what) == /\ what \in Hurts /\ left.hurts > 0
              /\ left' = [left EXCEPT !.hurts = @ - 1]

-----------------------------------------------------------------------------
(* Opening and closing the repository.                                     *)

\* OnlyOne's mutex is held while the last reference closes the FSRepo.
Busy(p) == repo[p].at \notin {"none", "open"}

CanOpen(p) ==
    \/ repo[p].at = "open"
    \/ repo[p].at = "none" /\ IsInitialized /\ layout /\ lock = None

\* Mutated: the second opener is handed the repository without a reference.
Opened_uncounted(p) ==
    IF repo[p].at = "open"
    THEN UNCHANGED <<repo, lock>>
    ELSE /\ repo' = [repo EXCEPT ![p] = [at |-> "open", refs |-> 1, mem |-> conf]]
         /\ lock' = p

Opened(p) ==
    IF repo[p].at = "open"
    THEN /\ repo' = [repo EXCEPT ![p].refs = @ + 1]
         /\ UNCHANGED lock
    ELSE /\ repo' = [repo EXCEPT ![p] = [at |-> "open", refs |-> 1, mem |-> conf]]
         /\ lock' = p

\* Mutated: any Close closes the FSRepo.
Dropped_always(p) == repo' = [repo EXCEPT ![p].refs = @ - 1, ![p].at = "last"]

Dropped(p) == repo' = [repo EXCEPT ![p].refs = @ - 1,
                                   ![p].at = IF repo[p].refs = 1 THEN "last" ELSE @]

\* Mutated: the lock goes first.
RemoveApi_unlocks(p) ==
    /\ repo[p].at = "last"
    /\ repo' = [repo EXCEPT ![p].at = "unnamed"]
    /\ api' = FALSE
    /\ lock' = None
    /\ UNCHANGED <<conf, layout, port, threads, ghosts, left>>

RemoveApi(p) ==
    /\ repo[p].at = "last"
    /\ repo' = [repo EXCEPT ![p].at = "unnamed"]
    /\ api' = FALSE
    /\ UNCHANGED <<conf, layout, owned, threads, ghosts, left>>

CloseDatastore(p) ==
    /\ repo[p].at = "unnamed"
    /\ repo' = [repo EXCEPT ![p].at = "shut"]
    /\ UNCHANGED <<disk, owned, threads, ghosts, left>>

\* A lock on a file that `repo fsck` has removed is nobody's hindrance.
Unlock(p) ==
    /\ repo[p].at = "shut"
    /\ repo' = [repo EXCEPT ![p] = NoRepo]
    /\ lock' = IF lock = p THEN None ELSE lock
    /\ UNCHANGED <<disk, port, threads, ghosts, left>>

-----------------------------------------------------------------------------
(* The life of a process.                                                  *)

StartDaemon(d) ==
    /\ pc[d] = "off" /\ left.starts[d] > 0
    /\ Goes(d, "new")
    /\ left' = [left EXCEPT !.starts[d] = @ - 1]
    /\ UNCHANGED <<disk, owned, repo, node, serves, job, ghosts>>

StartCommand(c) ==
    /\ pc[c] = "off" /\ job[c] = NoJob /\ left.starts[c] > 0
    /\ Goes(c, "new")
    /\ \E k \in Kinds[c], v \in Vals \ {Default, Typed} :
           job' = [job EXCEPT ![c] = [NoJob EXCEPT !.kind = k, !.val = IF k \in {"set", "edit"} THEN v ELSE @]]
    /\ left' = [left EXCEPT !.starts[c] = @ - 1]
    /\ UNCHANGED <<disk, owned, repo, node, serves, ghosts>>

\* The process is gone: the system frees its locks and its port, and the
\* requests it hosted are lost.
Gone(p) ==
    /\ Goes(p, "off")
    /\ lock' = IF lock = p THEN None ELSE lock
    /\ port' = IF port = p THEN None ELSE port
    /\ repo' = [repo EXCEPT ![p] = NoRepo]
    /\ node' = [node EXCEPT ![p] = "none"]
    /\ serves' = [serves EXCEPT ![p] = FALSE]
    /\ job' = [c \in Commands |->
                  IF job[c].host = p \/ (c = p /\ job[c].host = None) THEN NoJob ELSE job[c]]
    /\ UNCHANGED <<disk, ghosts>>

Leaves(p) == Gone(p) /\ UNCHANGED left

\* A kill, or a second interrupt.
Crash(p) ==
    /\ pc[p] # "off" /\ Hurt("crash")
    /\ Gone(p)

-----------------------------------------------------------------------------
(* Where a command runs: callCommand and commandShouldRunOnDaemon.         *)

\* A command that can run in a daemon needs to know whether there is one; one
\* that cannot asks for the lock if an api file suggests that there is.
Place(kind) ==
    CASE kind \in {"daemon", "fsck"} -> IF api THEN "probe" ELSE "go"
      [] kind = "init" -> "probe"
      [] kind = "edit" -> "go"
      [] OTHER -> IF api THEN "send" ELSE "go"

Kind(p) == IF p \in Daemons THEN "daemon" ELSE job[p].kind

Decide(p) ==
    /\ pc[p] = "new"
    /\ Goes(p, Place(Kind(p)))
    /\ UNCHANGED <<disk, owned, repo, node, serves, job, ghosts, left>>

\* LockedByOtherProcess takes the lock, and so keeps it from others for a moment.
Probe(p) ==
    /\ pc[p] = "probe"
    /\ IF lock = None
       THEN /\ lock' = p
            /\ Goes(p, "probed")
            /\ UNCHANGED <<disk, port, repo, node, serves, job, ghosts, left>>
       ELSE Leaves(p)

Probed(p) ==
    /\ pc[p] = "probed"
    /\ lock' = IF lock = p THEN None ELSE lock
    /\ Goes(p, "go")
    /\ UNCHANGED <<disk, port, repo, node, serves, job, ghosts, left>>

\* The request reaches the daemon, or the connection is refused.
Send(c) ==
    /\ pc[c] = "send"
    /\ IF port = None
       THEN Leaves(c)
       ELSE /\ Goes(c, "waiting")
            /\ job' = [job EXCEPT ![c].host = port, ![c].at = "sent"]
            /\ UNCHANGED <<disk, owned, repo, node, serves, ghosts, left>>

\* config and bootstrap open the repository in any case; a command that uses
\* the node takes that of the daemon, or builds one on a repository it opens.
Accept(c) ==
    /\ job[c].at = "sent" /\ serves[job[c].host]
    /\ job' = [job EXCEPT ![c].at = IF job[c].kind \in {"use", "shutdown"} THEN "work" ELSE "open"]
    /\ UNCHANGED <<disk, owned, pc, repo, node, serves, ghosts, left>>

RunHere(c) ==
    /\ pc[c] = "go" /\ job[c].kind # "init"
    /\ Goes(c, "run")
    /\ job' = [job EXCEPT ![c].host = c,
                          ![c].at = IF job[c].kind \in {"edit", "fsck"} THEN "work" ELSE "open"]
    /\ UNCHANGED <<disk, owned, repo, node, serves, ghosts, left>>

\* The answer has arrived, or the daemon is gone.
Answered(c) ==
    /\ \/ pc[c] = "run" /\ job[c].at = "done"
       \/ pc[c] = "waiting" /\ job[c].kind = "none"
    /\ Leaves(c)

Replied(c) ==
    /\ job[c].at = "done" /\ job[c].host # c
    /\ job' = [job EXCEPT ![c] = NoJob]
    /\ UNCHANGED <<disk, owned, pc, repo, node, serves, ghosts, left>>

-----------------------------------------------------------------------------
(* What the commands do, in the process that hosts them.                   *)

At(c, place, kinds) == job[c].at = place /\ job[c].kind \in kinds

To(c, place) == job' = [job EXCEPT ![c].at = place]

OpenFor(c) ==
    /\ job[c].at = "open" /\ ~Busy(job[c].host)
    /\ IF CanOpen(job[c].host)
       THEN Opened(job[c].host) /\ To(c, "work")
       ELSE To(c, "done") /\ UNCHANGED <<repo, lock>>
    /\ UNCHANGED <<disk, port, pc, node, serves, ghosts, left>>

\* SetConfigKey reads the file and writes it and the memory under packageLock.
SetConfigKey(p, v) ==
    /\ conf' = [conf EXCEPT !.val = v]
    /\ repo' = [repo EXCEPT ![p].mem = conf']
    /\ told' = Told(v, "config")

Set(c) ==
    /\ At(c, "work", {"set"})
    /\ SetConfigKey(job[c].host, job[c].val)
    /\ To(c, "close")
    /\ UNCHANGED <<layout, api, owned, pc, node, serves, added, left>>

\* bootstrapAdd empties the list that everybody shares ...
AddBegins(c) ==
    /\ At(c, "work", {"add"})
    /\ job' = [job EXCEPT ![c].at = "refill", ![c].cfg = repo[job[c].host].mem]
    /\ repo' = [repo EXCEPT ![job[c].host].mem.boot = {}]
    /\ UNCHANGED <<disk, owned, pc, node, serves, ghosts, left>>

\* ... puts the old and the new peers into it ...
AddRefills(c) ==
    /\ At(c, "refill", {"add"})
    /\ repo' = [repo EXCEPT ![job[c].host].mem.boot = job[c].cfg.boot \cup {c}]
    /\ To(c, "save")
    /\ UNCHANGED <<disk, owned, pc, node, serves, ghosts, left>>

\* Mutated: Config returns a copy.
Shared_copied(c) == [job[c].cfg EXCEPT !.boot = repo[job[c].host].mem.boot]

\* What SetConfig is given: Config returned the config in memory itself.
Shared(c) == repo[job[c].host].mem

\* ... and lays all it knows over the file, whose identity it is included.
AddSaves(c) ==
    /\ At(c, "save", {"add"})
    /\ conf' = Shared(c)
    /\ added' = added \cup {c}
    /\ job' = [job EXCEPT ![c].at = "close", ![c].cfg = NoConf]
    /\ UNCHANGED <<layout, api, owned, pc, repo, node, serves, told, left>>

\* Any command that works on the node, `name publish` or `add`.
Use(c) ==
    /\ At(c, "work", {"use"})
    /\ To(c, IF job[c].host = c THEN "close" ELSE "done")
    /\ UNCHANGED <<disk, owned, pc, repo, node, serves, ghosts, left>>

\* The node of a command is not a daemon; that of a daemon is closed from
\* within the request.
Shutdown(c) ==
    /\ At(c, "work", {"shutdown"})
    /\ IF job[c].host = c
       THEN To(c, "close") /\ UNCHANGED node
       ELSE /\ node' = [node EXCEPT ![job[c].host] = IF @ = "up" THEN "closing" ELSE @]
            /\ To(c, "wait")
    /\ UNCHANGED <<disk, owned, pc, repo, serves, ghosts, left>>

ShutdownEnds(c) ==
    /\ At(c, "wait", {"shutdown"}) /\ node[job[c].host] = "torn"
    /\ To(c, "done")
    /\ UNCHANGED <<disk, owned, pc, repo, node, serves, ghosts, left>>

\* The editor writes the file, whoever has the repository open.
Edit(c) ==
    /\ At(c, "work", {"edit"})
    /\ conf' = IF IsInitialized THEN [conf EXCEPT !.val = job[c].val] ELSE conf
    /\ told' = IF IsInitialized THEN Told(job[c].val, "editor") ELSE told
    /\ To(c, "done")
    /\ UNCHANGED <<layout, api, owned, pc, repo, node, serves, added, left>>

CloseFor(c) ==
    /\ job[c].at = "close" /\ repo[job[c].host].at = "open"
    /\ Dropped(job[c].host)
    /\ To(c, IF repo[job[c].host].refs = 1 THEN "closing" ELSE "done")
    /\ UNCHANGED <<disk, owned, pc, node, serves, ghosts, left>>

ClosedFor(c) ==
    /\ job[c].at = "closing" /\ ~Busy(job[c].host)
    /\ To(c, "done")
    /\ UNCHANGED <<disk, owned, pc, repo, node, serves, ghosts, left>>

-----------------------------------------------------------------------------
(* `init`, and the same from `daemon --init`.                              *)

Begin(p) ==
    /\ pc[p] = "go" /\ Kind(p) \in {"daemon", "init"}
    /\ IF IsInitialized /\ p \in Commands
       THEN Leaves(p)
       ELSE /\ Goes(p, IF IsInitialized \/ p \in Daemons \ Initers THEN "open" ELSE "fresh")
            /\ UNCHANGED <<disk, owned, repo, node, serves, job, ghosts, left>>

\* fsrepo.Init looks again, under a mutex of this process.
InitRepo(p) ==
    /\ pc[p] = "fresh"
    /\ Goes(p, IF IsInitialized THEN "keys" ELSE "write")
    /\ UNCHANGED <<disk, owned, repo, node, serves, job, ghosts, left>>

InitConfig(p) ==
    /\ pc[p] = "write"
    /\ conf' = [NoConf EXCEPT !.id = p]
    /\ told' = Told(Default, "init")
    /\ Goes(p, "lay")
    /\ UNCHANGED <<layout, api, owned, repo, node, serves, job, added, left>>

InitSpec(p) ==
    /\ pc[p] = "lay"
    /\ layout' = TRUE
    /\ Goes(p, "keys")
    /\ UNCHANGED <<conf, api, owned, repo, node, serves, job, ghosts, left>>

\* initializeIpnsKeyspace opens the repository for the first record.
OpenKeyspace(p) ==
    /\ pc[p] = "keys"
    /\ IF CanOpen(p)
       THEN /\ Opened(p)
            /\ Goes(p, "keyspace")
            /\ UNCHANGED <<disk, port, node, serves, job, ghosts, left>>
       ELSE Leaves(p)

CloseKeyspace(p) ==
    /\ pc[p] = "keyspace"
    /\ Dropped(p)
    /\ Goes(p, "made")
    /\ UNCHANGED <<disk, owned, node, serves, job, ghosts, left>>

Made(p) ==
    /\ pc[p] = "made" /\ ~Busy(p)
    /\ IF p \in Commands
       THEN Leaves(p)
       ELSE /\ Goes(p, "open")
            /\ UNCHANGED <<disk, owned, repo, node, serves, job, ghosts, left>>

-----------------------------------------------------------------------------
(* The daemon.                                                             *)

OpenDaemon(d) ==
    /\ pc[d] = "open"
    /\ IF CanOpen(d)
       THEN /\ Opened(d)
            /\ Goes(d, "prompt")
            /\ UNCHANGED <<disk, port, node, serves, job, ghosts, left>>
       ELSE Leaves(d)

\* The daemon does not run without a telegram address.
Prompt(d) ==
    /\ pc[d] = "prompt"
    /\ Goes(d, "build")
    /\ IF conf.val = Default
       THEN SetConfigKey(d, Typed)
       ELSE UNCHANGED <<conf, repo, told>>
    /\ UNCHANGED <<layout, api, owned, node, serves, job, added, left>>

\* A node that is built after an interrupt is closed as soon as it is there.
BuildNode(d) ==
    /\ pc[d] = "build"
    /\ \/ node' = [node EXCEPT ![d] = "up"] /\ UNCHANGED left
       \/ node' = [node EXCEPT ![d] = "closing"] /\ Hurt("interrupt")
    /\ Goes(d, "listen")
    /\ UNCHANGED <<disk, owned, repo, serves, job, ghosts>>

\* NewNode fails and closes what it has built, or RegisterSC, which leaves that
\* to daemonFunc.
Fail(d) ==
    /\ pc[d] \in {"build", "listen"} /\ Hurt("fail")
    /\ node' = [node EXCEPT ![d] = IF pc[d] = "build" THEN "closing" ELSE @]
    /\ Goes(d, "ret")
    /\ UNCHANGED <<disk, owned, repo, serves, job, ghosts>>

Listen(d) ==
    /\ pc[d] = "listen"
    /\ IF port = None
       THEN port' = d /\ Goes(d, "announce")
       ELSE Goes(d, "ret") /\ UNCHANGED port
    /\ UNCHANGED <<disk, lock, repo, node, serves, job, ghosts, left>>

SetAPIAddr(d) ==
    /\ pc[d] = "announce"
    /\ api' = TRUE
    /\ Goes(d, "server")
    /\ UNCHANGED <<conf, layout, owned, repo, node, serves, job, ghosts, left>>

Serve(d) ==
    /\ pc[d] = "server"
    /\ IF node[d] = "up"
       THEN serves' = [serves EXCEPT ![d] = TRUE] /\ Goes(d, "serve")
       ELSE Goes(d, "ret") /\ UNCHANGED serves
    /\ UNCHANGED <<disk, owned, repo, node, job, ghosts, left>>

Interrupt(d) ==
    /\ node[d] = "up" /\ Hurt("interrupt")
    /\ node' = [node EXCEPT ![d] = "closing"]
    /\ UNCHANGED <<disk, owned, pc, repo, serves, job, ghosts>>

\* Mutated: the server waits for the requests it has taken.
StopServing_waits(d) ==
    /\ node[d] = "closing" /\ serves[d]
    /\ \A c \in Commands : job[c].host = d => job[c].at = "sent"
    /\ serves' = [serves EXCEPT ![d] = FALSE]
    /\ port' = None
    /\ job' = [c \in Commands |-> IF job[c].host = d THEN NoJob ELSE job[c]]
    /\ UNCHANGED <<disk, lock, pc, repo, node, ghosts, left>>

\* Serve closes the listener, which resets what it has not accepted; requests
\* that have begun go on.
StopServing(d) ==
    /\ node[d] = "closing" /\ serves[d]
    /\ serves' = [serves EXCEPT ![d] = FALSE]
    /\ port' = None
    /\ job' = [c \in Commands |->
                  IF job[c].host = d /\ job[c].at = "sent" THEN NoJob ELSE job[c]]
    /\ UNCHANGED <<disk, lock, pc, repo, node, ghosts, left>>

\* The children of the node have ended; the repository is closed last.
Teardown(d) ==
    /\ node[d] = "closing" /\ ~serves[d] /\ repo[d].at = "open"
    /\ Dropped(d)
    /\ node' = [node EXCEPT ![d] = IF repo[d].refs = 1 THEN "tearing" ELSE "torn"]
    /\ UNCHANGED <<disk, owned, pc, serves, job, ghosts, left>>

TornDown(d) ==
    /\ node[d] = "tearing" /\ ~Busy(d)
    /\ node' = [node EXCEPT ![d] = "torn"]
    /\ UNCHANGED <<disk, owned, pc, repo, serves, job, ghosts, left>>

\* daemonFunc returns when its servers have; then it closes the node.
Return(d) ==
    \/ /\ pc[d] = "serve" /\ ~serves[d]
       /\ Goes(d, "ret")
       /\ UNCHANGED <<disk, owned, repo, node, serves, job, ghosts, left>>
    \/ /\ pc[d] = "ret" /\ node[d] = "up"
       /\ node' = [node EXCEPT ![d] = "closing"]
       /\ UNCHANGED <<disk, owned, pc, repo, serves, job, ghosts, left>>

\* The process does not wait for the requests it hosts.
Exit(d) ==
    /\ pc[d] = "ret" /\ node[d] = "torn"
    /\ Leaves(d)

-----------------------------------------------------------------------------
Closes(p) == RemoveApi(p) \/ CloseDatastore(p) \/ Unlock(p)

Inits(p) ==
    \/ Begin(p) \/ InitRepo(p) \/ InitConfig(p) \/ InitSpec(p)
    \/ OpenKeyspace(p) \/ CloseKeyspace(p) \/ Made(p)

\* What a process does by itself.
Main(p) == Decide(p) \/ Probe(p) \/ Probed(p) \/ Inits(p) \/ Closes(p)

Starts(d) ==
    OpenDaemon(d) \/ Prompt(d) \/ BuildNode(d) \/ Listen(d) \/ SetAPIAddr(d) \/ Serve(d)

Stops(d) == StopServing(d) \/ Teardown(d) \/ TornDown(d) \/ Return(d) \/ Exit(d)

Client(c) == Send(c) \/ RunHere(c) \/ Answered(c)

Handler(c) ==
    \/ Accept(c) \/ OpenFor(c) \/ Set(c) \/ AddBegins(c) \/ AddRefills(c)
    \/ AddSaves(c) \/ Use(c) \/ Shutdown(c) \/ ShutdownEnds(c) \/ Edit(c)
    \/ CloseFor(c) \/ ClosedFor(c) \/ Replied(c)

Happens ==
    \/ \E d \in Daemons : StartDaemon(d) \/ Fail(d) \/ Interrupt(d)
    \/ \E c \in Commands : StartCommand(c)
    \/ \E p \in Procs : Crash(p)

Work ==
    \/ \E p \in Procs : Main(p)
    \/ \E d \in Daemons : Starts(d) \/ Stops(d)
    \/ \E c \in Commands : Client(c) \/ Handler(c)

Next == Work \/ Happens

Spec == Init /\ [][Next]_vars

\* Every goroutine that can take a step takes it in the end.  No sequence of
\* steps comes back to where it was (each start is used up), so it is enough
\* that somebody goes on as long as anybody can.
FairSpec == Spec /\ WF_vars(Work)
=============================================================================
