---------------------------- MODULE Repo_proofs ----------------------------
(***************************************************************************)
(* Theorems about the processes that share a repository, for any number of *)
(* daemons, commands and restarts and whatever is killed or interrupted:   *)
(* the datastore has one owner, nobody works on a repository that another  *)
(* user of it has closed, a daemon that takes requests can be found, and,  *)
(* when only one process may initialise the directory, no setting is lost. *)
(* And about the answer that a command gets from a daemon: one that ends   *)
(* without an error is complete.                                           *)
(*                                                                         *)
(* The steps of `repo fsck` (RepoFsck) are not among those of Repo.        *)
(***************************************************************************)
EXTENDS Repo_promises, Reply, FiniteSetTheorems, SequenceTheorems, TLAPS

-----------------------------------------------------------------------------
(* The inductive invariant *)

Confs == [id : Procs \cup {None}, val : Vals, boot : SUBSET Commands]
Repos == [at : {"none", "open", "last", "unnamed", "shut"}, refs : Int, mem : Confs]
Jobs == [kind : {"none", "set", "add", "use", "shutdown", "edit", "fsck", "init"}, val : Vals,
         host : Procs \cup {None},
         at : {"none", "sent", "open", "work", "refill", "save", "wait", "close", "closing", "done"},
         cfg : Confs]

Types ==
    /\ conf \in Confs
    /\ lock \in Procs \cup {None} /\ port \in Daemons \cup {None}
    /\ pc \in [Procs -> Places]
    /\ repo \in [Procs -> Repos]
    /\ node \in [Procs -> {"none", "up", "closing", "tearing", "torn"}]
    /\ serves \in [Procs -> BOOLEAN]
    /\ job \in [Commands -> Jobs]
    /\ told.val \in Vals

\* The command of a process, and where it may be.
Node == {"set", "add", "use", "shutdown"}
JobKinds ==
    \A c \in Commands :
        /\ job[c].kind \in Kinds[c] \cup {"none"}
        /\ job[c].at = "none" <=> job[c].host = None
        /\ job[c].at = "sent" => job[c].host \in Daemons /\ job[c].kind \in Node
        /\ job[c].at = "open" => \/ job[c].kind \in {"set", "add"}
                                 \/ job[c].kind \in {"use", "shutdown"} /\ job[c].host = c
        /\ pc[c] \in {"new", "probe", "probed", "go", "send"} => job[c].at = "none" /\ job[c].kind # "none"
        /\ pc[c] = "send" => job[c].kind \in Node

\* Before it has decided where to run, a process has nothing, and hosts nobody.
Early == {"off", "new", "probe", "probed"}
Bare ==
    \A p \in Procs : pc[p] \in Early =>
        repo[p].at = "none" /\ port # p /\ \A c \in Commands : job[c].host # p

\* Who has the repository open, or has not finished closing it, has the lock.
Locked ==
    \A p \in Procs : repo[p].at # "none" \/ pc[p] = "probed" => lock = p

\* A daemon has a node from BuildNode on.
Built ==
    \A p \in Procs : /\ node[p] # "none" <=> pc[p] \in {"listen", "announce", "server", "serve", "ret"}
                     /\ serves[p] => pc[p] = "serve" /\ p \in Daemons

\* The references: one for each command that runs in the process, and one for the
\* process itself.
JobHolds(c, p) ==
    /\ job[c].host = p
    /\ \/ job[c].at \in {"refill", "save", "close"}
       \/ job[c].at = "work" /\ (job[c].kind \in {"set", "add"} \/ (job[c].kind \in {"use", "shutdown"} /\ p = c))
MainHolds(p) == pc[p] \in {"keyspace", "prompt", "build"} \/ node[p] \in {"up", "closing"}

Holders(p) == {c \in Commands : JobHolds(c, p)}

CountedAt(p) ==
    /\ IsFiniteSet(Holders(p))
    /\ repo[p].refs = Cardinality(Holders(p)) + (IF MainHolds(p) THEN 1 ELSE 0)
    /\ repo[p].at = "open" <=> repo[p].refs > 0
Counted == \A p \in Procs : CountedAt(p)

\* A daemon that has announced itself, and whose node is not yet closed, is announced.
Named ==
    \A d \in Daemons : pc[d] \in {"server", "serve"} /\ node[d] \in {"up", "closing"} => api

Base == Types /\ JobKinds /\ Bare /\ Locked /\ Built /\ Counted /\ Named

\* Who may write the config file of a new repository.
MayInit(p) == IF p \in Daemons THEN p \in Initers ELSE "init" \in Kinds[p]
OneInitialises == \A p, q \in Procs : MayInit(p) /\ MayInit(q) => p = q

\* While a process initialises the repository there is none; the config in memory is
\* that of the file, but for what an editor has written.
Settings ==
    /\ \A p \in Procs : /\ pc[p] \in {"fresh", "write"} => MayInit(p)
                        /\ pc[p] = "write" => ~IsInitialized
                        /\ repo[p].at = "open" => IsInitialized /\ repo[p].mem.id = conf.id
    /\ told.by # "editor" =>
         /\ IsInitialized => conf.val = told.val
         /\ \A p \in Procs : repo[p].at = "open" => repo[p].mem.val = told.val

IInv == Base /\ (OneInitialises => Settings)

-----------------------------------------------------------------------------
(* Types *)

LEMMA Blanks ==
    /\ NoConf \in Confs /\ NoConf.id = None /\ NoConf.val = Default
    /\ NoRepo \in Repos /\ NoRepo.at = "none" /\ NoRepo.refs = 0
    /\ NoJob \in Jobs /\ NoJob.kind = "none" /\ NoJob.at = "none" /\ NoJob.host = None
    /\ None \notin Procs /\ None \notin Daemons /\ Daemons \cap Commands = {}
BY RepoAssumption DEF NoConf, Confs, NoRepo, Repos, NoJob, Jobs, Procs

LEMMA Kinded == \A c \in Commands : Kinds[c] \subseteq {"set", "add", "use", "shutdown", "edit", "fsck", "init"}
BY RepoAssumption

LEMMA GoneTypes == ASSUME Types, NEW p \in Procs, Gone(p) PROVE Types'
BY Blanks DEF Types, Gone, Goes, disk, ghosts, Places

LEMMA OpenedTypes == ASSUME Types, NEW p \in Procs, Opened(p) PROVE repo' \in [Procs -> Repos] /\ lock' \in Procs \cup {None}
BY DEF Opened, Types, Repos

LEMMA DroppedTypes == ASSUME Types, NEW p \in Procs, Dropped(p) PROVE repo' \in [Procs -> Repos]
<1>1. repo[p] \in Repos
    BY DEF Types
<1>2. CASE repo[p].refs = 1
    <2>1. [repo[p] EXCEPT !.refs = @ - 1] \in Repos
        BY <1>1 DEF Repos
    <2>2. PICK r \in Repos : r = [repo[p] EXCEPT !.refs = @ - 1]
        BY <2>1
    <2>3. [r EXCEPT !.at = "last"] \in Repos
        BY DEF Repos
    <2>4. repo' = [repo EXCEPT ![p] = [r EXCEPT !.at = "last"]]
        BY <1>2, <2>2 DEF Dropped
    <2> QED BY <2>3, <2>4 DEF Types
<1>3. CASE repo[p].refs # 1
    <2>1. [repo[p] EXCEPT !.refs = @ - 1] \in Repos
        BY <1>1 DEF Repos
    <2>2. repo' = [repo EXCEPT ![p] = [repo[p] EXCEPT !.refs = @ - 1]]
        BY <1>1, <1>3 DEF Dropped, Types, Repos
    <2> QED BY <2>1, <2>2 DEF Types
<1> QED BY <1>2, <1>3

LEMMA TypesKept == ASSUME Types, JobKinds, Next PROVE Types'
<1> USE DEF disk, owned, threads, ghosts, Goes, To, At
<1>1. ASSUME NEW p \in Procs, Main(p) PROVE Types'
    <2>1. CASE Decide(p)
        <3>1. Place(Kind(p)) \in Places
            BY DEF Place, Places
        <3> QED BY <2>1, <3>1 DEF Decide, Types
    <2>2. CASE Probe(p)
        BY <2>2, GoneTypes DEF Probe, Types, Places, Leaves
    <2>3. CASE Probed(p)
        BY <2>3 DEF Probed, Types, Places
    <2>4. CASE Begin(p) \/ Made(p)
        BY <2>4, GoneTypes DEF Begin, Made, Types, Places, Leaves
    <2>5. CASE InitRepo(p) \/ InitSpec(p)
        BY <2>5 DEF InitRepo, InitSpec, Types, Places
    <2>6. CASE InitConfig(p)
        BY <2>6, RepoAssumption DEF InitConfig, Types, Places, Confs, NoConf, Told
    <2>7. CASE OpenKeyspace(p)
        BY <2>7, GoneTypes, OpenedTypes DEF OpenKeyspace, Types, Places, Leaves
    <2>8. CASE CloseKeyspace(p)
        BY <2>8, DroppedTypes DEF CloseKeyspace, Types, Places
    <2>9. CASE RemoveApi(p) \/ CloseDatastore(p)
        BY <2>9 DEF RemoveApi, CloseDatastore, Types, Repos
    <2>10. CASE Unlock(p)
        BY <2>10, Blanks DEF Unlock, Types
    <2> QED BY <1>1, <2>1, <2>2, <2>3, <2>4, <2>5, <2>6, <2>7, <2>8, <2>9, <2>10 DEF Main, Inits, Closes
<1>2. ASSUME NEW d \in Daemons, Starts(d) PROVE Types'
    <2>0. d \in Procs
        BY DEF Procs
    <2>1. CASE OpenDaemon(d)
        BY <2>0, <2>1, GoneTypes, OpenedTypes DEF OpenDaemon, Types, Places, Leaves
    <2>2. CASE Prompt(d)
        <3>1. CASE SetConfigKey(d, Typed)
            <4>1. conf' \in Confs
                BY <3>1, RepoAssumption DEF SetConfigKey, Types, Confs
            <4>2. repo' \in [Procs -> Repos]
                BY <2>0, <3>1, <4>1 DEF SetConfigKey, Types, Repos
            <4>3. told'.val \in Vals
                BY <3>1, RepoAssumption DEF SetConfigKey, Told
            <4> QED BY <2>0, <2>2, <4>1, <4>2, <4>3 DEF Prompt, Types, Places
        <3>2. CASE UNCHANGED <<conf, repo, told>>
            BY <2>2, <3>2 DEF Prompt, Types, Places
        <3> QED BY <2>2, <3>1, <3>2 DEF Prompt
    <2>3. CASE BuildNode(d) \/ Listen(d) \/ SetAPIAddr(d) \/ Serve(d)
        BY <2>0, <2>3 DEF BuildNode, Listen, SetAPIAddr, Serve, Types, Places
    <2> QED BY <1>2, <2>1, <2>2, <2>3 DEF Starts
<1>3. ASSUME NEW d \in Daemons, Stops(d) PROVE Types'
    <2>0. d \in Procs
        BY DEF Procs
    <2>1. CASE StopServing(d)
        BY <2>0, <2>1, Blanks DEF StopServing, Types
    <2>2. CASE Teardown(d)
        BY <2>0, <2>2, DroppedTypes DEF Teardown, Types
    <2>3. CASE TornDown(d) \/ Return(d)
        BY <2>0, <2>3 DEF TornDown, Return, Types, Places
    <2>4. CASE Exit(d)
        BY <2>0, <2>4, GoneTypes DEF Exit, Leaves
    <2> QED BY <1>3, <2>1, <2>2, <2>3, <2>4 DEF Stops
<1>4. ASSUME NEW c \in Commands, Client(c) PROVE Types'
    <2>0. c \in Procs
        BY DEF Procs
    <2>1. CASE Send(c)
        BY <2>0, <2>1, GoneTypes DEF Send, Types, Places, Jobs, Leaves, Procs
    <2>2. CASE RunHere(c)
        <3>1. PICK w \in {"work", "open"} : w = IF job[c].kind \in {"edit", "fsck"} THEN "work" ELSE "open"
            OBVIOUS
        <3>2. job' = [job EXCEPT ![c] = [job[c] EXCEPT !.host = c, !.at = w]]
            BY <2>2, <3>1 DEF RunHere, Types, Jobs
        <3>3. [job[c] EXCEPT !.host = c, !.at = w] \in Jobs
            BY <2>0 DEF Types, Jobs
        <3> QED BY <2>0, <2>2, <3>2, <3>3 DEF RunHere, Types, Places
    <2>3. CASE Answered(c)
        BY <2>0, <2>3, GoneTypes DEF Answered, Leaves
    <2> QED BY <1>4, <2>1, <2>2, <2>3 DEF Client
<1>5. ASSUME NEW c \in Commands, Handler(c) PROVE Types'
    <2>1. CASE Accept(c) \/ Use(c) \/ ShutdownEnds(c) \/ ClosedFor(c)
        BY <2>1 DEF Accept, Use, ShutdownEnds, ClosedFor, Types, Jobs
    <2>2. CASE Replied(c)
        BY <2>2, Blanks DEF Replied, Types
    <2>3. job[c].at # "none" => job[c].host \in Procs
        BY DEF JobKinds, Types, Jobs
    <2>4. CASE OpenFor(c)
        BY <2>3, <2>4, OpenedTypes DEF OpenFor, Types, Jobs
    <2>5. CASE Set(c)
        <3>1. conf' \in Confs
            BY <2>5 DEF Set, SetConfigKey, Types, Confs, Jobs
        <3>2. repo' \in [Procs -> Repos]
            <4>1. PICK h \in Procs : h = job[c].host
                BY <2>3, <2>5 DEF Set
            <4>2. repo' = [repo EXCEPT ![h] = [repo[h] EXCEPT !.mem = conf']]
                BY <2>5, <4>1 DEF Set, SetConfigKey
            <4>3. repo \in [Procs -> Repos] /\ [repo[h] EXCEPT !.mem = conf'] \in Repos
                BY <3>1 DEF Types, Repos
            <4> QED BY <4>2, <4>3
        <3>3. job' \in [Commands -> Jobs] /\ told'.val \in Vals
            BY <2>5 DEF Set, SetConfigKey, Types, Jobs, Told
        <3> QED BY <2>5, <3>1, <3>2, <3>3 DEF Set, Types
    <2>6. CASE AddBegins(c) \/ AddRefills(c)
        <3>1. PICK h \in Procs : h = job[c].host
            BY <2>3, <2>6 DEF AddBegins, AddRefills
        <3>2. PICK m \in Confs : m = repo[h].mem
            BY DEF Types, Repos
        <3>3. repo[h] \in Repos /\ job[c] \in Jobs
            BY DEF Types
        <3>4. CASE AddBegins(c)
            <4>1. [m EXCEPT !.boot = {}] \in Confs
                BY DEF Confs
            <4>2. [repo[h] EXCEPT !.mem = [m EXCEPT !.boot = {}]] \in Repos
                BY <3>3, <4>1 DEF Repos
            <4>3. repo' = [repo EXCEPT ![h] = [repo[h] EXCEPT !.mem = [m EXCEPT !.boot = {}]]]
                BY <3>1, <3>2, <3>4 DEF AddBegins
            <4>4. job' = [job EXCEPT ![c] = [job[c] EXCEPT !.at = "refill", !.cfg = m]]
                BY <3>1, <3>2, <3>3, <3>4 DEF AddBegins, Types, Jobs
            <4>5. [job[c] EXCEPT !.at = "refill", !.cfg = m] \in Jobs
                BY <3>3 DEF Jobs
            <4>6. repo' \in [Procs -> Repos] /\ job' \in [Commands -> Jobs]
                BY <4>2, <4>3, <4>4, <4>5 DEF Types
            <4> QED BY <3>4, <4>6 DEF AddBegins, Types
        <3>5. CASE AddRefills(c)
            <4> DEFINE b == job[c].cfg.boot \cup {c}
            <4>1. [m EXCEPT !.boot = b] \in Confs
                BY <3>3 DEF Confs, Jobs
            <4>2. [repo[h] EXCEPT !.mem = [m EXCEPT !.boot = b]] \in Repos
                BY <3>3, <4>1 DEF Repos
            <4>3. repo' = [repo EXCEPT ![h] = [repo[h] EXCEPT !.mem = [m EXCEPT !.boot = b]]]
                BY <3>1, <3>2, <3>5 DEF AddRefills
            <4>4. job' \in [Commands -> Jobs]
                BY <3>3, <3>5 DEF AddRefills, Types, Jobs
            <4> QED BY <3>5, <4>2, <4>3, <4>4 DEF AddRefills, Types
        <3> QED BY <2>6, <3>4, <3>5
    <2>7. CASE AddSaves(c)
        <3>1. repo[job[c].host].mem \in Confs
            BY <2>3, <2>7 DEF AddSaves, Types, Repos
        <3>2. conf' \in Confs
            BY <2>7, <3>1 DEF AddSaves, Shared, Types, Confs
        <3>3. job[c] \in Jobs
            BY DEF Types
        <3>4. [job[c] EXCEPT !.at = "close", !.cfg = NoConf] \in Jobs
            BY <3>3, Blanks DEF Jobs
        <3>5. job' = [job EXCEPT ![c] = [job[c] EXCEPT !.at = "close", !.cfg = NoConf]]
            BY <2>7, <3>3 DEF AddSaves, Types, Jobs
        <3> QED BY <2>7, <3>2, <3>4, <3>5 DEF AddSaves, Types
    <2>8. CASE Shutdown(c)
        BY <2>3, <2>8 DEF Shutdown, Types, Jobs
    <2>9. CASE Edit(c)
        <3>1. job' \in [Commands -> Jobs]
            <4>1. [job[c] EXCEPT !.at = "done"] \in Jobs
                BY DEF Types, Jobs
            <4>2. job' = [job EXCEPT ![c] = [job[c] EXCEPT !.at = "done"]]
                BY <2>9 DEF Edit, Types
            <4> QED BY <4>1, <4>2 DEF Types
        <3>2. conf' \in Confs /\ told'.val \in Vals
            <4>1. job[c].val \in Vals
                BY DEF Types, Jobs
            <4>2. [conf EXCEPT !.val = job[c].val] \in Confs
                BY <4>1 DEF Types, Confs
            <4> QED BY <2>9, <4>1, <4>2 DEF Edit, Types, Told
        <3> QED BY <2>9, <3>1, <3>2 DEF Edit, Types
    <2>10. CASE CloseFor(c)
        BY <2>3, <2>10, DroppedTypes DEF CloseFor, Types, Jobs
    <2> QED BY <1>5, <2>1, <2>2, <2>4, <2>5, <2>6, <2>7, <2>8, <2>9, <2>10 DEF Handler
<1>6. CASE Happens
    <2>1. ASSUME NEW d \in Daemons, StartDaemon(d) \/ Fail(d) \/ Interrupt(d) PROVE Types'
        BY <2>1 DEF StartDaemon, Fail, Interrupt, Types, Places, Procs
    <2>2. ASSUME NEW c \in Commands, StartCommand(c) PROVE Types'
        <3>1. PICK k \in Kinds[c], v \in Vals \ {Default, Typed} :
                job' = [job EXCEPT ![c] = [NoJob EXCEPT !.kind = k, !.val = IF k \in {"set", "edit"} THEN v ELSE @]]
            BY <2>2 DEF StartCommand
        <3>2. [NoJob EXCEPT !.kind = k, !.val = IF k \in {"set", "edit"} THEN v ELSE @] \in Jobs
            BY Blanks, Kinded DEF Jobs
        <3> QED BY <2>2, <3>1, <3>2 DEF StartCommand, Types, Places, Procs
    <2>3. ASSUME NEW p \in Procs, Crash(p) PROVE Types'
        BY <2>3, GoneTypes DEF Crash
    <2> QED BY <1>6, <2>1, <2>2, <2>3 DEF Happens
<1> QED BY <1>1, <1>2, <1>3, <1>4, <1>5, <1>6 DEF Next, Work

-----------------------------------------------------------------------------
(* What the recurring parts of the steps do *)

LEMMA GoesDoes ==
    ASSUME Types, NEW p \in Procs, NEW x, Goes(p, x)
    PROVE  \A q \in Procs : pc'[q] = IF q = p THEN x ELSE pc[q]
BY DEF Types, Goes

LEMMA ToDoes ==
    ASSUME Types, NEW c \in Commands, NEW x, To(c, x)
    PROVE  \A b \in Commands : /\ job'[b].at = IF b = c THEN x ELSE job[b].at
                               /\ job'[b].host = job[b].host /\ job'[b].kind = job[b].kind
BY DEF Types, To, Jobs

LEMMA GoneDoes ==
    ASSUME Types, NEW p \in Procs, Gone(p)
    PROVE  /\ \A q \in Procs : /\ pc'[q] = IF q = p THEN "off" ELSE pc[q]
                               /\ node'[q] = IF q = p THEN "none" ELSE node[q]
                               /\ serves'[q] <=> serves[q] /\ q # p
                               /\ repo'[q] = IF q = p THEN NoRepo ELSE repo[q]
           /\ \A c \in Commands : job'[c] = IF job[c].host = p \/ (c = p /\ job[c].host = None)
                                            THEN NoJob ELSE job[c]
           /\ lock' = (IF lock = p THEN None ELSE lock) /\ port' = (IF port = p THEN None ELSE port)
           /\ UNCHANGED <<conf, layout, api, told, added>>
BY DEF Types, Gone, Goes, disk, ghosts

\* The caller has the reference it asked for.
LEMMA OpenedDoes ==
    ASSUME Types, NEW p \in Procs, Opened(p), CanOpen(p)
    PROVE  /\ \A q \in Procs : q # p => repo'[q] = repo[q]
           /\ repo'[p].at = "open"
           /\ \/ /\ repo[p].at = "open" /\ repo'[p].refs = repo[p].refs + 1 /\ repo'[p].mem = repo[p].mem
                 /\ lock' = lock
              \/ /\ repo[p].at = "none" /\ repo'[p].refs = 1 /\ repo'[p].mem = conf
                 /\ IsInitialized /\ lock = None /\ lock' = p
BY DEF Types, Repos, Opened, CanOpen

LEMMA DroppedDoes ==
    ASSUME Types, NEW p \in Procs, Dropped(p)
    PROVE  /\ \A q \in Procs : q # p => repo'[q] = repo[q]
           /\ repo'[p].refs = repo[p].refs - 1 /\ repo'[p].mem = repo[p].mem
           /\ repo'[p].at = IF repo[p].refs = 1 THEN "last" ELSE repo[p].at
BY DEF Types, Repos, Dropped

-----------------------------------------------------------------------------
(* The commands *)

Undecided == {"new", "probe", "probed", "go", "send"}

LEMMA JobKindsSame ==
    ASSUME JobKinds, job' = job,
           \A c \in Commands : pc'[c] \in Undecided => pc[c] \in Undecided /\ (pc'[c] = "send" => pc[c] = "send")
    PROVE  JobKinds'
BY DEF JobKinds, Undecided

LEMMA JobKindsKept == ASSUME Types, JobKinds, Bare, Next PROVE JobKinds'
<1> USE DEF disk, owned, threads, ghosts, Leaves
<1>0. Commands \subseteq Procs /\ Daemons \subseteq Procs
    BY DEF Procs
<1>1. ASSUME NEW p \in Procs, Gone(p) PROVE JobKinds'
    <2>1. \A c \in Commands : pc'[c] = IF c = p THEN "off" ELSE pc[c]
        <3>1. \A q \in Procs : pc'[q] = IF q = p THEN "off" ELSE pc[q]
            BY <1>1, GoneDoes
        <3> QED BY <1>0, <3>1
    <2>2. \A c \in Commands : job'[c] = IF job[c].host = p \/ (c = p /\ job[c].host = None)
                                       THEN NoJob ELSE job[c]
        BY <1>1, GoneDoes
    <2>3. \A c \in Commands : pc[c] \in Undecided => job[c].host = None
        BY DEF JobKinds, Undecided
    <2>4. \A c \in Commands : pc'[c] \in Undecided => pc'[c] = pc[c] /\ job'[c] = job[c]
        BY <2>1, <2>2, <2>3, Blanks DEF Undecided
    <2>5. \A c \in Commands : job'[c] = job[c] \/ job'[c] = NoJob
        BY <2>2
    <2> QED BY <2>4, <2>5, Blanks DEF JobKinds, Undecided
<1>2. ASSUME NEW p \in Procs, job' = job, NEW x, Goes(p, x), x \notin Undecided PROVE JobKinds'
    BY <1>0, <1>2, GoesDoes, JobKindsSame
<1>3. ASSUME NEW p \in Procs, Main(p) PROVE JobKinds'
    <2>1. CASE Decide(p)
        <3>1. p \in Commands /\ Place(Kind(p)) = "send" => job[p].kind \in Node
            BY <2>1, Blanks DEF Decide, Place, Kind, JobKinds, Types, Jobs, Node
        <3>2. \A q \in Procs : pc'[q] = IF q = p THEN Place(Kind(p)) ELSE pc[q]
            BY <2>1, GoesDoes DEF Decide
        <3> QED BY <1>0, <2>1, <3>1, <3>2 DEF Decide, JobKinds
    <2>2. CASE Probe(p) \/ Probed(p)
        BY <1>0, <1>1, <2>2, GoesDoes, JobKindsSame DEF Probe, Probed, Undecided
    <2>3. CASE Inits(p)
        BY <1>1, <1>2, <2>3 DEF Inits, Begin, InitRepo, InitConfig, InitSpec, OpenKeyspace, CloseKeyspace, Made, Undecided
    <2>4. CASE Closes(p)
        BY <1>0, <2>4, JobKindsSame DEF Closes, RemoveApi, CloseDatastore, Unlock
    <2> QED BY <1>3, <2>1, <2>2, <2>3, <2>4 DEF Main
<1>4. ASSUME NEW d \in Daemons, Starts(d) PROVE JobKinds'
    BY <1>0, <1>1, <1>2, <1>4 DEF Starts, OpenDaemon, Prompt, BuildNode, Listen, SetAPIAddr, Serve, Undecided
<1>5. ASSUME NEW d \in Daemons, Stops(d) PROVE JobKinds'
    <2>1. CASE StopServing(d)
        <3>1. \A c \in Commands : job'[c] = job[c] \/ (job[c].at = "sent" /\ job'[c] = NoJob)
            BY <2>1 DEF StopServing, Types
        <3>2. pc' = pc
            BY <2>1 DEF StopServing
        <3> QED BY <3>1, <3>2, Blanks DEF JobKinds
    <2>2. CASE Teardown(d) \/ TornDown(d)
        BY <2>2, JobKindsSame DEF Teardown, TornDown
    <2>3. CASE Return(d)
        BY <1>0, <1>2, <2>3, JobKindsSame DEF Return, Undecided
    <2>4. CASE Exit(d)
        BY <1>0, <1>1, <2>4 DEF Exit
    <2> QED BY <1>5, <2>1, <2>2, <2>3, <2>4 DEF Stops
<1>6. ASSUME NEW c \in Commands, Client(c) PROVE JobKinds'
    <2>1. CASE Send(c)
        <3>1. CASE port = None
            BY <1>0, <1>1, <2>1, <3>1 DEF Send
        <3>2. CASE port # None
            <4>1. port \in Daemons /\ pc[c] = "send"
                BY <2>1, <3>2 DEF Send, Types
            <4>2. \A q \in Procs : pc'[q] = IF q = c THEN "waiting" ELSE pc[q]
                BY <1>0, <2>1, <3>2, GoesDoes DEF Send
            <4>3. /\ \A b \in Commands : b # c => job'[b] = job[b]
                  /\ job'[c].host = port /\ job'[c].at = "sent" /\ job'[c].kind = job[c].kind
                BY <2>1, <3>2 DEF Send, Types, Jobs
            <4> QED BY <1>0, <4>1, <4>2, <4>3, Blanks DEF JobKinds
        <3> QED BY <3>1, <3>2
    <2>2. CASE RunHere(c)
        <3>1. \A q \in Procs : pc'[q] = IF q = c THEN "run" ELSE pc[q]
            BY <1>0, <2>2, GoesDoes DEF RunHere
        <3>2. /\ \A b \in Commands : b # c => job'[b] = job[b]
              /\ job'[c].host = c /\ job'[c].kind = job[c].kind
              /\ job'[c].at = IF job[c].kind \in {"edit", "fsck"} THEN "work" ELSE "open"
            BY <2>2 DEF RunHere, Types, Jobs
        <3>3. job[c].kind \in {"set", "add", "use", "shutdown", "edit", "fsck"}
            BY <2>2 DEF RunHere, JobKinds, Types, Jobs
        <3> QED BY <1>0, <3>1, <3>2, <3>3, Blanks DEF JobKinds
    <2>3. CASE Answered(c)
        BY <1>0, <1>1, <2>3 DEF Answered
    <2> QED BY <1>6, <2>1, <2>2, <2>3 DEF Client
<1>7. ASSUME NEW c \in Commands, Handler(c) PROVE JobKinds'
    <2>1. pc' = pc
        BY <1>7 DEF Handler, Accept, OpenFor, Set, AddBegins, AddRefills, AddSaves, Use, Shutdown, ShutdownEnds,
                    Edit, CloseFor, ClosedFor, Replied
    <2>2. ASSUME NEW x, x \in {"work", "wait", "close", "closing", "done", "refill", "save"}, job[c].at # "none",
                 \A b \in Commands : b # c => job'[b] = job[b],
                 job'[c].at = x, job'[c].host = job[c].host, job'[c].kind = job[c].kind
          PROVE  JobKinds'
        BY <2>1, <2>2 DEF JobKinds
    <2>3. CASE Accept(c)
        <3>1. /\ \A b \in Commands : b # c => job'[b] = job[b]
              /\ job'[c].host = job[c].host /\ job'[c].kind = job[c].kind
              /\ job'[c].at = IF job[c].kind \in {"use", "shutdown"} THEN "work" ELSE "open"
              /\ job[c].at = "sent"
            BY <2>3 DEF Accept, Types, Jobs
        <3> QED BY <2>1, <3>1 DEF JobKinds, Node
    <2>4. CASE OpenFor(c) \/ Set(c) \/ Use(c) \/ Shutdown(c) \/ ShutdownEnds(c) \/ Edit(c) \/ CloseFor(c) \/ ClosedFor(c)
               \/ AddRefills(c)
        <3>1. job[c].at # "none" /\ \E x \in {"work", "wait", "close", "closing", "done", "save"} : To(c, x)
            BY <2>4 DEF OpenFor, Set, Use, Shutdown, ShutdownEnds, Edit, CloseFor, ClosedFor, AddRefills, At
        <3>2. PICK x \in {"work", "wait", "close", "closing", "done", "save"} : To(c, x)
            BY <3>1
        <3>3. \A b \in Commands : b # c => job'[b] = job[b]
            BY <3>2 DEF To, Types
        <3> QED BY <2>2, <3>1, <3>2, <3>3, ToDoes
    <2>5. CASE AddBegins(c) \/ AddSaves(c)
        <3>1. job[c].at # "none" /\ \A b \in Commands : b # c => job'[b] = job[b]
            BY <2>5 DEF AddBegins, AddSaves, At, Types
        <3>2. job'[c].at \in {"refill", "close"} /\ job'[c].host = job[c].host /\ job'[c].kind = job[c].kind
            BY <2>5 DEF AddBegins, AddSaves, Types, Jobs
        <3> QED BY <2>2, <3>1, <3>2
    <2>6. CASE Replied(c)
        <3>1. job[c].at = "done" /\ \A b \in Commands : job'[b] = IF b = c THEN NoJob ELSE job[b]
            BY <2>6 DEF Replied, Types
        <3> QED BY <2>1, <3>1, Blanks DEF JobKinds
    <2> QED BY <1>7, <2>3, <2>4, <2>5, <2>6 DEF Handler
<1>8. CASE Happens
    <2>1. ASSUME NEW d \in Daemons, StartDaemon(d) PROVE JobKinds'
        BY <1>0, <2>1, GoesDoes, JobKindsSame, Blanks DEF StartDaemon
    <2>2. ASSUME NEW d \in Daemons, Fail(d) PROVE JobKinds'
        BY <1>0, <1>2, <2>2 DEF Fail, Undecided
    <2>3. ASSUME NEW d \in Daemons, Interrupt(d) PROVE JobKinds'
        BY <2>3, JobKindsSame DEF Interrupt
    <2>4. ASSUME NEW c \in Commands, StartCommand(c) PROVE JobKinds'
        <3>1. PICK k \in Kinds[c] : \E v \in Vals \ {Default, Typed} :
                job' = [job EXCEPT ![c] = [NoJob EXCEPT !.kind = k, !.val = IF k \in {"set", "edit"} THEN v ELSE @]]
            BY <2>4 DEF StartCommand
        <3>2. PICK r : \E v \in Vals \ {Default, Typed} :
                r = [NoJob EXCEPT !.kind = k, !.val = IF k \in {"set", "edit"} THEN v ELSE @] /\ job' = [job EXCEPT ![c] = r]
            BY <3>1
        <3>3. r.kind = k /\ r.host = None /\ r.at = "none"
            BY <3>2, Blanks DEF NoJob
        <3>4. \A b \in Commands : job'[b] = IF b = c THEN r ELSE job[b]
            BY <3>2 DEF Types
        <3>5. \A q \in Procs : pc'[q] = IF q = c THEN "new" ELSE pc[q]
            BY <1>0, <2>4, GoesDoes DEF StartCommand
        <3>6. k # "none"
            BY Kinded
        <3> QED BY <1>0, <3>3, <3>4, <3>5, <3>6 DEF JobKinds
    <2>5. ASSUME NEW p \in Procs, Crash(p) PROVE JobKinds'
        BY <1>1, <2>5 DEF Crash
    <2> QED BY <1>8, <2>1, <2>2, <2>3, <2>4, <2>5 DEF Happens
<1> QED BY <1>3, <1>4, <1>5, <1>6, <1>7, <1>8 DEF Next, Work

-----------------------------------------------------------------------------
(* Counting references *)

\* Nobody who holds a reference implies that the repository is not open, and conversely.
LEMMA Open ==
    ASSUME Types, Counted, NEW p \in Procs
    PROVE  /\ MainHolds(p) \/ (\E c \in Commands : JobHolds(c, p)) => repo[p].at = "open" /\ repo[p].refs >= 1
           /\ repo[p].at # "open" => repo[p].refs = 0 /\ Holders(p) = {} /\ ~MainHolds(p)
           /\ Cardinality(Holders(p)) \in Nat
<1>1. Cardinality(Holders(p)) \in Nat /\ CountedAt(p)
    BY FS_CardinalityType DEF Counted, CountedAt
<1>2. \A c \in Commands : JobHolds(c, p) => Holders(p) # {}
    BY DEF Holders
<1>3. Holders(p) # {} => Cardinality(Holders(p)) # 0
    BY <1>1, FS_EmptySet DEF CountedAt
<1>4. MainHolds(p) \/ Holders(p) # {} => repo[p].refs >= 1
    BY <1>1, <1>3 DEF CountedAt
<1>5. repo[p].at # "open" => repo[p].refs <= 0 /\ repo[p].refs \in Int
    BY <1>1 DEF CountedAt, Types, Repos
<1>6. repo[p].refs >= 0
    BY <1>1 DEF CountedAt
<1>7. repo[p].refs >= 1 => repo[p].at = "open"
    BY <1>1 DEF CountedAt
<1> QED BY <1>1, <1>2, <1>4, <1>5, <1>6, <1>7

LEMMA SameCount ==
    ASSUME NEW p \in Procs, CountedAt(p), MainHolds(p)' <=> MainHolds(p),
           \A c \in Commands : JobHolds(c, p)' <=> JobHolds(c, p),
           repo'[p].refs = repo[p].refs, repo'[p].at = "open" <=> repo[p].at = "open"
    PROVE  CountedAt(p)'
<1>1. Holders(p)' = Holders(p)
    BY DEF Holders
<1> QED BY <1>1 DEF CountedAt

LEMMA OneMore ==
    ASSUME Types, Counted, NEW p \in Procs, Opened(p), CanOpen(p),
           \/ /\ MainHolds(p)' /\ ~MainHolds(p)
              /\ \A b \in Commands : JobHolds(b, p)' <=> JobHolds(b, p)
           \/ /\ MainHolds(p)' <=> MainHolds(p)
              /\ \E c \in Commands : /\ JobHolds(c, p)' /\ ~JobHolds(c, p)
                                     /\ \A b \in Commands \ {c} : JobHolds(b, p)' <=> JobHolds(b, p)
    PROVE  CountedAt(p)'
<1>1. repo'[p].at = "open" /\ repo'[p].refs = repo[p].refs + 1
    <2>1. repo[p].at = "none" => repo[p].refs = 0
        BY Open
    <2> QED BY <2>1, OpenedDoes
<1>2. CountedAt(p) /\ Cardinality(Holders(p)) \in Nat
    BY Open DEF Counted
<1>3. CASE MainHolds(p)' /\ ~MainHolds(p) /\ \A b \in Commands : JobHolds(b, p)' <=> JobHolds(b, p)
    <2>1. Holders(p)' = Holders(p)
        BY <1>3 DEF Holders
    <2> QED BY <1>1, <1>2, <1>3, <2>1 DEF CountedAt
<1>4. ASSUME NEW c \in Commands, JobHolds(c, p)', ~JobHolds(c, p), MainHolds(p)' <=> MainHolds(p),
             \A b \in Commands \ {c} : JobHolds(b, p)' <=> JobHolds(b, p)
      PROVE  CountedAt(p)'
    <2>1. Holders(p)' = Holders(p) \cup {c} /\ c \notin Holders(p)
        BY <1>4 DEF Holders
    <2>2. IsFiniteSet(Holders(p)') /\ Cardinality(Holders(p)') = Cardinality(Holders(p)) + 1
        BY <1>2, <2>1, FS_AddElement DEF CountedAt
    <2> QED BY <1>1, <1>2, <1>4, <2>2 DEF CountedAt
<1> QED BY <1>3, <1>4

LEMMA OneLess ==
    ASSUME Types, Counted, NEW p \in Procs, Dropped(p),
           \/ /\ ~MainHolds(p)' /\ MainHolds(p)
              /\ \A b \in Commands : JobHolds(b, p)' <=> JobHolds(b, p)
           \/ /\ MainHolds(p)' <=> MainHolds(p)
              /\ \E c \in Commands : /\ ~JobHolds(c, p)' /\ JobHolds(c, p)
                                     /\ \A b \in Commands \ {c} : JobHolds(b, p)' <=> JobHolds(b, p)
    PROVE  CountedAt(p)'
<1>1. repo[p].at = "open" /\ repo[p].refs \in Int /\ repo[p].refs >= 1
    BY Open DEF Types, Repos
<1>2. repo'[p].refs = repo[p].refs - 1 /\ (repo'[p].at = "open" <=> repo'[p].refs > 0)
    BY <1>1, DroppedDoes
<1>3. CountedAt(p) /\ Cardinality(Holders(p)) \in Nat
    BY Open DEF Counted
<1>4. CASE ~MainHolds(p)' /\ MainHolds(p) /\ \A b \in Commands : JobHolds(b, p)' <=> JobHolds(b, p)
    <2>1. Holders(p)' = Holders(p)
        BY <1>4 DEF Holders
    <2> QED BY <1>2, <1>3, <1>4, <2>1 DEF CountedAt
<1>5. ASSUME NEW c \in Commands, ~JobHolds(c, p)', JobHolds(c, p), MainHolds(p)' <=> MainHolds(p),
             \A b \in Commands \ {c} : JobHolds(b, p)' <=> JobHolds(b, p)
      PROVE  CountedAt(p)'
    <2>1. Holders(p)' = Holders(p) \ {c} /\ c \in Holders(p)
        BY <1>5 DEF Holders
    <2>2. IsFiniteSet(Holders(p)') /\ Cardinality(Holders(p)') = Cardinality(Holders(p)) - 1
        BY <1>3, <2>1, FS_RemoveElement DEF CountedAt
    <2> QED BY <1>2, <1>3, <1>5, <2>2 DEF CountedAt
<1> QED BY <1>4, <1>5

-----------------------------------------------------------------------------
(* Places, locks and references *)

Shape == Bare /\ Locked /\ Built /\ Counted
Noded == {"listen", "announce", "server", "serve", "ret"}
Holding == {"keyspace", "prompt", "build"}

\* Whose repository is as open as before, and who holds no more references.
LEMMA CountedSame ==
    ASSUME Counted, \A p \in Procs : /\ MainHolds(p)' <=> MainHolds(p)
                                     /\ repo'[p].refs = repo[p].refs /\ repo'[p].at = repo[p].at,
           \A c \in Commands, p \in Procs : JobHolds(c, p)' <=> JobHolds(c, p)
    PROVE  Counted'
BY SameCount DEF Counted

\* A step of one process that has its references before and after.
LEMMA Moves ==
    ASSUME Types, Shape, NEW p \in Procs, NEW y, Goes(p, y), y \in Early => pc[p] \in Early, y # "probed",
           UNCHANGED <<port, lock, node, serves, job>>,
           \A q \in Procs : repo'[q].refs = repo[q].refs /\ repo'[q].at = repo[q].at,
           y \in Noded <=> pc[p] \in Noded, y \in Holding <=> pc[p] \in Holding, ~serves[p]
    PROVE  Shape'
<1>1. \A q \in Procs : pc'[q] = IF q = p THEN y ELSE pc[q]
    BY GoesDoes
<1>2. Bare' /\ Locked' /\ Built'
    BY <1>1 DEF Shape, Bare, Locked, Built, Noded
<1>3. \A c \in Commands, q \in Procs : JobHolds(c, q)' <=> JobHolds(c, q)
    BY DEF JobHolds
<1>4. \A q \in Procs : MainHolds(q)' <=> MainHolds(q)
    BY <1>1 DEF MainHolds, Holding
<1> QED BY <1>2, <1>3, <1>4, CountedSame DEF Shape

\* The end of a process ends its commands, and no other process is the worse for it.
LEMMA GoneShape == ASSUME Types, JobKinds, Shape, NEW p \in Procs, Gone(p) PROVE Shape'
<1>1. /\ \A q \in Procs : /\ pc'[q] = IF q = p THEN "off" ELSE pc[q]
                          /\ node'[q] = IF q = p THEN "none" ELSE node[q]
                          /\ serves'[q] <=> serves[q] /\ q # p
                          /\ repo'[q] = IF q = p THEN NoRepo ELSE repo[q]
      /\ \A c \in Commands : job'[c] = IF job[c].host = p \/ (c = p /\ job[c].host = None) THEN NoJob ELSE job[c]
      /\ lock' = (IF lock = p THEN None ELSE lock) /\ port' = (IF port = p THEN None ELSE port)
    BY GoneDoes
<1>2. Bare' /\ Locked' /\ Built'
    BY <1>1, Blanks DEF Shape, Bare, Locked, Built
<1>3. ASSUME NEW q \in Procs, q # p PROVE CountedAt(q)'
    <2>1. \A c \in Commands : JobHolds(c, q)' <=> JobHolds(c, q)
        BY <1>1, <1>3, Blanks DEF JobHolds
    <2>2. MainHolds(q)' <=> MainHolds(q)
        BY <1>1, <1>3 DEF MainHolds
    <2> QED BY <1>1, <1>3, <2>1, <2>2, SameCount DEF Shape, Counted
<1>4. CountedAt(p)'
    <2>1. Holders(p)' = {} /\ ~MainHolds(p)'
        BY <1>1, Blanks DEF Holders, JobHolds, MainHolds
    <2>2. repo'[p].refs = 0 /\ repo'[p].at = "none"
        BY <1>1, Blanks
    <2> QED BY <2>1, <2>2, FS_EmptySet DEF CountedAt
<1> QED BY <1>2, <1>3, <1>4 DEF Shape, Counted

LEMMA ProbeShape == ASSUME Types, Shape, NEW p \in Procs, Probe(p) \/ Probed(p), ~Gone(p) PROVE Shape'
<1>1. /\ UNCHANGED <<port, repo, node, serves, job>>
      /\ \/ pc[p] = "probe" /\ lock = None /\ lock' = p /\ Goes(p, "probed")
         \/ pc[p] = "probed" /\ lock' = (IF lock = p THEN None ELSE lock) /\ Goes(p, "go")
    BY DEF Probe, Probed, Leaves
<1>2. \A q \in Procs : q # p => pc'[q] = pc[q]
    BY <1>1, GoesDoes
<1>3. \/ pc[p] = "probe" /\ lock = None /\ lock' = p /\ pc'[p] = "probed"
      \/ pc[p] = "probed" /\ lock' = (IF lock = p THEN None ELSE lock) /\ pc'[p] = "go"
    BY <1>1, GoesDoes
<1>4. Bare' /\ Built'
    BY <1>1, <1>2, <1>3 DEF Shape, Bare, Built, Early
<1>5. Locked'
    BY <1>1, <1>2, <1>3, Blanks DEF Shape, Bare, Locked, Early
<1>6. \A q \in Procs : MainHolds(q)' <=> MainHolds(q)
    BY <1>1, <1>2, <1>3 DEF MainHolds
<1>7. \A c \in Commands, q \in Procs : JobHolds(c, q)' <=> JobHolds(c, q)
    BY <1>1 DEF JobHolds
<1> QED BY <1>1, <1>4, <1>5, <1>6, <1>7, CountedSame DEF Shape

\* A process that opens the repository for itself.
LEMMA OpenShape ==
    ASSUME Types, Shape, NEW p \in Procs, NEW y \in Holding, Goes(p, y), Opened(p), CanOpen(p),
           pc[p] \notin Early \cup Holding \cup Noded, UNCHANGED <<port, node, serves, job>>
    PROVE  Shape'
<1>1. \A q \in Procs : pc'[q] = IF q = p THEN y ELSE pc[q]
    BY GoesDoes
<1>2. /\ \A q \in Procs : q # p => repo'[q] = repo[q]
      /\ repo'[p].at = "open"
      /\ (repo[p].at = "open" /\ lock' = lock) \/ (lock = None /\ lock' = p)
    BY OpenedDoes
<1>3. Bare' /\ Locked' /\ Built'
    BY <1>1, <1>2, Blanks DEF Shape, Bare, Locked, Built, Holding, Early, Noded
<1>4. \A c \in Commands, q \in Procs : JobHolds(c, q)' <=> JobHolds(c, q)
    BY DEF JobHolds
<1>5. MainHolds(p)' /\ ~MainHolds(p) /\ \A q \in Procs : q # p => (MainHolds(q)' <=> MainHolds(q))
    BY <1>1 DEF MainHolds, Shape, Built, Noded, Holding
<1>6. CountedAt(p)'
    BY <1>4, <1>5, OneMore DEF Shape
<1>7. \A q \in Procs : q # p => CountedAt(q)'
    BY <1>2, <1>4, <1>5, SameCount DEF Shape, Counted
<1> QED BY <1>3, <1>6, <1>7 DEF Shape, Counted

LEMMA ClosesShape == ASSUME Types, Shape, NEW p \in Procs, Closes(p) PROVE Shape'
<1>1. /\ UNCHANGED <<port, pc, node, serves, job>> /\ repo[p].at \in {"last", "unnamed", "shut"}
      /\ \A q \in Procs : q # p => repo'[q] = repo[q]
      /\ repo'[p].at \in {"none", "unnamed", "shut"} /\ (repo'[p].refs = repo[p].refs \/ repo'[p].refs = 0)
      /\ lock' = lock \/ (repo'[p].at = "none" /\ lock' = (IF lock = p THEN None ELSE lock))
    BY Blanks DEF Closes, RemoveApi, CloseDatastore, Unlock, Types, Repos, owned, threads
<1>2. Bare' /\ Locked' /\ Built'
    BY <1>1 DEF Shape, Bare, Locked, Built, Early
<1>3. \A c \in Commands, q \in Procs : JobHolds(c, q)' <=> JobHolds(c, q)
    BY <1>1 DEF JobHolds
<1>4. \A q \in Procs : MainHolds(q)' <=> MainHolds(q)
    BY <1>1 DEF MainHolds
<1>5. repo[p].refs = 0 /\ repo'[p].refs = 0
    BY <1>1, Open DEF Shape
<1>6. \A q \in Procs : CountedAt(q)'
    BY <1>1, <1>3, <1>4, <1>5, SameCount DEF Shape, Counted
<1> QED BY <1>2, <1>6 DEF Shape, Counted

LEMMA MainShape == ASSUME Types, JobKinds, Shape, NEW p \in Procs, Main(p) PROVE Shape'
<1> USE DEF disk, owned, threads, ghosts, Leaves
<1>0. pc[p] \notin Noded => ~serves[p]
    BY DEF Shape, Built, Noded
<1>1. CASE Gone(p)
    BY <1>1, GoneShape
<1>2. CASE Decide(p)
    <2>1. Place(Kind(p)) \in {"probe", "go", "send"}
        BY DEF Place
    <2> QED BY <1>0, <1>2, <2>1, Moves DEF Decide, Early, Noded, Holding
<1>3. CASE (Probe(p) \/ Probed(p)) /\ ~Gone(p)
    BY <1>3, ProbeShape
<1>4. CASE (Begin(p) \/ InitRepo(p) \/ InitConfig(p) \/ InitSpec(p) \/ Made(p)) /\ ~Gone(p)
    BY <1>0, <1>4, Moves DEF Begin, InitRepo, InitConfig, InitSpec, Made, Early, Noded, Holding
<1>5. CASE OpenKeyspace(p) /\ ~Gone(p)
    BY <1>5, OpenShape DEF OpenKeyspace, Early, Noded, Holding
<1>6. CASE CloseKeyspace(p)
    <2>1. /\ \A q \in Procs : q # p => repo'[q] = repo[q]
          /\ repo[p].at = "open"
        BY <1>6, DroppedDoes, Open DEF CloseKeyspace, Shape, MainHolds
    <2>2. \A q \in Procs : pc'[q] = IF q = p THEN "made" ELSE pc[q]
        BY <1>6, GoesDoes DEF CloseKeyspace
    <2>3. pc[p] = "keyspace" /\ UNCHANGED <<port, lock, node, serves, job>>
        BY <1>6 DEF CloseKeyspace
    <2>4. Bare' /\ Locked' /\ Built'
        BY <2>1, <2>2, <2>3 DEF Shape, Bare, Locked, Built, Early
    <2>5. \A c \in Commands, q \in Procs : JobHolds(c, q)' <=> JobHolds(c, q)
        BY <2>3 DEF JobHolds
    <2>6. ~MainHolds(p)' /\ MainHolds(p) /\ \A q \in Procs : q # p => (MainHolds(q)' <=> MainHolds(q))
        BY <2>2, <2>3 DEF MainHolds, Shape, Built
    <2>7. CountedAt(p)'
        BY <1>6, <2>5, <2>6, OneLess DEF CloseKeyspace, Shape
    <2>8. \A q \in Procs : q # p => CountedAt(q)'
        BY <2>1, <2>5, <2>6, SameCount DEF Shape, Counted
    <2> QED BY <2>4, <2>7, <2>8 DEF Shape, Counted
<1>7. CASE Closes(p)
    BY <1>7, ClosesShape
<1> QED BY <1>1, <1>2, <1>3, <1>4, <1>5, <1>6, <1>7 DEF Main, Inits

LEMMA StartsShape == ASSUME Types, JobKinds, Shape, NEW d \in Daemons, Starts(d) PROVE Shape'
<1> USE DEF disk, owned, threads, ghosts, Leaves
<1>0. d \in Procs /\ (pc[d] \notin {"serve"} => ~serves[d])
    BY DEF Procs, Shape, Built
<1>1. CASE Gone(d)
    BY <1>0, <1>1, GoneShape
<1>2. CASE OpenDaemon(d) /\ ~Gone(d)
    BY <1>0, <1>2, OpenShape DEF OpenDaemon, Early, Noded, Holding
<1>3. CASE Prompt(d)
    <2>1. \A q \in Procs : repo'[q].refs = repo[q].refs /\ repo'[q].at = repo[q].at
        BY <1>0, <1>3 DEF Prompt, SetConfigKey, Types, Repos
    <2> QED BY <1>0, <1>3, <2>1, Moves DEF Prompt, Early, Noded, Holding
<1>4. CASE SetAPIAddr(d)
    BY <1>0, <1>4, Moves DEF SetAPIAddr, Early, Noded, Holding
<1>5. ASSUME NEW x \in {"listen", "announce", "ret", "serve"}, Goes(d, x), UNCHANGED <<repo, job, lock>>,
             pc[d] \in (Holding \cup Noded) \ {"serve"}, \A q \in Procs : q # d => node'[q] = node[q],
             node'[d] \in {"up", "closing"} \/ (pc[d] \notin Holding /\ node'[d] = node[d]),
             MainHolds(d)' <=> MainHolds(d), port' = port \/ port' = d,
             serves' = serves \/ (x = "serve" /\ \A q \in Procs : q # d => (serves'[q] <=> serves[q]))
      PROVE  Shape'
    <2>1. \A q \in Procs : pc'[q] = IF q = d THEN x ELSE pc[q]
        BY <1>0, <1>5, GoesDoes
    <2>2. Bare' /\ Locked'
        BY <1>0, <1>5, <2>1 DEF Shape, Bare, Locked, Early
    <2>3. Built'
        <3>1. ASSUME NEW q \in Procs, q # d
              PROVE  /\ node'[q] # "none" <=> pc'[q] \in {"listen", "announce", "server", "serve", "ret"}
                     /\ serves'[q] => pc'[q] = "serve" /\ q \in Daemons
            BY <1>5, <2>1, <3>1 DEF Shape, Built
        <3>2. node'[d] # "none"
            BY <1>0, <1>5 DEF Shape, Built, Noded
        <3>3. serves'[d] => x = "serve"
            BY <1>0, <1>5 DEF Shape, Built, Noded, Holding
        <3> QED BY <1>0, <2>1, <3>1, <3>2, <3>3 DEF Built
    <2>4. \A c \in Commands, q \in Procs : JobHolds(c, q)' <=> JobHolds(c, q)
        BY <1>5 DEF JobHolds
    <2>5. \A q \in Procs : q # d => (MainHolds(q)' <=> MainHolds(q))
        BY <1>5, <2>1 DEF MainHolds
    <2> QED BY <1>5, <2>2, <2>3, <2>4, <2>5, CountedSame DEF Shape
<1>6. CASE BuildNode(d)
    <2>1. node'[d] \in {"up", "closing"} /\ \A q \in Procs : q # d => node'[q] = node[q]
        BY <1>0, <1>6 DEF BuildNode, Types
    <2>2. MainHolds(d)' <=> MainHolds(d)
        BY <1>6, <2>1 DEF BuildNode, MainHolds
    <2> QED BY <1>5, <1>6, <2>1, <2>2 DEF BuildNode, Holding
<1>7. CASE Listen(d)
    <2>1. \A q \in Procs : pc'[q] # pc[q] => q = d /\ pc'[q] \in {"announce", "ret"}
        BY <1>0, <1>7, GoesDoes DEF Listen
    <2>2. MainHolds(d)' <=> MainHolds(d)
        BY <1>0, <1>7, <2>1 DEF Listen, MainHolds
    <2> QED BY <1>5, <1>7, <2>2 DEF Listen, Noded, Holding
<1>8. CASE Serve(d)
    <2>1. \A q \in Procs : pc'[q] # pc[q] => q = d /\ pc'[q] \in {"serve", "ret"}
        BY <1>0, <1>8, GoesDoes DEF Serve
    <2>2. MainHolds(d)' <=> MainHolds(d)
        BY <1>0, <1>8, <2>1 DEF Serve, MainHolds
    <2>3. \A q \in Procs : q # d => (serves'[q] <=> serves[q])
        BY <1>0, <1>8 DEF Serve, Types
    <2> QED BY <1>5, <1>8, <2>2, <2>3 DEF Serve, Noded, Holding
<1> QED BY <1>1, <1>2, <1>3, <1>4, <1>6, <1>7, <1>8 DEF Starts

LEMMA StopsShape == ASSUME Types, JobKinds, Shape, NEW d \in Daemons, Stops(d) PROVE Shape'
<1> USE DEF disk, owned, threads, ghosts, Leaves
<1>0. d \in Procs
    BY DEF Procs
<1>1. CASE StopServing(d)
    <2>1. /\ UNCHANGED <<lock, pc, repo, node>> /\ port' = None
          /\ \A q \in Procs : serves'[q] => serves[q]
          /\ \A c \in Commands : job'[c] = job[c] \/ (job[c].at = "sent" /\ job'[c] = NoJob)
        BY <1>0, <1>1 DEF StopServing, Types
    <2>2. Bare' /\ Locked' /\ Built'
        BY <2>1, Blanks DEF Shape, Bare, Locked, Built
    <2>3. \A c \in Commands, q \in Procs : JobHolds(c, q)' <=> JobHolds(c, q)
        BY <2>1, Blanks DEF JobHolds
    <2>4. \A q \in Procs : MainHolds(q)' <=> MainHolds(q)
        BY <2>1 DEF MainHolds
    <2> QED BY <2>1, <2>2, <2>3, <2>4, CountedSame DEF Shape
<1>2. CASE Teardown(d)
    <2>1. /\ UNCHANGED <<lock, port, pc, serves, job>> /\ node[d] = "closing" /\ repo[d].at = "open"
          /\ \A q \in Procs : node'[q] = IF q = d THEN (IF repo[d].refs = 1 THEN "tearing" ELSE "torn") ELSE node[q]
        BY <1>0, <1>2 DEF Teardown, Types
    <2>2. \A q \in Procs : q # d => repo'[q] = repo[q]
        BY <1>0, <1>2, DroppedDoes DEF Teardown
    <2>3. Bare' /\ Locked' /\ Built'
        BY <2>1, <2>2 DEF Shape, Bare, Locked, Built, Early
    <2>4. \A c \in Commands, q \in Procs : JobHolds(c, q)' <=> JobHolds(c, q)
        BY <2>1 DEF JobHolds
    <2>5. ~MainHolds(d)' /\ MainHolds(d) /\ \A q \in Procs : q # d => (MainHolds(q)' <=> MainHolds(q))
        BY <1>0, <2>1 DEF MainHolds, Shape, Built
    <2>6. CountedAt(d)'
        BY <1>0, <1>2, <2>4, <2>5, OneLess DEF Teardown, Shape
    <2>7. \A q \in Procs : q # d => CountedAt(q)'
        BY <2>2, <2>4, <2>5, SameCount DEF Shape, Counted
    <2> QED BY <2>3, <2>6, <2>7 DEF Shape, Counted
<1>3. ASSUME UNCHANGED <<lock, port, pc, repo, serves, job>>, \A q \in Procs : q # d => node'[q] = node[q],
             \/ node[d] = "tearing" /\ node'[d] = "torn"
             \/ node[d] = "up" /\ node'[d] = "closing"
      PROVE  Shape'
    <2>1. Bare' /\ Locked' /\ Built'
        BY <1>0, <1>3 DEF Shape, Bare, Locked, Built
    <2>2. \A c \in Commands, q \in Procs : JobHolds(c, q)' <=> JobHolds(c, q)
        BY <1>3 DEF JobHolds
    <2>3. \A q \in Procs : MainHolds(q)' <=> MainHolds(q)
        BY <1>0, <1>3 DEF MainHolds
    <2> QED BY <1>3, <2>1, <2>2, <2>3, CountedSame DEF Shape
<1>4. CASE TornDown(d)
    <2>1. node[d] = "tearing" /\ node'[d] = "torn" /\ \A q \in Procs : q # d => node'[q] = node[q]
        BY <1>0, <1>4 DEF TornDown, Types
    <2> QED BY <1>3, <1>4, <2>1 DEF TornDown
<1>5. CASE Return(d)
    <2>1. CASE pc[d] = "serve"
        BY <1>0, <1>5, <2>1, Moves DEF Return, Early, Noded, Holding
    <2>2. CASE pc[d] = "ret"
        <3>1. node[d] = "up" /\ node'[d] = "closing" /\ \A q \in Procs : q # d => node'[q] = node[q]
            BY <1>0, <1>5, <2>2 DEF Return, Types
        <3> QED BY <1>3, <1>5, <2>2, <3>1 DEF Return
    <2> QED BY <1>5, <2>1, <2>2 DEF Return
<1>6. CASE Exit(d)
    BY <1>0, <1>6, GoneShape DEF Exit
<1> QED BY <1>1, <1>2, <1>4, <1>5, <1>6 DEF Stops

LEMMA HappensShape == ASSUME Types, JobKinds, Shape, Happens PROVE Shape'
<1> USE DEF disk, owned, threads, ghosts, Leaves
<1>1. ASSUME NEW d \in Daemons, StartDaemon(d) PROVE Shape'
    <2>1. d \in Procs /\ pc[d] = "off" /\ ~serves[d]
        BY <1>1 DEF StartDaemon, Procs, Shape, Built
    <2> QED BY <1>1, <2>1, Moves DEF StartDaemon, Early, Noded, Holding
<1>2. ASSUME NEW d \in Daemons, Fail(d) \/ Interrupt(d) PROVE Shape'
    <2>0. d \in Procs
        BY DEF Procs
    <2>1. \/ /\ \A q \in Procs : pc'[q] = IF q = d THEN "ret" ELSE pc[q]
             /\ \/ pc[d] = "build" /\ node'[d] = "closing"
                \/ pc[d] = "listen" /\ node'[d] = node[d]
          \/ pc' = pc /\ node[d] = "up" /\ node'[d] = "closing"
        BY <1>2, <2>0, GoesDoes DEF Fail, Interrupt, Types
    <2>2. UNCHANGED <<lock, port, repo, serves, job>> /\ \A q \in Procs : q # d => node'[q] = node[q]
        BY <1>2, <2>0 DEF Fail, Interrupt, Types
    <2>3. Bare' /\ Locked' /\ Built'
        BY <2>0, <2>1, <2>2 DEF Shape, Bare, Locked, Built, Early
    <2>4. \A c \in Commands, q \in Procs : JobHolds(c, q)' <=> JobHolds(c, q)
        BY <2>2 DEF JobHolds
    <2>5. \A q \in Procs : MainHolds(q)' <=> MainHolds(q)
        BY <2>0, <2>1, <2>2 DEF MainHolds
    <2> QED BY <2>2, <2>3, <2>4, <2>5, CountedSame DEF Shape
<1>3. ASSUME NEW c \in Commands, StartCommand(c) PROVE Shape'
    <2>0. c \in Procs /\ pc[c] = "off" /\ job[c] = NoJob
        BY <1>3 DEF StartCommand, Procs
    <2>1. \A q \in Procs : pc'[q] = IF q = c THEN "new" ELSE pc[q]
        BY <1>3, <2>0, GoesDoes DEF StartCommand
    <2>2. UNCHANGED <<lock, port, repo, node, serves>>
        BY <1>3 DEF StartCommand
    <2>3. (\A b \in Commands : b # c => job'[b] = job[b]) /\ job'[c].host = None /\ job'[c].at = "none"
        <3>1. PICK r : /\ job' = [job EXCEPT ![c] = r]
                       /\ \E k \in Kinds[c], v \in Vals :
                            r = [NoJob EXCEPT !.kind = k, !.val = IF k \in {"set", "edit"} THEN v ELSE @]
            BY <1>3 DEF StartCommand
        <3>2. r.host = None /\ r.at = "none"
            BY <3>1 DEF NoJob
        <3> QED BY <3>1, <3>2 DEF Types
    <2>4. Bare' /\ Locked' /\ Built'
        BY <2>0, <2>1, <2>2, <2>3, Blanks DEF Shape, Bare, Locked, Built, Early
    <2>5. \A b \in Commands, q \in Procs : JobHolds(b, q)' <=> JobHolds(b, q)
        BY <2>0, <2>3, Blanks DEF JobHolds
    <2>6. \A q \in Procs : MainHolds(q)' <=> MainHolds(q)
        BY <2>0, <2>1, <2>2 DEF MainHolds
    <2> QED BY <2>2, <2>4, <2>5, <2>6, CountedSame DEF Shape
<1>4. ASSUME NEW p \in Procs, Crash(p) PROVE Shape'
    BY <1>4, GoneShape DEF Crash
<1> QED BY <1>1, <1>2, <1>3, <1>4 DEF Happens

LEMMA ClientShape == ASSUME Types, JobKinds, Shape, NEW c \in Commands, Client(c) PROVE Shape'
<1> USE DEF disk, owned, threads, ghosts, Leaves
<1>0. c \in Procs /\ c \notin Daemons
    BY RepoAssumption DEF Procs
<1>1. CASE Gone(c)
    BY <1>0, <1>1, GoneShape
<1>2. ASSUME NEW x \in {"waiting", "run"}, Goes(c, x), pc[c] \in {"send", "go"}, NEW h \in Procs, pc[h] \notin Early,
             UNCHANGED <<lock, port, repo, node, serves>>,
             \A b \in Commands : b # c => job'[b] = job[b],
             job'[c].host = h, ~ \E q \in Procs : JobHolds(c, q)'
      PROVE  Shape'
    <2>1. \A q \in Procs : pc'[q] = IF q = c THEN x ELSE pc[q]
        BY <1>0, <1>2, GoesDoes
    <2>2. Bare' /\ Locked' /\ Built'
        BY <1>0, <1>2, <2>1 DEF Shape, Bare, Locked, Built, Early
    <2>3. \A q \in Procs : ~JobHolds(c, q)
        BY <1>0, <1>2 DEF JobHolds, JobKinds
    <2>4. \A b \in Commands, q \in Procs : JobHolds(b, q)' <=> JobHolds(b, q)
        BY <1>2, <2>3 DEF JobHolds
    <2>5. \A q \in Procs : MainHolds(q)' <=> MainHolds(q)
        BY <1>2, <2>1 DEF MainHolds
    <2> QED BY <1>2, <2>2, <2>4, <2>5, CountedSame DEF Shape
<1>3. CASE Send(c) /\ ~Gone(c)
    <2>1. port \in Daemons /\ port \in Procs /\ pc[port] \notin Early
        BY <1>3 DEF Send, Types, Procs, Shape, Bare
    <2>2. /\ \A b \in Commands : b # c => job'[b] = job[b]
          /\ job'[c].host = port /\ job'[c].at = "sent"
        BY <1>3 DEF Send, Types, Jobs
    <2> QED BY <1>2, <1>3, <2>1, <2>2 DEF Send, JobHolds
<1>4. CASE RunHere(c)
    <2>1. /\ \A b \in Commands : b # c => job'[b] = job[b]
          /\ job'[c].host = c /\ job'[c].kind = job[c].kind
          /\ job'[c].at = IF job[c].kind \in {"edit", "fsck"} THEN "work" ELSE "open"
        BY <1>4 DEF RunHere, Types, Jobs
    <2>2. ~ \E q \in Procs : JobHolds(c, q)'
        BY <2>1 DEF JobHolds
    <2> QED BY <1>0, <1>2, <1>4, <2>1, <2>2 DEF RunHere, Early
<1>5. CASE Answered(c)
    BY <1>5, <1>1 DEF Answered
<1> QED BY <1>1, <1>3, <1>4, <1>5 DEF Client

\* A step of a command that keeps what it holds.
LEMMA Works ==
    ASSUME Types, Shape, NEW c \in Commands, UNCHANGED <<lock, port, pc, serves>>,
           \A q \in Procs : repo'[q].refs = repo[q].refs /\ repo'[q].at = repo[q].at,
           \A q \in Procs : (node'[q] = node[q] \/ (node[q] = "up" /\ node'[q] = "closing")),
           \A b \in Commands : b # c => job'[b] = job[b], job'[c].host \in {job[c].host, None},
           \A q \in Procs : JobHolds(c, q)' <=> JobHolds(c, q)
    PROVE  Shape'
<1>1. Bare' /\ Locked' /\ Built'
    BY Blanks DEF Shape, Bare, Locked, Built
<1>2. \A b \in Commands, q \in Procs : JobHolds(b, q)' <=> JobHolds(b, q)
    BY DEF JobHolds
<1>3. \A q \in Procs : MainHolds(q)' <=> MainHolds(q)
    BY DEF MainHolds
<1> QED BY <1>1, <1>2, <1>3, CountedSame DEF Shape

LEMMA HandlerShape == ASSUME Types, JobKinds, Shape, NEW c \in Commands, Handler(c) PROVE Shape'
<1> USE DEF disk, owned, threads, ghosts, At
<1>0. /\ job[c].at # "none" => job[c].host \in Procs
      /\ c \in Procs /\ c \notin Daemons
    BY RepoAssumption DEF JobKinds, Types, Jobs, Procs
<1>1. CASE Accept(c)
    <2>1. /\ \A b \in Commands : b # c => job'[b] = job[b]
          /\ job'[c].host = job[c].host /\ job'[c].kind = job[c].kind /\ job[c].at = "sent"
          /\ job'[c].at = IF job[c].kind \in {"use", "shutdown"} THEN "work" ELSE "open"
        BY <1>1 DEF Accept, Types, Jobs
    <2>2. job[c].host # c
        BY <1>0, <2>1 DEF JobKinds
    <2>3. \A q \in Procs : JobHolds(c, q)' <=> JobHolds(c, q)
        BY <2>1, <2>2 DEF JobHolds
    <2> QED BY <1>1, <2>1, <2>3, Works DEF Accept
<1>2. CASE OpenFor(c)
    <2>1. PICK p \in Procs : p = job[c].host /\ job[c].at = "open"
        BY <1>0, <1>2 DEF OpenFor
    <2>2. UNCHANGED <<port, pc, node, serves>>
        BY <1>2 DEF OpenFor
    <2>3. CASE ~CanOpen(p)
        <3>1. /\ \A b \in Commands : b # c => job'[b] = job[b]
              /\ job'[c].host = job[c].host /\ job'[c].at = "done" /\ UNCHANGED <<repo, lock>>
            BY <1>2, <2>1, <2>3 DEF OpenFor, To, Types, Jobs
        <3>2. \A q \in Procs : JobHolds(c, q)' <=> JobHolds(c, q)
            BY <2>1, <3>1 DEF JobHolds
        <3> QED BY <2>2, <3>1, <3>2, Works
    <2>4. CASE CanOpen(p)
        <3>1. /\ \A b \in Commands : b # c => job'[b] = job[b]
              /\ job'[c].host = p /\ job'[c].at = "work" /\ job'[c].kind = job[c].kind /\ Opened(p)
            BY <1>2, <2>1, <2>4 DEF OpenFor, To, Types, Jobs
        <3>2. /\ \A q \in Procs : q # p => repo'[q] = repo[q]
              /\ repo'[p].at = "open"
              /\ (repo[p].at = "open" /\ lock' = lock) \/ (lock = None /\ lock' = p)
            BY <2>4, <3>1, OpenedDoes
        <3>3. pc[p] \notin Early
            BY <2>1 DEF Shape, Bare
        <3>4. Bare' /\ Locked' /\ Built'
            BY <2>1, <2>2, <3>1, <3>2, <3>3, Blanks DEF Shape, Bare, Locked, Built, Early
        <3>5. JobHolds(c, p)' /\ ~JobHolds(c, p)
            BY <2>1, <3>1 DEF JobHolds, JobKinds
        <3>6. /\ \A b \in Commands \ {c}, q \in Procs : JobHolds(b, q)' <=> JobHolds(b, q)
              /\ \A q \in Procs : q # p => (JobHolds(c, q)' <=> JobHolds(c, q))
            BY <2>1, <3>1 DEF JobHolds
        <3>7. \A q \in Procs : MainHolds(q)' <=> MainHolds(q)
            BY <2>2 DEF MainHolds
        <3>8. CountedAt(p)'
            BY <2>4, <3>1, <3>5, <3>6, <3>7, OneMore DEF Shape
        <3>9. ASSUME NEW q \in Procs, q # p PROVE CountedAt(q)'
            <4>1. \A b \in Commands : JobHolds(b, q)' <=> JobHolds(b, q)
                BY <3>6, <3>9
            <4> QED BY <3>2, <3>7, <3>9, <4>1, SameCount DEF Shape, Counted
        <3> QED BY <3>4, <3>8, <3>9 DEF Shape, Counted
    <2> QED BY <2>3, <2>4
<1>4. CASE Set(c) \/ AddBegins(c) \/ AddRefills(c)
    <2>1. PICK h \in Procs : h = job[c].host
        BY <1>0, <1>4 DEF Set, AddBegins, AddRefills
    <2>2. \A q \in Procs : repo'[q].refs = repo[q].refs /\ repo'[q].at = repo[q].at
        <3>1. PICK m \in Confs : m = repo[h].mem
            BY DEF Types, Repos
        <3>2. repo[h] \in Repos /\ repo \in [Procs -> Repos]
            BY DEF Types
        <3>3. PICK n : repo' = [repo EXCEPT ![h] = [repo[h] EXCEPT !.mem = n]]
            <4>1. CASE Set(c)
                BY <2>1, <4>1 DEF Set, SetConfigKey
            <4>2. CASE AddBegins(c)
                <5>1. repo' = [repo EXCEPT ![h] = [repo[h] EXCEPT !.mem = [m EXCEPT !.boot = {}]]]
                    BY <2>1, <3>1, <4>2 DEF AddBegins
                <5> QED BY <5>1
            <4>3. CASE AddRefills(c)
                <5> DEFINE b == job[c].cfg.boot \cup {c}
                <5>1. repo' = [repo EXCEPT ![h] = [repo[h] EXCEPT !.mem = [m EXCEPT !.boot = b]]]
                    BY <2>1, <3>1, <4>3 DEF AddRefills
                <5> QED BY <5>1
            <4> QED BY <1>4, <4>1, <4>2, <4>3
        <3> QED BY <3>2, <3>3 DEF Repos
    <2>3. /\ \A b \in Commands : b # c => job'[b] = job[b]
          /\ job'[c].host = job[c].host /\ job'[c].kind = job[c].kind /\ job[c].kind \in {"set", "add"}
          /\ job[c].at \in {"work", "refill"} /\ job'[c].at \in {"close", "refill", "save"}
        BY <1>4 DEF Set, AddBegins, AddRefills, To, Types, Jobs
    <2>4. \A q \in Procs : JobHolds(c, q)' <=> JobHolds(c, q)
        BY <2>3 DEF JobHolds
    <2> QED BY <1>4, <2>2, <2>3, <2>4, Works DEF Set, AddBegins, AddRefills
<1>5. CASE AddSaves(c)
    <2>1. /\ \A b \in Commands : b # c => job'[b] = job[b]
          /\ job'[c].host = job[c].host /\ job'[c].at = "close" /\ job[c].at = "save"
        BY <1>5 DEF AddSaves, Types, Jobs
    <2>2. \A q \in Procs : JobHolds(c, q)' <=> JobHolds(c, q)
        BY <2>1 DEF JobHolds
    <2> QED BY <1>5, <2>1, <2>2, Works DEF AddSaves
<1>6. CASE Use(c) \/ Edit(c) \/ ShutdownEnds(c) \/ ClosedFor(c)
    <2>1. /\ \A b \in Commands : b # c => job'[b] = job[b]
          /\ job'[c].host = job[c].host /\ job'[c].kind = job[c].kind
          /\ \/ /\ job[c].at = "work" /\ job[c].kind = "use"
                /\ job'[c].at = IF job[c].host = c THEN "close" ELSE "done"
             \/ /\ job[c].at = "work" /\ job[c].kind = "edit" /\ job'[c].at = "done"
             \/ /\ job[c].at \in {"wait", "closing"} /\ job'[c].at = "done"
        BY <1>6 DEF Use, Edit, ShutdownEnds, ClosedFor, To, Types, Jobs
    <2>2. \A q \in Procs : JobHolds(c, q)' <=> JobHolds(c, q)
        BY <2>1 DEF JobHolds
    <2> QED BY <1>6, <2>1, <2>2, Works DEF Use, Edit, ShutdownEnds, ClosedFor
<1>7. CASE Shutdown(c)
    <2>1. PICK h \in Procs : h = job[c].host
        BY <1>0, <1>7 DEF Shutdown
    <2>2. /\ \A b \in Commands : b # c => job'[b] = job[b]
          /\ job'[c].host = job[c].host /\ job'[c].kind = job[c].kind
          /\ job[c].at = "work" /\ job[c].kind = "shutdown"
          /\ job'[c].at = IF job[c].host = c THEN "close" ELSE "wait"
        BY <1>7 DEF Shutdown, To, Types, Jobs
    <2>3. \A q \in Procs : JobHolds(c, q)' <=> JobHolds(c, q)
        BY <2>2 DEF JobHolds
    <2>4. \A q \in Procs : node'[q] = node[q] \/ (node[q] = "up" /\ node'[q] = "closing")
        BY <1>7, <2>1 DEF Shutdown, Types
    <2> QED BY <1>7, <2>2, <2>3, <2>4, Works DEF Shutdown
<1>8. CASE CloseFor(c)
    <2>1. PICK p \in Procs : p = job[c].host
        BY <1>0, <1>8 DEF CloseFor
    <2>2. UNCHANGED <<port, pc, node, serves, lock>> /\ Dropped(p) /\ repo[p].at = "open"
        BY <1>8, <2>1 DEF CloseFor
    <2>3. /\ \A b \in Commands : b # c => job'[b] = job[b]
          /\ job[c].at = "close" /\ job'[c].host = p /\ job'[c].at \in {"closing", "done"}
        BY <1>8, <2>1 DEF CloseFor, To, Types, Jobs
    <2>4. \A q \in Procs : q # p => repo'[q] = repo[q]
        BY <2>2, DroppedDoes
    <2>5. Bare' /\ Locked' /\ Built'
        BY <2>1, <2>2, <2>3, <2>4 DEF Shape, Bare, Locked, Built, Early
    <2>6. ~JobHolds(c, p)' /\ JobHolds(c, p)
        BY <2>1, <2>3 DEF JobHolds
    <2>7. /\ \A b \in Commands \ {c}, q \in Procs : JobHolds(b, q)' <=> JobHolds(b, q)
          /\ \A q \in Procs : q # p => (JobHolds(c, q)' <=> JobHolds(c, q))
        BY <2>1, <2>3 DEF JobHolds
    <2>8. \A q \in Procs : MainHolds(q)' <=> MainHolds(q)
        BY <2>2 DEF MainHolds
    <2>9. CountedAt(p)'
        BY <2>2, <2>6, <2>7, <2>8, OneLess DEF Shape
    <2>10. ASSUME NEW q \in Procs, q # p PROVE CountedAt(q)'
        <3>1. \A b \in Commands : JobHolds(b, q)' <=> JobHolds(b, q)
            BY <2>7, <2>10
        <3> QED BY <2>4, <2>8, <2>10, <3>1, SameCount DEF Shape, Counted
    <2> QED BY <2>5, <2>9, <2>10 DEF Shape, Counted
<1>9. CASE Replied(c)
    <2>1. /\ \A b \in Commands : b # c => job'[b] = job[b]
          /\ job'[c].host = None /\ job'[c].at = "none" /\ job[c].at = "done"
        BY <1>9, Blanks DEF Replied, Types
    <2>2. \A q \in Procs : JobHolds(c, q)' <=> JobHolds(c, q)
        BY <2>1 DEF JobHolds
    <2> QED BY <1>9, <2>1, <2>2, Works DEF Replied
<1> QED BY <1>1, <1>2, <1>4, <1>5, <1>6, <1>7, <1>8, <1>9 DEF Handler

LEMMA ShapeKept == ASSUME Types, JobKinds, Shape, Next PROVE Shape'
BY MainShape, StartsShape, StopsShape, ClientShape, HandlerShape, HappensShape DEF Next, Work

-----------------------------------------------------------------------------
(* The api file *)

LEMMA NamedKept == ASSUME Types, JobKinds, Shape, Named, Next PROVE Named'
<1> USE DEF disk, owned, threads, ghosts, Leaves
<1>0. Commands \subseteq Procs /\ Daemons \subseteq Procs
    BY DEF Procs
\* Nobody comes to be announced, and the file stays.
<1>1. ASSUME api => api',
             \A d \in Daemons : /\ pc'[d] \in {"server", "serve"} /\ node'[d] \in {"up", "closing"}
                                => pc[d] \in {"server", "serve"} /\ node[d] \in {"up", "closing"}
      PROVE  Named'
    BY <1>1 DEF Named
<1>2. ASSUME NEW p \in Procs, Gone(p) PROVE Named'
    BY <1>0, <1>1, <1>2, GoneDoes
<1>3. ASSUME NEW p \in Procs, NEW y, Goes(p, y), y \notin {"server", "serve"}, api' = api,
             \A q \in Procs : q # p => node'[q] = node[q]
      PROVE  Named'
    BY <1>0, <1>1, <1>3, GoesDoes
<1>4. ASSUME NEW p \in Procs, Main(p) PROVE Named'
    <2>1. CASE Decide(p)
        <3>1. Place(Kind(p)) \in {"probe", "go", "send"}
            BY DEF Place
        <3> QED BY <1>3, <2>1, <3>1 DEF Decide
    <2>2. CASE Probe(p) \/ Probed(p) \/ Inits(p)
        BY <1>2, <1>3, <2>2 DEF Probe, Probed, Inits, Begin, InitRepo, InitConfig, InitSpec, OpenKeyspace,
                                CloseKeyspace, Made
    <2>3. CASE CloseDatastore(p) \/ Unlock(p)
        BY <1>1, <2>3 DEF CloseDatastore, Unlock
    <2>4. CASE RemoveApi(p)
        <3>1. ASSUME NEW d \in Daemons, node[d] \in {"up", "closing"} PROVE FALSE
            <4>1. repo[d].at = "open"
                BY <1>0, <3>1, Open DEF MainHolds, Shape
            <4> QED BY <1>0, <2>4, <4>1 DEF RemoveApi, Shape, Locked
        <3> QED BY <2>4, <3>1 DEF RemoveApi, Named
    <2> QED BY <1>4, <2>1, <2>2, <2>3, <2>4 DEF Main, Closes
<1>5. ASSUME NEW d \in Daemons, Starts(d) PROVE Named'
    <2>1. CASE OpenDaemon(d) \/ Prompt(d) \/ Listen(d)
        BY <1>0, <1>2, <1>3, <2>1 DEF OpenDaemon, Prompt, Listen
    <2>2. CASE BuildNode(d)
        <3>1. \A q \in Procs : q # d => node'[q] = node[q]
            BY <2>2 DEF BuildNode, Types
        <3> QED BY <1>0, <1>3, <2>2, <3>1 DEF BuildNode
    <2>3. CASE SetAPIAddr(d)
        BY <2>3 DEF SetAPIAddr, Named
    <2>4. CASE Serve(d)
        <3>1. pc[d] = "server" /\ \A q \in Procs : q # d => pc'[q] = pc[q]
            BY <1>0, <2>4, GoesDoes DEF Serve
        <3> QED BY <1>0, <1>1, <2>4, <3>1 DEF Serve
    <2> QED BY <1>5, <2>1, <2>2, <2>3, <2>4 DEF Starts
<1>6. ASSUME NEW d \in Daemons, Stops(d) PROVE Named'
    <2>1. CASE StopServing(d)
        BY <1>1, <2>1 DEF StopServing
    <2>2. CASE Teardown(d) \/ TornDown(d)
        <3>1. \A q \in Procs : node'[q] = node[q] \/ node'[q] \in {"tearing", "torn"}
            BY <2>2 DEF Teardown, TornDown, Types
        <3> QED BY <1>0, <1>1, <2>2, <3>1 DEF Teardown, TornDown
    <2>3. CASE Return(d)
        <3>1. CASE Goes(d, "ret") /\ UNCHANGED node
            BY <1>0, <1>3, <2>3, <3>1 DEF Return
        <3>2. CASE node[d] = "up" /\ node' = [node EXCEPT ![d] = "closing"] /\ UNCHANGED pc
            <4>1. \A q \in Procs : node'[q] = node[q] \/ node[q] = "up"
                BY <3>2 DEF Types
            <4> QED BY <1>0, <1>1, <2>3, <3>2, <4>1 DEF Return
        <3> QED BY <2>3, <3>1, <3>2 DEF Return
    <2>4. CASE Exit(d)
        BY <1>0, <1>2, <2>4 DEF Exit
    <2> QED BY <1>6, <2>1, <2>2, <2>3, <2>4 DEF Stops
<1>7. ASSUME NEW c \in Commands, Client(c) PROVE Named'
    BY <1>0, <1>2, <1>3, <1>7 DEF Client, Send, RunHere, Answered
<1>8. ASSUME NEW c \in Commands, Handler(c) PROVE Named'
    <2>1. UNCHANGED <<pc, api>>
        BY <1>8 DEF Handler, Accept, OpenFor, Set, AddBegins, AddRefills, AddSaves, Use, Shutdown, ShutdownEnds,
                    Edit, CloseFor, ClosedFor, Replied
    <2>2. CASE Shutdown(c)
        <3>1. \A q \in Procs : node'[q] = node[q] \/ node[q] = "up"
            BY <2>2 DEF Shutdown, Types
        <3> QED BY <1>0, <1>1, <2>1, <3>1
    <2>3. CASE ~Shutdown(c)
        <3>1. UNCHANGED node
            BY <1>8, <2>3 DEF Handler, Accept, OpenFor, Set, AddBegins, AddRefills, AddSaves, Use, ShutdownEnds,
                        Edit, CloseFor, ClosedFor, Replied
        <3> QED BY <1>1, <2>1, <3>1
    <2> QED BY <2>2, <2>3
<1>9. CASE Happens
    <2>1. ASSUME NEW p \in Procs, StartDaemon(p) \/ StartCommand(p) PROVE Named'
        BY <1>3, <2>1 DEF StartDaemon, StartCommand
    <2>2. ASSUME NEW d \in Daemons, Fail(d) PROVE Named'
        <3>1. \A q \in Procs : q # d => node'[q] = node[q]
            BY <2>2 DEF Fail, Types
        <3> QED BY <1>0, <1>3, <2>2, <3>1 DEF Fail
    <2>3. ASSUME NEW d \in Daemons, Interrupt(d) PROVE Named'
        <3>1. \A q \in Procs : node'[q] = node[q] \/ node[q] = "up"
            BY <2>3 DEF Interrupt, Types
        <3> QED BY <1>0, <1>1, <2>3, <3>1 DEF Interrupt
    <2>4. ASSUME NEW p \in Procs, Crash(p) PROVE Named'
        BY <1>2, <2>4 DEF Crash
    <2> QED BY <1>0, <1>9, <2>1, <2>2, <2>3, <2>4 DEF Happens
<1> QED BY <1>4, <1>5, <1>6, <1>7, <1>8, <1>9 DEF Next, Work

-----------------------------------------------------------------------------
(* The settings *)

Unmade == {"fresh", "write"}

\* All of the config in memory but the bootstrap peers.
SameMem(q) == repo'[q].mem.val = repo[q].mem.val /\ repo'[q].mem.id = repo[q].mem.id

\* Nobody opens the repository, nobody begins to initialise it, and nothing is set.
LEMMA SettingsSame ==
    ASSUME Settings, UNCHANGED <<conf, told>>,
           \A q \in Procs : /\ repo'[q].at = "open" => repo[q].at = "open" /\ SameMem(q)
                            /\ pc'[q] = pc[q] \/ pc'[q] \notin Unmade
    PROVE  Settings'
BY DEF Settings, IsInitialized, Unmade, SameMem

LEMMA SettingsOpen ==
    ASSUME Types, Settings, NEW p \in Procs, Opened(p), CanOpen(p), UNCHANGED <<conf, told>>,
           \A q \in Procs : pc'[q] = pc[q] \/ pc'[q] \notin Unmade
    PROVE  Settings'
<1>1. /\ \A q \in Procs : q # p => repo'[q] = repo[q]
      /\ \/ repo[p].at = "open" /\ repo'[p].mem = repo[p].mem
         \/ repo'[p].mem = conf /\ IsInitialized
    BY OpenedDoes
<1>2. IsInitialized' <=> IsInitialized
    BY DEF IsInitialized
<1> QED BY <1>1, <1>2 DEF Settings, Unmade

\* What SetConfigKey does, for a process that has the repository open.
LEMMA SettingsSet ==
    ASSUME Types, Locked, Settings, NEW p \in Procs, NEW v \in Vals, repo[p].at = "open", SetConfigKey(p, v),
           \A q \in Procs : pc'[q] = pc[q] \/ pc'[q] \notin Unmade
    PROVE  Settings'
<1>1. IsInitialized /\ \A q \in Procs : repo[q].at = "open" => q = p
    BY DEF Settings, Locked
<1>2. conf'.val = v /\ conf'.id = conf.id /\ told'.val = v
    BY DEF SetConfigKey, Types, Confs, Told
<1>3. IsInitialized'
    BY <1>1, <1>2 DEF IsInitialized
<1>4. \A q \in Procs : repo'[q].at = repo[q].at
    <2>1. repo' = [repo EXCEPT ![p] = [repo[p] EXCEPT !.mem = conf']]
        BY DEF SetConfigKey
    <2>2. PICK n : repo' = [repo EXCEPT ![p] = [repo[p] EXCEPT !.mem = n]]
        BY <2>1
    <2> QED BY <2>2 DEF Types, Repos
<1>5. repo'[p].mem = conf'
    <2>1. repo[p] \in Repos /\ repo \in [Procs -> Repos]
        BY DEF Types
    <2>2. repo' = [repo EXCEPT ![p] = [repo[p] EXCEPT !.mem = conf']]
        BY DEF SetConfigKey
    <2> QED BY <2>1, <2>2 DEF Repos
<1> QED BY <1>1, <1>2, <1>3, <1>4, <1>5 DEF Settings, Unmade

LEMMA SettingsKeptHere ==
    ASSUME Types, JobKinds, Shape, Settings, OneInitialises, Next PROVE Settings'
<1> USE DEF disk, owned, threads, ghosts, Leaves
<1>0. Commands \subseteq Procs /\ Daemons \subseteq Procs /\ Daemons \cap Commands = {}
    BY RepoAssumption DEF Procs
<1>1. ASSUME NEW p \in Procs, Gone(p) PROVE Settings'
    <2>1. \A q \in Procs : /\ repo'[q] = repo[q] \/ repo'[q].at = "none"
                           /\ pc'[q] = pc[q] \/ pc'[q] = "off"
        BY <1>1, GoneDoes, Blanks
    <2>2. UNCHANGED <<conf, told>>
        BY <1>1, GoneDoes
    <2> QED BY <2>1, <2>2, SettingsSame DEF SameMem, Unmade
<1>2. ASSUME NEW p \in Procs, NEW y, Goes(p, y), y \notin Unmade, UNCHANGED <<conf, told>>,
             repo' = repo \/ Dropped(p) \/ (Opened(p) /\ CanOpen(p))
      PROVE  Settings'
    <2>1. \A q \in Procs : pc'[q] = pc[q] \/ pc'[q] \notin Unmade
        BY <1>2, GoesDoes
    <2>2. CASE repo' = repo
        BY <1>2, <2>1, <2>2, SettingsSame DEF SameMem
    <2>3. CASE Dropped(p)
        <3>1. \A q \in Procs : repo'[q].at = "open" => repo[q].at = "open" /\ SameMem(q)
            BY <2>3, DroppedDoes DEF SameMem
        <3> QED BY <1>2, <2>1, <3>1, SettingsSame DEF SameMem
    <2>4. CASE Opened(p) /\ CanOpen(p)
        BY <1>2, <2>1, <2>4, SettingsOpen
    <2> QED BY <1>2, <2>2, <2>3, <2>4
<1>3. ASSUME UNCHANGED <<conf, told, repo, pc>> PROVE Settings'
    BY <1>3, SettingsSame DEF SameMem
<1>4. ASSUME NEW p \in Procs, Main(p) PROVE Settings'
    <2>1. CASE Decide(p)
        <3>1. Place(Kind(p)) \notin Unmade
            BY DEF Place, Unmade
        <3> QED BY <1>2, <2>1, <3>1 DEF Decide
    <2>2. CASE Probe(p) \/ Probed(p) \/ InitSpec(p) \/ OpenKeyspace(p) \/ CloseKeyspace(p) \/ Made(p)
        BY <1>1, <1>2, <2>2 DEF Probe, Probed, InitSpec, OpenKeyspace, CloseKeyspace, Made, Unmade
    <2>3. CASE Closes(p)
        <3>1. /\ UNCHANGED <<conf, told, pc>> /\ repo'[p].at # "open"
              /\ \A q \in Procs : q # p => repo'[q] = repo[q]
            BY <2>3, Blanks DEF Closes, RemoveApi, CloseDatastore, Unlock, Types, Repos
        <3> QED BY <3>1, SettingsSame DEF SameMem
    <2>4. CASE Begin(p)
        <3>1. CASE Gone(p)
            BY <1>1, <3>1
        <3>2. CASE ~Gone(p)
            <4>1. /\ Kind(p) \in {"daemon", "init"} /\ UNCHANGED <<conf, told, repo>>
                  /\ Goes(p, IF IsInitialized \/ p \in Daemons \ Initers THEN "open" ELSE "fresh")
                BY <2>4, <3>2 DEF Begin
            <4>2. p \notin Daemons \ Initers => MayInit(p)
                <5>1. CASE p \in Daemons
                    BY <5>1 DEF MayInit
                <5>2. CASE p \notin Daemons
                    <6>1. p \in Commands /\ job[p].kind \in Kinds[p] \cup {"none"} /\ job[p].kind \in {"daemon", "init"}
                        BY <4>1, <5>2 DEF Procs, Kind, JobKinds
                    <6>2. job[p].kind = "init"
                        BY <6>1, Kinded
                    <6> QED BY <5>2, <6>1, <6>2 DEF MayInit
                <5> QED BY <5>1, <5>2
            <4>3. \A q \in Procs : pc'[q] = IF q = p THEN (IF IsInitialized \/ p \in Daemons \ Initers THEN "open" ELSE "fresh")
                                                     ELSE pc[q]
                BY <4>1, GoesDoes
            <4>4. IsInitialized' <=> IsInitialized
                BY <4>1 DEF IsInitialized
            <4> QED BY <4>1, <4>2, <4>3, <4>4 DEF Settings
        <3> QED BY <3>1, <3>2
    <2>5. CASE InitRepo(p)
        <3>1. /\ UNCHANGED <<conf, told, repo>> /\ pc[p] = "fresh"
              /\ \A q \in Procs : pc'[q] = IF q = p THEN (IF IsInitialized THEN "keys" ELSE "write") ELSE pc[q]
            BY <2>5, GoesDoes DEF InitRepo
        <3>2. IsInitialized' <=> IsInitialized
            BY <3>1 DEF IsInitialized
        <3> QED BY <3>1, <3>2 DEF Settings
    <2>6. CASE InitConfig(p)
        <3>1. /\ UNCHANGED repo /\ pc[p] = "write" /\ conf' = [NoConf EXCEPT !.id = p] /\ told' = Told(Default, "init")
              /\ \A q \in Procs : pc'[q] = IF q = p THEN "lay" ELSE pc[q]
            BY <2>6, GoesDoes DEF InitConfig
        <3>2. conf'.val = Default /\ conf'.id = p /\ told'.val = Default
            BY <3>1, Blanks DEF Told, NoConf
        <3>3. IsInitialized'
            BY <3>2, Blanks DEF IsInitialized
        <3>4. \A q \in Procs : repo[q].at # "open" /\ (pc[q] = "write" => q = p)
            BY <3>1 DEF Settings, OneInitialises
        <3> QED BY <3>1, <3>2, <3>3, <3>4 DEF Settings
    <2> QED BY <1>4, <2>1, <2>2, <2>3, <2>4, <2>5, <2>6 DEF Main, Inits
<1>5. ASSUME NEW d \in Daemons, Starts(d) PROVE Settings'
    <2>1. CASE Prompt(d)
        <3>1. repo[d].at = "open"
            BY <1>0, <2>1, Open DEF Prompt, MainHolds, Shape
        <3>2. CASE SetConfigKey(d, Typed)
            <4>1. \A q \in Procs : pc'[q] = pc[q] \/ pc'[q] \notin Unmade
                BY <1>0, <2>1, GoesDoes DEF Prompt, Unmade
            <4> QED BY <1>0, <3>1, <3>2, <4>1, SettingsSet, RepoAssumption DEF Shape
        <3>3. CASE UNCHANGED <<conf, repo, told>>
            BY <1>0, <1>2, <2>1, <3>3 DEF Prompt, Unmade
        <3> QED BY <2>1, <3>2, <3>3 DEF Prompt
    <2>2. CASE ~Prompt(d)
        BY <1>0, <1>1, <1>2, <1>5, <2>2 DEF Starts, OpenDaemon, BuildNode, Listen, SetAPIAddr, Serve, Unmade
    <2> QED BY <2>1, <2>2
<1>6. ASSUME NEW d \in Daemons, Stops(d) PROVE Settings'
    <2>1. CASE StopServing(d) \/ TornDown(d)
        BY <1>3, <2>1 DEF StopServing, TornDown
    <2>2. CASE Teardown(d)
        <3>1. \A q \in Procs : repo'[q].at = "open" => repo[q].at = "open" /\ SameMem(q)
            BY <1>0, <2>2, DroppedDoes DEF Teardown, SameMem
        <3> QED BY <2>2, <3>1, SettingsSame DEF SameMem, Teardown
    <2>3. CASE Return(d)
        BY <1>0, <1>2, <1>3, <2>3 DEF Return, Unmade
    <2>4. CASE Exit(d)
        BY <1>0, <1>1, <2>4 DEF Exit
    <2> QED BY <1>6, <2>1, <2>2, <2>3, <2>4 DEF Stops
<1>7. ASSUME NEW c \in Commands, Client(c) PROVE Settings'
    BY <1>0, <1>1, <1>2, <1>7 DEF Client, Send, RunHere, Answered, Unmade
<1>8. ASSUME NEW c \in Commands, Handler(c) PROVE Settings'
    <2>0. job[c].at # "none" => job[c].host \in Procs
        BY DEF JobKinds, Types, Jobs
    <2>1. CASE Accept(c) \/ Use(c) \/ Shutdown(c) \/ ShutdownEnds(c) \/ ClosedFor(c) \/ Replied(c)
        BY <1>3, <2>1 DEF Accept, Use, Shutdown, ShutdownEnds, ClosedFor, Replied
    <2>2. CASE OpenFor(c)
        <3>1. UNCHANGED <<conf, told, pc>> /\ job[c].host \in Procs
            BY <2>0, <2>2 DEF OpenFor
        <3> QED BY <1>3, <2>2, <3>1, SettingsOpen DEF OpenFor
    <2>3. CASE CloseFor(c)
        <3>1. PICK h \in Procs : h = job[c].host /\ Dropped(h)
            BY <2>0, <2>3 DEF CloseFor
        <3>2. \A q \in Procs : repo'[q].at = "open" => repo[q].at = "open" /\ SameMem(q)
            BY <3>1, DroppedDoes DEF SameMem
        <3> QED BY <2>3, <3>2, SettingsSame DEF SameMem, CloseFor
    <2>4. CASE Set(c)
        <3>1. PICK h \in Procs : h = job[c].host
            BY <2>0, <2>4 DEF Set, At
        <3>2. repo[h].at = "open"
            BY <2>4, <3>1, Open DEF Set, At, JobHolds, Shape
        <3>3. job[c].val \in Vals
            BY DEF Types, Jobs
        <3>4. PICK v \in Vals : v = job[c].val
            BY <3>3
        <3>5. SetConfigKey(h, v) /\ pc' = pc
            BY <2>4, <3>1, <3>4 DEF Set
        <3> QED BY <3>2, <3>5, SettingsSet DEF Shape
    <2>5. CASE AddBegins(c) \/ AddRefills(c)
        <3>1. PICK h \in Procs : h = job[c].host
            BY <2>0, <2>5 DEF AddBegins, AddRefills, At
        <3>2. PICK m \in Confs : m = repo[h].mem
            BY DEF Types, Repos
        <3>3. PICK n : n.val = m.val /\ n.id = m.id /\ repo' = [repo EXCEPT ![h] = [repo[h] EXCEPT !.mem = n]]
            <4>1. CASE AddBegins(c)
                <5>1. repo' = [repo EXCEPT ![h] = [repo[h] EXCEPT !.mem = [m EXCEPT !.boot = {}]]]
                    BY <3>1, <3>2, <4>1 DEF AddBegins
                <5>2. [m EXCEPT !.boot = {}].val = m.val /\ [m EXCEPT !.boot = {}].id = m.id
                    BY DEF Confs
                <5> QED BY <5>1, <5>2
            <4>2. CASE AddRefills(c)
                <5> DEFINE b == job[c].cfg.boot \cup {c}
                <5>1. repo' = [repo EXCEPT ![h] = [repo[h] EXCEPT !.mem = [m EXCEPT !.boot = b]]]
                    BY <3>1, <3>2, <4>2 DEF AddRefills
                <5>2. [m EXCEPT !.boot = b].val = m.val /\ [m EXCEPT !.boot = b].id = m.id
                    BY DEF Confs
                <5> QED BY <5>1, <5>2
            <4> QED BY <2>5, <4>1, <4>2
        <3>4. repo[h] \in Repos /\ repo \in [Procs -> Repos]
            BY DEF Types
        <3>5. \A q \in Procs : repo'[q].at = repo[q].at /\ SameMem(q)
            BY <3>2, <3>3, <3>4 DEF Repos, SameMem
        <3> QED BY <2>5, <3>5, SettingsSame DEF AddBegins, AddRefills
    <2>6. CASE AddSaves(c)
        <3>1. PICK h \in Procs : h = job[c].host
            BY <2>0, <2>6 DEF AddSaves, At
        <3>2. repo[h].at = "open"
            BY <2>6, <3>1, Open DEF AddSaves, At, JobHolds, Shape
        <3>3. PICK m \in Confs : m = repo[h].mem
            BY DEF Types, Repos
        <3>4. conf' = m /\ UNCHANGED <<repo, pc, told>>
            BY <2>6, <3>1, <3>3 DEF AddSaves, Shared
        <3>5. conf'.id = conf.id /\ conf'.val = m.val
            BY <3>2, <3>3, <3>4 DEF Settings
        <3>6. IsInitialized' <=> IsInitialized
            BY <3>5 DEF IsInitialized
        <3> QED BY <3>2, <3>3, <3>4, <3>5, <3>6 DEF Settings
    <2>7. CASE Edit(c)
        <3>1. CASE IsInitialized
            <4>1. conf' = [conf EXCEPT !.val = job[c].val] /\ UNCHANGED <<repo, pc>> /\ told' = Told(job[c].val, "editor")
                BY <2>7, <3>1 DEF Edit
            <4>2. conf'.id = conf.id /\ told'.by = "editor"
                BY <4>1 DEF Types, Confs, Told
            <4>3. IsInitialized' <=> IsInitialized
                BY <4>2 DEF IsInitialized
            <4> QED BY <4>1, <4>2, <4>3 DEF Settings
        <3>2. CASE ~IsInitialized
            BY <1>3, <2>7, <3>2 DEF Edit
        <3> QED BY <3>1, <3>2
    <2> QED BY <1>8, <2>1, <2>2, <2>3, <2>4, <2>5, <2>6, <2>7 DEF Handler
<1>9. CASE Happens
    <2>1. ASSUME NEW d \in Daemons, StartDaemon(d) \/ Fail(d) \/ Interrupt(d) PROVE Settings'
        BY <1>0, <1>2, <1>3, <2>1 DEF StartDaemon, Fail, Interrupt, Unmade
    <2>2. ASSUME NEW c \in Commands, StartCommand(c) PROVE Settings'
        BY <1>0, <1>2, <2>2 DEF StartCommand, Unmade
    <2>3. ASSUME NEW p \in Procs, Crash(p) PROVE Settings'
        BY <1>1, <2>3 DEF Crash
    <2> QED BY <1>9, <2>1, <2>2, <2>3 DEF Happens
<1> QED BY <1>4, <1>5, <1>6, <1>7, <1>8, <1>9 DEF Next, Work

-----------------------------------------------------------------------------
(* The invariant, and what it implies *)

LEMMA InitInv == Init => IInv
<1> SUFFICES ASSUME Init PROVE IInv
    OBVIOUS
<1>1. conf \in Confs /\ conf.val = Default
    <2>1. (CHOOSE d \in Daemons : TRUE) \in Daemons
        BY RepoAssumption
    <2>2. PICK d \in Daemons : d = CHOOSE e \in Daemons : TRUE
        BY <2>1
    <2>3. conf = NoConf \/ conf = [NoConf EXCEPT !.id = d]
        BY <2>2 DEF Init
    <2> QED BY <2>2, <2>3, RepoAssumption DEF NoConf, Confs, Procs
<1>2. Types
    BY <1>1, Blanks, RepoAssumption DEF Init, Types, Places, Told
<1>3. JobKinds
    BY Blanks DEF Init, JobKinds, Procs
<1>4. Bare /\ Locked /\ Built /\ Named
    BY Blanks DEF Init, Bare, Locked, Built, Named, Procs
<1>5. ASSUME NEW p \in Procs PROVE CountedAt(p)
    <2>1. Holders(p) = {} /\ ~MainHolds(p)
        BY <1>5, Blanks DEF Init, Holders, JobHolds, MainHolds
    <2>2. repo[p].refs = 0 /\ repo[p].at = "none"
        BY <1>5, Blanks DEF Init
    <2> QED BY <2>1, <2>2, FS_EmptySet DEF CountedAt
<1>6. Settings
    BY <1>1, Blanks DEF Init, Settings, Told
<1> QED BY <1>2, <1>3, <1>4, <1>5, <1>6 DEF IInv, Base, Counted

LEMMA NextInv == IInv /\ [Next]_vars => IInv'
<1> SUFFICES ASSUME IInv, [Next]_vars PROVE IInv'
    OBVIOUS
<1>1. CASE Next
    <2>1. Types' /\ JobKinds' /\ Shape' /\ Named'
        BY <1>1, TypesKept, JobKindsKept, ShapeKept, NamedKept DEF IInv, Base, Shape
    <2>2. OneInitialises => Settings'
        BY <1>1, SettingsKeptHere DEF IInv, Base, Shape
    <2> QED BY <2>1, <2>2 DEF IInv, Base, Shape, OneInitialises, MayInit
<1>2. CASE UNCHANGED vars
    BY <1>2 DEF vars, IInv, Base, Types, JobKinds, Bare, Locked, Built, Counted, CountedAt, Holders, JobHolds,
                MainHolds, Named, OneInitialises, MayInit, Settings, IsInitialized
<1> QED BY <1>1, <1>2

\* All of it, in every reachable state.
THEOREM Invariant == Spec => []IInv
BY InitInv, NextInv, PTL DEF Spec

LEMMA Promised ==
    ASSUME Base PROVE DatastoreOwned /\ Announced /\ NoUseAfterClose
<1>1. DatastoreOwned
    BY DEF Base, Locked, DatastoreOwned
<1>2. Announced
    BY DEF Base, Named, Built, Announced, Procs
<1>3. ASSUME NEW c \in Commands, Holds(c) PROVE repo[job[c].host].at = "open"
    <2>1. job[c].host \in Procs /\ JobHolds(c, job[c].host)
        BY <1>3 DEF Holds, JobHolds, Base, JobKinds, Types, Jobs
    <2> QED BY <2>1, Open DEF Base
<1>4. ASSUME NEW d \in Daemons, node[d] \in {"up", "closing"} PROVE repo[d].at = "open"
    BY <1>4, Open DEF Base, MainHolds, Procs
<1> QED BY <1>1, <1>2, <1>3, <1>4 DEF NoUseAfterClose

\* FSRepo.Close gives up the lock last and open takes it first, so at most one process
\* has the datastore open, whoever is killed.
THEOREM OneOwner == Spec => []DatastoreOwned
BY Invariant, Promised, PTL DEF IInv

\* Only the last Close of a repository removes the api file, and the node of a daemon that
\* takes requests has not closed it.
THEOREM DaemonsAreAnnounced == Spec => []Announced
BY Invariant, Promised, PTL DEF IInv

\* OnlyOne counts as many references as there are users: nobody's Close takes the
\* repository from another.
THEOREM ReferencesAreGood == Spec => []NoUseAfterClose
BY Invariant, Promised, PTL DEF IInv

\* The config file has the setting last given to `config`: a `bootstrap add` writes back
\* what its process has in memory, and that is what `config` has written.
THEOREM SettingsStay == ASSUME OneInitialises PROVE Spec => []SettingsKept
<1>1. IInv => SettingsKept
    BY DEF IInv, Settings, SettingsKept
<1> QED BY <1>1, Invariant, PTL

\* Where one process initialises, a directory keeps the identity it has been given:
\* doInit writes a config only where it has seen none, and the identity that SetConfig
\* lays over the file is the one its process has read there (cmd/ipfs_client/init.go,
\* repo/fsrepo/fsrepo.go).
THEOREM IdentityStays == ASSUME OneInitialises PROVE Spec => IdentityKept
<1>1. ASSUME IInv, Next, IsInitialized PROVE conf'.id = conf.id
    <2>1. conf \in Confs /\ repo \in [Procs -> Repos]
        BY <1>1 DEF IInv, Base, Types
    <2>2. CASE \E p \in Procs : Main(p)
        <3>1. ASSUME NEW p \in Procs, InitConfig(p) PROVE FALSE
            BY <1>1, <3>1 DEF IInv, Settings, InitConfig
        <3>2. ASSUME NEW p \in Procs, Inits(p) PROVE conf' = conf
            BY <3>1, <3>2 DEF Inits, Begin, InitRepo, InitSpec, OpenKeyspace, CloseKeyspace, Made, Leaves, Gone, disk
        <3>3. ASSUME NEW p \in Procs, Closes(p) PROVE conf' = conf
            BY <3>3 DEF Closes, RemoveApi, CloseDatastore, Unlock, disk
        <3> QED BY <2>2, <3>2, <3>3 DEF Main, Decide, Probe, Probed, Leaves, Gone, disk
    <2>3. ASSUME NEW d \in Daemons, Starts(d) \/ Stops(d) PROVE conf'.id = conf.id
        <3>1. CASE Prompt(d)
            BY <2>1, <3>1 DEF Prompt, SetConfigKey, Confs
        <3>2. CASE Starts(d) /\ ~Prompt(d)
            BY <3>2 DEF Starts, OpenDaemon, BuildNode, Listen, SetAPIAddr, Serve, Leaves, Gone, disk
        <3>3. CASE Stops(d)
            BY <3>3 DEF Stops, StopServing, Teardown, TornDown, Return, Exit, Leaves, Gone, disk
        <3> QED BY <2>3, <3>1, <3>2, <3>3
    <2>4. ASSUME NEW c \in Commands, Client(c) \/ Handler(c) PROVE conf'.id = conf.id
        <3>1. CASE Set(c) \/ Edit(c)
            BY <2>1, <3>1 DEF Set, SetConfigKey, Edit, Confs
        <3>2. CASE AddSaves(c)
            <4>1. PICK h \in Procs : h = job[c].host
                BY <1>1, <2>4, <3>2 DEF AddSaves, At, IInv, Base, Types, JobKinds, Jobs
            <4>2. JobHolds(c, h)
                BY <3>2, <4>1 DEF AddSaves, At, JobHolds
            <4>3. repo[h].at = "open"
                BY <1>1, <2>4, <4>2, Open DEF IInv, Base
            <4> QED BY <1>1, <3>2, <4>1, <4>3 DEF AddSaves, Shared, IInv, Settings
        <3>3. CASE Client(c)
            BY <3>3 DEF Client, Send, RunHere, Answered, Leaves, Gone, disk
        <3>4. CASE Handler(c) /\ ~Set(c) /\ ~Edit(c) /\ ~AddSaves(c)
            BY <3>4 DEF Handler, Accept, OpenFor, AddBegins, AddRefills, Use, Shutdown, ShutdownEnds,
                        CloseFor, ClosedFor, Replied, disk
        <3> QED BY <2>4, <3>1, <3>2, <3>3, <3>4
    <2>5. CASE Happens
        BY <2>5 DEF Happens, StartDaemon, Fail, Interrupt, StartCommand, Crash, Gone, disk
    <2> QED BY <1>1, <2>2, <2>3, <2>4, <2>5 DEF Next, Work
<1>2. IInv /\ [Next]_vars => [IsInitialized => conf'.id = conf.id]_vars
    BY <1>1
<1> QED BY <1>2, Invariant, PTL DEF Spec, IdentityKept
-----------------------------------------------------------------------------
(***************************************************************************)
(* The answer of a daemon to one command, on its way back (Reply): what is *)
(* on the wire, how much of it the command has put out, and what that says *)
(* of a body that ends plainly.                                            *)
(***************************************************************************)
Markers == {"eof", "error", "text", "lost"}
\* What is on the wire: values, and how the body ended when it has.
Values == IF BodyOpen THEN Len(wire) ELSE Len(wire) - 1
Ended(how) == wire # <<>> /\ wire[Len(wire)] = how

ReplyTypes ==
    /\ want \in Nat /\ made \in 0 .. want /\ taken \in Nat /\ held \in {0, 1}
    /\ task \in {"running", "ended", "copied", "panicked", "refused"} /\ taskErr \in BOOLEAN
    /\ context \in {"open", "late", "shut", "gone"} /\ stopped \in BOOLEAN /\ err \in BOOLEAN
    /\ end \in {"reading", "closed", "ok", "failed"}
    /\ wire \in Seq({"value"} \cup Markers)

\* Nothing follows the end of a body.
WireInv == \A i \in 1 .. Len(wire) - 1 : wire[i] = "value"

\* A command that ends well has put out everything, or has been cut short.
TaskInv == task \in {"ended", "copied"} /\ ~taskErr => made = want \/ context # "open"

\* While the answer is read, nothing that was put out is missing from a body
\* that has not been cut, and only a complete one ends plainly.
ReadInv ==
    end = "reading" =>
        /\ ~err
        /\ BodyOpen \/ Ended("eof") => taken + held + Values = made
        /\ BodyOpen => context # "gone" /\ task \in {"running", "ended"}
        /\ Ended("text") => task = "refused"
        /\ Ended("eof") => task = "panicked" \/ (task = "copied" /\ ~taskErr /\ (made = want \/ context \in {"late", "shut"}))

\* And when it has been read without an error.
EndInv ==
    end # "reading" =>
        /\ held = 0
        /\ (end = "closed" /\ ~err) \/ end = "ok" =>
              \/ task = "copied" /\ ~taskErr /\ taken = made /\ (made = want \/ context \in {"late", "shut"})
              \/ task = "panicked" /\ taken = made
              \/ task = "refused" \/ stopped

ReplyInv == ReplyTypes /\ WireInv /\ TaskInv /\ ReadInv /\ EndInv
-----------------------------------------------------------------------------
(* What is put on the wire, cut off it and read. *)

LEMMA SentReply ==
    ASSUME wire \in Seq({"value"} \cup Markers), WireInv, BodyOpen,
           NEW m \in {"value"} \cup Markers, wire' = Append(wire, m)
    PROVE  /\ wire' \in Seq({"value"} \cup Markers) /\ WireInv'
           /\ \A how \in Markers : Ended(how)' <=> m = how
           /\ BodyOpen' <=> m = "value"
           /\ BodyOpen' => Values' = Values + 1
           /\ ~BodyOpen' => Values' = Values
<1>1. /\ wire' \in Seq({"value"} \cup Markers) /\ Len(wire) \in Nat /\ Len(wire') = Len(wire) + 1
      /\ wire'[Len(wire) + 1] = m /\ \A i \in 1 .. Len(wire) : wire'[i] = wire[i]
  BY AppendProperties, LenProperties
<1>2. \A i \in 1 .. Len(wire) : wire[i] = "value"
  <2> SUFFICES ASSUME NEW i \in 1 .. Len(wire), i = Len(wire) PROVE wire[i] = "value"
    BY <1>1 DEF WireInv
  <2>1. wire # <<>>
    BY <1>1
  <2>2. wire[i] \in {"value"} \cup Markers
    BY ElementOfSeq
  <2> QED BY <2>1, <2>2 DEF BodyOpen, Markers
<1>3. WireInv'
  BY <1>1, <1>2 DEF WireInv
<1>4. wire' # <<>> /\ wire'[Len(wire')] = m
  BY <1>1
<1> QED BY <1>1, <1>3, <1>4 DEF Ended, BodyOpen, Values, Markers

LEMMA CutReply ==
    ASSUME wire \in Seq({"value"} \cup Markers), WireInv, BodyOpen,
           NEW n \in 0 .. Len(wire), wire' = Append(SubSeq(wire, 1, n), "lost")
    PROVE  wire' \in Seq({"value"} \cup Markers) /\ WireInv' /\ ~BodyOpen' /\ \A how \in Markers : Ended(how)' <=> how = "lost"
<1> DEFINE s == SubSeq(wire, 1, n)
<1>0. Len(wire) \in Nat
  BY LenProperties
<1>1. s \in Seq({"value"} \cup Markers) /\ Len(s) = n /\ \A i \in 1 .. n : s[i] = wire[i]
  <2>1. 1 \in 1 .. Len(wire) + 1
    BY <1>0
  <2>2. \A i \in 1 .. n : wire[i] \in {"value"} \cup Markers
    BY <1>0, ElementOfSeq
  <2> QED BY <1>0, <2>1, <2>2, SubSeqProperties
<1> HIDE DEF s
<1>2. /\ wire' \in Seq({"value"} \cup Markers) /\ Len(wire') = n + 1
      /\ wire'[n + 1] = "lost" /\ \A i \in 1 .. n : wire'[i] = wire[i]
  <2>1. wire' = Append(s, "lost") /\ "lost" \in {"value"} \cup Markers
    BY DEF s, Markers
  <2> QED BY <1>1, <2>1, AppendProperties
<1>3. \A i \in 1 .. Len(wire) : wire[i] = "value"
  <2> SUFFICES ASSUME NEW i \in 1 .. Len(wire), i = Len(wire) PROVE wire[i] = "value"
    BY <1>0 DEF WireInv
  <2>1. wire # <<>>
    BY <1>0
  <2>2. wire[i] \in {"value"} \cup Markers
    BY ElementOfSeq
  <2> QED BY <2>1, <2>2 DEF BodyOpen, Markers
<1>4. WireInv'
  BY <1>0, <1>2, <1>3 DEF WireInv
<1>5. wire' # <<>> /\ wire'[Len(wire')] = "lost"
  <2>1. n \in Nat /\ n + 1 # 0
    BY <1>0
  <2> QED BY <1>2, <2>1
<1> QED BY <1>2, <1>4, <1>5 DEF Ended, BodyOpen

LEMMA ReadReply ==
    ASSUME wire \in Seq({"value"} \cup Markers), WireInv, wire # <<>>, wire' = Tail(wire)
    PROVE  /\ wire' \in Seq({"value"} \cup Markers) /\ WireInv' /\ Head(wire) \in {"value"} \cup Markers
           /\ Head(wire) \in Markers => ~BodyOpen /\ Ended(Head(wire)) /\ Values = 0
           /\ Head(wire) = "value" => /\ Values' = Values - 1 /\ (BodyOpen' <=> BodyOpen)
                                      /\ \A how \in Markers : Ended(how)' <=> Ended(how)
<1>1. /\ wire' \in Seq({"value"} \cup Markers) /\ Len(wire) \in Nat \ {0} /\ Len(wire') = Len(wire) - 1
      /\ Head(wire) = wire[1] /\ Head(wire) \in {"value"} \cup Markers
      /\ \A i \in 1 .. Len(wire') : wire'[i] = wire[i + 1]
  <2>1. Len(wire) \in Nat \ {0}
    BY LenProperties, EmptySeq
  <2>2. Head(wire) = wire[1] /\ wire[1] \in {"value"} \cup Markers
    BY <2>1, ElementOfSeq
  <2> QED BY <2>1, <2>2, HeadTailProperties
<1>2. WireInv'
  BY <1>1 DEF WireInv
<1>3. CASE Len(wire) = 1
  <2>1. wire' = <<>> /\ wire[Len(wire)] = Head(wire)
    BY <1>1, <1>3
  <2> QED BY <1>1, <1>2, <1>3, <2>1 DEF Ended, BodyOpen, Values, Markers
<1>4. CASE Len(wire) # 1
  <2>1. wire[1] = "value"
    BY <1>1, <1>4 DEF WireInv
  <2>2. wire' # <<>> /\ wire'[Len(wire')] = wire[Len(wire)]
    <3>1. Len(wire) - 1 \in Nat /\ Len(wire) - 1 # 0 /\ Len(wire) - 1 \in 1 .. Len(wire) - 1 /\ Len(wire) - 1 + 1 = Len(wire)
      BY <1>1, <1>4
    <3>2. wire' # <<>>
      BY <1>1, <3>1
    <3> QED BY <1>1, <3>1, <3>2
  <2> QED BY <1>1, <1>2, <2>1, <2>2 DEF Ended, BodyOpen, Values, Markers
<1> QED BY <1>3, <1>4

\* Who leaves the wire alone.
LEMMA SameReply ==
    ASSUME UNCHANGED wire
    PROVE  (WireInv <=> WireInv') /\ (BodyOpen' <=> BodyOpen) /\ Values' = Values /\ \A how \in Markers : Ended(how)' <=> Ended(how)
<1>1. BodyOpen' <=> BodyOpen
  BY DEF BodyOpen
<1> QED BY <1>1 DEF WireInv, Values, Ended
-----------------------------------------------------------------------------
(* The invariant is one: the daemon's steps, then the client's. *)

LEMMA InitReply == ASSUME ReplyInit PROVE ReplyInv
<1>1. /\ want \in Nat /\ made = 0 /\ taken = 0 /\ held = 0 /\ task \in {"running", "refused"} /\ taskErr = FALSE
      /\ context = "open" /\ stopped = FALSE /\ err = FALSE /\ end = "reading"
      /\ wire = IF task = "refused" THEN <<"text">> ELSE <<>>
  BY ReplyAssumption DEF ReplyInit
<1>2. CASE task = "refused"
  <2>1. wire = <<"text">> /\ Len(wire) = 1 /\ wire[1] = "text" /\ wire \in Seq({"value"} \cup Markers)
    BY <1>1, <1>2 DEF Markers
  <2>2. ~BodyOpen /\ \A how \in Markers : Ended(how) <=> how = "text"
    BY <2>1 DEF BodyOpen, Ended
  <2>3. ReplyTypes /\ WireInv
    <3>1. made \in 0 .. want
      BY <1>1
    <3>2. ReplyTypes
      BY <1>1, <2>1, <3>1 DEF ReplyTypes
    <3>3. WireInv
      BY <2>1 DEF WireInv
    <3> QED BY <3>2, <3>3
  <2>4. TaskInv /\ ReadInv /\ EndInv
    BY <1>1, <1>2, <2>2 DEF TaskInv, ReadInv, EndInv, Markers
  <2> QED BY <2>3, <2>4 DEF ReplyInv
<1>3. CASE task = "running"
  <2>1. wire = <<>> /\ Len(wire) = 0 /\ wire \in Seq({"value"} \cup Markers)
    BY <1>1, <1>3
  <2>2. BodyOpen /\ Values = 0 /\ \A how \in Markers : ~Ended(how)
    BY <2>1 DEF BodyOpen, Ended, Values
  <2>3. ReplyTypes /\ WireInv
    <3>1. made \in 0 .. want
      BY <1>1
    <3>2. ReplyTypes
      BY <1>1, <2>1, <3>1 DEF ReplyTypes
    <3>3. WireInv
      BY <2>1 DEF WireInv
    <3> QED BY <3>2, <3>3
  <2>4. TaskInv /\ ReadInv /\ EndInv
    BY <1>1, <1>3, <2>2 DEF TaskInv, ReadInv, EndInv, Markers
  <2> QED BY <2>3, <2>4 DEF ReplyInv
<1> QED BY <1>1, <1>2, <1>3

LEMMA YieldReply == ASSUME ReplyInv, Yield PROVE ReplyInv'
<1> USE DEF ReplyInv, client
<1>1. /\ task = "running" /\ made < want /\ made' = made + 1
      /\ UNCHANGED <<kind, want, task, taskErr, context, stopped, held, taken, err, end>>
      /\ want \in Nat /\ made \in Nat /\ made + 1 \in 0 .. want
  BY DEF Yield, ReplyTypes
<1>2. CASE BodyOpen
  <2>1. wire' = Append(wire, "value")
    BY <1>2 DEF Yield
  <2>2. /\ wire' \in Seq({"value"} \cup Markers) /\ WireInv' /\ BodyOpen' /\ Values' = Values + 1
        /\ \A how \in Markers : ~Ended(how)'
    BY <1>2, <2>1, SentReply DEF ReplyTypes, Markers
  <2>3. Values \in Nat
    BY <1>2, LenProperties DEF Values, ReplyTypes
  <2> QED BY <1>1, <1>2, <2>2, <2>3 DEF ReplyTypes, TaskInv, ReadInv, EndInv, Markers
<1>3. CASE ~BodyOpen
  <2>1. wire' = wire
    BY <1>3 DEF Yield
  <2>2. WireInv' /\ ~BodyOpen' /\ \A how \in Markers : Ended(how)' <=> Ended(how)
    BY <1>3, <2>1, SameReply
  <2>3. end = "reading" => ~Ended("eof") /\ ~Ended("text")
    BY <1>1 DEF ReadInv
  <2> QED BY <1>1, <1>3, <2>1, <2>2, <2>3 DEF ReplyTypes, TaskInv, ReadInv, EndInv, Markers
<1> QED BY <1>2, <1>3

LEMMA EndsReply == ASSUME ReplyInv, Ends PROVE ReplyInv'
<1> USE DEF ReplyInv, client
<1>1. /\ task = "running" /\ task' = "ended" /\ taskErr' \in BOOLEAN /\ (~taskErr' => made = want \/ context # "open")
      /\ UNCHANGED <<kind, want, made, context, wire, stopped, held, taken, err, end>>
  BY DEF Ends
<1>2. WireInv' /\ (BodyOpen' <=> BodyOpen) /\ Values' = Values /\ \A how \in Markers : Ended(how)' <=> Ended(how)
  BY <1>1, SameReply
<1>3. ReplyTypes' /\ TaskInv'
  BY <1>1 DEF ReplyTypes, TaskInv
<1>4. ReadInv' /\ EndInv'
  BY <1>1, <1>2 DEF ReadInv, EndInv, Markers
<1> QED BY <1>2, <1>3, <1>4

LEMMA CopiedReply == ASSUME ReplyInv, Copied PROVE ReplyInv'
<1> USE DEF ReplyInv, client
<1>1. /\ task = "ended" /\ task' = "copied"
      /\ UNCHANGED <<kind, want, made, taskErr, context, stopped, held, taken, err, end>>
  BY DEF Copied
<1> DEFINE m == IF taskErr THEN "error" ELSE "eof"
<1>2. CASE BodyOpen
  <2>1. wire' = Append(wire, m) /\ m \in Markers
    BY <1>2 DEF Copied, Markers
  <2>2. m = "eof" => ~taskErr
    OBVIOUS
  <2> HIDE DEF m
  <2>3. /\ wire' \in Seq({"value"} \cup Markers) /\ WireInv' /\ ~BodyOpen' /\ Values' = Values
        /\ \A how \in Markers : Ended(how)' <=> m = how
    BY <1>2, <2>1, SentReply DEF ReplyTypes, Markers
  <2>4. ReplyTypes' /\ TaskInv' /\ EndInv'
    BY <1>1, <2>3 DEF ReplyTypes, TaskInv, EndInv
  <2>5. m # "text"
    BY DEF m
  <2>6. ReadInv'
    BY <1>1, <1>2, <2>2, <2>3, <2>5 DEF ReplyTypes, TaskInv, ReadInv, Markers
  <2> QED BY <2>3, <2>4, <2>6
<1>3. CASE ~BodyOpen
  <2>1. wire' = wire
    BY <1>3 DEF Copied
  <2>2. WireInv' /\ ~BodyOpen' /\ \A how \in Markers : Ended(how)' <=> Ended(how)
    BY <1>3, <2>1, SameReply
  <2>3. end = "reading" => ~Ended("eof") /\ ~Ended("text")
    BY <1>1 DEF ReadInv
  <2> QED BY <1>1, <2>1, <2>2, <2>3 DEF ReplyTypes, TaskInv, ReadInv, EndInv, Markers
<1> QED BY <1>2, <1>3

LEMMA PanicsReply == ASSUME ReplyInv, Panics PROVE ReplyInv'
<1> USE DEF ReplyInv, client
<1>1. /\ task = "running" /\ task' = "panicked" /\ taskErr' \in BOOLEAN
      /\ UNCHANGED <<kind, want, made, context, stopped, held, taken, err, end>>
  BY DEF Panics
<1>2. CASE BodyOpen
  <2>1. wire' = Append(wire, "eof") /\ "eof" \in Markers
    BY <1>2 DEF Panics, Markers
  <2>2. /\ wire' \in Seq({"value"} \cup Markers) /\ WireInv' /\ ~BodyOpen' /\ Values' = Values
        /\ \A how \in Markers : Ended(how)' <=> how = "eof"
    BY <1>2, <2>1, SentReply DEF ReplyTypes, Markers
  <2>3. ReplyTypes' /\ TaskInv' /\ EndInv'
    BY <1>1, <2>2 DEF ReplyTypes, TaskInv, EndInv
  <2>4. ReadInv'
    BY <1>1, <1>2, <2>2 DEF ReadInv, Markers
  <2> QED BY <2>2, <2>3, <2>4
<1>3. CASE ~BodyOpen
  <2>1. wire' = wire
    BY <1>3 DEF Panics
  <2>2. WireInv' /\ ~BodyOpen' /\ \A how \in Markers : Ended(how)' <=> Ended(how)
    BY <1>3, <2>1, SameReply
  <2>3. end = "reading" => ~Ended("eof") /\ ~Ended("text")
    BY <1>1 DEF ReadInv
  <2> QED BY <1>1, <2>1, <2>2, <2>3 DEF ReplyTypes, TaskInv, ReadInv, EndInv, Markers
<1> QED BY <1>2, <1>3

\* The connection breaks, the time is over, the node stops, or the client does.
LEMMA HurtReply == ASSUME ReplyInv, Breaks \/ ContextEnds \/ ClientStops PROVE ReplyInv'
<1> USE DEF ReplyInv, client
<1>1. CASE Breaks
  <2>1. /\ context' \in {"late", "shut", "gone"} /\ (context # "open" => context' = context)
        /\ UNCHANGED <<kind, want, task, made, taskErr, stopped, held, taken, err, end>>
    BY <1>1 DEF Breaks, ReplyTypes
  <2>2. CASE BodyOpen
    <3>1. PICK n \in 0 .. Len(wire) : wire' = Append(SubSeq(wire, 1, n), "lost")
      BY <1>1, <2>2 DEF Breaks
    <3>2. wire' \in Seq({"value"} \cup Markers) /\ WireInv' /\ ~BodyOpen' /\ \A how \in Markers : Ended(how)' <=> how = "lost"
      BY <2>2, <3>1, CutReply DEF ReplyTypes
    <3> QED BY <2>1, <3>2 DEF ReplyTypes, TaskInv, ReadInv, EndInv, Markers
  <2>3. CASE ~BodyOpen
    <3>1. wire' = wire
      BY <1>1, <2>3 DEF Breaks
    <3>2. WireInv' /\ ~BodyOpen' /\ Values' = Values /\ \A how \in Markers : Ended(how)' <=> Ended(how)
      BY <2>3, <3>1, SameReply
    <3>3. ReplyTypes' /\ TaskInv'
      BY <2>1, <3>1 DEF ReplyTypes, TaskInv
    <3>4. ReadInv' /\ EndInv'
      BY <2>1, <2>3, <3>2 DEF ReadInv, EndInv, Markers
    <3> QED BY <3>2, <3>3, <3>4
  <2> QED BY <2>2, <2>3
<1>2. CASE ContextEnds \/ ClientStops
  <2>1. /\ UNCHANGED <<kind, want, task, made, taskErr, wire, held, taken, err, end>>
        /\ context' = context \/ (context = "open" /\ context' \in {"late", "shut"})
        /\ stopped' \in BOOLEAN /\ (stopped => stopped')
    BY <1>2 DEF ContextEnds, ClientStops, ReplyTypes
  <2>2. WireInv' /\ (BodyOpen' <=> BodyOpen) /\ Values' = Values /\ \A how \in Markers : Ended(how)' <=> Ended(how)
    BY <2>1, SameReply
  <2>3. ReplyTypes' /\ TaskInv'
    BY <2>1 DEF ReplyTypes, TaskInv
  <2>4. ReadInv' /\ EndInv'
    BY <2>1, <2>2 DEF ReadInv, EndInv, Markers
  <2> QED BY <2>2, <2>3, <2>4
<1> QED BY <1>1, <1>2

LEMMA DecodeReply == ASSUME ReplyInv, Decode PROVE ReplyInv'
<1> USE DEF ReplyInv
<1>1. /\ end = "reading" /\ held = 0 /\ wire # <<>> /\ wire' = Tail(wire)
      /\ UNCHANGED <<kind, want, task, made, taskErr, context, stopped, taken>>
  BY DEF Decode
<1>2. /\ wire' \in Seq({"value"} \cup Markers) /\ WireInv' /\ Head(wire) \in {"value"} \cup Markers
      /\ Head(wire) \in Markers => ~BodyOpen /\ Ended(Head(wire)) /\ Values = 0
      /\ Head(wire) = "value" => /\ Values' = Values - 1 /\ (BodyOpen' <=> BodyOpen)
                                 /\ \A how \in Markers : Ended(how)' <=> Ended(how)
  BY <1>1, ReadReply DEF ReplyTypes
<1>3. TaskInv'
  BY <1>1 DEF TaskInv
<1>4. CASE Head(wire) = "value"
  <2>1. held' = 1 /\ UNCHANGED <<end, err>>
    BY <1>4 DEF Decode
  <2>2. Values \in Int /\ taken \in Nat
    <3>1. Len(wire) \in Nat
      BY LenProperties DEF ReplyTypes
    <3> QED BY <3>1 DEF Values, ReplyTypes
  <2>3. ReplyTypes'
    BY <1>1, <1>2, <2>1 DEF ReplyTypes
  <2>4. ReadInv' /\ EndInv'
    BY <1>1, <1>2, <1>4, <2>1, <2>2 DEF ReadInv, EndInv, Markers
  <2> QED BY <1>2, <1>3, <2>3, <2>4
<1>5. CASE Head(wire) \in {"eof", "text"}
  <2>1. end' = "closed" /\ UNCHANGED <<held, err>>
    BY <1>5 DEF Decode
  <2>2. ReplyTypes' /\ ReadInv'
    BY <1>1, <1>2, <2>1 DEF ReplyTypes, ReadInv
  <2>3. Head(wire) = "text" => task = "refused"
    BY <1>1, <1>2 DEF ReadInv, Markers
  <2>4. Head(wire) = "eof" => /\ taken = made
                              /\ task = "panicked" \/ (task = "copied" /\ ~taskErr /\ (made = want \/ context \in {"late", "shut"}))
    BY <1>1, <1>2 DEF ReadInv, Markers, ReplyTypes
  <2>5. EndInv'
    BY <1>1, <1>5, <2>1, <2>3, <2>4 DEF EndInv
  <2> QED BY <1>2, <1>3, <2>2, <2>5
<1>6. CASE Head(wire) \notin {"value", "eof", "text"}
  <2>1. end' = "closed" /\ err' = TRUE /\ held' = held
    BY <1>6 DEF Decode
  <2> QED BY <1>1, <1>2, <1>3, <2>1 DEF ReplyTypes, ReadInv, EndInv
<1> QED BY <1>4, <1>5, <1>6

\* The other steps of the client.
LEMMA ClientReply == ASSUME ReplyInv, ReadFails \/ Take \/ GivesUp \/ Reports PROVE ReplyInv'
<1> USE DEF ReplyInv
<1>1. UNCHANGED <<kind, want, task, made, taskErr, context, wire, stopped>>
  BY DEF ReadFails, Take, GivesUp, Reports
<1>2. WireInv' /\ TaskInv' /\ (BodyOpen' <=> BodyOpen) /\ Values' = Values /\ \A how \in Markers : Ended(how)' <=> Ended(how)
  BY <1>1, SameReply DEF TaskInv
<1>3. CASE ReadFails
  BY <1>1, <1>2, <1>3 DEF ReadFails, ReplyTypes, ReadInv, EndInv
<1>4. CASE Take
  <2>1. held = 1 /\ held' = 0 /\ taken' = taken + 1 /\ taken \in Nat /\ UNCHANGED <<err, end>>
    BY <1>4 DEF Take, ReplyTypes
  <2>2. Values \in Int
    <3>1. Len(wire) \in Nat
      BY LenProperties DEF ReplyTypes
    <3> QED BY <3>1 DEF Values
  <2>3. ReplyTypes' /\ EndInv'
    BY <1>1, <2>1 DEF ReplyTypes, EndInv
  <2>4. ReadInv'
    BY <1>1, <1>2, <2>1, <2>2 DEF ReadInv, Markers
  <2> QED BY <1>2, <2>3, <2>4
<1>5. CASE GivesUp
  BY <1>1, <1>2, <1>5 DEF GivesUp, ReplyTypes, ReadInv, EndInv
<1>6. CASE Reports
  BY <1>1, <1>2, <1>6 DEF Reports, ReplyTypes, ReadInv, EndInv
<1> QED BY <1>3, <1>4, <1>5, <1>6

\* An answer that a program takes for complete has all that the command put out,
\* and the command had come to its end, or to one that its context made for it;
\* but for a panic that the handler recovers from, a refusal, and a client that
\* was stopped (http/client.go, http/handler.go).
THEOREM AnswersEndTrue == ReplySpec => []EndsTrue
<1>1. ReplyInit => ReplyInv
  BY InitReply
<1>2. ReplyInv /\ [ReplyNext]_replyVars => ReplyInv'
  <2>1. ASSUME ReplyInv, ReplyNext PROVE ReplyInv'
    BY <2>1, YieldReply, EndsReply, CopiedReply, PanicsReply, HurtReply, DecodeReply, ClientReply DEF ReplyNext
  <2>2. ASSUME ReplyInv, UNCHANGED replyVars PROVE ReplyInv'
    <3>1. UNCHANGED <<kind, want, task, made, taskErr, context, wire, stopped, held, taken, err, end>>
      BY <2>2 DEF replyVars
    <3>2. WireInv' /\ (BodyOpen' <=> BodyOpen) /\ Values' = Values /\ \A how \in Markers : Ended(how)' <=> Ended(how)
      BY <2>2, <3>1, SameReply DEF ReplyInv
    <3> QED BY <2>2, <3>1, <3>2 DEF ReplyInv, ReplyTypes, TaskInv, ReadInv, EndInv, Markers
  <2> QED BY <2>1, <2>2
<1>3. ReplyInv => EndsTrue
  BY DEF ReplyInv, EndInv, EndsTrue
<1> QED BY <1>1, <1>2, <1>3, PTL DEF ReplySpec
=============================================================================
