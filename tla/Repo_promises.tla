--------------------------- MODULE Repo_promises ---------------------------
(***************************************************************************)
(* What the processes of one repository directory promise each other.      *)
(***************************************************************************)
EXTENDS Repo

Places == {"off", "new", "probe", "probed", "go", "fresh", "write", "lay", "keys", "keyspace",
           "made", "open", "prompt", "build", "listen", "announce", "server",
           "serve", "ret", "send", "waiting", "run"}

TypeOK ==
    /\ conf.id \in Procs \cup {None} /\ conf.val \in Vals /\ conf.boot \subseteq Commands
    /\ layout \in BOOLEAN /\ api \in BOOLEAN
    /\ lock \in Procs \cup {None} /\ port \in Daemons \cup {None}
    /\ pc \in [Procs -> Places]
    /\ \A p \in Procs :
           /\ repo[p].at \in {"none", "open", "last", "unnamed", "shut"}
           /\ repo[p].refs \in 0 .. 1 + Cardinality(Commands)
           /\ repo[p].at = "open" <=> repo[p].refs > 0
           /\ node[p] \in {"none", "up", "closing", "tearing", "torn"}
           /\ serves[p] => port = p
    /\ \A c \in Commands : job[c].host \in Procs \cup {None}

\* The datastore has one owner.  Close gives up the lock only after it has
\* closed the datastore, and open takes the lock before it opens it.
DatastoreOwned ==
    \A p, q \in Procs :
        {repo[p].at, repo[q].at} \subseteq {"open", "last", "unnamed"} => p = q

\* A daemon that takes requests can be found: nobody else's Close, and no
\* request's, removes its api file.
Announced == \A d \in Daemons : serves[d] /\ node[d] = "up" => api

\* Who has a reference works on an open repository, whatever others close.
Holds(c) == job[c].kind \in {"set", "add"} /\ job[c].at \in {"work", "refill", "save", "close"}

NoUseAfterClose ==
    /\ \A c \in Commands : Holds(c) => repo[job[c].host].at = "open"
    /\ \A d \in Daemons : node[d] \in {"up", "closing"} => repo[d].at = "open"

\* What `config` has set stays, until somebody sets it again: a `bootstrap
\* add` of the same daemon, which writes back all it has in memory, included.
SettingsKept == IsInitialized /\ told.by # "editor" => conf.val = told.val

Alone(p) == \A q \in Procs \ {p} : pc[q] = "off"

\* An api file left by a killed daemon does not keep the next one from starting.
DaemonStarts ==
    \A d \in Daemons :
        (pc[d] = "new" /\ Alone(d) /\ layout /\ left.hurts = 0)
            ~> (pc[d] \in {"serve", "ret"} \/ ~Alone(d))

\* Nobody waits for ever: each command gives its caller an answer, and a daemon
\* that has been asked to stop is gone in the end, whatever it still hosts.
Settles ==
    <>[](\A p \in Procs : pc[p] = "off" \/ (serves[p] /\ node[p] = "up" /\ pc[p] = "serve"))

(***************************************************************************)
(* Promises that other commands, run at the wrong moment, break.           *)
(***************************************************************************)
\* The peers that `bootstrap add` reported are in the file.
BootstrapKept == added \subseteq conf.boot

\* What an editor has written stays.
EditKept == told.by = "editor" => conf.val = told.val

\* A directory keeps the identity it has been given.
IdentityKept == [][IsInitialized => conf'.id = conf.id]_vars

\* A directory with a config file can be opened once `init` has been tried again.
InitRecovers ==
    \A c \in Commands :
        (pc[c] = "new" /\ job[c].kind = "init" /\ Alone(c) /\ left.hurts = 0)
            ~> (layout \/ ~Alone(c))

\* Where nobody is killed no daemon leaves its api file.
NoStaleApi ==
    api => "crash" \in Hurts \/ \E p \in Procs : pc[p] # "off"
=============================================================================
