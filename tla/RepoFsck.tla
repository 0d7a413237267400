------------------------------ MODULE RepoFsck ------------------------------
(***************************************************************************)
(* `repo fsck` beside the processes of Repo: it removes the lock files and *)
(* the api file.  Whether it runs is decided like for any command that     *)
(* cannot run in a daemon: without an api file nobody asks for the lock.   *)
(***************************************************************************)
EXTENDS Repo_promises

\* A lock on a removed file still belongs to its process and hinders nobody.
Fsck(c) ==
    /\ At(c, "work", {"fsck"})
    /\ lock' = None /\ api' = FALSE
    /\ To(c, "done")
    /\ UNCHANGED <<conf, layout, port, pc, repo, node, serves, ghosts, left>>

FsckNext == Next \/ \E c \in Commands : Fsck(c)

FsckSpec == Init /\ [][FsckNext]_vars
=============================================================================
