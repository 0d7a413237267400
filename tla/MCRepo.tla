------------------------------ MODULE MCRepo ------------------------------
\* Two daemons and two commands on one directory.
EXTENDS RepoFsck, TLC

CONSTANTS d1, d2, c1, c2, v0, v1, v2

MCKinds == c1 :> {"set"} @@ c2 :> {"add", "shutdown", "edit", "use"}

MCTwoAdd == c1 :> {"add"} @@ c2 :> {"add"}

MCEdit == c1 :> {"add"} @@ c2 :> {"edit"}

MCFsck == c1 :> {"set"} @@ c2 :> {"fsck"}

MCInit == c1 :> {"init"} @@ c2 :> {"init"}
=============================================================================
