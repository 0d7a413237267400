-------------------------------- MODULE Dag --------------------------------
(***************************************************************************)
(* The Merkle DAG as the pinner and the collector see it: a fixed set of   *)
(* blocks and the links of each.  The recursive walks of package merkledag *)
(* (EnumerateChildren, EnumerateChildrenAsync, FetchGraph) are modelled by *)
(* what they compute, a least fixpoint, and not by their recursion.        *)
(*                                                                         *)
(* Bytes are left out: two blocks are told apart by their CID alone.       *)
(***************************************************************************)

CONSTANTS
    Blocks,     \* the CIDs of the data blocks
    Links       \* Links[b]: the CIDs the node of block b links to

ASSUME LinksAssumption == Links \in [Blocks -> SUBSET Blocks]

\* T holds the children of each of its members that can be read
ClosedUnderLinks(T, readable) == \A b \in T \cap readable : Links[b] \subseteq T

(***************************************************************************)
(* The blocks a walk from roots visits when only the blocks of readable    *)
(* can be read: a block that cannot be read is visited and contributes no  *)
(* children (getLinks of the collector returns no links and no error).     *)
(***************************************************************************)
Walk(roots, readable) ==
    {b \in Blocks : \A T \in SUBSET Blocks :
        (roots \subseteq T /\ ClosedUnderLinks(T, readable)) => b \in T}

\* the whole graphs below roots: what FetchGraph leaves in the store
Graph(roots) == Walk(roots, Blocks)

=============================================================================
