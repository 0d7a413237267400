---------------------------- MODULE PinGC_proofs ----------------------------
(***************************************************************************)
(* Theorems about PinGC for every number of clients, every DAG and every   *)
(* bound: type correctness, exclusion of the two sides of the GC lock, and *)
(* the two promises of the collector, under the lock discipline that each  *)
(* needs.                                                                  *)
(***************************************************************************)
EXTENDS PinGC, TLAPS

(***************************************************************************)
(* Lemmas about walks: Walk(R, A) is the least set that holds R and is     *)
(* closed under the links of the blocks of A.                              *)
(***************************************************************************)

\* A walk visits its roots, and nothing but blocks.
LEMMA WalkRoots ==
    ASSUME NEW R \in SUBSET Blocks, NEW A
    PROVE  R \subseteq Walk(R, A) /\ Walk(R, A) \subseteq Blocks
BY DEF Walk

\* A walk is contained in every closed set that holds its roots.
LEMMA WalkLeast ==
    ASSUME NEW R, NEW A, NEW T \in SUBSET Blocks,
           R \subseteq T, ClosedUnderLinks(T, A)
    PROVE  Walk(R, A) \subseteq T
BY DEF Walk

\* A walk is itself closed.
LEMMA WalkClosed ==
    ASSUME NEW R, NEW A
    PROVE  ClosedUnderLinks(Walk(R, A), A)
<1> SUFFICES ASSUME NEW b \in Walk(R, A) \cap A, NEW c \in Links[b]
             PROVE  c \in Walk(R, A)
    BY DEF ClosedUnderLinks
<1>1. b \in Blocks /\ c \in Blocks
    BY LinksAssumption DEF Walk
<1>2. ASSUME NEW T \in SUBSET Blocks, R \subseteq T, ClosedUnderLinks(T, A)
      PROVE  c \in T
    BY <1>2, <1>1 DEF Walk, ClosedUnderLinks
<1> QED BY <1>1, <1>2 DEF Walk

\* More roots, more blocks.
LEMMA GraphMonotone ==
    ASSUME NEW R, NEW Q, R \subseteq Q
    PROVE  Graph(R) \subseteq Graph(Q)
BY DEF Graph, Walk

\* The graph of a union is the union of the graphs.
LEMMA GraphUnion ==
    ASSUME NEW R \in SUBSET Blocks, NEW Q \in SUBSET Blocks
    PROVE  Graph(R \cup Q) \subseteq Graph(R) \cup Graph(Q)
<1> DEFINE T == Graph(R) \cup Graph(Q)
<1>1. R \cup Q \subseteq T /\ T \in SUBSET Blocks
    BY WalkRoots DEF Graph
<1>2. ClosedUnderLinks(T, Blocks)
    BY WalkClosed DEF Graph, ClosedUnderLinks
<1> QED BY <1>1, <1>2, WalkLeast DEF Graph

\* Walks and graphs are sets of blocks.
LEMMA GraphType ==
    ASSUME NEW R, NEW A
    PROVE  Walk(R, A) \subseteq Blocks /\ Graph(R) \subseteq Blocks
BY DEF Graph, Walk

\* A walk that fetches only adds to the blockstore, and nothing but what it walks.
LEMMA FetchedGrows ==
    ASSUME NEW S, NEW T
    PROVE  T \in Fetched(S) \/ T \in Incomplete(S) => store \subseteq T /\ T \subseteq store \cup S
BY DEF Fetched, Incomplete

\* A fetch of a graph leaves blocks in the blockstore.
LEMMA FetchedType ==
    ASSUME store \subseteq Blocks, NEW R, NEW T,
           T \in Fetched(Graph(R)) \/ T \in Incomplete(Graph(R))
    PROVE  T \subseteq Blocks
<1>1. T \subseteq store \cup Graph(R)
    BY FetchedGrows
<1>2. Graph(R) \subseteq Blocks
    BY GraphType
<1> QED BY <1>1, <1>2

-----------------------------------------------------------------------------
(***************************************************************************)
(* Type correctness.  TypeOK is not inductive by itself: a step that reads *)
(* the command of a client needs to know that the client has one, and the  *)
(* step after PinLock depends on which commands take PinLock.              *)
(***************************************************************************)
HasCommand ==
    \A p \in Clients :
        /\ pc[p] # "idle" => cmd[p] \in [kind : Kinds, cid : Targets]
        /\ pc[p] \in {"record", "pauseRecord"} => snap[p] \in PinState

TypeInv == TypeOK /\ HasCommand

\* The type invariant holds at start-up.
LEMMA TypeInit == Init => TypeInv
BY PinGCAssumption DEF Init, TypeInv, TypeOK, HasCommand, EmptyState, PinState, Command,
                       ClientSteps, CollectorSteps

\* Every step of every command, of the collector and of a restart keeps the types.
LEMMA TypeNext == TypeInv /\ [Next]_vars => TypeInv'
<1> SUFFICES ASSUME TypeInv, [Next]_vars PROVE TypeInv'
    OBVIOUS
<1> USE PinGCAssumption, LinksAssumption DEF TypeInv, TypeOK, HasCommand, Command, ClientSteps, CollectorSteps
<1>start. ASSUME NEW p \in Clients, NEW k \in Kinds, NEW c \in Targets, Start(p, k, c)
    PROVE  TypeInv'
    BY <1>start DEF Start, At, Goto, FirstStep, disk, pinner, gclock, collector, locals
<1>resolve. ASSUME NEW p \in Clients, Resolve(p) PROVE TypeInv'
    BY <1>resolve DEF Resolve, At, Goto, Cid, pinner, gclock, collector, bounds, locals
<1>pinLock. ASSUME NEW p \in Clients, PinLock(p) PROVE TypeInv'
    BY <1>pinLock DEF PinLock, At, disk, pinner, collector, bounds, locals
<1>pinLocked. ASSUME NEW p \in Clients, PinLocked(p) PROVE TypeInv'
    BY <1>pinLocked DEF PinLocked, At, Goto, StepAfterLock, disk, pinner, collector, bounds, locals
<1>pinBegin. ASSUME NEW p \in Clients, PinBegin(p) PROVE TypeInv'
    BY <1>pinBegin DEF PinBegin, At, Goto, Cid, disk, gclock, collector, bounds, locals
<1>pinFetch. ASSUME NEW p \in Clients, PinFetch(p) PROVE TypeInv'
    BY <1>pinFetch, GraphType DEF PinFetch, At, Goto, Cid, pinner, gclock, collector, bounds, locals
<1>pinFetchFails. ASSUME NEW p \in Clients, PinFetchFails(p) PROVE TypeInv'
    <2>1. store' \subseteq Blocks
        BY <1>pinFetchFails, FetchedType DEF PinFetchFails
    <2> QED BY <1>pinFetchFails, <2>1 DEF PinFetchFails, At, Goto, pinner, gclock, collector, bounds, locals
<1>pinCommit. ASSUME NEW p \in Clients, PinCommit(p) PROVE TypeInv'
    BY <1>pinCommit DEF PinCommit, At, Goto, Cid, disk, gclock, collector, bounds, locals
<1>pinDirect. ASSUME NEW p \in Clients, PinDirect(p) PROVE TypeInv'
    BY <1>pinDirect DEF PinDirect, At, Goto, Cid, gclock, collector, bounds, locals
<1>flushStore. ASSUME NEW p \in Clients, FlushStore(p) PROVE TypeInv'
    BY <1>flushStore DEF FlushStore, At, Goto, CurrentState, PinState, pinner, gclock, collector, bounds, locals
<1>flushRecord. ASSUME NEW p \in Clients, FlushRecord(p) PROVE TypeInv'
    BY <1>flushRecord DEF FlushRecord, At, Goto, Pinned, RootOf, Cid, Target2, PinState, gclock, collector, bounds, locals
<1>flushFails. ASSUME NEW p \in Clients, FlushFails(p) PROVE TypeInv'
    BY <1>flushFails DEF FlushFails, At, Goto, disk, pinner, gclock, collector, bounds, locals
<1>unlock. ASSUME NEW p \in Clients, Unlock(p) PROVE TypeInv'
    BY <1>unlock DEF Unlock, At, GCUnlock, Return, disk, pinner, collector, bounds, locals
<1>maybePause. ASSUME NEW p \in Clients, MaybePauseForGC(p) PROVE TypeInv'
    BY <1>maybePause DEF MaybePauseForGC, At, Goto, pinner, gclock, collector, bounds
<1>pauseUnlock. ASSUME NEW p \in Clients, PauseUnlock(p) PROVE TypeInv'
    BY <1>pauseUnlock DEF PauseUnlock, At, Goto, disk, pinner, collector, bounds, locals
<1>addFile. ASSUME NEW p \in Clients, AddFile(p) PROVE TypeInv'
    BY <1>addFile, GraphType DEF AddFile, At, Goto, pinner, collector, bounds, locals
<1>addRoot. ASSUME NEW p \in Clients, AddRoot(p) PROVE TypeInv'
    BY <1>addRoot DEF AddRoot, At, Goto, RootOf, Cid, Target2, pinner, gclock, collector, bounds, locals
<1>addFails. ASSUME NEW p \in Clients, AddFails(p) PROVE TypeInv'
    <2>1. store' \subseteq Blocks
        BY <1>addFails, FetchedType DEF AddFails
    <2> QED BY <1>addFails, <2>1 DEF AddFails, At, Goto, pinner, gclock, collector, bounds, locals
<1>pinRoot. ASSUME NEW p \in Clients, PinRoot(p) PROVE TypeInv'
    BY <1>pinRoot DEF PinRoot, At, Goto, RootOf, Cid, Target2, disk, gclock, collector, bounds, locals
<1>updRemoveOld. ASSUME NEW p \in Clients, UpdRemoveOld(p) PROVE TypeInv'
    BY <1>updRemoveOld DEF UpdRemoveOld, At, Goto, disk, gclock, collector, bounds, locals
<1>updAddNew. ASSUME NEW p \in Clients, UpdAddNew(p) PROVE TypeInv'
    BY <1>updAddNew DEF UpdAddNew, At, Goto, Cid, Target2, pinner, gclock, collector, bounds, locals
<1>unpin. ASSUME NEW p \in Clients, Unpin(p) PROVE TypeInv'
    <2>1. store' \subseteq Blocks
        BY <1>unpin, FetchedType DEF Unpin
    <2> QED BY <1>unpin, <2>1 DEF Unpin, At, Goto, gclock, collector, bounds, locals
<1>updateBegin. ASSUME NEW p \in Clients, UpdateBegin(p) PROVE TypeInv'
    BY <1>updateBegin DEF UpdateBegin, At, Goto, disk, pinner, gclock, collector, bounds, locals
<1>updateFetch. ASSUME NEW p \in Clients, UpdateFetch(p) PROVE TypeInv'
    <2>1. store' \subseteq Blocks
        BY <1>updateFetch, FetchedType DEF UpdateFetch
    <2> QED BY <1>updateFetch, <2>1 DEF UpdateFetch, At, Goto, pinner, gclock, collector, bounds, locals
<1>updateSwap. ASSUME NEW p \in Clients, UpdateSwap(p) PROVE TypeInv'
    BY <1>updateSwap DEF UpdateSwap, At, Goto, Cid, Target2, disk, gclock, collector, bounds, locals
<1>rmLock. ASSUME NEW p \in Clients, RmLock(p) PROVE TypeInv'
    BY <1>rmLock DEF RmLock, At, Goto, GCLock, disk, pinner, collector, bounds, locals
<1>rmLocked. ASSUME NEW p \in Clients, RmLocked(p) PROVE TypeInv'
    BY <1>rmLocked DEF RmLocked, At, Goto, disk, pinner, gclock, collector, bounds, locals
<1>rmCheck. ASSUME NEW p \in Clients, RmCheck(p) PROVE TypeInv'
    <2>1. store' \subseteq Blocks
        BY <1>rmCheck, GraphType, FetchedType DEF RmCheck
    <2> QED BY <1>rmCheck, <2>1 DEF RmCheck, At, Goto, pinner, gclock, collector, bounds, locals
<1>rmDelete. ASSUME NEW p \in Clients, RmDelete(p) PROVE TypeInv'
    BY <1>rmDelete DEF RmDelete, At, Goto, pinner, gclock, collector, bounds, locals
<1>gcRequest. CASE GCRequest
    BY <1>gcRequest DEF GCRequest, disk, pinner, gclock, bounds, locals
<1>gcAnnounce. CASE GCAnnounce
    BY <1>gcAnnounce DEF GCAnnounce, GCLock, disk, pinner, bounds, locals
<1>gcLocked. CASE GCLocked
    BY <1>gcLocked DEF GCLocked, disk, pinner, gclock, bounds, locals
<1>markRecursive. CASE MarkRecursive
    BY <1>markRecursive, GraphType DEF MarkRecursive, disk, pinner, gclock, bounds, locals
<1>markFails. CASE MarkFails
    BY <1>markFails DEF MarkFails, GCEnd, GCUnlock, disk, pinner, bounds, locals
<1>markDirect. CASE MarkDirect
    BY <1>markDirect DEF MarkDirect, disk, pinner, gclock, bounds, locals
<1>markInternal. CASE MarkInternal
    BY <1>markInternal DEF MarkInternal, GCEnd, GCUnlock, disk, pinner, gclock, bounds, locals
<1>sweepBlock. CASE SweepBlock
    BY <1>sweepBlock DEF SweepBlock, pinner, gclock, collector, bounds, locals
<1>sweepState. CASE SweepState
    BY <1>sweepState DEF SweepState, pinner, gclock, collector, bounds, locals
<1>sweepEnd. CASE SweepEnd
    BY <1>sweepEnd DEF SweepEnd, GCEnd, GCUnlock, disk, pinner, bounds, locals
<1>restart. CASE Restart
    BY <1>restart DEF Restart, LoadPinner, Loadable, PinState, disk
<1>stutter. CASE UNCHANGED vars
    BY <1>stutter DEF vars, disk, pinner, gclock, collector, bounds, locals
<1> QED
    BY <1>start, <1>resolve, <1>pinLock, <1>pinLocked, <1>pinBegin, <1>pinFetch,
       <1>pinFetchFails, <1>pinCommit, <1>pinDirect, <1>flushStore, <1>flushRecord,
       <1>flushFails, <1>unlock, <1>maybePause, <1>pauseUnlock, <1>addFile, <1>addRoot, <1>addFails, <1>pinRoot,
       <1>updRemoveOld, <1>updAddNew, <1>unpin, <1>updateBegin, <1>updateFetch,
       <1>updateSwap, <1>rmLock, <1>rmLocked, <1>rmCheck, <1>rmDelete, <1>gcRequest,
       <1>gcAnnounce, <1>gcLocked, <1>markRecursive, <1>markFails, <1>markDirect,
       <1>markInternal, <1>sweepBlock, <1>sweepState, <1>sweepEnd, <1>restart, <1>stutter
    DEF Next, ClientStep, CollectorStep

\* Every variable holds a value of its type: no command reads another command's arguments.
THEOREM TypeCorrect == Spec => []TypeOK
<1>1. TypeInv => TypeOK
    BY DEF TypeInv
<1> QED BY <1>1, TypeInit, TypeNext, PTL DEF Spec

-----------------------------------------------------------------------------
(***************************************************************************)
(* The GC lock.                                                            *)
(***************************************************************************)
\* The two sides of the GC lock: the owner of the write side is the one that says so, and
\* the readers have left before it works.
LockInv ==
    /\ gc \in CollectorSteps \ {"idle", "wait"} <=> writer = Collector
    /\ \A p \in Clients : pc[p] \in {"drain", "check", "delete"} => writer = p
    /\ LockExclusion


\* Every step keeps the lock invariant: Unlock lets readers in only when no writer works.
LEMMA LockNext == TypeInv /\ LockInv /\ [Next]_vars => LockInv'
<1> SUFFICES ASSUME TypeInv, LockInv, [Next]_vars PROVE LockInv'
    OBVIOUS
<1> USE PinGCAssumption DEF TypeInv, TypeOK, LockInv, LockExclusion, Working,
        ClientSteps, CollectorSteps, At, Goto, Cid, disk, pinner, gclock, collector, bounds, locals
<1>start. ASSUME NEW p \in Clients, NEW k \in Kinds, NEW c \in Targets, Start(p, k, c)
         PROVE  LockInv'
    BY <1>start DEF Start, FirstStep
<1>resolve. ASSUME NEW p \in Clients, Resolve(p) PROVE LockInv'
    BY <1>resolve DEF Resolve
<1>pinLock. ASSUME NEW p \in Clients, PinLock(p) PROVE LockInv'
    BY <1>pinLock DEF PinLock
<1>pinLocked. ASSUME NEW p \in Clients, PinLocked(p) PROVE LockInv'
    BY <1>pinLocked DEF PinLocked, StepAfterLock, KeepsPinLock
<1>pinBegin. ASSUME NEW p \in Clients, PinBegin(p) PROVE LockInv'
    BY <1>pinBegin DEF PinBegin
<1>pinFetch. ASSUME NEW p \in Clients, PinFetch(p) PROVE LockInv'
    BY <1>pinFetch DEF PinFetch
<1>pinFetchFails. ASSUME NEW p \in Clients, PinFetchFails(p) PROVE LockInv'
    BY <1>pinFetchFails DEF PinFetchFails
<1>pinCommit. ASSUME NEW p \in Clients, PinCommit(p) PROVE LockInv'
    BY <1>pinCommit DEF PinCommit
<1>pinDirect. ASSUME NEW p \in Clients, PinDirect(p) PROVE LockInv'
    BY <1>pinDirect DEF PinDirect
<1>flushStore. ASSUME NEW p \in Clients, FlushStore(p) PROVE LockInv'
    BY <1>flushStore DEF FlushStore
<1>flushRecord. ASSUME NEW p \in Clients, FlushRecord(p) PROVE LockInv'
    BY <1>flushRecord DEF FlushRecord
<1>flushFails. ASSUME NEW p \in Clients, FlushFails(p) PROVE LockInv'
    BY <1>flushFails DEF FlushFails
<1>unlock. ASSUME NEW p \in Clients, Unlock(p) PROVE LockInv'
    BY <1>unlock DEF Unlock, Return, GCUnlock
<1>maybePause. ASSUME NEW p \in Clients, MaybePauseForGC(p) PROVE LockInv'
    BY <1>maybePause DEF MaybePauseForGC
<1>pauseUnlock. ASSUME NEW p \in Clients, PauseUnlock(p) PROVE LockInv'
    BY <1>pauseUnlock DEF PauseUnlock
<1>addFile. ASSUME NEW p \in Clients, AddFile(p) PROVE LockInv'
    BY <1>addFile DEF AddFile
<1>addRoot. ASSUME NEW p \in Clients, AddRoot(p) PROVE LockInv'
    BY <1>addRoot DEF AddRoot
<1>addFails. ASSUME NEW p \in Clients, AddFails(p) PROVE LockInv'
    BY <1>addFails DEF AddFails
<1>pinRoot. ASSUME NEW p \in Clients, PinRoot(p) PROVE LockInv'
    BY <1>pinRoot DEF PinRoot
<1>updRemoveOld. ASSUME NEW p \in Clients, UpdRemoveOld(p) PROVE LockInv'
    BY <1>updRemoveOld DEF UpdRemoveOld
<1>updAddNew. ASSUME NEW p \in Clients, UpdAddNew(p) PROVE LockInv'
    BY <1>updAddNew DEF UpdAddNew
<1>unpin. ASSUME NEW p \in Clients, Unpin(p) PROVE LockInv'
    BY <1>unpin DEF Unpin
<1>updateBegin. ASSUME NEW p \in Clients, UpdateBegin(p) PROVE LockInv'
    BY <1>updateBegin DEF UpdateBegin
<1>updateFetch. ASSUME NEW p \in Clients, UpdateFetch(p) PROVE LockInv'
    BY <1>updateFetch DEF UpdateFetch
<1>updateSwap. ASSUME NEW p \in Clients, UpdateSwap(p) PROVE LockInv'
    BY <1>updateSwap DEF UpdateSwap
<1>rmLock. ASSUME NEW p \in Clients, RmLock(p) PROVE LockInv'
    BY <1>rmLock DEF RmLock, GCLock
<1>rmLocked. ASSUME NEW p \in Clients, RmLocked(p) PROVE LockInv'
    BY <1>rmLocked DEF RmLocked
<1>rmCheck. ASSUME NEW p \in Clients, RmCheck(p) PROVE LockInv'
    BY <1>rmCheck DEF RmCheck
<1>rmDelete. ASSUME NEW p \in Clients, RmDelete(p) PROVE LockInv'
    BY <1>rmDelete DEF RmDelete
<1>gcRequest. CASE GCRequest
    BY <1>gcRequest DEF GCRequest
<1>gcAnnounce. CASE GCAnnounce
    BY <1>gcAnnounce DEF GCAnnounce, GCLock
<1>gcLocked. CASE GCLocked
    BY <1>gcLocked DEF GCLocked
<1>markRecursive. CASE MarkRecursive
    BY <1>markRecursive DEF MarkRecursive
<1>markFails. CASE MarkFails
    BY <1>markFails DEF MarkFails, GCEnd, GCUnlock
<1>markDirect. CASE MarkDirect
    BY <1>markDirect DEF MarkDirect
<1>markInternal. CASE MarkInternal
    BY <1>markInternal DEF MarkInternal, GCEnd, GCUnlock
<1>sweepBlock. CASE SweepBlock
    BY <1>sweepBlock DEF SweepBlock
<1>sweepState. CASE SweepState
    BY <1>sweepState DEF SweepState
<1>sweepEnd. CASE SweepEnd
    BY <1>sweepEnd DEF SweepEnd, GCEnd, GCUnlock
<1>restart. CASE Restart
    BY <1>restart DEF Restart, LoadPinner, Loadable
<1>stutter. CASE UNCHANGED vars
    BY <1>stutter DEF vars
<1> QED
    BY <1>start, <1>resolve, <1>pinLock, <1>pinLocked, <1>pinBegin, <1>pinFetch,
       <1>pinFetchFails, <1>pinCommit, <1>pinDirect, <1>flushStore, <1>flushRecord,
       <1>flushFails, <1>unlock, <1>maybePause, <1>pauseUnlock, <1>addFile, <1>addRoot, <1>addFails, <1>pinRoot,
       <1>updRemoveOld, <1>updAddNew, <1>unpin, <1>updateBegin, <1>updateFetch,
       <1>updateSwap, <1>rmLock, <1>rmLocked, <1>rmCheck, <1>rmDelete, <1>gcRequest,
       <1>gcAnnounce, <1>gcLocked, <1>markRecursive, <1>markFails, <1>markDirect,
       <1>markInternal, <1>sweepBlock, <1>sweepState, <1>sweepEnd, <1>restart, <1>stutter
    DEF Next, ClientStep, CollectorStep

\* While the collector or `block rm` works, no command is inside PinLock: whatever commands
\* run, however many, and wherever a crash falls.
THEOREM LocksExclude == Spec => []LockExclusion
<1>1. Init => LockInv
    BY PinGCAssumption DEF Init, LockInv, LockExclusion, Working, CollectorSteps
<1>2. LockInv => LockExclusion
    BY DEF LockInv
<1> QED BY <1>1, <1>2, TypeInit, TypeNext, LockNext, PTL DEF Spec
-----------------------------------------------------------------------------
(***************************************************************************)
(* What the locks are for.  Each promise of PinGC is proved for the        *)
(* commands that take the locks it needs, for every number of clients and  *)
(* every DAG; the other commands show why it needs them.                   *)
(***************************************************************************)

(***************************************************************************)
(* Which commands take which steps.                                        *)
(***************************************************************************)
StepInv ==
    \A p \in Clients :
        /\ pc[p] \in {"resolve", "lock"} =>
              cmd[p].kind \notin {"pinRm", "del", "pinUpdate", "blockRm"}
        /\ pc[p] = "resolve" => cmd[p].kind # "add"
        /\ pc[p] \in {"pin", "fetch", "commit"} =>
              cmd[p].kind \in {"pinAdd", "pinAddDirect", "pinAddProgress"}
        /\ pc[p] \in {"addFile", "pausePin", "pauseFlush", "pauseRecord", "pauseUnlock", "relock",
                     "addRest", "addRoot"} => cmd[p].kind = "add"
        /\ pc[p] \in {"removeOld", "addNew"} => cmd[p].kind = "upd"
        /\ pc[p] = "pinRoot" => cmd[p].kind \in {"add", "upd"}
        /\ pc[p] = "unpin" => cmd[p].kind \in {"pinRm", "del"}
        /\ pc[p] \in {"update", "diff", "swap"} => cmd[p].kind = "pinUpdate"
        /\ pc[p] \in {"flush", "record"} => cmd[p].kind \notin {"pinUpdate", "blockRm"}
        /\ pc[p] \in {"gclock", "drain", "check", "delete"} => cmd[p].kind \in {"blockRm", "del"}

\* Every command goes through its own steps only.
LEMMA StepNext == TypeInv /\ StepInv /\ [Next]_vars => StepInv'
<1> SUFFICES ASSUME TypeInv, StepInv, [Next]_vars PROVE StepInv'
    OBVIOUS
<1> USE PinGCAssumption DEF TypeInv, TypeOK, HasCommand, StepInv, NoCommand, At,
        Goto, Cid, disk, pinner, gclock, collector, bounds, locals
<1>start. ASSUME NEW p \in Clients, NEW k \in Kinds, NEW c \in Targets, Start(p, k, c)
         PROVE  StepInv'
    <2>1. /\ FirstStep(k) \in {"unpin", "update", "gclock", "resolve", "lock"}
          /\ FirstStep(k) = "resolve" => k = "upd"
          /\ FirstStep(k) = "lock" => k \notin {"pinRm", "del", "pinUpdate", "blockRm"}
          /\ FirstStep(k) = "unpin" => k \in {"pinRm", "del"}
          /\ FirstStep(k) = "update" => k = "pinUpdate"
          /\ FirstStep(k) = "gclock" => k = "blockRm"
        BY DEF FirstStep
    <2>2. /\ pc' = [pc EXCEPT ![p] = FirstStep(k)]
          /\ cmd' = [cmd EXCEPT ![p] = [kind |-> k, cid |-> c]]
        BY <1>start DEF Start
    <2> QED BY <2>1, <2>2
<1>resolve. ASSUME NEW p \in Clients, Resolve(p) PROVE StepInv'
    <2>1. /\ pc[p] = "resolve" /\ cmd' = cmd
          /\ \/ pc' = [pc EXCEPT ![p] = IF cmd[p].kind = "upd" THEN "lock" ELSE "pin"]
             \/ pc' = [pc EXCEPT ![p] = "unlock"]
        BY <1>resolve DEF Resolve
    <2>2. /\ cmd[p].kind \in AllKinds
          /\ cmd[p].kind \notin {"pinRm", "del", "pinUpdate", "blockRm", "add"}
        BY <2>1
    <2> QED BY <2>1, <2>2 DEF AllKinds
<1>pinLock. ASSUME NEW p \in Clients, PinLock(p) PROVE StepInv'
    BY <1>pinLock DEF PinLock
<1>pinLocked. ASSUME NEW p \in Clients, PinLocked(p) PROVE StepInv'
    <2>1. /\ StepAfterLock(cmd[p].kind) \in {"resolve", "addFile", "removeOld"}
          /\ StepAfterLock(cmd[p].kind) = "addFile" => cmd[p].kind = "add"
          /\ StepAfterLock(cmd[p].kind) = "removeOld" => cmd[p].kind = "upd"
          /\ StepAfterLock(cmd[p].kind) = "resolve" => cmd[p].kind \notin {"add", "upd"}
        BY DEF StepAfterLock
    <2>2. /\ pc[p] \in {"lock", "relock"}
          /\ pc' = [pc EXCEPT ![p] = IF pc[p] = "relock" THEN "addRest" ELSE StepAfterLock(cmd[p].kind)]
          /\ cmd' = cmd
        BY <1>pinLocked DEF PinLocked
    <2>3. cmd[p].kind \in AllKinds
        BY <2>2
    <2> QED BY <2>1, <2>2, <2>3 DEF AllKinds
<1>pinBegin. ASSUME NEW p \in Clients, PinBegin(p) PROVE StepInv'
    BY <1>pinBegin DEF PinBegin
<1>pinFetch. ASSUME NEW p \in Clients, PinFetch(p) PROVE StepInv'
    BY <1>pinFetch DEF PinFetch
<1>pinFetchFails. ASSUME NEW p \in Clients, PinFetchFails(p) PROVE StepInv'
    BY <1>pinFetchFails DEF PinFetchFails
<1>pinCommit. ASSUME NEW p \in Clients, PinCommit(p) PROVE StepInv'
    BY <1>pinCommit DEF PinCommit
<1>pinDirect. ASSUME NEW p \in Clients, PinDirect(p) PROVE StepInv'
    BY <1>pinDirect DEF PinDirect
<1>flushStore. ASSUME NEW p \in Clients, FlushStore(p) PROVE StepInv'
    BY <1>flushStore DEF FlushStore
<1>flushRecord. ASSUME NEW p \in Clients, FlushRecord(p) PROVE StepInv'
    BY <1>flushRecord DEF FlushRecord
<1>flushFails. ASSUME NEW p \in Clients, FlushFails(p) PROVE StepInv'
    BY <1>flushFails DEF FlushFails
<1>unlock. ASSUME NEW p \in Clients, Unlock(p) PROVE StepInv'
    BY <1>unlock DEF Unlock, Return, GCUnlock
<1>maybePause. ASSUME NEW p \in Clients, MaybePauseForGC(p) PROVE StepInv'
    BY <1>maybePause DEF MaybePauseForGC
<1>pauseUnlock. ASSUME NEW p \in Clients, PauseUnlock(p) PROVE StepInv'
    BY <1>pauseUnlock DEF PauseUnlock
<1>addFile. ASSUME NEW p \in Clients, AddFile(p) PROVE StepInv'
    BY <1>addFile DEF AddFile
<1>addRoot. ASSUME NEW p \in Clients, AddRoot(p) PROVE StepInv'
    BY <1>addRoot DEF AddRoot
<1>addFails. ASSUME NEW p \in Clients, AddFails(p) PROVE StepInv'
    BY <1>addFails DEF AddFails
<1>pinRoot. ASSUME NEW p \in Clients, PinRoot(p) PROVE StepInv'
    BY <1>pinRoot DEF PinRoot
<1>updRemoveOld. ASSUME NEW p \in Clients, UpdRemoveOld(p) PROVE StepInv'
    BY <1>updRemoveOld DEF UpdRemoveOld
<1>updAddNew. ASSUME NEW p \in Clients, UpdAddNew(p) PROVE StepInv'
    BY <1>updAddNew DEF UpdAddNew
<1>unpin. ASSUME NEW p \in Clients, Unpin(p) PROVE StepInv'
    BY <1>unpin DEF Unpin
<1>updateBegin. ASSUME NEW p \in Clients, UpdateBegin(p) PROVE StepInv'
    BY <1>updateBegin DEF UpdateBegin
<1>updateFetch. ASSUME NEW p \in Clients, UpdateFetch(p) PROVE StepInv'
    BY <1>updateFetch DEF UpdateFetch
<1>updateSwap. ASSUME NEW p \in Clients, UpdateSwap(p) PROVE StepInv'
    BY <1>updateSwap DEF UpdateSwap
<1>rmLock. ASSUME NEW p \in Clients, RmLock(p) PROVE StepInv'
    BY <1>rmLock DEF RmLock, GCLock
<1>rmLocked. ASSUME NEW p \in Clients, RmLocked(p) PROVE StepInv'
    BY <1>rmLocked DEF RmLocked
<1>rmCheck. ASSUME NEW p \in Clients, RmCheck(p) PROVE StepInv'
    BY <1>rmCheck DEF RmCheck
<1>rmDelete. ASSUME NEW p \in Clients, RmDelete(p) PROVE StepInv'
    BY <1>rmDelete DEF RmDelete
<1>gcRequest. CASE GCRequest
    BY <1>gcRequest DEF GCRequest
<1>gcAnnounce. CASE GCAnnounce
    BY <1>gcAnnounce DEF GCAnnounce, GCLock
<1>gcLocked. CASE GCLocked
    BY <1>gcLocked DEF GCLocked
<1>markRecursive. CASE MarkRecursive
    BY <1>markRecursive DEF MarkRecursive
<1>markFails. CASE MarkFails
    BY <1>markFails DEF MarkFails, GCEnd, GCUnlock
<1>markDirect. CASE MarkDirect
    BY <1>markDirect DEF MarkDirect
<1>markInternal. CASE MarkInternal
    BY <1>markInternal DEF MarkInternal, GCEnd, GCUnlock
<1>sweepBlock. CASE SweepBlock
    BY <1>sweepBlock DEF SweepBlock
<1>sweepState. CASE SweepState
    BY <1>sweepState DEF SweepState
<1>sweepEnd. CASE SweepEnd
    BY <1>sweepEnd DEF SweepEnd, GCEnd, GCUnlock
<1>restart. CASE Restart
    BY <1>restart DEF Restart, LoadPinner, Loadable
<1>stutter. CASE UNCHANGED vars
    BY <1>stutter DEF vars
<1> QED
    BY <1>start, <1>resolve, <1>pinLock, <1>pinLocked, <1>pinBegin, <1>pinFetch,
       <1>pinFetchFails, <1>pinCommit, <1>pinDirect, <1>flushStore, <1>flushRecord,
       <1>flushFails, <1>unlock, <1>maybePause, <1>pauseUnlock, <1>addFile, <1>addRoot, <1>addFails, <1>pinRoot,
       <1>updRemoveOld, <1>updAddNew, <1>unpin, <1>updateBegin, <1>updateFetch,
       <1>updateSwap, <1>rmLock, <1>rmLocked, <1>rmCheck, <1>rmDelete, <1>gcRequest,
       <1>gcAnnounce, <1>gcLocked, <1>markRecursive, <1>markFails, <1>markDirect,
       <1>markInternal, <1>sweepBlock, <1>sweepState, <1>sweepEnd, <1>restart, <1>stutter
    DEF Next, ClientStep, CollectorStep

-----------------------------------------------------------------------------
\* The commands that hold PinLock from their first change to their last.
LockedKinds == {"pinAdd", "pinAddDirect", "upd"}
ReaderInv ==
    \A p \in Clients :
        /\ cmd[p].kind \in LockedKinds
        /\ pc[p] \notin {"idle", "lock", "unlock"}
        /\ cmd[p].kind = "upd" => pc[p] # "resolve"
        => p \in readers


\* The locked commands hold PinLock through all their changes.
LEMMA ReaderNext == TypeInv /\ LockInv /\ StepInv /\ ReaderInv /\ [Next]_vars => ReaderInv'
<1> SUFFICES ASSUME TypeInv, LockInv, StepInv, ReaderInv, [Next]_vars PROVE ReaderInv'
    OBVIOUS
<1> USE PinGCAssumption DEF TypeInv, TypeOK, HasCommand, StepInv, ReaderInv,
        LockedKinds, NoCommand, At, Goto, Cid, disk, pinner, gclock, collector, bounds, locals
<1>start. ASSUME NEW p \in Clients, NEW k \in Kinds, NEW c \in Targets, Start(p, k, c)
         PROVE  ReaderInv'
    BY <1>start DEF Start, FirstStep
<1>resolve. ASSUME NEW p \in Clients, Resolve(p) PROVE ReaderInv'
    BY <1>resolve DEF Resolve
<1>pinLock. ASSUME NEW p \in Clients, PinLock(p) PROVE ReaderInv'
    BY <1>pinLock DEF PinLock
<1>pinLocked. ASSUME NEW p \in Clients, PinLocked(p) PROVE ReaderInv'
    BY <1>pinLocked DEF PinLocked, StepAfterLock, KeepsPinLock
<1>pinBegin. ASSUME NEW p \in Clients, PinBegin(p) PROVE ReaderInv'
    BY <1>pinBegin DEF PinBegin
<1>pinFetch. ASSUME NEW p \in Clients, PinFetch(p) PROVE ReaderInv'
    BY <1>pinFetch DEF PinFetch
<1>pinFetchFails. ASSUME NEW p \in Clients, PinFetchFails(p) PROVE ReaderInv'
    BY <1>pinFetchFails DEF PinFetchFails
<1>pinCommit. ASSUME NEW p \in Clients, PinCommit(p) PROVE ReaderInv'
    BY <1>pinCommit DEF PinCommit
<1>pinDirect. ASSUME NEW p \in Clients, PinDirect(p) PROVE ReaderInv'
    BY <1>pinDirect DEF PinDirect
<1>flushStore. ASSUME NEW p \in Clients, FlushStore(p) PROVE ReaderInv'
    BY <1>flushStore DEF FlushStore
<1>flushRecord. ASSUME NEW p \in Clients, FlushRecord(p) PROVE ReaderInv'
    BY <1>flushRecord DEF FlushRecord
<1>flushFails. ASSUME NEW p \in Clients, FlushFails(p) PROVE ReaderInv'
    BY <1>flushFails DEF FlushFails
<1>unlock. ASSUME NEW p \in Clients, Unlock(p) PROVE ReaderInv'
    BY <1>unlock DEF Unlock, Return, GCUnlock, LockInv
<1>maybePause. ASSUME NEW p \in Clients, MaybePauseForGC(p) PROVE ReaderInv'
    BY <1>maybePause DEF MaybePauseForGC
<1>pauseUnlock. ASSUME NEW p \in Clients, PauseUnlock(p) PROVE ReaderInv'
    BY <1>pauseUnlock DEF PauseUnlock
<1>addFile. ASSUME NEW p \in Clients, AddFile(p) PROVE ReaderInv'
    BY <1>addFile DEF AddFile
<1>addRoot. ASSUME NEW p \in Clients, AddRoot(p) PROVE ReaderInv'
    BY <1>addRoot DEF AddRoot
<1>addFails. ASSUME NEW p \in Clients, AddFails(p) PROVE ReaderInv'
    BY <1>addFails DEF AddFails
<1>pinRoot. ASSUME NEW p \in Clients, PinRoot(p) PROVE ReaderInv'
    BY <1>pinRoot DEF PinRoot
<1>updRemoveOld. ASSUME NEW p \in Clients, UpdRemoveOld(p) PROVE ReaderInv'
    BY <1>updRemoveOld DEF UpdRemoveOld
<1>updAddNew. ASSUME NEW p \in Clients, UpdAddNew(p) PROVE ReaderInv'
    BY <1>updAddNew DEF UpdAddNew
<1>unpin. ASSUME NEW p \in Clients, Unpin(p) PROVE ReaderInv'
    BY <1>unpin DEF Unpin
<1>updateBegin. ASSUME NEW p \in Clients, UpdateBegin(p) PROVE ReaderInv'
    BY <1>updateBegin DEF UpdateBegin
<1>updateFetch. ASSUME NEW p \in Clients, UpdateFetch(p) PROVE ReaderInv'
    BY <1>updateFetch DEF UpdateFetch
<1>updateSwap. ASSUME NEW p \in Clients, UpdateSwap(p) PROVE ReaderInv'
    BY <1>updateSwap DEF UpdateSwap
<1>rmLock. ASSUME NEW p \in Clients, RmLock(p) PROVE ReaderInv'
    BY <1>rmLock DEF RmLock, GCLock
<1>rmLocked. ASSUME NEW p \in Clients, RmLocked(p) PROVE ReaderInv'
    BY <1>rmLocked DEF RmLocked
<1>rmCheck. ASSUME NEW p \in Clients, RmCheck(p) PROVE ReaderInv'
    BY <1>rmCheck DEF RmCheck
<1>rmDelete. ASSUME NEW p \in Clients, RmDelete(p) PROVE ReaderInv'
    BY <1>rmDelete DEF RmDelete
<1>gcRequest. CASE GCRequest
    BY <1>gcRequest DEF GCRequest
<1>gcAnnounce. CASE GCAnnounce
    BY <1>gcAnnounce DEF GCAnnounce, GCLock
<1>gcLocked. CASE GCLocked
    BY <1>gcLocked DEF GCLocked
<1>markRecursive. CASE MarkRecursive
    BY <1>markRecursive DEF MarkRecursive
<1>markFails. CASE MarkFails
    BY <1>markFails DEF MarkFails, GCEnd, GCUnlock
<1>markDirect. CASE MarkDirect
    BY <1>markDirect DEF MarkDirect
<1>markInternal. CASE MarkInternal
    BY <1>markInternal DEF MarkInternal, GCEnd, GCUnlock
<1>sweepBlock. CASE SweepBlock
    BY <1>sweepBlock DEF SweepBlock
<1>sweepState. CASE SweepState
    BY <1>sweepState DEF SweepState
<1>sweepEnd. CASE SweepEnd
    BY <1>sweepEnd DEF SweepEnd, GCEnd, GCUnlock
<1>restart. CASE Restart
    BY <1>restart DEF Restart, LoadPinner, Loadable
<1>stutter. CASE UNCHANGED vars
    BY <1>stutter DEF vars
<1> QED
    BY <1>start, <1>resolve, <1>pinLock, <1>pinLocked, <1>pinBegin, <1>pinFetch,
       <1>pinFetchFails, <1>pinCommit, <1>pinDirect, <1>flushStore, <1>flushRecord,
       <1>flushFails, <1>unlock, <1>maybePause, <1>pauseUnlock, <1>addFile, <1>addRoot, <1>addFails, <1>pinRoot,
       <1>updRemoveOld, <1>updAddNew, <1>unpin, <1>updateBegin, <1>updateFetch,
       <1>updateSwap, <1>rmLock, <1>rmLocked, <1>rmCheck, <1>rmDelete, <1>gcRequest,
       <1>gcAnnounce, <1>gcLocked, <1>markRecursive, <1>markFails, <1>markDirect,
       <1>markInternal, <1>sweepBlock, <1>sweepState, <1>sweepEnd, <1>restart, <1>stutter
    DEF Next, ClientStep, CollectorStep

-----------------------------------------------------------------------------
\* What a Flush is about to name is what the pinner holds: nobody changes a pin meanwhile.
FlushInv ==
    \A p \in Clients :
        /\ pc[p] \in {"fetch", "commit", "record", "pauseRecord", "diff", "swap"} => plock = p
        /\ pc[p] \in {"record", "pauseRecord"} => snap[p] = CurrentState

\* pinner.lock is held from the snapshot of a Flush to its record, and excludes every change.
LEMMA FlushNext == TypeInv /\ FlushInv /\ [Next]_vars => FlushInv'
<1> SUFFICES ASSUME TypeInv, FlushInv, [Next]_vars PROVE FlushInv'
    OBVIOUS
<1> USE PinGCAssumption DEF TypeInv, TypeOK, HasCommand, FlushInv, CurrentState, At,
        Goto, Cid, disk, pinner, gclock, collector, bounds, locals
<1>start. ASSUME NEW p \in Clients, NEW k \in Kinds, NEW c \in Targets, Start(p, k, c)
         PROVE  FlushInv'
    BY <1>start DEF Start, FirstStep
<1>resolve. ASSUME NEW p \in Clients, Resolve(p) PROVE FlushInv'
    BY <1>resolve DEF Resolve
<1>pinLock. ASSUME NEW p \in Clients, PinLock(p) PROVE FlushInv'
    BY <1>pinLock DEF PinLock
<1>pinLocked. ASSUME NEW p \in Clients, PinLocked(p) PROVE FlushInv'
    BY <1>pinLocked DEF PinLocked, StepAfterLock, KeepsPinLock
<1>pinBegin. ASSUME NEW p \in Clients, PinBegin(p) PROVE FlushInv'
    BY <1>pinBegin DEF PinBegin
<1>pinFetch. ASSUME NEW p \in Clients, PinFetch(p) PROVE FlushInv'
    BY <1>pinFetch DEF PinFetch
<1>pinFetchFails. ASSUME NEW p \in Clients, PinFetchFails(p) PROVE FlushInv'
    BY <1>pinFetchFails DEF PinFetchFails
<1>pinCommit. ASSUME NEW p \in Clients, PinCommit(p) PROVE FlushInv'
    BY <1>pinCommit DEF PinCommit
<1>pinDirect. ASSUME NEW p \in Clients, PinDirect(p) PROVE FlushInv'
    BY <1>pinDirect DEF PinDirect
<1>flushStore. ASSUME NEW p \in Clients, FlushStore(p) PROVE FlushInv'
    BY <1>flushStore DEF FlushStore
<1>flushRecord. ASSUME NEW p \in Clients, FlushRecord(p) PROVE FlushInv'
    BY <1>flushRecord DEF FlushRecord
<1>flushFails. ASSUME NEW p \in Clients, FlushFails(p) PROVE FlushInv'
    BY <1>flushFails DEF FlushFails
<1>unlock. ASSUME NEW p \in Clients, Unlock(p) PROVE FlushInv'
    BY <1>unlock DEF Unlock, Return, GCUnlock
<1>maybePause. ASSUME NEW p \in Clients, MaybePauseForGC(p) PROVE FlushInv'
    BY <1>maybePause DEF MaybePauseForGC
<1>pauseUnlock. ASSUME NEW p \in Clients, PauseUnlock(p) PROVE FlushInv'
    BY <1>pauseUnlock DEF PauseUnlock
<1>addFile. ASSUME NEW p \in Clients, AddFile(p) PROVE FlushInv'
    BY <1>addFile DEF AddFile
<1>addRoot. ASSUME NEW p \in Clients, AddRoot(p) PROVE FlushInv'
    BY <1>addRoot DEF AddRoot
<1>addFails. ASSUME NEW p \in Clients, AddFails(p) PROVE FlushInv'
    BY <1>addFails DEF AddFails
<1>pinRoot. ASSUME NEW p \in Clients, PinRoot(p) PROVE FlushInv'
    BY <1>pinRoot DEF PinRoot
<1>updRemoveOld. ASSUME NEW p \in Clients, UpdRemoveOld(p) PROVE FlushInv'
    BY <1>updRemoveOld DEF UpdRemoveOld
<1>updAddNew. ASSUME NEW p \in Clients, UpdAddNew(p) PROVE FlushInv'
    BY <1>updAddNew DEF UpdAddNew
<1>unpin. ASSUME NEW p \in Clients, Unpin(p) PROVE FlushInv'
    BY <1>unpin DEF Unpin
<1>updateBegin. ASSUME NEW p \in Clients, UpdateBegin(p) PROVE FlushInv'
    BY <1>updateBegin DEF UpdateBegin
<1>updateFetch. ASSUME NEW p \in Clients, UpdateFetch(p) PROVE FlushInv'
    BY <1>updateFetch DEF UpdateFetch
<1>updateSwap. ASSUME NEW p \in Clients, UpdateSwap(p) PROVE FlushInv'
    BY <1>updateSwap DEF UpdateSwap
<1>rmLock. ASSUME NEW p \in Clients, RmLock(p) PROVE FlushInv'
    BY <1>rmLock DEF RmLock, GCLock
<1>rmLocked. ASSUME NEW p \in Clients, RmLocked(p) PROVE FlushInv'
    BY <1>rmLocked DEF RmLocked
<1>rmCheck. ASSUME NEW p \in Clients, RmCheck(p) PROVE FlushInv'
    BY <1>rmCheck DEF RmCheck
<1>rmDelete. ASSUME NEW p \in Clients, RmDelete(p) PROVE FlushInv'
    BY <1>rmDelete DEF RmDelete
<1>gcRequest. CASE GCRequest
    BY <1>gcRequest DEF GCRequest
<1>gcAnnounce. CASE GCAnnounce
    BY <1>gcAnnounce DEF GCAnnounce, GCLock
<1>gcLocked. CASE GCLocked
    BY <1>gcLocked DEF GCLocked
<1>markRecursive. CASE MarkRecursive
    BY <1>markRecursive DEF MarkRecursive
<1>markFails. CASE MarkFails
    BY <1>markFails DEF MarkFails, GCEnd, GCUnlock
<1>markDirect. CASE MarkDirect
    BY <1>markDirect DEF MarkDirect
<1>markInternal. CASE MarkInternal
    BY <1>markInternal DEF MarkInternal, GCEnd, GCUnlock
<1>sweepBlock. CASE SweepBlock
    BY <1>sweepBlock DEF SweepBlock
<1>sweepState. CASE SweepState
    BY <1>sweepState DEF SweepState
<1>sweepEnd. CASE SweepEnd
    BY <1>sweepEnd DEF SweepEnd, GCEnd, GCUnlock
<1>restart. CASE Restart
    BY <1>restart DEF Restart, LoadPinner, Loadable
<1>stutter. CASE UNCHANGED vars
    BY <1>stutter DEF vars
<1> QED
    BY <1>start, <1>resolve, <1>pinLock, <1>pinLocked, <1>pinBegin, <1>pinFetch,
       <1>pinFetchFails, <1>pinCommit, <1>pinDirect, <1>flushStore, <1>flushRecord,
       <1>flushFails, <1>unlock, <1>maybePause, <1>pauseUnlock, <1>addFile, <1>addRoot, <1>addFails, <1>pinRoot,
       <1>updRemoveOld, <1>updAddNew, <1>unpin, <1>updateBegin, <1>updateFetch,
       <1>updateSwap, <1>rmLock, <1>rmLocked, <1>rmCheck, <1>rmDelete, <1>gcRequest,
       <1>gcAnnounce, <1>gcLocked, <1>markRecursive, <1>markFails, <1>markDirect,
       <1>markInternal, <1>sweepBlock, <1>sweepState, <1>sweepEnd, <1>restart, <1>stutter
    DEF Next, ClientStep, CollectorStep

-----------------------------------------------------------------------------
(***************************************************************************)
(* The saved pin state stays on disk when every command that flushes holds *)
(* PinLock: no Flush is under way while the collector works, so the state  *)
(* it marks is the one the datastore key names.                            *)
(***************************************************************************)
FlushersLock == Kinds \subseteq LockedKinds \cup {"blockRm"}

StateInv ==
    /\ stateKey \in stateBlocks
    /\ internal = {stateKey}
    /\ \A p \in Clients : pc[p] \in {"record", "pauseRecord"} => snap[p] \in stateBlocks
    /\ gc = "sweep" => markedState = internal

\* Every step keeps the saved state on disk, and the marks of a sweep cover it.
LEMMA StateNext ==
    ASSUME FlushersLock,
           TypeInv, LockInv, StepInv, ReaderInv, StateInv, [Next]_vars
    PROVE  StateInv'
<1> USE PinGCAssumption DEF TypeInv, TypeOK, HasCommand, ClientSteps,
        CollectorSteps, At, Goto, Cid, disk, pinner, gclock, collector, bounds, locals,
        FlushersLock, LockInv, LockExclusion, Working, StepInv, ReaderInv, LockedKinds,
        StateInv
<1>start. ASSUME NEW p \in Clients, NEW k \in Kinds, NEW c \in Targets, Start(p, k, c)
         PROVE  StateInv'
    BY <1>start DEF Start, FirstStep
<1>resolve. ASSUME NEW p \in Clients, Resolve(p) PROVE StateInv'
    BY <1>resolve DEF Resolve
<1>pinLock. ASSUME NEW p \in Clients, PinLock(p) PROVE StateInv'
    BY <1>pinLock DEF PinLock
<1>pinLocked. ASSUME NEW p \in Clients, PinLocked(p) PROVE StateInv'
    BY <1>pinLocked DEF PinLocked, StepAfterLock, KeepsPinLock
<1>pinBegin. ASSUME NEW p \in Clients, PinBegin(p) PROVE StateInv'
    BY <1>pinBegin DEF PinBegin
<1>pinFetch. ASSUME NEW p \in Clients, PinFetch(p) PROVE StateInv'
    BY <1>pinFetch DEF PinFetch
<1>pinFetchFails. ASSUME NEW p \in Clients, PinFetchFails(p) PROVE StateInv'
    BY <1>pinFetchFails DEF PinFetchFails
<1>pinCommit. ASSUME NEW p \in Clients, PinCommit(p) PROVE StateInv'
    BY <1>pinCommit DEF PinCommit
<1>pinDirect. ASSUME NEW p \in Clients, PinDirect(p) PROVE StateInv'
    BY <1>pinDirect DEF PinDirect
<1>flushStore. ASSUME NEW p \in Clients, FlushStore(p) PROVE StateInv'
    BY <1>flushStore DEF FlushStore
<1>flushRecord. ASSUME NEW p \in Clients, FlushRecord(p) PROVE StateInv'
    <2>1. cmd[p].kind \in LockedKinds /\ pc[p] \in {"record", "pauseRecord"}
        BY <1>flushRecord DEF FlushRecord
    <2>2. p \in readers
        BY <2>1
    <2>3. gc # "sweep"
        BY <2>2
    <2>4. /\ stateKey' = snap[p]
          /\ internal' = {snap[p]}
          /\ pc'[p] \notin {"record", "pauseRecord"} /\ \A q \in Clients \ {p} : pc'[q] = pc[q]
          /\ UNCHANGED <<stateBlocks, snap, gc, markedState>>
        BY <1>flushRecord DEF FlushRecord
    <2> QED BY <2>1, <2>3, <2>4
<1>flushFails. ASSUME NEW p \in Clients, FlushFails(p) PROVE StateInv'
    BY <1>flushFails DEF FlushFails
<1>unlock. ASSUME NEW p \in Clients, Unlock(p) PROVE StateInv'
    BY <1>unlock DEF Unlock, Return, GCUnlock
<1>maybePause. ASSUME NEW p \in Clients, MaybePauseForGC(p) PROVE StateInv'
    BY <1>maybePause DEF MaybePauseForGC
<1>pauseUnlock. ASSUME NEW p \in Clients, PauseUnlock(p) PROVE StateInv'
    BY <1>pauseUnlock DEF PauseUnlock
<1>addFile. ASSUME NEW p \in Clients, AddFile(p) PROVE StateInv'
    BY <1>addFile DEF AddFile
<1>addRoot. ASSUME NEW p \in Clients, AddRoot(p) PROVE StateInv'
    BY <1>addRoot DEF AddRoot
<1>addFails. ASSUME NEW p \in Clients, AddFails(p) PROVE StateInv'
    BY <1>addFails DEF AddFails
<1>pinRoot. ASSUME NEW p \in Clients, PinRoot(p) PROVE StateInv'
    BY <1>pinRoot DEF PinRoot
<1>updRemoveOld. ASSUME NEW p \in Clients, UpdRemoveOld(p) PROVE StateInv'
    BY <1>updRemoveOld DEF UpdRemoveOld
<1>updAddNew. ASSUME NEW p \in Clients, UpdAddNew(p) PROVE StateInv'
    BY <1>updAddNew DEF UpdAddNew
<1>unpin. ASSUME NEW p \in Clients, Unpin(p) PROVE StateInv'
    BY <1>unpin DEF Unpin
<1>updateBegin. ASSUME NEW p \in Clients, UpdateBegin(p) PROVE StateInv'
    BY <1>updateBegin DEF UpdateBegin
<1>updateFetch. ASSUME NEW p \in Clients, UpdateFetch(p) PROVE StateInv'
    BY <1>updateFetch DEF UpdateFetch
<1>updateSwap. ASSUME NEW p \in Clients, UpdateSwap(p) PROVE StateInv'
    BY <1>updateSwap DEF UpdateSwap
<1>rmLock. ASSUME NEW p \in Clients, RmLock(p) PROVE StateInv'
    BY <1>rmLock DEF RmLock, GCLock
<1>rmLocked. ASSUME NEW p \in Clients, RmLocked(p) PROVE StateInv'
    BY <1>rmLocked DEF RmLocked
<1>rmCheck. ASSUME NEW p \in Clients, RmCheck(p) PROVE StateInv'
    BY <1>rmCheck DEF RmCheck
<1>rmDelete. ASSUME NEW p \in Clients, RmDelete(p) PROVE StateInv'
    BY <1>rmDelete DEF RmDelete
<1>gcRequest. CASE GCRequest
    BY <1>gcRequest DEF GCRequest
<1>gcAnnounce. CASE GCAnnounce
    BY <1>gcAnnounce DEF GCAnnounce, GCLock
<1>gcLocked. CASE GCLocked
    BY <1>gcLocked DEF GCLocked
<1>markRecursive. CASE MarkRecursive
    BY <1>markRecursive DEF MarkRecursive
<1>markFails. CASE MarkFails
    BY <1>markFails DEF MarkFails, GCEnd, GCUnlock
<1>markDirect. CASE MarkDirect
    BY <1>markDirect DEF MarkDirect
<1>markInternal. CASE MarkInternal
    BY <1>markInternal DEF MarkInternal, GCEnd, GCUnlock
<1>sweepBlock. CASE SweepBlock
    BY <1>sweepBlock DEF SweepBlock
<1>sweepState. CASE SweepState
    BY <1>sweepState DEF SweepState
<1>sweepEnd. CASE SweepEnd
    BY <1>sweepEnd DEF SweepEnd, GCEnd, GCUnlock
<1>restart. CASE Restart
    BY <1>restart DEF Restart, LoadPinner, Loadable
<1>stutter. CASE UNCHANGED vars
    BY <1>stutter DEF vars
<1> QED
    BY <1>start, <1>resolve, <1>pinLock, <1>pinLocked, <1>pinBegin, <1>pinFetch,
       <1>pinFetchFails, <1>pinCommit, <1>pinDirect, <1>flushStore, <1>flushRecord,
       <1>flushFails, <1>unlock, <1>maybePause, <1>pauseUnlock, <1>addFile, <1>addRoot, <1>addFails, <1>pinRoot,
       <1>updRemoveOld, <1>updAddNew, <1>unpin, <1>updateBegin, <1>updateFetch,
       <1>updateSwap, <1>rmLock, <1>rmLocked, <1>rmCheck, <1>rmDelete, <1>gcRequest,
       <1>gcAnnounce, <1>gcLocked, <1>markRecursive, <1>markFails, <1>markDirect,
       <1>markInternal, <1>sweepBlock, <1>sweepState, <1>sweepEnd, <1>restart, <1>stutter
    DEF Next, ClientStep, CollectorStep

\* No collection deletes the pin state that the next start-up loads, when every command that
\* flushes holds PinLock (pinner.Flush, gc.GC).
THEOREM SavedStateKept ==
    ASSUME FlushersLock
    PROVE  Spec => []PinStateOnDisk
<1> DEFINE Inv == TypeInv /\ LockInv /\ StepInv /\ ReaderInv /\ StateInv
<1>1. Init => Inv
    <2> SUFFICES ASSUME Init PROVE LockInv /\ StepInv /\ ReaderInv /\ StateInv
        BY TypeInit
    <2> QED BY PinGCAssumption DEF Init, LockInv, LockExclusion, Working, CollectorSteps, StepInv,
                                   ReaderInv, StateInv
<1>2. Inv /\ [Next]_vars => Inv'
    BY TypeNext, LockNext, StepNext, ReaderNext, StateNext
<1>3. Inv => PinStateOnDisk
    BY DEF StateInv, PinStateOnDisk, Loadable
<1> QED BY <1>1, <1>2, <1>3, PTL DEF Spec

-----------------------------------------------------------------------------
(***************************************************************************)
(* What was reported as pinned survives: a Flush saves the pins of the     *)
(* moment, and holds pinner.lock until the datastore key names them, so    *)
(* the saved state is never older than a report.                           *)
(***************************************************************************)
\* Every step keeps the reported pins in memory and in the saved state.
LEMMA AckedNext ==
    ASSUME FlushersLock,
           TypeInv, StepInv, FlushInv, StateInv, AckedPinsSurvive, [Next]_vars
    PROVE  AckedPinsSurvive'
<1> USE PinGCAssumption DEF TypeInv, TypeOK, HasCommand, ClientSteps,
        CollectorSteps, At, Goto, Cid, disk, pinner, gclock, collector, bounds, locals,
        FlushersLock, StepInv, FlushInv, CurrentState, LockedKinds, StateInv, AckedPinsSurvive,
        AckedPinsSurvive, PinState
<1>start. ASSUME NEW p \in Clients, NEW k \in Kinds, NEW c \in Targets, Start(p, k, c)
         PROVE  AckedPinsSurvive'
    BY <1>start DEF Start, FirstStep
<1>resolve. ASSUME NEW p \in Clients, Resolve(p) PROVE AckedPinsSurvive'
    BY <1>resolve DEF Resolve
<1>pinLock. ASSUME NEW p \in Clients, PinLock(p) PROVE AckedPinsSurvive'
    BY <1>pinLock DEF PinLock
<1>pinLocked. ASSUME NEW p \in Clients, PinLocked(p) PROVE AckedPinsSurvive'
    BY <1>pinLocked DEF PinLocked, StepAfterLock, KeepsPinLock
<1>pinBegin. ASSUME NEW p \in Clients, PinBegin(p) PROVE AckedPinsSurvive'
    BY <1>pinBegin DEF PinBegin
<1>pinFetch. ASSUME NEW p \in Clients, PinFetch(p) PROVE AckedPinsSurvive'
    BY <1>pinFetch DEF PinFetch
<1>pinFetchFails. ASSUME NEW p \in Clients, PinFetchFails(p) PROVE AckedPinsSurvive'
    BY <1>pinFetchFails DEF PinFetchFails
<1>pinCommit. ASSUME NEW p \in Clients, PinCommit(p) PROVE AckedPinsSurvive'
    BY <1>pinCommit DEF PinCommit
<1>pinDirect. ASSUME NEW p \in Clients, PinDirect(p) PROVE AckedPinsSurvive'
    BY <1>pinDirect DEF PinDirect
<1>flushStore. ASSUME NEW p \in Clients, FlushStore(p) PROVE AckedPinsSurvive'
    BY <1>flushStore DEF FlushStore
<1>flushRecord. ASSUME NEW p \in Clients, FlushRecord(p) PROVE AckedPinsSurvive'
    BY <1>flushRecord DEF FlushRecord
<1>flushFails. ASSUME NEW p \in Clients, FlushFails(p) PROVE AckedPinsSurvive'
    BY <1>flushFails DEF FlushFails
<1>unlock. ASSUME NEW p \in Clients, Unlock(p) PROVE AckedPinsSurvive'
    BY <1>unlock DEF Unlock, Return, GCUnlock
<1>maybePause. ASSUME NEW p \in Clients, MaybePauseForGC(p) PROVE AckedPinsSurvive'
    BY <1>maybePause DEF MaybePauseForGC
<1>pauseUnlock. ASSUME NEW p \in Clients, PauseUnlock(p) PROVE AckedPinsSurvive'
    BY <1>pauseUnlock DEF PauseUnlock
<1>addFile. ASSUME NEW p \in Clients, AddFile(p) PROVE AckedPinsSurvive'
    BY <1>addFile DEF AddFile
<1>addRoot. ASSUME NEW p \in Clients, AddRoot(p) PROVE AckedPinsSurvive'
    BY <1>addRoot DEF AddRoot
<1>addFails. ASSUME NEW p \in Clients, AddFails(p) PROVE AckedPinsSurvive'
    BY <1>addFails DEF AddFails
<1>pinRoot. ASSUME NEW p \in Clients, PinRoot(p) PROVE AckedPinsSurvive'
    BY <1>pinRoot DEF PinRoot
<1>updRemoveOld. ASSUME NEW p \in Clients, UpdRemoveOld(p) PROVE AckedPinsSurvive'
    BY <1>updRemoveOld DEF UpdRemoveOld
<1>updAddNew. ASSUME NEW p \in Clients, UpdAddNew(p) PROVE AckedPinsSurvive'
    BY <1>updAddNew DEF UpdAddNew
<1>unpin. ASSUME NEW p \in Clients, Unpin(p) PROVE AckedPinsSurvive'
    BY <1>unpin DEF Unpin
<1>updateBegin. ASSUME NEW p \in Clients, UpdateBegin(p) PROVE AckedPinsSurvive'
    BY <1>updateBegin DEF UpdateBegin
<1>updateFetch. ASSUME NEW p \in Clients, UpdateFetch(p) PROVE AckedPinsSurvive'
    BY <1>updateFetch DEF UpdateFetch
<1>updateSwap. ASSUME NEW p \in Clients, UpdateSwap(p) PROVE AckedPinsSurvive'
    BY <1>updateSwap DEF UpdateSwap
<1>rmLock. ASSUME NEW p \in Clients, RmLock(p) PROVE AckedPinsSurvive'
    BY <1>rmLock DEF RmLock, GCLock
<1>rmLocked. ASSUME NEW p \in Clients, RmLocked(p) PROVE AckedPinsSurvive'
    BY <1>rmLocked DEF RmLocked
<1>rmCheck. ASSUME NEW p \in Clients, RmCheck(p) PROVE AckedPinsSurvive'
    BY <1>rmCheck DEF RmCheck
<1>rmDelete. ASSUME NEW p \in Clients, RmDelete(p) PROVE AckedPinsSurvive'
    BY <1>rmDelete DEF RmDelete
<1>gcRequest. CASE GCRequest
    BY <1>gcRequest DEF GCRequest
<1>gcAnnounce. CASE GCAnnounce
    BY <1>gcAnnounce DEF GCAnnounce, GCLock
<1>gcLocked. CASE GCLocked
    BY <1>gcLocked DEF GCLocked
<1>markRecursive. CASE MarkRecursive
    BY <1>markRecursive DEF MarkRecursive
<1>markFails. CASE MarkFails
    BY <1>markFails DEF MarkFails, GCEnd, GCUnlock
<1>markDirect. CASE MarkDirect
    BY <1>markDirect DEF MarkDirect
<1>markInternal. CASE MarkInternal
    BY <1>markInternal DEF MarkInternal, GCEnd, GCUnlock
<1>sweepBlock. CASE SweepBlock
    BY <1>sweepBlock DEF SweepBlock
<1>sweepState. CASE SweepState
    BY <1>sweepState DEF SweepState
<1>sweepEnd. CASE SweepEnd
    BY <1>sweepEnd DEF SweepEnd, GCEnd, GCUnlock
<1>restart. CASE Restart
    BY <1>restart DEF Restart, LoadPinner, Loadable
<1>stutter. CASE UNCHANGED vars
    BY <1>stutter DEF vars
<1> QED
    BY <1>start, <1>resolve, <1>pinLock, <1>pinLocked, <1>pinBegin, <1>pinFetch,
       <1>pinFetchFails, <1>pinCommit, <1>pinDirect, <1>flushStore, <1>flushRecord,
       <1>flushFails, <1>unlock, <1>maybePause, <1>pauseUnlock, <1>addFile, <1>addRoot, <1>addFails, <1>pinRoot,
       <1>updRemoveOld, <1>updAddNew, <1>unpin, <1>updateBegin, <1>updateFetch,
       <1>updateSwap, <1>rmLock, <1>rmLocked, <1>rmCheck, <1>rmDelete, <1>gcRequest,
       <1>gcAnnounce, <1>gcLocked, <1>markRecursive, <1>markFails, <1>markDirect,
       <1>markInternal, <1>sweepBlock, <1>sweepState, <1>sweepEnd, <1>restart, <1>stutter
    DEF Next, ClientStep, CollectorStep

\* A pin that was reported is in memory and in the saved state until a command removes it,
\* through any number of commands, collections and restarts.
THEOREM ReportedPinsSurvive ==
    ASSUME FlushersLock
    PROVE  Spec => []AckedPinsSurvive
<1> DEFINE Inv == /\ TypeInv /\ LockInv /\ StepInv /\ ReaderInv /\ FlushInv /\ StateInv
                  /\ AckedPinsSurvive
<1>1. Init => Inv
    <2> SUFFICES ASSUME Init
                 PROVE  LockInv /\ StepInv /\ ReaderInv /\ FlushInv /\ StateInv /\ AckedPinsSurvive
        BY TypeInit
    <2> QED BY PinGCAssumption DEF Init, LockInv, LockExclusion, Working, CollectorSteps, StepInv,
                                   ReaderInv, FlushInv, StateInv, AckedPinsSurvive, EmptyState
<1>2. Inv /\ [Next]_vars => Inv'
    BY TypeNext, LockNext, StepNext, ReaderNext, FlushNext, StateNext, AckedNext
<1> QED BY <1>1, <1>2, PTL DEF Spec

-----------------------------------------------------------------------------
(***************************************************************************)
(* What is pinned is in the blockstore, without crashes, when every        *)
(* command that adds a pin fetches the whole graph and holds PinLock until *)
(* the pin is in place.  The marks of the collector cover the pins at the  *)
(* time of each phase, and while it works pins are only removed.           *)
(***************************************************************************)
PinnersLock ==
    /\ Kinds \subseteq {"pinAdd", "pinAddDirect", "pinRm", "blockRm", "del"}
    /\ MaxCrashes = 0

PinsInv ==
    /\ PinsComplete
    /\ gc \in {"direct", "internal", "sweep"} => Graph(recursive) \subseteq marked
    /\ gc \in {"internal", "sweep"} => direct \subseteq marked
    /\ \A p \in Clients :
        /\ pc[p] = "commit" => Graph({Cid(p)}) \subseteq store
        /\ pc[p] = "delete" => Cid(p) \notin Graph(recursive) \cup direct

\* A step that pins nothing, deletes nothing, and after which its client neither
\* commits nor deletes, keeps all that is promised.
LEMMA QuietStep ==
    ASSUME PinsInv, NEW p \in Clients, pc'[p] \notin {"commit", "delete"},
           \A q \in Clients \ {p} : pc'[q] = pc[q] /\ cmd'[q] = cmd[q],
           store \subseteq store', UNCHANGED <<recursive, direct, gc, marked>>
    PROVE  PinsInv'
<1>1. PinsComplete'
    BY DEF PinsInv, PinsComplete
<1>2. /\ gc' \in {"direct", "internal", "sweep"} => Graph(recursive') \subseteq marked'
      /\ gc' \in {"internal", "sweep"} => direct' \subseteq marked'
    BY DEF PinsInv
<1>3. ASSUME NEW q \in Clients
      PROVE  /\ pc'[q] = "commit" => Graph({Cid(q)'}) \subseteq store'
             /\ pc'[q] = "delete" => Cid(q)' \notin Graph(recursive') \cup direct'
    <2>1. CASE q = p
        BY <2>1
    <2>2. CASE q # p
        <3>1. pc'[q] = pc[q] /\ Cid(q)' = Cid(q)
            BY <2>2 DEF Cid
        <3> QED BY <3>1 DEF PinsInv
    <2> QED BY <2>1, <2>2
<1> QED BY <1>1, <1>2, <1>3 DEF PinsInv

\* Every step keeps what is pinned in the blockstore, and the marks cover what is pinned.
LEMMA PinsNext ==
    ASSUME PinnersLock,
           TypeInv, LockInv, StepInv, ReaderInv, PinsInv, [Next]_vars
    PROVE  PinsInv'
<1> USE PinGCAssumption DEF TypeInv, TypeOK, HasCommand, ClientSteps,
        CollectorSteps, At, Goto, Cid, disk, pinner, gclock, collector, bounds, locals, PinnersLock,
        LockInv, LockExclusion, Working, StepInv, ReaderInv, LockedKinds, PinsInv,
        PinsComplete
<1>start. ASSUME NEW p \in Clients, NEW k \in Kinds, NEW c \in Targets, Start(p, k, c)
         PROVE  PinsInv'
    <2>1. /\ pc'[p] \notin {"commit", "delete"}
          /\ \A q \in Clients \ {p} : pc'[q] = pc[q] /\ cmd'[q] = cmd[q]
        BY <1>start DEF Start, FirstStep
    <2>2. store \subseteq store' /\ UNCHANGED <<recursive, direct, gc, marked>>
        BY <1>start DEF Start, FirstStep
    <2> QED BY <2>1, <2>2, QuietStep
<1>resolve. ASSUME NEW p \in Clients, Resolve(p) PROVE PinsInv'
    <2>1. /\ pc'[p] \notin {"commit", "delete"}
          /\ \A q \in Clients \ {p} : pc'[q] = pc[q] /\ cmd'[q] = cmd[q]
        BY <1>resolve DEF Resolve
    <2>2. store \subseteq store' /\ UNCHANGED <<recursive, direct, gc, marked>>
        BY <1>resolve DEF Resolve
    <2> QED BY <2>1, <2>2, QuietStep
<1>pinLock. ASSUME NEW p \in Clients, PinLock(p) PROVE PinsInv'
    BY <1>pinLock DEF PinLock
<1>pinLocked. ASSUME NEW p \in Clients, PinLocked(p) PROVE PinsInv'
    BY <1>pinLocked DEF PinLocked, StepAfterLock, KeepsPinLock
<1>pinBegin. ASSUME NEW p \in Clients, PinBegin(p) PROVE PinsInv'
    BY <1>pinBegin DEF PinBegin
<1>pinFetch. ASSUME NEW p \in Clients, PinFetch(p) PROVE PinsInv'
    <2>1. store \subseteq store' /\ Graph({cmd[p].cid}) \subseteq store'
        BY <1>pinFetch DEF PinFetch
    <2>2. /\ pc' = [pc EXCEPT ![p] = "commit"]
          /\ UNCHANGED <<recursive, direct, cmd, gc, marked>>
        BY <1>pinFetch DEF PinFetch
    <2>3. PinsComplete'
        BY <2>1, <2>2
    <2>4. \A q \in Clients :
            /\ pc'[q] = "commit" => Graph({cmd[q].cid}) \subseteq store'
            /\ pc'[q] = "delete" => cmd[q].cid \notin Graph(recursive) \cup direct
        <3> SUFFICES ASSUME NEW q \in Clients
                     PROVE  /\ pc'[q] = "commit" => Graph({cmd[q].cid}) \subseteq store'
                            /\ pc'[q] = "delete" => cmd[q].cid \notin Graph(recursive) \cup direct
            OBVIOUS
        <3>1. CASE q = p
            BY <2>1, <2>2, <3>1
        <3>2. CASE q # p
            <4>1. pc'[q] = pc[q]
                BY <2>2, <3>2
            <4> QED BY <2>1, <4>1
        <3> QED BY <3>1, <3>2
    <2> QED BY <2>2, <2>3, <2>4
<1>pinFetchFails. ASSUME NEW p \in Clients, PinFetchFails(p) PROVE PinsInv'
    <2>1. /\ pc'[p] \notin {"commit", "delete"}
          /\ \A q \in Clients \ {p} : pc'[q] = pc[q] /\ cmd'[q] = cmd[q]
        BY <1>pinFetchFails DEF PinFetchFails, Incomplete, Fetched
    <2>2. store \subseteq store' /\ UNCHANGED <<recursive, direct, gc, marked>>
        BY <1>pinFetchFails DEF PinFetchFails, Incomplete, Fetched
    <2> QED BY <2>1, <2>2, QuietStep
<1>pinCommit. ASSUME NEW p \in Clients, PinCommit(p) PROVE PinsInv'
    <2>1. /\ pc[p] = "commit" /\ pc' = [pc EXCEPT ![p] = "flush"]
          /\ recursive' = recursive \cup {cmd[p].cid}
          /\ UNCHANGED <<store, direct, cmd, gc, marked>>
        BY <1>pinCommit DEF PinCommit
    <2>2. p \in readers
        BY <2>1
    <2>3. gc \notin {"direct", "internal", "sweep"} /\ \A q \in Clients : pc[q] # "delete"
        BY <2>2
    <2>4. Graph(recursive') \subseteq store
        <3>1. Graph(recursive) \subseteq store /\ Graph({cmd[p].cid}) \subseteq store
            BY <2>1
        <3>2. recursive \in SUBSET Blocks /\ {cmd[p].cid} \in SUBSET Blocks
            BY <2>1
        <3> QED BY <2>1, <3>1, <3>2, GraphUnion
    <2>5. PinsComplete'
        BY <2>1, <2>4
    <2>6. \A q \in Clients :
            /\ pc'[q] = "commit" => Graph({cmd[q].cid}) \subseteq store
            /\ pc'[q] # "delete"
        BY <2>1, <2>3
    <2> QED BY <2>1, <2>3, <2>5, <2>6
<1>pinDirect. ASSUME NEW p \in Clients, PinDirect(p) PROVE PinsInv'
    BY <1>pinDirect DEF PinDirect
<1>flushStore. ASSUME NEW p \in Clients, FlushStore(p) PROVE PinsInv'
    <2>1. /\ pc'[p] \notin {"commit", "delete"}
          /\ \A q \in Clients \ {p} : pc'[q] = pc[q] /\ cmd'[q] = cmd[q]
        BY <1>flushStore DEF FlushStore
    <2>2. store \subseteq store' /\ UNCHANGED <<recursive, direct, gc, marked>>
        BY <1>flushStore DEF FlushStore
    <2> QED BY <2>1, <2>2, QuietStep
<1>flushRecord. ASSUME NEW p \in Clients, FlushRecord(p) PROVE PinsInv'
    <2>1. /\ pc'[p] \notin {"commit", "delete"}
          /\ \A q \in Clients \ {p} : pc'[q] = pc[q] /\ cmd'[q] = cmd[q]
        BY <1>flushRecord DEF FlushRecord
    <2>2. store \subseteq store' /\ UNCHANGED <<recursive, direct, gc, marked>>
        BY <1>flushRecord DEF FlushRecord
    <2> QED BY <2>1, <2>2, QuietStep
<1>flushFails. ASSUME NEW p \in Clients, FlushFails(p) PROVE PinsInv'
    <2>1. /\ pc'[p] \notin {"commit", "delete"}
          /\ \A q \in Clients \ {p} : pc'[q] = pc[q] /\ cmd'[q] = cmd[q]
        BY <1>flushFails DEF FlushFails
    <2>2. store \subseteq store' /\ UNCHANGED <<recursive, direct, gc, marked>>
        BY <1>flushFails DEF FlushFails
    <2> QED BY <2>1, <2>2, QuietStep
<1>unlock. ASSUME NEW p \in Clients, Unlock(p) PROVE PinsInv'
    <2>1. /\ pc'[p] \notin {"commit", "delete"}
          /\ \A q \in Clients \ {p} : pc'[q] = pc[q] /\ cmd'[q] = cmd[q]
        BY <1>unlock DEF Unlock, Return, GCUnlock, NoCommand
    <2>2. store \subseteq store' /\ UNCHANGED <<recursive, direct, gc, marked>>
        BY <1>unlock DEF Unlock, Return, GCUnlock, NoCommand
    <2> QED BY <2>1, <2>2, QuietStep
<1>maybePause. ASSUME NEW p \in Clients, MaybePauseForGC(p) PROVE PinsInv'
    BY <1>maybePause DEF MaybePauseForGC
<1>pauseUnlock. ASSUME NEW p \in Clients, PauseUnlock(p) PROVE PinsInv'
    BY <1>pauseUnlock DEF PauseUnlock
<1>addFile. ASSUME NEW p \in Clients, AddFile(p) PROVE PinsInv'
    BY <1>addFile DEF AddFile
<1>addRoot. ASSUME NEW p \in Clients, AddRoot(p) PROVE PinsInv'
    BY <1>addRoot DEF AddRoot
<1>addFails. ASSUME NEW p \in Clients, AddFails(p) PROVE PinsInv'
    BY <1>addFails DEF AddFails
<1>pinRoot. ASSUME NEW p \in Clients, PinRoot(p) PROVE PinsInv'
    BY <1>pinRoot DEF PinRoot
<1>updRemoveOld. ASSUME NEW p \in Clients, UpdRemoveOld(p) PROVE PinsInv'
    BY <1>updRemoveOld DEF UpdRemoveOld
<1>updAddNew. ASSUME NEW p \in Clients, UpdAddNew(p) PROVE PinsInv'
    BY <1>updAddNew DEF UpdAddNew
<1>unpin. ASSUME NEW p \in Clients, Unpin(p) PROVE PinsInv'
    <2>1. /\ recursive' \subseteq recursive /\ direct' \subseteq direct
          /\ pc[p] # "commit" /\ pc'[p] \notin {"commit", "delete"}
          /\ \A q \in Clients \ {p} : pc'[q] = pc[q]
          /\ store \subseteq store'
          /\ UNCHANGED <<cmd, gc, marked>>
        BY <1>unpin DEF Unpin, Fetched
    <2>2. Graph(recursive') \subseteq Graph(recursive)
        BY <2>1, GraphMonotone
    <2>3. PinsComplete'
        BY <2>1, <2>2
    <2>4. /\ gc \in {"direct", "internal", "sweep"} => Graph(recursive') \subseteq marked
          /\ gc \in {"internal", "sweep"} => direct' \subseteq marked
        BY <2>1, <2>2
    <2>5. \A q \in Clients :
            /\ pc'[q] = "commit" => Graph({cmd[q].cid}) \subseteq store'
            /\ pc'[q] = "delete" => cmd[q].cid \notin Graph(recursive') \cup direct'
        <3> SUFFICES ASSUME NEW q \in Clients \ {p}
                     PROVE  /\ pc[q] = "commit" => Graph({cmd[q].cid}) \subseteq store'
                            /\ pc[q] = "delete" => cmd[q].cid \notin Graph(recursive') \cup direct'
            BY <2>1
        <3>1. /\ pc[q] = "commit" => Graph({cmd[q].cid}) \subseteq store
              /\ pc[q] = "delete" => cmd[q].cid \notin Graph(recursive) \cup direct
            OBVIOUS
        <3> QED BY <2>1, <2>2, <3>1
    <2> QED BY <2>1, <2>3, <2>4, <2>5
<1>updateBegin. ASSUME NEW p \in Clients, UpdateBegin(p) PROVE PinsInv'
    BY <1>updateBegin DEF UpdateBegin
<1>updateFetch. ASSUME NEW p \in Clients, UpdateFetch(p) PROVE PinsInv'
    BY <1>updateFetch DEF UpdateFetch
<1>updateSwap. ASSUME NEW p \in Clients, UpdateSwap(p) PROVE PinsInv'
    BY <1>updateSwap DEF UpdateSwap
<1>rmLock. ASSUME NEW p \in Clients, RmLock(p) PROVE PinsInv'
    BY <1>rmLock DEF RmLock, GCLock
<1>rmLocked. ASSUME NEW p \in Clients, RmLocked(p) PROVE PinsInv'
    BY <1>rmLocked DEF RmLocked
<1>rmCheck. ASSUME NEW p \in Clients, RmCheck(p) PROVE PinsInv'
    <2>1. store \subseteq store'
        BY <1>rmCheck DEF RmCheck, Incomplete, Fetched
    <2>2. /\ pc'[p] \in {"unlock", "delete"}
          /\ pc'[p] = "delete" => cmd[p].cid \notin Graph(recursive) \cup direct
          /\ \A q \in Clients \ {p} : pc'[q] = pc[q]
          /\ UNCHANGED <<recursive, direct, cmd, gc, marked>>
        BY <1>rmCheck DEF RmCheck
    <2>3. PinsComplete'
        BY <2>1, <2>2
    <2>4. \A q \in Clients :
            /\ pc'[q] = "commit" => Graph({cmd[q].cid}) \subseteq store'
            /\ pc'[q] = "delete" => cmd[q].cid \notin Graph(recursive) \cup direct
        BY <2>1, <2>2
    <2> QED BY <2>2, <2>3, <2>4
<1>rmDelete. ASSUME NEW p \in Clients, RmDelete(p) PROVE PinsInv'
    <2>1. /\ pc[p] = "delete" /\ pc' = [pc EXCEPT ![p] = "unlock"]
          /\ store \ {cmd[p].cid} \subseteq store'
          /\ UNCHANGED <<recursive, direct, cmd, gc, marked>>
        BY <1>rmDelete DEF RmDelete
    <2>2. cmd[p].cid \notin Graph(recursive) \cup direct
        BY <2>1
    <2>3. PinsComplete'
        BY <2>1, <2>2
    <2>4. \A q \in Clients : pc[q] # "commit"
        <3> SUFFICES ASSUME NEW q \in Clients, pc[q] = "commit" PROVE FALSE
            OBVIOUS
        <3>1. cmd[q].kind \in LockedKinds
            BY DEF LockedKinds
        <3> QED BY <2>1, <3>1
    <2> QED BY <2>1, <2>3, <2>4
<1>gcRequest. CASE GCRequest
    BY <1>gcRequest DEF GCRequest
<1>gcAnnounce. CASE GCAnnounce
    BY <1>gcAnnounce DEF GCAnnounce, GCLock
<1>gcLocked. CASE GCLocked
    BY <1>gcLocked DEF GCLocked
<1>markRecursive. CASE MarkRecursive
    BY <1>markRecursive DEF MarkRecursive
<1>markFails. CASE MarkFails
    BY <1>markFails DEF MarkFails, GCEnd, GCUnlock
<1>markDirect. CASE MarkDirect
    BY <1>markDirect DEF MarkDirect
<1>markInternal. CASE MarkInternal
    BY <1>markInternal DEF MarkInternal, GCEnd, GCUnlock
<1>sweepBlock. CASE SweepBlock
    BY <1>sweepBlock DEF SweepBlock
<1>sweepState. CASE SweepState
    BY <1>sweepState DEF SweepState
<1>sweepEnd. CASE SweepEnd
    BY <1>sweepEnd DEF SweepEnd, GCEnd, GCUnlock
<1>restart. CASE Restart
    BY <1>restart DEF Restart, LoadPinner, Loadable
<1>stutter. CASE UNCHANGED vars
    BY <1>stutter DEF vars
<1> QED
    BY <1>start, <1>resolve, <1>pinLock, <1>pinLocked, <1>pinBegin, <1>pinFetch,
       <1>pinFetchFails, <1>pinCommit, <1>pinDirect, <1>flushStore, <1>flushRecord,
       <1>flushFails, <1>unlock, <1>maybePause, <1>pauseUnlock, <1>addFile, <1>addRoot, <1>addFails, <1>pinRoot,
       <1>updRemoveOld, <1>updAddNew, <1>unpin, <1>updateBegin, <1>updateFetch,
       <1>updateSwap, <1>rmLock, <1>rmLocked, <1>rmCheck, <1>rmDelete, <1>gcRequest,
       <1>gcAnnounce, <1>gcLocked, <1>markRecursive, <1>markFails, <1>markDirect,
       <1>markInternal, <1>sweepBlock, <1>sweepState, <1>sweepEnd, <1>restart, <1>stutter
    DEF Next, ClientStep, CollectorStep

\* Neither a collection nor `block rm` deletes a block that a pin protects, when every command
\* that adds pins holds PinLock.
THEOREM PinnedStays ==
    ASSUME PinnersLock
    PROVE  Spec => []PinsComplete
<1> DEFINE Inv == TypeInv /\ LockInv /\ StepInv /\ ReaderInv /\ PinsInv
<1>1. Init => Inv
    <2> SUFFICES ASSUME Init PROVE LockInv /\ StepInv /\ ReaderInv /\ PinsInv
        BY TypeInit
    <2>1. Graph(recursive) = {}
        <3>1. ClosedUnderLinks({}, Blocks)
            BY DEF ClosedUnderLinks
        <3> QED BY <3>1, WalkLeast DEF Graph, Init
    <2> QED BY <2>1, PinGCAssumption DEF Init, LockInv, LockExclusion, Working, CollectorSteps,
                                         StepInv, ReaderInv, PinsInv, PinsComplete
<1>2. Inv /\ [Next]_vars => Inv'
    BY TypeNext, LockNext, StepNext, ReaderNext, PinsNext
<1>3. Inv => PinsComplete
    BY DEF PinsInv
<1> QED BY <1>1, <1>2, <1>3, PTL DEF Spec

=============================================================================
