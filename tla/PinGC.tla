------------------------------- MODULE PinGC -------------------------------
(***************************************************************************)
(* The pinner (pin/pin.go), the mark-and-sweep collector (pin/gc/gc.go)    *)
(* and the commands that change pins or blocks (core/commands, core/       *)
(* coreunix, core/corerepo, blocks/blockstore/util), running concurrently  *)
(* in one daemon over one blockstore, with crashes and restarts.           *)
(*                                                                         *)
(* Three locks order them: the pinner's own lock (plock), and the two      *)
(* sides of the GC lock, PinLock (readers) and GCLock (writer).  Which     *)
(* commands hold which lock over which steps is what the model is about.   *)
(*                                                                         *)
(* The nodes in which Flush saves a pin state (root node and two sets) are *)
(* one block, named by the pin state it holds: it is content-addressed, a  *)
(* state is unreadable as soon as one of its nodes is gone, and a node two *)
(* states share is marked whenever the current state is.                   *)
(***************************************************************************)
EXTENDS Dag, Naturals, FiniteSets

CONSTANTS
    Clients,        \* goroutines that run commands
    Collector,      \* the goroutine that runs gc.GC
    Nobody,         \* a lock that is free
    NoState,        \* the pin state key is absent from the datastore
    Kinds,          \* the commands that clients run
    Targets,        \* the CIDs commands are given
    FilesRoots,     \* the root of the mutable file system
    EmptyDir,       \* the root of an Adder that has added nothing
    Successor,      \* Successor[c]: the node of c under a UUID (upd), or its new version (pin update)
    MaxCommands,    \* bound: commands started
    MaxCrashes      \* bound: crashes of the daemon

AllKinds == {"pinAdd", "pinAddDirect", "pinAddProgress", "add", "upd",
             "pinRm", "pinUpdate", "blockRm", "del"}

ASSUME PinGCAssumption ==
    /\ Collector \notin Clients
    /\ Nobody \notin Clients \cup {Collector}
    /\ Kinds \subseteq AllKinds
    /\ Targets \subseteq Blocks
    /\ FilesRoots \subseteq Blocks
    /\ EmptyDir \in Blocks /\ Links[EmptyDir] = {}
    /\ Successor \in [Blocks -> Blocks]
    /\ MaxCommands \in Nat
    /\ MaxCrashes \in Nat

PinState == [recursive : SUBSET Blocks, direct : SUBSET Blocks]

ASSUME NoStateAssumption == NoState \notin PinState

VARIABLES
    \* on disk
    store,          \* data blocks in the blockstore
    stateBlocks,    \* blocks of pin states in the blockstore
    stateKey,       \* datastore key /local/pins
    \* pinner, in memory
    recursive,      \* recursePin
    direct,         \* directPin
    internal,       \* internalPin
    plock,          \* holder of pinner.lock
    \* gclocker
    readers,        \* holders of PinLock
    blocked,        \* readers asleep in RLock
    writer,         \* owner of the write side, from its announcement to its Unlock
    \* goroutines
    pc,             \* where each client is in its command
    cmd,            \* the command each client runs
    snap,           \* pin state each client is writing in Flush
    memo,           \* memo[p]: p's Adder has memoised the root it had at a pause
    gc,             \* where the collector is
    marked,         \* gcs, the colored set: data blocks
    markedState,    \* gcs: blocks of pin states
    \* history and bounds
    acked,          \* recursive pins reported as done and not removed since
    commands,       \* commands started
    crashes         \* crashes so far

disk == <<store, stateBlocks, stateKey>>
pinner == <<recursive, direct, internal>>
gclock == <<readers, blocked, writer>>
collector == <<gc, marked, markedState>>
bounds == <<commands, crashes>>
locals == <<snap, memo>>
vars == <<disk, pinner, plock, gclock, pc, cmd, locals, collector, acked, bounds>>

NoCommand == [kind |-> "none"]
Command == [kind : Kinds, cid : Targets] \cup {NoCommand}

ClientSteps == {"idle", "resolve", "lock", "pin", "fetch", "commit", "flush", "record", "unlock",
                "addFile", "pausePin", "pauseFlush", "pauseRecord", "pauseUnlock", "relock", "addRest",
                "addRoot", "pinRoot", "removeOld", "addNew",
                "unpin", "update", "diff", "swap", "gclock", "drain", "check", "delete"}
CollectorSteps == {"idle", "wait", "drain", "recursive", "failing", "direct", "internal", "sweep"}

TypeOK ==
    /\ store \subseteq Blocks
    /\ stateBlocks \subseteq PinState
    /\ stateKey \in PinState \cup {NoState}
    /\ recursive \subseteq Blocks
    /\ direct \subseteq Blocks
    /\ internal \subseteq PinState
    /\ plock \in Clients \cup {Nobody}
    /\ readers \subseteq Clients
    /\ writer \in Clients \cup {Collector, Nobody}
    /\ blocked \subseteq Clients
    /\ pc \in [Clients -> ClientSteps]
    /\ cmd \in [Clients -> Command]
    /\ snap \in [Clients -> PinState \cup {NoState}]
    /\ memo \in [Clients -> BOOLEAN]
    /\ gc \in CollectorSteps
    /\ marked \subseteq Blocks
    /\ markedState \subseteq PinState
    /\ acked \subseteq Blocks
    /\ commands \in 0..MaxCommands
    /\ crashes \in 0..MaxCrashes

-----------------------------------------------------------------------------
(***************************************************************************)
(* Start-up.  The repository of the model is one that `init` and a first   *)
(* Flush have left: an empty pin state, saved and readable.                *)
(***************************************************************************)
EmptyState == [recursive |-> {}, direct |-> {}]

Init ==
    /\ store = {}
    /\ stateBlocks = {EmptyState}
    /\ stateKey = EmptyState
    /\ recursive = {}
    /\ direct = {}
    /\ internal = {EmptyState}
    /\ plock = Nobody
    /\ readers = {}
    /\ blocked = {}
    /\ writer = Nobody
    /\ pc = [p \in Clients |-> "idle"]
    /\ cmd = [p \in Clients |-> NoCommand]
    /\ snap = [p \in Clients |-> NoState]
    /\ memo = [p \in Clients |-> FALSE]
    /\ gc = "idle"
    /\ marked = {}
    /\ markedState = {}
    /\ acked = {}
    /\ commands = 0
    /\ crashes = 0

-----------------------------------------------------------------------------
(* Helpers of the command steps *)

Cid(p) == cmd[p].cid
Target2(p) == Successor[Cid(p)]
At(p, step) == pc[p] = step
Goto(p, step) == pc' = [pc EXCEPT ![p] = step]

\* the command ends: deferred unlocks run, the goroutine is gone
Return(p) ==
    /\ pc' = [pc EXCEPT ![p] = "idle"]
    /\ cmd' = [cmd EXCEPT ![p] = NoCommand]
    /\ snap' = [snap EXCEPT ![p] = NoState]
    /\ memo' = [memo EXCEPT ![p] = FALSE]

\* what a walk that fetches blocks of S may leave in the blockstore, and what it leaves when
\* it fails: not all of what was missing
Fetched(S) == {store \cup X : X \in SUBSET (S \ store)}
Incomplete(S) == Fetched(S) \ {store \cup S}

-----------------------------------------------------------------------------
(***************************************************************************)
(* A command starts.                                                       *)
(***************************************************************************)
FirstStep(k) ==
    CASE k \in {"pinRm", "del"} -> "unpin"
      [] k = "pinUpdate" -> "update"
      [] k = "blockRm" -> "gclock"
      [] k = "upd" -> "resolve"
      [] OTHER -> "lock"

Start(p, k, c) ==
    /\ At(p, "idle")
    /\ commands < MaxCommands
    /\ commands' = commands + 1
    /\ cmd' = [cmd EXCEPT ![p] = [kind |-> k, cid |-> c]]
    /\ Goto(p, FirstStep(k))
    /\ UNCHANGED <<disk, pinner, plock, gclock, locals, collector, acked, crashes>>

\* the node of the path a command is given is found or fetched: before PinLock by upd, after
\* it by pin add
Resolve(p) ==
    /\ At(p, "resolve")
    /\ \/ /\ store' = store \cup {Cid(p)}
          /\ Goto(p, IF cmd[p].kind = "upd" THEN "lock" ELSE "pin")
       \/ /\ Cid(p) \notin store
          /\ Goto(p, "unlock")
          /\ UNCHANGED store
    /\ UNCHANGED <<stateBlocks, stateKey, pinner, plock, gclock, cmd, locals, collector, acked, bounds>>

(***************************************************************************)
(* The GC lock is a sync.RWMutex.  A writer first owns the write side,     *)
(* which stops new readers, and then waits until the readers have left.    *)
(* The readers it stopped enter when it unlocks, before the next writer.   *)
(*                                                                         *)
(* `pin add --progress` runs corerepo.Pin in a goroutine that outlives Run *)
(* and so the deferred Unlock: it holds no PinLock.                        *)
(***************************************************************************)
StepAfterLock(k) ==
    CASE k = "add" -> "addFile"
      [] k = "upd" -> "removeOld"
      [] OTHER -> "resolve"

\* mutant: PinLock().Unlock() without defer, for every command (as AddR of add.go has it)
MutKeepsPinLock(k) == FALSE

KeepsPinLock(k) == k # "pinAddProgress"

PinLock(p) ==
    /\ pc[p] \in {"lock", "relock"}
    /\ p \notin readers \cup blocked
    /\ IF writer = Nobody
       THEN readers' = readers \cup {p} /\ UNCHANGED blocked
       ELSE blocked' = blocked \cup {p} /\ UNCHANGED readers
    /\ UNCHANGED <<disk, pinner, plock, writer, pc, cmd, locals, collector, acked, bounds>>

PinLocked(p) ==
    /\ pc[p] \in {"lock", "relock"}
    /\ p \in readers
    /\ readers' = IF KeepsPinLock(cmd[p].kind) THEN readers ELSE readers \ {p}
    /\ Goto(p, IF At(p, "relock") THEN "addRest" ELSE StepAfterLock(cmd[p].kind))
    /\ UNCHANGED <<disk, pinner, plock, blocked, writer, cmd, locals, collector, acked, bounds>>

\* Lock, up to the announcement
GCLock(w) ==
    /\ writer = Nobody
    /\ writer' = w
    /\ UNCHANGED <<readers, blocked>>

\* Unlock of the write side
GCUnlock ==
    /\ writer' = Nobody
    /\ readers' = readers \cup blocked
    /\ blocked' = {}

(***************************************************************************)
(* pinner.Pin, recursive: three steps under pinner.lock.  A direct pin of  *)
(* the CID is dropped before the graph is fetched.                         *)
(***************************************************************************)
PinBegin(p) ==
    /\ At(p, "pin")
    /\ cmd[p].kind # "pinAddDirect"
    /\ plock = Nobody
    /\ IF Cid(p) \in recursive
       THEN /\ Goto(p, "flush")
            /\ UNCHANGED <<direct, plock>>
       ELSE /\ direct' = direct \ {Cid(p)}
            /\ plock' = p
            /\ Goto(p, "fetch")
    /\ UNCHANGED <<disk, recursive, internal, gclock, cmd, locals, collector, acked, bounds>>

\* FetchGraph brings in every block of the graph
PinFetch(p) ==
    /\ At(p, "fetch")
    /\ store' = store \cup Graph({Cid(p)})
    /\ Goto(p, "commit")
    /\ UNCHANGED <<stateBlocks, stateKey, pinner, plock, gclock, cmd, locals, collector, acked, bounds>>

\* FetchGraph fails: Pin returns, corerepo.Pin does not flush
\* mutant: Pin returns its error without unlocking
MutPinFetchFails(p) ==
    /\ At(p, "fetch")
    /\ store' \in Incomplete(Graph({Cid(p)}))
    /\ Goto(p, "unlock")
    /\ UNCHANGED <<stateBlocks, stateKey, pinner, plock, gclock, cmd, locals, collector, acked, bounds>>

PinFetchFails(p) ==
    /\ At(p, "fetch")
    /\ store' \in Incomplete(Graph({Cid(p)}))
    /\ plock' = Nobody
    /\ Goto(p, "unlock")
    /\ UNCHANGED <<stateBlocks, stateKey, pinner, gclock, cmd, locals, collector, acked, bounds>>

PinCommit(p) ==
    /\ At(p, "commit")
    /\ recursive' = recursive \cup {Cid(p)}
    /\ plock' = Nobody
    /\ Goto(p, "flush")
    /\ UNCHANGED <<disk, direct, internal, gclock, cmd, locals, collector, acked, bounds>>

(***************************************************************************)
(* pinner.Pin, direct: the node is read (or fetched) and added, unless the *)
(* CID is already pinned recursively.                                      *)
(***************************************************************************)
PinDirect(p) ==
    /\ At(p, "pin")
    /\ cmd[p].kind = "pinAddDirect"
    /\ plock = Nobody
    /\ \/ /\ store' = store \cup {Cid(p)}
          /\ IF Cid(p) \in recursive
             THEN /\ Goto(p, "unlock")
                  /\ UNCHANGED direct
             ELSE /\ direct' = direct \cup {Cid(p)}
                  /\ Goto(p, "flush")
       \/ /\ Cid(p) \notin store
          /\ Goto(p, "unlock")
          /\ UNCHANGED <<store, direct>>
    /\ UNCHANGED <<stateBlocks, stateKey, recursive, internal, plock, gclock, cmd, locals,
                   collector, acked, bounds>>

-----------------------------------------------------------------------------
(***************************************************************************)
(* pinner.Flush, under pinner.lock: the blocks of the state are stored,    *)
(* then the datastore key and internalPin name them.  Either write can     *)
(* fail, and then Flush returns with neither named.                        *)
(***************************************************************************)
\* what storeSet saves: the two sets, whatever the shape of the trie of nodes that holds them
CurrentState == [recursive |-> recursive, direct |-> direct]

\* mutant: Flush names its root before it has one
MutFlushStore(p) ==
    /\ pc[p] \in {"flush", "pauseFlush"}
    /\ plock = Nobody
    /\ plock' = p
    /\ stateBlocks' = stateBlocks \cup {CurrentState}
    /\ Goto(p, IF At(p, "flush") THEN "record" ELSE "pauseRecord")
    /\ UNCHANGED <<store, stateKey, pinner, gclock, cmd, locals, collector, acked, bounds>>

\* mutant: Flush copies the sets under the lock and writes them without it
MutFlushUnlocked(p) ==
    /\ pc[p] \in {"flush", "pauseFlush"}
    /\ plock = Nobody
    /\ snap' = [snap EXCEPT ![p] = CurrentState]
    /\ stateBlocks' = stateBlocks \cup {CurrentState}
    /\ Goto(p, IF At(p, "flush") THEN "record" ELSE "pauseRecord")
    /\ UNCHANGED <<store, stateKey, pinner, plock, gclock, cmd, memo, collector, acked, bounds>>

FlushStore(p) ==
    /\ pc[p] \in {"flush", "pauseFlush"}
    /\ plock = Nobody
    /\ plock' = p
    /\ snap' = [snap EXCEPT ![p] = CurrentState]
    /\ stateBlocks' = stateBlocks \cup {CurrentState}
    /\ Goto(p, IF At(p, "flush") THEN "record" ELSE "pauseRecord")
    /\ UNCHANGED <<store, stateKey, pinner, gclock, cmd, memo, collector, acked, bounds>>

\* what add and upd pin: a root that a pause has memoised stays the root of its Adder
RootOf(p) ==
    IF cmd[p].kind = "upd" THEN Target2(p) ELSE IF memo[p] THEN EmptyDir ELSE Cid(p)

\* the CIDs a command that ends well reports as recursively pinned (unless another command
\* has unpinned them since it pinned them)
Pinned(p) ==
    CASE cmd[p].kind \in {"pinAdd", "pinAddProgress"} -> {Cid(p)}
      [] cmd[p].kind \in {"add", "upd"} -> {RootOf(p)}
      [] OTHER -> {}

FlushRecord(p) ==
    /\ pc[p] \in {"record", "pauseRecord"}
    /\ stateKey' = snap[p]
    /\ internal' = {snap[p]}
    /\ plock' = Nobody
    /\ IF At(p, "record")
       THEN /\ acked' = acked \cup (Pinned(p) \cap recursive)
            /\ Goto(p, IF cmd[p].kind = "del" THEN "gclock" ELSE "unlock")
       ELSE /\ Goto(p, "pauseUnlock")
            /\ UNCHANGED acked
    /\ UNCHANGED <<store, stateBlocks, recursive, direct, gclock, cmd, locals, collector, bounds>>

FlushFails(p) ==
    /\ pc[p] \in {"record", "pauseRecord"}
    /\ plock' = Nobody
    /\ Goto(p, "unlock")
    /\ UNCHANGED <<disk, pinner, gclock, cmd, locals, collector, acked, bounds>>

\* the deferred Unlock of either side of the GC lock, and the end of the command
Unlock(p) ==
    /\ At(p, "unlock")
    /\ IF writer = p
       THEN GCUnlock
       ELSE readers' = readers \ {p} /\ UNCHANGED <<blocked, writer>>
    /\ Return(p)
    /\ UNCHANGED <<disk, pinner, plock, collector, acked, bounds>>

-----------------------------------------------------------------------------
(***************************************************************************)
(* add of one file: AddFile stores the blocks below the root under PinLock *)
(* and gives the lock back; the root is stored, pinned and flushed by      *)
(* PinRootUUID after that, with no lock.  When a writer asks for the GC    *)
(* lock by the time AddFile begins, maybePauseForGC first pins and flushes *)
(* the root as it is, which memoises it, and lets the writer in.  That     *)
(* root is EmptyDir, also under the UUID that it gets at the end.          *)
(***************************************************************************)

\* gcreq, which a writer raises before it asks for the lock and lowers when it has it
GCMayBeRequested == gc \in {"wait", "drain"} \/ \E q \in Clients : pc[q] \in {"gclock", "drain"}
GCRequested == gc = "drain" \/ \E q \in Clients : pc[q] = "drain"

MaybePauseForGC(p) ==
    /\ At(p, "addFile")
    /\ GCMayBeRequested
    /\ memo' = [memo EXCEPT ![p] = TRUE]
    /\ store' = store \cup {EmptyDir}
    /\ Goto(p, "pausePin")
    /\ UNCHANGED <<stateBlocks, stateKey, pinner, plock, gclock, cmd, snap, collector, acked, bounds>>

PauseUnlock(p) ==
    /\ At(p, "pauseUnlock")
    /\ readers' = readers \ {p}
    /\ Goto(p, "relock")
    /\ UNCHANGED <<disk, pinner, plock, blocked, writer, cmd, locals, collector, acked, bounds>>

AddFile(p) ==
    /\ pc[p] \in {"addFile", "addRest"}
    /\ At(p, "addFile") => ~ GCRequested
    /\ store' = store \cup (Graph({Cid(p)}) \ {Cid(p)})
    /\ readers' = readers \ {p}
    /\ Goto(p, "addRoot")
    /\ UNCHANGED <<stateBlocks, stateKey, pinner, plock, blocked, writer, cmd, locals,
                   collector, acked, bounds>>

AddRoot(p) ==
    /\ At(p, "addRoot")
    /\ store' = store \cup {RootOf(p)}
    /\ Goto(p, "pinRoot")
    /\ UNCHANGED <<stateBlocks, stateKey, pinner, plock, gclock, cmd, locals, collector, acked, bounds>>

\* a block that add or upd stores cannot be written: the command ends, its deferred unlock runs
AddFails(p) ==
    /\ pc[p] \in {"addFile", "addRest", "addRoot", "addNew"}
    /\ store' \in IF pc[p] \in {"addFile", "addRest"} THEN Incomplete(Graph({Cid(p)})) ELSE {store}
    /\ Goto(p, "unlock")
    /\ UNCHANGED <<stateBlocks, stateKey, pinner, plock, gclock, cmd, locals, collector, acked, bounds>>

\* PinWithMode, nothing being fetched
PinRoot(p) ==
    /\ pc[p] \in {"pinRoot", "pausePin"}
    /\ plock = Nobody
    /\ recursive' = recursive \cup {RootOf(p)}
    /\ Goto(p, IF At(p, "pinRoot") THEN "flush" ELSE "pauseFlush")
    /\ UNCHANGED <<disk, direct, internal, plock, gclock, cmd, locals, collector, acked, bounds>>

(***************************************************************************)
(* upd, under PinLock throughout: the pin of the old node goes, the same   *)
(* node with the new UUID is stored and pinned.  Only the root is stored.  *)
(***************************************************************************)
UpdRemoveOld(p) ==
    /\ At(p, "removeOld")
    /\ plock = Nobody
    /\ recursive' = recursive \ {Cid(p)}
    /\ acked' = acked \ {Cid(p)}
    /\ Goto(p, "addNew")
    /\ UNCHANGED <<disk, direct, internal, plock, gclock, cmd, locals, collector, bounds>>

UpdAddNew(p) ==
    /\ At(p, "addNew")
    /\ store' = store \cup {Target2(p)}
    /\ Goto(p, "pinRoot")
    /\ UNCHANGED <<stateBlocks, stateKey, pinner, plock, gclock, cmd, locals, collector, acked, bounds>>

-----------------------------------------------------------------------------
(***************************************************************************)
(* pin rm, and del of the web API: Unpin, then Flush, without PinLock.  An *)
(* indirect pin, or none, is an error found by a walk of the recursive     *)
(* pins that fetches what is missing; nothing is flushed.  del goes on to  *)
(* RmBlocks.                                                               *)
(***************************************************************************)
Unpin(p) ==
    /\ At(p, "unpin")
    /\ plock = Nobody
    /\ IF Cid(p) \in recursive
       THEN /\ recursive' = recursive \ {Cid(p)}
            /\ acked' = acked \ {Cid(p)}
            /\ UNCHANGED direct
       ELSE /\ direct' = direct \ {Cid(p)}
            /\ UNCHANGED <<recursive, acked>>
    /\ IF Cid(p) \in recursive \cup direct
       THEN Goto(p, "flush") /\ UNCHANGED store
       ELSE Goto(p, "unlock") /\ store' \in Fetched(Graph(recursive))
    /\ UNCHANGED <<stateBlocks, stateKey, internal, plock, gclock, cmd, locals, collector, bounds>>

(***************************************************************************)
(* pin update: pinner.Update under pinner.lock, without PinLock and        *)
(* without a Flush.  DiffEnumerate fetches what the new graph has and the  *)
(* old one has not; the old graph is taken to be complete, and which of    *)
(* its blocks are read on the way is left open.                            *)
(***************************************************************************)
UpdateBegin(p) ==
    /\ At(p, "update")
    /\ plock = Nobody
    /\ IF Cid(p) \in recursive
       THEN plock' = p /\ Goto(p, "diff")
       ELSE Goto(p, "unlock") /\ UNCHANGED plock
    /\ UNCHANGED <<disk, pinner, gclock, cmd, locals, collector, acked, bounds>>

NewInUpdate(p) == (Graph({Target2(p)}) \ Graph({Cid(p)})) \cup {Cid(p), Target2(p)}

UpdateFetch(p) ==
    /\ At(p, "diff")
    /\ \/ /\ store' \in Fetched(Graph({Cid(p), Target2(p)}))
          /\ NewInUpdate(p) \subseteq store'
          /\ Goto(p, "swap")
          /\ UNCHANGED plock
       \/ /\ store' \in Incomplete(Graph({Cid(p), Target2(p)}))
          /\ plock' = Nobody
          /\ Goto(p, "unlock")
    /\ UNCHANGED <<stateBlocks, stateKey, pinner, gclock, cmd, locals, collector, acked, bounds>>

UpdateSwap(p) ==
    /\ At(p, "swap")
    /\ plock' = Nobody
    /\ \E unpin \in BOOLEAN :
        LET gone == IF unpin THEN {Cid(p)} ELSE {} IN
        /\ recursive' = (recursive \cup {Target2(p)}) \ gone
        /\ acked' = (acked \cup {Target2(p)}) \ gone
    /\ Goto(p, "unlock")
    /\ UNCHANGED <<disk, direct, internal, gclock, cmd, locals, collector, bounds>>

-----------------------------------------------------------------------------
(***************************************************************************)
(* RmBlocks: GCLock, then FilterPinned, then DeleteBlock.  The check walks *)
(* the recursive pins through the online DAG service; a block it cannot    *)
(* get ends the command with nothing deleted.                              *)
(***************************************************************************)
RmLock(p) ==
    /\ At(p, "gclock")
    /\ GCLock(p)
    /\ Goto(p, "drain")
    /\ UNCHANGED <<disk, pinner, plock, cmd, locals, collector, acked, bounds>>

RmLocked(p) ==
    /\ At(p, "drain")
    /\ readers = {}
    /\ Goto(p, "check")
    /\ UNCHANGED <<disk, pinner, plock, gclock, cmd, locals, collector, acked, bounds>>

RmCheck(p) ==
    /\ At(p, "check")
    /\ plock = Nobody
    /\ IF Cid(p) \in Graph(recursive) \cup direct
       THEN /\ store' \in Fetched(Graph(recursive))
            /\ Goto(p, "unlock")
       ELSE \/ /\ store' = store \cup Graph(recursive)
               /\ Goto(p, "delete")
            \/ /\ store' \in Incomplete(Graph(recursive))
               /\ Goto(p, "unlock")
    /\ UNCHANGED <<stateBlocks, stateKey, pinner, plock, gclock, cmd, locals, collector, acked, bounds>>

\* DeleteBlock, which may fail
RmDelete(p) ==
    /\ At(p, "delete")
    /\ store' \in {store, store \ {Cid(p)}}
    /\ Goto(p, "unlock")
    /\ UNCHANGED <<stateBlocks, stateKey, pinner, plock, gclock, cmd, locals, collector, acked, bounds>>

-----------------------------------------------------------------------------
(***************************************************************************)
(* The collector.  gc.GC marks, in ColoredSet's order: the graphs of the   *)
(* recursive pins, the best-effort roots, the direct pins, the blocks of   *)
(* the pin state.  RecursiveKeys and DirectKeys take no lock of the        *)
(* pinner's, InternalPins does.  A pinned block, or a block of the pin     *)
(* state, that cannot be read ends the collection before it deletes.       *)
(***************************************************************************)
\* repo gc at any time, as PeriodicGC and ConditionalGC may find their watermark exceeded at any time
GCRequest ==
    /\ gc = "idle"
    /\ gc' = "wait"
    /\ UNCHANGED <<disk, pinner, plock, gclock, pc, cmd, locals, marked, markedState, acked, bounds>>

GCAnnounce ==
    /\ gc = "wait"
    /\ GCLock(Collector)
    /\ gc' = "drain"
    /\ UNCHANGED <<disk, pinner, plock, pc, cmd, locals, marked, markedState, acked, bounds>>

GCLocked ==
    /\ gc = "drain"
    /\ readers = {}
    /\ gc' = "recursive"
    /\ UNCHANGED <<disk, pinner, plock, gclock, pc, cmd, locals, marked, markedState, acked, bounds>>

\* mutant: a collection that ends leaves the GC lock held
MutGCEnd ==
    /\ gc' = "idle"
    /\ marked' = {}
    /\ markedState' = {}
    /\ UNCHANGED gclock

GCEnd ==
    /\ GCUnlock
    /\ gc' = "idle"
    /\ marked' = {}
    /\ markedState' = {}

\* an unreadable block below a recursive pin makes the collection fail once the rest is marked
MarkRecursive ==
    /\ gc = "recursive"
    /\ IF Graph(recursive) \subseteq store
       THEN /\ marked' = Graph(recursive) \cup Walk(FilesRoots, store)
            /\ gc' = "direct"
       ELSE gc' = "failing" /\ UNCHANGED marked
    /\ UNCHANGED <<disk, pinner, plock, gclock, pc, cmd, locals, markedState, acked, bounds>>

MarkFails ==
    /\ gc = "failing"
    /\ plock = Nobody
    /\ GCEnd
    /\ UNCHANGED <<disk, pinner, plock, pc, cmd, locals, acked, bounds>>

MarkDirect ==
    /\ gc = "direct"
    /\ marked' = marked \cup direct
    /\ gc' = "internal"
    /\ UNCHANGED <<disk, pinner, plock, gclock, pc, cmd, locals, markedState, acked, bounds>>

\* mutant: the internal pins are not marked
MutMarkInternal ==
    /\ gc = "internal"
    /\ plock = Nobody
    /\ gc' = "sweep"
    /\ UNCHANGED <<disk, pinner, plock, gclock, pc, cmd, locals, marked, markedState, acked, bounds>>

MarkInternal ==
    /\ gc = "internal"
    /\ plock = Nobody
    /\ IF internal \subseteq stateBlocks
       THEN /\ markedState' = internal
            /\ gc' = "sweep"
            /\ UNCHANGED <<gclock, marked>>
       ELSE GCEnd
    /\ UNCHANGED <<disk, pinner, plock, pc, cmd, locals, acked, bounds>>

(***************************************************************************)
(* The sweep.  A block stored while AllKeysChan lists the keys may or may  *)
(* not be listed, so the sweep is over at any time, its keys listed or its *)
(* context cancelled.                                                      *)
(***************************************************************************)
SweepBlock ==
    /\ gc = "sweep"
    /\ \E b \in store \ marked : store' = store \ {b}
    /\ UNCHANGED <<stateBlocks, stateKey, pinner, plock, gclock, pc, cmd, locals, collector, acked,
                   bounds>>

SweepState ==
    /\ gc = "sweep"
    /\ \E s \in stateBlocks \ markedState : stateBlocks' = stateBlocks \ {s}
    /\ UNCHANGED <<store, stateKey, pinner, plock, gclock, pc, cmd, locals, collector, acked, bounds>>

SweepEnd ==
    /\ gc = "sweep"
    /\ GCEnd
    /\ UNCHANGED <<disk, pinner, plock, pc, cmd, locals, acked, bounds>>

-----------------------------------------------------------------------------
(***************************************************************************)
(* The daemon dies and is started again: what is on disk stays, setupNode  *)
(* loads the pin state, and takes an empty one when it cannot.             *)
(***************************************************************************)
Loadable == stateKey \in stateBlocks

LoadPinner ==
    IF Loadable
    THEN /\ recursive' = stateKey.recursive
         /\ direct' = stateKey.direct
         /\ internal' = {stateKey}
    ELSE /\ recursive' = {}
         /\ direct' = {}
         /\ internal' = {}

Restart ==
    /\ crashes < MaxCrashes
    /\ crashes' = crashes + 1
    /\ LoadPinner
    /\ plock' = Nobody
    /\ readers' = {}
    /\ blocked' = {}
    /\ writer' = Nobody
    /\ pc' = [p \in Clients |-> "idle"]
    /\ cmd' = [p \in Clients |-> NoCommand]
    /\ snap' = [p \in Clients |-> NoState]
    /\ memo' = [p \in Clients |-> FALSE]
    /\ gc' = "idle"
    /\ marked' = {}
    /\ markedState' = {}
    /\ UNCHANGED <<disk, acked, commands>>

-----------------------------------------------------------------------------
ClientStep(p) ==
    \/ Resolve(p) \/ PinLock(p) \/ PinLocked(p)
    \/ PinBegin(p) \/ PinFetch(p) \/ PinFetchFails(p) \/ PinCommit(p)
    \/ PinDirect(p) \/ FlushStore(p) \/ FlushRecord(p) \/ FlushFails(p) \/ Unlock(p)
    \/ MaybePauseForGC(p) \/ PauseUnlock(p) \/ AddFile(p) \/ AddRoot(p) \/ AddFails(p)
    \/ PinRoot(p) \/ UpdRemoveOld(p) \/ UpdAddNew(p)
    \/ Unpin(p) \/ UpdateBegin(p) \/ UpdateFetch(p) \/ UpdateSwap(p)
    \/ RmLock(p) \/ RmLocked(p) \/ RmCheck(p) \/ RmDelete(p)

CollectorStep ==
    \/ GCAnnounce \/ GCLocked \/ MarkRecursive \/ MarkFails \/ MarkDirect \/ MarkInternal
    \/ SweepBlock \/ SweepState \/ SweepEnd

Next ==
    \/ \E p \in Clients, k \in Kinds, c \in Targets : Start(p, k, c)
    \/ \E p \in Clients : ClientStep(p)
    \/ GCRequest
    \/ CollectorStep
    \/ Restart

Spec == Init /\ [][Next]_vars

\* Goroutines that can run do run, and a fetch ends, with the graph or with an error: that the
\* exchange answers or the caller gives up is assumed, no timeout in the code says so.
\* A Go mutex hands itself over after 1 ms of waiting, so the write side is strongly fair.
FairSpec ==
    /\ Spec
    /\ \A p \in Clients : WF_vars(ClientStep(p)) /\ SF_vars(RmLock(p))
    /\ WF_vars(CollectorStep)
    /\ SF_vars(GCAnnounce)

-----------------------------------------------------------------------------
(***************************************************************************)
(* Properties                                                              *)
(***************************************************************************)

\* Every block that a pin protects is in the blockstore: neither a collection nor `block rm`
\* deletes a block between the moment a command finds or stores it and the moment the
\* command pins it (PinLock, GCLock).
PinsComplete ==
    /\ Graph(recursive) \subseteq store
    /\ direct \subseteq store

\* The pin state that the next start-up will load is on disk: no collection deletes the nodes
\* the datastore key names ("so gc does not delete them", pin.go).
PinStateOnDisk == Loadable

\* A recursive pin that was reported as done is in memory and in the saved state until a
\* command removes it, whatever other commands flush and however often the daemon restarts.
AckedPinsSurvive ==
    /\ acked \subseteq recursive
    /\ acked \subseteq stateKey.recursive

\* The pin state that add saves last holds the file it was given ("Pin this object when
\* adding", core/commands/add.go:62), a collection asking for the lock meanwhile or not.
AddedPinned ==
    \A p \in Clients :
        cmd[p].kind = "add" /\ pc[p] = "record" => Cid(p) \in snap[p].recursive

\* While a collection or `block rm` works, nobody is inside PinLock.
Working == gc \in CollectorSteps \ {"idle", "wait", "drain"}
LockExclusion ==
    (Working \/ \E p \in Clients : pc[p] \in {"check", "delete"}) => readers = {}

\* Liveness: a collection that asked for the lock ends, and so does every command.
CollectionEnds == gc = "wait" ~> gc = "idle"
CommandsEnd == \A p \in Clients : pc[p] # "idle" ~> pc[p] = "idle"

=============================================================================
