# TLA+ models of Casper-server

Casper-server is a storage provider: a fork of go-ipfs to which a "Casper layer" adds provider registration in a smart
contract, UUIDs for stored files, replication, and the validation of stored files among the providers that hold them. These
modules model its core: what runs concurrently, what survives a crash, and the algorithms whose bounds are easy to get
wrong. TLC checks them on small instances; TLAPS proves the safety properties that the runs check
of ten state machines, for all instances. Paths
below are relative to the repository's root, as in `core/core.go`.

    tlc -workers 2 -config PinGC_locked.cfg MCPinGC        # one run; see "Runs"
    tlapm WantManager_proofs.tla                            # the proofs of one component; see "Proofs"

| module | models | kind |
|---|---|---|
| `Dag` | what walks over the Merkle DAG return (`merkledag`, `merkledag/utils`) | operators |
| `PinGC` | pinner, garbage collector, GC lock, and the commands that pin, unpin and delete | state machine |
| `BlockMap` | what a block store promises goroutines that use it at once | abstract specification |
| `CachedStore` | block service, Bloom filter, ARC cache and store (`blocks/blockstore`) | state machine, implements `BlockMap` |
| `BitswapEngine` | decision engine, peer request queue, task workers of Bitswap | state machine |
| `WantManager` | want list, message queues and streams to partners | state machine |
| `BitswapSession` | sessions, requests for blocks, deliveries, notifications | state machine |
| `Validation` | one UUID's validation among providers, over Thrift calls | state machine |
| `Providers` | uploads, deletions, pings, bans and replication among providers | state machine |
| `Mfs` | the mutable file system, its flushes and its republisher | state machine |
| `Repo`, `RepoFsck` | processes on one repository directory: lock, api file, configuration, a daemon's life | state machines |
| `Repo_promises` | what these promise each other | properties |
| `Unixfs` | files as graphs: both layouts, append, overwrite, cut, read, slice | recursive operators |
| `ByteFile` | a file as bytes with a position and a saved version | abstract specification |
| `FileDag`, `FileDagFuse` | descriptors of one file, used by `files` or by a mount | state machines, `FileDag` implements `ByteFile` |
| `NameMap` | a directory as a map with a saved version | abstract specification |
| `Hamt` | a directory as one node or as a hash trie of shards | state machine, implements `NameMap` |
| `Request`, `Reply` | a command line on its way to the daemon, and the answer on its way back | state machines |
| `MC*` | constants, instances and symmetry for TLC; `MCParts` puts four parts that share nothing side by side | instances |
| `*_proofs` | theorems about the module they are named for; `Casper_proofs`: of `Providers` and `Validation`; `Repo_proofs`: of `Repo` and `Reply` | proofs |

## The system and its parts

A *daemon* (`cmd/ipfs_server`) opens the repository, builds a node (`core`) and serves commands over HTTP and Casper's
queries over Thrift. The node's services stand on each other: commands and the Casper layer call pinner, adder, MFS and
exchange; these call the DAG service, the block service, and at the bottom the block store on the datastore. Every command
and every Thrift call runs in a goroutine of its own, so all of them meet in the services' shared state. Between nodes there
are Bitswap messages, Thrift calls and the contract. `PROJECT.json` lists every component with its status and every hazard
at the line where it bites. The parts with state of their own:

**Pinner, garbage collector and their commands** (`pin`, `pin/gc`, `core/corerepo`, `core/commands`). On disk: blocks, the
nodes in which the pin state is saved, the datastore key that names the saved state. In memory: three pin sets, the pinner's
`RWMutex`, the GC lock (read side `PinLock`, write side `GCLock`), the counter by which a collector asks `add` to pause.
Operations: `Pin`, `Unpin`, `Update`, `PinWithMode`, `Flush`, `LoadPinner`, `GC`; the commands `pin add`, `pin rm`,
`pin update`, `add`, `upd`, `del`, `block rm`, `repo gc`. Hard: fetch, pin and flush are separate steps that not every
command does under `PinLock`; the collector reads its roots at three times and sweeps later; the daemon may die anywhere;
three locks are taken in several orders. Correct when no block below a pin is deleted, the next start-up can load the saved
state, a reported pin survives, and nobody waits for ever.

**Block store and its caches** (`blockservice`, `blocks/blockstore`, `exchange/offline`). A Bloom filter that is rebuilt in
the background or an ARC cache may stand before the datastore, without a lock for readers; the daemon asks for neither. Hard:
a question and the note of its answer are separate steps; the rebuild runs beside puts; an add puts a block twice. Correct
when goroutines cannot tell it from a map.

**Bitswap, serving** (`exchange/bitswap/decision`, `thirdparty/pq`, `exchange/bitswap/workers.go`). A ledger per peer, a heap
of partners each with a heap of tasks, a request count and a freeze value; an outbox between the engine's goroutine and the
workers. Hard: cancelled tasks stay queued as trash; a want may arrive between a block's `Put` and its `AddBlock`; a frozen
partner is thawed by a ticker alone. Correct when no block is in two hands for a peer, counts match tasks, no want of a
stored block is without a task, and each is served or taken back.

**Bitswap, asking** (`wantmanager.go`, `wantlist`, `message`, `network`; `session.go`, `get.go`, `notifications`). The want
manager keeps one want list, and per partner a queue with a list of its own, one pending message that later changes are
merged into, and a goroutine that opens streams. Sessions keep what they have asked for and what waits; requests subscribe;
a block that arrives is stored, published and cancelled. Hard: the lists share their entries; messages are lost when a
stream fails; sessions, requests and deliveries meet on unbuffered channels and one lock. Correct when each partner is told
exactly what is wanted, no key falls between what is asked and what waits, and each call ends.

**Validation between providers** (`casper/validation/server.go`, `cmd/ipfs_server/serverhandler.go`). Per node a map of one
running check per UUID, with providers, chunk and results. Hard: phases are separated by sleeps only, so calls arrive in any
phase; a second check replaces the map entry and the first one's deferred `Delete` removes it; a handler that panics leaves
the mutex locked. Correct when ended checks leave no entry, nobody reports to an empty list, every check ends.

**Storage among providers** (`core/commands/addc.go`, `add.go`, `del.go`, `casper/restapi`, `casper/validation/pinger.go`,
`serverhandler.go`, `casper/sc`). The contract keeps which node lists which file and which are banned. Hard: a caller gives up
and the handler goes on; an upload asks one peer twice; two ping loops start the same replication; any call may fail, time out
or crash. Correct when a node to which others gave a file is listed for it only with the pin, an upload that reports success
left its copies, and a banned node's files come back to their number of copies.

**Mutable file system** (`mfs`, `core/commands/files`). A tree of directories with their cached children, locks and builders;
file descriptors; a republisher that records the root some time later. Hard: a change climbs from directory to directory with
only one lock at a time, and brings along what each has of its other children; a flush waits for a publish that may have
happened; `mv` is four steps. Correct when commands on different names do not disturb each other, an undisturbed flush records
what it flushes, and commands end.

**Repository and daemon** (`repo/fsrepo`, `repo/onlyone.go`, `core/builder.go`, `core/core.go`, `cmd/ipfs_server`,
`cmd/ipfs_client`, `core/corehttp`). The directory with its lock, api file, configuration, layout; in each process one
`FSRepo` shared by reference counting. Hard: commands decide where to run from files that change meanwhile; requests share
the configuration in memory; a daemon stops under its own requests; a crash leaves anything. Correct when one process owns
the datastore, nobody uses a closed repository, a serving daemon is announced, reported settings stay, everything ends.

**Files, directories, requests** (`importer`, `unixfs`, `casper/validation/validation.go`, `commands`). Pure algorithms with
many boundaries: offsets across leaves and subtrees, hash prefixes, arguments matched twice with two loops. Correct when they
give what the plain definition (bytes, a map, the line as typed) gives.

## Modules and code

Actions follow the source call by call: a guard is the code's condition or early return, and what a handler does under one
lock, with nothing in between that another goroutine could see, is one step. `PROJECT.json` maps each definition to its
lines. Definitions named after another with a suffix (`AskSession_live`, `MutPush`) stand before it and give it the form a
plausible bug would: each property of a run is violated by one of them.

### `Dag` and `PinGC`

`Walk(roots, readable)` is the least fixpoint that `EnumerateChildren`, `EnumerateChildrenAsync` and `FetchGraph` visit; a
block that cannot be read contributes no children, as the collector's `getLinks` has it for best-effort roots. It is defined
without recursion so that it can be proved about. A command is a sequence of actions; `pc[p]` says which comes next.

| action | code |
|---|---|
| `Start`, `Resolve`, `PinLock`, `PinLocked`, `Unlock` | a handler takes its locks in its order; `--progress` gives `PinLock` back before it pins |
| `PinBegin`, `PinFetch`, `PinFetchFails`, `PinCommit`, `PinDirect` | `pinner.Pin`: drop the direct pin, fetch, add |
| `FlushStore`, `FlushRecord`, `FlushFails` | `pinner.Flush`: store the state's nodes, then write the key; a crash may come in between |
| `Unpin`, `UpdateBegin`, `UpdateFetch`, `UpdateSwap` | `pinner.Unpin`, `pinner.Update` |
| `AddFile`, `AddRoot`, `AddFails`, `PinRoot` | `Adder.AddFile` under `PinLock`, `Finalize` and `PinRootUUID` without it |
| `MaybePauseForGC`, `PauseUnlock` | `maybePauseForGC`: pin and flush the root as it is, unlock, lock again |
| `UpdRemoveOld`, `UpdAddNew` | `upd`: the old root goes, the new root alone is stored |
| `RmLock`, `RmLocked`, `RmCheck`, `RmDelete` | `RmBlocks` |
| `GCRequest` ... `SweepEnd` | `gc.GC` and `ColoredSet`: announce, drain readers, mark, sweep block by block |
| `Restart` | the daemon dies; `setupNode` loads the state or starts with none |

A saved pin state (a root node, an empty node, two hash tries) is one block that holds the two sets. A fetch leaves the whole
graph, or part of it and an error. The sweep may end before it has deleted everything, which covers blocks that `AllKeysChan`
did not list and a cancelled context. The root of MFS is a constant. `dag put --pin`, `object put --pin` and `addc` pin as
`upd` does, with other locks, and are no commands of the model. An `add` is of one file; the root that a pause memoises is
then the empty directory. `NewPinner` is what follows when `LoadPinner` fails.

### `BlockMap` and `CachedStore`

`BlockMap` says that a question is answered with something that was possible between its start and its answer, where a key
may be either while a write of it is under way, after one that failed, and after an add and a delete that crossed. A store that
keeps its answers promises nothing of a key once calls about it have overlapped and one of them was a write (`doubtful`).
`CachedStore` has a goroutine's call as a record that says which keys its current pass is about and where it is: `AskBloom`,
`AskArc`, `AskArcToPut`, `ForgetArc`, `Lookup`, `Write`, `Erase`, `StoreFails`, `NoteRead`, `NoteAdd`, `NoteDelete`, `Mark`,
`Return`, one step per layer, and `RebuildNext`/`RebuildEnd` are the goroutine that fills the filter. Any calls overlap, and
`AddBlocks` asks for each key, puts them, and has the exchange put each again; `PutMany` and `Put` differ as in the code.
`possible`, `may`, `crossed` and `doubtful` are history variables that give the refinement its values (`Map == INSTANCE
BlockMap WITH ...`). Only presence is kept.

The set-ups are the Bloom filter alone and the ARC cache alone, as the package and its tests build them. The daemon has
neither: `DefaultCacheOpts` asks for none (`caching.go:23-25`), and where the configuration sets a `BloomFilterSize`,
`builder.go:183` gives `CachedBlockstore` the size without a number of hashes, which it refuses (`caching.go:40`). What it has,
the datastore under the block service, is the first set-up until the filter is active. With `QueryFails = TRUE` a listing that
ends in an error is taken for complete, and the filter denies blocks that are there.

### `BitswapEngine`, `WantManager`, `BitswapSession`

*Engine.* `Want`/`WantEnd`, `Cancel`/`CancelEnd` are `MessageReceived` up to and from its call to the queue, with the ledger
locked in between; `AddBlock`, `AddBlockVisit`, `AddBlockEnd` the walk over the ledgers under `Engine.lock`, after the block's
`Put`. `Offer`, `Pop`, `WorkSignal`, `Tick`, `Envelope`, `GetFails`, `FailedDone` are the engine's goroutine, `MessageSent`
and `Sent` a task worker. A peer may cancel at any time, also what it has not asked for or has cancelled before; `recancelled`
is a history variable with the peers whose cancel met a task that was trash already. `Pop` may take any task of the partner it
chooses, which covers every priority. `Rewants` says whether a peer may ask again for a block while its cancelled or sent task
is still about, `Deletes` which blocks may leave; `WantQueued` speaks of blocks that stay.

*Want manager.* `WantBlocks`, `Tick`, `CancelWants` are what sessions send to the event loop, `Connect`, `Break`,
`Disconnect` the network's notifications; `TakeWork`, `Open`, `OpenFails`, `Send`, `SendFails` the goroutine of a queue,
`OldSends` and `OldEnds` one that outlives its queue, `Deliver` the partner, `BlockLost` a block that never comes. An entry of
a want list is an object that the lists share, named here for the list it was made for. `asked` and `missed` are history
variables: `missed` holds the keys of messages that the code drops when a stream cannot be opened.

*Sessions.* `NewSession`, `ContextDone`, `LoopEnds`, `Removed`, `Tick` are a session's goroutine; `Begin`, `NewReqs`,
`FetchEnds`, `Take`, `Close`, `CancelKeys`, `Abandon` a request; `Arrive`, `PutBlock`, `LockSessions`, `AskSession`,
`UnlockSessions`, `SendBlock`, `CancelWant`, `Delivered` the goroutine of `receiveBlockFrom`. A meeting on an unbuffered
channel is one step of both. A key that arrives otherwise while it waits may take the live keys past the limit, as in the
code. Left out: provide workers, and blocks put locally between a look-up and its subscription.

### `Validation`

`checks` holds every `RunningCheck` with the goroutine that made it, `uuidProvMap[n]` the one that node n's handlers see. A
sleep may end at any time, since a call may be slower than it. A call may be answered, lost, or time out at its caller while
the handler still runs. `RegisterRaces` is the append without the mutex (`server.go:96`) against the handler's: either of
the two may be lost. A registration that finds no chunk yet panics with the mutex locked (`server.go:160`): `stuck` says so,
and later handlers never return. A chunk is named by the check that drew it. `Unusable` has the nodes
whose address an answering provider cannot parse or resolve: `Reached` are the others in its list, whom it sends its sum to, and
`NobodyToAnswer` is `rc.nodes[0]` of an empty list, which ends its daemon.

### `Providers`

A caller (`Upload`, `Delete` or a ping loop) walks a list of peers with `Dial`, `GiveUp`, `Skip`; the handler it has called
goes through its commands with `CopyIn`, `PinFile`, `Confirm` (`SendUploadQuery`), `Unpin`, `RemoveName`, `RemoveBlock`,
`SpaceFreed` (`SendDeleteQuery`), whether or not the caller still waits. A web user's `add` and `del` (`casper/restapi`) run in
a provider: `WebUpload` stores the file, `WebConfirm` confirms it to the contract, then `WebPin` pins it and sends it to the
peers the user names, all at once (`add.go:311-357`; `addc.go:395` has the same order); `WebDelete` and `WebRemove` unpin and
remove it and tell nobody (`del.go:30-50`). `PingFails`, `Replicate`, `ScanEnds`, `PingerStops`
are the ping loop and its replications. The contract is external: `list`, `banned` and the answers `Lists`, `Room` are what
its callers rely on. `Starts` gives the files already stored and the nodes that are down.

### `Mfs`

The files are in directories (`Dirs`) of the root's directory. `link` has what each directory links in its own dirbuilder, `top`
what the root's has of them, and `cache` the file objects, which may be ahead of both. `Look`, `Add`, `Open`, `LockDesc`,
`FlushUp`, `CloseChild`, `CloseTop`, `Update`, `Unlock` are a write on its way up, one step per directory lock: a directory
hands up its own links (`Part`), and the root's takes those of the caller alone. `Unlink`, `GetNode`, `MvRead`, `MvClear`,
`MvAdd`, `MvRemove` are the name commands; `files flush /` is `GetNode`, `SyncDir` for one directory after the other under
the lock of the root's, and `SyncEnd`. `WaitPub`, `TakeToken`, `TimerFires`, `TakeOffer`, `Published` are the republisher with
its unbuffered channels. The content of a file is the set of writes in it. Left out: `mkdir`, `chcid`, readers, a publish that
fails, a crash, `Root.Close` against `Run`; a directory reads its files in one step. Noted while modelling: `files mv` of a
name onto itself removes the file; a flush of a file records a root whose other directories may be older than their caches.

### `Repo`, `Repo_promises`, `RepoFsck`

`StartDaemon`, `Decide`, `Probe`, `OpenDaemon`, `InitConfig`, `InitSpec`, `OpenKeyspace`, `BuildNode`, `Listen`,
`SetAPIAddr`, `Serve`, `Interrupt`, `StopServing`, `Teardown`, `TornDown`, `Exit` are a daemon's life; `StartCommand`,
`Send`, `Accept`, `RunHere`, `OpenFor`, `Set`, `AddBegins`, `AddRefills`, `AddSaves`, `Use`, `Shutdown`, `Edit`, `CloseFor` a
command, in the daemon or on its own. `Crash` may come at any step. `OnlyOne`'s reference counts are `repo[p].refs`; the
steps of the last `Close` (`RemoveApi`, `CloseDatastore`, `Unlock`) are apart. The probe of the lock by `LockedByOtherProcess`
takes it, so it can make another's open fail. Left out: migrations, datastore mounts, the flock itself; spec and version are
written as one step. Noted while modelling: an error of the datastore's `Close` returns without unlocking;
`setupIpnsRepublisher` (`core/core.go`) parses `RepublishPeriod` where it sets the record lifetime.

### `Unixfs`, `FileDag`, `FileDagFuse`, `ByteFile`; `Hamt`, `NameMap`; `Request`; `Reply`

Nodes are values: a link holds what it names. `BalancedLayout`, `TrickleLayout`, `TrickleAppend`, `Modify`, `ExpandSparse`,
`DagTruncate`, `SeekRead`, `GetSlice` are recursive, as the code is; `FileDag` runs them as a descriptor does, with its write
buffer, and is shown to be a `ByteFile`. `Liberties` names cases outside the commands' own use that break this: an append to a
file inlined in its root, a reader placed exactly at the end. `Hamt` is a directory as `dirbuilder.go` has it, with children
of a loaded shard read one by one, shown to be a `NameMap`; hashes longer than what is cut into pieces are not told apart.
`Request` parses a command line and either runs or sends it, where the daemon parses it again; words are members of a small
set. `Reply` is the command's goroutine, the handler and the client's goroutine between one answer and its reader: `Yield`,
`Ends`, `Copied` and `Panics` (which `ServeHTTP` recovers from) in the daemon, where `ContextEnds` is a time-out or a stop of
the node, `Breaks` on the way, `Decode`, `Take`, `GivesUp`, `ReadFails`, `Reports` and `ClientStops` in the program. The four
share nothing, and `MCParts` runs them side by side.

## Runs

| run | instance | checks | distinct states |
|---|---|---|---|
| `pins_locked` | two clients, three commands, a collector, two files over one leaf; pins, unpins, `block rm`, `del` | `TypeOK`, `PinsComplete` | 261,564 |
| `pins_crash` | the same with `upd`, and one crash anywhere | `PinStateOnDisk`, `AckedPinsSurvive` | 1,028,705 |
| `pins_live` | two commands of those that take the locks in different orders, and collections | `CollectionEnds`, `CommandsEnd` | 119,247 |
| `cache_map` | two goroutines, two keys, the Bloom filter or an ARC cache of one entry, rebuilds, one failure or crash | `BloomConclusive`, `ImplementsMap` | 1,115,754 |
| `engine` | two peers, two blocks, two workers, three messages, one put | `StartedOnce`, `RequestsCounted`, `WantQueued`, `WantsServed` | 499,201 |
| `wants_told` | one key, two sessions, two partners, faults of dialing and sending | `ListsTrack`, `ToldAll`, `WantsReach`, `CancelsReach` | 162,395 |
| `session_fetch` | two keys, a session with limit one, two requests, one delivery at a time | `Tracked`, `CallsEnd`, `BlocksReach`, `LiveTold` | 253,684 |
| `validation` | two nodes, one of them with an unusable address, two checks, one registration | `MapClean`, `ReportHasTarget`, `ChecksEnd` | 324,554 |
| `providers_copies` | three nodes, one file in two copies, a client or a web user, two pingers, one fault | `RecordAgrees`, `UploadedCopies`, `Rehomed` | 618,360 |
| `mfs_tree` | three names in two directories; any two commands, or two changes and a flush | `NamesApart`, `FlushHeals`, `CommandsEnd` | 242,315 |
| `repo_share` | two daemons, two commands, one crash, interrupt or failure | `DatastoreOwned`, `Announced`, `NoUseAfterClose`, `SettingsKept`, `Settles` | 704,514 |
| `parts_apart` | a file of up to 7 bytes; a directory of 4 names; lines of up to 3 words for 12 commands; answers of 3 values | `SlicesExact`, `SameRequest`, `EndsTrue`, `ImplementsFile`, `ImplementsNames` | 255,830 |

All of them hold. Each property is stated, with the code it is about, above its definition.

### Bounds

A bound counts what may still be done (`MaxCommands`, `MaxFaults`, `MaxChecks` ...), so that every interleaving of so many
operations is explored; it never limits what a single operation does. They are chosen so that each hazard in `PROJECT.json`
can happen: two commands and a collection are what a lost pin takes, one fault between two steps of one call and a second
call are what a stale record takes. Data is as small as the properties can tell apart: two files that share one leaf, two keys
of which one is cached, a file with `Chunk = 2`, `MaxLinks = 2` and `LayerRepeat = 2` (`layerRepeat` in the code, 4 there),
whose seven bytes make three levels in either layout and a trickle layer that is repeated. Checked once by hand with larger
bounds: sessions with two deliveries (1.4 million states).

Clients, keys and goroutines that differ in nothing are declared symmetric in `pins_locked`, `pins_crash` and `cache_map`,
which have no liveness properties. Deadlock is checked in the runs of `PinGC` and `BitswapEngine`, whose ticker and collector
always have a step; in the others the bounded work runs out and the system rests, so the check is off.

### Promises that the code does not keep

These are no runs: they are ways to see what a promise depends on, and each ends in a counterexample. Run TLC on the cfg
named, after the change given, with the property in place of those listed.

| promise | how to see it fail | why |
|---|---|---|
| `WantQueued` | `BitswapEngine_requeue.cfg` | a want for a block whose cancelled or sent task is still about is dropped with it |
| `RequestsExact` | the same | a cancel of a task that is trash already takes `requests` down once more |
| `AllAsked` | `Validation_unasked.cfg` | a provider that registers first finds no list, or the two appends race |
| `AddedPinned`, `PinsComplete` | `PinGC_pause.cfg` | a pause for the collector pins the root made so far; `PinRoot` comes after `PinLock` is given back |
| `PinsComplete` | the same, `Kinds = {"pinAddProgress"}` or `{"upd"}` | pins without `PinLock`, or after the old root has gone |
| `PinStateOnDisk` | `PinGC_crash.cfg`, `Kinds = {"pinAdd", "pinRm"}` | `pin rm` flushes without `PinLock`: a sweep deletes what it stores |
| `AckedPinsSurvive` | the same, `Kinds = {"pinAdd", "pinUpdate"}` | `pin update` reports without a flush |
| `Resent` | `WantManager_resent.cfg` | nothing repeats a want to a partner that stays connected |
| `SessionsEnd` | `BitswapSession_fetch.cfg`, `Calls <- NoCalls` | `SessionsForBlock` holds the lock that an ending session waits for, and waits for that session |
| `WritesKept` | `Mfs_writes.cfg` | `File.Open` takes the node before it waits for the descriptor lock |
| `InitRecovers` | `Repo_recovers.cfg` | a crash between config and version file leaves a directory that `init` takes for complete |
| `BootstrapKept` | `Repo_share.cfg`, `Kinds <- MCTwoAdd` | read, change, write of the shared list without a lock |
| `EditKept` | the same, `Kinds <- MCEdit` | a daemon writes the configuration that it read at its start |
| `IdentityKept` | the same, `Initers = {d1, d2}` | two first starts both write a configuration |
| `NoStaleApi` | the same, `Hurts = {"interrupt", "fail"}` | a daemon stopped between its node and `serveHTTPApi` writes the api file after the cleanup |
| `DatastoreOwned` | the same, `FsckSpec`, `Kinds <- MCFsck` | `repo fsck` removes a lock that is held |
| `ArcConclusive` | `CachedStore_arc.cfg` | the ARC cache notes an answer that a write has overtaken, and keeps it |
| `BloomConclusive` | `CachedStore_map.cfg`, `QueryFails = TRUE` | a listing that ends in an error is taken for complete |
| `SlicesExact`, `ImplementsFile` | `Parts_apart.cfg`, `Liberties <- MCInline` | children are added to a root that has data of its own |
| `ImplementsFile` | the same, `Liberties <- MCEnd`, or `MountSpec` | a reader placed at the end of a file with children stays where it was; a mount's write elsewhere moves the position on from where it was |
| `CutsFit` | the same | a cut on the boundary of the last child finds none to cut |
| `ImplementsNames` | the same, `Absent = TRUE` | removing a name that is not there from a sharded directory |
| `Canonical` | the same | a shard left with one entry is not folded into its parent |
| `RefusalsTold` | the same | a body that is not JSON is read before its status |
| `EarlyEndsTold` | the same | a panic that the handler recovers from, or a listing whose context ends, looks like a complete answer |

### Fairness

* `PinGC`, `FairSpec`: goroutines run and a fetch ends, with the graph or an error (a request's context is cancelled with it,
  which is assumed); strong fairness for a goroutine that waits for a lock, as Go's mutexes hand over to one that has waited.
* `CachedStore`: none, its properties are safety.
* `BitswapEngine`: handlers, `AddBlock`, the engine's goroutine, the ticker and the workers run. The signal for new work owes
  nothing, nor do the peers.
* `Validation`: goroutines run, sleeps end, a call ends by the socket's time-out. A handler may hang.
* `WantManager`: the queue's goroutine runs and the network delivers; `TickSpec` adds the timer.
* `BitswapSession`: the loops of sessions, requests and deliveries run, and neither `select` nor the lock passes one over for
  ever. Nothing makes a block arrive or a caller give up.
* `Providers`: each caller and pinger goes on. Calls may fail or time out, within `MaxFaults`.
* `Mfs`: commands and the republisher run. `Repo`: processes go on (`Work`); nothing makes anyone start or stop a daemon.

## Proofs

Each theorem is about `Spec` for every value of the constants that its module's named assumption allows, and these only give
the constants their types and keep names apart. Sessions and partners of `WantManager`, nodes and files of `Providers` are
finite too, as their lists and copies are counted. A hypothesis beyond that is written into the theorem and given here. Every
component has an invariant that its steps preserve, `IInv` (`CheckInv` of `Validation`, `ReplyInv` of `Reply`); it is stronger
than the properties, which forget where a call is. Those of `BitswapSession`, `BitswapEngine`, `CachedStore`, `Mfs`,
`Providers`, `Repo`, `Reply`, `Validation` and `WantManager` can be evaluated by TLC, and hold in the instance of the
component's run.

* `PinGC_proofs`. `TypeCorrect` needs `HasCommand` (a client that is not idle runs a command);
  `LocksExclude` adds who owns the write side. `SavedStateKept` and `ReportedPinsSurvive` hold under `FlushersLock`: the
  commands in use that flush do so under `PinLock`. `StateInv` says that the key names the one internal pin, that a state
  about to be recorded is stored, and that the marks of a sweep hold it; `FlushInv`, that a state about to be recorded is the
  current one. `PinnedStays` holds under `PinnersLock`: commands that pin do so under `PinLock`, and nothing crashes.
  `PinsInv` adds that the marks hold the graphs of all recursive pins from when they are made to the end of the sweep, and
  that what a command has fetched stays until it pins it; `Walk` is monotone and distributes over unions of roots
  (`GraphMonotone`, `GraphUnion`). Both hypotheses are needed: the table above shows what the other commands do.
* `CachedStore_proofs`. `BloomIsConclusive` and the refinement `IsABlockMap` hold for any overlap of calls, if no listing is
  cut short (`QueryFails = FALSE`). `Typing` also needs finitely many keys. `IInv` says of each call, by the step it is at
  (`Right`), that what it holds is possible for the map at that moment: a question's answer was possible since it began (`may`),
  an add has its keys stored or possible or has been crossed; `Overlaps` and `Doubts` say what has been crossed and which keys
  are doubtful, and `ArcInv` that an entry of the cache for any other key is true. `BloomInv` adds the keys that the running
  scan will still bring. The refinement takes `IInv` as known, and goes step by step: what a step does to `possible` is one
  step of `BlockMap` or none.
* `BitswapEngine_proofs`. `EachTaskStartsOnce` and `RequestsAreCounted` hold for all peers, blocks and workers, with peers that
  ask again and cancel what they like. They rest on `Hands` and `Counted` (who holds a task, and that it is then active), and
  on `Requests`: the count is at most the number of tasks that are not trash, and is that number but for `recancelled`.
  `WantsAreQueued` holds if no peer asks again for what is being sent (`Rewants = FALSE`): `Tasked` says that a want of a
  stored block has a task, or that `AddBlock`, which holds the engine's lock, has not reached its ledger yet, or that a
  handler is about to queue it.
* `WantManager_proofs`. `ListsTrackSessions` and `AllIsTold`. `Shared` says whose entry a list holds, `Tracking` that the entry
  tracks the sessions the list does. `Told` looks ahead: what a partner will know of a key after the messages on the stream,
  the one in hand and the pending one is what its queue's list says, but for missed keys; merging a change into a message,
  sending it, losing it and delivering it all keep that sum. `Resting` gives that a quiet queue has nothing pending.
* `BitswapSession_proofs`. `KeysAreTracked` and `NoWantIsStray`, for any requests, sessions and deliveries. `Begun` says that
  requests are made of sessions that run or have run, `Carries` that a delivery has its key, `Told` extends `NoStray` to
  sessions that have ended: what is in the want manager for a session is live in it, or a delivery is about to cancel it.
  `Tracked` is kept by a session's step because a key leaves `live` and `tofetch` only with the delivery that publishes it
  (`KeysLeave`, `DeliveryPublishes`) or by a cancel of a request that shared it (`CancelsStay`, `RobbedStays`).
* `Repo_proofs`. `OneOwner`, `DaemonsAreAnnounced`, `ReferencesAreGood` for any processes and crashes; `SettingsStay` if one
  process at most initialises the directory (`OneInitialises`). `Counted` says that the references of a process are its own
  and one for each job in it, `Locked` that who has the repository open, or is still closing it, has the lock, `Named` when
  the api file stands, `Settings` that the configuration in memory is that of the file but for an editor's writes. Under the
  same hypothesis `IdentityStays` gives `IdentityKept`, which two first starts at once break: `SetConfig` lays the identity in
  memory over the file's, and `Settings` says that an open repository has read the same. `fsck` is in `RepoFsck` and not
  in `Spec`.
* `Repo_proofs`, of `Reply`. `AnswersEndTrue`, for any number of values. The body is a sequence of values that may end in a
  marker of how it ended (`WireInv`). `ReadInv` is the sum that every step keeps while the answer is read: what the reader
  has, what the decoding goroutine has and what is on the wire is what the command has put out, unless the body was cut; and a
  body ends plainly only when the command ended well, with everything put out or its context at an end, or panicked
  (`TaskInv`). `EndInv` then needs the client's half alone: it ends without an error only where it has seen such an end, or
  was stopped.
* `Casper_proofs`, of `Providers`. `RecordAgreesAlways` and `CopiesAreMade`, for any ping loops and faults. A caller that
  gives up leaves its handler running, so the invariant is about handlers: `CallInv` says that a handler runs a command of its
  caller's trade, for a step its caller has reached, and that it is the one of this step if the caller still stands there, at
  a peer that has not been counted. With it `CopiesInv`, that an upload counts different nodes, all of them listed, is kept by
  every answer, late ones included. `PinInv` says that who is listed or about to confirm has the pin, the node of a web user
  apart, `QuietInv` that where nothing has failed a name or pin without a listing is that of a handler on its way to one. All
  are about files that nobody has asked to delete.
* `Casper_proofs`, of `Validation`. `Typing`, `EntriesEnd`, `ReportsReach`. `Entered` says that an entry of the map belongs to
  a goroutine that has yet to end, `Roles` which goroutine a check has, `Listed` that the list a check sends is not
  empty and that who answers has taken it over, `Traced` that a node nobody can use is in a list only as the one who asks.
* `Mfs_proofs`. `NamesApartAlways` and the action property `FlushAloneHeals`, for any commands, names and
  directories. `NamesApart` looks at names that no command is about, which says nothing of the way there: `NameInv` says for
  each name that is not shared, and for each step of the one command about it, what its directory, its cached file and the
  command's node hold (`AtName`, `AtTo`). What makes others harmless is that a step not about a name changes its link to
  what its cached file has, if at all (`View`): that holds of each call on the tree, and one lemma per call says so. `ObjInv`
  keeps a file object to one name, `ShareInv` names that two commands are about to the shared ones. For the flush, `PubInv`
  says what the republisher has is no newer than the root, and the same if as new, and `AloneInv` that a command which met no
  other brings up what it flushes (`Flushed`) as it is.

**Only model-checked.** Liveness, which needs `ENABLED` and fairness. What the recursive operators of `Unixfs`, `Hamt` and
`Request` compute: the provers neither unfold them nor do induction over data, so `SlicesExact`, `SameRequest`,
`ImplementsFile` and `ImplementsNames` stay with TLC on bounded inputs. No other invariant, action property or refinement of a
run is without a theorem.

## Not modelled

* Codecs, protobuf and CBOR forms, multihashes, tar and the file store, which is off by default; directories are sharded only
  when an option says so. Raw leaves and the lengths a crafted node may claim.
* Gateways and their answers, the REST interface but for the `add` and `del` it runs, file sharing, naming and the reprovider,
  the P2P commands, migrations.
* Vendored code, tests, assets, and libp2p, whose streams are what `WantManager` and `BitswapEngine` assume of them.
* The contract: `list`, `banned` and its answers are external, as its callers use it.
* Of a request: the path of subcommands, `-` and combined short flags, passwords, paths of Windows.
* Commands that `use` a node without a reference of their own while it stops; `ds.Close` that fails, after which the lock stays;
  `WriteConfigFile`, whose deferred `Close` renames the new file also after a write that failed.

Noted beside the models: `SetConfigKey` overlays a map and loses unknown nested keys; an object linked below itself under a
UUID makes the copy of a graph loop; patching an object that has a UUID keeps its CID; `tar add` loses the files of a
directory whose entry comes after them; a scan for banned nodes that goes by index may pass over a file when the list
changes; a delete asks four peers at most and reports success whatever they answer; a flush that others overlap may return
before its own tree is recorded; `VerifyTrickleDagStructure` does not accept what `TrickleAppend` leaves.

## Plan

What is left is breadth, and proofs that take another form of the model:

1. `Hamt` over sets of prefixes and not nested shards, which needs no recursion, to prove `ImplementsNames` of it; the price
   is that `modifyValue`'s collapse, one call per level in the code, becomes one condition on all levels.
2. The commands that read or write single nodes (`object`, `dag`, `swarm`, `dht`, the writing gateway), which keep no state of
   their own but meet the pinner and the collector.
3. `PinGC` composed with `Mfs`: the root that the collector takes as best effort is one that a flush may be replacing.
