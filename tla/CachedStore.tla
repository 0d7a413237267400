---------------------------- MODULE CachedStore ----------------------------
(***************************************************************************)
(* The block service of a node that is not connected, the two caches in    *)
(* front of its block store, and the store: blockservice/blockservice.go,  *)
(* exchange/offline/offline.go, blocks/blockstore/arc_cache.go,            *)
(* bloom_cache.go, caching.go and blockstore.go.                           *)
(*                                                                         *)
(* A call passes the Bloom filter, the ARC cache and the datastore in      *)
(* turn, one step each, while other calls do the same: the caches take no  *)
(* lock, and not every writer takes the pin lock (block.go:277,            *)
(* add.go:206), so any two calls may overlap.  Only the presence of a      *)
(* block is kept.                                                          *)
(*                                                                         *)
(* possible, may, crossed and doubtful are history variables: they record  *)
(* what BlockMap allows the calls under way to answer, and no step reads   *)
(* them.                                                                   *)
(***************************************************************************)
EXTENDS Naturals, FiniteSets

CONSTANTS
    Keys,
    Clients,        \* goroutines that call the block service
    Setups,         \* cache options: which caches are built
    ArcSize,        \* entries the ARC cache holds
    QueryFails,     \* may the datastore query behind AllKeysChan fail in the middle
    MaxFaults       \* bound: calls of the datastore that fail and crashes of the process

ASSUME CachedStoreAssumption ==
    /\ Setups \subseteq [arc : BOOLEAN, bloom : BOOLEAN]
    /\ ArcSize \in Nat \ {0}
    /\ QueryFails \in BOOLEAN
    /\ MaxFaults \in Nat

VARIABLES
    setup,          \* the options this node was built with
    stored,         \* keys in the datastore
    arc,            \* arc[k]: what the ARC cache knows of k
    bloom,          \* keys the Bloom filter answers "perhaps" for
    active,         \* bloomcache.active
    scan,           \* Rebuild: keys AllKeysChan has not passed yet
    call,           \* call[c]: the call of c and where it is
    possible, may, crossed, doubtful,   \* history
    faults          \* counter of the bound

caches == <<arc, bloom, active, scan>>
history == <<possible, may, crossed, doubtful>>
vars == <<setup, stored, caches, call, history, faults>>

\* A call: what was asked, the pass through the layers it makes now (pass, part),
\* the keys it looks up before and puts again after, and what the pass has found.
Idle == [op |-> "idle", keys |-> {}, pass |-> "none", part |-> {}, look |-> {}, again |-> {},
         found |-> FALSE, at |-> "idle", out |-> "none"]

TypeOK ==
    /\ setup \in Setups
    /\ stored \subseteq Keys /\ bloom \subseteq Keys /\ scan \subseteq Keys
    /\ arc \in [Keys -> {"none", "yes", "no"}]
    /\ Cardinality({k \in Keys : arc[k] # "none"}) <= ArcSize
    /\ active \in BOOLEAN
    /\ call \in [Clients -> [op : {"idle", "has", "get", "add", "del"}, keys : SUBSET Keys,
                             pass : {"none", "has", "get", "put", "del"}, part : SUBSET Keys,
                             look : SUBSET Keys, again : SUBSET Keys, found : BOOLEAN,
                             at : {"idle", "bloom", "arc", "remove", "store", "note", "mark", "reply"},
                             out : {"none", "yes", "no", "ok", "missing", "error"}]]
    /\ possible \in [Keys -> SUBSET BOOLEAN] /\ may \in [Clients -> SUBSET BOOLEAN]
    /\ crossed \in [Clients -> SUBSET Keys] /\ doubtful \subseteq Keys
    /\ faults \in 0 .. MaxFaults

\* The ARC cache keeps answers; the Bloom filter only keeps what has been added.
Map == INSTANCE BlockMap WITH
    keeps <- setup.arc,
    asks <- [c \in Clients |-> [op |-> call[c].op, keys |-> call[c].keys, out |-> call[c].out]]

\* CachedBlockstore wraps the store as the options say; the caches start empty
\* and bloomCached starts Rebuild.
Init ==
    /\ setup \in Setups
    /\ stored \in SUBSET Keys
    /\ arc = [k \in Keys |-> "none"]
    /\ bloom = {} /\ active = FALSE
    /\ scan = IF setup.bloom THEN Keys ELSE {}
    /\ call = [c \in Clients |-> Idle]
    /\ possible = [k \in Keys |-> IF k \in stored THEN {TRUE} ELSE {FALSE}]
    /\ may = [c \in Clients |-> {}]
    /\ crossed = [c \in Clients |-> {}] /\ doubtful = {}
    /\ faults = 0

-----------------------------------------------------------------------------
(* Helpers *)

\* The key of a pass that has one.
Key(c) == CHOOSE k \in Keys : k \in call[c].part

\* arccache.addCache: when the cache is full some other entries make room.
Remember(ks, what) ==
    /\ arc' \in {[k \in Keys |-> IF k \in ks \cap kept THEN what
                                 ELSE IF k \in kept THEN arc[k] ELSE "none"] : kept \in SUBSET Keys}
    /\ LET size == Cardinality({k \in Keys : arc'[k] # "none"})
           full == Cardinality(ks \cup {k \in Keys : arc[k] # "none"})
       IN  size = IF full <= ArcSize THEN full ELSE ArcSize

\* What becomes of a call.
Step(c, x) == call' = [call EXCEPT ![c] = x]

\* Where a pass begins, and where it goes on below the Bloom filter.
Below == IF setup.arc THEN "arc" ELSE "store"
Top == IF setup.bloom THEN "bloom" ELSE Below

\* A put begins at the ARC cache, as the Bloom filter only notes it on the way back.
Asked(op, keys, pass, part, look, again) ==
    [op |-> op, keys |-> keys, pass |-> pass, part |-> part, look |-> look, again |-> again,
     found |-> FALSE, at |-> IF pass = "put" THEN Below ELSE Top, out |-> "none"]
At(x, at) == [x EXCEPT !.at = at]
Answered(x, out) == [Idle EXCEPT !.op = x.op, !.keys = x.keys, !.at = "reply", !.out = out]
Looking(x, k) == [x EXCEPT !.found = FALSE, !.part = {k}, !.look = @ \ {k}, !.at = Top]
Putting(x) == [x EXCEPT !.found = FALSE, !.pass = "put", !.part = x.keys, !.at = Below]
PuttingAgain(x, k) == [x EXCEPT !.again = @ \ {k}, !.part = {k}, !.at = Below]
Passing(x, good) == [x EXCEPT !.part = good, !.at = IF good = {} THEN "mark" ELSE "store"]
AskingAgain(x) == [x EXCEPT !.found = FALSE, !.again = {}, !.at = Top]
Noting(x, found) == [x EXCEPT !.found = found, !.at = "note"]

Move(c, at) == Step(c, At(call[c], at))
Say(c, out) == Step(c, Answered(call[c], out))

\* A write succeeds.
Succeed(c) == Say(c, "ok") /\ Map!Settles(c)

\* AddBlocks asks Has of each block, whatever the answer, and then puts them all.
LookOrPut(c) ==
    \/ call[c].look = {} /\ Step(c, Putting(call[c]))
    \/ \E k \in call[c].look : Step(c, Looking(call[c], k))

Found(c) ==
    /\ IF call[c].op = "add" THEN LookOrPut(c) ELSE Say(c, "yes")
    /\ UNCHANGED possible

\* ErrNotFound.  GetBlock of the block service then asks the exchange, which reads
\* the same store once more and has the last word.
NotFound(c) ==
    /\ \/ call[c].op = "get" /\ call[c].again # {} /\ Step(c, AskingAgain(call[c]))
       \/ call[c].op = "add" /\ LookOrPut(c)
       \/ call[c].op = "del" /\ Say(c, "missing")
       \/ call[c].op \in {"has", "get"} /\ (call[c].op = "get" => call[c].again = {}) /\ Say(c, "no")
    /\ UNCHANGED possible

-----------------------------------------------------------------------------
(* Calls begin *)

\* Has of the block store and GetBlock of the block service.
BeginRead(c, op, k) ==
    /\ call[c] = Idle
    /\ Step(c, Asked(op, {k}, op, {k}, {}, IF op = "get" THEN {k} ELSE {}))
    /\ Map!Begins(c, op, {k})
    /\ UNCHANGED <<setup, stored, caches, faults>>

\* AddBlock of one block, AddBlocks of several.
BeginAdd(c, ks) ==
    /\ call[c] = Idle
    /\ IF Cardinality(ks) = 1
         THEN Step(c, Asked("add", ks, "put", ks, {}, ks))
         ELSE \E k \in ks : Step(c, Asked("add", ks, "has", {k}, ks \ {k}, ks))
    /\ Map!Begins(c, "add", ks)
    /\ UNCHANGED <<setup, stored, caches, faults>>

\* DeleteBlock.
BeginDelete(c, k) ==
    /\ call[c] = Idle
    /\ Step(c, Asked("del", {k}, "del", {k}, {}, {}))
    /\ Map!Begins(c, "del", {k})
    /\ UNCHANGED <<setup, stored, caches, faults>>

-----------------------------------------------------------------------------
(* The Bloom filter and the ARC cache, on the way down *)

\* bloomcache.hasCached: an active filter that does not hold the key is conclusive.
BloomSaysNo(k) == active /\ k \notin bloom

AskBloom(c) ==
    /\ call[c].at = "bloom"
    /\ IF BloomSaysNo(Key(c))
         THEN NotFound(c)
         ELSE Move(c, Below) /\ UNCHANGED possible
    /\ UNCHANGED <<setup, stored, caches, may, crossed, doubtful, faults>>

\* arccache.hasCached in Has, Get and DeleteBlock.
AskArc(c) ==
    /\ call[c].at = "arc" /\ call[c].pass # "put"
    /\ IF arc[Key(c)] = "no" THEN NotFound(c)
       ELSE IF arc[Key(c)] = "yes" /\ call[c].pass = "has" THEN Found(c)
       ELSE Move(c, IF call[c].pass = "del" THEN "remove" ELSE "store") /\ UNCHANGED possible
    /\ UNCHANGED <<setup, stored, caches, may, crossed, doubtful, faults>>

\* Put and PutMany pass on the blocks the ARC cache does not know to be stored.
AskArcToPut(c) ==
    /\ call[c].at = "arc" /\ call[c].pass = "put"
    /\ Step(c, Passing(call[c], {k \in call[c].part : arc[k] # "yes"}))
    /\ UNCHANGED <<setup, stored, caches, history, faults>>

\* DeleteBlock invalidates the entry before it deletes.
ForgetArc(c) ==
    /\ call[c].at = "remove"
    /\ arc' = [arc EXCEPT ![Key(c)] = "none"]
    /\ Move(c, "store")
    /\ UNCHANGED <<setup, stored, bloom, active, scan, history, faults>>

-----------------------------------------------------------------------------
(* The datastore *)

\* Has or Get of the block store answers.
Lookup(c) ==
    /\ call[c].at = "store" /\ call[c].pass \in {"has", "get"}
    /\ IF setup.arc THEN Step(c, Noting(call[c], Key(c) \in stored)) /\ UNCHANGED possible
       ELSE IF Key(c) \in stored THEN Found(c)
       ELSE NotFound(c)
    /\ UNCHANGED <<setup, stored, caches, may, crossed, doubtful, faults>>

\* Put, or a batch that PutMany commits.
Write(c) ==
    /\ call[c].at = "store" /\ call[c].pass = "put"
    /\ stored' = stored \cup call[c].part
    /\ Move(c, IF setup.arc THEN "note" ELSE "mark")
    /\ UNCHANGED <<setup, caches, history, faults>>

Erase(c) ==
    /\ call[c].at = "store" /\ call[c].pass = "del"
    /\ stored' = stored \ call[c].keys
    /\ IF setup.arc THEN Step(c, Noting(call[c], Key(c) \in stored)) /\ UNCHANGED possible
       ELSE IF Key(c) \in stored THEN Succeed(c)
       ELSE NotFound(c)
    /\ UNCHANGED <<setup, caches, may, crossed, doubtful, faults>>

\* The datastore answers an error: nothing is cached; of a batch any part may
\* have been written.
StoreFails(c) ==
    /\ call[c].at = "store" /\ faults < MaxFaults
    /\ faults' = faults + 1
    /\ Say(c, "error")
    /\ IF call[c].pass = "put" THEN \E some \in SUBSET call[c].part : stored' = stored \cup some
                             ELSE UNCHANGED stored
    /\ UNCHANGED <<setup, caches, history>>

-----------------------------------------------------------------------------
(* The caches, on the way back *)

\* arccache: addCache after the store has answered.
NoteRead(c) ==
    /\ call[c].at = "note" /\ call[c].pass \in {"has", "get"}
    /\ Remember(call[c].part, IF call[c].found THEN "yes" ELSE "no")
    /\ IF call[c].found THEN Found(c) ELSE NotFound(c)
    /\ UNCHANGED <<setup, stored, bloom, active, scan, may, crossed, doubtful, faults>>

NoteAdd(c) ==
    /\ call[c].at = "note" /\ call[c].pass = "put"
    /\ Remember(call[c].part, "yes")
    /\ Move(c, "mark")
    /\ UNCHANGED <<setup, stored, bloom, active, scan, history, faults>>

NoteDelete(c) ==
    /\ call[c].at = "note" /\ call[c].pass = "del"
    /\ Remember(call[c].part, "no")
    /\ IF call[c].found THEN Succeed(c) ELSE NotFound(c)
    /\ UNCHANGED <<setup, stored, bloom, active, scan, may, crossed, doubtful, faults>>

\* AddTS: the bits of the keys, and with them perhaps those of others.
AddToBloom(ks) == \E others \in SUBSET Keys : bloom' = bloom \cup ks \cup others

\* Mutant: Put does not add the key to the filter.
Mark_unmarked(c) ==
    /\ call[c].at = "mark"
    /\ IF call[c].again = {}
         THEN Succeed(c)
         ELSE \E k \in call[c].again :
                /\ Step(c, PuttingAgain(call[c], k))
                /\ UNCHANGED possible
    /\ UNCHANGED <<setup, stored, caches, may, crossed, doubtful, faults>>

\* bloomcache.Put and PutMany add the keys once the layer below has stored them.
\* AddBlock and AddBlocks then hand each block to the exchange, which puts it again.
Mark(c) ==
    /\ call[c].at = "mark"
    /\ IF setup.bloom THEN AddToBloom(call[c].keys) ELSE UNCHANGED bloom
    /\ IF call[c].again = {}
         THEN Succeed(c)
         ELSE \E k \in call[c].again :
                /\ Step(c, PuttingAgain(call[c], k))
                /\ UNCHANGED possible
    /\ UNCHANGED <<setup, stored, arc, active, scan, may, crossed, doubtful, faults>>

Return(c) ==
    /\ call[c].at = "reply"
    /\ Step(c, Idle)
    /\ may' = [may EXCEPT ![c] = {}]
    /\ crossed' = [crossed EXCEPT ![c] = {}]
    /\ UNCHANGED <<setup, stored, caches, possible, doubtful, faults>>

-----------------------------------------------------------------------------
(* Rebuild of the Bloom filter, and restarts *)

\* AllKeysChan passes a key: the filter gets it if the datastore holds it.
RebuildNext ==
    /\ \E k \in scan :
        /\ scan' = scan \ {k}
        /\ IF k \in stored THEN AddToBloom({k}) ELSE UNCHANGED bloom
    /\ UNCHANGED <<setup, stored, arc, active, call, history, faults>>

\* Mutant: the filter is used while AllKeysChan still runs.
RebuildEnd_early ==
    /\ setup.bloom /\ ~active
    /\ active' = TRUE
    /\ UNCHANGED <<setup, stored, arc, bloom, scan, call, history, faults>>

\* AllKeysChan closes its channel, at the end of the query or when the query
\* fails, which it only logs; Rebuild cannot tell and the filter answers from now on.
RebuildEnd ==
    /\ setup.bloom /\ ~active
    /\ QueryFails \/ scan = {}
    /\ active' = TRUE
    /\ scan' = {}
    /\ UNCHANGED <<setup, stored, arc, bloom, call, history, faults>>

\* The process ends at any moment and starts again over the same datastore.
Restart ==
    /\ faults < MaxFaults
    /\ faults' = faults + 1
    /\ arc' = [k \in Keys |-> "none"]
    /\ bloom' = {} /\ active' = FALSE
    /\ scan' = IF setup.bloom THEN Keys ELSE {}
    /\ call' = [c \in Clients |-> Idle]
    /\ may' = [c \in Clients |-> {}]
    /\ crossed' = [c \in Clients |-> {}] /\ doubtful' = {}
    /\ UNCHANGED <<setup, stored, possible>>

Next ==
    \/ \E c \in Clients, op \in Map!Reads, k \in Keys : BeginRead(c, op, k)
    \/ \E c \in Clients, ks \in SUBSET Keys \ {{}} : BeginAdd(c, ks)
    \/ \E c \in Clients, k \in Keys : BeginDelete(c, k)
    \/ \E c \in Clients :
        \/ AskBloom(c) \/ AskArc(c) \/ AskArcToPut(c) \/ ForgetArc(c)
        \/ Lookup(c) \/ Write(c) \/ Erase(c) \/ StoreFails(c)
        \/ NoteRead(c) \/ NoteAdd(c) \/ NoteDelete(c) \/ Mark(c) \/ Return(c)
    \/ RebuildNext \/ RebuildEnd
    \/ Restart

Spec == Init /\ [][Next]_vars

-----------------------------------------------------------------------------
(* Properties *)

\* What the Bloom filter denies is not in the store: an active filter holds
\* every key that a write has put and no delete has touched ("not contained in
\* bloom is only conclusive answer bloom gives", bloom_cache.go).
BloomConclusive == active => \A k \in Keys : possible[k] = {TRUE} => k \in bloom

\* What the ARC cache says while nobody calls is so ("has respons to question:
\* is it contained", arc_cache.go:54).  Calls that have overlapped a write break it.
ArcConclusive ==
    (\A c \in Clients : call[c] = Idle) =>
        \A k \in Keys : /\ arc[k] = "yes" => k \in stored
                        /\ arc[k] = "no" => k \notin stored

\* The service over the caches and the store is a BlockMap: no call is told
\* anything about a block that was not so at some moment of the call, and what
\* a successful add or delete did holds for every call that starts after it,
\* unless an opposite write crossed it, or the node has an ARC cache and calls
\* about the block have overlapped a write.
ImplementsMap == Map!Spec
=============================================================================
