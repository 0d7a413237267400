------------------------ MODULE BitswapEngine_proofs ------------------------
(***************************************************************************)
(* Theorems about BitswapEngine for any peers, blocks, workers and bounds: *)
(* no task is in two hands, a partner's count of requests is right, and a  *)
(* want for a block that is here and stays has a task.                     *)
(*                                                                         *)
(* The last holds when a peer does not ask again for a block while an      *)
(* earlier request of it is still queued or being sent (Rewants = FALSE).  *)
(***************************************************************************)
EXTENDS BitswapEngine, FiniteSetTheorems, TLAPS

T(p, k) == [peer |-> p, cid |-> k]

\* Someone works on the task.
Held(p, k) == engine.task = T(p, k) \/ \E w \in Workers : work[w].task = T(p, k)

-----------------------------------------------------------------------------
(* The inductive invariant *)

Messages == [kind : {"none", "want", "cancel"}, cid : Blocks \cup {Nothing}, push : BOOLEAN]

\* TypeOK but for the counters, whose ranges follow from what they count.
Types ==
    /\ store \subseteq Blocks /\ adding \subseteq Blocks
    /\ scan \in [cid : Blocks \cup {Nothing}, left : SUBSET Peers, work : BOOLEAN]
    /\ wants \in [Peers -> SUBSET Blocks]
    /\ msg \in [Peers -> Messages]
    /\ live \in [Peers -> SUBSET Blocks] /\ trash \in [Peers -> SUBSET Blocks]
    /\ requests \in [Peers -> Int] /\ active \in [Peers -> Int]
    /\ activeBlocks \in [Peers -> SUBSET Blocks]
    /\ engine \in [at : {"offer", "pop", "wait", "get", "failed"}, task : Tasks, to : Workers \cup {Nothing}]
    /\ work \in [Workers -> [at : {"idle", "ready", "ledger", "send"}, task : Tasks]]

\* Who has a task in hand, and that the engine serves a worker that waits.
Hands ==
    /\ engine.task # NoTask <=> engine.at \in {"get", "failed"}
    /\ engine.at # "offer" => engine.to \in Workers /\ work[engine.to].at = "ready"
    /\ \A w \in Workers : work[w].task # NoTask <=> work[w].at \in {"ledger", "send"}

\* No task is in two hands.
Single ==
    \A w \in Workers : work[w].task # NoTask =>
        /\ work[w].task # engine.task
        /\ \A v \in Workers : v # w => work[v].task # work[w].task

\* What is in hand is active, and counted.
Counted ==
    \A p \in Peers :
        /\ IsFiniteSet(activeBlocks[p]) /\ active[p] = Cardinality(activeBlocks[p])
        /\ \A k \in Blocks : k \in activeBlocks[p] <=> Held(p, k)

\* A task is queued, marked or active.
Queued ==
    \A p \in Peers : /\ live[p] \cap trash[p] = {}
                     /\ (live[p] \cup trash[p]) \cap activeBlocks[p] = {}

\* A message is handled under the lock of the ledger; AddBlock walks the ledgers
\* with the lock of the engine, and those it has passed stay free.
Locks ==
    /\ \A p \in Peers : msg[p].kind = "none" => msg[p] = NoMessage
    /\ \A p \in Peers : msg[p].kind # "none" => msg[p].cid \in Blocks
    /\ scan # NoScan => scan.cid \in adding /\ \A p \in Peers \ scan.left : msg[p] = NoMessage

\* Blocks that stay are in the store once they were.
Kept ==
    /\ adding \ Deletes \subseteq store
    /\ \A p \in Peers : (live[p] \cup activeBlocks[p]) \ Deletes \subseteq store
    /\ \A p \in Peers : msg[p].push => msg[p].cid \in store \cup Deletes
    /\ engine.at = "failed" => engine.task.cid \in Deletes

\* What a peer asks for is not marked; what it takes back it no longer asks for.
Fresh ==
    \A p \in Peers :
        /\ wants[p] \cap trash[p] = {}
        /\ msg[p].kind = "cancel" => msg[p].cid \notin wants[p]

\* Each waiting task is one request, but for the peers that cancel one twice.
Requests ==
    \A p \in Peers : /\ IsFiniteSet(live[p]) /\ requests[p] <= Cardinality(live[p])
                     /\ p \notin recancelled => requests[p] = Cardinality(live[p])

\* A block that is being sent is no longer wanted.
Served == \A w \in Workers : work[w].at = "send" => work[w].task.cid \notin wants[work[w].task.peer]

\* A want has a task if its block is here to stay, but for a block whose AddBlock has
\* yet to reach the ledger, and the want that a handler is about to queue.
Has(p, k) == k \in live[p] \cup activeBlocks[p]
Tasked ==
    \A p \in Peers : \A k \in wants[p] \ Deletes :
        /\ k \in store \ adding /\ (msg[p].kind = "want" => msg[p].cid # k) => Has(p, k)
        /\ scan # NoScan /\ scan.cid = k /\ p \notin scan.left => Has(p, k)
        /\ msg[p].kind = "want" /\ msg[p].cid = k /\ ~msg[p].push /\ k \in store => k \in adding

Base == Types /\ Hands /\ Single /\ Counted /\ Queued
Once == Kept /\ Fresh /\ Served /\ Tasked

IInv == Base /\ Locks /\ Requests /\ (~Rewants => Once)
-----------------------------------------------------------------------------
(* What the operations of the queue do *)

\* A task has a peer and a block, and no task has neither.
LEMMA TaskShape ==
    /\ NoTask \in Tasks
    /\ \A p \in Peers, k \in Blocks : /\ T(p, k) \in Tasks /\ T(p, k) # NoTask
                                      /\ T(p, k).peer = p /\ T(p, k).cid = k
                                      /\ \A q \in Peers, j \in Blocks : T(p, k) = T(q, j) => p = q /\ k = j
    /\ \A t \in Tasks : t # NoTask => t.peer \in Peers /\ t.cid \in Blocks /\ t = T(t.peer, t.cid)
<1>1. NoTask \in Tasks
    BY DEF Tasks
<1>2. ASSUME NEW p \in Peers, NEW k \in Blocks
      PROVE  T(p, k) \in Tasks /\ T(p, k).peer = p /\ T(p, k).cid = k
    BY DEF Tasks, T
<1>3. ASSUME NEW p \in Peers, NEW k \in Blocks PROVE T(p, k) # NoTask
    <2>1. T(p, k).peer = p /\ NoTask.peer = Nothing /\ p # Nothing
        BY BitswapEngineAssumption DEF T, NoTask
    <2> QED BY <2>1
<1>4. ASSUME NEW p \in Peers, NEW k \in Blocks, NEW q \in Peers, NEW j \in Blocks, T(p, k) = T(q, j)
      PROVE  p = q /\ k = j
    BY <1>2, <1>4
<1>5. ASSUME NEW t \in Tasks, t # NoTask PROVE t.peer \in Peers /\ t.cid \in Blocks /\ t = T(t.peer, t.cid)
    BY <1>5 DEF Tasks, T
<1> QED BY <1>1, <1>2, <1>3, <1>4, <1>5

\* Whoever touches no task leaves the base of the invariant alone.
LEMMA BaseSame ==
    ASSUME Base, Types', UNCHANGED <<queue, engine, work>>
    PROVE  Base'
<1>1. UNCHANGED <<live, trash, active, activeBlocks>>
    BY DEF queue
<1>2. Hands' /\ Single' /\ Queued'
    BY <1>1 DEF Base, Hands, Single, Queued
<1>3. Counted'
    BY <1>1 DEF Base, Counted, Held
<1> QED BY <1>2, <1>3 DEF Base

\* Push queues a block that is not in the queue yet.
LEMMA PushKeeps ==
    ASSUME Base, NEW p \in Peers, NEW k \in Blocks, Push(p, k), UNCHANGED <<engine, work>>,
           store' \subseteq Blocks, adding' \subseteq Blocks,
           scan' \in [cid : Blocks \cup {Nothing}, left : SUBSET Peers, work : BOOLEAN],
           wants' \in [Peers -> SUBSET Blocks], msg' \in [Peers -> Messages]
    PROVE  /\ Base'
           /\ \A q \in Peers : live[q] \subseteq live'[q] /\ live'[q] \subseteq live[q] \cup {k}
           /\ \A q \in Peers : q # p => live'[q] = live[q]
           /\ k \in live'[p] \cup trash[p] \cup activeBlocks[p]
           /\ UNCHANGED <<trash, activeBlocks>>
<1>1. /\ UNCHANGED <<trash, active, activeBlocks, engine, work>>
      /\ \/ live' = live /\ requests' = requests /\ k \in activeBlocks[p] \cup live[p] \cup trash[p]
         \/ /\ k \notin activeBlocks[p] \cup live[p] \cup trash[p]
            /\ live' = [live EXCEPT ![p] = @ \cup {k}]
            /\ requests' = [requests EXCEPT ![p] = @ + 1]
    BY DEF Push
<1>2. /\ \A q \in Peers : live[q] \subseteq live'[q] /\ live'[q] \subseteq live[q] \cup {k}
      /\ \A q \in Peers : q # p => live'[q] = live[q]
      /\ k \in live'[p] \cup trash[p] \cup activeBlocks[p]
    BY <1>1 DEF Base, Types
<1>3. Types'
    BY <1>1 DEF Base, Types
<1>4. Hands' /\ Single'
    BY <1>1 DEF Base, Hands, Single
<1>5. Counted'
    BY <1>1 DEF Base, Counted, Held
<1>6. Queued'
    BY <1>1 DEF Base, Types, Queued
<1> QED BY <1>1, <1>2, <1>3, <1>4, <1>5, <1>6 DEF Base

\* Each task that Push queues is one request more.
LEMMA PushCounts ==
    ASSUME Base, Requests, NEW p \in Peers, NEW k \in Blocks, Push(p, k), UNCHANGED recancelled
    PROVE  Requests'
<1>1. CASE live' = live /\ requests' = requests
    BY <1>1 DEF Requests
<1>2. CASE /\ k \notin live[p] /\ live' = [live EXCEPT ![p] = @ \cup {k}]
           /\ requests' = [requests EXCEPT ![p] = @ + 1]
    <2>1. IsFiniteSet(live[p] \cup {k}) /\ Cardinality(live[p] \cup {k}) = Cardinality(live[p]) + 1
        BY <1>2, FS_AddElement DEF Requests
    <2>2. Cardinality(live[p]) \in Nat
        BY FS_CardinalityType DEF Requests
    <2>3. ASSUME NEW q \in Peers
          PROVE  /\ IsFiniteSet(live'[q]) /\ requests'[q] <= Cardinality(live'[q])
                 /\ q \notin recancelled => requests'[q] = Cardinality(live'[q])
        <3>1. CASE q = p
            BY <1>2, <2>1, <2>2, <3>1 DEF Requests, Base, Types
        <3>2. CASE q # p
            BY <1>2, <3>2 DEF Requests, Base, Types
        <3> QED BY <3>1, <3>2
    <2> QED BY <2>3 DEF Requests
<1> QED BY <1>1, <1>2 DEF Push

\* Remove marks a waiting task, and only such a one.
LEMMA RemoveKeeps ==
    ASSUME Base, NEW p \in Peers, NEW k \in Blocks, Remove(p, k), UNCHANGED <<engine, work>>,
           UNCHANGED <<store, adding, scan>>,
           wants' \in [Peers -> SUBSET Blocks], msg' \in [Peers -> Messages]
    PROVE  /\ Base'
           /\ \A q \in Peers : live'[q] = IF q = p THEN live[q] \ {k} ELSE live[q]
           /\ \A q \in Peers : trash'[q] = IF q = p /\ k \in live[q] THEN trash[q] \cup {k} ELSE trash[q]
           /\ UNCHANGED activeBlocks
<1>1. /\ UNCHANGED <<active, activeBlocks, engine, work>>
      /\ \/ UNCHANGED <<live, trash, requests>> /\ k \notin live[p] \cup trash[p]
         \/ /\ live' = [live EXCEPT ![p] = @ \ {k}] /\ trash' = [trash EXCEPT ![p] = @ \cup {k}]
            /\ requests' = [requests EXCEPT ![p] = @ - 1] /\ k \in live[p] \cup trash[p]
    BY DEF Remove, queue
<1>2. /\ \A q \in Peers : live'[q] = IF q = p THEN live[q] \ {k} ELSE live[q]
      /\ \A q \in Peers : trash'[q] = IF q = p /\ k \in live[q] THEN trash[q] \cup {k} ELSE trash[q]
    <2>1. CASE k \in live[p]
        BY <1>1, <2>1 DEF Base, Types
    <2>2. CASE k \in trash[p] \ live[p]
        <3>1. trash[p] \cup {k} = trash[p] /\ live[p] \ {k} = live[p]
            BY <2>2
        <3> QED BY <1>1, <2>2, <3>1 DEF Base, Types
    <2>3. CASE k \notin live[p] \cup trash[p]
        <3>1. live[p] \ {k} = live[p]
            BY <2>3
        <3> QED BY <1>1, <2>3, <3>1
    <2> QED BY <2>1, <2>2, <2>3
<1>3. Types'
    BY <1>1 DEF Base, Types
<1>4. Hands' /\ Single'
    BY <1>1 DEF Base, Hands, Single
<1>5. Counted'
    BY <1>1 DEF Base, Counted, Held
<1>6. Queued'
    BY <1>1, <1>2 DEF Base, Queued
<1> QED BY <1>1, <1>2, <1>3, <1>4, <1>5, <1>6 DEF Base

\* It is one request less, also where the task was marked before.
LEMMA RemoveCounts ==
    ASSUME Base, Requests, NEW p \in Peers, NEW k \in Blocks, Remove(p, k),
           recancelled' = IF k \in trash[p] THEN recancelled \cup {p} ELSE recancelled
    PROVE  Requests'
<1>1. CASE k \notin live[p] \cup trash[p]
    BY <1>1 DEF Requests, Remove, queue
<1>2. CASE k \in live[p]
    <2>1. IsFiniteSet(live[p] \ {k}) /\ Cardinality(live[p] \ {k}) = Cardinality(live[p]) - 1
        BY <1>2, FS_RemoveElement DEF Requests
    <2>2. /\ live' = [live EXCEPT ![p] = @ \ {k}] /\ requests' = [requests EXCEPT ![p] = @ - 1]
          /\ recancelled' = recancelled
        BY <1>2 DEF Remove, Base, Queued
    <2>3. Cardinality(live[p]) \in Nat
        BY FS_CardinalityType DEF Requests
    <2> QED BY <2>1, <2>2, <2>3 DEF Requests, Base, Types
<1>3. CASE k \in trash[p] \ live[p]
    <2>1. live[p] \ {k} = live[p]
        BY <1>3
    <2>2. /\ live' = [live EXCEPT ![p] = @ \ {k}] /\ requests' = [requests EXCEPT ![p] = @ - 1]
          /\ recancelled' = recancelled \cup {p}
        BY <1>3 DEF Remove
    <2>3. \A q \in Peers : Cardinality(live[q]) \in Nat
        BY FS_CardinalityType DEF Requests
    <2>4. live' = live
        BY <2>1, <2>2 DEF Base, Types
    <2>5. requests'[p] = requests[p] - 1 /\ requests[p] \in Int /\ \A q \in Peers : q # p => requests'[q] = requests[q]
        BY <2>2 DEF Base, Types
    <2>6. ASSUME NEW q \in Peers
          PROVE  /\ IsFiniteSet(live[q]) /\ requests'[q] <= Cardinality(live[q])
                 /\ q \notin recancelled' => requests'[q] = Cardinality(live[q])
        <3>1. CASE q = p
            BY <2>2, <2>3, <2>5, <3>1 DEF Requests
        <3>2. CASE q # p
            BY <2>2, <2>5, <3>2 DEF Requests
        <3> QED BY <3>1, <3>2
    <2> QED BY <2>4, <2>6 DEF Requests
<1> QED BY <1>1, <1>2, <1>3

-----------------------------------------------------------------------------
(* The steps of the engine's worker and of Bitswap's *)

others == <<store, adding, scan, wants, msg>>

LEMMA OfferBase == ASSUME Base, NEW w \in Workers, Offer(w) PROVE Base'
<1>1. /\ engine.at = "offer" /\ work[w].at = "idle" /\ work' = [work EXCEPT ![w].at = "ready"]
      /\ engine' = [at |-> "pop", task |-> NoTask, to |-> w]
      /\ UNCHANGED <<others, live, trash, requests, active, activeBlocks>>
    BY DEF Offer, others, queue, blockstore, ledgers
<1>2. engine.task = NoTask /\ work[w].task = NoTask
    BY <1>1 DEF Base, Hands
<1>3. Types'
    <2>1. engine' \in [at : {"offer", "pop", "wait", "get", "failed"}, task : Tasks, to : Workers \cup {Nothing}]
        BY <1>1, TaskShape
    <2>2. work' \in [Workers -> [at : {"idle", "ready", "ledger", "send"}, task : Tasks]]
        BY <1>1 DEF Base, Types
    <2> QED BY <1>1, <2>1, <2>2 DEF Base, Types, others
<1>4. \A v \in Workers : work'[v].task = work[v].task /\ (v # w => work'[v].at = work[v].at)
    BY <1>1 DEF Base, Types
<1>5. work'[w].at = "ready"
    BY <1>1 DEF Base, Types
<1>6. Hands' /\ Single'
    BY <1>1, <1>2, <1>4, <1>5 DEF Base, Hands, Single
<1>7. Counted' /\ Queued'
    BY <1>1, <1>2, <1>4 DEF Base, Counted, Held, Queued
<1> QED BY <1>3, <1>6, <1>7 DEF Base

\* Pop puts a waiting task into the engine's hand, or drops what is marked.
LEMMA PopTakes ==
    ASSUME Base, Pop
    PROVE  \/ /\ live' = live /\ requests' = requests /\ UNCHANGED <<active, activeBlocks>>
              /\ engine' = [engine EXCEPT !.at = "wait"]
              /\ trash' \in [Peers -> SUBSET Blocks] /\ \A q \in Peers : trash'[q] \subseteq trash[q]
           \/ \E p \in Peers : \E k \in live[p] :
                /\ live' = [live EXCEPT ![p] = @ \ {k}] /\ requests' = [requests EXCEPT ![p] = @ - 1]
                /\ activeBlocks' = [activeBlocks EXCEPT ![p] = @ \cup {k}]
                /\ active' = [active EXCEPT ![p] = @ + 1]
                /\ trash' \in [Peers -> SUBSET Blocks] /\ \A q \in Peers : trash'[q] \subseteq trash[q]
                /\ engine' = [engine EXCEPT !.at = "get", !.task = T(p, k)]
<1>1. PICK p \in Peers :
          \/ PopNothing(p) /\ engine' = [engine EXCEPT !.at = "wait"]
          \/ \E k \in live[p], dropped \in SUBSET trash[p] :
                /\ PopTask(p, k, dropped)
                /\ engine' = [engine EXCEPT !.at = "get", !.task = [peer |-> p, cid |-> k]]
    BY DEF Pop, First
<1>2. CASE PopNothing(p) /\ engine' = [engine EXCEPT !.at = "wait"]
    <2>1. trash' \in [Peers -> SUBSET Blocks] /\ \A q \in Peers : trash'[q] \subseteq trash[q]
        BY <1>2 DEF PopNothing, Base, Types
    <2> QED BY <1>2, <2>1 DEF PopNothing
<1>3. ASSUME NEW k \in live[p], NEW dropped \in SUBSET trash[p], PopTask(p, k, dropped),
             engine' = [engine EXCEPT !.at = "get", !.task = [peer |-> p, cid |-> k]]
      PROVE  \E q \in Peers : \E j \in live[q] :
                /\ live' = [live EXCEPT ![q] = @ \ {j}] /\ requests' = [requests EXCEPT ![q] = @ - 1]
                /\ activeBlocks' = [activeBlocks EXCEPT ![q] = @ \cup {j}]
                /\ active' = [active EXCEPT ![q] = @ + 1]
                /\ trash' \in [Peers -> SUBSET Blocks] /\ \A r \in Peers : trash'[r] \subseteq trash[r]
                /\ engine' = [engine EXCEPT !.at = "get", !.task = T(q, j)]
    <2>1. trash' \in [Peers -> SUBSET Blocks] /\ \A r \in Peers : trash'[r] \subseteq trash[r]
        BY <1>3 DEF PopTask, Base, Types
    <2> QED BY <1>3, <2>1 DEF PopTask, T
<1> QED BY <1>1, <1>2, <1>3

LEMMA PopBase == ASSUME Base, Pop PROVE Base'
<1>1. engine.at = "pop" /\ engine.task = NoTask /\ UNCHANGED <<others, work>>
    BY DEF Pop, others, blockstore, ledgers, Base, Hands
<1>2. CASE /\ live' = live /\ requests' = requests /\ UNCHANGED <<active, activeBlocks>>
           /\ engine' = [engine EXCEPT !.at = "wait"]
           /\ trash' \in [Peers -> SUBSET Blocks] /\ \A q \in Peers : trash'[q] \subseteq trash[q]
    <2>1. engine' \in [at : {"offer", "pop", "wait", "get", "failed"}, task : Tasks, to : Workers \cup {Nothing}]
          /\ engine'.at = "wait" /\ engine'.task = NoTask /\ engine'.to = engine.to
        BY <1>1, <1>2 DEF Base, Types
    <2>2. Types'
        BY <1>1, <1>2, <2>1 DEF Base, Types, others
    <2>3. Hands' /\ Single'
        BY <1>1, <1>2, <2>1 DEF Base, Hands, Single
    <2>4. Counted' /\ Queued'
        BY <1>1, <1>2, <2>1 DEF Base, Counted, Held, Queued
    <2> QED BY <2>2, <2>3, <2>4 DEF Base
<1>3. ASSUME NEW p \in Peers, NEW k \in live[p],
             live' = [live EXCEPT ![p] = @ \ {k}], requests' = [requests EXCEPT ![p] = @ - 1],
             activeBlocks' = [activeBlocks EXCEPT ![p] = @ \cup {k}], active' = [active EXCEPT ![p] = @ + 1],
             trash' \in [Peers -> SUBSET Blocks], \A q \in Peers : trash'[q] \subseteq trash[q],
             engine' = [engine EXCEPT !.at = "get", !.task = T(p, k)]
      PROVE  Base'
    <2>1. k \in Blocks /\ k \notin activeBlocks[p] /\ k \notin trash[p]
        BY DEF Base, Types, Queued
    <2>2. engine' \in [at : {"offer", "pop", "wait", "get", "failed"}, task : Tasks, to : Workers \cup {Nothing}]
          /\ engine'.at = "get" /\ engine'.task = T(p, k) /\ engine'.to = engine.to
        BY <1>3, <2>1, TaskShape DEF Base, Types
    <2>3. Types'
        BY <1>1, <1>3, <2>1, <2>2 DEF Base, Types, others
    <2>4. ~Held(p, k)
        BY <2>1 DEF Base, Counted
    <2>5. Hands' /\ Single'
        BY <1>1, <2>1, <2>2, <2>4, TaskShape DEF Base, Hands, Single, Held
    <2>6. IsFiniteSet(activeBlocks[p] \cup {k})
          /\ Cardinality(activeBlocks[p] \cup {k}) = Cardinality(activeBlocks[p]) + 1
        BY <2>1, FS_AddElement DEF Base, Counted
    <2>7. \A q \in Peers : activeBlocks'[q] = IF q = p THEN activeBlocks[p] \cup {k} ELSE activeBlocks[q]
        BY <1>3 DEF Base, Types
    <2>8. \A q \in Peers, j \in Blocks : Held(q, j)' <=> (q = p /\ j = k) \/ Held(q, j)
        BY <1>1, <2>1, <2>2, TaskShape DEF Held
    <2>9. Counted'
        BY <1>3, <2>6, <2>7, <2>8 DEF Base, Types, Counted
    <2>10. Queued'
        BY <1>3, <2>1, <2>7 DEF Base, Types, Queued
    <2> QED BY <2>3, <2>5, <2>9, <2>10 DEF Base
<1> QED BY <1>2, <1>3, PopTakes

\* A wake-up leaves the tasks where they are.
LEMMA WakeBase == ASSUME Base, WorkSignal \/ Tick PROVE Base'
<1>1. /\ engine.at = "wait" /\ engine' = [engine EXCEPT !.at = "pop"]
      /\ UNCHANGED <<others, live, trash, requests, active, activeBlocks, work>>
    BY DEF WorkSignal, Tick, thawRound, others, blockstore, ledgers, queue
<1>2. engine' \in [at : {"offer", "pop", "wait", "get", "failed"}, task : Tasks, to : Workers \cup {Nothing}]
      /\ engine'.at = "pop" /\ engine'.task = engine.task /\ engine'.to = engine.to
    BY <1>1 DEF Base, Types
<1>3. Types'
    BY <1>1, <1>2 DEF Base, Types, others
<1>4. Hands' /\ Single' /\ Queued'
    BY <1>1, <1>2 DEF Base, Hands, Single, Queued
<1>5. Counted'
    BY <1>1, <1>2 DEF Base, Counted, Held
<1> QED BY <1>3, <1>4, <1>5 DEF Base

LEMMA EnvelopeBase == ASSUME Base, Envelope PROVE Base'
<1> DEFINE w == engine.to
<1>1. /\ engine.at = "get" /\ work' = [work EXCEPT ![w] = [at |-> "ledger", task |-> engine.task]]
      /\ engine' = [at |-> "offer", task |-> NoTask, to |-> Nothing]
      /\ UNCHANGED <<others, live, trash, requests, active, activeBlocks>>
    BY DEF Envelope, others, blockstore, ledgers, queue
<1>2. w \in Workers /\ work[w].at = "ready" /\ work[w].task = NoTask /\ engine.task # NoTask /\ engine.task \in Tasks
    BY <1>1 DEF Base, Types, Hands
<1>3. /\ work'[w].at = "ledger" /\ work'[w].task = engine.task
      /\ \A v \in Workers : v # w => work'[v] = work[v]
    BY <1>1, <1>2 DEF Base, Types
<1>4. Types'
    BY <1>1, <1>2, TaskShape DEF Base, Types, others
<1>5. Hands' /\ Single'
    BY <1>1, <1>2, <1>3 DEF Base, Hands, Single
<1>6. \A p \in Peers, k \in Blocks : Held(p, k)' <=> Held(p, k)
    BY <1>1, <1>2, <1>3, TaskShape DEF Held
<1>7. Counted' /\ Queued'
    BY <1>1, <1>6 DEF Base, Counted, Queued
<1> QED BY <1>4, <1>5, <1>7 DEF Base

LEMMA GetFailsBase == ASSUME Base, GetFails PROVE Base'
<1>1. /\ engine.at = "get" /\ engine' = [engine EXCEPT !.at = "failed"]
      /\ UNCHANGED <<others, live, trash, requests, active, activeBlocks, work>>
    BY DEF GetFails, others, blockstore, ledgers, queue
<1>2. engine' \in [at : {"offer", "pop", "wait", "get", "failed"}, task : Tasks, to : Workers \cup {Nothing}]
      /\ engine'.at = "failed" /\ engine'.task = engine.task /\ engine'.to = engine.to
    BY <1>1 DEF Base, Types
<1>3. Types'
    BY <1>1, <1>2 DEF Base, Types, others
<1>4. Hands' /\ Single' /\ Queued'
    BY <1>1, <1>2 DEF Base, Hands, Single, Queued
<1>5. Counted'
    BY <1>1, <1>2 DEF Base, Counted, Held
<1> QED BY <1>3, <1>4, <1>5 DEF Base

\* Done takes the task out of the one hand that has it.
LEMMA DoneBase ==
    ASSUME Base, NEW t \in Tasks, t # NoTask, Done(t), Types', Hands', Single',
           Held(t.peer, t.cid), ~Held(t.peer, t.cid)',
           \A q \in Peers, j \in Blocks : T(q, j) # t => (Held(q, j)' <=> Held(q, j))
    PROVE  Base'
<1> DEFINE p == t.peer
           k == t.cid
<1>1. p \in Peers /\ k \in Blocks /\ t = T(p, k)
    BY TaskShape
<1>2. /\ activeBlocks' = [activeBlocks EXCEPT ![p] = @ \ {k}] /\ active' = [active EXCEPT ![p] = @ - 1]
      /\ UNCHANGED <<live, trash>>
    BY DEF Done
<1>3. k \in activeBlocks[p]
    BY <1>1 DEF Base, Counted
<1>4. IsFiniteSet(activeBlocks[p] \ {k}) /\ Cardinality(activeBlocks[p] \ {k}) = Cardinality(activeBlocks[p]) - 1
    BY <1>1, <1>3, FS_RemoveElement DEF Base, Counted
<1>5. \A q \in Peers : activeBlocks'[q] = IF q = p THEN activeBlocks[p] \ {k} ELSE activeBlocks[q]
    BY <1>2 DEF Base, Types
<1>6. Counted'
    <2>1. ASSUME NEW q \in Peers
          PROVE  IsFiniteSet(activeBlocks'[q]) /\ active'[q] = Cardinality(activeBlocks'[q])
        BY <1>1, <1>2, <1>4, <1>5 DEF Base, Types, Counted
    <2>2. ASSUME NEW q \in Peers, NEW j \in Blocks PROVE j \in activeBlocks'[q] <=> Held(q, j)'
        <3>1. CASE q = p /\ j = k
            BY <1>5, <3>1
        <3>2. CASE q # p \/ j # k
            <4>1. T(q, j) # t
                BY <1>1, <3>2, TaskShape
            <4> QED BY <1>5, <3>2, <4>1 DEF Base, Counted
        <3> QED BY <3>1, <3>2
    <2> QED BY <2>1, <2>2 DEF Counted
<1>7. Queued'
    BY <1>2, <1>5 DEF Base, Queued
<1> QED BY <1>6, <1>7 DEF Base

LEMMA FailedDoneBase == ASSUME Base, FailedDone PROVE Base'
<1>0. PICK t \in Tasks : t = engine.task
    BY DEF Base, Types
<1>1. /\ engine.at = "failed" /\ Done(t) /\ engine' = [engine EXCEPT !.at = "pop", !.task = NoTask]
      /\ UNCHANGED <<others, live, trash, requests, work>>
    BY <1>0 DEF FailedDone, Done, others, blockstore, ledgers
<1>2. t \in Tasks /\ t # NoTask
    BY <1>0, <1>1 DEF Base, Hands
<1>3. engine' \in [at : {"offer", "pop", "wait", "get", "failed"}, task : Tasks, to : Workers \cup {Nothing}]
      /\ engine'.at = "pop" /\ engine'.task = NoTask /\ engine'.to = engine.to
    BY <1>1, TaskShape DEF Base, Types
<1>4. Types'
    BY <1>1, <1>2, <1>3, TaskShape DEF Base, Types, others, Done
<1>5. Hands' /\ Single'
    BY <1>1, <1>3 DEF Base, Hands, Single
<1>6. Held(t.peer, t.cid)
    BY <1>0, <1>2, TaskShape DEF Held
<1>7. ~Held(t.peer, t.cid)'
    BY <1>0, <1>1, <1>2, <1>3, TaskShape DEF Held, Base, Single
<1>8. \A q \in Peers, j \in Blocks : T(q, j) # t => (Held(q, j)' <=> Held(q, j))
    BY <1>0, <1>1, <1>3, TaskShape DEF Held
<1> QED BY <1>1, <1>2, <1>4, <1>5, <1>6, <1>7, <1>8, DoneBase

LEMMA SentBase == ASSUME Base, NEW w \in Workers, Sent(w) PROVE Base'
<1>0. PICK t \in Tasks : t = work[w].task
    BY DEF Base, Types
<1>1. /\ work[w].at = "send" /\ Done(t) /\ work' = [work EXCEPT ![w] = [at |-> "idle", task |-> NoTask]]
      /\ UNCHANGED <<others, live, trash, requests, engine>>
    BY <1>0 DEF Sent, Done, others, blockstore, ledgers
<1>2. t \in Tasks /\ t # NoTask
    BY <1>0, <1>1 DEF Base, Hands
<1>3. work'[w].at = "idle" /\ work'[w].task = NoTask /\ \A v \in Workers : v # w => work'[v] = work[v]
    BY <1>1 DEF Base, Types
<1>4. Types'
    BY <1>1, <1>2, TaskShape DEF Base, Types, others, Done
<1>5. Hands' /\ Single'
    BY <1>0, <1>1, <1>2, <1>3 DEF Base, Hands, Single
<1>6. Held(t.peer, t.cid)
    BY <1>0, <1>2, TaskShape DEF Held
<1>7. ~Held(t.peer, t.cid)'
    BY <1>0, <1>1, <1>2, <1>3, TaskShape DEF Held, Base, Single
<1>8. \A q \in Peers, j \in Blocks : T(q, j) # t => (Held(q, j)' <=> Held(q, j))
    BY <1>0, <1>1, <1>3, TaskShape DEF Held
<1> QED BY <1>1, <1>2, <1>4, <1>5, <1>6, <1>7, <1>8, DoneBase

-----------------------------------------------------------------------------
(* The handlers of messages and blocks, and the base of the invariant *)

LEMMA LedgerBase ==
    ASSUME Base, NEW p \in Peers, NEW k \in Blocks, NEW full \in BOOLEAN,
           Want(p, k, full) \/ Cancel(p, k) \/ PeerDisconnected(p) \/ Put(k) \/ Delete(k) \/ AddBlock(k) \/ AddBlockEnd
    PROVE  Base'
<1>1. UNCHANGED <<queue, engine, work>>
    BY DEF Want, Cancel, PeerDisconnected, Put, Delete, AddBlock, AddBlockEnd
<1>2. UNCHANGED <<live, trash, requests, active, activeBlocks>>
    BY <1>1 DEF queue
<1>3. CASE Want(p, k, full)
    <2>1. /\ wants' \in [Peers -> SUBSET Blocks] /\ UNCHANGED <<store, adding, scan>>
        BY <1>3 DEF Want, Base, Types, blockstore
    <2>2. [kind |-> "want", cid |-> k, push |-> k \in store] \in Messages
        BY DEF Messages
    <2>3. msg' \in [Peers -> Messages]
        BY <1>3, <2>2 DEF Want, Base, Types
    <2>4. Types'
        BY <1>1, <1>2, <2>1, <2>3 DEF Base, Types
    <2> QED BY <1>1, <2>4, BaseSame
<1>4. CASE Cancel(p, k)
    <2>1. Types'
        BY <1>1, <1>2, <1>4 DEF Cancel, Base, Types, Messages, blockstore
    <2> QED BY <1>1, <2>1, BaseSame
<1>5. CASE PeerDisconnected(p)
    <2>1. Types'
        BY <1>1, <1>2, <1>5 DEF PeerDisconnected, Base, Types, blockstore
    <2> QED BY <1>1, <2>1, BaseSame
<1>6. CASE Put(k) \/ Delete(k)
    <2>1. Types'
        BY <1>1, <1>2, <1>6 DEF Put, Delete, Base, Types, ledgers
    <2> QED BY <1>1, <2>1, BaseSame
<1>7. CASE AddBlock(k) \/ AddBlockEnd
    <2>1. scan' \in [cid : Blocks \cup {Nothing}, left : SUBSET Peers, work : BOOLEAN]
        <3>1. CASE AddBlock(k)
            BY <3>1 DEF AddBlock
        <3>2. CASE AddBlockEnd
            <4>1. scan' = NoScan
                BY <3>2 DEF AddBlockEnd
            <4> QED BY <4>1 DEF NoScan
        <3> QED BY <1>7, <3>1, <3>2
    <2>2. Types'
        BY <1>1, <1>2, <1>7, <2>1 DEF AddBlock, AddBlockEnd, Base, Types, ledgers, blockstore
    <2> QED BY <1>1, <2>2, BaseSame
<1> QED BY <1>3, <1>4, <1>5, <1>6, <1>7

\* A handler holds a block: the operations of the queue are called with one.
LEMMA WantEndBase ==
    ASSUME Base, Locks, NEW p \in Peers, WantEnd(p)
    PROVE  Base'
<1>1. /\ msg[p].cid \in Blocks /\ UNCHANGED <<store, adding, scan, wants, engine, work>>
      /\ msg' = [msg EXCEPT ![p] = NoMessage]
    BY DEF WantEnd, blockstore, Locks
<1>2. msg' \in [Peers -> Messages]
    BY <1>1 DEF Base, Types, Messages, NoMessage
<1>3. CASE Push(p, msg[p].cid)
    BY <1>1, <1>2, <1>3, PushKeeps DEF Base, Types
<1>4. CASE UNCHANGED queue
    <2>1. Types'
        BY <1>1, <1>2, <1>4 DEF Base, Types, queue
    <2> QED BY <1>1, <1>4, <2>1, BaseSame
<1> QED BY <1>3, <1>4 DEF WantEnd

LEMMA CancelEndBase ==
    ASSUME Base, Locks, NEW p \in Peers, CancelEnd(p)
    PROVE  Base'
<1>1. /\ msg[p].cid \in Blocks /\ UNCHANGED <<store, adding, scan, wants, engine, work>>
      /\ msg' = [msg EXCEPT ![p] = NoMessage] /\ Remove(p, msg[p].cid)
    BY DEF CancelEnd, blockstore, Locks
<1>2. msg' \in [Peers -> Messages] /\ wants' \in [Peers -> SUBSET Blocks]
    BY <1>1 DEF Base, Types, Messages, NoMessage
<1> QED BY <1>1, <1>2, RemoveKeeps

LEMMA AddBlockVisitBase ==
    ASSUME Base, Locks, NEW p \in Peers, AddBlockVisit(p)
    PROVE  Base'
<1>1. /\ scan.cid \in Blocks /\ UNCHANGED <<store, adding, wants, msg, engine, work>>
    BY DEF AddBlockVisit, blockstore, ledgers, NoScan, Base, Types, Locks
<1>2. scan' \in [cid : Blocks \cup {Nothing}, left : SUBSET Peers, work : BOOLEAN]
    BY DEF AddBlockVisit, Base, Types
<1>3. CASE Push(p, scan.cid)
    BY <1>1, <1>2, <1>3, PushKeeps DEF Base, Types
<1>4. CASE UNCHANGED queue
    <2>1. Types'
        BY <1>1, <1>2, <1>4 DEF Base, Types, queue
    <2> QED BY <1>1, <1>4, <2>1, BaseSame
<1> QED BY <1>3, <1>4 DEF AddBlockVisit

\* The task of a message that leaves is active, so that Remove finds nothing to mark.
LEMMA MessageSentDoes ==
    ASSUME Base, NEW w \in Workers, MessageSent(w)
    PROVE  \E p \in Peers, k \in Blocks :
             /\ work[w].task = T(p, k) /\ k \in activeBlocks[p] /\ work[w].at = "ledger"
             /\ wants' = [wants EXCEPT ![p] = @ \ {k}] /\ work' = [work EXCEPT ![w].at = "send"]
             /\ UNCHANGED <<store, adding, scan, msg, engine, queue>>
<1>1. work[w].at = "ledger" /\ work[w].task # NoTask /\ work[w].task \in Tasks
    BY DEF MessageSent, Base, Types, Hands
<1>2. PICK p \in Peers, k \in Blocks : work[w].task = T(p, k) /\ work[w].task.peer = p /\ work[w].task.cid = k
    BY <1>1, TaskShape
<1>3. k \in activeBlocks[p]
    BY <1>2 DEF Base, Counted, Held
<1>4. k \notin live[p] \cup trash[p]
    BY <1>3 DEF Base, Queued
<1>5. UNCHANGED queue
    BY <1>2, <1>4 DEF MessageSent, Remove
<1> QED BY <1>1, <1>2, <1>3, <1>5 DEF MessageSent, blockstore

LEMMA MessageSentBase == ASSUME Base, NEW w \in Workers, MessageSent(w) PROVE Base'
<1>1. PICK p \in Peers, k \in Blocks :
        /\ work[w].task = T(p, k) /\ work[w].at = "ledger"
        /\ wants' = [wants EXCEPT ![p] = @ \ {k}] /\ work' = [work EXCEPT ![w].at = "send"]
        /\ UNCHANGED <<store, adding, scan, msg, engine, queue>>
    BY MessageSentDoes
<1>2. UNCHANGED <<live, trash, requests, active, activeBlocks>>
    BY <1>1 DEF queue
<1>3. /\ \A v \in Workers : work'[v].task = work[v].task /\ (v # w => work'[v].at = work[v].at)
      /\ work'[w].at = "send"
    BY <1>1 DEF Base, Types
<1>4. Types'
    BY <1>1, <1>2 DEF Base, Types
<1>5. Hands' /\ Single'
    BY <1>1, <1>3 DEF Base, Hands, Single
<1>6. Counted' /\ Queued'
    BY <1>1, <1>2, <1>3 DEF Base, Counted, Held, Queued
<1> QED BY <1>4, <1>5, <1>6 DEF Base

-----------------------------------------------------------------------------
(* The locks *)

LEMMA LocksSame == ASSUME Locks, UNCHANGED <<msg, scan>>, adding \subseteq adding' PROVE Locks'
BY DEF Locks

LEMMA LocksHold == ASSUME Base, Locks, Next PROVE Locks'
<1>1. ASSUME NEW p \in Peers, NEW k \in Blocks, NEW full \in BOOLEAN, Want(p, k, full) \/ Cancel(p, k) PROVE Locks'
    <2>1. scan' = NoScan
        BY <1>1 DEF Want, Cancel, EngineLockFree
    <2>2. \A q \in Peers : q # p => msg'[q] = msg[q]
        BY <1>1 DEF Want, Cancel, Base, Types
    <2>3. msg'[p].kind \in {"want", "cancel"} /\ msg'[p].cid = k
        BY <1>1 DEF Want, Cancel, Base, Types
    <2> QED BY <2>1, <2>2, <2>3 DEF Locks
<1>2. ASSUME NEW p \in Peers, WantEnd(p) \/ CancelEnd(p) PROVE Locks'
    <2>1. \A q \in Peers : msg'[q] = IF q = p THEN NoMessage ELSE msg[q]
        BY <1>2 DEF WantEnd, CancelEnd, Base, Types
    <2>2. UNCHANGED <<scan, adding>>
        BY <1>2 DEF WantEnd, CancelEnd, blockstore
    <2>3. \A q \in Peers : msg'[q] = NoMessage \/ msg'[q] = msg[q]
        BY <2>1
    <2>4. NoMessage.kind = "none"
        BY DEF NoMessage
    <2> QED BY <2>2, <2>3, <2>4 DEF Locks
<1>3. ASSUME NEW p \in Peers, PeerDisconnected(p) PROVE Locks'
    BY <1>3, LocksSame DEF PeerDisconnected, blockstore
<1>4. ASSUME NEW k \in Blocks, Put(k) \/ Delete(k) PROVE Locks'
    BY <1>4, LocksSame DEF Put, Delete, ledgers
<1>5. ASSUME NEW k \in Blocks, AddBlock(k) PROVE Locks'
    BY <1>5 DEF AddBlock, Locks, ledgers, blockstore
<1>6. ASSUME NEW p \in Peers, AddBlockVisit(p) PROVE Locks'
    <2>1. msg[p] = NoMessage /\ UNCHANGED <<msg, adding>> /\ scan # NoScan
        BY <1>6 DEF AddBlockVisit, LockFree, ledgers, blockstore, NoScan
    <2>2. scan'.cid = scan.cid /\ scan'.left = scan.left \ {p}
        BY <1>6 DEF AddBlockVisit, Base, Types
    <2> QED BY <2>1, <2>2 DEF Locks
<1>7. CASE AddBlockEnd
    BY <1>7 DEF AddBlockEnd, Locks, ledgers
<1>8. ASSUME NEW w \in Workers, Offer(w) \/ MessageSent(w) \/ Sent(w) PROVE Locks'
    BY <1>8, LocksSame DEF Offer, MessageSent, Sent, ledgers, blockstore
<1>9. CASE Pop \/ WorkSignal \/ Tick \/ Envelope \/ GetFails \/ FailedDone
    BY <1>9, LocksSame DEF Pop, WorkSignal, Tick, Envelope, GetFails, FailedDone, ledgers, blockstore
<1> QED BY <1>1, <1>2, <1>3, <1>4, <1>5, <1>6, <1>7, <1>8, <1>9 DEF Next

-----------------------------------------------------------------------------
(* Each task has its request *)

LEMMA RequestsHold == ASSUME Base, Locks, Requests, Next PROVE Requests'
<1>1. CASE UNCHANGED <<live, requests, recancelled>>
    BY <1>1 DEF Requests
<1>2. ASSUME NEW p \in Peers, WantEnd(p) PROVE Requests'
    <2>1. msg[p].cid \in Blocks
        BY <1>2 DEF WantEnd, Locks
    <2> QED BY <1>1, <1>2, <2>1, PushCounts DEF WantEnd, queue
<1>3. ASSUME NEW p \in Peers, CancelEnd(p) PROVE Requests'
    <2>1. msg[p].cid \in Blocks
        BY <1>3 DEF CancelEnd, Locks
    <2> QED BY <1>3, <2>1, RemoveCounts DEF CancelEnd
<1>4. ASSUME NEW p \in Peers, AddBlockVisit(p) PROVE Requests'
    <2>1. CASE scan.cid \in wants[p]
        <3>1. scan.cid \in Blocks
            BY <2>1 DEF Base, Types
        <3> QED BY <1>4, <2>1, <3>1, PushCounts DEF AddBlockVisit
    <2> QED BY <1>1, <1>4, <2>1 DEF AddBlockVisit, queue
<1>5. CASE Pop
    <2>1. UNCHANGED recancelled
        BY <1>5 DEF Pop
    <2>2. ASSUME NEW p \in Peers, NEW k \in live[p],
                 live' = [live EXCEPT ![p] = @ \ {k}], requests' = [requests EXCEPT ![p] = @ - 1]
          PROVE  Requests'
        <3>1. IsFiniteSet(live[p] \ {k}) /\ Cardinality(live[p] \ {k}) = Cardinality(live[p]) - 1
            BY FS_RemoveElement DEF Requests
        <3>2. Cardinality(live[p]) \in Nat
            BY FS_CardinalityType DEF Requests
        <3> QED BY <2>1, <2>2, <3>1, <3>2 DEF Requests, Base, Types
    <2> QED BY <1>1, <1>5, <2>1, <2>2, PopTakes
<1>6. ASSUME NEW w \in Workers, MessageSent(w) PROVE Requests'
    BY <1>1, <1>6, MessageSentDoes DEF MessageSent, queue
<1>7. ASSUME NEW p \in Peers, NEW k \in Blocks, Cancel(p, k) \/ \E full \in BOOLEAN : Want(p, k, full)
      PROVE  UNCHANGED <<live, requests, recancelled>>
    BY <1>7 DEF Cancel, Want, queue
<1>8. ASSUME NEW p \in Peers, PeerDisconnected(p) PROVE UNCHANGED <<live, requests, recancelled>>
    BY <1>8 DEF PeerDisconnected, queue
<1>9. ASSUME NEW k \in Blocks, Put(k) \/ Delete(k) \/ AddBlock(k) PROVE UNCHANGED <<live, requests, recancelled>>
    BY <1>9 DEF Put, Delete, AddBlock, queue
<1>10. ASSUME NEW w \in Workers, Offer(w) \/ Sent(w) PROVE UNCHANGED <<live, requests, recancelled>>
    BY <1>10 DEF Offer, Sent, Done, queue
<1>11. CASE AddBlockEnd \/ WorkSignal \/ Tick \/ Envelope \/ GetFails \/ FailedDone
    BY <1>1, <1>11 DEF AddBlockEnd, WorkSignal, Tick, thawRound, Envelope, GetFails, FailedDone, Done, queue
<1> QED BY <1>1, <1>2, <1>3, <1>4, <1>5, <1>6, <1>7, <1>8, <1>9, <1>10, <1>11 DEF Next

-----------------------------------------------------------------------------
(* Each want has its task *)

LEMMA WantOnce ==
    ASSUME Base, Locks, Once, ~Rewants, NEW p \in Peers, NEW k \in Blocks, NEW full \in BOOLEAN, Want(p, k, full)
    PROVE  Once'
<1>1. /\ msg[p] = NoMessage /\ scan = NoScan /\ k \notin trash[p] \cup activeBlocks[p]
      /\ UNCHANGED <<store, adding, scan, live, trash, requests, activeBlocks, engine, work>>
    BY DEF Want, LockFree, EngineLockFree, blockstore, queue
<1>2. /\ \A q \in Peers : q # p => wants'[q] = wants[q] /\ msg'[q] = msg[q]
      /\ wants'[p] \subseteq wants[p] \cup {k}
    BY DEF Want, Base, Types
<1>4. msg'[p].kind = "want" /\ msg'[p].cid = k /\ (msg'[p].push <=> k \in store)
    BY DEF Want, Base, Types
<1>5. Kept'
    BY <1>1, <1>2, <1>4 DEF Once, Kept
<1>6. Fresh'
    BY <1>1, <1>2, <1>4 DEF Once, Fresh
<1>8. Served'
    <2>1. ASSUME NEW w \in Workers, work[w].at = "send" PROVE work[w].task.cid \notin wants'[work[w].task.peer]
        <3>1. work[w].task # NoTask /\ work[w].task \in Tasks
            BY <2>1 DEF Base, Types, Hands
        <3>2. PICK q \in Peers, j \in Blocks : work[w].task = T(q, j) /\ work[w].task.peer = q /\ work[w].task.cid = j
            BY <3>1, TaskShape
        <3>3. j \in activeBlocks[q] /\ j \notin wants[q]
            BY <2>1, <3>2 DEF Base, Counted, Held, Once, Served
        <3> QED BY <1>1, <1>2, <3>2, <3>3
    <2> QED BY <1>1, <2>1 DEF Served
<1>9. Tasked'
    <2>1. ASSUME NEW q \in Peers, NEW j \in wants'[q] \ Deletes
          PROVE  /\ j \in store' \ adding' /\ (msg'[q].kind = "want" => msg'[q].cid # j) => Has(q, j)'
                 /\ scan' # NoScan /\ scan'.cid = j /\ q \notin scan'.left => Has(q, j)'
                 /\ msg'[q].kind = "want" /\ msg'[q].cid = j /\ ~msg'[q].push /\ j \in store' => j \in adding'
        <3>1. CASE q # p
            BY <1>1, <1>2, <2>1, <3>1 DEF Once, Tasked, Has
        <3>2. CASE q = p /\ j = k
            BY <1>1, <1>4, <3>2
        <3>3. CASE q = p /\ j # k
            <4>1. j \in wants[p] /\ msg[p].kind # "want"
                BY <1>1, <1>2, <2>1, <3>3 DEF NoMessage
            <4> QED BY <1>1, <1>4, <2>1, <3>3, <4>1 DEF Once, Tasked, Has
        <3> QED BY <3>1, <3>2, <3>3
    <2> QED BY <2>1 DEF Tasked
<1> QED BY <1>5, <1>6, <1>8, <1>9 DEF Once

\* Fewer wants, with the queue as it is, need nothing more.
LEMMA FewerOnce ==
    ASSUME Base, Once, NEW p \in Peers,
           UNCHANGED <<store, adding, scan, live, trash, requests, activeBlocks, engine, work>>,
           \A q \in Peers : q # p => wants'[q] = wants[q] /\ msg'[q] = msg[q],
           wants'[p] \subseteq wants[p],
           msg[p].kind # "want", msg'[p].kind # "want", ~msg'[p].push,
           msg'[p].kind = "cancel" => msg'[p].cid \notin wants'[p]
    PROVE  Once'
<1>1. Kept' /\ Fresh'
    BY DEF Once, Kept, Fresh
<1>2. \A q \in Peers : wants'[q] \subseteq wants[q]
    OBVIOUS
<1>3. Served'
    <2>1. ASSUME NEW w \in Workers, work[w].at = "send" PROVE work[w].task.cid \notin wants'[work[w].task.peer]
        <3>1. work[w].task.peer \in Peers
            BY <2>1, TaskShape DEF Base, Types, Hands
        <3> QED BY <1>2, <2>1, <3>1 DEF Once, Served
    <2> QED BY <2>1 DEF Served
<1>4. Tasked'
    BY <1>2 DEF Once, Tasked, Has
<1> QED BY <1>1, <1>3, <1>4 DEF Once

LEMMA CancelOnce ==
    ASSUME Base, Once, NEW p \in Peers, NEW k \in Blocks, Cancel(p, k) \/ PeerDisconnected(p)
    PROVE  Once'
<1>1. /\ msg[p] = NoMessage
      /\ UNCHANGED <<store, adding, scan, live, trash, requests, activeBlocks, engine, work>>
    BY DEF Cancel, PeerDisconnected, LockFree, blockstore, queue
<1>2. msg[p].kind # "want" /\ msg[p].kind # "cancel" /\ ~msg[p].push
    BY <1>1 DEF NoMessage
<1>3. CASE Cancel(p, k)
    <2>1. /\ \A q \in Peers : q # p => wants'[q] = wants[q] /\ msg'[q] = msg[q]
          /\ wants'[p] = wants[p] \ {k}
          /\ msg'[p] = [kind |-> "cancel", cid |-> k, push |-> FALSE]
        BY <1>3 DEF Cancel, Base, Types
    <2> QED BY <1>1, <1>2, <2>1, FewerOnce
<1>4. CASE PeerDisconnected(p)
    <2>1. /\ \A q \in Peers : q # p => wants'[q] = wants[q]
          /\ wants'[p] = {} /\ msg' = msg
        BY <1>4 DEF PeerDisconnected, Base, Types
    <2> QED BY <1>1, <1>2, <2>1, FewerOnce
<1> QED BY <1>3, <1>4

LEMMA StoreOnce == ASSUME Base, Once, NEW k \in Blocks, Put(k) \/ Delete(k) PROVE Once'
<1>1. UNCHANGED <<scan, wants, msg, live, trash, requests, activeBlocks, engine, work>>
    BY DEF Put, Delete, ledgers, queue
<1>2. \/ store' = store \cup {k} /\ adding' = adding \cup {k}
      \/ store' = store \ {k} /\ adding' = adding /\ k \in Deletes
    BY DEF Put, Delete
<1>3. Kept' /\ Fresh' /\ Served'
    BY <1>1, <1>2 DEF Once, Kept, Fresh, Served
<1>4. Tasked'
    BY <1>1, <1>2 DEF Once, Tasked, Has
<1> QED BY <1>3, <1>4 DEF Once

LEMMA AddBlockOnce == ASSUME Base, Once, NEW k \in Blocks, AddBlock(k) PROVE Once'
<1>1. /\ UNCHANGED <<store, adding, wants, msg, live, trash, requests, activeBlocks, engine, work>>
      /\ scan'.left = Peers
    BY DEF AddBlock, blockstore, ledgers, queue
<1>2. Kept' /\ Fresh' /\ Served'
    BY <1>1 DEF Once, Kept, Fresh, Served
<1>3. Tasked'
    BY <1>1 DEF Once, Tasked, Has
<1> QED BY <1>2, <1>3 DEF Once

\* When AddBlock ends it has visited every ledger, and no handler is at work.
LEMMA AddBlockEndOnce == ASSUME Base, Locks, Once, AddBlockEnd PROVE Once'
<1>1. /\ UNCHANGED <<store, wants, msg, live, trash, requests, activeBlocks, engine, work>>
      /\ scan # NoScan /\ scan.left = {} /\ scan' = NoScan /\ adding' = adding \ {scan.cid}
    BY DEF AddBlockEnd, EngineLockFree, ledgers, queue
<1>2. \A p \in Peers : msg[p] = NoMessage
    BY <1>1 DEF Locks
<1>3. Kept' /\ Fresh' /\ Served'
    BY <1>1 DEF Once, Kept, Fresh, Served
<1>4. Tasked'
    BY <1>1, <1>2 DEF Once, Tasked, Has, NoMessage
<1> QED BY <1>3, <1>4 DEF Once

LEMMA WantEndOnce == ASSUME Base, Locks, Once, NEW p \in Peers, WantEnd(p) PROVE Once'
<1>0. PICK k \in Blocks : k = msg[p].cid
    BY DEF WantEnd, Locks
<1>1. /\ msg[p].kind = "want" /\ UNCHANGED <<store, adding, scan, wants, engine, work>>
      /\ msg' = [msg EXCEPT ![p] = NoMessage]
    BY DEF WantEnd, blockstore
<1>2. k \in Blocks /\ k = msg[p].cid
    BY <1>0
<1>3. /\ \A q \in Peers : q # p => msg'[q] = msg[q]
      /\ msg'[p].kind = "none" /\ ~msg'[p].push /\ msg'[p].cid = Nothing
    BY <1>1 DEF Base, Types, NoMessage
<1>4. msg' \in [Peers -> Messages]
    BY <1>1 DEF Base, Types, Messages, NoMessage
<1>5. /\ \A q \in Peers : live[q] \subseteq live'[q] /\ live'[q] \subseteq live[q] \cup {k}
      /\ \A q \in Peers : q # p => live'[q] = live[q]
      /\ msg[p].push => k \in live'[p] \cup trash[p] \cup activeBlocks[p]
      /\ ~msg[p].push => live' = live
      /\ UNCHANGED <<trash, activeBlocks>>
    <2>1. CASE msg[p].push
        <3>1. Push(p, k)
            BY <1>0, <2>1 DEF WantEnd
        <3> QED BY <1>1, <1>2, <1>4, <2>1, <3>1, PushKeeps DEF Base, Types
    <2>2. CASE ~msg[p].push
        BY <2>2 DEF WantEnd, queue
    <2> QED BY <2>1, <2>2
<1>7. Kept'
    <2>1. msg[p].push => k \in store \cup Deletes
        BY <1>0 DEF Once, Kept
    <2> QED BY <1>1, <1>3, <1>5, <2>1 DEF Once, Kept
<1>8. Fresh' /\ Served'
    BY <1>1, <1>3, <1>5 DEF Once, Fresh, Served
<1>9. Tasked'
    <2>1. ASSUME NEW q \in Peers, NEW j \in wants[q] \ Deletes
          PROVE  /\ j \in store \ adding /\ (msg'[q].kind = "want" => msg'[q].cid # j) => Has(q, j)'
                 /\ scan # NoScan /\ scan.cid = j /\ q \notin scan.left => Has(q, j)'
                 /\ msg'[q].kind = "want" /\ msg'[q].cid = j /\ ~msg'[q].push /\ j \in store => j \in adding
        <3>1. Has(q, j) => Has(q, j)'
            BY <1>5 DEF Has
        <3>2. CASE q # p \/ j # k
            BY <1>0, <1>1, <1>3, <2>1, <3>1, <3>2 DEF Once, Tasked
        <3>3. CASE q = p /\ j = k
            <4>1. k \notin trash[p]
                BY <2>1, <3>3 DEF Once, Fresh
            <4>2. msg[p].push => Has(p, k)'
                BY <1>5, <4>1 DEF Has
            <4>3. ~msg[p].push /\ k \in store => k \in adding
                BY <1>0, <1>1, <2>1, <3>3 DEF Once, Tasked
            <4>4. scan # NoScan /\ scan.cid = k /\ p \notin scan.left => Has(p, k)'
                BY <2>1, <3>1, <3>3 DEF Once, Tasked
            <4> QED BY <1>3, <3>3, <4>2, <4>3, <4>4
        <3> QED BY <3>2, <3>3
    <2> QED BY <1>1, <2>1 DEF Tasked
<1> QED BY <1>7, <1>8, <1>9 DEF Once

LEMMA CancelEndOnce == ASSUME Base, Locks, Once, NEW p \in Peers, CancelEnd(p) PROVE Once'
<1>0. PICK k \in Blocks : k = msg[p].cid
    BY DEF CancelEnd, Locks
<1>1. /\ msg[p].kind = "cancel" /\ UNCHANGED <<store, adding, scan, wants, engine, work>>
      /\ msg' = [msg EXCEPT ![p] = NoMessage] /\ Remove(p, k)
    BY <1>0 DEF CancelEnd, blockstore
<1>2. k \in Blocks /\ k \notin wants[p]
    BY <1>0, <1>1 DEF Once, Fresh
<1>3. /\ \A q \in Peers : q # p => msg'[q] = msg[q]
      /\ msg'[p].kind = "none" /\ ~msg'[p].push /\ msg' \in [Peers -> Messages]
    BY <1>1 DEF Base, Types, Messages, NoMessage
<1>4. /\ \A q \in Peers : live'[q] = IF q = p THEN live[q] \ {k} ELSE live[q]
      /\ \A q \in Peers : trash'[q] = IF q = p /\ k \in live[q] THEN trash[q] \cup {k} ELSE trash[q]
      /\ UNCHANGED activeBlocks
    <2>1. wants' \in [Peers -> SUBSET Blocks]
        BY <1>1 DEF Base, Types
    <2> QED BY <1>1, <1>2, <1>3, <2>1, RemoveKeeps
<1>6. Kept' /\ Served'
    BY <1>1, <1>3, <1>4 DEF Once, Kept, Served
<1>7. Fresh'
    <2>1. ASSUME NEW q \in Peers
          PROVE  /\ wants[q] \cap trash'[q] = {}
                 /\ msg'[q].kind = "cancel" => msg'[q].cid \notin wants[q]
        <3>1. CASE q = p
            <4>1. wants[p] \cap trash[p] = {}
                BY DEF Once, Fresh
            <4>2. trash'[p] \subseteq trash[p] \cup {k}
                BY <1>4
            <4> QED BY <1>2, <1>3, <3>1, <4>1, <4>2
        <3>2. CASE q # p
            BY <1>3, <1>4, <3>2 DEF Once, Fresh
        <3> QED BY <3>1, <3>2
    <2> QED BY <1>1, <2>1 DEF Fresh
<1>8. Tasked'
    <2>1. \A q \in Peers : \A j \in wants[q] : Has(q, j) => Has(q, j)'
        BY <1>2, <1>4 DEF Has
    <2> QED BY <1>1, <1>3, <2>1 DEF Once, Tasked
<1> QED BY <1>6, <1>7, <1>8 DEF Once

LEMMA AddBlockVisitOnce == ASSUME Base, Locks, Once, NEW p \in Peers, AddBlockVisit(p) PROVE Once'
<1> DEFINE c == scan.cid
<1>1. /\ scan # NoScan /\ p \in scan.left /\ UNCHANGED <<store, adding, wants, msg, engine, work>>
    BY DEF AddBlockVisit, blockstore, ledgers, NoScan
<1>2. c \in adding /\ c \in Blocks
    BY <1>1 DEF Locks, Base, Types
<1>3. /\ scan' \in [cid : Blocks \cup {Nothing}, left : SUBSET Peers, work : BOOLEAN]
      /\ scan'.cid = c /\ scan'.left = scan.left \ {p}
    BY DEF AddBlockVisit, Base, Types
<1>4. /\ \A q \in Peers : live[q] \subseteq live'[q] /\ live'[q] \subseteq live[q] \cup {c}
      /\ \A q \in Peers : q # p => live'[q] = live[q]
      /\ c \in wants[p] => c \in live'[p] \cup trash[p] \cup activeBlocks[p]
      /\ UNCHANGED <<trash, activeBlocks>>
    <2>1. CASE c \in wants[p]
        <3>1. Push(p, c)
            BY <2>1 DEF AddBlockVisit
        <3> QED BY <1>1, <1>2, <1>3, <3>1, PushKeeps DEF Base, Types
    <2>2. CASE c \notin wants[p]
        BY <2>2 DEF AddBlockVisit, queue
    <2> QED BY <2>1, <2>2
<1>6. Kept'
    BY <1>1, <1>2, <1>4 DEF Once, Kept
<1>7. Fresh' /\ Served'
    BY <1>1, <1>4 DEF Once, Fresh, Served
<1>8. Tasked'
    <2>1. ASSUME NEW q \in Peers, NEW j \in wants[q] \ Deletes
          PROVE  /\ j \in store \ adding /\ (msg[q].kind = "want" => msg[q].cid # j) => Has(q, j)'
                 /\ scan'.cid = j /\ q \notin scan'.left => Has(q, j)'
                 /\ msg[q].kind = "want" /\ msg[q].cid = j /\ ~msg[q].push /\ j \in store => j \in adding
        <3>1. Has(q, j) => Has(q, j)'
            BY <1>4 DEF Has
        <3>2. scan'.cid = j /\ q \notin scan'.left => Has(q, j)'
            <4>1. CASE q = p /\ j = c
                <5>1. c \notin trash[p]
                    BY <2>1, <4>1 DEF Once, Fresh
                <5> QED BY <1>4, <2>1, <4>1, <5>1 DEF Has
            <4>2. CASE q # p \/ j # c
                BY <1>1, <1>3, <2>1, <3>1, <4>2 DEF Once, Tasked
            <4> QED BY <4>1, <4>2
        <3> QED BY <2>1, <3>1, <3>2 DEF Once, Tasked
    <2> QED BY <1>1, <2>1 DEF Tasked
<1> QED BY <1>6, <1>7, <1>8 DEF Once

\* The steps of the engine that take no task and leave the wants alone.
LEMMA EngineOnce ==
    ASSUME Base, Once, NEW w \in Workers, Offer(w) \/ WorkSignal \/ Tick \/ Envelope \/ GetFails
    PROVE  Once'
<1>1. UNCHANGED <<store, adding, scan, wants, msg, live, trash, requests, activeBlocks>>
    BY DEF Offer, WorkSignal, Tick, Envelope, GetFails, thawRound, ledgers, blockstore, queue
<1>2. Fresh' /\ Tasked'
    BY <1>1 DEF Once, Fresh, Tasked, Has
<1>3. Served'
    <2>1. \A v \in Workers : work'[v].at = "send" => work[v].at = "send" /\ work'[v] = work[v]
        <3>1. CASE Offer(w)
            BY <3>1 DEF Offer, Base, Types
        <3>2. CASE Envelope
            BY <3>2 DEF Envelope, Base, Types
        <3>3. CASE WorkSignal \/ Tick \/ GetFails
            BY <3>3 DEF WorkSignal, Tick, GetFails
        <3> QED BY <3>1, <3>2, <3>3
    <2> QED BY <1>1, <2>1 DEF Once, Served
<1>4. Kept'
    <2>1. engine'.at = "failed" => GetFails
        BY DEF Offer, WorkSignal, Tick, Envelope, Base, Types
    <2>2. GetFails => engine'.task = engine.task /\ engine.task.cid \in Deletes
        <3>1. SUFFICES ASSUME GetFails PROVE engine'.task = engine.task /\ engine.task.cid \in Deletes
            OBVIOUS
        <3>2. engine.at = "get" /\ engine.task.cid \notin store /\ engine'.task = engine.task
            BY <3>1 DEF GetFails, Base, Types
        <3>3. engine.task # NoTask /\ engine.task \in Tasks
            BY <3>2 DEF Base, Types, Hands
        <3>4. engine.task.cid \in activeBlocks[engine.task.peer] /\ engine.task.peer \in Peers
            BY <3>3, TaskShape DEF Base, Counted, Held
        <3> QED BY <3>2, <3>4 DEF Once, Kept
    <2> QED BY <1>1, <2>1, <2>2 DEF Once, Kept
<1> QED BY <1>2, <1>3, <1>4 DEF Once

LEMMA PopOnce == ASSUME Base, Once, Pop PROVE Once'
<1>1. UNCHANGED <<store, adding, scan, wants, msg, work>>
    BY DEF Pop, ledgers, blockstore
<1>2. /\ \A p \in Peers : trash'[p] \subseteq trash[p]
      /\ \A p \in Peers : live'[p] \subseteq live[p] /\ live'[p] \cup activeBlocks'[p] = live[p] \cup activeBlocks[p]
      /\ engine'.at # "failed"
      /\ \/ live' = live /\ requests' = requests
         \/ \E p \in Peers : \E k \in live[p] :
              live' = [live EXCEPT ![p] = @ \ {k}] /\ requests' = [requests EXCEPT ![p] = @ - 1]
    <2>1. CASE /\ live' = live /\ requests' = requests /\ UNCHANGED <<active, activeBlocks>>
               /\ engine' = [engine EXCEPT !.at = "wait"]
               /\ trash' \in [Peers -> SUBSET Blocks] /\ \A q \in Peers : trash'[q] \subseteq trash[q]
        BY <2>1 DEF Base, Types
    <2>2. ASSUME NEW p \in Peers, NEW k \in live[p],
                 live' = [live EXCEPT ![p] = @ \ {k}], requests' = [requests EXCEPT ![p] = @ - 1],
                 activeBlocks' = [activeBlocks EXCEPT ![p] = @ \cup {k}],
                 \A q \in Peers : trash'[q] \subseteq trash[q],
                 engine' = [engine EXCEPT !.at = "get", !.task = T(p, k)]
          PROVE  /\ \A q \in Peers : live'[q] \subseteq live[q] /\ live'[q] \cup activeBlocks'[q] = live[q] \cup activeBlocks[q]
                 /\ engine'.at # "failed"
        BY <2>2 DEF Base, Types
    <2> QED BY <2>1, <2>2, PopTakes
<1>4. Kept' /\ Fresh' /\ Served'
    BY <1>1, <1>2 DEF Once, Kept, Fresh, Served
<1>5. Tasked'
    BY <1>1, <1>2 DEF Once, Tasked, Has
<1> QED BY <1>4, <1>5 DEF Once

\* A task that fails is for a block that may go.
LEMMA FailedDoneOnce == ASSUME Base, Once, FailedDone PROVE Once'
<1>0. PICK t \in Tasks : t = engine.task
    BY DEF Base, Types
<1>1. /\ engine.at = "failed" /\ Done(t) /\ engine' = [engine EXCEPT !.at = "pop", !.task = NoTask]
      /\ UNCHANGED <<store, adding, scan, wants, msg, live, trash, requests, work>>
    BY <1>0 DEF FailedDone, Done, blockstore, ledgers
<1>2. t \in Tasks /\ t # NoTask /\ t.peer \in Peers /\ t.cid \in Deletes
    BY <1>0, <1>1, TaskShape DEF Base, Hands, Once, Kept
<1>3. \A q \in Peers : activeBlocks'[q] \subseteq activeBlocks[q] /\ activeBlocks[q] \subseteq activeBlocks'[q] \cup {t.cid}
    BY <1>1, <1>2 DEF Done, Base, Types
<1>4. engine'.at # "failed"
    BY <1>1 DEF Base, Types
<1>5. Kept' /\ Fresh' /\ Served'
    BY <1>1, <1>3, <1>4 DEF Once, Kept, Fresh, Served
<1>6. Tasked'
    BY <1>1, <1>2, <1>3 DEF Once, Tasked, Has
<1> QED BY <1>5, <1>6 DEF Once

LEMMA MessageSentOnce == ASSUME Base, Once, NEW w \in Workers, MessageSent(w) PROVE Once'
<1>1. PICK p \in Peers, k \in Blocks :
        /\ work[w].task = T(p, k) /\ work[w].at = "ledger"
        /\ wants' = [wants EXCEPT ![p] = @ \ {k}] /\ work' = [work EXCEPT ![w].at = "send"]
        /\ UNCHANGED <<store, adding, scan, msg, engine, queue>>
    BY MessageSentDoes
<1>2. UNCHANGED <<live, trash, requests, activeBlocks>>
    BY <1>1 DEF queue
<1>3. \A q \in Peers : wants'[q] \subseteq wants[q]
    BY <1>1 DEF Base, Types
<1>4. k \notin wants'[p]
    BY <1>1 DEF Base, Types
<1>5. Kept' /\ Fresh'
    BY <1>1, <1>2, <1>3 DEF Once, Kept, Fresh
<1>6. Served'
    <2>1. ASSUME NEW v \in Workers, work'[v].at = "send" PROVE work'[v].task.cid \notin wants'[work'[v].task.peer]
        <3>1. CASE v = w
            <4>1. work'[v].task = T(p, k)
                BY <1>1, <3>1 DEF Base, Types
            <4> QED BY <1>4, <4>1, TaskShape
        <3>2. CASE v # w
            <4>1. work'[v] = work[v]
                BY <1>1, <3>2 DEF Base, Types
            <4>2. work[v].task.peer \in Peers
                BY <2>1, <4>1, TaskShape DEF Base, Types, Hands
            <4> QED BY <1>3, <2>1, <4>1, <4>2 DEF Once, Served
        <3> QED BY <3>1, <3>2
    <2> QED BY <2>1 DEF Served
<1>7. Tasked'
    BY <1>1, <1>2, <1>3 DEF Once, Tasked, Has
<1> QED BY <1>5, <1>6, <1>7 DEF Once

\* Whose block was sent no longer wants it.
LEMMA SentOnce == ASSUME Base, Once, NEW w \in Workers, Sent(w) PROVE Once'
<1>0. PICK t \in Tasks : t = work[w].task
    BY DEF Base, Types
<1>1. /\ work[w].at = "send" /\ Done(t) /\ work' = [work EXCEPT ![w] = [at |-> "idle", task |-> NoTask]]
      /\ UNCHANGED <<store, adding, scan, wants, msg, live, trash, requests, engine>>
    BY <1>0 DEF Sent, Done, blockstore, ledgers
<1>2. t.peer \in Peers /\ t.cid \notin wants[t.peer]
    BY <1>0, <1>1, TaskShape DEF Base, Hands, Once, Served
<1>3. \A q \in Peers : activeBlocks'[q] = IF q = t.peer THEN activeBlocks[q] \ {t.cid} ELSE activeBlocks[q]
    BY <1>1, <1>2 DEF Done, Base, Types
<1>4. \A v \in Workers : work'[v].at = "send" => v # w /\ work'[v] = work[v]
    BY <1>1 DEF Base, Types
<1>5. Kept' /\ Fresh'
    BY <1>1, <1>3 DEF Once, Kept, Fresh
<1>6. Served'
    BY <1>1, <1>4 DEF Once, Served
<1>7. Tasked'
    <2>1. \A q \in Peers : \A j \in wants[q] : Has(q, j) => Has(q, j)'
        BY <1>1, <1>2, <1>3 DEF Has
    <2> QED BY <1>1, <2>1 DEF Once, Tasked
<1> QED BY <1>5, <1>6, <1>7 DEF Once

-----------------------------------------------------------------------------
(* The counters, the ticker's values and the signal, whose ranges nothing else needs *)

Rest ==
    /\ puts \in 0 .. MaxPuts /\ received \in 0 .. MaxMessages
    /\ freezeVal \in [Peers -> Nat] /\ frozen \subseteq Peers
    /\ signal \in BOOLEAN
    /\ recancelled \subseteq Peers

LEMMA RestKept == ASSUME Base, Rest, [Next]_vars PROVE Rest'
<1>0. recancelled' \subseteq Peers
    BY DEF Next, vars, Rest, Want, Cancel, WantEnd, CancelEnd, PeerDisconnected, Put, Delete, AddBlock,
           AddBlockVisit, AddBlockEnd, Offer, MessageSent, Sent, Pop, WorkSignal, Tick, Envelope,
           GetFails, FailedDone
<1>1. CASE UNCHANGED <<freezeVal, frozen>>
    <2>1. signal' \in BOOLEAN
        BY DEF Next, vars, Rest, Want, Cancel, WantEnd, CancelEnd, PeerDisconnected, Put, Delete, AddBlock,
               AddBlockVisit, AddBlockEnd, Offer, MessageSent, Sent, Pop, WorkSignal, Tick, Envelope,
               GetFails, FailedDone
    <2>2. puts' \in 0 .. MaxPuts /\ received' \in 0 .. MaxMessages
        <3>1. MaxPuts \in Nat /\ MaxMessages \in Nat
            BY BitswapEngineAssumption
        <3>2. \/ UNCHANGED <<puts, received>>
              \/ puts < MaxPuts /\ puts' = puts + 1 /\ received' = received
              \/ received < MaxMessages /\ received' = received + 1 /\ puts' = puts
            BY DEF Next, vars, ledgers, blockstore, Want, Cancel, WantEnd, CancelEnd, PeerDisconnected, Put,
                   Delete, AddBlock, AddBlockVisit, AddBlockEnd, Offer, MessageSent, Sent, Pop, WorkSignal,
                   Tick, Envelope, GetFails, FailedDone
        <3> QED BY <3>1, <3>2 DEF Rest
    <2> QED BY <1>0, <1>1, <2>1, <2>2 DEF Rest
<1>2. CASE Tick
    <2>1. \A n \in Nat : Thawed(n) \in Nat
        BY DEF Thawed
    <2> QED BY <1>2, <2>1 DEF Tick, thawRound, Rest, ledgers, blockstore
<1>3. ASSUME NEW p \in Peers, NEW k, Remove(p, k), UNCHANGED <<puts, received, signal>> PROVE Rest'
    BY <1>0, <1>3 DEF Remove, Rest, queue
<1>4. CASE \E p \in Peers : CancelEnd(p)
    BY <1>3, <1>4 DEF CancelEnd, blockstore
<1>5. CASE \E w \in Workers : MessageSent(w)
    <2>1. PICK w \in Workers : MessageSent(w)
        BY <1>5
    <2>2. UNCHANGED queue
        BY <2>1, MessageSentDoes
    <2> QED BY <2>1, <2>2 DEF MessageSent, Rest, blockstore, queue
<1>6. [Next]_vars => \/ UNCHANGED <<freezeVal, frozen>> \/ Tick
                     \/ \E p \in Peers : CancelEnd(p)
                     \/ \E w \in Workers : MessageSent(w)
    <2>1. ASSUME NEW p \in Peers, NEW k \in Blocks, Cancel(p, k) \/ \E full \in BOOLEAN : Want(p, k, full)
          PROVE  UNCHANGED <<freezeVal, frozen>>
        BY <2>1 DEF Cancel, Want, queue
    <2>2. ASSUME NEW p \in Peers, WantEnd(p) \/ PeerDisconnected(p) \/ AddBlockVisit(p) PROVE UNCHANGED <<freezeVal, frozen>>
        BY <2>2 DEF WantEnd, PeerDisconnected, AddBlockVisit, Push, queue
    <2>3. ASSUME NEW k \in Blocks, Put(k) \/ Delete(k) \/ AddBlock(k) PROVE UNCHANGED <<freezeVal, frozen>>
        BY <2>3 DEF Put, Delete, AddBlock, queue
    <2>4. ASSUME NEW w \in Workers, Offer(w) \/ Sent(w) PROVE UNCHANGED <<freezeVal, frozen>>
        BY <2>4 DEF Offer, Sent, Done, queue
    <2>5. CASE AddBlockEnd \/ Envelope \/ GetFails \/ FailedDone \/ WorkSignal
        BY <2>5 DEF AddBlockEnd, Envelope, GetFails, FailedDone, WorkSignal, Done, queue
    <2>6. CASE Pop
        BY <2>6 DEF Pop, PopNothing, PopTask, queue
    <2>7. CASE UNCHANGED vars
        BY <2>7 DEF vars, queue
    <2> QED BY <2>1, <2>2, <2>3, <2>4, <2>5, <2>6, <2>7 DEF Next
<1> QED BY <1>1, <1>2, <1>4, <1>5, <1>6

-----------------------------------------------------------------------------
(* The invariant *)

LEMMA InitInv == Init => IInv /\ Rest
<1>1. SUFFICES ASSUME Init PROVE IInv /\ Rest
    OBVIOUS
<1>2. IsFiniteSet({}) /\ Cardinality({}) = 0
    BY FS_EmptySet
<1>3. Types
    BY <1>1, TaskShape, BitswapEngineAssumption DEF Init, Types, Messages, NoMessage, NoScan
<1>4. Hands /\ Single /\ Queued /\ Locks
    BY <1>1 DEF Init, Hands, Single, Queued, Locks, NoMessage
<1>5. Counted
    BY <1>1, <1>2, TaskShape DEF Init, Counted, Held
<1>6. Kept /\ Fresh /\ Served /\ Tasked
    BY <1>1 DEF Init, Kept, Fresh, Served, Tasked, NoMessage
<1>7. Requests /\ recancelled \subseteq Peers
    BY <1>1, <1>2 DEF Init, Requests
<1>8. Rest
    <2>1. MaxPuts \in Nat /\ MaxMessages \in Nat
        BY BitswapEngineAssumption
    <2>2. puts \in 0 .. MaxPuts /\ received \in 0 .. MaxMessages
        BY <1>1, <2>1 DEF Init
    <2>3. freezeVal \in [Peers -> Nat] /\ frozen \subseteq Peers
        BY <1>1 DEF Init
    <2>4. signal \in BOOLEAN
        BY <1>1 DEF Init
    <2> QED BY <1>7, <2>2, <2>3, <2>4 DEF Rest
<1> QED BY <1>3, <1>4, <1>5, <1>6, <1>7, <1>8 DEF IInv, Base, Once

LEMMA NextInv == ASSUME IInv, [Next]_vars PROVE IInv'
<1> USE DEF IInv
<1>1. CASE UNCHANGED vars
    <2>1. UNCHANGED <<store, adding, scan, wants, msg, live, trash, requests, active, activeBlocks, engine, work>>
        BY <1>1 DEF vars, queue, ledgers, blockstore
    <2>2. Types' /\ Locks'
        BY <2>1 DEF Base, Types, Locks
    <2>3. Base'
        BY <1>1, <2>2, BaseSame DEF vars
    <2>5. Requests'
        BY <1>1 DEF vars, queue, Requests
    <2>4. Kept' /\ Fresh' /\ Served' /\ Tasked' <=> Kept /\ Fresh /\ Served /\ Tasked
        BY <2>1 DEF Kept, Fresh, Served, Tasked, Has
    <2> QED BY <2>2, <2>3, <2>4, <2>5 DEF Once
<1>2. ASSUME Next PROVE IInv'
    <2>1. ASSUME NEW p \in Peers, NEW k \in Blocks, Cancel(p, k) PROVE Base' /\ (~Rewants => Once')
        BY <2>1, LedgerBase, CancelOnce
    <2>2. ASSUME NEW p \in Peers, NEW k \in Blocks, NEW full \in BOOLEAN, Want(p, k, full)
          PROVE  Base' /\ (~Rewants => Once')
        BY <2>2, LedgerBase, WantOnce
    <2>3. ASSUME NEW p \in Peers, WantEnd(p) PROVE Base' /\ (~Rewants => Once')
        BY <2>3, WantEndBase, WantEndOnce
    <2>4. ASSUME NEW p \in Peers, CancelEnd(p) PROVE Base' /\ (~Rewants => Once')
        BY <2>4, CancelEndBase, CancelEndOnce
    <2>5. ASSUME NEW p \in Peers, PeerDisconnected(p) PROVE Base' /\ (~Rewants => Once')
        <3>1. wants[p] # {} /\ wants[p] \subseteq Blocks
            BY <2>5 DEF PeerDisconnected, Base, Types
        <3>2. PICK k \in Blocks : TRUE
            BY <3>1
        <3> QED BY <2>5, <3>2, LedgerBase, CancelOnce
    <2>6. ASSUME NEW k \in Blocks, Put(k) \/ Delete(k) \/ AddBlock(k) PROVE Base' /\ (~Rewants => Once')
        <3>1. Types'
            <4>1. UNCHANGED <<wants, msg, live, trash, requests, active, activeBlocks, engine, work>>
                BY <2>6 DEF Put, Delete, AddBlock, ledgers, queue
            <4>2. store' \subseteq Blocks /\ adding' \subseteq Blocks
                BY <2>6 DEF Put, Delete, AddBlock, blockstore, Base, Types
            <4>3. scan' \in [cid : Blocks \cup {Nothing}, left : SUBSET Peers, work : BOOLEAN]
                <5>1. CASE AddBlock(k)
                    BY <5>1 DEF AddBlock
                <5>2. CASE Put(k) \/ Delete(k)
                    BY <5>2 DEF Put, Delete, Base, Types
                <5> QED BY <2>6, <5>1, <5>2
            <4> QED BY <4>1, <4>2, <4>3 DEF Base, Types
        <3>2. Base'
            BY <2>6, <3>1, BaseSame DEF Put, Delete, AddBlock
        <3> QED BY <2>6, <3>2, StoreOnce, AddBlockOnce
    <2>7. ASSUME NEW p \in Peers, AddBlockVisit(p) PROVE Base' /\ (~Rewants => Once')
        BY <2>7, AddBlockVisitBase, AddBlockVisitOnce
    <2>8. ASSUME AddBlockEnd PROVE Base' /\ (~Rewants => Once')
        <3>1. Types'
            <4>1. UNCHANGED <<store, wants, msg, live, trash, requests, active, activeBlocks, engine, work>>
                  /\ adding' = adding \ {scan.cid} /\ scan' = NoScan
                BY <2>8 DEF AddBlockEnd, ledgers, queue
            <4>2. scan' \in [cid : Blocks \cup {Nothing}, left : SUBSET Peers, work : BOOLEAN]
                BY <4>1 DEF NoScan
            <4> QED BY <4>1, <4>2 DEF Base, Types
        <3>2. Base'
            BY <2>8, <3>1, BaseSame DEF AddBlockEnd
        <3> QED BY <2>8, <3>2, AddBlockEndOnce
    <2>9. ASSUME NEW w \in Workers, Offer(w) PROVE Base' /\ (~Rewants => Once')
        BY <2>9, OfferBase, EngineOnce
    <2>10. ASSUME NEW w \in Workers, MessageSent(w) PROVE Base' /\ (~Rewants => Once')
        BY <2>10, MessageSentBase, MessageSentOnce
    <2>11. ASSUME NEW w \in Workers, Sent(w) PROVE Base' /\ (~Rewants => Once')
        BY <2>11, SentBase, SentOnce
    <2>12. ASSUME Pop PROVE Base' /\ (~Rewants => Once')
        BY <2>12, PopBase, PopOnce
    <2>13. ASSUME WorkSignal \/ Tick \/ Envelope \/ GetFails PROVE Base' /\ (~Rewants => Once')
        <3>1. engine.to \in Workers
            BY <2>13 DEF WorkSignal, Tick, Envelope, GetFails, Base, Hands
        <3> QED BY <2>13, <3>1, WakeBase, EnvelopeBase, GetFailsBase, EngineOnce
    <2>14. ASSUME FailedDone PROVE Base' /\ (~Rewants => Once')
        BY <2>14, FailedDoneBase, FailedDoneOnce
    <2>15. Base' /\ (~Rewants => Once')
        BY <1>2, <2>1, <2>2, <2>3, <2>4, <2>5, <2>6, <2>7, <2>8, <2>9, <2>10, <2>11, <2>12, <2>13, <2>14 DEF Next
    <2> QED BY <1>2, <2>15, LocksHold, RequestsHold
<1> QED BY <1>1, <1>2

\* The invariant holds of every behaviour, for any peers, blocks, workers and bounds.
THEOREM Invariant == Spec => [](IInv /\ Rest)
<1>1. IInv /\ Rest /\ [Next]_vars => IInv' /\ Rest'
    BY NextInv, RestKept DEF IInv
<1> QED BY InitInv, <1>1, PTL DEF Spec

\* Variables keep their types (BitswapEngine's TypeOK).
THEOREM Typing == Spec => []TypeOK
<1>1. IInv /\ Rest => TypeOK
    <2>1. SUFFICES ASSUME IInv, Rest PROVE TypeOK
        OBVIOUS
    <2>2. active \in [Peers -> Nat]
        BY <2>1, FS_CardinalityType DEF IInv, Base, Types, Counted
    <2>3. \A p \in Peers : live[p] \cap trash[p] = {}
        BY <2>1 DEF IInv, Base, Queued
    <2> QED BY <2>1, <2>2, <2>3 DEF TypeOK, Rest, IInv, Base, Types, Messages
<1> QED BY Invariant, <1>1, PTL

\* TaskDone (peer_request_queue.go) never finishes more tasks than were started, and no
\* block is sent twice to a peer at the same time: what is active is what is in hand.
THEOREM EachTaskStartsOnce == Spec => []StartedOnce
<1>1. IInv => StartedOnce
    <2>1. SUFFICES ASSUME IInv, NEW p \in Peers
                   PROVE  active[p] = Cardinality(InHand(p)) /\ activeBlocks[p] = InHand(p)
        BY DEF StartedOnce
    <2>2. activeBlocks[p] \subseteq Blocks
        BY <2>1 DEF IInv, Base, Types
    <2>3. \A k \in Blocks : k \in activeBlocks[p] <=> k \in InHand(p)
        BY <2>1 DEF IInv, Base, Counted, Held, InHand, T
    <2>4. activeBlocks[p] = InHand(p)
        BY <2>2, <2>3 DEF InHand
    <2> QED BY <2>1, <2>4 DEF IInv, Base, Counted
<1> QED BY Invariant, <1>1, PTL

\* The count that ranks a peer against the others (partnerCompare) is the number of its
\* tasks that wait, whatever peers ask, ask again and cancel; but for a peer whose cancel
\* has met a task that was trash already it may be less, and never more.
THEOREM RequestsAreCounted == Spec => []RequestsCounted
<1>1. IInv => RequestsCounted
    BY DEF IInv, Requests, RequestsCounted
<1> QED BY Invariant, <1>1, PTL

\* Neither the race of MessageReceived's Has with Put and AddBlock, nor cancels, the
\* trash of the queue, or a task that fails, leaves a want for a block that stays
\* without a task, when no peer asks again for what is still queued or being sent to it.
THEOREM WantsAreQueued == ASSUME Rewants = FALSE PROVE Spec => []WantQueued
<1>1. IInv => WantQueued
    <2>1. SUFFICES ASSUME IInv, NEW p \in Peers, NEW k \in wants[p], k \in store \ (adding \cup Deletes), LockFree(p)
                   PROVE  k \in live[p] \cup activeBlocks[p]
        BY DEF WantQueued
    <2>2. msg[p].kind # "want"
        BY <2>1 DEF LockFree, NoMessage
    <2> QED BY <2>1, <2>2 DEF IInv, Once, Tasked, Has
<1> QED BY Invariant, <1>1, PTL
=============================================================================
