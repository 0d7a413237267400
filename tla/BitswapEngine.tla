--------------------------- MODULE BitswapEngine ---------------------------
(***************************************************************************)
(* The side of Bitswap that serves other peers: the decision engine        *)
(* (exchange/bitswap/decision/engine.go), its peer request queue           *)
(* (peer_request_queue.go) and the task workers that send what it decides  *)
(* (exchange/bitswap/workers.go).                                          *)
(*                                                                         *)
(* A ledger is the set of blocks its peer wants; byte counts are left out. *)
(* Want priorities are left out: Pop may take any task of the partner it   *)
(* chooses.  A message carries one entry; one of several entries is        *)
(* several of these without another message of that peer in between.       *)
(* Every peer has a partner record from the start; the code creates it at  *)
(* the first Push, and until then it holds no task and no count.           *)
(***************************************************************************)
EXTENDS Integers, FiniteSets

CONSTANTS
    Peers,
    Blocks,
    Workers,        \* Bitswap's task workers
    Nothing,        \* no block, no peer
    Rewants,        \* may a peer ask again for a block whose earlier request is still queued or sent
    Stores,         \* what the blockstore may hold at the start
    Deletes,        \* the blocks that may leave the blockstore
    MaxMessages,    \* bound: messages received
    MaxPuts         \* bound: blocks put

ASSUME BitswapEngineAssumption ==
    /\ Nothing \notin Peers \cup Blocks \cup Workers
    /\ Rewants \in BOOLEAN
    /\ Deletes \subseteq Blocks /\ Stores \subseteq SUBSET Blocks
    /\ MaxMessages \in Nat
    /\ MaxPuts \in Nat

VARIABLES
    store,          \* the blockstore
    adding,         \* blocks put whose AddBlock has not run yet
    scan,           \* AddBlock: its block and the ledgers left to visit; it holds Engine.lock
    wants,          \* wants[p]: the want list in p's ledger
    msg,            \* msg[p]: the message whose handler holds p's ledger lock
    live,           \* live[p]: tasks in p's queue
    trash,          \* trash[p]: tasks in p's queue that Remove has marked
    requests, freezeVal, active, activeBlocks,      \* activePartner
    frozen,         \* prq.frozen
    engine,         \* Engine.taskWorker: what it does, its task and who waits for it
    work,           \* work[w]: what a task worker does
    signal,         \* workSignal holds a value
    recancelled,    \* history: peers whose cancel has met a task that was trash already
    received, puts  \* counters of the bounds

queue == <<live, trash, requests, freezeVal, active, activeBlocks, frozen>>
ledgers == <<wants, msg, received>>
blockstore == <<store, adding, puts>>
vars == <<blockstore, scan, ledgers, queue, engine, work, signal, recancelled>>

NoTask == [peer |-> Nothing, cid |-> Nothing]
Tasks == [peer : Peers, cid : Blocks] \cup {NoTask}
NoMessage == [kind |-> "none", cid |-> Nothing, push |-> FALSE]
NoScan == [cid |-> Nothing, left |-> {}, work |-> FALSE]

TypeOK ==
    /\ store \subseteq Blocks /\ adding \subseteq Blocks /\ puts \in 0 .. MaxPuts
    /\ scan \in [cid : Blocks \cup {Nothing}, left : SUBSET Peers, work : BOOLEAN]
    /\ wants \in [Peers -> SUBSET Blocks]
    /\ msg \in [Peers -> [kind : {"none", "want", "cancel"}, cid : Blocks \cup {Nothing}, push : BOOLEAN]]
    /\ live \in [Peers -> SUBSET Blocks] /\ trash \in [Peers -> SUBSET Blocks]
    /\ \A p \in Peers : live[p] \cap trash[p] = {}
    /\ requests \in [Peers -> Int] /\ freezeVal \in [Peers -> Nat]
    /\ active \in [Peers -> Nat] /\ activeBlocks \in [Peers -> SUBSET Blocks]
    /\ frozen \subseteq Peers
    /\ engine \in [at : {"offer", "pop", "wait", "get", "failed"}, task : Tasks, to : Workers \cup {Nothing}]
    /\ work \in [Workers -> [at : {"idle", "ready", "ledger", "send"}, task : Tasks]]
    /\ signal \in BOOLEAN
    /\ recancelled \subseteq Peers
    /\ received \in 0 .. MaxMessages

Init ==
    /\ store \in Stores /\ adding = {} /\ puts = 0
    /\ scan = NoScan
    /\ wants = [p \in Peers |-> {}]
    /\ msg = [p \in Peers |-> NoMessage]
    /\ received = 0
    /\ live = [p \in Peers |-> {}] /\ trash = [p \in Peers |-> {}]
    /\ requests = [p \in Peers |-> 0] /\ freezeVal = [p \in Peers |-> 0]
    /\ active = [p \in Peers |-> 0] /\ activeBlocks = [p \in Peers |-> {}]
    /\ frozen = {}
    /\ engine = [at |-> "offer", task |-> NoTask, to |-> Nothing]
    /\ work = [w \in Workers |-> [at |-> "idle", task |-> NoTask]]
    /\ signal = FALSE
    /\ recancelled = {}

-----------------------------------------------------------------------------
(* The peer request queue; each operation holds prq.lock throughout.       *)

\* peer a's partner goes before peer b's
partnerCompare(a, b) ==
    /\ requests[a] # 0
    /\ \/ requests[b] = 0
       \/ freezeVal[a] < freezeVal[b]
       \/ /\ freezeVal[a] = freezeVal[b]
          /\ \/ active[a] < active[b]
             \/ /\ active[a] = active[b]
                /\ Cardinality(live[a] \cup trash[a]) > Cardinality(live[b] \cup trash[b])

\* the partners that may be on top of the heap
First == {p \in Peers : \A q \in Peers : ~ partnerCompare(q, p)}

MutPush(p, k) ==
    /\ IF k \in live[p] \cup trash[p]
         THEN UNCHANGED <<live, requests>>
         ELSE /\ live' = [live EXCEPT ![p] = @ \cup {k}]
              /\ requests' = [requests EXCEPT ![p] = @ + 1]
    /\ UNCHANGED <<trash, freezeVal, active, activeBlocks, frozen>>

Push(p, k) ==
    /\ IF k \in activeBlocks[p] \cup live[p] \cup trash[p]
         THEN UNCHANGED <<live, requests>>
         ELSE /\ live' = [live EXCEPT ![p] = @ \cup {k}]
              /\ requests' = [requests EXCEPT ![p] = @ + 1]
    /\ UNCHANGED <<trash, freezeVal, active, activeBlocks, frozen>>

MutRemoveUncounted(p, k) ==
    IF k \in live[p] \cup trash[p]
      THEN /\ live' = [live EXCEPT ![p] = @ \ {k}]
           /\ trash' = [trash EXCEPT ![p] = @ \cup {k}]
           /\ frozen' = IF freezeVal[p] = 0 THEN frozen \cup {p} ELSE frozen
           /\ freezeVal' = [freezeVal EXCEPT ![p] = @ + 1]
           /\ UNCHANGED <<requests, active, activeBlocks>>
      ELSE UNCHANGED queue

Remove(p, k) ==
    IF k \in live[p] \cup trash[p]
      THEN /\ live' = [live EXCEPT ![p] = @ \ {k}]
           /\ trash' = [trash EXCEPT ![p] = @ \cup {k}]
           /\ requests' = [requests EXCEPT ![p] = @ - 1]
           /\ frozen' = IF freezeVal[p] = 0 THEN frozen \cup {p} ELSE frozen
           /\ freezeVal' = [freezeVal EXCEPT ![p] = @ + 1]
           /\ UNCHANGED <<active, activeBlocks>>
      ELSE UNCHANGED queue

\* Pop takes task k of partner p, after the trash it meets first.
PopTask(p, k, dropped) ==
    /\ live' = [live EXCEPT ![p] = @ \ {k}]
    /\ trash' = [trash EXCEPT ![p] = @ \ dropped]
    /\ activeBlocks' = [activeBlocks EXCEPT ![p] = @ \cup {k}]
    /\ active' = [active EXCEPT ![p] = @ + 1]
    /\ requests' = [requests EXCEPT ![p] = @ - 1]
    /\ UNCHANGED <<freezeVal, frozen>>

\* Pop finds no task for the first partner: it is frozen, or has trash alone.
PopNothing(p) ==
    /\ freezeVal[p] # 0 \/ live[p] = {}
    /\ trash' = IF freezeVal[p] = 0 THEN [trash EXCEPT ![p] = {}] ELSE trash
    /\ UNCHANGED <<live, requests, freezeVal, active, activeBlocks, frozen>>

\* peerRequestTask.Done
Done(t) ==
    /\ activeBlocks' = [activeBlocks EXCEPT ![t.peer] = @ \ {t.cid}]
    /\ active' = [active EXCEPT ![t.peer] = @ - 1]
    /\ UNCHANGED <<live, trash, requests, freezeVal, frozen>>

MutThawed(n) == n - n \div 2

Thawed(n) == n - (n + 1) \div 2

thawRound ==
    /\ freezeVal' = [p \in Peers |-> IF p \in frozen THEN Thawed(freezeVal[p]) ELSE freezeVal[p]]
    /\ frozen' = {p \in frozen : Thawed(freezeVal[p]) > 0}
    /\ UNCHANGED <<live, trash, requests, active, activeBlocks>>

-----------------------------------------------------------------------------
(* Messages from peers.                                                    *)

LockFree(p) == msg[p] = NoMessage
EngineLockFree == scan = NoScan

\* MessageReceived with a want, up to Has; a full list replaces the peer's wants.
Want(p, k, full) ==
    /\ LockFree(p) /\ EngineLockFree
    /\ received < MaxMessages
    /\ Rewants \/ k \notin trash[p] \cup activeBlocks[p]
    /\ wants' = [wants EXCEPT ![p] = (IF full THEN {} ELSE @) \cup {k}]
    /\ msg' = [msg EXCEPT ![p] = [kind |-> "want", cid |-> k, push |-> k \in store]]
    /\ received' = received + 1
    /\ UNCHANGED <<blockstore, scan, queue, engine, work, signal, recancelled>>

\* ... and its Push, Unlock and signalNewWork
WantEnd(p) ==
    /\ msg[p].kind = "want"
    /\ IF msg[p].push THEN Push(p, msg[p].cid) ELSE UNCHANGED queue
    /\ signal' = (signal \/ msg[p].push)
    /\ msg' = [msg EXCEPT ![p] = NoMessage]
    /\ UNCHANGED <<blockstore, scan, wants, received, engine, work, recancelled>>

\* MessageReceived with a cancel, up to CancelWant.  A peer may cancel what it
\* has cancelled before, or has never asked for.
Cancel(p, k) ==
    /\ LockFree(p) /\ EngineLockFree
    /\ received < MaxMessages
    /\ wants' = [wants EXCEPT ![p] = @ \ {k}]
    /\ msg' = [msg EXCEPT ![p] = [kind |-> "cancel", cid |-> k, push |-> FALSE]]
    /\ received' = received + 1
    /\ UNCHANGED <<blockstore, scan, queue, engine, work, signal, recancelled>>

CancelEnd(p) ==
    /\ msg[p].kind = "cancel"
    /\ Remove(p, msg[p].cid)
    /\ recancelled' = IF msg[p].cid \in trash[p] THEN recancelled \cup {p} ELSE recancelled
    /\ msg' = [msg EXCEPT ![p] = NoMessage]
    /\ UNCHANGED <<blockstore, scan, wants, received, engine, work, signal>>

\* The last connection to the peer goes: its ledger is dropped, its tasks stay.
PeerDisconnected(p) ==
    /\ LockFree(p) /\ EngineLockFree
    /\ wants[p] # {}
    /\ wants' = [wants EXCEPT ![p] = {}]
    /\ UNCHANGED <<blockstore, scan, msg, received, queue, engine, work, signal, recancelled>>

-----------------------------------------------------------------------------
(* Blocks that come and go.                                                *)

\* Bitswap.receiveBlockFrom stores a block, and later calls AddBlock.
Put(k) ==
    /\ puts < MaxPuts
    /\ k \notin adding
    /\ store' = store \cup {k}
    /\ adding' = adding \cup {k}
    /\ puts' = puts + 1
    /\ UNCHANGED <<scan, ledgers, queue, engine, work, signal, recancelled>>

\* A collection or block rm
Delete(k) ==
    /\ k \in store \cap Deletes
    /\ store' = store \ {k}
    /\ UNCHANGED <<adding, puts, scan, ledgers, queue, engine, work, signal, recancelled>>

AddBlock(k) ==
    /\ EngineLockFree
    /\ k \in adding
    /\ scan' = [cid |-> k, left |-> Peers, work |-> FALSE]
    /\ UNCHANGED <<blockstore, ledgers, queue, engine, work, signal, recancelled>>

\* AddBlock's loop; a ledger without the want is passed over.
AddBlockVisit(p) ==
    /\ p \in scan.left
    /\ LockFree(p)
    /\ IF scan.cid \in wants[p] THEN Push(p, scan.cid) ELSE UNCHANGED queue
    /\ scan' = [scan EXCEPT !.left = @ \ {p}, !.work = @ \/ scan.cid \in wants[p]]
    /\ UNCHANGED <<blockstore, ledgers, engine, work, signal, recancelled>>

MutAddBlockEnd ==
    /\ ~ EngineLockFree
    /\ scan' = NoScan
    /\ adding' = adding \ {scan.cid}
    /\ signal' = (signal \/ scan.work)
    /\ UNCHANGED <<store, puts, ledgers, queue, engine, work, recancelled>>

AddBlockEnd ==
    /\ ~ EngineLockFree
    /\ scan.left = {}
    /\ scan' = NoScan
    /\ adding' = adding \ {scan.cid}
    /\ signal' = (signal \/ scan.work)
    /\ UNCHANGED <<store, puts, ledgers, queue, engine, work, recancelled>>

-----------------------------------------------------------------------------
(* The engine's task worker and Bitswap's.                                 *)

\* A task worker receives the channel its envelope will come in.
Offer(w) ==
    /\ engine.at = "offer"
    /\ work[w].at = "idle"
    /\ work' = [work EXCEPT ![w].at = "ready"]
    /\ engine' = [at |-> "pop", task |-> NoTask, to |-> w]
    /\ UNCHANGED <<blockstore, scan, ledgers, queue, signal, recancelled>>

Pop ==
    /\ engine.at = "pop"
    /\ \E p \in First :
          \/ /\ PopNothing(p)
             /\ engine' = [engine EXCEPT !.at = "wait"]
          \/ /\ freezeVal[p] = 0
             /\ \E k \in live[p], dropped \in SUBSET trash[p] :
                   /\ PopTask(p, k, dropped)
                   /\ engine' = [engine EXCEPT !.at = "get", !.task = [peer |-> p, cid |-> k]]
    /\ UNCHANGED <<blockstore, scan, ledgers, work, signal, recancelled>>

WorkSignal ==
    /\ engine.at = "wait"
    /\ signal
    /\ signal' = FALSE
    /\ engine' = [engine EXCEPT !.at = "pop"]
    /\ UNCHANGED <<blockstore, scan, ledgers, queue, work, recancelled>>

Tick ==
    /\ engine.at = "wait"
    /\ thawRound
    /\ engine' = [engine EXCEPT !.at = "pop"]
    /\ UNCHANGED <<blockstore, scan, ledgers, work, signal, recancelled>>

\* nextEnvelope has the block, and the waiting worker gets it
Envelope ==
    /\ engine.at = "get"
    /\ engine.task.cid \in store
    /\ work' = [work EXCEPT ![engine.to] = [at |-> "ledger", task |-> engine.task]]
    /\ engine' = [at |-> "offer", task |-> NoTask, to |-> Nothing]
    /\ UNCHANGED <<blockstore, scan, ledgers, queue, signal, recancelled>>

GetFails ==
    /\ engine.at = "get"
    /\ engine.task.cid \notin store
    /\ engine' = [engine EXCEPT !.at = "failed"]
    /\ UNCHANGED <<blockstore, scan, ledgers, queue, work, signal, recancelled>>

FailedDone ==
    /\ engine.at = "failed"
    /\ Done(engine.task)
    /\ engine' = [engine EXCEPT !.at = "pop", !.task = NoTask]
    /\ UNCHANGED <<blockstore, scan, ledgers, work, signal, recancelled>>

MessageSent(w) ==
    LET t == work[w].task IN
    /\ work[w].at = "ledger"
    /\ EngineLockFree /\ LockFree(t.peer)
    /\ wants' = [wants EXCEPT ![t.peer] = @ \ {t.cid}]
    /\ Remove(t.peer, t.cid)
    /\ work' = [work EXCEPT ![w].at = "send"]
    /\ UNCHANGED <<blockstore, scan, msg, received, engine, signal, recancelled>>

\* SendMessage has returned, with or without an error, and Sent runs.
Sent(w) ==
    /\ work[w].at = "send"
    /\ Done(work[w].task)
    /\ signal' = TRUE
    /\ work' = [work EXCEPT ![w] = [at |-> "idle", task |-> NoTask]]
    /\ UNCHANGED <<blockstore, scan, ledgers, engine, recancelled>>

-----------------------------------------------------------------------------
Next ==
    \/ \E p \in Peers, k \in Blocks : Cancel(p, k) \/ \E full \in BOOLEAN : Want(p, k, full)
    \/ \E p \in Peers : WantEnd(p)
    \/ \E p \in Peers : CancelEnd(p)
    \/ \E p \in Peers : PeerDisconnected(p)
    \/ \E k \in Blocks : Put(k) \/ Delete(k) \/ AddBlock(k)
    \/ \E p \in Peers : AddBlockVisit(p)
    \/ AddBlockEnd
    \/ \E w \in Workers : Offer(w) \/ MessageSent(w) \/ Sent(w)
    \/ Pop \/ WorkSignal \/ Tick \/ Envelope \/ GetFails \/ FailedDone

Spec == Init /\ [][Next]_vars

\* Each goroutine runs on: a handler of a peer's message, AddBlock's loop, the
\* engine, the task workers, whose sends return; and the ticker keeps ticking.
Fairness ==
    /\ \A p \in Peers : WF_vars(WantEnd(p) \/ CancelEnd(p))
    /\ \A k \in Blocks : WF_vars(AddBlock(k))
    /\ WF_vars(AddBlockEnd \/ \E p \in Peers : AddBlockVisit(p))
    /\ WF_vars(Pop \/ Envelope \/ GetFails \/ FailedDone \/ \E w \in Workers : Offer(w))
    /\ WF_vars(Tick)
    /\ \A w \in Workers : WF_vars(MessageSent(w) \/ Sent(w))

FairSpec == Spec /\ Fairness

-----------------------------------------------------------------------------
(* What the engine promises.                                               *)

\* The tasks that someone works on: popped, and Done has not run.
InHand(p) ==
    {k \in Blocks : engine.task = [peer |-> p, cid |-> k]
                        \/ \E w \in Workers : work[w].task = [peer |-> p, cid |-> k]}

\* Every task in a worker's hands is counted in its partner once, so no block
\* is sent twice to a peer at the same time and Done never finds more tasks
\* finished than started (the panic of TaskDone).
StartedOnce ==
    \A p \in Peers : active[p] = Cardinality(InHand(p)) /\ activeBlocks[p] = InHand(p)

\* A partner's request count, which ranks it against the others, is the number
\* of its tasks that wait to be popped ("requests is the number of blocks this
\* peer is currently requesting", peer_request_queue.go:231), whatever the other
\* peers do.  Remove takes it down again for a task that is trash already, so for
\* a peer that has cancelled one twice it is no more than that number: no
\* peer is ever ranked by work that is not there.
RequestsCounted ==
    \A p \in Peers : /\ requests[p] <= Cardinality(live[p])
                     /\ p \notin recancelled => requests[p] = Cardinality(live[p])

\* The same without the exception, which the code does not keep.
RequestsExact == \A p \in Peers : requests[p] = Cardinality(live[p])

\* A want in a ledger for a block in the blockstore has a task, unless the
\* block's AddBlock has yet to run or a handler is at work on the ledger: the
\* race of Has in MessageReceived with the Put before AddBlock loses no want.
\* It speaks of blocks that stay: one that is deleted and put again while its
\* task is in hand is left without one.
WantQueued ==
    \A p \in Peers : \A k \in wants[p] :
       k \in store \ (adding \cup Deletes) /\ LockFree(p) => k \in live[p] \cup activeBlocks[p]

\* A peer that wants a block this node holds and keeps is sent it, or takes the want
\* back, whatever the other peers ask and cancel: it is not starved, not
\* frozen for good, and no wake-up of the engine's goroutine is lost.  A peer
\* whose count is too low by its own cancels is ranked last, and may be.
WantsServed ==
    \A p \in Peers, k \in Blocks \ Deletes :
       (k \in wants[p] /\ k \in store) ~> (k \notin wants[p] \/ p \in recancelled)

=============================================================================
