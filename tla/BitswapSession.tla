--------------------------- MODULE BitswapSession ---------------------------
(***************************************************************************)
(* Requests for blocks: exchange/bitswap/session.go, get.go,               *)
(* notifications/notifications.go and the client half of bitswap.go.       *)
(*                                                                         *)
(* A session is a goroutine that owns its wants; requests made within it   *)
(* and goroutines that deliver a block meet it on unbuffered channels, so  *)
(* a step of the model that takes two of them needs both to be ready.      *)
(* A request made without a session has wants of its own in the manager.   *)
(* Keys wait in no particular order, a superset of cidQueue's.             *)
(***************************************************************************)
EXTENDS Naturals, FiniteSets

CONSTANTS
    Keys, Sessions, Requests,
    Direct,         \* not a session: bitswap.GetBlocks
    Calls,          \* Calls[r]: where request r may be made, and for what keys
    Deliveries,     \* goroutines in receiveBlockFrom
    Limit,          \* activeWantsLimit
    InterestSize,   \* size of the session's LRU cache of interests
    MaxBlocks       \* bound: blocks that arrive

ASSUME BitswapSessionAssumption ==
    /\ Direct \notin Sessions /\ Sessions \cap Requests = {}
    /\ Calls \in [Requests -> SUBSET [of : Sessions \cup {Direct}, keys : SUBSET Keys \ {{}}]]
    /\ Limit \in Nat \ {0} /\ InterestSize \in Nat \ {0} /\ MaxBlocks \in Nat

VARIABLES
    ended,          \* sessions whose context is done
    loop,           \* loop[s]: "new", "run", "removing" itself from bs.sessions, or "gone"
    interest,       \* interest[s]: the LRU cache
    live, tofetch,  \* keys the session has asked for, keys it will ask for
    wants,          \* wants[i]: the want manager's keys for session or direct request i
    req,            \* req[r]: a request
    dlv,            \* dlv[d]: a delivery
    sessLk,         \* the delivery that holds bs.sessLk, or "free"
    blocks          \* counter of the bound

session == <<loop, interest, live, tofetch>>
vars == <<ended, session, wants, req, dlv, sessLk, blocks>>

\* left: what handleIncoming still has to hand on; inbox: what has been published to it.
NoReq == [of |-> Direct, left |-> {}, inbox |-> {}, done |-> FALSE, at |-> "idle"]
NoDlv == [key |-> {}, ask |-> {}, send |-> {}, at |-> "idle"]

TypeOK ==
    /\ ended \subseteq Sessions
    /\ loop \in [Sessions -> {"new", "run", "removing", "gone"}]
    /\ interest \in [Sessions -> SUBSET Keys] /\ \A s \in Sessions : Cardinality(interest[s]) <= InterestSize
    /\ live \in [Sessions -> SUBSET Keys] /\ tofetch \in [Sessions -> SUBSET Keys]
    /\ wants \in [Sessions \cup Requests -> SUBSET Keys]
    /\ req \in [Requests -> [of : Sessions \cup {Direct}, left : SUBSET Keys, inbox : SUBSET Keys, done : BOOLEAN,
                             at : {"idle", "fetch", "open", "closing", "over"}]]
    /\ dlv \in [Deliveries -> [key : SUBSET Keys, ask : SUBSET Sessions, send : SUBSET Sessions,
                               at : {"idle", "put", "lock", "ask", "send", "cancel"}]]
    /\ sessLk \in Deliveries \cup {"free"}
    /\ blocks \in 0 .. MaxBlocks

Init ==
    /\ ended = {}
    /\ loop = [s \in Sessions |-> "new"]
    /\ interest = [s \in Sessions |-> {}]
    /\ live = [s \in Sessions |-> {}] /\ tofetch = [s \in Sessions |-> {}]
    /\ wants = [i \in Sessions \cup Requests |-> {}]
    /\ req = [r \in Requests |-> NoReq]
    /\ dlv = [d \in Deliveries |-> NoDlv]
    /\ sessLk = "free"
    /\ blocks = 0

-----------------------------------------------------------------------------
(* The life of a session *)

\* NewSession appends to bs.sessions under the lock.
NewSession(s) ==
    /\ loop[s] = "new" /\ sessLk = "free"
    /\ loop' = [loop EXCEPT ![s] = "run"]
    /\ UNCHANGED <<ended, interest, live, tofetch, wants, req, dlv, sessLk, blocks>>

ContextDone(s) ==
    /\ loop[s] = "run" /\ s \notin ended
    /\ ended' = ended \cup {s}
    /\ UNCHANGED <<session, wants, req, dlv, sessLk, blocks>>

\* run takes the case of ctx.Done, which is ready together with others.
LoopEnds(s) ==
    /\ loop[s] = "run" /\ s \in ended
    /\ loop' = [loop EXCEPT ![s] = "removing"]
    /\ UNCHANGED <<ended, interest, live, tofetch, wants, req, dlv, sessLk, blocks>>

\* removeSession.
Removed(s) ==
    /\ loop[s] = "removing" /\ sessLk = "free"
    /\ loop' = [loop EXCEPT ![s] = "gone"]
    /\ UNCHANGED <<ended, interest, live, tofetch, wants, req, dlv, sessLk, blocks>>

\* Mutant: the timer is set only while keys wait.
Tick_waits(s) ==
    /\ loop[s] = "run" /\ ~(live[s] \subseteq wants[s]) /\ tofetch[s] # {}
    /\ wants' = [wants EXCEPT ![s] = @ \cup live[s]]
    /\ UNCHANGED <<ended, session, req, dlv, sessLk, blocks>>

\* The timer: all live wants are broadcast again.
Tick(s) ==
    /\ loop[s] = "run" /\ ~(live[s] \subseteq wants[s])
    /\ wants' = [wants EXCEPT ![s] = @ \cup live[s]]
    /\ UNCHANGED <<ended, session, req, dlv, sessLk, blocks>>

-----------------------------------------------------------------------------
(* Requests *)

\* getBlocksImpl subscribes, and bitswap.GetBlocks wants its keys at once.
Begin(r, call) ==
    /\ req[r].at = "idle"
    /\ call.of \in Sessions => loop[call.of] # "new"
    /\ req' = [req EXCEPT ![r] = [of |-> call.of, left |-> call.keys, inbox |-> {}, done |-> FALSE,
                                  at |-> IF call.of = Direct THEN "open" ELSE "fetch"]]
    /\ wants' = IF call.of = Direct THEN [wants EXCEPT ![r] = call.keys] ELSE wants
    /\ UNCHANGED <<ended, session, dlv, sessLk, blocks>>

\* The caller has enough, or its deadline has passed.
Abandon(r) ==
    /\ req[r].at \in {"fetch", "open"} /\ ~req[r].done
    /\ req' = [req EXCEPT ![r].done = TRUE]
    /\ UNCHANGED <<ended, session, wants, dlv, sessLk, blocks>>

\* lru.Add, for each key.
Interested(s, ks) ==
    interest' \in {[interest EXCEPT ![s] = i] : i \in
        {i \in SUBSET (interest[s] \cup ks) :
            LET all == Cardinality(interest[s] \cup ks) IN
            /\ Cardinality(i) = IF all < InterestSize THEN all ELSE InterestSize
            /\ i \cap ks # {}}}

\* Mutant: what goes beyond the limit is not queued.
NewReqs_drop(s, r) ==
    /\ loop[s] = "run" /\ req[r].of = s /\ req[r].at = "fetch"
    /\ LET ks == req[r].left
           room == IF Cardinality(live[s]) < Limit THEN Limit - Cardinality(live[s]) ELSE 0
       IN  \E now \in SUBSET ks :
            /\ Cardinality(now) = IF room < Cardinality(ks) THEN room ELSE Cardinality(ks)
            /\ live' = [live EXCEPT ![s] = @ \cup now]
            /\ wants' = [wants EXCEPT ![s] = @ \cup now]
            /\ tofetch' = tofetch
            /\ Interested(s, ks)
    /\ req' = [req EXCEPT ![r].at = "open"]
    /\ UNCHANGED <<ended, loop, dlv, sessLk, blocks>>

\* The session takes the keys of a request: as many as its limit leaves room for
\* become live, the others wait.
NewReqs(s, r) ==
    /\ loop[s] = "run" /\ req[r].of = s /\ req[r].at = "fetch"
    /\ LET ks == req[r].left
           room == IF Cardinality(live[s]) < Limit THEN Limit - Cardinality(live[s]) ELSE 0
       IN  \E now \in SUBSET ks :
            /\ Cardinality(now) = IF room < Cardinality(ks) THEN room ELSE Cardinality(ks)
            /\ live' = [live EXCEPT ![s] = @ \cup now]
            /\ wants' = [wants EXCEPT ![s] = @ \cup now]
            /\ tofetch' = [tofetch EXCEPT ![s] = @ \cup (ks \ now)]
            /\ Interested(s, ks)
    /\ req' = [req EXCEPT ![r].at = "open"]
    /\ UNCHANGED <<ended, loop, dlv, sessLk, blocks>>

\* fetch gives up when the request's context is done.
FetchEnds(r) ==
    /\ req[r].at = "fetch" /\ req[r].done
    /\ req' = [req EXCEPT ![r].at = "open"]
    /\ UNCHANGED <<ended, session, wants, dlv, sessLk, blocks>>

\* handleIncoming hands a block on; bitswap.GetBlocks also cancels the want.
Take(r) ==
    /\ req[r].at = "open"
    /\ \E k \in req[r].inbox :
        /\ req' = [req EXCEPT ![r].left = @ \ {k}, ![r].inbox = @ \ {k}]
        /\ wants' = [wants EXCEPT ![r] = @ \ {k}]
    /\ UNCHANGED <<ended, session, dlv, sessLk, blocks>>

\* The last block or the end of the context.  What is left of a direct request
\* is cancelled with the want manager.
Close(r) ==
    /\ req[r].at = "open"
    /\ req[r].done \/ req[r].left = {}
    /\ req' = [req EXCEPT ![r].at = IF req[r].of = Direct THEN "over" ELSE "closing"]
    /\ wants' = [wants EXCEPT ![r] = @ \ req[r].left]
    /\ UNCHANGED <<ended, session, dlv, sessLk, blocks>>

\* The session takes the cancel of a request: keys that wait are not fetched any
\* more, live ones stay.
CancelKeys(s, r) ==
    /\ loop[s] = "run" /\ req[r].of = s /\ req[r].at = "closing"
    /\ tofetch' = [tofetch EXCEPT ![s] = @ \ req[r].left]
    /\ req' = [req EXCEPT ![r].at = "over"]
    /\ UNCHANGED <<ended, loop, interest, live, wants, dlv, sessLk, blocks>>

-----------------------------------------------------------------------------
(* Deliveries: receiveBlockFrom *)

Arrive(d, k) ==
    /\ dlv[d].at = "idle" /\ blocks < MaxBlocks
    /\ blocks' = blocks + 1
    /\ dlv' = [dlv EXCEPT ![d] = [NoDlv EXCEPT !.key = {k}, !.at = "put"]]
    /\ UNCHANGED <<ended, session, wants, req, sessLk>>

\* What Publish does to the requests that subscribed with of.
Published(of, k) ==
    [r \in Requests |-> IF req[r].of = of /\ req[r].at \in {"fetch", "open"} /\ k \in req[r].left
                          THEN [req[r] EXCEPT !.inbox = @ \cup {k}] ELSE req[r]]

Key(d) == CHOOSE k \in Keys : k \in dlv[d].key

\* The block is stored and published to the direct requests.
PutBlock(d) ==
    /\ dlv[d].at = "put"
    /\ req' = Published(Direct, Key(d))
    /\ dlv' = [dlv EXCEPT ![d].at = "lock"]
    /\ UNCHANGED <<ended, session, wants, sessLk, blocks>>

\* SessionsForBlock asks every session under the lock.
LockSessions(d) ==
    /\ dlv[d].at = "lock" /\ sessLk = "free"
    /\ sessLk' = d
    /\ dlv' = [dlv EXCEPT ![d].at = "ask", ![d].ask = {s \in Sessions : loop[s] \in {"run", "removing"}}]
    /\ UNCHANGED <<ended, session, wants, req, blocks>>

\* Mutant: keys that wait are not asked about.
AskSession_live(d, s) ==
    /\ s \in dlv[d].ask
    /\ \/ /\ Key(d) \in interest[s]
          /\ dlv' = [dlv EXCEPT ![d].ask = @ \ {s}, ![d].send = @ \cup {s}]
       \/ /\ Key(d) \notin interest[s] /\ loop[s] = "run"
          /\ \E wanted \in {Key(d) \in live[s]} \cup (IF s \in ended THEN {FALSE} ELSE {}) :
                dlv' = [dlv EXCEPT ![d].ask = @ \ {s}, ![d].send = IF wanted THEN @ \cup {s} ELSE @]
    /\ UNCHANGED <<ended, session, wants, req, sessLk, blocks>>

\* isLiveWant sends its question without looking at the session's context: the
\* session must be there to take it.  Only the answer may be cut short.
AskSession(d, s) ==
    /\ s \in dlv[d].ask
    /\ \/ /\ Key(d) \in interest[s]
          /\ dlv' = [dlv EXCEPT ![d].ask = @ \ {s}, ![d].send = @ \cup {s}]
       \/ /\ Key(d) \notin interest[s] /\ loop[s] = "run"
          /\ \E wanted \in {Key(d) \in live[s] \cup tofetch[s]} \cup (IF s \in ended THEN {FALSE} ELSE {}) :
                dlv' = [dlv EXCEPT ![d].ask = @ \ {s}, ![d].send = IF wanted THEN @ \cup {s} ELSE @]
    /\ UNCHANGED <<ended, session, wants, req, sessLk, blocks>>

\* Mutant: the lock is not given back.
UnlockSessions_not(d) ==
    /\ dlv[d].at = "ask" /\ dlv[d].ask = {}
    /\ sessLk' = sessLk
    /\ dlv' = [dlv EXCEPT ![d].at = "send"]
    /\ UNCHANGED <<ended, session, wants, req, blocks>>

UnlockSessions(d) ==
    /\ dlv[d].at = "ask" /\ dlv[d].ask = {}
    /\ sessLk' = "free"
    /\ dlv' = [dlv EXCEPT ![d].at = "send"]
    /\ UNCHANGED <<ended, session, wants, req, blocks>>

\* cidQueue.Pop: a key that waits, as a set, or none.
Pop(waiting) == IF waiting = {} THEN {{}} ELSE {{n} : n \in waiting}

\* receiveBlock of the session: a block that is wanted is published, and a key
\* that waits is asked for in its place.
Receive(s, k) ==
    IF k \notin live[s] \cup tofetch[s]
      THEN UNCHANGED <<live, tofetch, wants, req>>
      ELSE /\ req' = Published(s, k)
           /\ LET waiting == IF k \in live[s] THEN tofetch[s] ELSE tofetch[s] \ {k} IN
              \E next \in Pop(waiting) :
                /\ live' = [live EXCEPT ![s] = (@ \ {k}) \cup next]
                /\ tofetch' = [tofetch EXCEPT ![s] = waiting \ next]
                /\ wants' = [wants EXCEPT ![s] = @ \cup next]

\* The session takes the block, or is over.
SendBlock(d, s) ==
    /\ dlv[d].at = "send" /\ s \in dlv[d].send
    /\ \/ loop[s] = "run" /\ Receive(s, Key(d))
       \/ s \in ended /\ UNCHANGED <<live, tofetch, wants, req>>
    /\ dlv' = [dlv EXCEPT ![d].at = "cancel", ![d].ask = {s}, ![d].send = @ \ {s}]
    /\ UNCHANGED <<ended, loop, interest, sessLk, blocks>>

\* And then its want is cancelled.
CancelWant(d) ==
    /\ dlv[d].at = "cancel"
    /\ wants' = [i \in Sessions \cup Requests |-> IF i \in dlv[d].ask THEN wants[i] \ dlv[d].key ELSE wants[i]]
    /\ dlv' = [dlv EXCEPT ![d].at = "send", ![d].ask = {}]
    /\ UNCHANGED <<ended, session, req, sessLk, blocks>>

Delivered(d) ==
    /\ dlv[d].at = "send" /\ dlv[d].send = {}
    /\ dlv' = [dlv EXCEPT ![d] = NoDlv]
    /\ UNCHANGED <<ended, session, wants, req, sessLk, blocks>>

Deliver(d) ==
    \/ PutBlock(d) \/ LockSessions(d) \/ UnlockSessions(d) \/ CancelWant(d) \/ Delivered(d)
    \/ \E s \in Sessions : SendBlock(d, s) \/ (dlv[d].at = "ask" /\ AskSession(d, s))

Next ==
    \/ \E s \in Sessions : NewSession(s) \/ ContextDone(s) \/ LoopEnds(s) \/ Removed(s) \/ Tick(s)
    \/ \E r \in Requests : \E call \in Calls[r] : Begin(r, call)
    \/ \E r \in Requests : Abandon(r) \/ FetchEnds(r) \/ Take(r) \/ Close(r)
    \/ \E s \in Sessions, r \in Requests : NewReqs(s, r) \/ CancelKeys(s, r)
    \/ \E d \in Deliveries, k \in Keys : Arrive(d, k)
    \/ \E d \in Deliveries : Deliver(d)

\* Goroutines run, and select and the lock pass over no one for ever.  Nothing
\* makes a block arrive or a caller give up.
Fairness ==
    /\ \A s \in Sessions : WF_vars(LoopEnds(s) \/ Removed(s) \/ Tick(s))
    /\ \A r \in Requests : WF_vars(FetchEnds(r) \/ Take(r) \/ Close(r) \/ \E s \in Sessions : NewReqs(s, r) \/ CancelKeys(s, r))
    /\ \A d \in Deliveries : WF_vars(Deliver(d))

Spec == Init /\ [][Next]_vars /\ Fairness

-----------------------------------------------------------------------------
(* Properties *)

\* Another request of the session, which shared the key, has cancelled it for both.
Robbed(r, k) == \E q \in Requests \ {r} : req[q].of = req[r].of /\ req[q].at = "over" /\ k \in req[q].left

Waits(r, k) ==
    /\ req[r].at = "open" /\ ~req[r].done
    /\ k \in req[r].left \ req[r].inbox

\* A key that a request waits for is live or will be asked for, unless a request
\* that shared it was abandoned: Session.cancel takes it from the queue, whoever
\* else waits.  A key that falls between live and tofetch would never be asked for.
Tracked ==
    \A r \in Requests, k \in Keys :
        Waits(r, k) /\ req[r].of # Direct /\ loop[req[r].of] = "run"
            => k \in live[req[r].of] \cup tofetch[req[r].of] \/ Robbed(r, k)

\* The want manager holds no want for a session that is not live, but while
\* receiveBlockFrom is about to cancel it, and none for a direct request that is over.
NoStray ==
    /\ \A s \in Sessions, k \in Keys : k \in wants[s] /\ loop[s] = "run" =>
            k \in live[s] \/ \E d \in Deliveries : dlv[d].at = "cancel" /\ s \in dlv[d].ask /\ k \in dlv[d].key
    /\ \A r \in Requests : wants[r] \subseteq req[r].left /\ (req[r].at = "over" => wants[r] = {})

\* The lock is held for a question that nobody will take: the session waits for the lock.
Jammed == \E d \in Deliveries : \E s \in dlv[d].ask : sessLk = d /\ loop[s] # "run" /\ Key(d) \notin interest[s]

\* A block that arrives passes all sessions, unless one of them ends at the wrong
\* moment (session.go, isLiveWant); a request that has its blocks or is abandoned
\* is over, unless its session ends first: then nothing takes its last cancel.
CallsEnd ==
    /\ \A d \in Deliveries : dlv[d].at # "idle" ~> dlv[d].at = "idle" \/ Jammed
    /\ \A r \in Requests :
         (req[r].done \/ (req[r].at = "open" /\ req[r].left = {})) ~> (req[r].at = "over" \/ req[r].of \in ended)

\* A block that arrives reaches every request that waits for it by then.
BlocksReach ==
    \A r \in Requests, k \in Keys :
        (Waits(r, k) /\ \E d \in Deliveries : dlv[d].at = "put" /\ dlv[d].key = {k})
            ~> (k \notin req[r].left \/ req[r].done \/ req[r].of \in ended \/ Robbed(r, k) \/ Jammed)

\* A cancel of the want manager that comes late, for a block that has been asked
\* for again in the meantime, is made up for by the timer.
LiveTold == \A s \in Sessions, k \in Keys : k \in live[s] ~> (k \in wants[s] \/ k \notin live[s] \/ s \in ended)

\* "creates a new bitswap session whose lifetime is bounded by the given context"
\* (session.go).
SessionsEnd == \A s \in Sessions : s \in ended ~> loop[s] = "gone"
=============================================================================
