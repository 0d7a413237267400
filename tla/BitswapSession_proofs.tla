----------------------- MODULE BitswapSession_proofs -----------------------
(***************************************************************************)
(* Theorems about requests for blocks, for any number of sessions,         *)
(* requests, keys and blocks that arrive: no key that a request waits for  *)
(* falls between the keys a session has asked for and those it will ask    *)
(* for, and no want outlives what it was for.                              *)
(***************************************************************************)
EXTENDS BitswapSession, FiniteSetTheorems, TLAPS

\* TypeOK, but for how many keys a session's cache of interests holds.
Reqs == [of : Sessions \cup {Direct}, left : SUBSET Keys, inbox : SUBSET Keys, done : BOOLEAN,
         at : {"idle", "fetch", "open", "closing", "over"}]
Dlvs == [key : SUBSET Keys, ask : SUBSET Sessions, send : SUBSET Sessions,
         at : {"idle", "put", "lock", "ask", "send", "cancel"}]
Types ==
    /\ ended \subseteq Sessions
    /\ loop \in [Sessions -> {"new", "run", "removing", "gone"}]
    /\ interest \in [Sessions -> SUBSET Keys]
    /\ live \in [Sessions -> SUBSET Keys] /\ tofetch \in [Sessions -> SUBSET Keys]
    /\ wants \in [Sessions \cup Requests -> SUBSET Keys]
    /\ req \in [Requests -> Reqs]
    /\ dlv \in [Deliveries -> Dlvs]
    /\ sessLk \in Deliveries \cup {"free"}
    /\ blocks \in 0 .. MaxBlocks

\* A delivery has its key.
Carries == \A d \in Deliveries : dlv[d].at # "idle" => \E k \in Keys : dlv[d].key = {k}

\* Nothing is asked of a session that there is not yet.
Begun == \A r \in Requests : req[r].at # "idle" /\ req[r].of # Direct => loop[req[r].of] # "new"

\* NoStray, of sessions that are over too; only the direct requests that are open
\* have wants of their own.
Told ==
    /\ \A s \in Sessions : \A k \in wants[s] :
            k \in live[s] \/ \E d \in Deliveries : dlv[d].at = "cancel" /\ s \in dlv[d].ask /\ k \in dlv[d].key
    /\ \A r \in Requests : wants[r] \subseteq req[r].left /\ (req[r].at # "open" => wants[r] = {})

IInv == Types /\ Carries /\ Begun /\ Tracked /\ Told

-----------------------------------------------------------------------------
(* What the steps do to requests and deliveries *)

LEMMA Names == Direct \notin Sessions /\ Sessions \cap Requests = {}
BY BitswapSessionAssumption

LEMMA Called ==
    ASSUME NEW r \in Requests, NEW call \in Calls[r]
    PROVE  call.of \in Sessions \cup {Direct} /\ call.keys \subseteq Keys
<1>1. call \in [of : Sessions \cup {Direct}, keys : SUBSET Keys \ {{}}]
    BY BitswapSessionAssumption
<1> QED BY <1>1

LEMMA BeginDoes ==
    ASSUME Types, NEW r \in Requests, NEW call \in Calls[r], Begin(r, call)
    PROVE  /\ req' = [req EXCEPT ![r] = [of |-> call.of, left |-> call.keys, inbox |-> {}, done |-> FALSE,
                                         at |-> IF call.of = Direct THEN "open" ELSE "fetch"]]
           /\ req[r].at = "idle"
BY DEF Begin, NoReq

\* A step that gives request r other fields.
LEMMA Refields ==
    ASSUME Types, NEW r \in Requests, NEW x \in Reqs, req' = [req EXCEPT ![r] = x]
    PROVE  req' \in [Requests -> Reqs] /\ req'[r] = x /\ \A q \in Requests : q # r => req'[q] = req[q]
BY DEF Types

LEMMA Fields ==
    ASSUME NEW x \in Reqs
    PROVE  /\ \A v \in {"idle", "fetch", "open", "closing", "over"} :
                [x EXCEPT !.at = v] \in Reqs
           /\ [x EXCEPT !.done = TRUE] \in Reqs
           /\ \A i \in SUBSET Keys : [x EXCEPT !.inbox = i] \in Reqs /\ [x EXCEPT !.left = i] \in Reqs
BY DEF Reqs

LEMMA Changes ==
    ASSUME Types, NEW r \in Requests
    PROVE  /\ Abandon(r) => req' = [req EXCEPT ![r] = [req[r] EXCEPT !.done = TRUE]]
           /\ FetchEnds(r) => req' = [req EXCEPT ![r] = [req[r] EXCEPT !.at = "open"]]
           /\ \A s : NewReqs(s, r) => req' = [req EXCEPT ![r] = [req[r] EXCEPT !.at = "open"]]
           /\ \A s : CancelKeys(s, r) => req' = [req EXCEPT ![r] = [req[r] EXCEPT !.at = "over"]]
           /\ Close(r) => req' = [req EXCEPT ![r] = [req[r] EXCEPT !.at = IF req[r].of = Direct THEN "over" ELSE "closing"]]
<1>1. Abandon(r) => req' = [req EXCEPT ![r] = [req[r] EXCEPT !.done = TRUE]]
    BY DEF Abandon, Types
<1>2. FetchEnds(r) => req' = [req EXCEPT ![r] = [req[r] EXCEPT !.at = "open"]]
    BY DEF FetchEnds, Types
<1>3. \A s : NewReqs(s, r) => req' = [req EXCEPT ![r] = [req[r] EXCEPT !.at = "open"]]
    BY DEF NewReqs, Types
<1>4. \A s : CancelKeys(s, r) => req' = [req EXCEPT ![r] = [req[r] EXCEPT !.at = "over"]]
    BY DEF CancelKeys, Types
<1>5. Close(r) => req' = [req EXCEPT ![r] = [req[r] EXCEPT !.at = IF req[r].of = Direct THEN "over" ELSE "closing"]]
    BY DEF Close, Types
<1> QED BY <1>1, <1>2, <1>3, <1>4, <1>5

LEMMA TakeDoes ==
    ASSUME Types, NEW r \in Requests, Take(r)
    PROVE  \E k \in req[r].inbox :
              /\ req'[r] \in Reqs /\ req' = [req EXCEPT ![r] = req'[r]]
              /\ req'[r].left = req[r].left \ {k} /\ req'[r].inbox = req[r].inbox \ {k}
              /\ req'[r].of = req[r].of /\ req'[r].done = req[r].done /\ req'[r].at = "open" /\ req[r].at = "open"
              /\ wants' = [wants EXCEPT ![r] = wants[r] \ {k}]
<1>1. PICK k \in req[r].inbox :
          /\ req' = [req EXCEPT ![r].left = @ \ {k}, ![r].inbox = @ \ {k}]
          /\ wants' = [wants EXCEPT ![r] = @ \ {k}]
    BY DEF Take
<1> DEFINE a == [req[r] EXCEPT !.left = req[r].left \ {k}]
           b == [a EXCEPT !.inbox = req[r].inbox \ {k}]
<1>2. req[r] \in Reqs /\ req[r].at = "open" /\ req[r].left \ {k} \in SUBSET Keys /\ req[r].inbox \ {k} \in SUBSET Keys
    BY DEF Take, Types, Reqs
<1>3. a \in Reqs /\ a.left = req[r].left \ {k} /\ a.inbox = req[r].inbox /\ a.of = req[r].of /\ a.done = req[r].done /\ a.at = "open"
    BY <1>2 DEF Reqs
<1> HIDE DEF a
<1>4. b \in Reqs /\ b.left = a.left /\ b.inbox = req[r].inbox \ {k} /\ b.of = a.of /\ b.done = a.done /\ b.at = a.at
    BY <1>2, <1>3 DEF Reqs
<1>5. req' = [req EXCEPT ![r] = b]
    BY <1>1 DEF a, Types
<1> HIDE DEF b
<1>6. req'[r] = b
    BY <1>5 DEF Types
<1>7. wants' = [wants EXCEPT ![r] = wants[r] \ {k}]
    BY <1>1 DEF Types
<1> QED BY <1>2, <1>3, <1>4, <1>5, <1>6, <1>7

LEMMA Publishes ==
    ASSUME Types, NEW of, NEW k \in Keys, req' = Published(of, k)
    PROVE  /\ req' \in [Requests -> Reqs]
           /\ \A r \in Requests : /\ req'[r].of = req[r].of /\ req'[r].left = req[r].left
                                  /\ req'[r].done = req[r].done /\ req'[r].at = req[r].at
                                  /\ req[r].inbox \subseteq req'[r].inbox
                                  /\ req[r].of = of /\ req[r].at = "open" /\ k \in req[r].left => k \in req'[r].inbox
<1> SUFFICES ASSUME NEW r \in Requests
             PROVE  /\ req'[r] \in Reqs
                    /\ req'[r].of = req[r].of /\ req'[r].left = req[r].left
                    /\ req'[r].done = req[r].done /\ req'[r].at = req[r].at
                    /\ req[r].inbox \subseteq req'[r].inbox
                    /\ req[r].of = of /\ req[r].at = "open" /\ k \in req[r].left => k \in req'[r].inbox
    BY DEF Published
<1>1. req[r] \in Reqs
    BY DEF Types
<1>2. CASE req[r].of = of /\ req[r].at \in {"fetch", "open"} /\ k \in req[r].left
    <2>1. req'[r] = [req[r] EXCEPT !.inbox = req[r].inbox \cup {k}]
        BY <1>2 DEF Published
    <2> QED BY <1>1, <2>1 DEF Reqs
<1>3. CASE ~(req[r].of = of /\ req[r].at \in {"fetch", "open"} /\ k \in req[r].left)
    <2>1. req'[r] = req[r]
        BY <1>3 DEF Published
    <2> QED BY <1>1, <1>3, <2>1
<1> QED BY <1>2, <1>3

\* The key of a delivery.
LEMMA KeyOf ==
    ASSUME Types, Carries, NEW d \in Deliveries, dlv[d].at # "idle"
    PROVE  Key(d) \in Keys /\ dlv[d].key = {Key(d)}
<1>1. PICK k \in Keys : dlv[d].key = {k}
    BY DEF Carries
<1>2. Key(d) \in Keys /\ Key(d) \in dlv[d].key
    BY <1>1 DEF Key
<1> QED BY <1>1, <1>2

-----------------------------------------------------------------------------
(* Types *)

\* What a session that takes a block does, or one that is over.
LEMMA Receives ==
    ASSUME Types, NEW s \in Sessions, NEW k \in Keys, Receive(s, k)
    PROVE  /\ live' \in [Sessions -> SUBSET Keys] /\ tofetch' \in [Sessions -> SUBSET Keys]
           /\ wants' \in [Sessions \cup Requests -> SUBSET Keys] /\ req' \in [Requests -> Reqs]
           /\ \A r \in Requests : wants'[r] = wants[r]
           /\ \A t \in Sessions : t # s => /\ live'[t] = live[t] /\ tofetch'[t] = tofetch[t] /\ wants'[t] = wants[t]
           /\ (live[s] \cup tofetch[s]) \ {k} \subseteq live'[s] \cup tofetch'[s]
           /\ live[s] \ {k} \subseteq live'[s] /\ wants'[s] \subseteq wants[s] \cup live'[s]
           /\ \/ k \notin live[s] \cup tofetch[s] /\ UNCHANGED <<live, tofetch, wants, req>>
              \/ req' = Published(s, k)
<1>1. CASE k \notin live[s] \cup tofetch[s]
    <2>1. UNCHANGED <<live, tofetch, wants, req>>
        BY <1>1 DEF Receive
    <2> QED BY <1>1, <2>1 DEF Types
<1>2. CASE k \in live[s] \cup tofetch[s]
    <2> DEFINE waiting == IF k \in live[s] THEN tofetch[s] ELSE tofetch[s] \ {k}
    <2>1. PICK next \in Pop(waiting) :
            /\ live' = [live EXCEPT ![s] = (@ \ {k}) \cup next]
            /\ tofetch' = [tofetch EXCEPT ![s] = waiting \ next]
            /\ wants' = [wants EXCEPT ![s] = @ \cup next]
        BY <1>2 DEF Receive
    <2>2. req' = Published(s, k)
        BY <1>2 DEF Receive
    <2>3. waiting \subseteq Keys /\ tofetch[s] \ {k} \subseteq waiting
        BY DEF Types
    <2> HIDE DEF waiting
    <2>4. next \subseteq waiting
        BY DEF Pop
    <2>5. /\ live' = [live EXCEPT ![s] = (live[s] \ {k}) \cup next]
          /\ wants' = [wants EXCEPT ![s] = wants[s] \cup next]
        BY <2>1 DEF Types
    <2>6. /\ live' \in [Sessions -> SUBSET Keys] /\ tofetch' \in [Sessions -> SUBSET Keys]
          /\ wants' \in [Sessions \cup Requests -> SUBSET Keys]
        BY <2>1, <2>3, <2>4, <2>5 DEF Types
    <2>7. req' \in [Requests -> Reqs]
        BY <2>2, Publishes
    <2>8. live'[s] = (live[s] \ {k}) \cup next /\ tofetch'[s] = waiting \ next /\ wants'[s] = wants[s] \cup next
        BY <2>1, <2>5 DEF Types
    <2>9. \A t \in Sessions : t # s => /\ live'[t] = live[t] /\ tofetch'[t] = tofetch[t] /\ wants'[t] = wants[t]
        BY <2>1, <2>5 DEF Types
    <2>10. \A r \in Requests : wants'[r] = wants[r]
        BY <2>5, Names DEF Types
    <2> QED BY <2>2, <2>3, <2>4, <2>6, <2>7, <2>8, <2>9, <2>10
<1> QED BY <1>1, <1>2

LEMMA TakesNew ==
    ASSUME Types, NEW s \in Sessions, NEW r \in Requests, NewReqs(s, r)
    PROVE  /\ interest' \in [Sessions -> SUBSET Keys]
           /\ \E now \in SUBSET req[r].left :
                /\ live' = [live EXCEPT ![s] = live[s] \cup now]
                /\ wants' = [wants EXCEPT ![s] = wants[s] \cup now]
                /\ tofetch' = [tofetch EXCEPT ![s] = tofetch[s] \cup (req[r].left \ now)]
<1>1. PICK now \in SUBSET req[r].left :
        /\ live' = [live EXCEPT ![s] = @ \cup now]
        /\ wants' = [wants EXCEPT ![s] = @ \cup now]
        /\ tofetch' = [tofetch EXCEPT ![s] = @ \cup (req[r].left \ now)]
        /\ Interested(s, req[r].left)
    BY DEF NewReqs
<1>2. req[r].left \subseteq Keys
    BY DEF Types, Reqs
<1>3. PICK i \in SUBSET (interest[s] \cup req[r].left) : interest' = [interest EXCEPT ![s] = i]
    BY <1>1 DEF Interested
<1>4. interest' \in [Sessions -> SUBSET Keys]
    BY <1>2, <1>3 DEF Types
<1>5. /\ live' = [live EXCEPT ![s] = live[s] \cup now]
      /\ wants' = [wants EXCEPT ![s] = wants[s] \cup now]
      /\ tofetch' = [tofetch EXCEPT ![s] = tofetch[s] \cup (req[r].left \ now)]
    BY <1>1 DEF Types
<1> QED BY <1>4, <1>5

\* What the steps of a delivery do to it.
LEMMA DeliveryDoes ==
    ASSUME Types, NEW d \in Deliveries
    PROVE  /\ PutBlock(d) => dlv' = [dlv EXCEPT ![d] = [dlv[d] EXCEPT !.at = "lock"]]
           /\ LockSessions(d) => dlv' = [dlv EXCEPT ![d] = [[dlv[d] EXCEPT !.at = "ask"]
                                            EXCEPT !.ask = {s \in Sessions : loop[s] \in {"run", "removing"}}]]
           /\ UnlockSessions(d) => dlv' = [dlv EXCEPT ![d] = [dlv[d] EXCEPT !.at = "send"]]
           /\ CancelWant(d) => dlv' = [dlv EXCEPT ![d] = [[dlv[d] EXCEPT !.at = "send"] EXCEPT !.ask = {}]]
           /\ \A s : SendBlock(d, s) => dlv' = [dlv EXCEPT ![d] = [[[dlv[d] EXCEPT !.at = "cancel"]
                                            EXCEPT !.ask = {s}] EXCEPT !.send = dlv[d].send \ {s}]]
<1>1. PutBlock(d) => dlv' = [dlv EXCEPT ![d] = [dlv[d] EXCEPT !.at = "lock"]]
    BY DEF PutBlock, Types
<1>2. LockSessions(d) => dlv' = [dlv EXCEPT ![d] = [[dlv[d] EXCEPT !.at = "ask"]
                                   EXCEPT !.ask = {s \in Sessions : loop[s] \in {"run", "removing"}}]]
    BY DEF LockSessions, Types
<1>3. UnlockSessions(d) => dlv' = [dlv EXCEPT ![d] = [dlv[d] EXCEPT !.at = "send"]]
    BY DEF UnlockSessions, Types
<1>4. CancelWant(d) => dlv' = [dlv EXCEPT ![d] = [[dlv[d] EXCEPT !.at = "send"] EXCEPT !.ask = {}]]
    BY DEF CancelWant, Types
<1>5. \A s : SendBlock(d, s) => dlv' = [dlv EXCEPT ![d] = [[[dlv[d] EXCEPT !.at = "cancel"]
                                   EXCEPT !.ask = {s}] EXCEPT !.send = dlv[d].send \ {s}]]
    BY DEF SendBlock, Types
<1> QED BY <1>1, <1>2, <1>3, <1>4, <1>5

LEMMA DlvFields ==
    ASSUME NEW x \in Dlvs
    PROVE  /\ \A v \in {"idle", "put", "lock", "ask", "send", "cancel"} : [x EXCEPT !.at = v] \in Dlvs
           /\ \A t \in SUBSET Sessions : [x EXCEPT !.ask = t] \in Dlvs /\ [x EXCEPT !.send = t] \in Dlvs
BY DEF Dlvs

\* In each step of a delivery, it keeps its key until it is idle; only SendBlock makes it cancel.
LEMMA Delivering ==
    ASSUME Types, Carries, NEW d \in Deliveries,
           Deliver(d) \/ \E k \in Keys : Arrive(d, k)
    PROVE  /\ dlv' \in [Deliveries -> Dlvs] /\ \A e \in Deliveries : e # d => dlv'[e] = dlv[e]
           /\ dlv'[d].at # "idle" => \E k \in Keys : dlv'[d].key = {k}
           /\ dlv[d].at = "cancel" => CancelWant(d)
           /\ \A s \in Sessions : SendBlock(d, s) =>
                 dlv'[d].at = "cancel" /\ dlv'[d].ask = {s} /\ dlv'[d].key = {Key(d)} /\ Key(d) \in Keys
<1>0. dlv[d] \in Dlvs
    BY DEF Types
<1>1. ASSUME NEW k \in Keys, Arrive(d, k) PROVE dlv[d].at = "idle" /\ \E x \in Dlvs : dlv' = [dlv EXCEPT ![d] = x] /\ x.key = {k}
    <2> DEFINE x == [[NoDlv EXCEPT !.key = {k}] EXCEPT !.at = "put"]
    <2>1. x \in Dlvs /\ x.key = {k}
        BY DEF NoDlv, Dlvs
    <2>2. dlv[d].at = "idle" /\ dlv' = [dlv EXCEPT ![d] = x]
        BY <1>1 DEF Arrive, Types, NoDlv
    <2> QED BY <2>1, <2>2
<1>2. ASSUME PutBlock(d) PROVE dlv[d].at = "put" /\ \E x \in Dlvs : dlv' = [dlv EXCEPT ![d] = x] /\ x.key = dlv[d].key
    <2> DEFINE x == [dlv[d] EXCEPT !.at = "lock"]
    <2>1. x \in Dlvs /\ x.key = dlv[d].key
        BY <1>0, DlvFields DEF Dlvs
    <2> QED BY <1>2, <2>1, DeliveryDoes DEF PutBlock
<1>3. ASSUME LockSessions(d) PROVE dlv[d].at = "lock" /\ \E x \in Dlvs : dlv' = [dlv EXCEPT ![d] = x] /\ x.key = dlv[d].key
    <2> DEFINE v == [dlv[d] EXCEPT !.at = "ask"]
               x == [v EXCEPT !.ask = {s \in Sessions : loop[s] \in {"run", "removing"}}]
    <2>1. v \in Dlvs /\ v.key = dlv[d].key
        BY <1>0, DlvFields DEF Dlvs
    <2>2. dlv' = [dlv EXCEPT ![d] = x]
        BY <1>3, DeliveryDoes
    <2> HIDE DEF v
    <2>3. x \in Dlvs /\ x.key = v.key
        BY <2>1, DlvFields DEF Dlvs
    <2> QED BY <1>3, <2>1, <2>2, <2>3 DEF LockSessions
<1>4. ASSUME NEW s \in Sessions, dlv[d].at = "ask", AskSession(d, s)
      PROVE  \E x \in Dlvs : dlv' = [dlv EXCEPT ![d] = x] /\ x.key = dlv[d].key
    <2>1. PICK t \in SUBSET Sessions : dlv' = [dlv EXCEPT ![d].ask = @ \ {s}, ![d].send = t]
        <3>1. dlv[d].send \cup {s} \in SUBSET Sessions /\ dlv[d].send \in SUBSET Sessions
            BY <1>0 DEF Dlvs
        <3>2. \/ dlv' = [dlv EXCEPT ![d].ask = @ \ {s}, ![d].send = dlv[d].send \cup {s}]
              \/ dlv' = [dlv EXCEPT ![d].ask = @ \ {s}, ![d].send = dlv[d].send]
            BY <1>4 DEF AskSession, Types
        <3> QED BY <3>1, <3>2
    <2> DEFINE v == [dlv[d] EXCEPT !.ask = dlv[d].ask \ {s}]
               x == [v EXCEPT !.send = t]
    <2>2. dlv' = [dlv EXCEPT ![d] = x]
        BY <2>1 DEF Types
    <2>3. dlv[d].ask \ {s} \in SUBSET Sessions
        BY <1>0 DEF Dlvs
    <2>4. v \in Dlvs /\ v.key = dlv[d].key
        BY <1>0, <2>3, DlvFields DEF Dlvs
    <2> HIDE DEF v
    <2>5. x \in Dlvs /\ x.key = v.key
        BY <2>1, <2>4, DlvFields DEF Dlvs
    <2> QED BY <2>2, <2>4, <2>5
<1>5. ASSUME UnlockSessions(d) PROVE dlv[d].at = "ask" /\ \E x \in Dlvs : dlv' = [dlv EXCEPT ![d] = x] /\ x.key = dlv[d].key
    <2> DEFINE x == [dlv[d] EXCEPT !.at = "send"]
    <2>1. x \in Dlvs /\ x.key = dlv[d].key
        BY <1>0, DlvFields DEF Dlvs
    <2> QED BY <1>5, <2>1, DeliveryDoes DEF UnlockSessions
<1>6. ASSUME CancelWant(d) PROVE dlv[d].at = "cancel" /\ \E x \in Dlvs : dlv' = [dlv EXCEPT ![d] = x] /\ x.key = dlv[d].key
    <2> DEFINE v == [dlv[d] EXCEPT !.at = "send"]
               x == [v EXCEPT !.ask = {}]
    <2>1. v \in Dlvs /\ v.key = dlv[d].key
        BY <1>0, DlvFields DEF Dlvs
    <2>2. dlv' = [dlv EXCEPT ![d] = x]
        BY <1>6, DeliveryDoes
    <2> HIDE DEF v
    <2>3. x \in Dlvs /\ x.key = v.key
        BY <2>1, DlvFields DEF Dlvs
    <2> QED BY <1>6, <2>1, <2>2, <2>3 DEF CancelWant
<1>7. ASSUME NEW s \in Sessions, SendBlock(d, s)
      PROVE  dlv[d].at = "send" /\ \E x \in Dlvs : dlv' = [dlv EXCEPT ![d] = x] /\ x.key = dlv[d].key /\ x.at = "cancel" /\ x.ask = {s}
    <2> DEFINE v == [dlv[d] EXCEPT !.at = "cancel"]
               w == [v EXCEPT !.ask = {s}]
               x == [w EXCEPT !.send = dlv[d].send \ {s}]
    <2>1. v \in Dlvs /\ v.key = dlv[d].key /\ v.at = "cancel" /\ dlv[d].send \ {s} \in SUBSET Sessions
        <3>1. v \in Dlvs
            BY <1>0, DlvFields
        <3>2. v.key = dlv[d].key /\ v.at = "cancel"
            BY <1>0 DEF Dlvs
        <3>3. dlv[d].send \ {s} \in SUBSET Sessions
            BY <1>0 DEF Dlvs
        <3> QED BY <3>1, <3>2, <3>3
    <2>2. dlv' = [dlv EXCEPT ![d] = x]
        BY <1>7, DeliveryDoes
    <2> HIDE DEF v
    <2>3. w \in Dlvs /\ w.key = v.key /\ w.at = v.at /\ w.ask = {s}
        <3>1. {s} \in SUBSET Sessions
            OBVIOUS
        <3>2. w \in Dlvs
            BY <2>1, <3>1, DlvFields
        <3>3. w.key = v.key /\ w.at = v.at /\ w.ask = {s}
            BY <2>1 DEF Dlvs
        <3> QED BY <3>2, <3>3
    <2> HIDE DEF w
    <2>4. x \in Dlvs /\ x.key = w.key /\ x.at = w.at /\ x.ask = w.ask
        <3>1. x \in Dlvs
            BY <2>1, <2>3, DlvFields
        <3>2. x.key = w.key /\ x.at = w.at /\ x.ask = w.ask
            BY <2>3 DEF Dlvs
        <3> QED BY <3>1, <3>2
    <2> QED BY <1>7, <2>1, <2>2, <2>3, <2>4 DEF SendBlock
<1>8. ASSUME Delivered(d) PROVE dlv[d].at = "send" /\ \E x \in Dlvs : dlv' = [dlv EXCEPT ![d] = x] /\ x.at = "idle"
    <2>1. NoDlv \in Dlvs /\ NoDlv.at = "idle"
        BY DEF NoDlv, Dlvs
    <2> QED BY <1>8, <2>1 DEF Delivered
<1>9. PICK x \in Dlvs : /\ dlv' = [dlv EXCEPT ![d] = x]
                        /\ x.key = dlv[d].key \/ x.at = "idle" \/ \E k \in Keys : x.key = {k}
    BY <1>1, <1>2, <1>3, <1>4, <1>5, <1>6, <1>7, <1>8 DEF Deliver
<1>10. dlv' \in [Deliveries -> Dlvs] /\ (\A e \in Deliveries : e # d => dlv'[e] = dlv[e]) /\ dlv'[d] = x
    BY <1>9 DEF Types
<1>11. dlv[d].at = "idle" => \E k \in Keys : Arrive(d, k)
    BY <1>2, <1>3, <1>4, <1>5, <1>6, <1>7, <1>8 DEF Deliver
<1>12. dlv'[d].at # "idle" => \E k \in Keys : dlv'[d].key = {k}
    <2>1. CASE dlv[d].at = "idle"
        <3>1. PICK k \in Keys : Arrive(d, k)
            BY <1>11, <2>1
        <3>2. PICK y \in Dlvs : dlv' = [dlv EXCEPT ![d] = y] /\ y.key = {k}
            BY <1>1, <3>1
        <3> QED BY <3>2 DEF Types
    <2>2. CASE dlv[d].at # "idle"
        <3>1. \E k \in Keys : dlv[d].key = {k}
            BY <2>2 DEF Carries
        <3> QED BY <1>9, <1>10, <3>1
    <2> QED BY <2>1, <2>2
<1>13. dlv[d].at = "cancel" => CancelWant(d)
    BY <1>1, <1>2, <1>3, <1>4, <1>5, <1>6, <1>7, <1>8 DEF Deliver
<1>14. ASSUME NEW s \in Sessions, SendBlock(d, s)
       PROVE  dlv'[d].at = "cancel" /\ dlv'[d].ask = {s} /\ dlv'[d].key = {Key(d)} /\ Key(d) \in Keys
    <2>1. PICK y \in Dlvs : dlv' = [dlv EXCEPT ![d] = y] /\ y.key = dlv[d].key /\ y.at = "cancel" /\ y.ask = {s}
        BY <1>7, <1>14
    <2>2. Key(d) \in Keys /\ dlv[d].key = {Key(d)}
        BY <1>7, <1>14, KeyOf
    <2> QED BY <2>1, <2>2 DEF Types
<1> QED BY <1>10, <1>12, <1>13, <1>14

-----------------------------------------------------------------------------
(* Each part of the invariant is kept *)

LEMMA TypesKept ==
    ASSUME Types, Carries, Next
    PROVE  Types'
<1>1. ASSUME NEW s \in Sessions, NewSession(s) \/ ContextDone(s) \/ LoopEnds(s) \/ Removed(s) \/ Tick(s) PROVE Types'
    <2>1. CASE NewSession(s) BY <2>1 DEF NewSession, Types
    <2>2. CASE ContextDone(s) BY <2>2 DEF ContextDone, Types, session
    <2>3. CASE LoopEnds(s) BY <2>3 DEF LoopEnds, Types
    <2>4. CASE Removed(s) BY <2>4 DEF Removed, Types
    <2>5. CASE Tick(s) BY <2>5 DEF Tick, Types, session
    <2> QED BY <1>1, <2>1, <2>2, <2>3, <2>4, <2>5
<1>2. ASSUME NEW r \in Requests, NEW call \in Calls[r], Begin(r, call) PROVE Types'
    <2> DEFINE x == [of |-> call.of, left |-> call.keys, inbox |-> {}, done |-> FALSE,
                     at |-> IF call.of = Direct THEN "open" ELSE "fetch"]
    <2>1. x \in Reqs
        BY Called DEF Reqs
    <2>2. req' = [req EXCEPT ![r] = x]
        BY <1>2, BeginDoes
    <2> HIDE DEF x
    <2>3. req' \in [Requests -> Reqs]
        BY <2>1, <2>2, Refields
    <2>4. wants' \in [Sessions \cup Requests -> SUBSET Keys]
        BY <1>2, Called DEF Begin, Types
    <2> QED BY <1>2, <2>3, <2>4 DEF Begin, Types, session
<1>3. ASSUME NEW r \in Requests, Abandon(r) \/ FetchEnds(r) \/ Take(r) \/ Close(r) PROVE Types'
    <2>1. req[r] \in Reqs
        BY DEF Types
    <2>2. CASE Abandon(r) \/ FetchEnds(r) \/ Close(r)
        <3>1. PICK x \in Reqs : req' = [req EXCEPT ![r] = x]
            BY <2>1, <2>2, Changes, Fields
        <3>2. req' \in [Requests -> Reqs]
            BY <3>1, Refields
        <3>3. wants' \in [Sessions \cup Requests -> SUBSET Keys]
            BY <2>2 DEF Abandon, FetchEnds, Close, Types
        <3> QED BY <2>2, <3>2, <3>3 DEF Abandon, FetchEnds, Close, Types, session
    <2>3. CASE Take(r)
        <3>1. req' \in [Requests -> Reqs]
            BY <2>3, TakeDoes, Refields
        <3>2. wants' \in [Sessions \cup Requests -> SUBSET Keys]
            BY <2>3, TakeDoes DEF Types
        <3> QED BY <2>3, <3>1, <3>2 DEF Take, Types, session
    <2> QED BY <1>3, <2>2, <2>3
<1>4. ASSUME NEW s \in Sessions, NEW r \in Requests, NewReqs(s, r) \/ CancelKeys(s, r) PROVE Types'
    <2>1. req[r] \in Reqs
        BY DEF Types
    <2>2. PICK x \in Reqs : req' = [req EXCEPT ![r] = x]
        BY <1>4, <2>1, Changes, Fields
    <2>3. req' \in [Requests -> Reqs]
        BY <2>2, Refields
    <2>4. req[r].left \subseteq Keys
        BY <2>1 DEF Reqs
    <2>5. CASE NewReqs(s, r)
        <3>1. interest' \in [Sessions -> SUBSET Keys]
            BY <2>5, TakesNew
        <3>2. live' \in [Sessions -> SUBSET Keys] /\ tofetch' \in [Sessions -> SUBSET Keys]
              /\ wants' \in [Sessions \cup Requests -> SUBSET Keys]
            BY <2>4, <2>5, TakesNew DEF Types
        <3> QED BY <2>3, <2>5, <3>1, <3>2 DEF NewReqs, Types
    <2>6. CASE CancelKeys(s, r)
        BY <2>3, <2>6 DEF CancelKeys, Types
    <2> QED BY <1>4, <2>5, <2>6
<1>5. ASSUME NEW d \in Deliveries, NEW k \in Keys, Arrive(d, k) PROVE Types'
    <2>1. dlv' \in [Deliveries -> Dlvs]
        BY <1>5, Delivering
    <2>2. blocks' \in 0 .. MaxBlocks
        BY <1>5, BitswapSessionAssumption DEF Arrive, Types
    <2> QED BY <1>5, <2>1, <2>2 DEF Arrive, Types, session
<1>6. ASSUME NEW d \in Deliveries, Deliver(d) PROVE Types'
    <2>1. dlv' \in [Deliveries -> Dlvs]
        BY <1>6, Delivering
    <2>2. CASE PutBlock(d)
        <3>1. Key(d) \in Keys
            BY <2>2, KeyOf DEF PutBlock
        <3>2. req' \in [Requests -> Reqs]
            BY <2>2, <3>1, Publishes DEF PutBlock
        <3> QED BY <2>1, <2>2, <3>2 DEF PutBlock, Types, session
    <2>3. CASE LockSessions(d) \/ UnlockSessions(d) \/ Delivered(d)
        BY <2>1, <2>3 DEF LockSessions, UnlockSessions, Delivered, Types, session
    <2>4. CASE CancelWant(d)
        <3>1. wants' \in [Sessions \cup Requests -> SUBSET Keys]
            BY <2>4 DEF CancelWant, Types
        <3> QED BY <2>1, <2>4, <3>1 DEF CancelWant, Types, session
    <2>5. ASSUME NEW s \in Sessions, SendBlock(d, s) PROVE Types'
        <3>1. Key(d) \in Keys
            BY <2>5, KeyOf DEF SendBlock
        <3>2. /\ live' \in [Sessions -> SUBSET Keys] /\ tofetch' \in [Sessions -> SUBSET Keys]
              /\ wants' \in [Sessions \cup Requests -> SUBSET Keys] /\ req' \in [Requests -> Reqs]
            BY <2>5, <3>1, Receives DEF SendBlock, Types
        <3> QED BY <2>1, <2>5, <3>2 DEF SendBlock, Types
    <2>6. ASSUME NEW s \in Sessions, AskSession(d, s) PROVE Types'
        BY <2>1, <2>6 DEF AskSession, Types, session
    <2> QED BY <1>6, <2>2, <2>3, <2>4, <2>5, <2>6 DEF Deliver
<1> QED BY <1>1, <1>2, <1>3, <1>4, <1>5, <1>6 DEF Next

LEMMA CarriesKept ==
    ASSUME Types, Carries, Next
    PROVE  Carries'
<1>1. ASSUME NEW d \in Deliveries, Deliver(d) \/ \E k \in Keys : Arrive(d, k) PROVE Carries'
    <2>1. \A e \in Deliveries : e # d => dlv'[e] = dlv[e]
        BY <1>1, Delivering
    <2>2. dlv'[d].at # "idle" => \E k \in Keys : dlv'[d].key = {k}
        BY <1>1, Delivering
    <2> QED BY <2>1, <2>2 DEF Carries
<1>2. CASE UNCHANGED dlv
    BY <1>2 DEF Carries
<1>3. \/ UNCHANGED dlv
      \/ \E d \in Deliveries : Deliver(d) \/ \E k \in Keys : Arrive(d, k)
    BY DEF Next, NewSession, ContextDone, LoopEnds, Removed, Tick, Begin, Abandon, FetchEnds, Take, Close,
           NewReqs, CancelKeys
<1> QED BY <1>1, <1>2, <1>3

\* A delivery leaves requests as they are or publishes its key to some of them.
LEMMA DeliveryPublishes ==
    ASSUME Types, Carries, NEW d \in Deliveries, Deliver(d)
    PROVE  req' = req \/ \E of, k : k \in Keys /\ req' = Published(of, k)
<1>1. CASE PutBlock(d)
    <2>1. Key(d) \in Keys
        BY <1>1, KeyOf DEF PutBlock
    <2> QED BY <1>1, <2>1 DEF PutBlock
<1>2. ASSUME NEW s \in Sessions, SendBlock(d, s) PROVE req' = req \/ \E of, k : k \in Keys /\ req' = Published(of, k)
    <2>1. Key(d) \in Keys
        BY <1>2, KeyOf DEF SendBlock
    <2>2. CASE Receive(s, Key(d))
        BY <2>1, <2>2, Receives
    <2>3. CASE req' = req
        BY <2>3
    <2> QED BY <1>2, <2>2, <2>3 DEF SendBlock
<1>3. ASSUME ~PutBlock(d), \A s \in Sessions : ~SendBlock(d, s) PROVE req' = req
    BY <1>3 DEF Deliver, LockSessions, UnlockSessions, CancelWant, Delivered, AskSession
<1> QED BY <1>1, <1>2, <1>3

\* What a step does to a request: it begins, it gets blocks, or it moves on.
Onwards(r) ==
    \/ req[r].at = "idle" /\ \E call \in Calls[r] : Begin(r, call)
    \/ /\ req[r].at # "idle" => req'[r].at # "idle"
       /\ req'[r].at # "idle" => req[r].at # "idle"
       /\ req'[r].of = req[r].of
       /\ req[r].at = "over" => req'[r].at = "over" /\ req'[r].left = req[r].left

LEMMA RequestsMove ==
    ASSUME Types, Carries, Next, NEW r \in Requests
    PROVE  Onwards(r)
<1>0. req[r] \in Reqs
    BY DEF Types
<1>1. CASE req'[r] = req[r]
    BY <1>1 DEF Onwards
<1>2. ASSUME NEW call \in Calls[r], Begin(r, call) PROVE Onwards(r)
    BY <1>2, BeginDoes DEF Onwards
<1>3. ASSUME NEW v \in {"open", "closing", "over"}, req[r].at \in {"fetch", "open", "closing"},
             req' = [req EXCEPT ![r] = [req[r] EXCEPT !.at = v]]
      PROVE  Onwards(r)
    <2>1. req'[r] = [req[r] EXCEPT !.at = v]
        BY <1>3 DEF Types
    <2>2. req'[r].at = v /\ req'[r].of = req[r].of
        BY <1>0, <2>1 DEF Reqs
    <2> QED BY <1>3, <2>2 DEF Onwards
<1>4. CASE Abandon(r)
    <2>1. req'[r] = [req[r] EXCEPT !.done = TRUE]
        BY <1>4, Changes DEF Types
    <2>2. req'[r].at = req[r].at /\ req'[r].of = req[r].of /\ req'[r].left = req[r].left
        BY <1>0, <2>1 DEF Reqs
    <2> QED BY <2>2 DEF Onwards
<1>5. CASE FetchEnds(r) \/ \E s \in Sessions : NewReqs(s, r)
    BY <1>3, <1>5, Changes DEF FetchEnds, NewReqs
<1>6. CASE Close(r) \/ \E s \in Sessions : CancelKeys(s, r)
    BY <1>3, <1>6, Changes DEF Close, CancelKeys
<1>7. CASE Take(r)
    BY <1>7, TakeDoes DEF Onwards
<1>8. ASSUME NEW of, NEW k \in Keys, req' = Published(of, k) PROVE Onwards(r)
    BY <1>8, Publishes DEF Onwards
<1>9. ASSUME NEW q \in Requests, q # r,
             \/ Abandon(q) \/ FetchEnds(q) \/ Take(q) \/ Close(q)
             \/ \E s \in Sessions : NewReqs(s, q) \/ CancelKeys(s, q)
             \/ \E call \in Calls[q] : Begin(q, call)
      PROVE  req'[r] = req[r]
    BY <1>9 DEF Abandon, FetchEnds, Take, Close, NewReqs, CancelKeys, Begin, Types
<1>10. ASSUME NEW d \in Deliveries, Deliver(d) PROVE req' = req \/ \E of, k : k \in Keys /\ req' = Published(of, k)
    BY <1>10, DeliveryPublishes
<1>11. CASE \E d \in Deliveries : Deliver(d)
    BY <1>1, <1>8, <1>10, <1>11
<1>12. CASE (\E s \in Sessions : NewSession(s) \/ ContextDone(s) \/ LoopEnds(s) \/ Removed(s) \/ Tick(s))
            \/ \E d \in Deliveries, k \in Keys : Arrive(d, k)
    <2>1. req' = req
        BY <1>12 DEF NewSession, ContextDone, LoopEnds, Removed, Tick, Arrive
    <2> QED BY <1>1, <2>1
<1>13. CASE \E q \in Requests : \E call \in Calls[q] : Begin(q, call)
    BY <1>1, <1>2, <1>9, <1>13
<1>14. CASE \E q \in Requests : Abandon(q) \/ FetchEnds(q) \/ Take(q) \/ Close(q)
    BY <1>1, <1>4, <1>5, <1>6, <1>7, <1>9, <1>14
<1>15. CASE \E s \in Sessions, q \in Requests : NewReqs(s, q) \/ CancelKeys(s, q)
    BY <1>1, <1>5, <1>6, <1>9, <1>15
<1> QED BY <1>11, <1>12, <1>13, <1>14, <1>15 DEF Next

LEMMA LoopsMove ==
    ASSUME Types, Next, NEW s \in Sessions
    PROVE  /\ loop[s] # "new" => loop'[s] # "new"
           /\ loop'[s] = "run" => loop[s] = "run" \/ loop[s] = "new"
<1>1. CASE \E t \in Sessions : NewSession(t) \/ LoopEnds(t) \/ Removed(t)
    BY <1>1 DEF NewSession, LoopEnds, Removed, Types
<1>2. CASE loop' = loop
    BY <1>2
<1>3. (\E t \in Sessions : NewSession(t) \/ LoopEnds(t) \/ Removed(t)) \/ loop' = loop
    <2>1. ASSUME NEW d \in Deliveries, Deliver(d) PROVE loop' = loop
        BY <2>1 DEF Deliver, PutBlock, LockSessions, UnlockSessions, CancelWant, Delivered, SendBlock, AskSession, session
    <2> QED BY <2>1 DEF Next, ContextDone, Tick, Begin, Abandon, FetchEnds, Take, Close, NewReqs, CancelKeys,
               Arrive, session
<1> QED BY <1>1, <1>2, <1>3

LEMMA BegunKept ==
    ASSUME Types, Carries, Begun, Next
    PROVE  Begun'
<1> SUFFICES ASSUME NEW r \in Requests, req'[r].at # "idle", req'[r].of # Direct
             PROVE  loop'[req'[r].of] # "new"
    BY DEF Begun
<1>0. req'[r].of \in Sessions
    <2>1. Types'
        BY TypesKept
    <2> QED BY <2>1 DEF Types, Reqs
<1>1. Onwards(r)
    BY RequestsMove
<1>2. loop[req'[r].of] # "new"
    <2>1. ASSUME NEW call \in Calls[r], Begin(r, call) PROVE loop[req'[r].of] # "new"
        <3>1. req'[r].of = call.of
            BY <2>1, BeginDoes DEF Types
        <3> QED BY <1>0, <2>1, <3>1 DEF Begin
    <2> QED BY <1>1, <2>1 DEF Onwards, Begun
<1> QED BY <1>0, <1>2, LoopsMove

-----------------------------------------------------------------------------
(* Keys that are waited for *)

\* Whoever has robbed a request has done so for good.
LEMMA RobbedStays ==
    ASSUME Types, Carries, Next, NEW r \in Requests, NEW k, Robbed(r, k), req'[r].of = req[r].of
    PROVE  Robbed(r, k)'
<1>1. PICK q \in Requests \ {r} : req[q].of = req[r].of /\ req[q].at = "over" /\ k \in req[q].left
    BY DEF Robbed
<1>2. Onwards(q)
    BY RequestsMove
<1>3. req'[q].of = req[q].of /\ req'[q].at = "over" /\ req'[q].left = req[q].left
    BY <1>1, <1>2 DEF Onwards
<1> QED BY <1>1, <1>3 DEF Robbed

\* Where a request that waits gets to from a step: r waited for k before, and of a
\* session that ran, unless the session takes its keys in this step.
LEMMA WaitedBefore ==
    ASSUME Types, Carries, Begun, Next, NEW r \in Requests, NEW k \in Keys, NEW s \in Sessions,
           Waits(r, k)', req'[r].of = s, loop'[s] = "run"
    PROVE  \/ NewReqs(s, r)
           \/ Waits(r, k) /\ req[r].of = s /\ loop[s] = "run"
<1>0. req[r] \in Reqs /\ req'[r].at = "open" /\ ~req'[r].done /\ k \in req'[r].left /\ k \notin req'[r].inbox
    BY DEF Types, Waits
<1>1. ASSUME Waits(r, k), req[r].of = s PROVE loop[s] = "run"
    <2>1. loop[s] # "new"
        BY <1>1, Names DEF Begun, Waits
    <2> QED BY <2>1, LoopsMove
<1>2. ASSUME NEW call \in Calls[r], Begin(r, call) PROVE FALSE
    <2>1. req'[r].of = call.of /\ req'[r].at = IF call.of = Direct THEN "open" ELSE "fetch"
        BY <1>2, BeginDoes DEF Types
    <2> QED BY <1>0, <2>1, Names
<1>3. ASSUME Abandon(r) PROVE FALSE
    <2>1. req'[r] = [req[r] EXCEPT !.done = TRUE]
        BY <1>3, Changes DEF Types
    <2> QED BY <1>0, <2>1 DEF Reqs
<1>4. ASSUME FetchEnds(r) PROVE FALSE
    <2>1. req'[r] = [req[r] EXCEPT !.at = "open"] /\ req[r].done
        BY <1>4, Changes DEF Types, FetchEnds
    <2> QED BY <1>0, <2>1 DEF Reqs
<1>5. ASSUME Close(r) \/ \E t \in Sessions : CancelKeys(t, r) PROVE FALSE
    <2>1. PICK v \in {"closing", "over"} : req' = [req EXCEPT ![r] = [req[r] EXCEPT !.at = v]]
        BY <1>5, Changes
    <2>2. req'[r].at = v
        BY <1>0, <2>1 DEF Types, Reqs
    <2> QED BY <1>0, <2>2
<1>6. ASSUME Take(r) PROVE Waits(r, k) /\ req[r].of = s
    <2>1. PICK j \in req[r].inbox :
              /\ req'[r].left = req[r].left \ {j} /\ req'[r].inbox = req[r].inbox \ {j}
              /\ req'[r].of = req[r].of /\ req'[r].done = req[r].done /\ req[r].at = "open"
        BY <1>6, TakeDoes
    <2> QED BY <1>0, <2>1 DEF Waits
<1>7. ASSUME NEW of, NEW j \in Keys, req' = Published(of, j) PROVE Waits(r, k) /\ req[r].of = s
    <2>1. /\ req'[r].of = req[r].of /\ req'[r].left = req[r].left
          /\ req'[r].done = req[r].done /\ req'[r].at = req[r].at
          /\ req[r].inbox \subseteq req'[r].inbox
        BY <1>7, Publishes
    <2> QED BY <1>0, <2>1 DEF Waits
<1>8. ASSUME req'[r] = req[r] PROVE Waits(r, k) /\ req[r].of = s
    BY <1>0, <1>8 DEF Waits
<1>9. ASSUME NEW t \in Sessions, NewReqs(t, r) PROVE NewReqs(s, r)
    <2>1. req[r].of = t
        BY <1>9 DEF NewReqs
    <2>2. req'[r] = [req[r] EXCEPT !.at = "open"]
        BY <1>9, Changes DEF Types
    <2>3. req'[r].of = req[r].of
        BY <1>0, <2>2 DEF Reqs
    <2> QED BY <1>9, <2>1, <2>3
<1>10. ASSUME NEW q \in Requests, q # r,
              \/ Abandon(q) \/ FetchEnds(q) \/ Take(q) \/ Close(q)
              \/ \E t \in Sessions : NewReqs(t, q) \/ CancelKeys(t, q)
              \/ \E call \in Calls[q] : Begin(q, call)
       PROVE  req'[r] = req[r]
    BY <1>10 DEF Abandon, FetchEnds, Take, Close, NewReqs, CancelKeys, Begin, Types
<1>11. ASSUME NEW d \in Deliveries, Deliver(d) PROVE req' = req \/ \E of, j : j \in Keys /\ req' = Published(of, j)
    BY <1>11, DeliveryPublishes
<1>12. CASE \E d \in Deliveries : Deliver(d)
    BY <1>1, <1>7, <1>8, <1>11, <1>12
<1>13. CASE (\E t \in Sessions : NewSession(t) \/ ContextDone(t) \/ LoopEnds(t) \/ Removed(t) \/ Tick(t))
            \/ \E d \in Deliveries, j \in Keys : Arrive(d, j)
    <2>1. req' = req
        BY <1>13 DEF NewSession, ContextDone, LoopEnds, Removed, Tick, Arrive
    <2> QED BY <1>1, <1>8, <2>1
<1>14. CASE \E q \in Requests : \E call \in Calls[q] : Begin(q, call)
    BY <1>1, <1>2, <1>8, <1>10, <1>14
<1>15. CASE \E q \in Requests : Abandon(q) \/ FetchEnds(q) \/ Take(q) \/ Close(q)
    BY <1>1, <1>3, <1>4, <1>5, <1>6, <1>8, <1>10, <1>15
<1>16. CASE \E t \in Sessions, q \in Requests : NewReqs(t, q) \/ CancelKeys(t, q)
    BY <1>1, <1>5, <1>8, <1>9, <1>10, <1>16
<1> QED BY <1>12, <1>13, <1>14, <1>15, <1>16 DEF Next

\* A key leaves both sets of a session when it arrives for it, or when a request
\* that is over takes it back.
LEMMA KeysLeave ==
    ASSUME Types, Carries, Next, NEW s \in Sessions, NEW k \in Keys,
           k \in live[s] \cup tofetch[s], k \notin live'[s] \cup tofetch'[s]
    PROVE  \/ req' = Published(s, k)
           \/ \E q \in Requests : CancelKeys(s, q) /\ k \in req[q].left
<1>1. ASSUME NEW d \in Deliveries, NEW t \in Sessions, SendBlock(d, t) PROVE req' = Published(s, k)
    <2>1. Key(d) \in Keys
        BY <1>1, KeyOf DEF SendBlock
    <2>2. Receive(t, Key(d))
        BY <1>1 DEF SendBlock
    <2>3. t = s
        BY <2>1, <2>2, Receives
    <2>4. (live[s] \cup tofetch[s]) \ {Key(d)} \subseteq live'[s] \cup tofetch'[s]
        BY <2>1, <2>2, <2>3, Receives
    <2>5. Key(d) = k
        BY <2>4
    <2> QED BY <2>1, <2>2, <2>3, <2>5, Receives
<1>2. ASSUME NEW t \in Sessions, NEW q \in Requests, CancelKeys(t, q) PROVE CancelKeys(s, q) /\ k \in req[q].left
    BY <1>2 DEF CancelKeys, Types
<1>3. ASSUME NEW t \in Sessions, NEW q \in Requests, NewReqs(t, q) PROVE FALSE
    <2>1. PICK now \in SUBSET req[q].left :
                /\ live' = [live EXCEPT ![t] = live[t] \cup now]
                /\ wants' = [wants EXCEPT ![t] = wants[t] \cup now]
                /\ tofetch' = [tofetch EXCEPT ![t] = tofetch[t] \cup (req[q].left \ now)]
        BY <1>3, TakesNew
    <2>2. live[s] \subseteq live'[s] /\ tofetch[s] \subseteq tofetch'[s]
        BY <2>1 DEF Types
    <2> QED BY <2>2
<1>4. ~UNCHANGED <<live, tofetch>>
    OBVIOUS
<1>5. \/ \E d \in Deliveries, t \in Sessions : SendBlock(d, t)
      \/ \E t \in Sessions, q \in Requests : CancelKeys(t, q) \/ NewReqs(t, q)
    <2>1. ASSUME NEW d \in Deliveries, Deliver(d), \A t \in Sessions : ~SendBlock(d, t) PROVE UNCHANGED <<live, tofetch>>
        BY <2>1 DEF Deliver, PutBlock, LockSessions, UnlockSessions, CancelWant, Delivered, AskSession, session
    <2> QED BY <1>4, <2>1 DEF Next, NewSession, ContextDone, LoopEnds, Removed, Tick, Begin, Abandon, FetchEnds,
               Take, Close, Arrive, session
<1> QED BY <1>1, <1>2, <1>3, <1>5

LEMMA TrackedKept ==
    ASSUME Types, Carries, Begun, Tracked, Next
    PROVE  Tracked'
<1> SUFFICES ASSUME NEW r \in Requests, NEW k \in Keys,
                    Waits(r, k)', req'[r].of # Direct, loop'[req'[r].of] = "run"
             PROVE  k \in live'[req'[r].of] \cup tofetch'[req'[r].of] \/ Robbed(r, k)'
    BY DEF Tracked
<1>1. PICK s \in Sessions : s = req'[r].of
    <2>1. Types'
        BY TypesKept
    <2> QED BY <2>1 DEF Types, Reqs
<1>2. CASE NewReqs(s, r)
    <2>1. req'[r] = [req[r] EXCEPT !.at = "open"]
        BY <1>2, Changes DEF Types
    <2>2. req'[r].left = req[r].left
        BY <2>1 DEF Types, Reqs
    <2>3. PICK now \in SUBSET req[r].left :
                /\ live' = [live EXCEPT ![s] = live[s] \cup now]
                /\ wants' = [wants EXCEPT ![s] = wants[s] \cup now]
                /\ tofetch' = [tofetch EXCEPT ![s] = tofetch[s] \cup (req[r].left \ now)]
        BY <1>2, TakesNew
    <2>4. live'[s] = live[s] \cup now /\ tofetch'[s] = tofetch[s] \cup (req[r].left \ now)
        BY <2>3 DEF Types
    <2>5. k \in req'[r].left
        BY DEF Waits
    <2> QED BY <1>1, <2>2, <2>4, <2>5
<1>3. CASE Waits(r, k) /\ req[r].of = s /\ loop[s] = "run"
    <2>1. k \in live[s] \cup tofetch[s] \/ Robbed(r, k)
        BY <1>3, Names DEF Tracked
    <2>2. CASE Robbed(r, k)
        <3>1. Robbed(r, k)'
            BY <1>1, <1>3, <2>2, RobbedStays
        <3> QED BY <3>1
    <2>3. CASE k \in live[s] \cup tofetch[s] /\ k \in live'[s] \cup tofetch'[s]
        BY <1>1, <2>3
    <2>4. CASE k \in live[s] \cup tofetch[s] /\ k \notin live'[s] \cup tofetch'[s]
        <3>1. CASE req' = Published(s, k)
            <4>1. k \in req'[r].inbox
                BY <1>3, <3>1, Publishes DEF Waits
            <4> QED BY <4>1 DEF Waits
        <3>2. ASSUME NEW q \in Requests, CancelKeys(s, q), k \in req[q].left PROVE Robbed(r, k)'
            <4>1. req'[q] = [req[q] EXCEPT !.at = "over"]
                BY <3>2, Changes DEF Types
            <4>2. req'[q].at = "over" /\ req'[q].left = req[q].left /\ req'[q].of = req[q].of /\ req[q].of = s
                BY <3>2, <4>1 DEF Types, Reqs, CancelKeys
            <4>3. q # r
                BY <4>2 DEF Waits
            <4> QED BY <1>1, <3>2, <4>2, <4>3 DEF Robbed
        <3> QED BY <2>4, <3>1, <3>2, KeysLeave
    <2> QED BY <2>1, <2>2, <2>3, <2>4
<1> QED BY <1>1, <1>2, <1>3, WaitedBefore

-----------------------------------------------------------------------------
(* Wants that the manager holds *)

\* receiveBlockFrom of d is about to cancel k for s.
Cancels(d, s, k) == dlv[d].at = "cancel" /\ s \in dlv[d].ask /\ k \in dlv[d].key

\* A want that stays in a step, and was for nothing before, is about to be cancelled.
LEMMA CancelsStay ==
    ASSUME Types, Carries, Next, NEW s \in Sessions, NEW k, k \in wants'[s],
           NEW d \in Deliveries, Cancels(d, s, k)
    PROVE  Cancels(d, s, k)'
<1>1. CASE dlv'[d] = dlv[d]
    BY <1>1 DEF Cancels
<1>2. ASSUME NEW e \in Deliveries, Deliver(e) PROVE Cancels(d, s, k)'
    <2>1. CASE e = d
        <3>1. CancelWant(d)
            BY <1>2, <2>1, Delivering DEF Cancels
        <3>2. wants'[s] = wants[s] \ dlv[d].key
            BY <3>1 DEF CancelWant, Cancels
        <3> QED BY <3>2 DEF Cancels
    <2>2. CASE e # d
        <3>1. dlv'[d] = dlv[d]
            BY <1>2, <2>2, Delivering
        <3> QED BY <1>1, <3>1
    <2> QED BY <2>1, <2>2
<1>3. ASSUME NEW e \in Deliveries, NEW j \in Keys, Arrive(e, j) PROVE dlv'[d] = dlv[d]
    BY <1>3 DEF Arrive, Cancels, Types
<1>4. ~(\E e \in Deliveries : Deliver(e)) /\ ~(\E e \in Deliveries, j \in Keys : Arrive(e, j)) => dlv' = dlv
    BY DEF Next, NewSession, ContextDone, LoopEnds, Removed, Tick, Begin, Abandon, FetchEnds, Take, Close,
           NewReqs, CancelKeys
<1> QED BY <1>1, <1>2, <1>3, <1>4

\* A session's want is new in a step only if it is live, and a live key stops being
\* so only for a delivery that will cancel it.
LEMMA SessionWants ==
    ASSUME Types, Carries, Next, NEW s \in Sessions
    PROVE  /\ wants'[s] \subseteq wants[s] \cup live'[s]
           /\ \A k \in live[s] : k \in live'[s] \/ \E d \in Deliveries : Cancels(d, s, k)'
<1>1. ASSUME NEW t \in Sessions, Tick(t)
      PROVE  wants'[s] \subseteq wants[s] \cup live'[s] /\ live'[s] = live[s]
    BY <1>1 DEF Tick, Types, session
<1>2. ASSUME NEW t \in Sessions, NEW q \in Requests, NewReqs(t, q)
      PROVE  wants'[s] \subseteq wants[s] \cup live'[s] /\ live[s] \subseteq live'[s]
    <2>1. PICK now \in SUBSET req[q].left :
                /\ live' = [live EXCEPT ![t] = live[t] \cup now]
                /\ wants' = [wants EXCEPT ![t] = wants[t] \cup now]
        BY <1>2, TakesNew
    <2> QED BY <2>1 DEF Types
<1>3. ASSUME NEW d \in Deliveries, NEW t \in Sessions, SendBlock(d, t)
      PROVE  /\ wants'[s] \subseteq wants[s] \cup live'[s]
             /\ \A k \in live[s] : k \in live'[s] \/ Cancels(d, s, k)'
    <2>1. Key(d) \in Keys
        BY <1>3, KeyOf DEF SendBlock
    <2>2. CASE Receive(t, Key(d))
        <3>1. CASE t = s
            <4>1. wants'[s] \subseteq wants[s] \cup live'[s] /\ live[s] \ {Key(d)} \subseteq live'[s]
                BY <2>1, <2>2, <3>1, Receives
            <4>2. dlv'[d].at = "cancel" /\ dlv'[d].ask = {s} /\ dlv'[d].key = {Key(d)}
                <5>1. Deliver(d)
                    BY <1>3 DEF Deliver
                <5> QED BY <1>3, <3>1, <5>1, Delivering
            <4> QED BY <4>1, <4>2 DEF Cancels
        <3>2. CASE t # s
            <4>1. live'[s] = live[s] /\ wants'[s] = wants[s]
                BY <2>1, <2>2, <3>2, Receives
            <4> QED BY <4>1
        <3> QED BY <3>1, <3>2
    <2>3. CASE UNCHANGED <<live, wants>>
        BY <2>3
    <2> QED BY <1>3, <2>2, <2>3 DEF SendBlock
<1>4. ASSUME NEW r \in Requests,
             Take(r) \/ Close(r) \/ \E call \in Calls[r] : Begin(r, call)
      PROVE  wants'[s] = wants[s] /\ live' = live
    <2>1. s # r
        BY Names
    <2> QED BY <1>4, <2>1 DEF Take, Close, Begin, Types, session
<1>5. ASSUME NEW d \in Deliveries, CancelWant(d) PROVE wants'[s] \subseteq wants[s] /\ live' = live
    BY <1>5 DEF CancelWant, session
<1>6. CASE UNCHANGED <<live, wants>>
    BY <1>6
<1>7. \/ UNCHANGED <<live, wants>>
      \/ \E d \in Deliveries : CancelWant(d) \/ \E t \in Sessions : SendBlock(d, t)
      \/ \E r \in Requests : Take(r) \/ Close(r) \/ \E call \in Calls[r] : Begin(r, call)
      \/ \E t \in Sessions : Tick(t) \/ \E q \in Requests : NewReqs(t, q)
    <2>1. ASSUME NEW d \in Deliveries, Deliver(d)
          PROVE  CancelWant(d) \/ (\E t \in Sessions : SendBlock(d, t)) \/ UNCHANGED <<live, wants>>
        BY <2>1 DEF Deliver, PutBlock, LockSessions, UnlockSessions, Delivered, AskSession, session
    <2> QED BY <2>1 DEF Next, NewSession, ContextDone, LoopEnds, Removed, Abandon, FetchEnds, CancelKeys, Arrive, session
<1>8. CASE \E d \in Deliveries : CancelWant(d) \/ \E t \in Sessions : SendBlock(d, t)
    BY <1>3, <1>5, <1>8
<1>9. CASE \E r \in Requests : Take(r) \/ Close(r) \/ \E call \in Calls[r] : Begin(r, call)
    BY <1>4, <1>9
<1>10. CASE \E t \in Sessions : Tick(t) \/ \E q \in Requests : NewReqs(t, q)
    BY <1>1, <1>2, <1>10
<1> QED BY <1>6, <1>7, <1>8, <1>9, <1>10

\* The wants of a request of its own.
Owns(r) == wants[r] \subseteq req[r].left /\ (req[r].at # "open" => wants[r] = {})

LEMMA RequestWants ==
    ASSUME Types, Carries, Next, NEW r \in Requests, Owns(r)
    PROVE  Owns(r)'
<1>0. req[r] \in Reqs /\ r \notin Sessions
    BY Names DEF Types
<1>1. ASSUME wants'[r] \subseteq wants[r], req'[r].left = req[r].left, req[r].at = "open" => req'[r].at = "open" PROVE Owns(r)'
    BY <1>1 DEF Owns
<1>2. ASSUME wants'[r] \subseteq wants[r], req'[r] = req[r] PROVE Owns(r)'
    BY <1>1, <1>2
<1>3. ASSUME NEW call \in Calls[r], Begin(r, call) PROVE Owns(r)'
    <2>1. req'[r].left = call.keys /\ req'[r].at = (IF call.of = Direct THEN "open" ELSE "fetch") /\ req[r].at = "idle"
        BY <1>3, BeginDoes DEF Types
    <2>2. wants'[r] = IF call.of = Direct THEN call.keys ELSE wants[r]
        BY <1>3 DEF Begin, Types
    <2>3. wants[r] = {}
        BY <2>1 DEF Owns
    <2>4. CASE call.of = Direct
        BY <2>1, <2>2, <2>4 DEF Owns
    <2>5. CASE call.of # Direct
        BY <2>1, <2>2, <2>3, <2>5 DEF Owns
    <2> QED BY <2>4, <2>5
<1>4. ASSUME Abandon(r) PROVE Owns(r)'
    <2>1. req'[r] = [req[r] EXCEPT !.done = TRUE] /\ wants' = wants
        BY <1>4, Changes DEF Types, Abandon
    <2>2. req'[r].left = req[r].left /\ req'[r].at = req[r].at
        BY <1>0, <2>1 DEF Reqs
    <2> QED BY <1>1, <2>1, <2>2
<1>5. ASSUME FetchEnds(r) \/ \E t \in Sessions : NewReqs(t, r) PROVE Owns(r)'
    <2>1. req'[r] = [req[r] EXCEPT !.at = "open"]
        BY <1>5, Changes DEF Types
    <2>2. req'[r].left = req[r].left /\ req'[r].at = "open"
        BY <1>0, <2>1 DEF Reqs
    <2>3. wants'[r] = wants[r]
        BY <1>0, <1>5 DEF FetchEnds, NewReqs, Types
    <2> QED BY <1>1, <2>2, <2>3
<1>6. ASSUME Take(r) PROVE Owns(r)'
    <2>1. PICK j \in req[r].inbox :
              /\ req'[r].left = req[r].left \ {j} /\ req'[r].at = "open"
              /\ wants' = [wants EXCEPT ![r] = wants[r] \ {j}]
        BY <1>6, TakeDoes
    <2>2. wants'[r] = wants[r] \ {j}
        BY <2>1 DEF Types
    <2> QED BY <2>1, <2>2 DEF Owns
<1>7. ASSUME Close(r) PROVE Owns(r)'
    <2>1. wants'[r] = wants[r] \ req[r].left
        BY <1>7 DEF Close, Types
    <2> QED BY <2>1 DEF Owns
<1>8. ASSUME NEW t \in Sessions, CancelKeys(t, r) PROVE Owns(r)'
    <2>1. req[r].at = "closing" /\ wants' = wants
        BY <1>8 DEF CancelKeys
    <2> QED BY <2>1 DEF Owns
<1>9. ASSUME NEW q \in Requests, q # r,
             \/ Abandon(q) \/ FetchEnds(q) \/ Take(q) \/ Close(q)
             \/ \E t \in Sessions : NewReqs(t, q) \/ CancelKeys(t, q)
             \/ \E call \in Calls[q] : Begin(q, call)
      PROVE  Owns(r)'
    <2>1. req'[r] = req[r]
        BY <1>9 DEF Abandon, FetchEnds, Take, Close, NewReqs, CancelKeys, Begin, Types
    <2>2. wants'[r] = wants[r]
        BY <1>0, <1>9 DEF Abandon, FetchEnds, Take, Close, NewReqs, CancelKeys, Begin, Types
    <2> QED BY <1>2, <2>1, <2>2
<1>10. ASSUME NEW d \in Deliveries, Deliver(d) PROVE Owns(r)'
    <2>1. req'[r].left = req[r].left /\ req'[r].at = req[r].at
        BY <1>10, DeliveryPublishes, Publishes
    <2>2. wants'[r] \subseteq wants[r]
        <3>1. ASSUME NEW t \in Sessions, SendBlock(d, t) PROVE wants'[r] = wants[r]
            <4>1. Key(d) \in Keys
                BY <3>1, KeyOf DEF SendBlock
            <4> QED BY <3>1, <4>1, Receives DEF SendBlock
        <3>2. CASE CancelWant(d)
            BY <3>2 DEF CancelWant
        <3> QED BY <1>10, <3>1, <3>2 DEF Deliver, PutBlock, LockSessions, UnlockSessions, Delivered, AskSession
    <2> QED BY <1>1, <2>1, <2>2
<1>11. ASSUME \/ \E s \in Sessions : NewSession(s) \/ ContextDone(s) \/ LoopEnds(s) \/ Removed(s) \/ Tick(s)
              \/ \E d \in Deliveries, k \in Keys : Arrive(d, k)
       PROVE  Owns(r)'
    <2>1. req' = req
        BY <1>11 DEF NewSession, ContextDone, LoopEnds, Removed, Tick, Arrive
    <2>2. wants'[r] = wants[r]
        BY <1>0, <1>11 DEF NewSession, ContextDone, LoopEnds, Removed, Tick, Arrive, Types
    <2> QED BY <1>2, <2>1, <2>2
<1>12. CASE \E q \in Requests : \E call \in Calls[q] : Begin(q, call)
    BY <1>3, <1>9, <1>12
<1>13. CASE \E q \in Requests : Abandon(q) \/ FetchEnds(q) \/ Take(q) \/ Close(q)
    BY <1>4, <1>5, <1>6, <1>7, <1>9, <1>13
<1>14. CASE \E t \in Sessions, q \in Requests : NewReqs(t, q) \/ CancelKeys(t, q)
    BY <1>5, <1>8, <1>9, <1>14
<1> QED BY <1>10, <1>11, <1>12, <1>13, <1>14 DEF Next

LEMMA ToldKept ==
    ASSUME Types, Carries, Told, Next
    PROVE  Told'
<1>1. ASSUME NEW s \in Sessions, NEW k \in wants'[s]
      PROVE  k \in live'[s] \/ \E d \in Deliveries : Cancels(d, s, k)'
    <2>1. wants'[s] \subseteq wants[s] \cup live'[s]
        BY SessionWants
    <2>2. CASE k \in live'[s]
        BY <2>2
    <2>3. CASE k \in wants[s] /\ k \in live[s]
        BY <2>3, SessionWants
    <2>4. CASE k \in wants[s] /\ k \notin live[s]
        <3>1. PICK d \in Deliveries : Cancels(d, s, k)
            BY <2>4 DEF Told, Cancels
        <3>2. Cancels(d, s, k)'
            BY <3>1, CancelsStay
        <3> QED BY <3>2
    <2> QED BY <2>1, <2>2, <2>3, <2>4
<1>2. ASSUME NEW r \in Requests PROVE Owns(r)'
    <2>1. Owns(r)
        BY DEF Told, Owns
    <2> QED BY <2>1, RequestWants
<1> QED BY <1>1, <1>2 DEF Told, Cancels, Owns

-----------------------------------------------------------------------------
(* The theorems *)

\* The inductive invariant.
THEOREM Invariant == Spec => []IInv
<1>1. Init => IInv
    <2> SUFFICES ASSUME Init PROVE IInv
        OBVIOUS
    <2>1. \A r \in Requests : req[r] = NoReq
        BY DEF Init
    <2>2. \A d \in Deliveries : dlv[d] = NoDlv
        BY DEF Init
    <2>3. NoReq \in Reqs /\ NoDlv \in Dlvs /\ NoReq.at = "idle" /\ NoDlv.at = "idle"
        BY DEF NoReq, NoDlv, Reqs, Dlvs
    <2>4. Types
        BY <2>3, BitswapSessionAssumption DEF Init, Types
    <2>5. Carries
        BY <2>2, <2>3 DEF Carries
    <2>6. Begun
        BY <2>1, <2>3 DEF Begun
    <2>7. Tracked
        BY <2>1, <2>3 DEF Tracked, Waits
    <2>8. Told
        BY <2>1, <2>3 DEF Told, Init
    <2> QED BY <2>4, <2>5, <2>6, <2>7, <2>8 DEF IInv
<1>2. IInv /\ [Next]_vars => IInv'
    <2> SUFFICES ASSUME IInv, [Next]_vars PROVE IInv'
        OBVIOUS
    <2>1. CASE Next
        <3>1. Types' /\ Carries'
            BY <2>1, TypesKept, CarriesKept DEF IInv
        <3>2. Begun'
            BY <2>1, BegunKept DEF IInv
        <3>3. Tracked'
            BY <2>1, TrackedKept DEF IInv
        <3>4. Told'
            BY <2>1, ToldKept DEF IInv
        <3> QED BY <3>1, <3>2, <3>3, <3>4 DEF IInv
    <2>2. CASE UNCHANGED vars
        BY <2>2 DEF vars, session, IInv, Types, Carries, Begun, Tracked, Told, Waits, Robbed
    <2> QED BY <2>1, <2>2
<1> QED BY <1>1, <1>2, PTL DEF Spec

\* A key that a request waits for is among those that its session has asked for or
\* will ask for, unless another request that shared it took it back.
THEOREM KeysAreTracked == Spec => []Tracked
<1>1. IInv => Tracked
    BY DEF IInv
<1> QED BY <1>1, Invariant, PTL

\* The want manager holds no want of a session or a request that has no use for it.
THEOREM NoWantIsStray == Spec => []NoStray
<1>1. IInv => NoStray
    <2> SUFFICES ASSUME IInv PROVE NoStray
        OBVIOUS
    <2>1. \A r \in Requests : wants[r] \subseteq req[r].left /\ (req[r].at = "over" => wants[r] = {})
        BY DEF IInv, Told
    <2> QED BY <2>1 DEF IInv, Told, NoStray
<1> QED BY <1>1, Invariant, PTL
=============================================================================
