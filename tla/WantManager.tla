---------------------------- MODULE WantManager ----------------------------
(***************************************************************************)
(* How a bitswap node tells its partners what it wants:                    *)
(* exchange/bitswap/wantmanager.go, wantlist/wantlist.go,                  *)
(* message/message.go, and network/ipfs_impl.go for the streams.           *)
(*                                                                         *)
(* Sessions ask for keys and cancel them; the event loop of the manager    *)
(* keeps the wantlist, and for each partner a queue that merges changes    *)
(* into one pending message and a goroutine that opens a stream and sends  *)
(* it.  The wantlists share their entries: an entry is an object, named    *)
(* here for the list it was made for, and lists map keys to entries.       *)
(*                                                                         *)
(* asked and missed are history variables: no step of the code reads them. *)
(***************************************************************************)
EXTENDS Naturals, FiniteSets, Sequences

CONSTANTS
    Cids, Sessions, Peers,
    LosesBlocks,    \* may a partner's block get lost after it has forgotten the want
    MaxAsks,        \* bound: wants and cancels
    MaxConns,       \* bound: connections to one partner at a time
    MaxDials,       \* bound: connections made in all
    MaxFaults       \* bound: connections that break while another stays, failed dials, failed sends, lost blocks

ASSUME WantManagerAssumption ==
    /\ IsFiniteSet(Sessions) /\ IsFiniteSet(Peers) /\ {"wl", "bcwl", "none"} \cap Peers = {}
    /\ LosesBlocks \in BOOLEAN
    /\ {MaxAsks, MaxConns, MaxDials, MaxFaults} \subseteq Nat

VARIABLES
    entry,          \* entry[c][l]: the entry for c in list l, or "none"
    tracks,         \* tracks[c][e]: the sessions that entry e for c tracks
    refs,           \* refs[p]: msgQueue.refcnt, 0 when there is no queue
    out,            \* out[p]: the pending message of the queue
    work,           \* work[p]: the token in msgQueue.work
    at, sending,    \* where the goroutine of the queue is, and the message it sends
    sender,         \* sender[p]: its stream
    old,            \* old[p]: what the goroutine of a queue that has been stopped still sends
    wire, ledger,   \* messages on the stream of p, and the wants p knows of
    asked,          \* asked[s][c]: whom s has asked for c: "none", "some" partners or "all"
    missed,         \* missed[p]: keys of which p has not been told everything
    asks, dials, faults

manager == <<entry, tracks>>
queue == <<refs, out, work>>
goroutine == <<at, sending, sender, old>>
remote == <<wire, ledger>>
history == <<asked, missed>>
bounds == <<asks, dials, faults>>
vars == <<manager, queue, goroutine, remote, history, bounds>>

\* The wantlist, the wants that were broadcast, and the list of each partner's queue.
Lists == {"wl", "bcwl"} \cup Peers
Has(l, c) == entry[c][l] # "none"

NoMsg == [full |-> FALSE, want |-> {}, cancel |-> {}]
Msgs == [full : BOOLEAN, want : SUBSET Cids, cancel : SUBSET Cids]
Empty(m) == m.want \cup m.cancel = {}
About(m) == IF m.full THEN Cids ELSE m.want \cup m.cancel

TypeOK ==
    /\ entry \in [Cids -> [Lists -> Lists \cup {"none"}]]
    /\ tracks \in [Cids -> [Lists -> SUBSET Sessions]]
    /\ refs \in [Peers -> 0 .. MaxConns]
    /\ out \in [Peers -> Msgs] /\ \A p \in Peers : out[p].want \cap out[p].cancel = {}
    /\ work \in [Peers -> BOOLEAN]
    /\ at \in [Peers -> {"idle", "open", "send"}]
    /\ sending \in [Peers -> Msgs]
    /\ sender \in [Peers -> {"none", "ok", "broken"}]
    /\ old \in [Peers -> Seq(Msgs)] /\ wire \in [Peers -> Seq(Msgs)]
    /\ ledger \in [Peers -> SUBSET Cids]
    /\ asked \in [Sessions -> [Cids -> {"none", "some", "all"}]]
    /\ missed \in [Peers -> SUBSET Cids]
    /\ asks \in 0 .. MaxAsks /\ dials \in 0 .. MaxDials /\ faults \in 0 .. MaxFaults

Init ==
    /\ entry = [c \in Cids |-> [l \in Lists |-> "none"]]
    /\ tracks = [c \in Cids |-> [l \in Lists |-> {}]]
    /\ refs = [p \in Peers |-> 0]
    /\ out = [p \in Peers |-> NoMsg] /\ work = [p \in Peers |-> FALSE]
    /\ at = [p \in Peers |-> "idle"] /\ sending = [p \in Peers |-> NoMsg]
    /\ sender = [p \in Peers |-> "none"]
    /\ old = [p \in Peers |-> <<>>] /\ wire = [p \in Peers |-> <<>>]
    /\ ledger = [p \in Peers |-> {}]
    /\ asked = [s \in Sessions |-> [c \in Cids |-> "none"]]
    /\ missed = [p \in Peers |-> {}]
    /\ asks = 0 /\ dials = 0 /\ faults = 0

-----------------------------------------------------------------------------
(* Wantlists and messages *)

Wanted(c) == {s \in Sessions : asked[s][c] # "none"}
Broadcast(c) == {s \in Sessions : asked[s][c] = "all"}

\* message.AddEntry: on a key the message cancels, addEntry changes a copy of
\* the map's entry, and the message goes on cancelling.
AddToMsg(m, c) == IF c \in m.cancel THEN m ELSE [m EXCEPT !.want = @ \cup {c}]

\* Mutants: a want of the same message stays; a cancel is not recorded.
CancelInMsg_copy(m, c) == IF c \in m.want THEN m ELSE [m EXCEPT !.cancel = @ \cup {c}]
CancelInMsg_drops(m, c) == [m EXCEPT !.want = @ \ {c}]

\* message.Cancel: a want of the same message goes.
CancelInMsg(m, c) == [m EXCEPT !.want = @ \ {c}, !.cancel = @ \cup {c}]

\* Mutant: a key that is in a list already does not get the session.
Want_first(s, c, ps, all) ==
    LET in == {"wl"} \cup (IF all THEN {"bcwl"} ELSE {}) \cup ps
        new == {l \in in : ~Has(l, c)}
        made == [l \in Lists |-> IF l \notin new THEN entry[c][l] ELSE IF l = "bcwl" /\ "wl" \in new THEN "wl" ELSE l]
    IN  /\ entry' = [entry EXCEPT ![c] = made]
        /\ tracks' = [tracks EXCEPT ![c] = [e \in Lists |-> IF \E l \in new : made[l] = e THEN @[e] \cup {s} ELSE @[e]]]
        /\ out' = [p \in Peers |-> IF p \in new THEN AddToMsg(out[p], c) ELSE out[p]]
        /\ work' = [p \in Peers |-> work[p] \/ p \in new]
        /\ missed' = [p \in Peers |-> IF p \in new /\ c \in out[p].cancel THEN missed[p] \cup {c} ELSE missed[p]]

\* The event loop takes up a want of s for c, for the partners ps or for all.
\* A list that has an entry for c adds s to it, another gets a new one; wl and
\* bcwl share a new one, and a queue that had none tells its partner.
Want(s, c, ps, all) ==
    LET in == {"wl"} \cup (IF all THEN {"bcwl"} ELSE {}) \cup ps
        new == {l \in in : ~Has(l, c)}
        made == [l \in Lists |-> IF l \notin new THEN entry[c][l] ELSE IF l = "bcwl" /\ "wl" \in new THEN "wl" ELSE l]
    IN  /\ entry' = [entry EXCEPT ![c] = made]
        /\ tracks' = [tracks EXCEPT ![c] = [e \in Lists |-> IF \E l \in in : made[l] = e THEN @[e] \cup {s} ELSE @[e]]]
        /\ out' = [p \in Peers |-> IF p \in new THEN AddToMsg(out[p], c) ELSE out[p]]
        /\ work' = [p \in Peers |-> work[p] \/ p \in new]
        /\ missed' = [p \in Peers |-> IF p \in new /\ c \in out[p].cancel THEN missed[p] \cup {c} ELSE missed[p]]

\* WantBlocks: session.wantBlocks names the partners that have served the session,
\* or none, as its tick and GetBlocks do: then every queue is told.
WantBlocks(s, c, targets) ==
    /\ asks < MaxAsks /\ asks' = asks + 1
    /\ LET all == targets = {} IN
        /\ Want(s, c, {p \in Peers : refs[p] > 0 /\ (all \/ p \in targets)}, all)
        /\ asked' = [asked EXCEPT ![s][c] = IF all \/ @ = "all" THEN "all" ELSE "some"]
    /\ UNCHANGED <<refs, goroutine, remote, dials, faults>>

\* session.run broadcasts the live wants again when nothing arrives for a while.
Tick(s, c) ==
    /\ asked[s][c] # "none"
    /\ Want(s, c, {p \in Peers : refs[p] > 0}, TRUE)
    /\ asked' = [asked EXCEPT ![s][c] = "all"]
    /\ UNCHANGED <<refs, goroutine, remote, bounds>>

\* CancelWants: always broadcast.  Each list drops its entry for c once no
\* session is left in it.
CancelWants(s, c) ==
    /\ asks < MaxAsks /\ asks' = asks + 1
    /\ asked[s][c] # "none"
    /\ asked' = [asked EXCEPT ![s][c] = "none"]
    /\ LET left == [e \in Lists |-> tracks[c][e] \ {s}]
           dropped == {l \in Lists : Has(l, c) /\ left[entry[c][l]] = {}}
       IN  /\ tracks' = [tracks EXCEPT ![c] = left]
           /\ entry' = [entry EXCEPT ![c] = [l \in Lists |-> IF l \in dropped THEN "none" ELSE @[l]]]
           /\ out' = [p \in Peers |-> IF p \in dropped THEN CancelInMsg(out[p], c) ELSE out[p]]
           /\ work' = [p \in Peers |-> work[p] \/ p \in dropped]
    /\ UNCHANGED <<refs, goroutine, remote, missed, dials, faults>>

-----------------------------------------------------------------------------
(* Partners come and go *)

\* Mutant: the queue is started without a token.
Connect_asleep(p) ==
    /\ refs[p] < MaxConns /\ dials < MaxDials /\ dials' = dials + 1
    /\ refs' = [refs EXCEPT ![p] = @ + 1]
    /\ IF refs[p] > 0
         THEN UNCHANGED <<entry, out, work, missed>>
         ELSE /\ entry' = [c \in Cids |-> [entry[c] EXCEPT ![p] = entry[c]["bcwl"]]]
              /\ out' = [out EXCEPT ![p] = [full |-> TRUE, want |-> {c \in Cids : Has("bcwl", c)}, cancel |-> {}]]
              /\ work' = work
              /\ missed' = [missed EXCEPT ![p] = {}]
    /\ UNCHANGED <<tracks, goroutine, remote, asked, asks, faults>>

\* A connection to p.  The first starts the queue: its list shares the entries of
\* the broadcast wants, and its first message is the full list of them.
Connect(p) ==
    /\ refs[p] < MaxConns /\ dials < MaxDials /\ dials' = dials + 1
    /\ refs' = [refs EXCEPT ![p] = @ + 1]
    /\ IF refs[p] > 0
         THEN UNCHANGED <<entry, out, work, missed>>
         ELSE /\ entry' = [c \in Cids |-> [entry[c] EXCEPT ![p] = entry[c]["bcwl"]]]
              /\ out' = [out EXCEPT ![p] = [full |-> TRUE, want |-> {c \in Cids : Has("bcwl", c)}, cancel |-> {}]]
              /\ work' = [work EXCEPT ![p] = TRUE]
              /\ missed' = [missed EXCEPT ![p] = {}]
    /\ UNCHANGED <<tracks, goroutine, remote, asked, asks, faults>>

\* A stream is reset: what the partner has not read of it is lost.
LoseWire(p) ==
    /\ faults < MaxFaults /\ faults' = faults + 1
    /\ wire' = [wire EXCEPT ![p] = <<>>]
    /\ missed' = [missed EXCEPT ![p] = @ \cup UNION {About(wire[p][i]) : i \in DOMAIN wire[p]}]

\* One of several connections ends; it may be the one that carries the stream.
Break(p) ==
    /\ refs[p] > 1
    /\ refs' = [refs EXCEPT ![p] = @ - 1]
    /\ \/ UNCHANGED <<sender, wire, missed, faults>>
       \/ /\ sender[p] = "ok" /\ LoseWire(p)
          /\ sender' = [sender EXCEPT ![p] = "broken"]
    /\ UNCHANGED <<manager, out, work, at, sending, old, ledger, asked, asks, dials>>

\* The last connection ends: the partner forgets this node, and stopPeerHandler
\* the queue.  Its goroutine ends when it finds done closed; one that opens a
\* stream does not look, and may take up the work it then finds.
Disconnect(p) ==
    /\ refs[p] = 1 /\ old[p] = <<>>
    /\ refs' = [refs EXCEPT ![p] = 0]
    /\ entry' = [c \in Cids |-> [entry[c] EXCEPT ![p] = "none"]]
    /\ tracks' = [c \in Cids |-> [tracks[c] EXCEPT ![p] = {}]]
    /\ LET opening == IF at[p] = "open" THEN <<sending[p]>> ELSE <<>>
           pending == IF work[p] /\ ~Empty(out[p]) /\ sender[p] = "none" /\ at[p] \in {"idle", "open"}
                        THEN <<out[p]>> ELSE <<>>
       IN  old' = [old EXCEPT ![p] = opening \o pending]
    /\ out' = [out EXCEPT ![p] = NoMsg]
    /\ work' = [work EXCEPT ![p] = FALSE]
    /\ at' = [at EXCEPT ![p] = "idle"] /\ sending' = [sending EXCEPT ![p] = NoMsg]
    /\ sender' = [sender EXCEPT ![p] = "none"]
    /\ wire' = [wire EXCEPT ![p] = <<>>] /\ ledger' = [ledger EXCEPT ![p] = {}]
    /\ UNCHANGED <<history, bounds>>

-----------------------------------------------------------------------------
(* The goroutine of a queue *)

\* doWork takes the pending message; one without entries stays where it is.
TakeWork(p) ==
    /\ refs[p] > 0 /\ at[p] = "idle" /\ work[p]
    /\ work' = [work EXCEPT ![p] = FALSE]
    /\ IF Empty(out[p])
         THEN UNCHANGED <<out, at, sending>>
         ELSE /\ out' = [out EXCEPT ![p] = NoMsg]
              /\ sending' = [sending EXCEPT ![p] = out[p]]
              /\ at' = [at EXCEPT ![p] = IF sender[p] = "none" THEN "open" ELSE "send"]
    /\ UNCHANGED <<manager, refs, sender, old, remote, history, bounds>>

\* openSender, for the first message or, 100 ms later, after a failed send.
Open(p) ==
    /\ at[p] = "open"
    /\ sender' = [sender EXCEPT ![p] = "ok"]
    /\ at' = [at EXCEPT ![p] = "send"]
    /\ UNCHANGED <<manager, queue, sending, old, remote, history, bounds>>

\* openSender fails: doWork returns, and the message is gone.
OpenFails(p) ==
    /\ at[p] = "open"
    /\ faults < MaxFaults /\ faults' = faults + 1
    /\ at' = [at EXCEPT ![p] = "idle"]
    /\ sending' = [sending EXCEPT ![p] = NoMsg]
    /\ missed' = [missed EXCEPT ![p] = @ \cup About(sending[p])]
    /\ UNCHANGED <<manager, queue, sender, old, remote, asked, asks, dials>>

Send(p) ==
    /\ at[p] = "send" /\ sender[p] = "ok"
    /\ wire' = [wire EXCEPT ![p] = Append(@, sending[p])]
    /\ at' = [at EXCEPT ![p] = "idle"]
    /\ sending' = [sending EXCEPT ![p] = NoMsg]
    /\ UNCHANGED <<manager, queue, sender, old, ledger, history, bounds>>

\* SendMsg fails: the stream is reset and the same message is tried on another.
SendFails(p) ==
    /\ at[p] = "send"
    /\ \/ sender[p] = "broken" /\ UNCHANGED <<faults, wire, missed>>
       \/ sender[p] = "ok" /\ LoseWire(p)
    /\ sender' = [sender EXCEPT ![p] = "none"]
    /\ at' = [at EXCEPT ![p] = "open"]
    /\ UNCHANGED <<manager, queue, sending, old, ledger, asked, asks, dials>>

-----------------------------------------------------------------------------
(* The partner *)

Apply(known, m) == ((IF m.full THEN {} ELSE known) \cup m.want) \ m.cancel

Deliver(p) ==
    /\ wire[p] # <<>>
    /\ ledger' = [ledger EXCEPT ![p] = Apply(@, Head(wire[p]))]
    /\ wire' = [wire EXCEPT ![p] = Tail(@)]
    /\ UNCHANGED <<manager, queue, goroutine, history, bounds>>

\* The goroutine of a stopped queue reaches the partner after all, on a stream of its own.
OldSends(p) ==
    /\ old[p] # <<>> /\ refs[p] > 0
    /\ old' = [old EXCEPT ![p] = Tail(@)]
    /\ ledger' = [ledger EXCEPT ![p] = Apply(@, Head(old[p]))]
    /\ missed' = [missed EXCEPT ![p] = @ \cup About(Head(old[p]))]
    /\ UNCHANGED <<manager, queue, at, sending, sender, wire, asked, bounds>>

OldEnds(p) ==
    /\ old[p] # <<>>
    /\ old' = [old EXCEPT ![p] = Tail(@)]
    /\ UNCHANGED <<manager, queue, at, sending, sender, remote, history, bounds>>

\* The partner's engine forgets the want and sends the block (taskWorker); the
\* block is lost on the way.
BlockLost(p, c) ==
    /\ LosesBlocks /\ faults < MaxFaults /\ faults' = faults + 1
    /\ c \in ledger[p]
    /\ ledger' = [ledger EXCEPT ![p] = @ \ {c}]
    /\ missed' = [missed EXCEPT ![p] = @ \cup {c}]
    /\ UNCHANGED <<manager, queue, goroutine, wire, asked, asks, dials>>

Next ==
    \/ \E s \in Sessions, c \in Cids, targets \in SUBSET Peers : WantBlocks(s, c, targets)
    \/ \E s \in Sessions, c \in Cids : Tick(s, c) \/ CancelWants(s, c)
    \/ \E p \in Peers :
        \/ Connect(p) \/ Break(p) \/ Disconnect(p)
        \/ TakeWork(p) \/ Open(p) \/ OpenFails(p) \/ Send(p) \/ SendFails(p)
        \/ Deliver(p) \/ OldSends(p) \/ OldEnds(p)
        \/ \E c \in Cids : BlockLost(p, c)

\* The goroutines of the queues run and the network delivers; nothing makes a
\* partner connect or a session ask.
Fairness == \A p \in Peers : WF_vars(TakeWork(p) \/ Open(p) \/ Send(p) \/ SendFails(p)) /\ WF_vars(Deliver(p))

Spec == Init /\ [][Next]_vars /\ Fairness

\* And the timer of every session fires again and again.
TickSpec == Spec /\ \A s \in Sessions, c \in Cids : WF_vars(Tick(s, c))

-----------------------------------------------------------------------------
(* Properties *)

\* "if a cid is added under multiple session IDs, then it must be removed by each
\* of those sessions before it is no longer 'in the wantlist'" (wantlist.go),
\* although the lists share entries: the wantlist tracks exactly the sessions that
\* want a key, and no list of a partner keeps or loses one against them.
ListsTrack ==
    \A c \in Cids :
        /\ Has("wl", c) <=> Wanted(c) # {}
        /\ Has("wl", c) => tracks[c][entry[c]["wl"]] = Wanted(c)
        /\ Broadcast(c) # {} => \A l \in {"bcwl"} \cup {p \in Peers : refs[p] > 0} : Has(l, c)
        /\ Wanted(c) = {} => \A l \in Lists : ~Has(l, c)

Quiet(p) ==
    /\ refs[p] > 0 /\ ~work[p] /\ at[p] = "idle"
    /\ wire[p] = <<>> /\ old[p] = <<>>

\* Once a queue has nothing left to send, its partner knows every key that is
\* wanted of all and none that is not wanted, but for keys that are missed: a want
\* merged into a pending cancel (message.go), a message dropped or lost while the
\* queue stays, and what the goroutine of a stopped queue sends late.  A wrong
\* merge, a lost wakeup or a partner started from a stale list would break it.
ToldAll ==
    \A p \in Peers : Quiet(p) => \A c \in Cids \ missed[p] :
        /\ Broadcast(c) # {} => c \in ledger[p]
        /\ c \in ledger[p] => Wanted(c) # {}

\* A key wanted of all reaches every partner that stays connected.
WantsReach ==
    \A p \in Peers, c \in Cids :
        (Broadcast(c) # {} /\ refs[p] > 0) ~> (c \in ledger[p] \cup missed[p] \/ Broadcast(c) = {} \/ refs[p] = 0)

\* A partner does not go on believing that a cancelled key is wanted.
CancelsReach ==
    \A p \in Peers, c \in Cids :
        (c \in ledger[p] /\ Wanted(c) = {}) ~> (c \notin ledger[p] \ missed[p] \/ Wanted(c) # {})

\* "resend unfulfilled wantlist keys" and "periodically resending our wantlist out
\* to peers" (workers.go): a partner that has lost a want hears of it again.
Resent ==
    \A p \in Peers, c \in Cids :
        (Broadcast(c) # {} /\ refs[p] > 0) ~> (c \in ledger[p] \/ Broadcast(c) = {} \/ refs[p] = 0)
=============================================================================
