------------------------- MODULE CachedStore_proofs -------------------------
(***************************************************************************)
(* Theorems about CachedStore for any keys, any goroutines, any cache size *)
(* and any set-ups of the caches: the Bloom filter contradicts no write    *)
(* that has succeeded, and the service over the caches is a BlockMap,      *)
(* whatever calls overlap.                                                 *)
(*                                                                         *)
(* They hold for a listing of the datastore that does not fail.            *)
(***************************************************************************)
EXTENDS CachedStore, FiniteSetTheorems, TLAPS

-----------------------------------------------------------------------------
(* The inductive invariant *)

Writes == {"add", "del"}
Ops == {"idle", "has", "get", "add", "del"}
Places == {"idle", "bloom", "arc", "remove", "store", "note", "mark", "reply"}
Calls == [op : Ops, keys : SUBSET Keys,
          pass : {"none", "has", "get", "put", "del"}, part : SUBSET Keys,
          look : SUBSET Keys, again : SUBSET Keys, found : BOOLEAN,
          at : Places, out : {"none", "yes", "no", "ok", "missing", "error"}]

\* The variables but for the size of the ARC cache.
Types ==
    /\ setup \in Setups
    /\ stored \subseteq Keys /\ bloom \subseteq Keys /\ scan \subseteq Keys
    /\ arc \in [Keys -> {"none", "yes", "no"}]
    /\ active \in BOOLEAN
    /\ call \in [Clients -> Calls]
    /\ possible \in [Keys -> SUBSET BOOLEAN] /\ may \in [Clients -> SUBSET BOOLEAN]
    /\ crossed \in [Clients -> SUBSET Keys] /\ doubtful \subseteq Keys
    /\ faults \in 0 .. MaxFaults

\* A call is under way until it replies.
Under(x) == x.at \notin {"idle", "reply"}

\* Where a call can be, and what it holds there.
Formed(x) ==
    /\ x.op = "idle" => x = Idle
    /\ x.op # "idle" => x.at # "idle"
    /\ x.out # "none" <=> x.at = "reply"
    /\ Under(x) =>
        /\ x.op \in {"has", "get", "del"} => x.pass = x.op /\ \E k \in Keys : x.keys = {k} /\ x.part = {k}
        /\ x.op = "add" =>
            \/ x.pass = "has" /\ x.again = x.keys /\ \E k \in x.keys : x.part = {k}
            \/ x.pass = "put" /\ x.part \subseteq x.keys /\ (x.at = "arc" /\ x.again = x.keys => x.part = x.keys)
        /\ x.look \subseteq x.keys /\ x.again \subseteq x.keys
        /\ x.at = "bloom" => x.pass # "put"
        /\ x.at = "arc" => setup.arc
        /\ x.at = "remove" => x.pass = "del" /\ setup.arc
        /\ x.at = "note" => setup.arc
        /\ x.at = "mark" => x.pass = "put"

\* What is known of a key that two calls under way are about: what a write will do
\* may be answered to the other, two opposite writes have noticed each other, and
\* behind an ARC cache the key is in doubt.
Overlaps ==
    \A c, d \in Clients : c # d /\ Under(call[c]) /\ Under(call[d]) /\ call[d].op \in Writes =>
        \A k \in call[c].keys \cap call[d].keys :
            /\ Map!Effects(call[d].op) \subseteq may[c]
            /\ setup.arc => k \in doubtful
            /\ call[c].op \in Writes \ {call[d].op} => k \in crossed[c] /\ k \in crossed[d]

\* Of a key in doubt everything may be answered.
Doubts ==
    /\ \A k \in doubtful : possible[k] = BOOLEAN
    /\ \A c \in Clients : \A k \in call[c].keys \cap doubtful : may[c] = BOOLEAN

\* A cache that was not built says nothing, and a filter is active after its scan.
Unbuilt ==
    /\ ~setup.arc => \A k \in Keys : arc[k] = "none"
    /\ ~setup.bloom => ~active
    /\ active => scan = {}

\* What is so is among the answers of m; it is possible.
Allowed(k, m) == IF k \in stored THEN TRUE \in m ELSE FALSE \in m

StoreInv == \A k \in Keys : Allowed(k, possible[k])

\* The Bloom filter has, or the scan will give it, every key that is there for sure.
BloomInv == setup.bloom => \A k \in Keys : FALSE \in possible[k] \/ k \in bloom \cup scan

\* A "yes" of the ARC cache is right, a "no" is possible, but for a key in doubt.
ArcInv ==
    \A k \in Keys \ doubtful :
        /\ arc[k] = "yes" => k \in stored
        /\ arc[k] = "no" => FALSE \in possible[k]

\* An add has put the key or found it to be stored: after its first pass all of its keys.
Settled(x, k) ==
    /\ x.op = "add" /\ x.pass = "put"
    /\ x.at = "mark" \/ x.again # x.keys \/ (x.at \in {"store", "note"} /\ k \notin x.part)

\* z: the keys of the add that a delete has crossed.
RightAdd(x, z) ==
    x.op = "add" =>
        /\ \A k \in x.keys : TRUE \in possible[k]
        /\ \A k \in x.keys : Settled(x, k) => /\ k \in stored \/ k \in z \cup doubtful
                                              /\ arc[k] # "no" \/ k \in doubtful
        /\ x.at = "note" /\ x.pass = "put" => x.part \subseteq stored \cup doubtful

\* A question may be told what is possible now.
RightRead(x, m) ==
    x.op \in {"has", "get"} => \A k \in x.keys : possible[k] \subseteq m

\* A look-up that the ARC cache will remember.
RightNote(x) ==
    x.at = "note" /\ x.pass \in {"has", "get"} => \A k \in x.part \ doubtful : x.found <=> k \in stored

\* A delete says "missing" only when the block may have been missing in its time.
RightDel(x, m, z) ==
    x.op = "del" => \A k \in x.keys :
        /\ FALSE \in possible[k]
        /\ x.at \in {"bloom", "arc", "remove", "store"} =>
            /\ Allowed(k, m)
            /\ FALSE \in m \/ ~setup.bloom \/ k \in bloom \cup scan
            /\ arc[k] = "no" => FALSE \in m \/ k \in doubtful
        /\ x.at \in {"store", "note"} => arc[k] # "yes" \/ k \in doubtful
        /\ x.at = "note" => (k \notin stored \/ k \in doubtful) /\ (x.found \/ FALSE \in m)

Right(x, m, z) ==
    /\ Formed(x)
    /\ Under(x) => RightAdd(x, z) /\ RightRead(x, m) /\ RightNote(x) /\ RightDel(x, m, z)

IInv ==
    /\ Types /\ Overlaps /\ Doubts /\ Unbuilt
    /\ StoreInv /\ BloomInv /\ ArcInv
    /\ \A c \in Clients : Right(call[c], may[c], crossed[c])

-----------------------------------------------------------------------------
(* Calls as records *)

\* A call that is not there is well formed.
LEMMA IdleCall == Idle \in Calls /\ Idle.op = "idle" /\ Idle.keys = {} /\ Idle.at = "idle" /\ ~Under(Idle)
BY DEF Idle, Calls, Ops, Places, Under

\* The fields of what becomes of a call.
LEMMA AtFields ==
    ASSUME NEW x \in Calls, NEW at \in Places
    PROVE  LET y == At(x, at) IN
           /\ y \in Calls /\ y.op = x.op /\ y.keys = x.keys /\ y.pass = x.pass /\ y.part = x.part
           /\ y.look = x.look /\ y.again = x.again /\ y.found = x.found /\ y.out = x.out
           /\ y.at = at
BY DEF At, Calls

LEMMA AnsweredFields ==
    ASSUME NEW x \in Calls, NEW out \in {"yes", "no", "ok", "missing", "error"}
    PROVE  LET y == Answered(x, out) IN
           /\ y \in Calls /\ y.op = x.op /\ y.keys = x.keys /\ y.out = out
           /\ y.at = "reply" /\ ~Under(y)
BY DEF Answered, Idle, Calls, Places, Under

LEMMA BelowPlaces == Below \in {"arc", "store"} /\ Top \in {"bloom", "arc", "store"}
BY DEF Below, Top

LEMMA LookingFields ==
    ASSUME NEW x \in Calls, NEW k \in x.look
    PROVE  LET y == Looking(x, k) IN
           /\ y \in Calls /\ y.op = x.op /\ y.keys = x.keys /\ y.pass = x.pass /\ y.part = {k}
           /\ y.look = x.look \ {k} /\ y.again = x.again /\ y.out = x.out
           /\ y.at = Top
BY BelowPlaces DEF Looking, Calls, Places

LEMMA PuttingFields ==
    ASSUME NEW x \in Calls
    PROVE  LET y == Putting(x) IN
           /\ y \in Calls /\ y.op = x.op /\ y.keys = x.keys /\ y.pass = "put" /\ y.part = x.keys
           /\ y.look = x.look /\ y.again = x.again /\ y.out = x.out
           /\ y.at = Below
BY BelowPlaces DEF Putting, Calls, Places

LEMMA PuttingAgainFields ==
    ASSUME NEW x \in Calls, NEW k \in x.again
    PROVE  LET y == PuttingAgain(x, k) IN
           /\ y \in Calls /\ y.op = x.op /\ y.keys = x.keys /\ y.pass = x.pass /\ y.part = {k}
           /\ y.look = x.look /\ y.again = x.again \ {k} /\ y.found = x.found /\ y.out = x.out
           /\ y.at = Below
BY BelowPlaces DEF PuttingAgain, Calls, Places

LEMMA PassingFields ==
    ASSUME NEW x \in Calls, NEW good \in SUBSET x.part
    PROVE  LET y == Passing(x, good) IN
           /\ y \in Calls /\ y.op = x.op /\ y.keys = x.keys /\ y.pass = x.pass /\ y.part = good
           /\ y.look = x.look /\ y.again = x.again /\ y.found = x.found /\ y.out = x.out
           /\ y.at = IF good = {} THEN "mark" ELSE "store"
BY DEF Passing, Calls, Places

LEMMA AskingAgainFields ==
    ASSUME NEW x \in Calls
    PROVE  LET y == AskingAgain(x) IN
           /\ y \in Calls /\ y.op = x.op /\ y.keys = x.keys /\ y.pass = x.pass /\ y.part = x.part
           /\ y.look = x.look /\ y.again = {} /\ y.out = x.out
           /\ y.at = Top
BY BelowPlaces DEF AskingAgain, Calls, Places

LEMMA NotingFields ==
    ASSUME NEW x \in Calls, NEW found \in BOOLEAN
    PROVE  LET y == Noting(x, found) IN
           /\ y \in Calls /\ y.op = x.op /\ y.keys = x.keys /\ y.pass = x.pass /\ y.part = x.part
           /\ y.look = x.look /\ y.again = x.again /\ y.found = found /\ y.out = x.out
           /\ y.at = "note"
BY DEF Noting, Calls, Places

\* A step of one goroutine changes its call alone.
LEMMA Stepped ==
    ASSUME call \in [Clients -> Calls], NEW c \in Clients, NEW x \in Calls, Step(c, x)
    PROVE  /\ call' \in [Clients -> Calls] /\ call'[c] = x
           /\ \A d \in Clients : d # c => call'[d] = call[d]
BY DEF Step

LEMMA OneKey ==
    ASSUME NEW c \in Clients, NEW k \in Keys, call[c].part = {k}
    PROVE  Key(c) = k
BY DEF Key

\* Where a look-up leaves a call once it is answered: it asks again, goes on to the
\* next look-up or to its put, or replies.
Back(x, r) ==
    /\ r \in Calls /\ Formed(r) /\ r.op = x.op /\ r.keys = x.keys
    /\ r.at \in {"bloom", "arc", "store", "reply"}
    /\ r.op = "del" => r.at = "reply"
    /\ Under(r) => \A k \in r.keys : ~Settled(r, k)

LEMMA LookOrPutBack ==
    ASSUME Types, NEW c \in Clients, Formed(call[c]), call[c].op = "add", call[c].pass = "has",
           Under(call[c]), LookOrPut(c)
    PROVE  \E r \in Calls : Step(c, r) /\ Back(call[c], r)
<1> DEFINE x == call[c]
<1>1. x \in Calls /\ x.look \subseteq x.keys /\ x.again = x.keys /\ x.out = "none" /\ x.keys \subseteq Keys
    BY DEF Types, Calls, Formed, Under
<1>2. CASE Step(c, Putting(x))
    <2>1. PICK r \in Calls :
          /\ r = Putting(x) /\ r.op = x.op /\ r.keys = x.keys /\ r.pass = "put" /\ r.part = x.keys
          /\ r.look = x.look /\ r.again = x.again /\ r.out = x.out /\ r.at = Below
        BY <1>1, PuttingFields
    <2>2. Formed(r)
        BY <1>1, <2>1 DEF Formed, Under, Below
    <2> QED BY <1>1, <1>2, <2>1, <2>2, BelowPlaces DEF Back, Settled
<1>3. ASSUME NEW k \in x.look, Step(c, Looking(x, k)) PROVE \E r \in Calls : Step(c, r) /\ Back(call[c], r)
    <2>1. PICK r \in Calls :
          /\ r = Looking(x, k) /\ r.op = x.op /\ r.keys = x.keys /\ r.pass = x.pass /\ r.part = {k}
          /\ r.look = x.look \ {k} /\ r.again = x.again /\ r.out = x.out /\ r.at = Top
        BY <1>1, LookingFields
    <2>2. Formed(r)
        BY <1>1, <2>1 DEF Formed, Under, Top, Below
    <2> QED BY <1>1, <1>3, <2>1, <2>2, BelowPlaces DEF Back, Settled
<1> QED BY <1>2, <1>3 DEF LookOrPut

LEMMA NotFoundBack ==
    ASSUME Types, NEW c \in Clients, Formed(call[c]), Under(call[c]), call[c].pass # "put", NotFound(c)
    PROVE  \E r \in Calls : Step(c, r) /\ Back(call[c], r)
<1> DEFINE x == call[c]
<1>1. x \in Calls /\ x.out = "none" /\ x.op \in {"has", "get", "add", "del"}
    BY DEF Types, Calls, Ops, Formed, Under, Idle
<1>2. CASE x.op = "get" /\ Step(c, AskingAgain(x))
    <2>1. PICK r \in Calls :
          /\ r = AskingAgain(x) /\ r.op = x.op /\ r.keys = x.keys /\ r.pass = x.pass /\ r.part = x.part
          /\ r.look = x.look /\ r.again = {} /\ r.out = x.out /\ r.at = Top
        BY <1>1, AskingAgainFields
    <2>2. Formed(r)
        BY <1>1, <1>2, <2>1 DEF Formed, Under, Top, Below
    <2> QED BY <1>1, <1>2, <2>1, <2>2, BelowPlaces DEF Back, Settled
<1>3. CASE x.op = "add" /\ LookOrPut(c)
    BY <1>3, LookOrPutBack DEF Formed
<1>4. ASSUME NEW out \in {"missing", "no"}, Say(c, out) PROVE \E r \in Calls : Step(c, r) /\ Back(call[c], r)
    BY <1>1, <1>4, AnsweredFields DEF Say, Back, Formed, Under
<1> QED BY <1>2, <1>3, <1>4 DEF NotFound

LEMMA FoundBack ==
    ASSUME Types, NEW c \in Clients, Formed(call[c]), Under(call[c]), call[c].op # "del", call[c].pass # "put",
           Found(c)
    PROVE  \E r \in Calls : Step(c, r) /\ Back(call[c], r)
<1> DEFINE x == call[c]
<1>1. x \in Calls /\ x.out = "none" /\ x.op \in {"has", "get", "add"}
    BY DEF Types, Calls, Ops, Formed, Under, Idle
<1>2. CASE x.op = "add" /\ LookOrPut(c)
    BY <1>2, LookOrPutBack DEF Formed
<1>3. CASE Say(c, "yes")
    BY <1>1, <1>3, AnsweredFields DEF Say, Back, Formed, Under
<1> QED BY <1>2, <1>3 DEF Found

-----------------------------------------------------------------------------
(* What a step leaves right *)

\* The parts of Right, put together for the next state.
LEMMA RightNow ==
    ASSUME NEW CONSTANT c, NEW CONSTANT r, call'[c] = r, Formed(r)',
           Under(r) => RightAdd(r, crossed[c])' /\ RightRead(r, may[c])' /\ RightNote(r)' /\ RightDel(r, may[c], crossed[c])'
    PROVE  Right(call[c], may[c], crossed[c])'
<1>1. Formed(call[c])' /\ (Under(call[c])' <=> Under(r))
    BY DEF Formed, Under
<1>2. SUFFICES ASSUME Under(r)
               PROVE  RightAdd(call[c], crossed[c])' /\ RightRead(call[c], may[c])' /\ RightNote(call[c])'
                      /\ RightDel(call[c], may[c], crossed[c])'
    BY <1>1 DEF Right
<1>3. RightAdd(call[c], crossed[c])'
    BY <1>2 DEF RightAdd, Settled
<1>4. RightRead(call[c], may[c])' /\ RightNote(call[c])'
    BY <1>2 DEF RightRead, RightNote
<1>5. RightDel(call[c], may[c], crossed[c])'
    BY <1>2 DEF RightDel, Allowed
<1> QED BY <1>3, <1>4, <1>5

\* A call that has come back is right if what it knows of its keys still is.
LEMMA BackRight ==
    ASSUME Types, NEW c \in Clients, NEW r \in Calls, Right(call[c], may[c], crossed[c]), Under(call[c]),
           Back(call[c], r), call'[c] = r, may'[c] = may[c], UNCHANGED <<setup, possible>>
    PROVE  Right(call[c], may[c], crossed[c])'
<1>1. Formed(r)' /\ (Under(r) => \A k \in r.keys : ~Settled(r, k)')
    BY DEF Back, Formed, Settled, Under
<1>2. SUFFICES ASSUME Under(r)
               PROVE  RightAdd(r, crossed[c])' /\ RightRead(r, may[c])' /\ RightNote(r)' /\ RightDel(r, may[c], crossed[c])'
    BY <1>1, RightNow
<1>3. RightAdd(r, crossed[c])' /\ RightNote(r)'
    BY <1>1, <1>2 DEF Right, RightAdd, RightNote, Back, Settled
<1>4. RightRead(r, may[c])'
    BY <1>2 DEF Right, RightRead, Back
<1>5. RightDel(r, may[c], crossed[c])'
    BY <1>2 DEF RightDel, Back, Under
<1> QED BY <1>3, <1>4, <1>5

\* A call is not disturbed by what others do to the caches.
LEMMA OtherRight ==
    ASSUME Types, NEW d \in Clients, Right(call[d], may[d], crossed[d]),
           call'[d] = call[d], may'[d] = may[d], crossed'[d] = crossed[d], doubtful' = doubtful,
           UNCHANGED <<setup, stored, possible>>,
           Under(call[d]) /\ call[d].op \in Writes => \A k \in call[d].keys \ doubtful : arc'[k] \in {arc[k], "none"},
           bloom \cup scan \subseteq bloom' \cup scan'
    PROVE  Right(call[d], may[d], crossed[d])'
<1>1. PICK y \in Calls : y = call[d] /\ call'[d] = y /\ y.keys \subseteq Keys
    BY DEF Types, Calls
<1>2. Formed(y) /\ Formed(y)'
    BY <1>1 DEF Right, Formed
<1>3. SUFFICES ASSUME Under(y)
               PROVE  RightAdd(y, crossed[d])' /\ RightRead(y, may[d])' /\ RightNote(y)' /\ RightDel(y, may[d], crossed[d])'
    BY <1>1, <1>2, RightNow
<1>4. RightAdd(y, crossed[d]) /\ RightRead(y, may[d]) /\ RightNote(y) /\ RightDel(y, may[d], crossed[d])
    BY <1>1, <1>3 DEF Right
<1>5. RightAdd(y, crossed[d])'
    BY <1>1, <1>3, <1>4 DEF RightAdd, Settled, Writes
<1>6. RightRead(y, may[d])' /\ RightNote(y)'
    BY <1>4 DEF RightRead, RightNote
<1>7. RightDel(y, may[d], crossed[d])'
    BY <1>1, <1>3, <1>4 DEF RightDel, Allowed, Writes
<1> QED BY <1>5, <1>6, <1>7

\* The ARC cache after an answer: the keys that were asked for, or fewer entries.
LEMMA Remembered ==
    ASSUME arc \in [Keys -> {"none", "yes", "no"}], NEW ks \in SUBSET Keys, NEW what \in {"yes", "no"},
           Remember(ks, what)
    PROVE  /\ arc' \in [Keys -> {"none", "yes", "no"}]
           /\ \A k \in Keys : IF k \in ks THEN arc'[k] \in {what, "none"} ELSE arc'[k] \in {arc[k], "none"}
BY DEF Remember

\* A call that goes on, or ends, overlaps no others than before.
LEMMA OverlapsKeep ==
    ASSUME Types, Overlaps, Doubts, NEW c \in Clients, NEW r \in Calls, Step(c, r),
           Under(r) => Under(call[c]) /\ r.op = call[c].op, r.keys \subseteq call[c].keys,
           \A d \in Clients : d # c \/ r # Idle => may'[d] = may[d] /\ crossed'[d] = crossed[d],
           setup' = setup, doubtful' = doubtful,
           \A k \in doubtful : possible'[k] = possible[k]
    PROVE  Overlaps' /\ Doubts'
<1>1. /\ call' \in [Clients -> Calls] /\ call'[c] = r
      /\ \A d \in Clients : d # c => call'[d] = call[d]
    BY Stepped DEF Types
<1>2. Doubts'
    BY <1>1, IdleCall DEF Doubts, Types
<1>3. Overlaps'
    <2>1. SUFFICES ASSUME NEW e \in Clients, NEW d \in Clients, e # d, Under(call'[e]), Under(call'[d]),
                          call'[d].op \in Writes, NEW k \in call'[e].keys \cap call'[d].keys
                   PROVE  /\ Map!Effects(call'[d].op) \subseteq may'[e]
                          /\ setup.arc => k \in doubtful
                          /\ call'[e].op \in Writes \ {call'[d].op} => k \in crossed'[e] /\ k \in crossed'[d]
        BY DEF Overlaps, Map!Effects, Under
    <2>2. \A f \in {e, d} : Under(call[f]) /\ call[f].op = call'[f].op /\ k \in call[f].keys
        BY <1>1, <2>1
    <2>3. \A f \in {e, d} : may'[f] = may[f] /\ crossed'[f] = crossed[f]
        BY <1>1, <2>1, IdleCall
    <2>4. /\ Map!Effects(call[d].op) \subseteq may[e]
          /\ setup.arc => k \in doubtful
          /\ call[e].op \in Writes \ {call[d].op} => k \in crossed[e] /\ k \in crossed[d]
        BY <2>1, <2>2 DEF Overlaps
    <2> QED BY <2>2, <2>3, <2>4
<1> QED BY <1>2, <1>3

\* A step of one call that leaves the datastore alone and settles nothing.
LEMMA StepKeeps ==
    ASSUME IInv, NEW c \in Clients, NEW r \in Calls, Step(c, r), Under(call[c]),
           r.op = call[c].op, r.keys = call[c].keys,
           UNCHANGED <<setup, stored, history, faults>>,
           arc' \in [Keys -> {"none", "yes", "no"}], ArcInv',
           \A d \in Clients : d # c /\ Under(call[d]) /\ call[d].op \in Writes =>
               \A k \in call[d].keys \ doubtful : arc'[k] \in {arc[k], "none"},
           bloom' \in SUBSET Keys, scan' \in SUBSET Keys, active' \in BOOLEAN,
           bloom \cup scan \subseteq bloom' \cup scan', Unbuilt',
           Right(call[c], may[c], crossed[c])'
    PROVE  IInv'
<1>1. /\ call' \in [Clients -> Calls] /\ call'[c] = r
      /\ \A d \in Clients : d # c => call'[d] = call[d]
    BY Stepped DEF IInv, Types
<1>2. Types'
    BY <1>1 DEF IInv, Types, history
<1>3. Overlaps' /\ Doubts'
    <2>1. \A d \in Clients : may'[d] = may[d] /\ crossed'[d] = crossed[d]
        BY DEF history
    <2> QED BY <2>1, OverlapsKeep DEF IInv, history
<1>4. StoreInv' /\ BloomInv'
    BY DEF IInv, StoreInv, BloomInv, Allowed, history
<1>5. ASSUME NEW d \in Clients, d # c PROVE Right(call[d], may[d], crossed[d])'
    BY <1>1, <1>5, OtherRight DEF IInv, history
<1> QED BY <1>2, <1>3, <1>4, <1>5 DEF IInv

\* The same for a step that leaves the caches alone, too.
LEMMA StepQuiet ==
    ASSUME IInv, NEW c \in Clients, NEW r \in Calls, Step(c, r), Under(call[c]),
           r.op = call[c].op, r.keys = call[c].keys,
           UNCHANGED <<setup, stored, history, faults, caches>>,
           Right(call[c], may[c], crossed[c])'
    PROVE  IInv'
<1>1. ArcInv' /\ Unbuilt'
    BY DEF IInv, ArcInv, Unbuilt, caches, history
<1> QED BY <1>1, StepKeeps DEF IInv, Types, caches

\* What a call that waits for an answer looks like.
LEMMA Waiting ==
    ASSUME IInv, NEW c \in Clients, Under(call[c]), call[c].pass # "put"
    PROVE  /\ call[c].op \in {"has", "get", "add", "del"} /\ Formed(call[c]) /\ Right(call[c], may[c], crossed[c])
           /\ RightRead(call[c], may[c]) /\ RightNote(call[c])
           /\ RightAdd(call[c], crossed[c]) /\ RightDel(call[c], may[c], crossed[c])
           /\ call[c].op = "add" => call[c].pass = "has"
           /\ call[c].op # "add" => call[c].pass = call[c].op
           /\ \E k \in call[c].keys : call[c].part = {k} /\ Key(c) = k
           /\ call[c].op # "add" => call[c].keys = call[c].part
           /\ call[c] \in Calls /\ call[c].keys \subseteq Keys /\ call[c].out = "none"
<1> DEFINE x == call[c]
<1>1. x \in Calls /\ Formed(x) /\ Right(x, may[c], crossed[c])
    BY DEF IInv, Types, Right
<1>2. x.op \in {"has", "get", "add", "del"}
    BY <1>1 DEF Formed, Idle, Calls, Ops, Under
<1>3. \E k \in x.keys : x.part = {k}
    BY <1>1, <1>2 DEF Formed
<1>4. \E k \in x.keys : x.part = {k} /\ Key(c) = k
    BY <1>1, <1>3, OneKey DEF Calls
<1>5. x.keys \subseteq Keys /\ x.out = "none"
    BY <1>1 DEF Calls, Formed, Under
<1>6. RightRead(x, may[c]) /\ RightNote(x) /\ RightAdd(x, crossed[c]) /\ RightDel(x, may[c], crossed[c])
    BY <1>1 DEF Right
<1>7. /\ x.op = "add" => x.pass = "has"
      /\ x.op # "add" => x.pass = x.op /\ x.keys = x.part
    BY <1>1, <1>2 DEF Formed
<1> QED BY <1>1, <1>2, <1>4, <1>5, <1>6, <1>7

\* What a call that writes its blocks looks like.
LEMMA Adding ==
    ASSUME IInv, NEW c \in Clients, Under(call[c]), call[c].pass = "put"
    PROVE  /\ call[c].op = "add" /\ Formed(call[c]) /\ RightAdd(call[c], crossed[c])
           /\ Right(call[c], may[c], crossed[c])
           /\ call[c] \in Calls /\ call[c].part \subseteq call[c].keys /\ call[c].keys \subseteq Keys
           /\ call[c].again \subseteq call[c].keys /\ call[c].look \subseteq call[c].keys /\ call[c].out = "none"
<1> DEFINE x == call[c]
<1>1. x \in Calls /\ Formed(x) /\ Right(x, may[c], crossed[c])
    BY DEF IInv, Types, Right
<1>2. x.op = "add" /\ x.out = "none"
    BY <1>1 DEF Formed, Idle, Calls, Ops, Under
<1> QED BY <1>1, <1>2 DEF Formed, Calls, Right

\* Behind an ARC cache a key that a write and another call share is in doubt.
LEMMA InDoubt ==
    ASSUME IInv, setup.arc, NEW c \in Clients, NEW d \in Clients, c # d, Under(call[c]), Under(call[d]),
           call[c].op \in Writes \/ call[d].op \in Writes, NEW k \in call[c].keys, k \in call[d].keys
    PROVE  k \in doubtful
BY DEF IInv, Overlaps

\* A call that goes on to its next layer with nothing learned.
LEMMA MoveRight ==
    ASSUME IInv, NEW c \in Clients, NEW at \in {"arc", "remove", "store"}, Move(c, at),
           call[c].at \in {"bloom", "arc", "remove"}, call[c].pass # "put",
           at = "arc" => setup.arc,
           at = "remove" => call[c].pass = "del" /\ setup.arc,
           call[c].pass = "del" /\ at = "store" => \A k \in call[c].keys : arc'[k] # "yes",
           UNCHANGED <<setup, stored, history, bloom, scan>>,
           \A k \in call[c].keys : arc'[k] \in {arc[k], "none"}
    PROVE  call'[c] = At(call[c], at) /\ Right(call[c], may[c], crossed[c])'
<1> DEFINE x == call[c]
<1>1. PICK r \in Calls :
      /\ r = At(x, at) /\ r.op = x.op /\ r.keys = x.keys /\ r.pass = x.pass /\ r.part = x.part
      /\ r.look = x.look /\ r.again = x.again /\ r.out = x.out /\ r.at = at
    BY AtFields DEF IInv, Types, Places
<1>2. /\ call'[c] = r /\ may'[c] = may[c] /\ crossed'[c] = crossed[c]
      /\ UNCHANGED <<setup, stored, bloom, scan, possible, doubtful>>
    BY <1>1, Stepped DEF IInv, Types, Move, history
<1>3. /\ Under(x) /\ Formed(x) /\ x.op \in {"has", "get", "add", "del"}
      /\ x.op = "add" => x.pass = "has"
      /\ RightAdd(x, crossed[c]) /\ RightRead(x, may[c]) /\ RightDel(x, may[c], crossed[c])
      /\ x.op # "add" => x.pass = x.op
    BY Waiting DEF Under
<1>4. Formed(r)' /\ Under(r)
    BY <1>1, <1>2, <1>3 DEF Formed, Under, Idle
<1>5. RightAdd(r, crossed[c])' /\ RightRead(r, may[c])' /\ RightNote(r)'
    BY <1>1, <1>2, <1>3 DEF RightAdd, RightRead, RightNote, Settled
<1>6. RightDel(r, may[c], crossed[c])'
    <2>1. SUFFICES ASSUME x.op = "del", NEW k \in x.keys
                   PROVE  /\ FALSE \in possible[k] /\ Allowed(k, may[c])
                          /\ FALSE \in may[c] \/ ~setup.bloom \/ k \in bloom \cup scan
                          /\ arc'[k] = "no" => FALSE \in may[c] \/ k \in doubtful
                          /\ at = "store" => arc'[k] # "yes"
        BY <1>1, <1>2 DEF RightDel, Allowed
    <2> QED BY <1>3, <2>1 DEF RightDel, Allowed
<1> QED BY <1>1, <1>2, <1>4, <1>5, <1>6, RightNow

-----------------------------------------------------------------------------
(* The steps of a call that leave the datastore alone *)

LEMMA AskBloomKeeps == ASSUME IInv, NEW c \in Clients, AskBloom(c) PROVE IInv'
<1>1. call[c].at = "bloom" /\ Under(call[c]) /\ call[c].pass # "put"
    BY DEF AskBloom, IInv, Right, Formed, Under
<1>2. UNCHANGED <<setup, stored, history, caches, faults>>
    BY DEF AskBloom, NotFound, history
<1>3. CASE NotFound(c)
    <2>1. PICK r \in Calls : Step(c, r) /\ Back(call[c], r)
        BY <1>1, <1>3, NotFoundBack, Waiting DEF IInv
    <2>2. Right(call[c], may[c], crossed[c])'
        BY <1>1, <1>2, <2>1, Stepped, BackRight DEF IInv, Types, history
    <2> QED BY <1>1, <1>2, <2>1, <2>2, StepQuiet DEF Back
<1>4. CASE Move(c, Below)
    <2>1. Below \in {"arc", "store"} /\ (Below = "arc" <=> setup.arc)
        BY DEF Below
    <2>2. /\ At(call[c], Below) \in Calls /\ At(call[c], Below).op = call[c].op
          /\ At(call[c], Below).keys = call[c].keys
        BY <2>1, AtFields DEF IInv, Types, Places
    <2>3. Right(call[c], may[c], crossed[c])'
        BY <1>1, <1>2, <1>4, <2>1, MoveRight DEF IInv, Types, Calls, Unbuilt, caches
    <2> QED BY <1>1, <1>2, <1>4, <2>2, <2>3, StepQuiet DEF Move
<1> QED BY <1>3, <1>4 DEF AskBloom

LEMMA AskArcKeeps == ASSUME IInv, NEW c \in Clients, AskArc(c) PROVE IInv'
<1>1. /\ call[c].at = "arc" /\ Under(call[c]) /\ call[c].pass # "put" /\ setup.arc
      /\ call[c].pass = "has" => call[c].op # "del"
    BY DEF AskArc, IInv, Right, Formed, Under
<1>2. UNCHANGED <<setup, stored, history, caches, faults>>
    BY DEF AskArc, NotFound, Found, history
<1>3. CASE NotFound(c) \/ (call[c].pass = "has" /\ Found(c))
    <2>1. PICK r \in Calls : Step(c, r) /\ Back(call[c], r)
        BY <1>1, <1>3, NotFoundBack, FoundBack, Waiting DEF IInv
    <2>2. Right(call[c], may[c], crossed[c])'
        BY <1>1, <1>2, <2>1, Stepped, BackRight DEF IInv, Types, history
    <2> QED BY <1>1, <1>2, <2>1, <2>2, StepQuiet DEF Back
<1>4. CASE arc[Key(c)] # "no" /\ Move(c, IF call[c].pass = "del" THEN "remove" ELSE "store")
    <2> DEFINE at == IF call[c].pass = "del" THEN "remove" ELSE "store"
    <2>1. at \in {"remove", "store"} /\ At(call[c], at) \in Calls /\ At(call[c], at).op = call[c].op
          /\ At(call[c], at).keys = call[c].keys
        BY AtFields DEF IInv, Types, Places
    <2>2. Right(call[c], may[c], crossed[c])'
        BY <1>1, <1>2, <1>4, MoveRight DEF caches
    <2> QED BY <1>1, <1>2, <1>4, <2>1, <2>2, StepQuiet DEF Move
<1> QED BY <1>3, <1>4 DEF AskArc

LEMMA LookupKeeps == ASSUME IInv, NEW c \in Clients, Lookup(c) PROVE IInv'
<1> DEFINE x == call[c]
<1>1. /\ x.at = "store" /\ x.pass \in {"has", "get"} /\ Under(x) /\ Formed(x)
      /\ x.op \in {"has", "get", "add"}
      /\ x.op = "add" => x.pass = "has"
      /\ RightAdd(x, crossed[c]) /\ RightRead(x, may[c])
      /\ \E k \in x.keys : x.part = {k} /\ Key(c) = k
    BY Waiting DEF Lookup, Under
<1>2. UNCHANGED <<setup, stored, history, caches, faults>>
    BY DEF Lookup, NotFound, Found, history
<1>3. CASE NotFound(c) \/ Found(c)
    <2>1. PICK r \in Calls : Step(c, r) /\ Back(x, r)
        BY <1>1, <1>3, NotFoundBack, FoundBack DEF IInv
    <2>2. Right(call[c], may[c], crossed[c])'
        BY <1>1, <1>2, <2>1, Stepped, BackRight DEF IInv, Types, history
    <2> QED BY <1>1, <1>2, <2>1, <2>2, StepQuiet DEF Back
<1>4. CASE setup.arc /\ Step(c, Noting(x, Key(c) \in stored))
    <2>1. PICK found \in BOOLEAN : found <=> Key(c) \in stored
        OBVIOUS
    <2>2. Noting(x, Key(c) \in stored) = Noting(x, found)
        BY <2>1
    <2>3. PICK r \in Calls :
          /\ r = Noting(x, found) /\ r.op = x.op /\ r.keys = x.keys /\ r.pass = x.pass
          /\ r.part = x.part /\ r.look = x.look /\ r.again = x.again /\ r.found = found
          /\ r.out = x.out /\ r.at = "note"
        BY NotingFields DEF IInv, Types
    <2>4. Step(c, r) /\ call'[c] = r
        BY <1>4, <2>2, <2>3, Stepped DEF IInv, Types
    <2>5. UNCHANGED <<setup, stored, possible, doubtful>> /\ may'[c] = may[c] /\ crossed'[c] = crossed[c]
        BY <1>2 DEF history
    <2>6. Formed(r)'
        BY <1>1, <1>4, <2>3, <2>5 DEF Formed, Idle, Under
    <2>7. RightAdd(r, crossed[c])' /\ RightRead(r, may[c])' /\ RightDel(r, may[c], crossed[c])'
        BY <1>1, <2>3, <2>5 DEF RightAdd, RightRead, RightDel, Settled
    <2>8. RightNote(r)'
        BY <1>1, <2>1, <2>3, <2>5 DEF RightNote
    <2>9. Right(call[c], may[c], crossed[c])'
        BY <2>4, <2>6, <2>7, <2>8, RightNow
    <2> QED BY <1>1, <1>2, <2>3, <2>4, <2>9, StepQuiet
<1> QED BY <1>3, <1>4 DEF Lookup

-----------------------------------------------------------------------------
(* The steps that read or fill the ARC cache *)

LEMMA AskArcToPutKeeps == ASSUME IInv, NEW c \in Clients, AskArcToPut(c) PROVE IInv'
<1> DEFINE x == call[c]
           good == {k \in x.part : arc[k] # "yes"}
<1>1. /\ x.at = "arc" /\ x.pass = "put" /\ Step(c, Passing(x, good)) /\ Under(x)
      /\ UNCHANGED <<setup, stored, caches, history, faults>>
    BY DEF AskArcToPut, Under
<1>2. /\ x.op = "add" /\ Formed(x) /\ RightAdd(x, crossed[c]) /\ x \in Calls
      /\ x.part \subseteq x.keys /\ x.keys \subseteq Keys /\ x.again \subseteq x.keys /\ x.out = "none"
    BY <1>1, Adding
<1>3. PICK r \in Calls :
      /\ r = Passing(x, good) /\ r.op = x.op /\ r.keys = x.keys /\ r.pass = x.pass /\ r.part = good
      /\ r.look = x.look /\ r.again = x.again /\ r.out = x.out /\ r.at = IF good = {} THEN "mark" ELSE "store"
    <2>1. good \in SUBSET x.part
        OBVIOUS
    <2> HIDE DEF good
    <2> QED BY <1>2, <2>1, PassingFields
<1>4. Step(c, r) /\ call'[c] = r /\ may'[c] = may[c] /\ crossed'[c] = crossed[c]
    BY <1>1, <1>3, Stepped DEF IInv, Types, history
<1>5. Formed(r)'
    BY <1>1, <1>2, <1>3 DEF Formed, Idle, Under
<1>6. ASSUME NEW k \in x.keys, Settled(r, k)
      PROVE  (k \in stored \/ k \in crossed[c] \cup doubtful) /\ (arc[k] # "no" \/ k \in doubtful)
    <2>1. Settled(x, k) \/ (x.again = x.keys /\ k \notin good)
        BY <1>1, <1>2, <1>3, <1>6 DEF Settled
    <2>2. CASE Settled(x, k)
        BY <1>2, <2>2 DEF RightAdd
    <2>3. CASE x.again = x.keys /\ k \notin good
        <3>1. arc[k] = "yes" /\ k \in Keys
            BY <1>1, <1>2, <2>3 DEF Formed, Under
        <3> QED BY <3>1 DEF IInv, ArcInv
    <2> QED BY <2>1, <2>2, <2>3
<1>7. RightAdd(r, crossed[c])' /\ RightRead(r, may[c])' /\ RightNote(r)' /\ RightDel(r, may[c], crossed[c])'
    BY <1>1, <1>2, <1>3, <1>4, <1>6 DEF RightAdd, RightRead, RightNote, RightDel, Settled, caches, history
<1>8. Right(call[c], may[c], crossed[c])'
    BY <1>4, <1>5, <1>7, RightNow
<1> QED BY <1>1, <1>3, <1>4, <1>8, StepQuiet

LEMMA ForgetArcKeeps == ASSUME IInv, NEW c \in Clients, ForgetArc(c) PROVE IInv'
<1> DEFINE x == call[c]
<1>1. /\ x.at = "remove" /\ arc' = [arc EXCEPT ![Key(c)] = "none"] /\ Move(c, "store") /\ Under(x)
      /\ UNCHANGED <<setup, stored, bloom, active, scan, history, faults>>
    BY DEF ForgetArc, Under
<1>2. x.pass = "del" /\ setup.arc
    BY <1>1 DEF IInv, Right, Formed
<1>3. \E k \in x.keys : x.keys = {k} /\ Key(c) = k
    BY <1>1, <1>2, Waiting
<1>4. x.keys \subseteq Keys /\ \A d \in Clients : call[d].keys \subseteq Keys
    BY DEF IInv, Types, Calls
<1>5. /\ arc' \in [Keys -> {"none", "yes", "no"}] /\ \A k \in Keys : arc'[k] \in {arc[k], "none"}
      /\ \A k \in x.keys : arc'[k] = "none"
    BY <1>1, <1>3, <1>4 DEF IInv, Types
<1>6. call'[c] = At(x, "store") /\ Right(call[c], may[c], crossed[c])'
    BY <1>1, <1>2, <1>5, <1>4, MoveRight
<1>7. /\ At(x, "store") \in Calls /\ At(x, "store").op = x.op /\ At(x, "store").keys = x.keys
    BY AtFields DEF IInv, Types, Places
<1>8. ArcInv' /\ Unbuilt'
    BY <1>1, <1>2, <1>5 DEF IInv, ArcInv, Unbuilt, history
<1> QED BY <1>1, <1>5, <1>4, <1>6, <1>7, <1>8, StepKeeps DEF IInv, Types, Move

LEMMA NoteReadKeeps == ASSUME IInv, NEW c \in Clients, NoteRead(c) PROVE IInv'
<1> DEFINE x == call[c]
           what == IF x.found THEN "yes" ELSE "no"
<1>1. /\ x.at = "note" /\ x.pass \in {"has", "get"} /\ Remember(x.part, what) /\ Under(x)
      /\ NotFound(c) \/ Found(c)
      /\ UNCHANGED <<setup, stored, bloom, active, scan, history, faults>>
    BY DEF NoteRead, NotFound, Found, history, Under
<1>2. /\ x.op \in {"has", "get", "add"} /\ Formed(x) /\ Right(x, may[c], crossed[c]) /\ RightNote(x)
      /\ x.part \subseteq x.keys /\ x.keys \subseteq Keys
    BY <1>1, Waiting
<1>3. /\ setup.arc /\ what \in {"yes", "no"}
      /\ \A k \in x.part \ doubtful : IF what = "yes" THEN k \in stored ELSE FALSE \in possible[k]
    <2>1. setup.arc /\ \A k \in x.part \ doubtful : x.found <=> k \in stored
        BY <1>1, <1>2 DEF Formed, RightNote
    <2>2. \A k \in x.part : k \notin stored => FALSE \in possible[k]
        BY <1>2 DEF IInv, StoreInv, Allowed
    <2> QED BY <2>1, <2>2
<1> HIDE DEF what
<1>4. /\ arc' \in [Keys -> {"none", "yes", "no"}]
      /\ \A k \in Keys : IF k \in x.part THEN arc'[k] \in {what, "none"} ELSE arc'[k] \in {arc[k], "none"}
    BY <1>1, <1>2, <1>3, Remembered DEF IInv, Types
<1>5. ASSUME NEW d \in Clients, d # c, Under(call[d]), call[d].op \in Writes, NEW k \in call[d].keys \ doubtful
      PROVE  arc'[k] \in {arc[k], "none"}
    BY <1>1, <1>2, <1>3, <1>4, <1>5, InDoubt DEF IInv, Types, Calls
<1>6. ArcInv'
    <2>1. SUFFICES ASSUME NEW k \in Keys \ doubtful
                   PROVE  /\ arc'[k] = "yes" => k \in stored
                          /\ arc'[k] = "no" => FALSE \in possible[k]
        BY <1>1 DEF ArcInv, history
    <2>2. CASE k \in x.part
        BY <1>3, <1>4, <2>2
    <2>3. CASE k \notin x.part
        BY <1>4, <2>3 DEF IInv, ArcInv
    <2> QED BY <2>2, <2>3
<1>7. Unbuilt'
    BY <1>1, <1>3 DEF IInv, Unbuilt
<1>8. PICK r \in Calls : Step(c, r) /\ Back(x, r)
    BY <1>1, <1>2, NotFoundBack, FoundBack DEF IInv
<1>9. Right(call[c], may[c], crossed[c])'
    BY <1>1, <1>2, <1>8, Stepped, BackRight DEF IInv, Types, history
<1> QED BY <1>1, <1>4, <1>5, <1>6, <1>7, <1>8, <1>9, StepKeeps DEF IInv, Types, Back

LEMMA NoteAddKeeps == ASSUME IInv, NEW c \in Clients, NoteAdd(c) PROVE IInv'
<1> DEFINE x == call[c]
<1>1. /\ x.at = "note" /\ x.pass = "put" /\ Remember(x.part, "yes") /\ Step(c, At(x, "mark")) /\ Under(x)
      /\ UNCHANGED <<setup, stored, bloom, active, scan, history, faults>>
    BY DEF NoteAdd, Move, Under
<1>2. /\ x.op = "add" /\ Formed(x) /\ RightAdd(x, crossed[c]) /\ x \in Calls
      /\ x.part \subseteq x.keys /\ x.keys \subseteq Keys /\ x.again \subseteq x.keys /\ x.out = "none"
    BY <1>1, Adding
<1>3. setup.arc /\ x.part \subseteq stored \cup doubtful
    BY <1>1, <1>2 DEF Formed, RightAdd
<1>4. /\ arc' \in [Keys -> {"none", "yes", "no"}]
      /\ \A k \in Keys : IF k \in x.part THEN arc'[k] \in {"yes", "none"} ELSE arc'[k] \in {arc[k], "none"}
    BY <1>1, <1>2, Remembered DEF IInv, Types
<1>5. ASSUME NEW d \in Clients, d # c, Under(call[d]), call[d].op \in Writes, NEW k \in call[d].keys \ doubtful
      PROVE  arc'[k] \in {arc[k], "none"}
    BY <1>1, <1>2, <1>3, <1>4, <1>5, InDoubt DEF IInv, Types, Calls
<1>6. ArcInv' /\ Unbuilt'
    BY <1>1, <1>3, <1>4 DEF IInv, ArcInv, Unbuilt, history
<1>7. PICK r \in Calls :
      /\ r = At(x, "mark") /\ r.op = x.op /\ r.keys = x.keys /\ r.pass = x.pass /\ r.part = x.part
      /\ r.look = x.look /\ r.again = x.again /\ r.out = x.out /\ r.at = "mark"
    BY <1>2, AtFields DEF Places
<1>8. Step(c, r) /\ call'[c] = r /\ may'[c] = may[c] /\ crossed'[c] = crossed[c]
    BY <1>1, <1>7, Stepped DEF IInv, Types, history
<1>9. \A k \in x.keys : /\ TRUE \in possible[k] /\ k \in stored \cup crossed[c] \cup doubtful
                        /\ arc'[k] # "no" \/ k \in doubtful
    BY <1>1, <1>2, <1>3, <1>4 DEF RightAdd, Settled
<1>10. Formed(r)'
    BY <1>1, <1>2, <1>7 DEF Formed, Idle, Under
<1>11. RightAdd(r, crossed[c])' /\ RightRead(r, may[c])' /\ RightNote(r)' /\ RightDel(r, may[c], crossed[c])'
    BY <1>1, <1>2, <1>7, <1>9 DEF RightAdd, RightRead, RightNote, RightDel, Settled, history
<1>12. Right(call[c], may[c], crossed[c])'
    BY <1>8, <1>10, <1>11, RightNow
<1> QED BY <1>1, <1>4, <1>5, <1>6, <1>7, <1>8, <1>12, StepKeeps DEF IInv, Types

-----------------------------------------------------------------------------
(* The steps that change the datastore or end a write *)

\* What an add writes disturbs nobody: the blocks it adds were possible, deletes of
\* them know that they are crossed, and what may be remembered about them is in doubt.
LEMMA GrowKeeps ==
    ASSUME IInv, NEW c \in Clients, NEW r \in Calls, Step(c, r), Under(call[c]),
           r.op = call[c].op, r.keys = call[c].keys,
           UNCHANGED <<setup, caches, history>>, faults' \in 0 .. MaxFaults,
           stored' \in SUBSET Keys, stored \subseteq stored',
           \A k \in stored' \ stored : call[c].op = "add" /\ k \in call[c].keys,
           Right(call[c], may[c], crossed[c])'
    PROVE  IInv'
<1> DEFINE x == call[c]
<1>1. /\ call' \in [Clients -> Calls] /\ call'[c] = r
      /\ \A d \in Clients : d # c => call'[d] = call[d]
    BY Stepped DEF IInv, Types
<1>2. Types' /\ Unbuilt'
    BY <1>1 DEF IInv, Types, Unbuilt, caches, history
<1>3. Overlaps' /\ Doubts'
    <2>1. \A d \in Clients : may'[d] = may[d] /\ crossed'[d] = crossed[d]
        BY DEF history
    <2> QED BY <2>1, OverlapsKeep DEF IInv, history
<1>4. \A k \in stored' \ stored : TRUE \in possible[k]
    BY DEF IInv, Right, RightAdd
<1>5. StoreInv' /\ BloomInv' /\ ArcInv'
    BY <1>4 DEF IInv, StoreInv, BloomInv, ArcInv, Allowed, caches, history
<1>6. ASSUME NEW d \in Clients, d # c PROVE Right(call[d], may[d], crossed[d])'
    <2>1. PICK y \in Calls : y = call[d] /\ call'[d] = y
        BY <1>1, <1>6 DEF IInv, Types
    <2>2. Formed(y)'
        BY <2>1 DEF IInv, Right, Formed
    <2>3. SUFFICES ASSUME Under(y)
                   PROVE  RightAdd(y, crossed[d])' /\ RightRead(y, may[d])' /\ RightNote(y)' /\ RightDel(y, may[d], crossed[d])'
        BY <2>1, <2>2, RightNow
    <2>4. /\ RightAdd(y, crossed[d]) /\ RightRead(y, may[d]) /\ RightNote(y) /\ RightDel(y, may[d], crossed[d])
          /\ y.at = "note" => setup.arc
        BY <2>1, <2>3 DEF IInv, Right, Formed
    <2>5. ASSUME NEW k \in y.keys, k \in stored' \ stored
          PROVE  TRUE \in may[d] /\ (setup.arc => k \in doubtful)
        BY <1>6, <2>1, <2>3, <2>5 DEF IInv, Overlaps, Map!Effects, Writes
    <2>6. RightAdd(y, crossed[d])' /\ RightRead(y, may[d])'
        BY <2>4 DEF RightAdd, RightRead, Settled, caches, history
    <2>7. RightNote(y)'
        <3>1. Under(y) /\ y.at = "note" /\ y.pass \in {"has", "get"} => y.part \subseteq y.keys
            BY <2>1, Waiting
        <3> QED BY <2>3, <2>4, <2>5, <3>1 DEF RightNote, history
    <2>8. RightDel(y, may[d], crossed[d])'
        BY <2>4, <2>5 DEF RightDel, Allowed, caches, history
    <2> QED BY <2>6, <2>7, <2>8
<1> QED BY <1>2, <1>3, <1>5, <1>6 DEF IInv

LEMMA WriteKeeps == ASSUME IInv, NEW c \in Clients, Write(c) PROVE IInv'
<1> DEFINE x == call[c]
           at == IF setup.arc THEN "note" ELSE "mark"
<1>1. /\ x.at = "store" /\ x.pass = "put" /\ stored' = stored \cup x.part /\ Step(c, At(x, at)) /\ Under(x)
      /\ UNCHANGED <<setup, caches, history, faults>>
    BY DEF Write, Move, Under
<1>2. /\ x.op = "add" /\ Formed(x) /\ RightAdd(x, crossed[c]) /\ x \in Calls
      /\ x.part \subseteq x.keys /\ x.keys \subseteq Keys /\ x.again \subseteq x.keys /\ x.out = "none"
    BY <1>1, Adding
<1>3. PICK r \in Calls :
      /\ r = At(x, at) /\ r.op = x.op /\ r.keys = x.keys /\ r.pass = x.pass /\ r.part = x.part
      /\ r.look = x.look /\ r.again = x.again /\ r.out = x.out /\ r.at = at
    BY <1>2, AtFields DEF Places
<1>4. Step(c, r) /\ call'[c] = r /\ may'[c] = may[c] /\ crossed'[c] = crossed[c]
    BY <1>1, <1>3, Stepped DEF IInv, Types, history
<1>5. Formed(r)'
    BY <1>1, <1>2, <1>3 DEF Formed, Idle, Under
<1>6. ASSUME NEW k \in x.keys
      PROVE  /\ TRUE \in possible[k]
             /\ Settled(r, k) => /\ k \in stored' \cup crossed[c] \cup doubtful
                                 /\ arc[k] # "no" \/ k \in doubtful
    <2>1. /\ TRUE \in possible[k]
          /\ Settled(x, k) => k \in stored \cup crossed[c] \cup doubtful /\ (arc[k] # "no" \/ k \in doubtful)
        BY <1>2 DEF RightAdd
    <2>2. CASE k \notin x.part
        BY <1>1, <1>2, <2>1, <2>2 DEF Settled
    <2>3. CASE k \in x.part /\ setup.arc
        BY <1>1, <1>2, <1>3, <2>1, <2>3 DEF Settled
    <2>4. CASE k \in x.part /\ ~setup.arc
        BY <1>1, <1>2, <2>1, <2>4 DEF IInv, Unbuilt
    <2> QED BY <2>2, <2>3, <2>4
<1>7. RightAdd(r, crossed[c])' /\ RightRead(r, may[c])' /\ RightNote(r)' /\ RightDel(r, may[c], crossed[c])'
    BY <1>1, <1>2, <1>3, <1>4, <1>6 DEF RightAdd, RightRead, RightNote, RightDel, Settled, caches, history
<1>8. Right(call[c], may[c], crossed[c])'
    BY <1>4, <1>5, <1>7, RightNow
<1> QED BY <1>1, <1>2, <1>3, <1>4, <1>8, GrowKeeps DEF IInv, Types

LEMMA StoreFailsKeeps == ASSUME IInv, NEW c \in Clients, StoreFails(c) PROVE IInv'
<1> DEFINE x == call[c]
<1>1. /\ x.at = "store" /\ Step(c, Answered(x, "error")) /\ faults' \in 0 .. MaxFaults /\ Under(x)
      /\ UNCHANGED <<setup, caches, history>>
    BY CachedStoreAssumption DEF StoreFails, Say, IInv, Types, Under
<1>2. x \in Calls /\ x.op \in Ops \ {"idle"}
    BY <1>1 DEF IInv, Types, Right, Formed, Idle, Calls
<1>3. PICK r \in Calls :
      /\ r = Answered(x, "error") /\ r.op = x.op /\ r.keys = x.keys /\ r.out = "error" /\ r.at = "reply" /\ ~Under(r)
    BY <1>2, AnsweredFields
<1>4. Step(c, r) /\ call'[c] = r
    BY <1>1, <1>3, Stepped DEF IInv, Types
<1>5. Right(call[c], may[c], crossed[c])'
    <2>1. Formed(r)'
        BY <1>2, <1>3 DEF Formed, Under
    <2> QED BY <1>3, <1>4, <2>1, RightNow
<1>6. CASE x.pass = "put"
    <2>1. x.op = "add" /\ x.part \subseteq x.keys /\ x.keys \subseteq Keys
        BY <1>1, <1>6, Adding
    <2>2. PICK some \in SUBSET x.part : stored' = stored \cup some
        BY <1>6 DEF StoreFails
    <2> QED BY <1>1, <1>3, <1>4, <1>5, <2>1, <2>2, GrowKeeps DEF IInv, Types
<1>7. CASE x.pass # "put"
    <2>1. stored' = stored
        BY <1>7 DEF StoreFails
    <2> QED BY <1>1, <1>3, <1>4, <1>5, <2>1, GrowKeeps DEF IInv, Types
<1> QED BY <1>6, <1>7

\* A write that erases its key, or notes what it did, or has succeeded and settles the
\* keys that nothing has crossed: an opposite write that is under way is crossed, a
\* read had the answer among the possible ones, and behind an ARC cache all the rest is in doubt.
LEMMA EndKeeps ==
    ASSUME IInv, NEW c \in Clients, NEW r \in Calls, Step(c, r), Under(call[c]), call[c].op \in Writes,
           r.op = call[c].op, r.keys = call[c].keys,
           UNCHANGED <<setup, active, scan, may, crossed, doubtful, faults>>,
           stored' \in SUBSET Keys, stored' \subseteq stored,
           \A k \in stored \ stored' : call[c].op = "del" /\ k \in call[c].keys,
           possible' \in [Keys -> SUBSET BOOLEAN],
           \A k \in Keys : \/ possible'[k] = possible[k]
                           \/ /\ k \in call[c].keys \ (crossed[c] \cup doubtful)
                              /\ possible'[k] = Map!Effects(call[c].op)
                              /\ call[c].op = "add" => k \in stored' /\ (setup.bloom => k \in bloom')
                              /\ call[c].op = "del" => k \notin stored',
           bloom' \in SUBSET Keys, bloom \subseteq bloom',
           arc' \in [Keys -> {"none", "yes", "no"}], setup.arc \/ arc' = arc,
           \A k \in Keys \ call[c].keys : arc'[k] \in {arc[k], "none"},
           \A k \in call[c].keys \ doubtful :
               IF call[c].op = "add" THEN arc'[k] # "no" /\ arc'[k] \in {arc[k], "none"} ELSE arc'[k] # "yes",
           Right(call[c], may[c], crossed[c])'
    PROVE  IInv'
<1> DEFINE x == call[c]
<1>1. /\ call' \in [Clients -> Calls] /\ call'[c] = r /\ x.keys \subseteq Keys
      /\ \A d \in Clients : d # c => call'[d] = call[d]
    BY Stepped DEF IInv, Types, Calls
<1>2. RightAdd(x, crossed[c]) /\ RightDel(x, may[c], crossed[c]) /\ Formed(x)
    BY DEF IInv, Right
<1>3. \A k \in x.keys : Map!Effects(x.op) \subseteq possible[k]
    BY <1>2 DEF RightAdd, RightDel, Map!Effects, Writes
<1>4. Types' /\ Unbuilt'
    BY <1>1 DEF IInv, Types, Unbuilt
<1>5. Overlaps' /\ Doubts'
    <2>1. \A k \in doubtful : possible'[k] = possible[k]
        BY DEF IInv, Types
    <2> QED BY <2>1, OverlapsKeep DEF IInv
<1>6. \A k \in stored \ stored' : FALSE \in possible[k]
    BY <1>2 DEF RightDel
<1>7. StoreInv'
    <2>1. SUFFICES ASSUME NEW k \in Keys PROVE IF k \in stored' THEN TRUE \in possible'[k] ELSE FALSE \in possible'[k]
        BY DEF StoreInv, Allowed
    <2>2. CASE possible'[k] = possible[k]
        BY <1>6, <2>2 DEF IInv, StoreInv, Allowed
    <2>3. CASE possible'[k] # possible[k]
        BY <2>3 DEF Map!Effects, Writes
    <2> QED BY <2>2, <2>3
<1>8. BloomInv'
    <2>1. SUFFICES ASSUME setup.bloom, NEW k \in Keys PROVE FALSE \in possible'[k] \/ k \in bloom' \cup scan
        BY DEF BloomInv
    <2>2. CASE possible'[k] = possible[k]
        BY <2>1, <2>2 DEF IInv, BloomInv
    <2>3. CASE possible'[k] # possible[k]
        BY <2>1, <2>3 DEF Map!Effects, Writes
    <2> QED BY <2>2, <2>3
<1>9. ArcInv'
    <2>1. SUFFICES ASSUME NEW k \in Keys \ doubtful
                   PROVE  (arc'[k] = "yes" => k \in stored') /\ (arc'[k] = "no" => FALSE \in possible'[k])
        BY DEF ArcInv
    <2>2. (arc[k] = "yes" => k \in stored) /\ (arc[k] = "no" => FALSE \in possible[k])
        BY <2>1 DEF IInv, ArcInv
    <2>3. CASE k \notin x.keys
        BY <1>1, <2>1, <2>2, <2>3
    <2>4. CASE k \in x.keys /\ x.op = "add"
        BY <2>1, <2>2, <2>4
    <2>5. CASE k \in x.keys /\ x.op = "del"
        BY <1>2, <2>1, <2>5 DEF RightDel, Map!Effects
    <2> QED BY <2>3, <2>4, <2>5 DEF Writes
<1>10. ASSUME NEW d \in Clients, d # c PROVE Right(call[d], may[d], crossed[d])'
    <2>1. PICK y \in Calls : y = call[d] /\ call'[d] = y /\ y.keys \subseteq Keys
        BY <1>1, <1>10 DEF IInv, Types, Calls
    <2>2. Formed(y)'
        BY <2>1 DEF IInv, Right, Formed
    <2>3. SUFFICES ASSUME Under(y)
                   PROVE  RightAdd(y, crossed[d])' /\ RightRead(y, may[d])' /\ RightNote(y)' /\ RightDel(y, may[d], crossed[d])'
        BY <2>1, <2>2, RightNow
    <2>4. /\ RightAdd(y, crossed[d]) /\ RightRead(y, may[d]) /\ RightNote(y) /\ RightDel(y, may[d], crossed[d])
          /\ y.at = "note" => setup.arc
        BY <2>1, <2>3 DEF IInv, Right, Formed
    <2>5. ASSUME NEW k \in y.keys, k \in x.keys
          PROVE  /\ Map!Effects(x.op) \subseteq may[d]
                 /\ setup.arc => k \in doubtful
                 /\ y.op \in Writes \ {x.op} => k \in crossed[c] /\ k \in crossed[d]
        BY <1>10, <2>1, <2>3, <2>5 DEF IInv, Overlaps
    <2>6. \A k \in y.keys \ doubtful : arc'[k] \in {arc[k], "none"}
        BY <2>1, <2>5
    <2>7. \A k \in y.keys : y.op \in Writes /\ Map!Effects(y.op) \subseteq possible[k] => Map!Effects(y.op) \subseteq possible'[k]
        BY <2>1, <2>5
    <2>8. ASSUME NEW k \in y.keys, k \in stored \ stored'
          PROVE  /\ FALSE \in may[d]
                 /\ setup.arc => k \in doubtful
                 /\ y.op = "add" => k \in crossed[d]
        BY <2>5, <2>8 DEF Map!Effects, Writes
    <2>9. y.at = "note" => y.part \subseteq y.keys
        BY <2>1, <2>3, Waiting, Adding
    <2>10. RightAdd(y, crossed[d])'
        <3>1. SUFFICES ASSUME y.op = "add"
                       PROVE  /\ \A k \in y.keys : TRUE \in possible'[k]
                              /\ \A k \in y.keys : Settled(y, k) => /\ k \in stored' \/ k \in crossed[d] \cup doubtful
                                                                    /\ arc'[k] # "no" \/ k \in doubtful
                              /\ y.at = "note" /\ y.pass = "put" => y.part \subseteq stored' \cup doubtful
            BY DEF RightAdd, Settled
        <3>2. \A k \in y.keys : TRUE \in possible'[k]
            BY <2>4, <2>7, <3>1 DEF RightAdd, Map!Effects, Writes
        <3>3. \A k \in y.keys : Settled(y, k) => /\ k \in stored' \/ k \in crossed[d] \cup doubtful
                                                 /\ arc'[k] # "no" \/ k \in doubtful
            BY <2>4, <2>6, <2>8, <3>1 DEF RightAdd
        <3>4. y.at = "note" /\ y.pass = "put" => y.part \subseteq stored' \cup doubtful
            BY <2>4, <2>8, <2>9, <3>1 DEF RightAdd
        <3> QED BY <3>2, <3>3, <3>4
    <2>11. RightRead(y, may[d])'
        <3>1. \A k \in Keys : possible'[k] \subseteq possible[k]
            BY <1>3
        <3> QED BY <2>1, <2>4, <3>1 DEF RightRead
    <2>12. RightNote(y)'
        BY <2>4, <2>8, <2>9 DEF RightNote
    <2>13. RightDel(y, may[d], crossed[d])'
        <3>1. SUFFICES ASSUME y.op = "del", NEW k \in y.keys
                       PROVE  /\ FALSE \in possible'[k]
                              /\ y.at \in {"bloom", "arc", "remove", "store"} =>
                                  /\ Allowed(k, may[d])'
                                  /\ FALSE \in may[d] \/ ~setup.bloom \/ k \in bloom' \cup scan
                                  /\ arc'[k] = "no" => FALSE \in may[d] \/ k \in doubtful
                              /\ y.at \in {"store", "note"} => arc'[k] # "yes" \/ k \in doubtful
                              /\ y.at = "note" => (k \notin stored' \/ k \in doubtful) /\ (y.found \/ FALSE \in may[d])
            BY DEF RightDel, Allowed
        <3>2. FALSE \in possible'[k]
            BY <2>4, <2>7, <3>1 DEF RightDel, Map!Effects, Writes
        <3>3. y.at \in {"bloom", "arc", "remove", "store"} => Allowed(k, may[d])'
            BY <2>4, <2>8, <3>1 DEF RightDel, Allowed
        <3> QED BY <2>4, <2>6, <3>1, <3>2, <3>3 DEF RightDel
    <2> QED BY <2>10, <2>11, <2>12, <2>13
<1> QED BY <1>4, <1>5, <1>7, <1>8, <1>9, <1>10 DEF IInv

\* What a call does that ends, and what it settles if it has succeeded.
LEMMA SayDoes ==
    ASSUME IInv, NEW c \in Clients, Under(call[c]), NEW out \in {"yes", "no", "ok", "missing", "error"}, Say(c, out)
    PROVE  \E r \in Calls : /\ Step(c, r) /\ r.op = call[c].op /\ r.keys = call[c].keys /\ r.out = out
                            /\ ~Under(r) /\ r # Idle /\ Right(call[c], may[c], crossed[c])'
<1> DEFINE x == call[c]
<1>1. x \in Calls /\ x.op # "idle"
    BY DEF IInv, Types, Right, Formed, Idle, Under
<1>2. PICK r \in Calls : /\ r = Answered(x, out) /\ r.op = x.op /\ r.keys = x.keys /\ r.out = out
                         /\ r.at = "reply" /\ ~Under(r)
    BY <1>1, AnsweredFields
<1>3. Step(c, r) /\ call'[c] = r
    BY <1>2, Stepped DEF Say, IInv, Types
<1>4. Formed(r)'
    BY <1>1, <1>2 DEF Formed, Under
<1>5. Right(call[c], may[c], crossed[c])'
    BY <1>2, <1>3, <1>4, RightNow
<1> QED BY <1>1, <1>2, <1>3, <1>5, IdleCall

LEMMA SettlesDoes ==
    ASSUME IInv, NEW c \in Clients, Map!Settles(c)
    PROVE  /\ possible' \in [Keys -> SUBSET BOOLEAN]
           /\ \A k \in Keys : possible'[k] = IF k \in call[c].keys \ (crossed[c] \cup doubtful)
                                               THEN Map!Effects(call[c].op) ELSE possible[k]
BY DEF Map!Settles, Map!Effects, IInv, Types

LEMMA EraseKeeps == ASSUME IInv, NEW c \in Clients, Erase(c) PROVE IInv'
<1> DEFINE x == call[c]
<1>1. /\ x.at = "store" /\ x.pass = "del" /\ stored' = stored \ x.keys /\ Under(x)
      /\ UNCHANGED <<setup, caches, may, crossed, doubtful, faults>>
    BY DEF Erase, Under
<1>2. /\ x.op = "del" /\ Formed(x) /\ Right(x, may[c], crossed[c]) /\ RightDel(x, may[c], crossed[c])
      /\ x \in Calls /\ x.out = "none" /\ x.keys \subseteq Keys
    BY <1>1, Waiting
<1>3. \E k \in x.keys : x.keys = {k} /\ x.part = {k} /\ Key(c) = k
    BY <1>1, Waiting
<1>4. \A k \in x.keys : Allowed(k, may[c]) /\ (arc[k] # "yes" \/ k \in doubtful) /\ FALSE \in possible[k]
    BY <1>1, <1>2 DEF RightDel
<1>5. ASSUME NEW r \in Calls, Step(c, r), r.op = x.op, r.keys = x.keys, Right(call[c], may[c], crossed[c])',
             possible' \in [Keys -> SUBSET BOOLEAN],
             \A k \in Keys : \/ possible'[k] = possible[k]
                             \/ k \in x.keys \ (crossed[c] \cup doubtful) /\ possible'[k] = Map!Effects(x.op)
      PROVE  IInv'
    BY <1>1, <1>2, <1>4, <1>5, EndKeeps DEF IInv, Types, Writes, caches
<1>6. CASE setup.arc /\ Step(c, Noting(x, Key(c) \in stored)) /\ UNCHANGED possible
    <2>1. PICK found \in BOOLEAN : found <=> Key(c) \in stored
        OBVIOUS
    <2>2. Noting(x, Key(c) \in stored) = Noting(x, found)
        BY <2>1
    <2>3. PICK r \in Calls :
          /\ r = Noting(x, found) /\ r.op = x.op /\ r.keys = x.keys /\ r.pass = x.pass
          /\ r.part = x.part /\ r.look = x.look /\ r.again = x.again /\ r.found = found
          /\ r.out = x.out /\ r.at = "note"
        BY <1>2, NotingFields
    <2>4. Step(c, r) /\ call'[c] = r /\ may'[c] = may[c] /\ crossed'[c] = crossed[c]
        BY <1>1, <1>6, <2>2, <2>3, Stepped DEF IInv, Types
    <2>5. Formed(r)'
        BY <1>1, <1>2, <1>3, <1>6, <2>3 DEF Formed, Idle, Under
    <2>6. RightAdd(r, crossed[c])' /\ RightRead(r, may[c])' /\ RightNote(r)' /\ RightDel(r, may[c], crossed[c])'
        BY <1>1, <1>2, <1>3, <1>4, <1>6, <2>1, <2>3, <2>4 DEF RightAdd, RightRead, RightNote, RightDel, Allowed, caches
    <2>7. Right(call[c], may[c], crossed[c])'
        BY <2>4, <2>5, <2>6, RightNow
    <2>8. possible' \in [Keys -> SUBSET BOOLEAN] /\ \A k \in Keys : possible'[k] = possible[k]
        BY <1>6 DEF IInv, Types
    <2> QED BY <1>5, <2>3, <2>4, <2>7, <2>8
<1>7. CASE Succeed(c)
    <2>1. Say(c, "ok") /\ Map!Settles(c)
        BY <1>7 DEF Succeed
    <2>2. PICK r \in Calls : Step(c, r) /\ r.op = x.op /\ r.keys = x.keys /\ Right(call[c], may[c], crossed[c])'
        BY <1>1, <2>1, SayDoes
    <2> QED BY <1>5, <2>1, <2>2, SettlesDoes
<1>8. CASE Key(c) \notin stored /\ NotFound(c)
    <2>1. PICK r \in Calls : Step(c, r) /\ Back(x, r)
        BY <1>1, <1>2, <1>8, NotFoundBack DEF IInv
    <2>2. possible' = possible
        BY <1>8 DEF NotFound
    <2>3. Right(call[c], may[c], crossed[c])'
        BY <1>1, <1>2, <2>1, <2>2, Stepped, BackRight DEF IInv, Types
    <2>4. possible' \in [Keys -> SUBSET BOOLEAN] /\ \A k \in Keys : possible'[k] = possible[k]
        BY <2>2 DEF IInv, Types
    <2> QED BY <1>5, <2>1, <2>3, <2>4 DEF Back
<1> QED BY <1>6, <1>7, <1>8 DEF Erase

LEMMA NoteDeleteKeeps == ASSUME IInv, NEW c \in Clients, NoteDelete(c) PROVE IInv'
<1> DEFINE x == call[c]
<1>1. /\ x.at = "note" /\ x.pass = "del" /\ Remember(x.part, "no") /\ Under(x)
      /\ UNCHANGED <<setup, stored, bloom, active, scan, may, crossed, doubtful, faults>>
    BY DEF NoteDelete, Under
<1>2. /\ x.op = "del" /\ Formed(x) /\ Right(x, may[c], crossed[c]) /\ RightDel(x, may[c], crossed[c])
      /\ x \in Calls /\ x.keys \subseteq Keys /\ x.part = x.keys
    BY <1>1, Waiting
<1>3. setup.arc /\ \A k \in x.keys : k \notin stored \/ k \in doubtful
    BY <1>1, <1>2 DEF Formed, RightDel
<1>4. /\ arc' \in [Keys -> {"none", "yes", "no"}]
      /\ \A k \in Keys : IF k \in x.keys THEN arc'[k] \in {"no", "none"} ELSE arc'[k] \in {arc[k], "none"}
    BY <1>1, <1>2, Remembered DEF IInv, Types
<1>5. ASSUME NEW r \in Calls, Step(c, r), r.op = x.op, r.keys = x.keys, Right(call[c], may[c], crossed[c])',
             possible' \in [Keys -> SUBSET BOOLEAN],
             \A k \in Keys : \/ possible'[k] = possible[k]
                             \/ k \in x.keys \ (crossed[c] \cup doubtful) /\ possible'[k] = Map!Effects(x.op)
      PROVE  IInv'
    BY <1>1, <1>2, <1>3, <1>4, <1>5, EndKeeps DEF IInv, Types, Writes
<1>6. CASE Succeed(c)
    <2>1. Say(c, "ok") /\ Map!Settles(c)
        BY <1>6 DEF Succeed
    <2>2. PICK r \in Calls : Step(c, r) /\ r.op = x.op /\ r.keys = x.keys /\ Right(call[c], may[c], crossed[c])'
        BY <1>1, <2>1, SayDoes
    <2> QED BY <1>5, <2>1, <2>2, SettlesDoes
<1>7. CASE NotFound(c)
    <2>1. PICK r \in Calls : Step(c, r) /\ Back(x, r)
        BY <1>1, <1>2, <1>7, NotFoundBack DEF IInv
    <2>2. possible' = possible
        BY <1>7 DEF NotFound
    <2>3. Right(call[c], may[c], crossed[c])'
        BY <1>1, <1>2, <2>1, <2>2, Stepped, BackRight DEF IInv, Types
    <2>4. possible' \in [Keys -> SUBSET BOOLEAN] /\ \A k \in Keys : possible'[k] = possible[k]
        BY <2>2 DEF IInv, Types
    <2> QED BY <1>5, <2>1, <2>3, <2>4 DEF Back
<1> QED BY <1>6, <1>7 DEF NoteDelete

LEMMA MarkKeeps == ASSUME IInv, NEW c \in Clients, Mark(c) PROVE IInv'
<1> DEFINE x == call[c]
<1>1. /\ x.at = "mark" /\ UNCHANGED <<setup, stored, arc, active, scan, may, crossed, doubtful, faults>> /\ Under(x)
      /\ bloom' \in SUBSET Keys /\ bloom \subseteq bloom' /\ (setup.bloom => x.keys \subseteq bloom')
    BY DEF Mark, AddToBloom, IInv, Types, Calls, Under
<1>2. /\ x.op = "add" /\ Formed(x) /\ RightAdd(x, crossed[c]) /\ x \in Calls /\ x.pass = "put"
      /\ x.part \subseteq x.keys /\ x.keys \subseteq Keys /\ x.again \subseteq x.keys /\ x.look \subseteq x.keys
      /\ x.out = "none"
    BY <1>1, Adding DEF IInv, Right, Formed
<1>3. \A k \in x.keys : /\ TRUE \in possible[k] /\ k \in stored \cup crossed[c] \cup doubtful
                        /\ arc[k] # "no" \/ k \in doubtful
    BY <1>1, <1>2 DEF RightAdd, Settled
<1>4. CASE Succeed(c)
    <2>1. Say(c, "ok") /\ Map!Settles(c)
        BY <1>4 DEF Succeed
    <2>2. PICK r \in Calls : Step(c, r) /\ r.op = x.op /\ r.keys = x.keys /\ Right(call[c], may[c], crossed[c])'
        BY <1>1, <2>1, SayDoes
    <2>3. /\ possible' \in [Keys -> SUBSET BOOLEAN]
          /\ \A k \in Keys : \/ possible'[k] = possible[k]
                             \/ k \in x.keys \ (crossed[c] \cup doubtful) /\ possible'[k] = Map!Effects(x.op)
        BY <2>1, SettlesDoes
    <2> QED BY <1>1, <1>2, <1>3, <2>2, <2>3, EndKeeps DEF IInv, Types, Writes
<1>5. ASSUME NEW k \in x.again, Step(c, PuttingAgain(x, k)), UNCHANGED possible PROVE IInv'
    <2>1. PICK r \in Calls :
          /\ r = PuttingAgain(x, k) /\ r.op = x.op /\ r.keys = x.keys /\ r.pass = x.pass /\ r.part = {k}
          /\ r.look = x.look /\ r.again = x.again \ {k} /\ r.out = x.out /\ r.at = Below
        BY <1>2, PuttingAgainFields
    <2>2. Step(c, r) /\ call'[c] = r /\ may'[c] = may[c] /\ crossed'[c] = crossed[c]
        BY <1>1, <1>5, <2>1, Stepped DEF IInv, Types
    <2>3. Formed(r)'
        BY <1>1, <1>2, <2>1 DEF Formed, Idle, Under, Below
    <2>4. RightAdd(r, crossed[c])' /\ RightRead(r, may[c])' /\ RightNote(r)' /\ RightDel(r, may[c], crossed[c])'
        BY <1>1, <1>2, <1>3, <1>5, <2>1, <2>2, BelowPlaces DEF RightAdd, RightRead, RightNote, RightDel, Settled
    <2>5. Right(call[c], may[c], crossed[c])'
        BY <2>2, <2>3, <2>4, RightNow
    <2>6. ArcInv' /\ Unbuilt'
        BY <1>1, <1>5 DEF IInv, ArcInv, Unbuilt
    <2>7. UNCHANGED history
        BY <1>1, <1>5 DEF history
    <2> QED BY <1>1, <2>1, <2>2, <2>5, <2>6, <2>7, StepKeeps DEF IInv, Types
<1> QED BY <1>4, <1>5 DEF Mark

\* Nothing is claimed of a goroutine that calls nothing.
LEMMA IdleRight == ASSUME NEW CONSTANT c, call'[c] = Idle PROVE Right(call[c], may[c], crossed[c])'
<1>1. PICK r : r = Idle OBVIOUS
<1>2. Formed(r)'
    BY <1>1 DEF Formed, Idle, Under
<1> QED BY <1>1, <1>2, IdleCall, RightNow

LEMMA ReturnKeeps == ASSUME IInv, NEW c \in Clients, Return(c) PROVE IInv'
<1>1. /\ Step(c, Idle) /\ UNCHANGED <<setup, stored, caches, possible, doubtful, faults>>
      /\ may' = [may EXCEPT ![c] = {}] /\ crossed' = [crossed EXCEPT ![c] = {}]
    BY DEF Return
<1>2. /\ call' \in [Clients -> Calls] /\ call'[c] = Idle /\ \A d \in Clients : d # c => call'[d] = call[d]
    BY <1>1, IdleCall, Stepped DEF IInv, Types
<1>3. \A d \in Clients : d # c => may'[d] = may[d] /\ crossed'[d] = crossed[d]
    BY <1>1 DEF IInv, Types
<1>4. Types' /\ Unbuilt'
    BY <1>1, <1>2 DEF IInv, Types, Unbuilt, caches
<1>5. Overlaps' /\ Doubts'
    BY <1>1, <1>3, IdleCall, OverlapsKeep DEF IInv
<1>6. StoreInv' /\ BloomInv' /\ ArcInv'
    BY <1>1 DEF IInv, StoreInv, BloomInv, ArcInv, Allowed, caches
<1>7. ASSUME NEW d \in Clients PROVE Right(call[d], may[d], crossed[d])'
    <2>1. CASE d = c
        BY <1>2, <2>1, IdleRight
    <2>2. CASE d # c
        <3>1. arc' = arc /\ bloom' = bloom /\ scan' = scan
            BY <1>1 DEF caches
        <3> QED BY <1>1, <1>2, <1>3, <2>2, <3>1, OtherRight DEF IInv
    <2> QED BY <2>1, <2>2
<1> QED BY <1>4, <1>5, <1>6, <1>7 DEF IInv

-----------------------------------------------------------------------------
(* The beginning of calls *)

\* What BlockMap calls the keys that a call under way shares with others.
LEMMA Met ==
    ASSUME IInv, NEW d \in Clients, NEW ops \in SUBSET {"has", "get", "add", "del"}, NEW ks \in SUBSET Keys
    PROVE  /\ Map!Meets(d, ops, ks) \subseteq Keys
           /\ Under(call[d]) /\ call[d].op \in ops => Map!Meets(d, ops, ks) = call[d].keys \cap ks
<1>1. call[d] \in Calls /\ Formed(call[d])
    BY DEF IInv, Types, Right
<1> QED BY <1>1 DEF Map!Meets, Formed, Under, Calls

\* A call that begins makes its effect possible for its keys, and whoever is under way
\* about them may see it; what has met is in doubt or crossed.
LEMMA BeginsDoes ==
    ASSUME IInv, NEW c \in Clients, NEW op \in {"has", "get", "add", "del"}, NEW ks \in SUBSET Keys,
           Map!Begins(c, op, ks)
    PROVE  /\ doubtful \subseteq doubtful' /\ doubtful' \in SUBSET Keys
           /\ possible' \in [Keys -> SUBSET BOOLEAN] /\ \A k \in Keys : possible[k] \subseteq possible'[k]
           /\ \A k \in doubtful' : possible'[k] = BOOLEAN
           /\ \A k \in ks \ doubtful' : possible'[k] = possible[k] \cup Map!Effects(op)
           /\ \A k \in Keys \ (ks \cup doubtful') : possible'[k] = possible[k]
           /\ may' \in [Clients -> SUBSET BOOLEAN]
           /\ \A k \in ks : IF k \in doubtful' THEN may'[c] = BOOLEAN ELSE possible[k] \subseteq may'[c]
           /\ \A d \in Clients : d # c =>
                /\ may[d] \subseteq may'[d]
                /\ call[d].keys \cap ks # {} => Map!Effects(op) \subseteq may'[d]
                /\ call[d].keys \cap doubtful' # {} => may'[d] = BOOLEAN
           /\ crossed' \in [Clients -> SUBSET Keys] /\ \A d \in Clients : d # c => crossed[d] \subseteq crossed'[d]
           /\ \A d \in Clients : \A k \in call[d].keys \cap ks :
                d # c /\ Under(call[d]) =>
                    /\ setup.arc /\ (op \in Writes \/ call[d].op \in Writes) => k \in doubtful'
                    /\ op \in Writes /\ call[d].op \in Writes \ {op} => k \in crossed'[c] /\ k \in crossed'[d]
<1> DEFINE ops == IF op \in Map!Writes THEN Map!Reads \cup Map!Writes ELSE Map!Writes
           others == Map!Writes \ {op}
<1>a. /\ ops \in SUBSET {"has", "get", "add", "del"} /\ others \in SUBSET {"has", "get", "add", "del"}
      /\ Map!Writes = Writes /\ Map!Effects(op) \in SUBSET BOOLEAN
    BY DEF Map!Writes, Map!Reads, Writes, Map!Effects
<1>b. \A d \in Clients : call[d] \in Calls /\ call[d].keys \subseteq Keys
    BY DEF IInv, Types, Calls
<1>1. /\ doubtful' = doubtful \cup (IF setup.arc THEN UNION {Map!Meets(d, ops, ks) : d \in Clients} ELSE {})
      /\ possible' = [k \in Keys |-> IF k \in doubtful' THEN BOOLEAN
                                     ELSE IF k \in ks THEN possible[k] \cup Map!Effects(op) ELSE possible[k]]
      /\ may' = [d \in Clients |->
                   IF d = c THEN UNION {IF k \in doubtful' THEN BOOLEAN ELSE possible[k] : k \in ks}
                   ELSE may[d] \cup (IF call[d].keys \cap ks # {} THEN Map!Effects(op) ELSE {})
                               \cup (IF call[d].keys \cap doubtful' # {} THEN BOOLEAN ELSE {})]
      /\ crossed' = [d \in Clients |->
                   IF op \notin Map!Writes THEN crossed[d]
                   ELSE IF d = c THEN UNION {Map!Meets(e, others, ks) : e \in Clients}
                   ELSE crossed[d] \cup Map!Meets(d, others, ks)]
    BY DEF Map!Begins
<1>c. \A d \in Clients : Map!Meets(d, ops, ks) \subseteq Keys /\ Map!Meets(d, others, ks) \subseteq Keys
    BY <1>a, Met
<1>d. ASSUME NEW d \in Clients, Under(call[d])
      PROVE  /\ call[d].op \in ops => Map!Meets(d, ops, ks) = call[d].keys \cap ks
             /\ call[d].op \in others => Map!Meets(d, others, ks) = call[d].keys \cap ks
    BY <1>a, <1>d, Met
<1>e. \A d \in Clients : Under(call[d]) /\ (op \in Writes \/ call[d].op \in Writes) => call[d].op \in ops
    BY <1>a DEF Map!Reads, Writes, IInv, Right, Formed, Under, Idle, Types, Calls, Ops
<1> HIDE DEF ops, others
<1>2. doubtful \subseteq doubtful' /\ doubtful' \in SUBSET Keys
    BY <1>1, <1>c DEF IInv, Types
<1>3. /\ possible' \in [Keys -> SUBSET BOOLEAN] /\ \A k \in Keys : possible[k] \subseteq possible'[k]
      /\ \A k \in doubtful' : possible'[k] = BOOLEAN
      /\ \A k \in ks \ doubtful' : possible'[k] = possible[k] \cup Map!Effects(op)
      /\ \A k \in Keys \ (ks \cup doubtful') : possible'[k] = possible[k]
    BY <1>1, <1>2, <1>a DEF IInv, Types
<1>4. /\ \A d \in Clients : d # c => may'[d] = may[d] \cup (IF call[d].keys \cap ks # {} THEN Map!Effects(op) ELSE {})
                                                      \cup (IF call[d].keys \cap doubtful' # {} THEN BOOLEAN ELSE {})
      /\ may'[c] = UNION {IF k \in doubtful' THEN BOOLEAN ELSE possible[k] : k \in ks}
    BY <1>1
<1>5. may'[c] \in SUBSET BOOLEAN
    BY <1>4 DEF IInv, Types
<1>6. may' \in [Clients -> SUBSET BOOLEAN]
    <2>1. \A d \in Clients : may'[d] \in SUBSET BOOLEAN
        BY <1>4, <1>5, <1>a DEF IInv, Types
    <2> QED BY <1>1, <2>1
<1>7. \A k \in ks : IF k \in doubtful' THEN may'[c] = BOOLEAN ELSE possible[k] \subseteq may'[c]
    BY <1>4, <1>5
<1>8. \A d \in Clients : d # c =>
        /\ may[d] \subseteq may'[d]
        /\ call[d].keys \cap ks # {} => Map!Effects(op) \subseteq may'[d]
        /\ call[d].keys \cap doubtful' # {} => may'[d] = BOOLEAN
    BY <1>4, <1>6
<1>9. crossed' \in [Clients -> SUBSET Keys] /\ \A d \in Clients : d # c => crossed[d] \subseteq crossed'[d]
    BY <1>1, <1>c DEF IInv, Types
<1>10. ASSUME NEW d \in Clients, NEW k \in call[d].keys \cap ks, d # c, Under(call[d])
       PROVE  /\ setup.arc /\ (op \in Writes \/ call[d].op \in Writes) => k \in doubtful'
              /\ op \in Writes /\ call[d].op \in Writes \ {op} => k \in crossed'[c] /\ k \in crossed'[d]
    <2>1. ASSUME setup.arc, op \in Writes \/ call[d].op \in Writes PROVE k \in doubtful'
        <3>1. k \in Map!Meets(d, ops, ks)
            BY <1>d, <1>e, <1>10, <2>1
        <3>2. k \in doubtful'
            BY <1>1, <2>1, <3>1
        <3> QED BY <3>2
    <2>2. ASSUME op \in Writes, call[d].op \in Writes \ {op} PROVE k \in crossed'[c] /\ k \in crossed'[d]
        <3>1. k \in Map!Meets(d, others, ks)
            BY <1>a, <1>d, <1>10, <2>2 DEF others
        <3> QED BY <1>1, <1>10, <1>a, <2>2, <3>1
    <2> QED BY <2>1, <2>2
<1> QED BY <1>2, <1>3, <1>6, <1>7, <1>8, <1>9, <1>10

\* A call begins beside the others, which go on with more possible answers.
LEMMA BeginKeeps ==
    ASSUME IInv, NEW c \in Clients, NEW op \in {"has", "get", "add", "del"}, NEW ks \in SUBSET Keys,
           Map!Begins(c, op, ks), NEW r \in Calls, Step(c, r), Under(r), Formed(r), r.op = op, r.keys = ks,
           r.at \in {"bloom", "arc", "store"}, r.op = "add" => \A k \in ks : ~Settled(r, k),
           r.pass = "del" => r.at # "store" \/ ~setup.arc,
           UNCHANGED <<setup, stored, caches, faults>>
    PROVE  IInv'
<1>1. /\ call' \in [Clients -> Calls] /\ call'[c] = r
      /\ \A d \in Clients : d # c => call'[d] = call[d]
    BY Stepped DEF IInv, Types
<1>2. /\ doubtful \subseteq doubtful' /\ doubtful' \in SUBSET Keys
      /\ possible' \in [Keys -> SUBSET BOOLEAN] /\ \A k \in Keys : possible[k] \subseteq possible'[k]
      /\ \A k \in doubtful' : possible'[k] = BOOLEAN
      /\ \A k \in ks \ doubtful' : possible'[k] = possible[k] \cup Map!Effects(op)
      /\ \A k \in Keys \ (ks \cup doubtful') : possible'[k] = possible[k]
    BY BeginsDoes
<1>3. /\ may' \in [Clients -> SUBSET BOOLEAN]
      /\ \A k \in ks : IF k \in doubtful' THEN may'[c] = BOOLEAN ELSE possible[k] \subseteq may'[c]
      /\ \A d \in Clients : d # c =>
           /\ may[d] \subseteq may'[d]
           /\ call[d].keys \cap ks # {} => Map!Effects(op) \subseteq may'[d]
           /\ call[d].keys \cap doubtful' # {} => may'[d] = BOOLEAN
    BY BeginsDoes
<1>4. /\ crossed' \in [Clients -> SUBSET Keys] /\ \A d \in Clients : d # c => crossed[d] \subseteq crossed'[d]
      /\ \A d \in Clients : \A k \in call[d].keys \cap ks :
           d # c /\ Under(call[d]) =>
               /\ setup.arc /\ (op \in Writes \/ call[d].op \in Writes) => k \in doubtful'
               /\ op \in Writes /\ call[d].op \in Writes \ {op} => k \in crossed'[c] /\ k \in crossed'[d]
    BY BeginsDoes
<1>5. UNCHANGED <<setup, stored, arc, bloom, active, scan, faults>>
    BY DEF caches
<1>6. Types' /\ Unbuilt'
    BY <1>1, <1>2, <1>3, <1>4, <1>5 DEF IInv, Types, Unbuilt
<1>7. \A k \in ks : Map!Effects(op) \subseteq possible'[k]
    <2>1. Map!Effects(op) \subseteq BOOLEAN
        BY DEF Map!Effects
    <2> QED BY <1>2, <2>1
<1>8. \A d \in Clients : \A k \in call[d].keys : Under(call[d]) /\ call[d].op \in Writes =>
        Map!Effects(call[d].op) \subseteq possible[k]
    BY DEF IInv, Right, RightAdd, RightDel, Map!Effects, Writes
<1>9. Doubts'
    <2>1. ASSUME NEW d \in Clients, NEW k \in call'[d].keys \cap doubtful' PROVE may'[d] = BOOLEAN
        BY <1>1, <1>3, <2>1
    <2> QED BY <1>2, <2>1 DEF Doubts
<1>10. Overlaps'
    <2>1. SUFFICES ASSUME NEW e \in Clients, NEW d \in Clients, e # d, Under(call'[e]), Under(call'[d]),
                          call'[d].op \in Writes, NEW k \in call'[e].keys \cap call'[d].keys
                   PROVE  /\ Map!Effects(call'[d].op) \subseteq may'[e]
                          /\ setup.arc => k \in doubtful'
                          /\ call'[e].op \in Writes \ {call'[d].op} => k \in crossed'[e] /\ k \in crossed'[d]
        BY <1>5 DEF Overlaps, Map!Effects, Under
    <2>2. CASE e # c /\ d # c
        <3>1. /\ Map!Effects(call[d].op) \subseteq may[e]
              /\ setup.arc => k \in doubtful
              /\ call[e].op \in Writes \ {call[d].op} => k \in crossed[e] /\ k \in crossed[d]
            BY <1>1, <2>1, <2>2 DEF IInv, Overlaps
        <3> QED BY <1>1, <1>2, <1>3, <1>4, <2>1, <2>2, <3>1
    <2>3. CASE d = c
        <3>1. call'[d].op = op /\ k \in ks /\ e # c /\ k \in call[e].keys /\ Under(call[e]) /\ call'[e].op = call[e].op
            BY <1>1, <2>1, <2>3
        <3> QED BY <1>3, <1>4, <2>1, <2>3, <3>1
    <2>4. CASE e = c
        <3>1. call'[e].op = op /\ k \in ks /\ d # c /\ k \in call[d].keys /\ Under(call[d]) /\ call'[d].op = call[d].op
              /\ k \in Keys
            BY <1>1, <2>1, <2>4
        <3>2. Map!Effects(call[d].op) \subseteq possible[k] /\ Map!Effects(call[d].op) \subseteq BOOLEAN
            BY <1>8, <2>1, <3>1 DEF Map!Effects
        <3>3. Map!Effects(call[d].op) \subseteq may'[c]
            BY <1>3, <3>1, <3>2
        <3> QED BY <1>4, <2>1, <2>4, <3>1, <3>3
    <2> QED BY <2>2, <2>3, <2>4
<1>11. StoreInv' /\ BloomInv' /\ ArcInv'
    BY <1>2, <1>5 DEF IInv, StoreInv, BloomInv, ArcInv, Allowed
<1>12. Right(call[c], may[c], crossed[c])'
    <2>1. Formed(r)'
        BY <1>5 DEF Formed
    <2>2. RightAdd(r, crossed[c])'
        BY <1>7 DEF RightAdd, Settled, Map!Effects
    <2>3. RightRead(r, may[c])' /\ RightNote(r)'
        <3>1. SUFFICES ASSUME op \in {"has", "get"}, NEW k \in ks PROVE possible'[k] \subseteq may'[c]
            BY DEF RightRead, RightNote
        <3>2. Map!Effects(op) = {}
            BY <3>1 DEF Map!Effects
        <3>3. k \in doubtful' \/ possible'[k] = possible[k]
            BY <1>2, <3>2
        <3> QED BY <1>2, <1>3, <3>3
    <2>4. RightDel(r, may[c], crossed[c])'
        <3>1. SUFFICES ASSUME op = "del", NEW k \in ks
                       PROVE  /\ FALSE \in possible'[k]
                              /\ Allowed(k, may[c])'
                              /\ FALSE \in may'[c] \/ ~setup.bloom \/ k \in bloom \cup scan
                              /\ arc[k] = "no" => FALSE \in may'[c] \/ k \in doubtful'
                              /\ r.at = "store" => arc[k] # "yes"
            BY <1>5 DEF RightDel, Allowed
        <3>2. FALSE \in possible'[k]
            BY <1>7, <3>1 DEF Map!Effects
        <3>3. /\ Allowed(k, possible[k]) /\ (FALSE \in possible[k] \/ ~setup.bloom \/ k \in bloom \cup scan)
              /\ arc[k] = "no" => FALSE \in possible[k] \/ k \in doubtful
            BY <3>1 DEF IInv, StoreInv, BloomInv, ArcInv
        <3>4. r.at = "store" => arc[k] # "yes"
            BY <3>1 DEF Formed, IInv, Unbuilt
        <3> QED BY <1>2, <1>3, <1>5, <3>2, <3>3, <3>4 DEF Allowed
    <2> QED BY <1>1, <2>1, <2>2, <2>3, <2>4, RightNow
<1>13. ASSUME NEW d \in Clients, d # c PROVE Right(call[d], may[d], crossed[d])'
    <2>1. PICK y \in Calls : y = call[d] /\ call'[d] = y /\ y.keys \subseteq Keys
        BY <1>1, <1>13 DEF IInv, Types, Calls
    <2>2. Formed(y)'
        BY <1>5, <2>1 DEF IInv, Right, Formed
    <2>3. SUFFICES ASSUME Under(y)
                   PROVE  RightAdd(y, crossed[d])' /\ RightRead(y, may[d])' /\ RightNote(y)' /\ RightDel(y, may[d], crossed[d])'
        BY <2>1, <2>2, RightNow
    <2>4. RightAdd(y, crossed[d]) /\ RightRead(y, may[d]) /\ RightNote(y) /\ RightDel(y, may[d], crossed[d])
        BY <2>1, <2>3 DEF IInv, Right
    <2>5. may[d] \subseteq may'[d] /\ crossed[d] \subseteq crossed'[d]
        BY <1>3, <1>4, <1>13
    <2>6. RightAdd(y, crossed[d])' /\ RightNote(y)'
        BY <1>2, <1>5, <2>1, <2>4, <2>5 DEF RightAdd, RightNote, Settled
    <2>7. RightRead(y, may[d])'
        <3>1. SUFFICES ASSUME y.op \in {"has", "get"}, NEW k \in y.keys PROVE possible'[k] \subseteq may'[d]
            BY DEF RightRead
        <3>2. CASE k \in doubtful'
            BY <1>2, <1>3, <1>13, <2>1, <3>1, <3>2
        <3>3. CASE k \notin doubtful'
            <4>1. possible[k] \subseteq may[d] /\ k \in Keys
                BY <2>1, <2>4, <3>1 DEF RightRead
            <4>2. k \in ks => Map!Effects(op) \subseteq may'[d]
                BY <1>3, <1>13, <2>1, <3>1
            <4> QED BY <1>2, <2>5, <3>3, <4>1, <4>2
        <3> QED BY <3>2, <3>3
    <2>8. RightDel(y, may[d], crossed[d])'
        BY <1>2, <1>5, <2>1, <2>4, <2>5 DEF RightDel, Allowed
    <2> QED BY <2>6, <2>7, <2>8
<1> QED BY <1>6, <1>9, <1>10, <1>11, <1>12, <1>13 DEF IInv

LEMMA BeginReadKeeps ==
    ASSUME IInv, NEW c \in Clients, NEW op \in {"has", "get"}, NEW k \in Keys, BeginRead(c, op, k)
    PROVE  IInv'
<1> DEFINE again == IF op = "get" THEN {k} ELSE {}
<1>1. again \in SUBSET Keys /\ again \subseteq {k} /\ {k} \in SUBSET Keys /\ {} \in SUBSET Keys
    OBVIOUS
<1>2. /\ Step(c, Asked(op, {k}, op, {k}, {}, again)) /\ Map!Begins(c, op, {k})
      /\ UNCHANGED <<setup, stored, caches, faults>>
    BY DEF BeginRead
<1> HIDE DEF again
<1>a. PICK r : r = Asked(op, {k}, op, {k}, {}, again)
    OBVIOUS
<1>3. /\ r \in Calls /\ r.op = op /\ r.keys = {k} /\ r.pass = op /\ r.part = {k}
      /\ r.look = {} /\ r.again = again /\ r.out = "none" /\ r.at = Top /\ r.at \in {"bloom", "arc", "store"}
    <2>1. op \in {"has", "get", "add", "del"} /\ op \in {"has", "get", "put", "del"} /\ op # "put"
        OBVIOUS
    <2> QED BY <1>1, <1>a, <2>1, BelowPlaces DEF Asked, Calls, Ops, Places
<1>4. Formed(r) /\ Under(r) /\ Step(c, r)
    BY <1>1, <1>2, <1>a, <1>3 DEF Formed, Under, Top, Below
<1>5. op \in {"has", "get", "add", "del"}
    OBVIOUS
<1> QED BY <1>1, <1>2, <1>3, <1>4, <1>5, BeginKeeps

LEMMA BeginAddKeeps ==
    ASSUME IInv, NEW c \in Clients, NEW ks \in SUBSET Keys \ {{}}, BeginAdd(c, ks)
    PROVE  IInv'
<1>1. /\ Map!Begins(c, "add", ks) /\ UNCHANGED <<setup, stored, caches, faults>>
      /\ ks \in SUBSET Keys /\ {} \in SUBSET Keys /\ "add" \in {"has", "get", "add", "del"}
    BY DEF BeginAdd
<1>2. CASE Step(c, Asked("add", ks, "put", ks, {}, ks))
    <2>a. PICK r : r = Asked("add", ks, "put", ks, {}, ks)
        OBVIOUS
    <2>1. /\ r \in Calls /\ r.op = "add" /\ r.keys = ks /\ r.pass = "put" /\ r.part = ks
          /\ r.look = {} /\ r.again = ks /\ r.out = "none" /\ r.at = Below /\ r.at \in {"bloom", "arc", "store"}
        BY <1>1, <2>a, BelowPlaces DEF Asked, Calls, Ops, Places
    <2>2. Formed(r) /\ Under(r) /\ Step(c, r)
        BY <1>2, <2>a, <2>1 DEF Formed, Under, Below
    <2>3. \A k \in ks : ~Settled(r, k)
        BY <2>1 DEF Settled
    <2> QED BY <1>1, <2>1, <2>2, <2>3, BeginKeeps
<1>3. ASSUME NEW k \in ks, Step(c, Asked("add", ks, "has", {k}, ks \ {k}, ks)) PROVE IInv'
    <2>a. PICK r : r = Asked("add", ks, "has", {k}, ks \ {k}, ks)
        OBVIOUS
    <2>1. /\ r \in Calls /\ r.op = "add" /\ r.keys = ks /\ r.pass = "has"
          /\ r.part = {k} /\ r.look = ks \ {k} /\ r.again = ks /\ r.out = "none" /\ r.at = Top
          /\ r.at \in {"bloom", "arc", "store"}
        <3>1. {k} \in SUBSET Keys /\ ks \ {k} \in SUBSET Keys
            BY <1>1
        <3> QED BY <1>1, <2>a, <3>1, BelowPlaces DEF Asked, Calls, Ops, Places
    <2>2. Formed(r) /\ Under(r) /\ Step(c, r)
        BY <1>3, <2>a, <2>1 DEF Formed, Under, Top, Below
    <2>3. \A q \in ks : ~Settled(r, q)
        BY <2>1 DEF Settled
    <2> QED BY <1>1, <2>1, <2>2, <2>3, BeginKeeps
<1> QED BY <1>2, <1>3 DEF BeginAdd

LEMMA BeginDeleteKeeps ==
    ASSUME IInv, NEW c \in Clients, NEW k \in Keys, BeginDelete(c, k)
    PROVE  IInv'
<1>1. /\ Map!Begins(c, "del", {k}) /\ UNCHANGED <<setup, stored, caches, faults>>
      /\ Step(c, Asked("del", {k}, "del", {k}, {}, {}))
      /\ {k} \in SUBSET Keys /\ {} \in SUBSET Keys /\ "del" \in {"has", "get", "add", "del"}
    BY DEF BeginDelete
<1>a. PICK r : r = Asked("del", {k}, "del", {k}, {}, {})
    OBVIOUS
<1>2. /\ r \in Calls /\ r.op = "del" /\ r.keys = {k} /\ r.pass = "del" /\ r.part = {k}
      /\ r.look = {} /\ r.again = {} /\ r.out = "none" /\ r.at = Top /\ r.at \in {"bloom", "arc", "store"}
    BY <1>1, <1>a, BelowPlaces DEF Asked, Calls, Ops, Places
<1>3. Formed(r) /\ Under(r) /\ Step(c, r)
    BY <1>1, <1>a, <1>2 DEF Formed, Under, Top, Below
<1>4. r.at # "store" \/ ~setup.arc
    BY <1>2 DEF Top, Below
<1> QED BY <1>1, <1>2, <1>3, <1>4, BeginKeeps

-----------------------------------------------------------------------------
(* Rebuild, restarts and the beginning *)

LEMMA RebuildNextKeeps == ASSUME IInv, RebuildNext PROVE IInv'
<1>1. PICK q \in scan : /\ scan' = scan \ {q} /\ (q \in stored => q \in bloom')
                        /\ bloom' \in SUBSET Keys /\ bloom \subseteq bloom'
    BY DEF RebuildNext, AddToBloom, IInv, Types
<1>2. UNCHANGED <<setup, stored, arc, active, call, possible, may, crossed, doubtful, faults>>
    BY DEF RebuildNext, history
<1>3. Types' /\ Overlaps' /\ Doubts' /\ Unbuilt' /\ StoreInv' /\ ArcInv'
    BY <1>1, <1>2 DEF IInv, Types, Overlaps, Doubts, Unbuilt, StoreInv, ArcInv, Allowed, Map!Effects, Under
<1>4. \A k \in Keys : k \in bloom \cup scan => k \in bloom' \cup scan' \/ k \notin stored
    BY <1>1
<1>5. BloomInv'
    BY <1>2, <1>4 DEF IInv, BloomInv, StoreInv, Allowed
<1>6. ASSUME NEW d \in Clients PROVE Right(call[d], may[d], crossed[d])'
    <2>1. PICK y \in Calls : y = call[d] /\ call'[d] = y /\ y.keys \subseteq Keys
        BY <1>2 DEF IInv, Types, Calls
    <2>2. Formed(y)'
        BY <1>2, <2>1 DEF IInv, Right, Formed
    <2>3. SUFFICES ASSUME Under(y)
                   PROVE  RightAdd(y, crossed[d])' /\ RightRead(y, may[d])' /\ RightNote(y)' /\ RightDel(y, may[d], crossed[d])'
        BY <2>1, <2>2, RightNow
    <2>4. RightAdd(y, crossed[d]) /\ RightRead(y, may[d]) /\ RightNote(y) /\ RightDel(y, may[d], crossed[d])
        BY <2>1, <2>3 DEF IInv, Right
    <2>5. RightAdd(y, crossed[d])' /\ RightRead(y, may[d])' /\ RightNote(y)'
        BY <1>2, <2>4 DEF RightAdd, RightRead, RightNote, Settled
    <2>6. RightDel(y, may[d], crossed[d])'
        BY <1>2, <1>4, <2>1, <2>4 DEF RightDel, Allowed
    <2> QED BY <2>5, <2>6
<1> QED BY <1>3, <1>5, <1>6 DEF IInv

LEMMA RebuildEndKeeps == ASSUME QueryFails = FALSE, IInv, RebuildEnd PROVE IInv'
<1>1. /\ scan = {} /\ setup.bloom /\ active' = TRUE /\ scan' = {}
      /\ UNCHANGED <<setup, stored, arc, bloom, call, possible, may, crossed, doubtful, faults>>
    BY DEF RebuildEnd, history
<1>2. Types' /\ Overlaps' /\ Doubts' /\ Unbuilt' /\ StoreInv' /\ ArcInv' /\ BloomInv'
    BY <1>1 DEF IInv, Types, Overlaps, Doubts, Unbuilt, StoreInv, ArcInv, BloomInv, Allowed, Map!Effects, Under
<1>3. ASSUME NEW d \in Clients PROVE Right(call[d], may[d], crossed[d])'
    BY <1>1, <1>3, OtherRight DEF IInv, Types
<1> QED BY <1>2, <1>3 DEF IInv

LEMMA RestartKeeps == ASSUME IInv, Restart PROVE IInv'
<1>1. /\ faults' \in 0 .. MaxFaults
      /\ arc' = [k \in Keys |-> "none"] /\ bloom' = {} /\ active' = FALSE
      /\ scan' = IF setup.bloom THEN Keys ELSE {}
      /\ call' = [c \in Clients |-> Idle] /\ may' = [c \in Clients |-> {}]
      /\ crossed' = [c \in Clients |-> {}] /\ doubtful' = {}
      /\ UNCHANGED <<setup, stored, possible>>
    BY CachedStoreAssumption DEF Restart, IInv, Types
<1>2. Types'
    BY <1>1, IdleCall DEF IInv, Types
<1>3. Overlaps' /\ Doubts' /\ Unbuilt'
    BY <1>1, IdleCall DEF Overlaps, Doubts, Unbuilt, Under
<1>4. StoreInv' /\ ArcInv' /\ BloomInv'
    BY <1>1 DEF IInv, StoreInv, ArcInv, BloomInv, Allowed
<1>5. ASSUME NEW d \in Clients PROVE Right(call[d], may[d], crossed[d])'
    BY <1>1, <1>5, IdleRight
<1> QED BY <1>2, <1>3, <1>4, <1>5 DEF IInv

LEMMA InitInv == Init => IInv
<1> SUFFICES ASSUME Init PROVE IInv
    OBVIOUS
<1>a. ASSUME NEW k \in Keys PROVE possible[k] = IF k \in stored THEN {TRUE} ELSE {FALSE}
    BY DEF Init
<1>1. Types
    <2>1. possible \in [Keys -> SUBSET BOOLEAN]
        BY DEF Init
    <2>2. /\ call \in [Clients -> Calls] /\ may \in [Clients -> SUBSET BOOLEAN]
          /\ crossed \in [Clients -> SUBSET Keys] /\ doubtful \subseteq Keys
        BY IdleCall DEF Init
    <2>3. setup \in Setups /\ stored \subseteq Keys /\ bloom \subseteq Keys /\ scan \subseteq Keys
          /\ arc \in [Keys -> {"none", "yes", "no"}] /\ active \in BOOLEAN
        BY DEF Init
    <2>4. faults \in 0 .. MaxFaults
        BY CachedStoreAssumption DEF Init
    <2> QED BY <2>1, <2>2, <2>3, <2>4 DEF Types
<1>2. Overlaps /\ Doubts /\ Unbuilt
    BY IdleCall DEF Init, Overlaps, Doubts, Unbuilt, Under
<1>3. StoreInv /\ ArcInv
    BY <1>a DEF Init, StoreInv, ArcInv, Allowed
<1>4. BloomInv
    BY DEF Init, BloomInv
<1>5. ASSUME NEW c \in Clients PROVE Right(call[c], may[c], crossed[c])
    <2>1. call[c] = Idle
        BY DEF Init
    <2>2. Formed(Idle) /\ ~Under(Idle)
        BY DEF Formed, Under, Idle
    <2> QED BY <2>1, <2>2 DEF Right
<1> QED BY <1>1, <1>2, <1>3, <1>4, <1>5 DEF IInv

LEMMA StutterInv == IInv /\ UNCHANGED vars => IInv'
<1> SUFFICES ASSUME IInv, UNCHANGED vars PROVE IInv'
    OBVIOUS
<1>1. UNCHANGED <<setup, stored, arc, bloom, active, scan, call, possible, may, crossed, doubtful, faults>>
    BY DEF vars, caches, history
<1>2. Types' /\ Overlaps' /\ Doubts' /\ Unbuilt' /\ StoreInv' /\ BloomInv' /\ ArcInv'
    BY <1>1 DEF IInv, Types, Overlaps, Doubts, Unbuilt, StoreInv, BloomInv, ArcInv, Allowed, Map!Effects, Under
<1>3. ASSUME NEW d \in Clients PROVE Right(call[d], may[d], crossed[d])'
    BY <1>1, <1>3, OtherRight DEF IInv, Types
<1> QED BY <1>2, <1>3 DEF IInv

LEMMA NextInv == QueryFails = FALSE /\ IInv /\ [Next]_vars => IInv'
<1> SUFFICES ASSUME QueryFails = FALSE, IInv, [Next]_vars PROVE IInv'
    OBVIOUS
<1>1. ASSUME NEW c \in Clients, NEW op \in Map!Reads, NEW k \in Keys, BeginRead(c, op, k) PROVE IInv'
    BY <1>1, BeginReadKeeps DEF Map!Reads
<1>2. ASSUME NEW c \in Clients, NEW ks \in SUBSET Keys \ {{}}, BeginAdd(c, ks) PROVE IInv'
    BY <1>2, BeginAddKeeps
<1>3. ASSUME NEW c \in Clients, NEW k \in Keys, BeginDelete(c, k) PROVE IInv'
    BY <1>3, BeginDeleteKeeps
<1>4. ASSUME NEW c \in Clients, AskBloom(c) \/ AskArc(c) \/ AskArcToPut(c) \/ ForgetArc(c) PROVE IInv'
    BY <1>4, AskBloomKeeps, AskArcKeeps, AskArcToPutKeeps, ForgetArcKeeps
<1>5. ASSUME NEW c \in Clients, Lookup(c) \/ Write(c) \/ Erase(c) \/ StoreFails(c) PROVE IInv'
    BY <1>5, LookupKeeps, WriteKeeps, EraseKeeps, StoreFailsKeeps
<1>6. ASSUME NEW c \in Clients, NoteRead(c) \/ NoteAdd(c) \/ NoteDelete(c) \/ Mark(c) \/ Return(c) PROVE IInv'
    BY <1>6, NoteReadKeeps, NoteAddKeeps, NoteDeleteKeeps, MarkKeeps, ReturnKeeps
<1>7. CASE RebuildNext \/ RebuildEnd \/ Restart
    BY <1>7, RebuildNextKeeps, RebuildEndKeeps, RestartKeeps
<1>8. CASE UNCHANGED vars
    BY <1>8, StutterInv
<1> QED BY <1>1, <1>2, <1>3, <1>4, <1>5, <1>6, <1>7, <1>8 DEF Next

\* The invariant holds in every state while no listing of the datastore fails.
THEOREM Invariant == ASSUME QueryFails = FALSE PROVE Spec => []IInv
<1>1. IInv /\ [Next]_vars => IInv'
    BY NextInv
<1> QED BY InitInv, <1>1, PTL DEF Spec

\* Whatever the Bloom filter denies is not in the store for sure, in every state.
THEOREM BloomIsConclusive == ASSUME QueryFails = FALSE PROVE Spec => []BloomConclusive
<1>1. IInv => BloomConclusive
    BY DEF IInv, Types, Unbuilt, BloomInv, BloomConclusive
<1> QED BY Invariant, <1>1, PTL

\* The ARC cache stays within its size, and every variable within its type.
THEOREM Typing == ASSUME QueryFails = FALSE, IsFiniteSet(Keys) PROVE Spec => []TypeOK
<1> DEFINE known == {k \in Keys : arc[k] # "none"}
           Small == Cardinality(known) <= ArcSize
<1>1. Init => Small
    <2>1. Init => known = {}
        BY DEF Init
    <2> QED BY <2>1, FS_EmptySet, CachedStoreAssumption
<1>2. ASSUME IInv, Small, [Next]_vars PROVE Small'
    <2>1. ASSUME \A k \in Keys : arc'[k] \in {arc[k], "none"} PROVE Small'
        <3>1. known' \subseteq known
            BY <2>1
        <3>2. IsFiniteSet(known)
            BY FS_Subset
        <3>3. IsFiniteSet(known') /\ Cardinality(known') <= Cardinality(known)
            BY <3>1, <3>2, FS_Subset
        <3>4. Cardinality(known) \in Nat /\ Cardinality(known') \in Nat
            BY <3>2, <3>3, FS_CardinalityType
        <3> QED BY <1>2, <3>3, <3>4, CachedStoreAssumption
    <2>2. ASSUME NEW ks, NEW what, Remember(ks, what) PROVE Small'
        BY <2>2, CachedStoreAssumption DEF Remember
    <2>3. ASSUME NEW c \in Clients, NoteRead(c) \/ NoteAdd(c) \/ NoteDelete(c) PROVE Small'
        BY <2>2, <2>3 DEF NoteRead, NoteAdd, NoteDelete
    <2>4. ASSUME NEW c \in Clients, ForgetArc(c) PROVE \A k \in Keys : arc'[k] \in {arc[k], "none"}
        BY <2>4 DEF ForgetArc, IInv, Types
    <2>5. CASE UNCHANGED arc
        BY <2>1, <2>5
    <2>6. CASE Restart
        BY <2>1, <2>6 DEF Restart
    <2>7. ASSUME NEW c \in Clients,
                 AskBloom(c) \/ AskArc(c) \/ AskArcToPut(c) \/ Lookup(c) \/ Write(c) \/ Erase(c)
                 \/ StoreFails(c) \/ Mark(c) \/ Return(c)
          PROVE  UNCHANGED arc
        BY <2>7 DEF AskBloom, AskArc, AskArcToPut, Lookup, Write, Erase, StoreFails, Mark, Return, caches
    <2>8. ASSUME NEW c \in Clients, NEW op, NEW k, NEW ks,
                 BeginRead(c, op, k) \/ BeginAdd(c, ks) \/ BeginDelete(c, k)
          PROVE  UNCHANGED arc
        BY <2>8 DEF BeginRead, BeginAdd, BeginDelete, caches
    <2>9. RebuildNext \/ RebuildEnd \/ UNCHANGED vars => UNCHANGED arc
        BY DEF RebuildNext, RebuildEnd, vars, caches
    <2> HIDE DEF Small
    <2> QED BY <1>2, <2>1, <2>3, <2>4, <2>5, <2>6, <2>7, <2>8, <2>9 DEF Next
<1>3. IInv /\ Small => TypeOK
    BY DEF IInv, Types, TypeOK, Calls, Ops, Places
<1> HIDE DEF Small
<1> QED BY Invariant, <1>1, <1>2, <1>3, PTL DEF Spec

-----------------------------------------------------------------------------
(* The service over the caches is a BlockMap *)

\* What BlockMap sees of a call, and of all of them.
View(x) == [op |-> x.op, keys |-> x.keys, out |-> x.out]
Asks == [c \in Clients |-> [op |-> call[c].op, keys |-> call[c].keys, out |-> call[c].out]]

\* A step of the abstract specification or a stutter.
Maps == Map!Next \/ UNCHANGED Map!vars

LEMMA SeenStep ==
    ASSUME IInv, NEW c \in Clients, NEW r \in Calls, Step(c, r)
    PROVE  Asks' = [Asks EXCEPT ![c] = View(r)] /\ Asks[c] = View(call[c])
<1>1. /\ call'[c] = r /\ \A d \in Clients : d # c => call'[d] = call[d]
    BY Stepped DEF IInv, Types
<1> QED BY <1>1 DEF Asks, View

\* Where the layers of the service are on the way of a call is not seen.
LEMMA Unseen ==
    ASSUME IInv, NEW c \in Clients, NEW r \in Calls, Step(c, r), r.op = call[c].op, r.keys = call[c].keys,
           r.out = call[c].out, UNCHANGED <<setup, history>>
    PROVE  Maps
<1>1. Asks' = [Asks EXCEPT ![c] = View(r)] /\ Asks[c] = View(call[c])
    BY SeenStep
<1>2. View(r) = View(call[c])
    BY DEF View
<1>3. Asks' = Asks
    BY <1>1, <1>2 DEF Asks
<1> QED BY <1>3 DEF Maps, Map!vars, Map!told, Asks, history

LEMMA MoveUnseen ==
    ASSUME IInv, NEW c \in Clients, NEW at \in Places, Move(c, at), UNCHANGED <<setup, history>>
    PROVE  Maps
<1>1. PICK r \in Calls : r = At(call[c], at) /\ r.op = call[c].op /\ r.keys = call[c].keys /\ r.out = call[c].out
    BY AtFields DEF IInv, Types
<1> QED BY <1>1, Unseen DEF Move

\* What a call under way looks like from outside.
LEMMA Outside ==
    ASSUME IInv, NEW c \in Clients, Under(call[c])
    PROVE  call[c].op \in {"has", "get", "add", "del"} /\ call[c].out = "none"
BY DEF IInv, Types, Calls, Ops, Right, Formed, Under, Idle

\* A call that says something, as BlockMap sees it.
LEMMA SaySeen ==
    ASSUME IInv, NEW c \in Clients, Under(call[c]), NEW out \in {"yes", "no", "ok", "missing", "error"}, Say(c, out)
    PROVE  /\ Asks' = [Asks EXCEPT ![c].out = out]
           /\ Asks[c].op = call[c].op /\ Asks[c].keys = call[c].keys /\ Asks[c].out = "none"
<1>1. PICK r \in Calls : Step(c, r) /\ r.op = call[c].op /\ r.keys = call[c].keys /\ r.out = out
    BY SayDoes
<1>2. Asks' = [Asks EXCEPT ![c] = View(r)] /\ Asks[c] = View(call[c])
    BY <1>1, SeenStep
<1>3. View(r) = [Asks[c] EXCEPT !.out = out]
    BY <1>1, <1>2 DEF View
<1>4. Asks' = [Asks EXCEPT ![c].out = out]
    <2> HIDE DEF View, Asks
    <2> QED BY <1>2, <1>3
<1>5. Asks[c].op = call[c].op /\ Asks[c].keys = call[c].keys /\ Asks[c].out = "none"
    BY <1>2, Outside DEF View
<1> QED BY <1>4, <1>5

\* An answer to a question, to a write that did nothing, and to one that succeeded.
LEMMA SayRead ==
    ASSUME IInv, NEW c \in Clients, Under(call[c]), NEW out \in {"yes", "no", "error"}, Say(c, out),
           call[c].op \in {"has", "get"}, UNCHANGED <<setup, history>>,
           out = "yes" => TRUE \in may[c], out = "no" => FALSE \in may[c]
    PROVE  Maps
<1>1. /\ Asks' = [Asks EXCEPT ![c].out = out]
      /\ Asks[c].op = call[c].op /\ Asks[c].out = "none"
    BY SaySeen
<1>2. out # "error" => (out = "yes") \in may[c]
    OBVIOUS
<1>3. Map!AnswerRead(c)
    BY <1>1, <1>2 DEF Map!AnswerRead, Map!Reads, Map!told, Asks, history
<1> QED BY <1>3 DEF Maps, Map!Next

LEMMA SayWrite ==
    ASSUME IInv, NEW c \in Clients, Under(call[c]), NEW out \in {"missing", "error"}, Say(c, out),
           call[c].op \in Writes, UNCHANGED <<setup, history>>,
           out = "missing" => call[c].op = "del" /\ FALSE \in may[c]
    PROVE  Maps
<1>1. /\ Asks' = [Asks EXCEPT ![c].out = out]
      /\ Asks[c].op = call[c].op /\ Asks[c].out = "none"
    BY SaySeen
<1>2. Map!AnswerWrite(c)
    BY <1>1 DEF Map!AnswerWrite, Map!Writes, Asks, Writes, history
<1> QED BY <1>2 DEF Maps, Map!Next

LEMMA SucceedMaps ==
    ASSUME IInv, NEW c \in Clients, Under(call[c]), Succeed(c), call[c].op \in Writes,
           UNCHANGED <<setup, may, crossed, doubtful>>
    PROVE  Maps
<1>1. Say(c, "ok") /\ Map!Settles(c)
    BY DEF Succeed
<1>2. /\ Asks' = [Asks EXCEPT ![c].out = "ok"]
      /\ Asks[c].op = call[c].op /\ Asks[c].out = "none"
    BY <1>1, SaySeen
<1>3. Map!AnswerWrite(c)
    BY <1>1, <1>2 DEF Map!AnswerWrite, Map!Writes, Asks, Writes
<1> QED BY <1>3 DEF Maps, Map!Next

\* A look-up that found its block, and one that did not, answer what may be answered.
LEMMA LookOrPutMaps ==
    ASSUME IInv, NEW c \in Clients, LookOrPut(c), UNCHANGED <<setup, history>>
    PROVE  Maps
<1>1. CASE Step(c, Putting(call[c]))
    <2>1. PICK r \in Calls : r = Putting(call[c]) /\ r.op = call[c].op /\ r.keys = call[c].keys /\ r.out = call[c].out
        BY PuttingFields DEF IInv, Types
    <2> QED BY <1>1, <2>1, Unseen
<1>2. ASSUME NEW k \in call[c].look, Step(c, Looking(call[c], k)) PROVE Maps
    <2>1. PICK r \in Calls : r = Looking(call[c], k) /\ r.op = call[c].op /\ r.keys = call[c].keys /\ r.out = call[c].out
        BY LookingFields DEF IInv, Types
    <2> QED BY <1>2, <2>1, Unseen
<1> QED BY <1>1, <1>2 DEF LookOrPut

LEMMA FoundMaps ==
    ASSUME IInv, NEW c \in Clients, Found(c), UNCHANGED <<setup, may, crossed, doubtful>>, Under(call[c]),
           call[c].op \in {"add", "has", "get"}, call[c].op = "add" \/ TRUE \in may[c]
    PROVE  Maps
<1>1. UNCHANGED <<setup, history>>
    BY DEF Found, history
<1>2. CASE call[c].op = "add"
    BY <1>1, <1>2, LookOrPutMaps DEF Found
<1>3. CASE call[c].op # "add"
    BY <1>1, <1>3, SayRead DEF Found
<1> QED BY <1>2, <1>3

LEMMA NotFoundMaps ==
    ASSUME IInv, NEW c \in Clients, NotFound(c), UNCHANGED <<setup, may, crossed, doubtful>>, Under(call[c]),
           call[c].op = "add" \/ FALSE \in may[c]
    PROVE  Maps
<1>1. UNCHANGED <<setup, history>>
    BY DEF NotFound, history
<1>2. CASE Step(c, AskingAgain(call[c]))
    <2>1. PICK r \in Calls : r = AskingAgain(call[c]) /\ r.op = call[c].op /\ r.keys = call[c].keys /\ r.out = call[c].out
        BY AskingAgainFields DEF IInv, Types
    <2> QED BY <1>1, <1>2, <2>1, Unseen
<1>3. CASE call[c].op = "add" /\ LookOrPut(c)
    BY <1>1, <1>3, LookOrPutMaps
<1>4. CASE call[c].op = "del" /\ Say(c, "missing")
    BY <1>1, <1>4, SayWrite DEF Writes
<1>5. CASE call[c].op \in {"has", "get"} /\ Say(c, "no")
    BY <1>1, <1>5, SayRead
<1> QED BY <1>2, <1>3, <1>4, <1>5 DEF NotFound

\* What the one key of a look-up under way has to do with what may be answered: unless
\* it is in doubt, which allows everything.
LEMMA MayBe ==
    ASSUME IInv, NEW c \in Clients, Under(call[c]), call[c].pass # "put", call[c].op # "add"
    PROVE  \E k \in Keys :
             /\ Key(c) = k /\ call[c].part = {k} /\ call[c].keys = {k} /\ call[c].op \in {"has", "get", "del"}
             /\ k \in doubtful => may[c] = BOOLEAN
             /\ call[c].op \in {"has", "get"} => possible[k] \subseteq may[c]
             /\ RightDel(call[c], may[c], crossed[c]) /\ RightNote(call[c])
             /\ Allowed(k, possible[k])
<1> DEFINE x == call[c]
<1>1. /\ x.op \in {"has", "get", "add", "del"} /\ x.keys \subseteq Keys /\ x.keys = x.part
      /\ RightRead(x, may[c]) /\ RightNote(x) /\ RightDel(x, may[c], crossed[c])
    BY Waiting
<1>2. PICK k \in x.keys : x.part = {k} /\ Key(c) = k
    BY Waiting
<1>3. k \in Keys /\ (k \in doubtful => may[c] = BOOLEAN) /\ Allowed(k, possible[k])
    BY <1>1, <1>2 DEF IInv, Doubts, StoreInv
<1> QED BY <1>1, <1>2, <1>3 DEF RightRead

LEMMA AskBloomMaps == ASSUME IInv, NEW c \in Clients, AskBloom(c) PROVE Maps
<1>1. /\ call[c].at = "bloom" /\ call[c].pass # "put" /\ UNCHANGED <<setup, may, crossed, doubtful>> /\ Under(call[c])
    BY DEF AskBloom, IInv, Right, Formed, Under
<1>2. CASE BloomSaysNo(Key(c)) /\ NotFound(c)
    <2>1. CASE call[c].op = "add"
        BY <1>1, <1>2, <2>1, NotFoundMaps
    <2>2. CASE call[c].op # "add"
        <3>1. PICK k \in Keys :
                /\ Key(c) = k /\ call[c].keys = {k} /\ call[c].op \in {"has", "get", "del"}
                /\ call[c].op \in {"has", "get"} => possible[k] \subseteq may[c]
                /\ RightDel(call[c], may[c], crossed[c])
            BY <1>1, <2>2, MayBe
        <3>2. k \notin bloom \cup scan /\ setup.bloom /\ FALSE \in possible[k]
            BY <1>2, <3>1 DEF BloomSaysNo, IInv, Unbuilt, BloomInv
        <3>3. FALSE \in may[c]
            BY <1>1, <3>1, <3>2 DEF RightDel
        <3> QED BY <1>1, <1>2, <3>3, NotFoundMaps
    <2> QED BY <2>1, <2>2
<1>3. CASE Move(c, Below) /\ UNCHANGED possible
    BY <1>1, <1>3, MoveUnseen, BelowPlaces DEF Places, history
<1> QED BY <1>2, <1>3 DEF AskBloom

LEMMA AskArcMaps == ASSUME IInv, NEW c \in Clients, AskArc(c) PROVE Maps
<1>1. /\ call[c].at = "arc" /\ call[c].pass # "put" /\ UNCHANGED <<setup, may, crossed, doubtful>> /\ Under(call[c])
    BY DEF AskArc, Under
<1>2. CASE arc[Key(c)] = "no" /\ NotFound(c)
    <2>1. CASE call[c].op = "add"
        BY <1>1, <1>2, <2>1, NotFoundMaps
    <2>2. CASE call[c].op # "add"
        <3>1. PICK k \in Keys :
                /\ Key(c) = k /\ call[c].keys = {k} /\ call[c].op \in {"has", "get", "del"}
                /\ k \in doubtful => may[c] = BOOLEAN
                /\ call[c].op \in {"has", "get"} => possible[k] \subseteq may[c]
                /\ RightDel(call[c], may[c], crossed[c])
            BY <1>1, <2>2, MayBe
        <3>2. k \in doubtful \/ FALSE \in possible[k]
            BY <1>2, <3>1 DEF IInv, ArcInv
        <3>3. FALSE \in may[c]
            BY <1>1, <1>2, <3>1, <3>2 DEF RightDel
        <3> QED BY <1>1, <1>2, <3>3, NotFoundMaps
    <2> QED BY <2>1, <2>2
<1>3. CASE arc[Key(c)] = "yes" /\ call[c].pass = "has" /\ Found(c)
    <2>1. CASE call[c].op = "add"
        BY <1>1, <1>3, <2>1, FoundMaps
    <2>2. CASE call[c].op # "add"
        <3>1. PICK k \in Keys :
                /\ Key(c) = k /\ call[c].keys = {k}
                /\ k \in doubtful => may[c] = BOOLEAN
                /\ call[c].op \in {"has", "get"} => possible[k] \subseteq may[c]
                /\ Allowed(k, possible[k])
            BY <1>1, <2>2, MayBe
        <3>2. call[c].op = "has"
            BY <1>1, <1>3, <2>2, Waiting
        <3>3. k \in doubtful \/ TRUE \in possible[k]
            BY <1>3, <3>1 DEF IInv, ArcInv, Allowed
        <3> QED BY <1>1, <1>3, <3>1, <3>2, <3>3, FoundMaps
    <2> QED BY <2>1, <2>2
<1>4. ASSUME NEW at \in {"remove", "store"}, Move(c, at), UNCHANGED possible PROVE Maps
    BY <1>1, <1>4, MoveUnseen DEF Places, history
<1> QED BY <1>2, <1>3, <1>4 DEF AskArc

\* A look-up, a delete or their notes learn what is in the datastore.
LEMMA LookupMaps == ASSUME IInv, NEW c \in Clients, Lookup(c) PROVE Maps
<1>1. /\ call[c].at = "store" /\ call[c].pass \in {"has", "get"} /\ UNCHANGED <<setup, may, crossed, doubtful>>
      /\ Under(call[c])
    BY DEF Lookup, Under
<1>2. call[c].op \in {"has", "get", "add"}
    BY <1>1, Waiting
<1>3. ASSUME NEW found \in BOOLEAN, Step(c, Noting(call[c], found)), UNCHANGED possible PROVE Maps
    <2>1. PICK r \in Calls : /\ r = Noting(call[c], found) /\ r.op = call[c].op /\ r.keys = call[c].keys
                             /\ r.out = call[c].out
        BY NotingFields DEF IInv, Types
    <2> QED BY <1>1, <1>3, <2>1, Unseen DEF history
<1>4. CASE call[c].op = "add" /\ (Found(c) \/ NotFound(c))
    BY <1>1, <1>2, <1>4, FoundMaps, NotFoundMaps
<1>5. CASE call[c].op # "add" /\ (IF Key(c) \in stored THEN Found(c) ELSE NotFound(c))
    <2>1. PICK k \in Keys :
            /\ Key(c) = k
            /\ call[c].op \in {"has", "get"} => possible[k] \subseteq may[c]
            /\ Allowed(k, possible[k])
        BY <1>1, <1>5, MayBe
    <2> QED BY <1>1, <1>2, <1>5, <2>1, FoundMaps, NotFoundMaps DEF Allowed
<1>6. (Key(c) \in stored) \in BOOLEAN
    OBVIOUS
<1> QED BY <1>3, <1>4, <1>5, <1>6 DEF Lookup

LEMMA EraseMaps == ASSUME IInv, NEW c \in Clients, Erase(c) PROVE Maps
<1>1. /\ call[c].at = "store" /\ call[c].pass = "del" /\ UNCHANGED <<setup, may, crossed, doubtful>> /\ Under(call[c])
    BY DEF Erase, Under
<1>2. call[c].op = "del"
    BY <1>1, Waiting
<1>3. PICK k \in Keys : Key(c) = k /\ call[c].keys = {k} /\ RightDel(call[c], may[c], crossed[c])
    BY <1>1, <1>2, MayBe
<1>4. ASSUME NEW found \in BOOLEAN, Step(c, Noting(call[c], found)), UNCHANGED possible PROVE Maps
    <2>1. PICK r \in Calls : /\ r = Noting(call[c], found) /\ r.op = call[c].op /\ r.keys = call[c].keys
                             /\ r.out = call[c].out
        BY NotingFields DEF IInv, Types
    <2> QED BY <1>1, <1>4, <2>1, Unseen DEF history
<1>5. CASE Succeed(c)
    BY <1>1, <1>2, <1>5, SucceedMaps DEF Writes
<1>6. CASE k \notin stored /\ NotFound(c)
    <2>1. FALSE \in may[c]
        BY <1>1, <1>2, <1>3, <1>6 DEF RightDel, Allowed
    <2> QED BY <1>1, <1>2, <1>6, <2>1, NotFoundMaps
<1>7. (k \in stored) \in BOOLEAN
    OBVIOUS
<1> QED BY <1>3, <1>4, <1>5, <1>6, <1>7 DEF Erase

LEMMA NoteReadMaps == ASSUME IInv, NEW c \in Clients, NoteRead(c) PROVE Maps
<1>1. /\ call[c].at = "note" /\ call[c].pass \in {"has", "get"} /\ UNCHANGED <<setup, may, crossed, doubtful>>
      /\ Under(call[c])
    BY DEF NoteRead, Under
<1>2. call[c].op \in {"has", "get", "add"}
    BY <1>1, Waiting
<1>3. CASE call[c].op = "add" /\ (Found(c) \/ NotFound(c))
    BY <1>1, <1>2, <1>3, FoundMaps, NotFoundMaps
<1>4. CASE call[c].op # "add" /\ (IF call[c].found THEN Found(c) ELSE NotFound(c))
    <2>1. PICK k \in Keys :
            /\ call[c].part = {k} /\ RightNote(call[c])
            /\ k \in doubtful => may[c] = BOOLEAN
            /\ call[c].op \in {"has", "get"} => possible[k] \subseteq may[c]
            /\ Allowed(k, possible[k])
        BY <1>1, <1>4, MayBe
    <2>2. k \in doubtful \/ (call[c].found <=> k \in stored)
        BY <1>1, <2>1 DEF RightNote
    <2> QED BY <1>1, <1>2, <1>4, <2>1, <2>2, FoundMaps, NotFoundMaps DEF Allowed
<1> QED BY <1>3, <1>4 DEF NoteRead

LEMMA NoteDeleteMaps == ASSUME IInv, NEW c \in Clients, NoteDelete(c) PROVE Maps
<1>1. /\ call[c].at = "note" /\ call[c].pass = "del" /\ UNCHANGED <<setup, may, crossed, doubtful>> /\ Under(call[c])
    BY DEF NoteDelete, Under
<1>2. call[c].op = "del"
    BY <1>1, Waiting
<1>3. PICK k \in Keys : call[c].keys = {k} /\ RightDel(call[c], may[c], crossed[c])
    BY <1>1, <1>2, MayBe
<1>4. CASE Succeed(c)
    BY <1>1, <1>2, <1>4, SucceedMaps DEF Writes
<1>5. CASE ~call[c].found /\ NotFound(c)
    <2>1. FALSE \in may[c]
        BY <1>1, <1>2, <1>3, <1>5 DEF RightDel
    <2> QED BY <1>1, <1>2, <1>5, <2>1, NotFoundMaps
<1> QED BY <1>4, <1>5 DEF NoteDelete

\* The steps of a put that nobody sees, and its end.
LEMMA PutMaps ==
    ASSUME IInv, NEW c \in Clients, AskArcToPut(c) \/ ForgetArc(c) \/ Write(c) \/ NoteAdd(c) \/ Mark(c)
    PROVE  Maps
<1>1. CASE AskArcToPut(c)
    <2>1. PICK good \in SUBSET call[c].part : Step(c, Passing(call[c], good)) /\ UNCHANGED <<setup, history>>
        BY <1>1 DEF AskArcToPut
    <2>2. PICK r \in Calls : /\ r = Passing(call[c], good) /\ r.op = call[c].op /\ r.keys = call[c].keys
                             /\ r.out = call[c].out
        BY PassingFields DEF IInv, Types
    <2> QED BY <2>1, <2>2, Unseen
<1>2. CASE ForgetArc(c)
    BY <1>2, MoveUnseen DEF ForgetArc, Places
<1>3. CASE Write(c)
    BY <1>3, MoveUnseen DEF Write, Places
<1>4. CASE NoteAdd(c)
    BY <1>4, MoveUnseen DEF NoteAdd, Places
<1>5. CASE Mark(c)
    <2>1. /\ call[c].at = "mark" /\ Under(call[c]) /\ call[c].pass = "put"
          /\ UNCHANGED <<setup, may, crossed, doubtful>>
        BY <1>5 DEF Mark, Under, IInv, Right, Formed
    <2>2. call[c].op = "add"
        BY <2>1, Adding
    <2>3. CASE Succeed(c)
        BY <2>1, <2>2, <2>3, SucceedMaps DEF Writes
    <2>4. ASSUME NEW k \in call[c].again, Step(c, PuttingAgain(call[c], k)), UNCHANGED possible PROVE Maps
        <3>1. PICK r \in Calls : /\ r = PuttingAgain(call[c], k) /\ r.op = call[c].op /\ r.keys = call[c].keys
                                 /\ r.out = call[c].out
            BY PuttingAgainFields DEF IInv, Types
        <3> QED BY <2>1, <2>4, <3>1, Unseen DEF history
    <2> QED BY <1>5, <2>3, <2>4 DEF Mark
<1> QED BY <1>1, <1>2, <1>3, <1>4, <1>5

LEMMA StoreFailsMaps == ASSUME IInv, NEW c \in Clients, StoreFails(c) PROVE Maps
<1>1. Under(call[c]) /\ Say(c, "error") /\ UNCHANGED <<setup, history>>
    BY DEF StoreFails, Under
<1>2. call[c].op \in {"has", "get", "add", "del"}
    BY <1>1, Outside
<1>3. CASE call[c].op \in {"has", "get"}
    BY <1>1, <1>3, SayRead
<1>4. CASE call[c].op \in Writes
    BY <1>1, <1>4, SayWrite
<1> QED BY <1>2, <1>3, <1>4 DEF Writes

LEMMA ReturnMaps == ASSUME IInv, NEW c \in Clients, Return(c) PROVE Maps
<1>1. /\ Step(c, Idle) /\ call[c].at = "reply" /\ may' = [may EXCEPT ![c] = {}]
      /\ crossed' = [crossed EXCEPT ![c] = {}] /\ UNCHANGED <<setup, possible, doubtful>>
    BY DEF Return
<1>2. call[c].out # "none"
    BY <1>1 DEF IInv, Right, Formed
<1>3. Asks' = [Asks EXCEPT ![c] = View(Idle)] /\ Asks[c] = View(call[c])
    BY <1>1, IdleCall, SeenStep
<1>4. View(Idle) = Map!Idle /\ Asks[c].out # "none"
    BY <1>2, <1>3 DEF View, Idle, Map!Idle
<1>5. Map!Return(c)
    BY <1>1, <1>3, <1>4 DEF Map!Return, Asks
<1> QED BY <1>5 DEF Maps, Map!Next

\* A call that begins, as BlockMap sees it.
LEMMA BeginMaps ==
    ASSUME IInv, NEW c \in Clients, NEW op, NEW ks, NEW r \in Calls,
           call[c] = Idle, Step(c, r), r.op = op, r.keys = ks, r.out = "none",
           Map!Begins(c, op, ks), UNCHANGED setup
    PROVE  Map!Begin(c, op, ks)
<1>1. Asks' = [Asks EXCEPT ![c] = View(r)] /\ Asks[c] = View(call[c])
    BY SeenStep
<1>2. View(Idle) = Map!Idle /\ View(r) = [op |-> op, keys |-> ks, out |-> "none"]
    BY DEF View, Idle, Map!Idle
<1>3. Asks[c] = Map!Idle /\ Asks' = [Asks EXCEPT ![c] = [op |-> op, keys |-> ks, out |-> "none"]]
    BY <1>1, <1>2
<1> QED BY <1>3 DEF Map!Begin, Asks

LEMMA BeginReadMaps ==
    ASSUME IInv, NEW c \in Clients, NEW op \in {"has", "get"}, NEW k \in Keys, BeginRead(c, op, k)
    PROVE  Maps
<1> DEFINE again == IF op = "get" THEN {k} ELSE {}
<1>1. again \in SUBSET Keys /\ {k} \in SUBSET Keys /\ {} \in SUBSET Keys
    OBVIOUS
<1>2. call[c] = Idle /\ Step(c, Asked(op, {k}, op, {k}, {}, again)) /\ Map!Begins(c, op, {k}) /\ UNCHANGED setup
    BY DEF BeginRead
<1> HIDE DEF again
<1>a. PICK r : r = Asked(op, {k}, op, {k}, {}, again)
    OBVIOUS
<1>3. r \in Calls /\ r.op = op /\ r.keys = {k} /\ r.out = "none" /\ Step(c, r)
    BY <1>1, <1>2, <1>a, BelowPlaces DEF Asked, Calls, Ops, Places
<1>4. Map!Begin(c, op, {k})
    BY <1>2, <1>3, BeginMaps
<1> QED BY <1>4 DEF Maps, Map!Next, Map!Reads

LEMMA BeginAddMaps == ASSUME IInv, NEW c \in Clients, NEW ks \in SUBSET Keys \ {{}}, BeginAdd(c, ks) PROVE Maps
<1>1. call[c] = Idle /\ Map!Begins(c, "add", ks) /\ UNCHANGED setup /\ ks \in SUBSET Keys /\ {} \in SUBSET Keys
    BY DEF BeginAdd
<1>2. \E r \in Calls : Step(c, r) /\ r.op = "add" /\ r.keys = ks /\ r.out = "none"
    <2>1. CASE Step(c, Asked("add", ks, "put", ks, {}, ks))
        <3>a. PICK r : r = Asked("add", ks, "put", ks, {}, ks)
            OBVIOUS
        <3>1. r \in Calls /\ r.op = "add" /\ r.keys = ks /\ r.out = "none" /\ Step(c, r)
            BY <1>1, <2>1, <3>a, BelowPlaces DEF Asked, Calls, Ops, Places
        <3> QED BY <3>1
    <2>2. ASSUME NEW k \in ks, Step(c, Asked("add", ks, "has", {k}, ks \ {k}, ks)) PROVE \E r \in Calls : Step(c, r) /\ r.op = "add" /\ r.keys = ks /\ r.out = "none"
        <3>a. PICK r : r = Asked("add", ks, "has", {k}, ks \ {k}, ks)
            OBVIOUS
        <3>1. {k} \in SUBSET Keys /\ ks \ {k} \in SUBSET Keys
            BY <1>1
        <3>2. r \in Calls /\ r.op = "add" /\ r.keys = ks /\ r.out = "none" /\ Step(c, r)
            BY <1>1, <2>2, <3>a, <3>1, BelowPlaces DEF Asked, Calls, Ops, Places
        <3> QED BY <3>2
    <2> QED BY <2>1, <2>2 DEF BeginAdd
<1>3. Map!Begin(c, "add", ks)
    BY <1>1, <1>2, BeginMaps
<1> QED BY <1>1, <1>3 DEF Maps, Map!Next, Map!Writes

LEMMA BeginDeleteMaps == ASSUME IInv, NEW c \in Clients, NEW k \in Keys, BeginDelete(c, k) PROVE Maps
<1>1. /\ call[c] = Idle /\ Map!Begins(c, "del", {k}) /\ UNCHANGED setup
      /\ Step(c, Asked("del", {k}, "del", {k}, {}, {})) /\ {k} \in SUBSET Keys /\ {} \in SUBSET Keys
    BY DEF BeginDelete
<1>a. PICK r : r = Asked("del", {k}, "del", {k}, {}, {})
    OBVIOUS
<1>2. r \in Calls /\ r.op = "del" /\ r.keys = {k} /\ r.out = "none" /\ Step(c, r)
    BY <1>1, <1>a, BelowPlaces DEF Asked, Calls, Ops, Places
<1>3. Map!Begin(c, "del", {k})
    BY <1>1, <1>2, BeginMaps
<1> QED BY <1>1, <1>3 DEF Maps, Map!Next, Map!Writes

LEMMA NextMaps == ASSUME IInv, [Next]_vars PROVE [Map!Next]_(Map!vars)
<1>1. ASSUME NEW c \in Clients, NEW op \in Map!Reads, NEW k \in Keys, BeginRead(c, op, k) PROVE Maps
    BY <1>1, BeginReadMaps DEF Map!Reads
<1>2. ASSUME NEW c \in Clients, NEW ks \in SUBSET Keys \ {{}}, BeginAdd(c, ks) PROVE Maps
    BY <1>2, BeginAddMaps
<1>3. ASSUME NEW c \in Clients, NEW k \in Keys, BeginDelete(c, k) PROVE Maps
    BY <1>3, BeginDeleteMaps
<1>4. ASSUME NEW c \in Clients, AskBloom(c) \/ AskArc(c) \/ AskArcToPut(c) \/ ForgetArc(c) PROVE Maps
    BY <1>4, AskBloomMaps, AskArcMaps, PutMaps
<1>5. ASSUME NEW c \in Clients, Lookup(c) \/ Write(c) \/ Erase(c) \/ StoreFails(c) PROVE Maps
    BY <1>5, LookupMaps, PutMaps, EraseMaps, StoreFailsMaps
<1>6. ASSUME NEW c \in Clients, NoteRead(c) \/ NoteAdd(c) \/ NoteDelete(c) \/ Mark(c) \/ Return(c) PROVE Maps
    BY <1>6, NoteReadMaps, PutMaps, NoteDeleteMaps, ReturnMaps
<1>7. CASE RebuildNext \/ RebuildEnd \/ UNCHANGED vars
    <2>1. UNCHANGED <<setup, call, possible, may, crossed, doubtful>>
        BY <1>7 DEF RebuildNext, RebuildEnd, vars, history
    <2> QED BY <2>1 DEF Maps, Map!vars, Map!told
<1>8. CASE Restart
    <2>1. /\ Asks' = [c \in Clients |-> Map!Idle] /\ may' = [c \in Clients |-> {}]
          /\ crossed' = [c \in Clients |-> {}] /\ doubtful' = {} /\ UNCHANGED <<setup, possible>>
        BY <1>8 DEF Restart, Asks, Idle, Map!Idle
    <2>2. Map!Restart
        BY <2>1 DEF Map!Restart, Asks
    <2> QED BY <2>2 DEF Maps, Map!Next
<1> QED BY <1>1, <1>2, <1>3, <1>4, <1>5, <1>6, <1>7, <1>8 DEF Next, Maps

LEMMA InitMaps == Init => Map!Init
<1> SUFFICES ASSUME Init PROVE Map!Init
    OBVIOUS
<1>1. possible \in [Keys -> {{TRUE}, {FALSE}}]
    BY DEF Init
<1>2. Asks = [c \in Clients |-> Map!Idle]
    BY DEF Init, Asks, Idle, Map!Idle
<1>3. setup.arc \in BOOLEAN
    BY CachedStoreAssumption DEF Init
<1> QED BY <1>1, <1>2, <1>3 DEF Init, Map!Init, Asks

\* The block service over the caches and the datastore is a BlockMap, whatever
\* calls overlap and whichever caches were built: no call is told what was not so
\* at some moment of the call, and a write that answered "ok" holds for the calls
\* after it, but for a key that opposite writes crossed, and, behind an ARC cache,
\* for a key in doubt, one of which calls have overlapped a write.
THEOREM IsABlockMap == ASSUME QueryFails = FALSE PROVE Spec => ImplementsMap
<1>1. IInv /\ [Next]_vars => [Map!Next]_(Map!vars)
    BY NextMaps
<1> QED BY Invariant, InitMaps, <1>1, PTL DEF Spec, ImplementsMap, Map!Spec
=============================================================================
