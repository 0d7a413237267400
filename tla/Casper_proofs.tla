--------------------------- MODULE Casper_proofs ---------------------------
(***************************************************************************)
(* Theorems about the storage network, for any finite number of nodes and  *)
(* any failures.  Of Providers, any number of ping loops: the contract's   *)
(* record agrees with what nodes hold, and an upload that reports success  *)
(* has made its copies.  Of Validation, any number of checks,              *)
(* registrations and lost, slow or hanging calls: no entry of uuidProvMap  *)
(* outlives the goroutines of its node, and a node that answers a check    *)
(* has somebody to report to.                                              *)
(***************************************************************************)
EXTENDS Providers, Validation, FiniteSetTheorems, SequenceTheorems, TLAPS

(***************************************************************************)
(* Providers: the invariant.                                               *)
(***************************************************************************)
Jobs ==
  [st : {"idle", "before", "run", "ok", "failed"}, peers : Seq(Nodes), k : Nat \ {0},
   good : SUBSET Nodes, won : Nat, on : BOOLEAN, of : Nodes \cup {None}]
Scans == [st : {"none", "run", "over"}, of : Nodes \cup {None}, i : Nat \ {0}, n : Nat]
Pcs == {"verify", "cp", "pin", "confirm", "unpin", "rm", "rmr", "blockrm", "freed", "webconfirm", "webpin", "webrm"}
Calls == [by : Callers, nth : Nat \ {0}, at : Nodes, pc : Pcs]

TypeInv ==
  /\ list \in [Nodes -> Seq(Files)]
  /\ banned \subseteq Nodes /\ down \subseteq Nodes
  /\ held \in [Nodes -> SUBSET Files]
  /\ entry \in [Nodes -> SUBSET Files]
  /\ pinned \in [Nodes -> SUBSET Files]
  /\ job \in [Callers -> Jobs]
  /\ calls \in SUBSET Calls
  /\ scan \in [Pingers -> Scans]
  /\ faults \in Nat

\* The commands that a handler goes through for a caller.
Commands(c) ==
  CASE c[1] = Upload -> {"cp", "pin", "confirm"}
    [] c[1] = Delete -> {"unpin", "rm", "rmr", "blockrm", "freed", "webrm"}
    [] c[1] = Web    -> {"webconfirm", "webpin", "cp", "pin", "confirm"}
    [] OTHER         -> {"verify", "cp", "pin", "confirm"}

\* A walk is at one of its peers, and a caller that walks no more waits for
\* nobody.  A web user's upload has a node, once there is one.  A scan is of a
\* node.
WebRight(f) == job[<<Web, f>>].st = "ok" \/ (job[<<Web, f>>].st = "idle" /\ Through(f) = None)

WalkInv ==
  /\ \A c \in Callers :
       IF job[c].st = "run" THEN job[c].k <= Len(job[c].peers) ELSE ~job[c].on
  /\ \A f \in Files : WebRight(f)
  /\ \A q \in Pingers : scan[q].st = "run" => scan[q].of \in Nodes

\* A handler is of a step that its caller has reached.  If the caller still
\* stands there, it waits, the handler is at the peer of that step, and an
\* upload has not had this peer's success before.  What a node confirms before
\* it pins is what a web user has given it.
CallRight(x) ==
  /\ x.pc \in Commands(x.by) /\ x.at \notin down
  /\ x.pc = "webconfirm" => x.at = Through(x.by[2])
  /\ job[x.by].st /= "idle"
  /\ job[x.by].st = "run" =>
       /\ x.nth <= job[x.by].k
       /\ x.nth = job[x.by].k =>
            /\ job[x.by].on /\ x.at = job[x.by].peers[x.nth]
            /\ Uploads(x) => x.at \notin job[x.by].good

CallInv == \A x \in calls : CallRight(x)

\* What an upload counts is nodes that are listed.
CopiesInv ==
  \A f \in Files : ~Deleted(f) =>
    LET j == job[<<Upload, f>>]
    IN  /\ j.st \in {"ok", "before"} => Cardinality(Listing(f)) >= Copies
        /\ j.st = "run" => j.good \subseteq Listing(f) /\ Cardinality(j.good) = j.won

\* Who is listed, or about to confirm, has the pin, but for the node that
\* confirms first.
PinInv ==
  \A f \in Files : ~Deleted(f) =>
    /\ \A n \in Listing(f) : n /= Through(f) => f \in pinned[n]
    /\ \A x \in calls : x.by[2] = f /\ x.pc = "confirm" => f \in pinned[x.at]

\* When nothing has failed, a name or a pin without a listing is that of a
\* handler on its way to the listing, which will find the file's blocks, and a
\* listing without a pin is that of one on its way to the pin.
OnWay(n, f, pcs) == \E x \in calls : x.at = n /\ x.by[2] = f /\ x.pc \in pcs
QuietInv ==
  faults = 0 =>
    \A f \in Files : ~Deleted(f) =>
      /\ job[<<Web, f>>].st = "ok" => Through(f) \in Nodes \ down /\ f \in held[Through(f)]
      /\ \A x \in calls : x.by[2] = f /\ x.pc \in {"pin", "confirm"} =>
           f \in entry[x.at] /\ (Uploads(x) \/ f \in held[x.at])
      /\ \A x \in calls : x.by[2] = f /\ x.pc = "webpin" => x.at \in Listing(f)
      /\ \A n \in Nodes :
           /\ n \in Listing(f) => f \in entry[n] \/ n = Through(f)
           /\ n \in Listing(f) => f \in pinned[n] \/ OnWay(n, f, {"webpin"})
           /\ f \in entry[n] => n \in Listing(f) \/ OnWay(n, f, {"pin", "confirm"})
           /\ f \in pinned[n] => n \in Listing(f) \/ OnWay(n, f, {"confirm"})

IInv == TypeInv /\ WalkInv /\ CallInv /\ CopiesInv /\ PinInv /\ QuietInv
-----------------------------------------------------------------------------
(***************************************************************************)
(* Walks.                                                                  *)
(***************************************************************************)
\* Callers have one of four trades.
LEMMA CallersApart ==
  /\ \A f \in Files : <<Upload, f>> \in Callers /\ <<Delete, f>> \in Callers /\ <<Web, f>> \in Callers
  /\ \A q \in Pingers, f \in Files : <<q, f>> \in Callers /\ q /= Upload /\ q /= Delete /\ q /= Web
  /\ \A c \in Callers : c[2] \in Files /\ c = <<c[1], c[2]>>
  /\ Upload /= Delete /\ Upload /= Web /\ Delete /= Web
BY ProvidersAssumption DEF Callers, Upload, Delete, Web

\* A walk with one field changed is a walk.
LEMMA JobFields ==
  ASSUME NEW j \in Jobs
  PROVE  /\ \A v \in {"idle", "before", "run", "ok", "failed"} : [j EXCEPT !.st = v] \in Jobs
         /\ \A v \in Seq(Nodes) : [j EXCEPT !.peers = v] \in Jobs
         /\ \A v \in Nat \ {0} : [j EXCEPT !.k = v] \in Jobs
         /\ \A v \in SUBSET Nodes : [j EXCEPT !.good = v] \in Jobs
         /\ \A v \in Nat : [j EXCEPT !.won = v] \in Jobs
         /\ \A v \in BOOLEAN : [j EXCEPT !.on = v] \in Jobs
         /\ \A v \in Nodes \cup {None} : [j EXCEPT !.of = v] \in Jobs
BY DEF Jobs

\* A walk whose caller waits is the same walk.
LEMMA WaitingWalk ==
  ASSUME NEW j \in Jobs
  PROVE  LET w == [j EXCEPT !.on = TRUE]
         IN  w \in Jobs /\ w.st = j.st /\ w.peers = j.peers /\ w.k = j.k /\ w.good = j.good /\ w.won = j.won /\ w.on
<1> DEFINE w == [j EXCEPT !.on = TRUE]
<1>1. w \in Jobs
  BY JobFields
<1> QED BY <1>1 DEF Jobs

\* A walk that has begun or ended is a walk.
LEMMA NoJobIsJob ==
  /\ NoJob \in Jobs /\ NoJob.st = "idle" /\ ~NoJob.on
  /\ \A s \in {"idle", "before", "ok", "failed"} :
       /\ [NoJob EXCEPT !.st = s] \in Jobs
       /\ [NoJob EXCEPT !.st = s].st = s /\ ~[NoJob EXCEPT !.st = s].on
<1>1. <<>> \in Seq(Nodes)
  OBVIOUS
<1>2. NoJob \in Jobs /\ NoJob.st = "idle" /\ ~NoJob.on
  BY <1>1 DEF NoJob, Jobs
<1>3. ASSUME NEW s \in {"idle", "before", "ok", "failed"}
      PROVE  [NoJob EXCEPT !.st = s] \in Jobs /\ [NoJob EXCEPT !.st = s].st = s /\ ~[NoJob EXCEPT !.st = s].on
  <2>1. [NoJob EXCEPT !.st = s] \in Jobs
    BY <1>2, JobFields
  <2>2. PICK j \in Jobs : j = NoJob
    BY <1>2
  <2>3. [j EXCEPT !.st = s].st = s /\ [j EXCEPT !.st = s].on = j.on
    BY DEF Jobs
  <2> QED BY <1>2, <2>1, <2>2, <2>3
<1> QED BY <1>2, <1>3

LEMMA WalkIsJob ==
  ASSUME NEW s \in Seq(Nodes), NEW n \in Nodes \cup {None}
  PROVE  LET w == Walk(s, n)
         IN  w \in Jobs /\ w.st = "run" /\ w.peers = s /\ w.k = 1 /\ w.good = {} /\ w.won = 0 /\ ~w.on /\ w.of = n
<1> DEFINE a == [NoJob EXCEPT !.st = "run"]
           b == [a EXCEPT !.peers = s]
           w == [b EXCEPT !.of = n]
<1>1. Walk(s, n) = w
  BY DEF Walk
<1>2. NoJob \in Jobs /\ NoJob.k = 1 /\ NoJob.good = {} /\ NoJob.won = 0 /\ ~NoJob.on
  BY NoJobIsJob DEF NoJob
<1>3. a \in Jobs /\ a.st = "run" /\ a.k = 1 /\ a.good = {} /\ a.won = 0 /\ ~a.on
  <2>1. a \in Jobs
    BY <1>2, JobFields
  <2> QED BY <1>2, <2>1 DEF Jobs
<1> HIDE DEF a
<1>4. b \in Jobs /\ b.st = "run" /\ b.peers = s /\ b.k = 1 /\ b.good = {} /\ b.won = 0 /\ ~b.on
  <2>1. b \in Jobs
    BY <1>3, JobFields
  <2> QED BY <1>3, <2>1 DEF Jobs
<1> HIDE DEF b
<1>5. w \in Jobs /\ w.st = "run" /\ w.peers = s /\ w.k = 1 /\ w.good = {} /\ w.won = 0 /\ ~w.on /\ w.of = n
  <2>1. w \in Jobs
    BY <1>4, JobFields
  <2> QED BY <1>4, <2>1 DEF Jobs
<1> QED BY <1>1, <1>5

\* What a web user's upload leaves in its job.
GivenTo(n) == [NoJob EXCEPT !.st = "ok", !.of = n]

LEMMA GivenIsJob ==
  ASSUME NEW n \in Nodes
  PROVE  GivenTo(n) \in Jobs /\ GivenTo(n).st = "ok" /\ ~GivenTo(n).on /\ GivenTo(n).of = n
<1> DEFINE a == [NoJob EXCEPT !.st = "ok"]
           b == [a EXCEPT !.of = n]
<1>1. GivenTo(n) = b
  BY DEF GivenTo
<1>2. a \in Jobs /\ a.st = "ok" /\ ~a.on
  BY NoJobIsJob
<1> HIDE DEF a
<1>3. b \in Jobs
  BY <1>2, JobFields
<1>4. b.st = "ok" /\ ~b.on /\ b.of = n
  BY <1>2, <1>3 DEF Jobs
<1> QED BY <1>1, <1>3, <1>4

\* What After leaves: a walk one step further, or none.
LEMMA AfterWalks ==
  ASSUME NEW c \in Callers, job[c] \in Jobs, job[c].st = "run", job[c].k <= Len(job[c].peers), NEW ok \in BOOLEAN
  PROVE  /\ After(c, ok) \in Jobs
         /\ ~After(c, ok).on
         /\ After(c, ok).st \in {"run", "ok", "failed"}
         /\ After(c, ok).st = "run" =>
              /\ After(c, ok).k = job[c].k + 1 /\ After(c, ok).k <= Len(After(c, ok).peers)
              /\ After(c, ok).peers = job[c].peers
              /\ After(c, ok).good = IF ok THEN job[c].good \cup {job[c].peers[job[c].k]} ELSE job[c].good
              /\ After(c, ok).won = IF ok THEN job[c].won + 1 ELSE job[c].won
         /\ c[1] = Upload /\ After(c, ok).st = "ok" => ok /\ job[c].won + 1 = Copies
<1> DEFINE j == job[c]
           done == CASE c[1] = Upload -> ok /\ j.won + 1 = Copies
                     [] c[1] = Delete -> FALSE
                     [] OTHER         -> ok
           last == j.k = Len(j.peers)
           g == IF ok THEN j.good \cup {j.peers[j.k]} ELSE j.good
           v == IF ok THEN j.won + 1 ELSE j.won
           a == [j EXCEPT !.good = g]
           b == [a EXCEPT !.won = v]
           d == [b EXCEPT !.on = FALSE]
           e == [d EXCEPT !.k = d.k + 1]
           o == [NoJob EXCEPT !.st = IF done \/ c[1] = Delete THEN "ok" ELSE "failed"]
<1>1. After(c, ok) = IF ~done /\ ~last THEN e ELSE o
  BY DEF After
<1>2. j \in Jobs /\ j.st = "run" /\ j.peers \in Seq(Nodes) /\ j.k \in Nat \ {0} /\ j.k <= Len(j.peers)
      /\ j.good \subseteq Nodes /\ j.won \in Nat
  BY DEF Jobs
<1>3. j.peers[j.k] \in Nodes /\ Len(j.peers) \in Nat
  BY <1>2
<1>4. g \in SUBSET Nodes /\ v \in Nat
  BY <1>2, <1>3
<1> HIDE DEF j, g, v
<1>5. a \in Jobs /\ a.st = "run" /\ a.peers = j.peers /\ a.k = j.k /\ a.good = g
  <2>1. a \in Jobs
    BY <1>2, <1>4, JobFields
  <2> QED BY <1>2, <1>4, <2>1 DEF Jobs
<1> HIDE DEF a
<1>6. b \in Jobs /\ b.st = "run" /\ b.peers = j.peers /\ b.k = j.k /\ b.good = g /\ b.won = v
  <2>1. b \in Jobs
    BY <1>5, <1>4, JobFields
  <2> QED BY <1>5, <1>4, <2>1 DEF Jobs
<1> HIDE DEF b
<1>7. d \in Jobs /\ d.st = "run" /\ d.peers = j.peers /\ d.k = j.k /\ d.good = g /\ d.won = v /\ ~d.on
  <2>1. d \in Jobs
    BY <1>6, JobFields
  <2> QED BY <1>6, <2>1 DEF Jobs
<1> HIDE DEF d
<1>8. j.k + 1 \in Nat \ {0}
  BY <1>2
<1>9. e \in Jobs /\ e.st = "run" /\ e.peers = j.peers /\ e.k = j.k + 1 /\ e.good = g /\ e.won = v /\ ~e.on
  <2>1. e \in Jobs
    BY <1>7, <1>8, JobFields
  <2> QED BY <1>7, <1>8, <2>1 DEF Jobs
<1>10. o \in Jobs /\ ~o.on /\ o.st \in {"ok", "failed"} /\ (o.st = "ok" => done \/ c[1] = Delete)
  BY NoJobIsJob
<1>11. c[1] = Upload => (done <=> ok /\ j.won + 1 = Copies) /\ c[1] /= Delete
  BY CallersApart
<1> HIDE DEF done, last, e, o
<1>12. CASE ~done /\ ~last
  BY <1>1, <1>2, <1>3, <1>9, <1>12 DEF j, g, v, last
<1>13. CASE done \/ last
  BY <1>1, <1>10, <1>11, <1>13 DEF j
<1> QED BY <1>12, <1>13

-----------------------------------------------------------------------------
(***************************************************************************)
(* What a step does to walks and handlers.                                 *)
(***************************************************************************)
\* The commands of each trade.
LEMMA CommandsOf ==
  ASSUME NEW c \in Callers
  PROVE  /\ c[1] = Upload => Commands(c) = {"cp", "pin", "confirm"}
         /\ c[1] = Delete => Commands(c) = {"unpin", "rm", "rmr", "blockrm", "freed", "webrm"}
         /\ c[1] = Web => Commands(c) = {"webconfirm", "webpin", "cp", "pin", "confirm"}
         /\ c[1] \in Pingers => Commands(c) = {"verify", "cp", "pin", "confirm"}
         /\ c[1] = Upload \/ c[1] = Delete \/ c[1] = Web \/ c[1] \in Pingers
         /\ Commands(c) \subseteq Pcs
<1>1. c[1] = Upload \/ c[1] = Delete \/ c[1] = Web \/ c[1] \in Pingers
  BY DEF Callers
<1>2. c[1] \in Pingers => c[1] /= Upload /\ c[1] /= Delete /\ c[1] /= Web
  BY CallersApart, ProvidersAssumption
<1>3. /\ c[1] = Upload => Commands(c) = {"cp", "pin", "confirm"}
      /\ c[1] = Delete => Commands(c) = {"unpin", "rm", "rmr", "blockrm", "freed", "webrm"}
      /\ c[1] = Web => Commands(c) = {"webconfirm", "webpin", "cp", "pin", "confirm"}
      /\ c[1] \in Pingers => Commands(c) = {"verify", "cp", "pin", "confirm"}
  BY <1>1, <1>2, CallersApart DEF Commands
<1> QED BY <1>1, <1>3 DEF Pcs

\* The fields of a handler.
LEMMA CallFields ==
  ASSUME TypeInv, NEW x \in calls
  PROVE  /\ x \in Calls /\ x.by \in Callers /\ x.by[2] \in Files /\ x.at \in Nodes /\ x.nth \in Nat \ {0}
         /\ job[x.by] \in Jobs
         /\ \A pc \in Pcs : LET y == [x EXCEPT !.pc = pc]
                               IN  y \in Calls /\ y.by = x.by /\ y.nth = x.nth /\ y.at = x.at /\ y.pc = pc
         /\ \A n \in Nodes : LET y == [x EXCEPT !.at = n, !.pc = "cp"]
                                IN  y \in Calls /\ y.by = x.by /\ y.nth = x.nth /\ y.at = n /\ y.pc = "cp"
<1>1. x \in Calls
  BY DEF TypeInv
<1>2. x.by \in Callers /\ x.at \in Nodes /\ x.nth \in Nat \ {0}
  BY <1>1 DEF Calls
<1>3. ASSUME NEW pc \in Pcs
      PROVE  LET y == [x EXCEPT !.pc = pc] IN y \in Calls /\ y.by = x.by /\ y.nth = x.nth /\ y.at = x.at /\ y.pc = pc
  BY <1>1 DEF Calls
<1>4. ASSUME NEW n \in Nodes
      PROVE  LET y == [x EXCEPT !.at = n, !.pc = "cp"]
             IN  y \in Calls /\ y.by = x.by /\ y.nth = x.nth /\ y.at = n /\ y.pc = "cp"
  BY <1>1 DEF Calls, Pcs
<1> QED BY <1>1, <1>2, <1>3, <1>4, CallersApart DEF TypeInv

\* The contract's lists gain and lose one file at a time.
LEMMA ListChanges ==
  ASSUME NEW s \in Seq(Files), NEW f \in Files
  PROVE  /\ Append(s, f) \in Seq(Files) /\ ToSet(Append(s, f)) = ToSet(s) \cup {f}
         /\ \A r \in Without(s, f) : r \in Seq(Files) /\ ToSet(s) \ {f} \subseteq ToSet(r) /\ ToSet(r) \subseteq ToSet(s)
<1>1. Append(s, f) \in Seq(Files) /\ ToSet(Append(s, f)) = ToSet(s) \cup {f}
  <2> DEFINE a == Append(s, f)
  <2>1. a \in Seq(Files) /\ Len(a) = Len(s) + 1 /\ Len(s) \in Nat /\ DOMAIN a = 1 .. Len(a) /\ DOMAIN s = 1 .. Len(s)
    BY AppendProperties, LenProperties
  <2>2. a[Len(s) + 1] = f /\ \A i \in 1 .. Len(s) : a[i] = s[i]
    BY AppendProperties
  <2> HIDE DEF a
  <2> QED BY <2>1, <2>2 DEF ToSet, a
<1>2. ASSUME NEW i \in DOMAIN s, s[i] = f
      PROVE  LET r == SubSeq(s, 1, i - 1) \o SubSeq(s, i + 1, Len(s))
             IN  r \in Seq(Files) /\ ToSet(s) \ {f} \subseteq ToSet(r) /\ ToSet(r) \subseteq ToSet(s)
  <2> DEFINE a == SubSeq(s, 1, i - 1)
             b == SubSeq(s, i + 1, Len(s))
             r == a \o b
  <2>1. i \in 1 .. Len(s) /\ Len(s) \in Nat /\ DOMAIN s = 1 .. Len(s)
    OBVIOUS
  <2>2. a \in Seq(Files) /\ Len(a) = i - 1 /\ \A k \in 1 .. i - 1 : a[k] = s[k]
    BY <2>1
  <2>3. b \in Seq(Files) /\ Len(b) = Len(s) - i /\ \A k \in 1 .. Len(s) - i : b[k] = s[k + i]
    BY <2>1
  <2> HIDE DEF a, b
  <2>4. r \in Seq(Files) /\ Len(r) = Len(s) - 1 /\ DOMAIN r = 1 .. Len(s) - 1
    <3>1. r \in Seq(Files) /\ Len(r) = Len(a) + Len(b)
      BY <2>2, <2>3, ConcatProperties
    <3>2. Len(a) + Len(b) = Len(s) - 1
      BY <2>1, <2>2, <2>3
    <3> HIDE DEF r
    <3> QED BY <3>1, <3>2, LenProperties
  <2>5. \A k \in 1 .. Len(s) - 1 : r[k] = IF k < i THEN s[k] ELSE s[k + 1]
    <3>1. \A k \in 1 .. (Len(a) + Len(b)) : r[k] = IF k <= Len(a) THEN a[k] ELSE b[k - Len(a)]
      BY <2>2, <2>3, ConcatProperties
    <3>2. \A k \in 1 .. (i - 1) + (Len(s) - i) : r[k] = IF k <= i - 1 THEN a[k] ELSE b[k - (i - 1)]
      BY <3>1, <2>2, <2>3
    <3> HIDE DEF r
    <3>3. ASSUME NEW k \in 1 .. Len(s) - 1 PROVE r[k] = IF k < i THEN s[k] ELSE s[k + 1]
      <4>1. r[k] = IF k <= i - 1 THEN a[k] ELSE b[k - (i - 1)]
        BY <3>2, <2>1
      <4>2. CASE k < i
        BY <4>1, <4>2, <2>1, <2>2
      <4>3. CASE k >= i
        <5>1. k - (i - 1) \in 1 .. Len(s) - i /\ (k - (i - 1)) + i = k + 1 /\ ~(k < i)
          BY <4>3, <2>1
        <5>2. r[k] = b[k - (i - 1)]
          BY <4>1, <4>3, <2>1
        <5>3. b[k - (i - 1)] = s[(k - (i - 1)) + i]
          BY <5>1, <2>3
        <5> QED BY <5>1, <5>2, <5>3
      <4> QED BY <4>2, <4>3, <2>1
    <3> QED BY <3>3
  <2> HIDE DEF r
  <2>6. ASSUME NEW k \in 1 .. Len(s), s[k] /= f PROVE s[k] \in ToSet(r)
    <3>1. CASE k < i
      BY <3>1, <2>1, <2>4, <2>5 DEF ToSet
    <3>2. CASE k > i
      <4>1. k - 1 \in 1 .. Len(s) - 1 /\ r[k - 1] = s[k]
        BY <3>2, <2>1, <2>5
      <4> QED BY <4>1, <2>4 DEF ToSet
    <3> QED BY <3>1, <3>2, <2>6, <1>2, <2>1
  <2>7. ToSet(r) \subseteq ToSet(s)
    BY <2>1, <2>4, <2>5 DEF ToSet
  <2>8. ToSet(s) \ {f} \subseteq ToSet(r)
    BY <2>1, <2>6 DEF ToSet
  <2> QED BY <2>4, <2>7, <2>8 DEF r, a, b
<1> QED BY <1>1, <1>2 DEF Without

\* A handler goes on to another command of its trade, or answers, or is
\* followed by uploads to other nodes.
Spreads(x) ==
  /\ x.by[1] = Web /\ UNCHANGED job
  /\ \E ns \in SUBSET (Nodes \ (down \cup {x.at})) :
       calls' = (calls \ {x}) \cup {[x EXCEPT !.at = n, !.pc = "cp"] : n \in ns}

LEMMA WebSpreads ==
  ASSUME TypeInv, CallInv, NEW x \in calls, WebPin(x)
  PROVE  Answer(x, FALSE) \/ Spreads(x)
<1>1. x.by \in Callers /\ x.pc \in Commands(x.by)
  BY CallFields DEF CallInv, CallRight
<1>2. x.by[1] = Web
  BY <1>1, CommandsOf DEF WebPin, May
<1> QED BY <1>2 DEF WebPin, Spreads

LEMMA HandlerMoves ==
  ASSUME TypeInv, CallInv, NEW x \in calls, Handler(x)
  PROVE  /\ UNCHANGED <<banned, down, scan>>
         /\ faults' = faults \/ faults' = faults + 1
         /\ \/ \E pc \in Commands(x.by) \ {"webconfirm"} : GoTo(x, pc)
            \/ Answer(x, FALSE)
            \/ Answer(x, TRUE) /\ (Uploads(x) => x.by[2] \in ToSet(list'[x.at]))
            \/ Spreads(x)
<1>1. x.by \in Callers /\ x.pc \in Commands(x.by)
  BY CallFields DEF CallInv, CallRight
<1>2. CASE Verify(x)
  BY <1>1, <1>2, CommandsOf DEF Verify, May, Fault
<1>3. CASE CopyIn(x)
  BY <1>1, <1>3, CommandsOf DEF CopyIn, May, Fault
<1>4. CASE PinFile(x)
  BY <1>1, <1>4, CommandsOf DEF PinFile, May, Fault
<1>5. CASE Confirm(x)
  <2>1. list[x.at] \in Seq(Files) /\ x.at \in Nodes /\ x.by[2] \in Files
    BY CallFields DEF TypeInv
  <2>2. ToSet(Append(list[x.at], x.by[2])) = ToSet(list[x.at]) \cup {x.by[2]}
    BY <2>1, ListChanges
  <2>3. \/ Answer(x, FALSE)
        \/ Answer(x, TRUE) /\ list' = IF x.by[2] \in Lists(x.at) THEN list
                                    ELSE [list EXCEPT ![x.at] = Append(@, x.by[2])]
    BY <1>5 DEF Confirm
  <2>4. \/ Answer(x, FALSE)
        \/ Answer(x, TRUE) /\ x.by[2] \in ToSet(list'[x.at])
    <3>1. CASE list' = [list EXCEPT ![x.at] = Append(@, x.by[2])]
      <4>1. list'[x.at] = Append(list[x.at], x.by[2])
        BY <2>1, <3>1 DEF TypeInv
      <4> QED BY <2>2, <2>3, <4>1
    <3> QED BY <2>3, <3>1 DEF Lists
  <2> QED BY <1>5, <2>4 DEF Confirm, Fault, nodeVars
<1>6. CASE Unpin(x)
  BY <1>1, <1>6, CommandsOf DEF Unpin, May
<1>7. CASE RemoveName(x)
  BY <1>1, <1>7, CommandsOf DEF RemoveName, May
<1>8. CASE RemoveBlock(x)
  BY <1>1, <1>8, CommandsOf DEF RemoveBlock, May
<1>9. CASE SpaceFreed(x)
  <2>1. ~Uploads(x)
    BY <1>1, <1>9, CommandsOf, CallersApart DEF SpaceFreed, May, Uploads
  <2> QED BY <1>9, <2>1 DEF SpaceFreed, Fault, nodeVars
<1>10. CASE WebConfirm(x)
  BY <1>1, <1>10, CommandsOf DEF WebConfirm, May, Fault
<1>11. CASE WebPin(x)
  <2>1. x.by[1] = Web
    BY <1>1, <1>11, CommandsOf DEF WebPin, May
  <2> QED BY <1>11, <2>1 DEF WebPin, Fault, Spreads
<1>12. CASE WebRemove(x)
  <2>1. ~Uploads(x)
    BY <1>1, <1>12, CommandsOf, CallersApart DEF WebRemove, May, Uploads
  <2> QED BY <1>12, <2>1 DEF WebRemove
<1> QED BY <1>2, <1>3, <1>4, <1>5, <1>6, <1>7, <1>8, <1>9, <1>10, <1>11, <1>12 DEF Handler

\* An answer ends the handler and moves its caller on, if that still waits.
LEMMA AnswerMoves ==
  ASSUME TypeInv, WalkInv, NEW x \in calls, NEW ok \in BOOLEAN, Answer(x, ok)
  PROVE  /\ calls' = calls \ {x}
         /\ job' \in [Callers -> Jobs]
         /\ \A c \in Callers : \/ job'[c] = job[c]
                               \/ c = x.by /\ Waits(x) /\ job[c].st = "run" /\ job'[c] = After(c, ok)
<1>1. x.by \in Callers /\ job[x.by] \in Jobs
  BY CallFields
<1>2. CASE ~Waits(x)
  BY <1>2 DEF Answer, TypeInv
<1>3. CASE Waits(x)
  <2>1. job[x.by].st = "run" /\ job[x.by].k <= Len(job[x.by].peers)
    BY <1>1, <1>3 DEF Waits, WalkInv
  <2>2. After(x.by, ok) \in Jobs
    BY <1>1, <2>1, AfterWalks
  <2>3. job' = [job EXCEPT ![x.by] = After(x.by, ok)] /\ calls' = calls \ {x}
    BY <1>3 DEF Answer
  <2> QED BY <1>1, <1>3, <2>1, <2>2, <2>3 DEF TypeInv
<1> QED BY <1>2, <1>3

-----------------------------------------------------------------------------
(***************************************************************************)
(* What a handler does to its node.                                        *)
(***************************************************************************)
\* A set of a node gains a file.
LEMMA SetGrows ==
  ASSUME NEW g \in [Nodes -> SUBSET Files], NEW n \in Nodes, NEW f \in Files
  PROVE  LET h == [g EXCEPT ![n] = @ \cup {f}]
         IN  /\ h \in [Nodes -> SUBSET Files]
             /\ \A m \in Nodes, e \in Files : e \in h[m] <=> e \in g[m] \/ (m = n /\ e = f)
OBVIOUS

\* What a handler does is at its node and about its file.
Elsewhere(n, f) ==
  \A m \in Nodes, g \in Files : m /= n \/ g /= f =>
    /\ (g \in ToSet(list[m]))' <=> g \in Lists(m)
    /\ g \in held'[m] <=> g \in held[m]
    /\ g \in entry'[m] <=> g \in entry[m]
    /\ g \in pinned'[m] <=> g \in pinned[m]

StoresIn(n, f) ==
  /\ f \in Lists(n) => (f \in ToSet(list[n]))'
  /\ f \in held[n] => f \in held'[n]
  /\ f \in entry[n] => f \in entry'[n]
  /\ f \in pinned[n] => f \in pinned'[n]

NodeTypes ==
  /\ list \in [Nodes -> Seq(Files)]
  /\ held \in [Nodes -> SUBSET Files]
  /\ entry \in [Nodes -> SUBSET Files]
  /\ pinned \in [Nodes -> SUBSET Files]

LEMMA HandlerStores ==
  ASSUME TypeInv, CallInv, NEW x \in calls, Handler(x)
  PROVE  /\ NodeTypes'
         /\ Elsewhere(x.at, x.by[2])
         /\ x.by[1] /= Delete => StoresIn(x.at, x.by[2])
<1> DEFINE f == x.by[2]
           n == x.at
<1>1. NodeTypes /\ f \in Files /\ n \in Nodes /\ x.by \in Callers /\ x.pc \in Commands(x.by)
  BY CallFields DEF TypeInv, NodeTypes, CallInv, CallRight
<1>2. x.pc \in {"unpin", "rm", "rmr", "blockrm", "freed", "webrm"} => x.by[1] = Delete
  BY <1>1, CommandsOf
<1> SUFFICES NodeTypes' /\ Elsewhere(n, f) /\ (x.by[1] /= Delete => StoresIn(n, f))
  OBVIOUS
<1> HIDE DEF f, n
<1> USE DEF NodeTypes, Elsewhere, StoresIn, Lists
<1>3. CASE Verify(x)
  BY <1>1, <1>3 DEF Verify, nodeVars
<1>4. CASE CopyIn(x)
  <2>1. UNCHANGED <<list, pinned>>
    BY <1>4 DEF CopyIn
  <2>2. \/ UNCHANGED <<held, entry>>
        \/ entry' = [entry EXCEPT ![n] = @ \cup {f}] /\ held' = [held EXCEPT ![n] = @ \cup {f}]
    BY <1>4 DEF CopyIn, f, n
  <2>3. CASE UNCHANGED <<held, entry>>
    BY <1>1, <2>1, <2>3
  <2>4. CASE entry' = [entry EXCEPT ![n] = @ \cup {f}] /\ held' = [held EXCEPT ![n] = @ \cup {f}]
    <3>1. entry' \in [Nodes -> SUBSET Files] /\ \A m \in Nodes, e \in Files : e \in entry'[m] <=> e \in entry[m] \/ (m = n /\ e = f)
      BY <1>1, <2>4, SetGrows
    <3>2. held' \in [Nodes -> SUBSET Files] /\ \A m \in Nodes, e \in Files : e \in held'[m] <=> e \in held[m] \/ (m = n /\ e = f)
      BY <1>1, <2>4, SetGrows
    <3> QED BY <1>1, <2>1, <3>1, <3>2
  <2> QED BY <2>2, <2>3, <2>4
<1>5. CASE PinFile(x) \/ WebPin(x)
  <2>1. UNCHANGED <<list, entry>>
    BY <1>5 DEF PinFile, WebPin
  <2>2. \/ UNCHANGED <<held, pinned>>
        \/ held' = [held EXCEPT ![n] = @ \cup {f}] /\ pinned' = [pinned EXCEPT ![n] = @ \cup {f}]
    BY <1>5 DEF PinFile, WebPin, f, n
  <2>3. CASE UNCHANGED <<held, pinned>>
    BY <1>1, <2>1, <2>3
  <2>4. CASE held' = [held EXCEPT ![n] = @ \cup {f}] /\ pinned' = [pinned EXCEPT ![n] = @ \cup {f}]
    <3>1. pinned' \in [Nodes -> SUBSET Files] /\ \A m \in Nodes, e \in Files : e \in pinned'[m] <=> e \in pinned[m] \/ (m = n /\ e = f)
      BY <1>1, <2>4, SetGrows
    <3>2. held' \in [Nodes -> SUBSET Files] /\ \A m \in Nodes, e \in Files : e \in held'[m] <=> e \in held[m] \/ (m = n /\ e = f)
      BY <1>1, <2>4, SetGrows
    <3> QED BY <1>1, <2>1, <3>1, <3>2
  <2> QED BY <2>2, <2>3, <2>4
<1>6. CASE Confirm(x) \/ WebConfirm(x)
  <2>1. list' = list \/ list' = [list EXCEPT ![n] = Append(@, f)]
    BY <1>6 DEF Confirm, WebConfirm, f, n
  <2>2. /\ list' \in [Nodes -> Seq(Files)]
        /\ \A m \in Nodes, g \in Files : m /= n \/ g /= f => (g \in ToSet(list'[m]) <=> g \in ToSet(list[m]))
        /\ f \in ToSet(list[n]) => f \in ToSet(list'[n])
    <3>1. list[n] \in Seq(Files)
      BY <1>1
    <3> DEFINE a == Append(list[n], f)
    <3>2. a \in Seq(Files) /\ ToSet(a) = ToSet(list[n]) \cup {f}
      BY <1>1, <3>1, ListChanges
    <3>3. list' = list \/ list' = [list EXCEPT ![n] = a]
      BY <2>1
    <3> HIDE DEF a
    <3>4. \A m \in Nodes : list'[m] = list[m] \/ (m = n /\ list'[m] = a)
      BY <1>1, <3>3
    <3>5. list' \in [Nodes -> Seq(Files)]
      BY <1>1, <3>2, <3>3
    <3> QED BY <1>1, <3>2, <3>4, <3>5
  <2> QED BY <1>1, <1>6, <2>2 DEF Confirm, WebConfirm, nodeVars
<1>7. CASE Unpin(x)
  BY <1>1, <1>2, <1>7 DEF Unpin, May, f, n
<1>8. CASE RemoveName(x)
  BY <1>1, <1>2, <1>8 DEF RemoveName, May, f, n
<1>9. CASE RemoveBlock(x)
  BY <1>1, <1>2, <1>9 DEF RemoveBlock, May, f, n
<1>10. CASE SpaceFreed(x)
  <2>1. list[n] \in Seq(Files)
    BY <1>1
  <2>2. list' = list \/ \E s \in Without(list[n], f) : list' = [list EXCEPT ![n] = s]
    BY <1>10 DEF SpaceFreed, f, n
  <2>3. /\ list' \in [Nodes -> Seq(Files)]
        /\ \A m \in Nodes, g \in Files : m /= n \/ g /= f => (g \in ToSet(list'[m]) <=> g \in ToSet(list[m]))
    <3>1. CASE list' = list
      BY <1>1, <3>1
    <3>2. ASSUME NEW s \in Without(list[n], f), list' = [list EXCEPT ![n] = s]
          PROVE  /\ list' \in [Nodes -> Seq(Files)]
                 /\ \A m \in Nodes, g \in Files : m /= n \/ g /= f => (g \in ToSet(list'[m]) <=> g \in ToSet(list[m]))
      <4>1. s \in Seq(Files) /\ ToSet(list[n]) \ {f} \subseteq ToSet(s) /\ ToSet(s) \subseteq ToSet(list[n])
        BY <1>1, <2>1, <3>2, ListChanges
      <4> QED BY <1>1, <3>2, <4>1
    <3> QED BY <2>2, <3>1, <3>2
  <2> QED BY <1>1, <1>2, <1>10, <2>3 DEF SpaceFreed, May, nodeVars
<1>11. CASE WebRemove(x)
  BY <1>1, <1>2, <1>11 DEF WebRemove, May, f, n
<1> QED BY <1>3, <1>4, <1>5, <1>6, <1>7, <1>8, <1>9, <1>10, <1>11 DEF Handler

\* What a web user's request does at its start.
Begins(n, f) == WebUpload(n, f) \/ WebDelete(n, f)

LEMMA Begun ==
  ASSUME TypeInv, NEW n \in Nodes, NEW f \in Files, Begins(n, f)
  PROVE  /\ UNCHANGED <<list, banned, down, scan, faults, entry>>
         /\ NodeTypes'
         /\ \A m \in Nodes : held[m] \subseteq held'[m] /\ pinned'[m] \subseteq pinned[m] /\ pinned[m] \ {f} \subseteq pinned'[m]
         /\ WebUpload(n, f) => f \in held'[n] /\ UNCHANGED pinned
         /\ \E c \in Callers, w \in Jobs, y \in Calls :
              /\ c[2] = f /\ job[c].st = "idle" /\ job' = [job EXCEPT ![c] = w]
              /\ calls' = calls \cup {y} /\ y.by = c /\ y.at = n /\ n \notin down
              /\ \/ WebUpload(n, f) /\ c = <<Web, f>> /\ w = GivenTo(n) /\ y.pc = "webconfirm"
                 \/ c = <<Delete, f>> /\ w = [NoJob EXCEPT !.st = "ok"] /\ y.pc = "webrm"
<1>1. NodeTypes
  BY DEF TypeInv, NodeTypes
<1>2. CASE WebUpload(n, f)
  <2>1. /\ held' = [held EXCEPT ![n] = @ \cup {f}]
        /\ UNCHANGED <<list, banned, down, scan, faults, entry, pinned>>
    BY <1>2 DEF WebUpload
  <2>2. NodeTypes' /\ f \in held'[n] /\ \A m \in Nodes : held[m] \subseteq held'[m]
    BY <1>1, <2>1 DEF NodeTypes
  <2> DEFINE c == <<Web, f>>
             y == [by |-> c, nth |-> 1, at |-> n, pc |-> "webconfirm"]
  <2>3. c \in Callers /\ c[2] = f
    BY CallersApart
  <2>4. y \in Calls /\ y.by = c /\ y.at = n /\ y.pc = "webconfirm"
    BY <2>3 DEF Calls, Pcs
  <2>5. job[c].st = "idle" /\ n \notin down /\ job' = [job EXCEPT ![c] = GivenTo(n)] /\ calls' = calls \cup {y}
    BY <1>2 DEF WebUpload, Runs, GivenTo
  <2> HIDE DEF c, y
  <2>6. c = <<Web, f>>
    BY DEF c
  <2> QED BY <1>2, <2>1, <2>2, <2>3, <2>4, <2>5, <2>6, GivenIsJob
<1>3. CASE WebDelete(n, f)
  <2>1. /\ pinned' = [pinned EXCEPT ![n] = @ \ {f}]
        /\ UNCHANGED <<list, banned, down, scan, faults, held, entry>>
    BY <1>3 DEF WebDelete
  <2>2. NodeTypes' /\ \A m \in Nodes : pinned'[m] \subseteq pinned[m] /\ pinned[m] \ {f} \subseteq pinned'[m]
    BY <1>1, <2>1 DEF NodeTypes
  <2> DEFINE c == <<Delete, f>>
             y == [by |-> c, nth |-> 1, at |-> n, pc |-> "webrm"]
  <2>3. c \in Callers /\ c[2] = f
    BY CallersApart
  <2>4. y \in Calls /\ y.by = c /\ y.at = n /\ y.pc = "webrm"
    BY <2>3 DEF Calls, Pcs
  <2>5. job[c].st = "idle" /\ n \notin down /\ job' = [job EXCEPT ![c] = [NoJob EXCEPT !.st = "ok"]] /\ calls' = calls \cup {y}
    BY <1>3 DEF WebDelete, Runs
  <2>6. ~WebUpload(n, f)
    BY <1>1, <1>3, <2>1 DEF WebUpload, WebDelete, NodeTypes
  <2> HIDE DEF c, y
  <2>7. c = <<Delete, f>>
    BY DEF c
  <2> QED BY <2>1, <2>2, <2>3, <2>4, <2>5, <2>6, <2>7, NoJobIsJob
<1> QED BY <1>2, <1>3 DEF Begins

-----------------------------------------------------------------------------
(***************************************************************************)
(* Types, and walks that stay within their peers.                          *)
(***************************************************************************)
LEMMA SomeNodes ==
  ASSUME NEW S \in SUBSET Nodes, NEW m \in Nat
  PROVE  /\ IsFiniteSet(S) /\ Cardinality(S) \in Nat /\ Fewer(m, Cardinality(S)) \in Nat
         /\ S /= {} /\ m > 0 => Fewer(m, Cardinality(S)) > 0
<1>1. IsFiniteSet(S)
  BY ProvidersAssumption, FS_Subset
<1>2. Cardinality(S) \in Nat /\ (S /= {} => Cardinality(S) /= 0)
  BY <1>1, FS_CardinalityType, FS_EmptySet
<1> QED BY <1>1, <1>2 DEF Fewer

\* The answers of the contract are lists of nodes.
LEMMA AnswersAreLists ==
  ASSUME NEW S \in SUBSET Nodes, NEW k \in Nat, NEW s \in Answers(S, k)
  PROVE  s \in Seq(Nodes) /\ Len(s) = k /\ ToSet(s) \subseteq S
<1>1. s \in [1 .. k -> S]
  BY DEF Answers
<1>2. s \in Seq(S) /\ s \in Seq(Nodes)
  BY <1>1
<1>3. Len(s) = k /\ DOMAIN s = 1 .. k
  BY <1>1, <1>2, LenProperties
<1> QED BY <1>1, <1>2, <1>3 DEF ToSet

\* Each caller stands still, starts, dials, goes on or stops: it has a walk again.
Moves(c) ==
  \/ job'[c] = job[c]
  \/ job[c].st = "idle" /\ c[1] /= Web
     /\ \E s \in Seq(Nodes), n \in Nodes \cup {None} : Len(s) > 0 /\ job'[c] = Walk(s, n)
  \/ job[c].st = "idle" /\ c[1] = Web /\ \E n \in Nodes : WebUpload(n, c[2]) /\ job'[c] = GivenTo(n)
  \/ job[c].st = "idle" /\ c[1] = Delete /\ job'[c] = [NoJob EXCEPT !.st = "ok"]
  \/ job[c].st = "run" /\ ~job[c].on /\ job'[c] = [job[c] EXCEPT !.on = TRUE]
  \/ job[c].st = "run" /\ job'[c] = After(c, FALSE)
  \/ job[c].st = "run" /\ job'[c] = After(c, TRUE)
     /\ \E x \in calls : x.by = c /\ Waits(x) /\ (Uploads(x) => x.by[2] \in ToSet(list'[x.at]))
  \/ c[1] \in Pingers /\ job[c].st = "run" /\ job'[c] = [NoJob EXCEPT !.st = "failed"]

JobMoves == job' = [c \in Callers |-> job'[c]] /\ \A c \in Callers : Moves(c)

LEMMA OneMoves ==
  ASSUME TypeInv, NEW c \in Callers, NEW w, job' = [job EXCEPT ![c] = w], Moves(c)
  PROVE  JobMoves
BY DEF TypeInv, JobMoves, Moves

LEMMA NoneMoves ==
  ASSUME TypeInv, UNCHANGED job
  PROVE  JobMoves
BY DEF TypeInv, JobMoves, Moves

LEMMA MovesWalk ==
  ASSUME TypeInv, WalkInv, JobMoves
  PROVE  /\ job' \in [Callers -> Jobs]
         /\ \A c \in Callers : IF job'[c].st = "run" THEN job'[c].k <= Len(job'[c].peers) ELSE ~job'[c].on
         /\ \A f \in Files : WebRight(f)' /\ (job[<<Web, f>>].st = "ok" => job'[<<Web, f>>] = job[<<Web, f>>])
<1>8. ASSUME NEW f \in Files
      PROVE  WebRight(f)' /\ (job[<<Web, f>>].st = "ok" => job'[<<Web, f>>] = job[<<Web, f>>])
  <2> DEFINE c == <<Web, f>>
  <2>1. c \in Callers /\ c[1] = Web /\ c[1] /= Delete /\ c[1] \notin Pingers
    BY CallersApart
  <2>2. WebRight(f) /\ Moves(c)
    BY <2>1 DEF WalkInv, JobMoves
  <2>3. job'[c] = job[c] \/ (job[c].st = "idle" /\ \E n \in Nodes : job'[c] = GivenTo(n))
    BY <2>1, <2>2 DEF WebRight, Moves
  <2> QED BY <2>2, <2>3, GivenIsJob DEF WebRight, Through
<1> SUFFICES ASSUME NEW c \in Callers
             PROVE  /\ job'[c] \in Jobs
                    /\ IF job'[c].st = "run" THEN job'[c].k <= Len(job'[c].peers) ELSE ~job'[c].on
  BY <1>8 DEF JobMoves
<1>1. job[c] \in Jobs /\ IF job[c].st = "run" THEN job[c].k <= Len(job[c].peers) ELSE ~job[c].on
  BY DEF TypeInv, WalkInv
<1>2. CASE job'[c] = job[c]
  BY <1>1, <1>2
<1>3. ASSUME NEW s \in Seq(Nodes), NEW n \in Nodes \cup {None}, Len(s) > 0, job'[c] = Walk(s, n)
      PROVE  job'[c] \in Jobs /\ job'[c].st = "run" /\ job'[c].k <= Len(job'[c].peers)
  <2>1. Len(s) \in Nat
    BY LenProperties
  <2> QED BY <1>3, <2>1, WalkIsJob
<1>4. CASE job[c].st = "run" /\ job'[c] = [job[c] EXCEPT !.on = TRUE]
  <2>1. job'[c] \in Jobs
    BY <1>1, <1>4, JobFields
  <2> QED BY <1>1, <1>4, <2>1 DEF Jobs
<1>5. ASSUME NEW ok \in BOOLEAN, job[c].st = "run", job'[c] = After(c, ok)
      PROVE  job'[c] \in Jobs /\ IF job'[c].st = "run" THEN job'[c].k <= Len(job'[c].peers) ELSE ~job'[c].on
  BY <1>1, <1>5, AfterWalks
<1>6. CASE job'[c] = [NoJob EXCEPT !.st = "failed"] \/ job'[c] = [NoJob EXCEPT !.st = "ok"]
  BY <1>6, NoJobIsJob
<1>7. ASSUME NEW n \in Nodes, job'[c] = GivenTo(n)
      PROVE  job'[c] \in Jobs /\ job'[c].st /= "run" /\ ~job'[c].on
  BY <1>7, GivenIsJob
<1> QED BY <1>2, <1>3, <1>4, <1>5, <1>6, <1>7 DEF JobMoves, Moves

\* Every step moves callers like this.
LEMMA NextMoves == TypeInv /\ WalkInv /\ CallInv /\ [Next]_vars => JobMoves
<1> SUFFICES ASSUME TypeInv, WalkInv, CallInv, [Next]_vars PROVE JobMoves
  OBVIOUS
<1>0. \A c \in Callers : job[c].on => job[c].st = "run"
  BY DEF WalkInv
<1>1. ASSUME NEW f \in Files, StartUpload(f) PROVE JobMoves
  <2> DEFINE c == <<Upload, f>>
  <2>1. PICK k \in {Fewer(Copies, Cardinality(Nodes \ banned))} :
          \E a, b \in Answers(Nodes \ banned, k) : a \o b /= <<>> /\ job' = [job EXCEPT ![c] = Walk(a \o b, None)]
    BY <1>1 DEF StartUpload
  <2>2. PICK a, b \in Answers(Nodes \ banned, k) : a \o b /= <<>> /\ job' = [job EXCEPT ![c] = Walk(a \o b, None)]
    BY <2>1
  <2>3. k \in Nat
    <3>1. Nodes \ banned \in SUBSET Nodes /\ Copies \in Nat
      BY ProvidersAssumption
    <3>2. Fewer(Copies, Cardinality(Nodes \ banned)) \in Nat
      BY <3>1, SomeNodes
    <3> QED BY <3>2
  <2>4. a \in Seq(Nodes) /\ b \in Seq(Nodes)
    BY <2>2, <2>3, AnswersAreLists
  <2>5. a \o b \in Seq(Nodes)
    BY <2>4, ConcatProperties
  <2>6. Len(a \o b) > 0
    BY <2>2, <2>5, EmptySeq
  <2>7. c \in Callers /\ job[c].st = "idle" /\ c[1] /= Web
    BY <1>1, CallersApart DEF StartUpload
  <2> HIDE DEF c
  <2>8. job'[c] = Walk(a \o b, None)
    BY <2>2, <2>7 DEF TypeInv
  <2>9. Moves(c)
    BY <2>5, <2>6, <2>7, <2>8 DEF Moves
  <2> QED BY <2>2, <2>7, <2>9, OneMoves
<1>2. ASSUME NEW f \in Files, StartDelete(f) PROVE JobMoves
  <2> DEFINE c == <<Delete, f>>
             k == Fewer(Copies, Cardinality(Listing(f)))
  <2>1. PICK s \in Answers(Listing(f), k) : job' = [job EXCEPT ![c] = Walk(s, None)]
    BY <1>2 DEF StartDelete
  <2>2. Listing(f) \in SUBSET Nodes /\ Listing(f) /= {}
    BY <1>2 DEF StartDelete, Listing
  <2>3. k \in Nat /\ k > 0
    BY <2>2, SomeNodes, ProvidersAssumption
  <2>4. s \in Seq(Nodes) /\ Len(s) = k
    BY <2>1, <2>2, <2>3, AnswersAreLists
  <2>5. c \in Callers /\ job[c].st = "idle" /\ c[1] /= Web
    BY <1>2, CallersApart DEF StartDelete
  <2> HIDE DEF c, k
  <2>6. job'[c] = Walk(s, None)
    BY <2>1, <2>5 DEF TypeInv
  <2>7. Moves(c)
    BY <2>3, <2>4, <2>5, <2>6 DEF Moves
  <2> QED BY <2>1, <2>5, <2>7, OneMoves
<1>3. ASSUME NEW c \in Callers, Dial(c) PROVE JobMoves
  <2>1. CASE job' = [job EXCEPT ![c].on = TRUE]
    <3>1. job' = [job EXCEPT ![c] = [job[c] EXCEPT !.on = TRUE]]
      BY <2>1
    <3>2. Moves(c)
      BY <1>3, <3>1 DEF Dial, Moves, TypeInv
    <3> QED BY <3>1, <3>2, OneMoves
  <2>2. CASE job' = [job EXCEPT ![c] = After(c, FALSE)]
    <3>1. Moves(c)
      BY <1>3, <2>2 DEF Dial, Moves, TypeInv
    <3> QED BY <2>2, <3>1, OneMoves
  <2> QED BY <1>3, <2>1, <2>2 DEF Dial
<1>4. ASSUME NEW c \in Callers, GiveUp(c) PROVE JobMoves
  <2>1. job' = [job EXCEPT ![c] = After(c, FALSE)] /\ job[c].st = "run"
    BY <1>0, <1>4 DEF GiveUp
  <2>2. Moves(c)
    BY <2>1 DEF Moves, TypeInv
  <2> QED BY <2>1, <2>2, OneMoves
<1>5. ASSUME NEW x \in calls, Handler(x) PROVE JobMoves
  <2>1. CASE \E pc \in Commands(x.by) : GoTo(x, pc)
    BY <2>1, NoneMoves DEF GoTo
  <2>2. CASE Answer(x, FALSE)
    <3>1. job' \in [Callers -> Jobs] /\ \A c \in Callers : job'[c] = job[c] \/ (job[c].st = "run" /\ job'[c] = After(c, FALSE))
      BY <2>2, AnswerMoves
    <3> QED BY <3>1 DEF JobMoves, Moves
  <2>3. CASE Answer(x, TRUE) /\ (Uploads(x) => x.by[2] \in ToSet(list'[x.at]))
    <3>1. job' \in [Callers -> Jobs]
          /\ \A c \in Callers : \/ job'[c] = job[c]
                                \/ c = x.by /\ Waits(x) /\ job[c].st = "run" /\ job'[c] = After(c, TRUE)
      BY <2>3, AnswerMoves
    <3> QED BY <2>3, <3>1 DEF JobMoves, Moves
  <2>4. CASE Spreads(x)
    BY <2>4, NoneMoves DEF Spreads
  <2> QED BY <1>5, <2>1, <2>2, <2>3, <2>4, HandlerMoves
<1>6. ASSUME NEW q \in Pingers, Replicate(q) PROVE JobMoves
  <2> DEFINE b == scan[q].of
             i == scan[q].i
             few == Fewer(Attempts, Cardinality(Nodes \ banned))
             reads == i <= Len(list[b]) /\ few > 0 /\ job[<<q, list[b][i]>>].st = "idle"
             c == <<q, list[b][i]>>
  <2>1. CASE UNCHANGED job
    BY <2>1, NoneMoves
  <2>2. CASE reads /\ \E peers \in Answers(Nodes \ banned, few) : job' = [job EXCEPT ![c] = Walk(peers, b)]
    <3>1. scan[q] \in Scans /\ scan[q].st = "run"
      BY <1>6 DEF Replicate, TypeInv
    <3>2. b \in Nodes /\ i \in Nat \ {0}
      BY <3>1 DEF WalkInv, Scans
    <3>3. list[b] \in Seq(Files)
      BY <3>2 DEF TypeInv
    <3>4. i \in 1 .. Len(list[b])
      BY <2>2, <3>2, <3>3, LenProperties
    <3>5. list[b][i] \in Files
      BY <3>3, <3>4
    <3>6. c \in Callers /\ job[c].st = "idle" /\ c[1] /= Web
      BY <2>2, <3>5, CallersApart
    <3>7. few \in Nat
      BY SomeNodes, ProvidersAssumption
    <3>8. PICK s \in Answers(Nodes \ banned, few) : job' = [job EXCEPT ![c] = Walk(s, b)]
      BY <2>2
    <3>9. s \in Seq(Nodes) /\ Len(s) > 0
      BY <2>2, <3>7, <3>8, AnswersAreLists
    <3>10. job'[c] = Walk(s, b)
      BY <3>6, <3>8 DEF TypeInv
    <3> HIDE DEF b, i, few, c
    <3>11. Moves(c)
      BY <3>2, <3>6, <3>9, <3>10 DEF Moves
    <3> QED BY <3>6, <3>8, <3>11, OneMoves
  <2> QED BY <1>6, <2>1, <2>2 DEF Replicate
<1>7. ASSUME NEW q \in Pingers, PingerStops(q) PROVE JobMoves
  <2>1. job' = [c \in Callers |-> IF c[1] = q /\ job[c].st = "run" THEN [NoJob EXCEPT !.st = "failed"] ELSE job[c]]
    BY <1>7 DEF PingerStops
  <2>2. \A c \in Callers : Moves(c)
    BY <1>7, <2>1 DEF Moves
  <2> QED BY <2>1, <2>2 DEF JobMoves
<1>8. ASSUME NEW n \in Nodes, NodeStops(n) PROVE JobMoves
  <2>1. job' = [c \in Callers |-> IF \E x \in calls \ calls' : x.by = c /\ Waits(x) THEN After(c, FALSE) ELSE job[c]]
    BY <1>8 DEF NodeStops
  <2>2. ASSUME NEW c \in Callers PROVE Moves(c)
    <3>1. CASE \E x \in calls \ calls' : x.by = c /\ Waits(x)
      <4>1. job[c].on
        BY <3>1 DEF Waits
      <4> QED BY <1>0, <2>1, <3>1, <4>1 DEF Moves
    <3>2. CASE ~\E x \in calls \ calls' : x.by = c /\ Waits(x)
      BY <2>1, <3>2 DEF Moves
    <3> QED BY <3>1, <3>2
  <2> QED BY <2>1, <2>2 DEF JobMoves
<1>9. ASSUME UNCHANGED job PROVE JobMoves
  BY <1>9, NoneMoves
<1>11. ASSUME NEW n \in Nodes, NEW f \in Files, Begins(n, f) PROVE JobMoves
  <2>1. PICK c \in Callers, w \in Jobs :
          /\ c[2] = f /\ job[c].st = "idle" /\ job' = [job EXCEPT ![c] = w]
          /\ \/ WebUpload(n, f) /\ c = <<Web, f>> /\ w = GivenTo(n)
             \/ c = <<Delete, f>> /\ w = [NoJob EXCEPT !.st = "ok"]
    BY <1>11, Begun
  <2>2. job'[c] = w
    BY <2>1 DEF TypeInv
  <2>3. Moves(c)
    BY <2>1, <2>2 DEF Moves
  <2> QED BY <2>1, <2>3, OneMoves
<1>10. CASE Next
  <2>1. CASE \E q \in Pingers : Replicate(q) \/ ScanEnds(q) \/ PingerStops(q) \/ \E b \in Nodes : PingFails(q, b)
    BY <2>1, <1>6, <1>7, <1>9 DEF ScanEnds, PingFails
  <2>2. CASE \E n \in Nodes : NodeStops(n) \/ NodeReturns(n)
    BY <2>2, <1>8, <1>9 DEF NodeReturns
  <2> QED BY <1>10, <1>1, <1>2, <1>3, <1>4, <1>5, <1>11, <2>1, <2>2 DEF Next, Begins
<1> QED BY <1>9, <1>10 DEF vars

LEMMA DialedCall ==
  ASSUME TypeInv, WalkInv, NEW c \in Callers, job[c].st = "run", NEW pc \in Pcs
  PROVE  LET y == CallOf(c, job[c].peers[job[c].k], pc)
         IN  y \in Calls /\ y.by = c /\ y.nth = job[c].k /\ y.at = job[c].peers[job[c].k] /\ y.pc = pc
<1>1. job[c] \in Jobs /\ job[c].k <= Len(job[c].peers)
  BY DEF TypeInv, WalkInv
<1>2. job[c].peers \in Seq(Nodes) /\ job[c].k \in Nat \ {0}
  BY <1>1 DEF Jobs
<1>3. job[c].peers[job[c].k] \in Nodes
  BY <1>1, <1>2
<1> QED BY <1>2, <1>3 DEF CallOf, Calls

\* What the steps do to handlers: one begins, one goes on, one ends, or those
\* of a node that stops end.
HandlersMove ==
  \/ UNCHANGED calls
  \/ \E c \in Callers : Dial(c)
  \/ \E x \in calls : Handler(x)
  \/ \E n \in Nodes : NodeStops(n)
  \/ \E n \in Nodes, f \in Files : Begins(n, f)

LEMMA NextHandlers == [Next]_vars => HandlersMove
<1>1. ASSUME NEW f \in Files, StartUpload(f) \/ StartDelete(f) PROVE UNCHANGED calls
  BY <1>1 DEF StartUpload, StartDelete
<1>2. ASSUME NEW c \in Callers, GiveUp(c) PROVE UNCHANGED calls
  BY <1>2 DEF GiveUp
<1>3. ASSUME NEW q \in Pingers, Replicate(q) \/ ScanEnds(q) \/ PingerStops(q) \/ \E b \in Nodes : PingFails(q, b)
      PROVE  UNCHANGED calls
  BY <1>3 DEF Replicate, ScanEnds, PingerStops, PingFails
<1>4. ASSUME NEW n \in Nodes, NodeReturns(n) PROVE UNCHANGED calls
  BY <1>4 DEF NodeReturns
<1> QED BY <1>1, <1>2, <1>3, <1>4 DEF Next, vars, HandlersMove, Begins

LEMMA TypeNext == TypeInv /\ WalkInv /\ CallInv /\ [Next]_vars => TypeInv' /\ WalkInv'
<1> SUFFICES ASSUME TypeInv, WalkInv, CallInv, [Next]_vars PROVE TypeInv' /\ WalkInv'
  OBVIOUS
<1>1. /\ job' \in [Callers -> Jobs]
      /\ \A c \in Callers : IF job'[c].st = "run" THEN job'[c].k <= Len(job'[c].peers) ELSE ~job'[c].on
      /\ \A f \in Files : WebRight(f)'
  BY NextMoves, MovesWalk
<1>2. calls' \in SUBSET Calls
  <2>1. ASSUME NEW c \in Callers, Dial(c) PROVE calls' \in SUBSET Calls
    <3> DEFINE n == job[c].peers[job[c].k]
               first == CASE c[1] = Upload -> "cp" [] c[1] = Delete -> "unpin" [] OTHER -> "verify"
    <3>1. job[c].st = "run" /\ (UNCHANGED calls \/ calls' = calls \cup {CallOf(c, n, first)})
      BY <2>1 DEF Dial
    <3>2. first \in Pcs
      BY CallersApart DEF Pcs
    <3> HIDE DEF first
    <3>3. CallOf(c, n, first) \in Calls
      BY <3>1, <3>2, DialedCall
    <3> QED BY <3>1, <3>3 DEF TypeInv
  <2>2. ASSUME NEW x \in calls, Handler(x) PROVE calls' \in SUBSET Calls
    <3>1. ASSUME NEW pc \in Commands(x.by), GoTo(x, pc) PROVE calls' \in SUBSET Calls
      <4>1. x.by \in Callers
        BY CallFields
      <4>2. pc \in Pcs
        BY <3>1, <4>1, CommandsOf DEF Pcs
      <4>3. [x EXCEPT !.pc = pc] \in Calls
        BY <4>2, CallFields
      <4> QED BY <3>1, <4>3 DEF GoTo, TypeInv
    <3>2. ASSUME NEW ok \in BOOLEAN, Answer(x, ok) PROVE calls' \in SUBSET Calls
      BY <3>2 DEF Answer, TypeInv
    <3>3. ASSUME Spreads(x) PROVE calls' \in SUBSET Calls
      <4>1. PICK ns \in SUBSET Nodes : calls' = (calls \ {x}) \cup {[x EXCEPT !.at = n, !.pc = "cp"] : n \in ns}
        BY <3>3 DEF Spreads
      <4>2. \A n \in ns : [x EXCEPT !.at = n, !.pc = "cp"] \in Calls
        BY CallFields
      <4> QED BY <4>1, <4>2 DEF TypeInv
    <3> QED BY <2>2, <3>1, <3>2, <3>3, HandlerMoves
  <2>3. ASSUME NEW n \in Nodes, NodeStops(n) PROVE calls' \in SUBSET Calls
    BY <2>3 DEF NodeStops, TypeInv
  <2>4. ASSUME NEW n \in Nodes, NEW f \in Files, Begins(n, f) PROVE calls' \in SUBSET Calls
    BY <2>4, Begun DEF TypeInv
  <2> QED BY <2>1, <2>2, <2>3, <2>4, NextHandlers DEF HandlersMove, TypeInv
<1> DEFINE Rest ==
      /\ NodeTypes' /\ banned' \subseteq Nodes /\ down' \subseteq Nodes
      /\ scan' \in [Pingers -> Scans]
      /\ \A q \in Pingers : scan'[q].st = "run" => scan'[q].of \in Nodes
      /\ faults' \in Nat
<1>3. ASSUME UNCHANGED <<list, banned, down, scan, nodeVars>>, faults' = faults \/ faults' = faults + 1 PROVE Rest
  BY <1>3 DEF TypeInv, WalkInv, NodeTypes, nodeVars
<1>4. ASSUME NEW f \in Files, StartUpload(f) \/ StartDelete(f) PROVE Rest
  BY <1>3, <1>4 DEF StartUpload, StartDelete
<1>5. ASSUME NEW c \in Callers, Dial(c) \/ GiveUp(c) PROVE Rest
  BY <1>3, <1>5 DEF Dial, GiveUp, Fault
<1>6. ASSUME NEW x \in calls, Handler(x) PROVE Rest
  <2>1. NodeTypes'
    BY <1>6, HandlerStores
  <2>2. UNCHANGED <<banned, down, scan>> /\ (faults' = faults \/ faults' = faults + 1)
    BY <1>6, HandlerMoves
  <2> QED BY <2>1, <2>2 DEF TypeInv, WalkInv
<1>7. ASSUME NEW q \in Pingers, Replicate(q) PROVE Rest
  <2>1. scan[q] \in Scans /\ scan[q].st = "run"
    BY <1>7 DEF Replicate, TypeInv
  <2> DEFINE s == [scan[q] EXCEPT !.i = scan[q].i + 1]
  <2>2. s \in Scans /\ s.st = "run" /\ s.of = scan[q].of
    BY <2>1 DEF Scans
  <2>3. scan' = [scan EXCEPT ![q] = s] /\ UNCHANGED <<list, banned, down, nodeVars>>
        /\ (faults' = faults \/ faults' = faults + 1)
    BY <1>7 DEF Replicate, Fault
  <2> HIDE DEF s
  <2> QED BY <2>1, <2>2, <2>3 DEF TypeInv, WalkInv, NodeTypes, nodeVars
<1>8. ASSUME NEW q \in Pingers, ScanEnds(q) \/ PingerStops(q) PROVE Rest
  <2> DEFINE s == [NoScan EXCEPT !.st = "over"]
  <2>1. s \in Scans /\ s.st = "over"
    BY DEF NoScan, Scans
  <2>2. scan' = [scan EXCEPT ![q] = s] /\ UNCHANGED <<list, banned, down, nodeVars>>
        /\ (faults' = faults \/ faults' = faults + 1)
    BY <1>8 DEF ScanEnds, PingerStops, Fault
  <2> HIDE DEF s
  <2> QED BY <2>1, <2>2 DEF TypeInv, WalkInv, NodeTypes, nodeVars
<1>9. ASSUME NEW q \in Pingers, NEW b \in Nodes, PingFails(q, b) PROVE Rest
  <2> DEFINE s == [st |-> "run", of |-> b, i |-> 1, n |-> Len(list[b])]
  <2>1. list[b] \in Seq(Files)
    BY DEF TypeInv
  <2>2. s \in Scans /\ s.of \in Nodes
    BY <2>1, LenProperties DEF Scans
  <2>3. /\ UNCHANGED scan \/ scan' = [scan EXCEPT ![q] = s]
        /\ UNCHANGED <<list, down, nodeVars>>
        /\ banned' = banned \/ banned' = banned \cup {b}
        /\ faults' = faults \/ faults' = faults + 1
    BY <1>9 DEF PingFails, Fault
  <2> HIDE DEF s
  <2>4. NodeTypes' /\ down' \subseteq Nodes /\ banned' \subseteq Nodes /\ faults' \in Nat
    BY <2>3 DEF TypeInv, NodeTypes, nodeVars
  <2>5. scan' \in [Pingers -> Scans] /\ \A p \in Pingers : scan'[p].st = "run" => scan'[p].of \in Nodes
    BY <2>2, <2>3 DEF TypeInv, WalkInv
  <2> QED BY <2>4, <2>5
<1>10. ASSUME NEW n \in Nodes, NodeStops(n) \/ NodeReturns(n) PROVE Rest
  <2>1. UNCHANGED <<list, banned, scan, nodeVars>> /\ (faults' = faults \/ faults' = faults + 1)
    BY <1>10 DEF NodeStops, NodeReturns, Fault
  <2>2. down' = down \cup {n} \/ down' = down \ {n}
    BY <1>10 DEF NodeStops, NodeReturns
  <2> QED BY <2>1, <2>2 DEF TypeInv, WalkInv, NodeTypes, nodeVars
<1>12. ASSUME NEW n \in Nodes, NEW f \in Files, Begins(n, f) PROVE Rest
  BY <1>12, Begun DEF TypeInv, WalkInv
<1>11. Rest
  <2>1. CASE UNCHANGED vars
    BY <1>3, <2>1 DEF vars, nodeVars
  <2> HIDE DEF Rest
  <2> QED BY <1>4, <1>5, <1>6, <1>7, <1>8, <1>9, <1>10, <1>12, <2>1 DEF Next, Begins
<1> QED BY <1>1, <1>2, <1>11 DEF TypeInv, WalkInv, NodeTypes

-----------------------------------------------------------------------------
(***************************************************************************)
(* Handlers and the steps of their callers.                                *)
(***************************************************************************)
\* Who has begun does not begin again; a deletion that has been asked for stays so.
LEMMA NotIdleAgain ==
  ASSUME TypeInv, WalkInv, JobMoves, NEW c \in Callers, job[c].st /= "idle"
  PROVE  job'[c].st /= "idle"
<1>1. job[c] \in Jobs
  BY DEF TypeInv
<1>2. job[c].st = "run" => job[c].k <= Len(job[c].peers)
  BY DEF WalkInv
<1>3. CASE job[c].st = "run" /\ job'[c] = [job[c] EXCEPT !.on = TRUE]
  BY <1>1, <1>3, WaitingWalk
<1>4. ASSUME NEW ok \in BOOLEAN, job[c].st = "run", job'[c] = After(c, ok) PROVE job'[c].st /= "idle"
  BY <1>1, <1>2, <1>4, AfterWalks
<1>5. CASE job'[c] = [NoJob EXCEPT !.st = "failed"]
  BY <1>5, NoJobIsJob
<1> QED BY <1>1, <1>3, <1>4, <1>5 DEF JobMoves, Moves

\* The node that a web user has given a file is always the same.
LEMMA ThroughStays ==
  ASSUME TypeInv, WalkInv, JobMoves, NEW f \in Files, Through(f) \in Nodes
  PROVE  Through(f)' = Through(f) /\ job[<<Web, f>>].st = "ok"
<1>1. job[<<Web, f>>].st = "ok"
  BY ProvidersAssumption DEF WalkInv, WebRight
<1> QED BY <1>1, MovesWalk DEF Through

LEMMA DeletedStays ==
  ASSUME TypeInv, WalkInv, JobMoves, NEW f \in Files, Deleted(f)
  PROVE  Deleted(f)'
BY NotIdleAgain, CallersApart DEF Deleted

\* Only a node that stops goes down.
LEMMA DownStays ==
  ASSUME [Next]_vars, TypeInv, CallInv, ~\E n \in Nodes : NodeStops(n)
  PROVE  down' \subseteq down
<1>1. ASSUME NEW f \in Files, StartUpload(f) \/ StartDelete(f) PROVE down' \subseteq down
  BY <1>1 DEF StartUpload, StartDelete
<1>2. ASSUME NEW c \in Callers, Dial(c) \/ GiveUp(c) PROVE down' \subseteq down
  BY <1>2 DEF Dial, GiveUp
<1>3. ASSUME NEW q \in Pingers, Replicate(q) \/ ScanEnds(q) \/ PingerStops(q) \/ \E b \in Nodes : PingFails(q, b)
      PROVE  down' \subseteq down
  BY <1>3 DEF Replicate, ScanEnds, PingerStops, PingFails
<1>4. ASSUME NEW n \in Nodes, NodeReturns(n) PROVE down' \subseteq down
  BY <1>4 DEF NodeReturns
<1>5. ASSUME NEW x \in calls, Handler(x) PROVE down' \subseteq down
  BY <1>5, HandlerMoves
<1>6. ASSUME NEW n \in Nodes, NEW f \in Files, Begins(n, f) PROVE down' \subseteq down
  BY <1>6, Begun
<1> QED BY <1>1, <1>2, <1>3, <1>4, <1>5, <1>6 DEF Next, vars, Begins

\* A handler that stays finds its caller where it was, or gone on from there.
LEMMA CallStays ==
  ASSUME TypeInv, WalkInv, CallInv, JobMoves, NEW x \in calls
  PROVE  job'[x.by].st = "run" =>
           \/ job[x.by].st = "run" /\ job'[x.by].k = job[x.by].k /\ job'[x.by].peers = job[x.by].peers
              /\ job'[x.by].good = job[x.by].good /\ (job[x.by].on => job'[x.by].on)
           \/ job[x.by].st = "run" /\ job'[x.by].k > x.nth
<1> DEFINE c == x.by
<1>1. c \in Callers /\ job[c] \in Jobs /\ x.nth \in Nat \ {0}
  BY CallFields
<1>2. job[c].st = "run" => job[c].k <= Len(job[c].peers) /\ x.nth <= job[c].k /\ job[c].k \in Nat \ {0}
  BY <1>1 DEF WalkInv, CallInv, CallRight, Jobs
<1>6. job[c].st /= "idle"
  BY DEF CallInv, CallRight
<1> SUFFICES ASSUME job'[c].st = "run"
             PROVE  \/ job[c].st = "run" /\ job'[c].k = job[c].k /\ job'[c].peers = job[c].peers
                       /\ job'[c].good = job[c].good /\ (job[c].on => job'[c].on)
                    \/ job[c].st = "run" /\ job'[c].k > x.nth
  OBVIOUS
<1> HIDE DEF c
<1>3. CASE job[c].st = "run" /\ job'[c] = [job[c] EXCEPT !.on = TRUE]
  BY <1>1, <1>3, WaitingWalk
<1>4. ASSUME NEW ok \in BOOLEAN, job[c].st = "run", job'[c] = After(c, ok)
      PROVE  job'[c].k > x.nth
  <2>1. job'[c].k = job[c].k + 1
    BY <1>1, <1>2, <1>4, AfterWalks
  <2> QED BY <2>1, <1>1, <1>2, <1>4
<1>5. CASE job'[c] = [NoJob EXCEPT !.st = "failed"]
  BY <1>5, NoJobIsJob
<1> QED BY <1>1, <1>3, <1>4, <1>5, <1>6 DEF JobMoves, Moves

\* A handler that goes on serving is right again.
LEMMA CallKept ==
  ASSUME TypeInv, WalkInv, CallInv, JobMoves, NEW x \in calls, x.at \notin down'
  PROVE  CallRight(x)'
<1> DEFINE c == x.by
<1>1. c \in Callers /\ job[c].st /= "idle" /\ x.pc \in Commands(c)
  BY CallFields DEF CallInv, CallRight
<1>2. job'[c].st /= "idle"
  BY <1>1, NotIdleAgain
<1>3. job[c].st = "run" => /\ x.nth <= job[c].k
                           /\ x.nth = job[c].k => /\ job[c].on /\ x.at = job[c].peers[x.nth]
                                                  /\ Uploads(x) => x.at \notin job[c].good
  BY DEF CallInv, CallRight
<1>4. job'[c].st = "run" =>
           \/ job[c].st = "run" /\ job'[c].k = job[c].k /\ job'[c].peers = job[c].peers
              /\ job'[c].good = job[c].good /\ (job[c].on => job'[c].on)
           \/ job[c].st = "run" /\ job'[c].k > x.nth
  BY CallStays
<1>5. job'[c].st = "run" => job'[c].k \in Nat /\ x.nth \in Nat
  <2>1. job' \in [Callers -> Jobs]
    BY MovesWalk
  <2> QED BY <1>1, <2>1, CallFields DEF Jobs
<1>6. job'[c].st = "run" => /\ x.nth <= job'[c].k
                            /\ x.nth = job'[c].k => /\ job'[c].on /\ x.at = job'[c].peers[x.nth]
                                                    /\ Uploads(x) => x.at \notin job'[c].good
  BY <1>3, <1>4, <1>5
<1>7. x.pc = "webconfirm" => x.at = Through(x.by[2])'
  <2> SUFFICES ASSUME x.pc = "webconfirm" PROVE x.at = Through(x.by[2])'
    OBVIOUS
  <2>1. x.at = Through(x.by[2]) /\ c[1] = Web /\ c = <<c[1], c[2]>> /\ c[2] \in Files
    BY <1>1, CommandsOf, CallersApart DEF CallInv, CallRight
  <2>2. job[<<Web, x.by[2]>>].st = "ok"
    BY <1>1, <2>1 DEF WalkInv, WebRight
  <2>3. job'[<<Web, x.by[2]>>] = job[<<Web, x.by[2]>>]
    BY <2>1, <2>2, MovesWalk
  <2> QED BY <2>1, <2>3 DEF Through
<1> QED BY <1>1, <1>2, <1>6, <1>7 DEF CallRight, Uploads

LEMMA CallNext == TypeInv /\ WalkInv /\ CallInv /\ [Next]_vars => CallInv'
<1> SUFFICES ASSUME TypeInv, WalkInv, CallInv, [Next]_vars PROVE CallInv'
  OBVIOUS
<1>1. JobMoves
  BY NextMoves
<1>2. \A x \in calls : x.at \notin down
  BY DEF CallInv, CallRight
<1>3. ASSUME UNCHANGED calls, ~\E n \in Nodes : NodeStops(n) PROVE CallInv'
  <2>1. down' \subseteq down
    BY <1>3, DownStays
  <2> QED BY <1>1, <1>2, <1>3, <2>1, CallKept DEF CallInv
<1>4. ASSUME NEW c \in Callers, Dial(c) PROVE CallInv'
  <2> DEFINE n == job[c].peers[job[c].k]
             first == CASE c[1] = Upload -> "cp" [] c[1] = Delete -> "unpin" [] OTHER -> "verify"
             y == CallOf(c, n, first)
  <2>1. job[c].st = "run" /\ UNCHANGED down
    BY <1>4 DEF Dial
  <2>2. \A x \in calls : CallRight(x)'
    BY <1>1, <1>2, <2>1, CallKept
  <2>3. CASE UNCHANGED calls
    BY <2>2, <2>3 DEF CallInv
  <2>4. CASE ~Skip(c) /\ n \notin down /\ calls' = calls \cup {y} /\ job' = [job EXCEPT ![c].on = TRUE]
    <3>0. c[1] /= Web
      <4>1. c = <<c[1], c[2]>> /\ c[2] \in Files
        BY CallersApart
      <4> QED BY <2>1, <4>1 DEF WalkInv, WebRight
    <3>1. first \in Commands(c) /\ first \in Pcs /\ first /= "webconfirm"
      <4>1. CASE c[1] = Upload
        BY <4>1, CallersApart, CommandsOf DEF Pcs
      <4>2. CASE c[1] = Delete
        BY <4>2, CallersApart, CommandsOf DEF Pcs
      <4>3. CASE c[1] /= Upload /\ c[1] /= Delete
        <5>1. Commands(c) = {"verify", "cp", "pin", "confirm"}
          BY <3>0, <4>3, CommandsOf
        <5>2. first = "verify"
          BY <4>3
        <5> QED BY <5>1, <5>2 DEF Pcs
      <4> QED BY <4>1, <4>2, <4>3
    <3> HIDE DEF first
    <3>2. y.by = c /\ y.nth = job[c].k /\ y.at = n /\ y.pc = first
      BY <2>1, <3>1, DialedCall
    <3>3. job[c] \in Jobs /\ job'[c] = [job[c] EXCEPT !.on = TRUE]
      BY <2>4 DEF TypeInv
    <3>4. job'[c].st = "run" /\ job'[c].k = job[c].k /\ job'[c].peers = job[c].peers /\ job'[c].good = job[c].good /\ job'[c].on
      BY <2>1, <3>3, WaitingWalk
    <3>5. Uploads(y) => n \notin job[c].good
      BY <2>4, <3>0, <3>2 DEF Skip, Uploads
    <3>6. job[c].k <= job[c].k /\ n = job[c].peers[job[c].k]
      BY <3>3 DEF Jobs
    <3>7. PICK z : z = y
      OBVIOUS
    <3>8. /\ z.by = c /\ z.pc \in Commands(c) /\ z.pc /= "webconfirm" /\ z.at \notin down /\ z.nth = job[c].k
          /\ z.at = job[c].peers[job[c].k] /\ (Uploads(z) => z.at \notin job[c].good)
          /\ calls' = calls \cup {z}
      BY <2>4, <3>1, <3>2, <3>5, <3>6, <3>7 DEF Uploads
    <3> HIDE DEF n, y
    <3>9. CallRight(z)'
      BY <2>1, <3>4, <3>6, <3>8 DEF CallRight, Uploads
    <3> QED BY <2>2, <3>8, <3>9 DEF CallInv
  <2> QED BY <1>4, <2>3, <2>4 DEF Dial
<1>5. ASSUME NEW x \in calls, Handler(x) PROVE CallInv'
  <2>1. UNCHANGED down
    BY <1>5, HandlerMoves
  <2>2. \A z \in calls : CallRight(z)'
    BY <1>1, <1>2, <2>1, CallKept
  <2>3. ASSUME NEW pc \in Commands(x.by) \ {"webconfirm"}, GoTo(x, pc) PROVE CallInv'
    <3> DEFINE y == [x EXCEPT !.pc = pc]
    <3>1. x.by \in Callers
      BY CallFields
    <3>2. pc \in Pcs
      BY <2>3, <3>1, CommandsOf DEF Pcs
    <3>3. y.by = x.by /\ y.nth = x.nth /\ y.at = x.at /\ y.pc = pc
      BY <3>2, CallFields
    <3>4. calls' = (calls \ {x}) \cup {y}
      BY <2>3 DEF GoTo
    <3> HIDE DEF y
    <3>5. CallRight(y)'
      BY <2>2, <2>3, <3>3 DEF CallRight, Uploads
    <3> QED BY <2>2, <3>4, <3>5 DEF CallInv
  <2>4. ASSUME NEW ok \in BOOLEAN, Answer(x, ok) PROVE CallInv'
    BY <2>2, <2>4 DEF Answer, CallInv
  <2>5. ASSUME Spreads(x) PROVE CallInv'
    <3>1. PICK ns \in SUBSET (Nodes \ (down \cup {x.at})) :
            calls' = (calls \ {x}) \cup {[x EXCEPT !.at = n, !.pc = "cp"] : n \in ns}
      BY <2>5 DEF Spreads
    <3>2. UNCHANGED job /\ x.by \in Callers /\ x.by[1] = Web /\ x.by = <<x.by[1], x.by[2]>> /\ x.by[2] \in Files
      BY <2>5, CallFields, CallersApart DEF Spreads
    <3>3. job[x.by].st /= "idle" /\ job[x.by].st /= "run"
      BY <3>2 DEF CallInv, CallRight, WalkInv, WebRight
    <3>4. ASSUME NEW n \in ns PROVE CallRight([x EXCEPT !.at = n, !.pc = "cp"])'
      <4> DEFINE y == [x EXCEPT !.at = n, !.pc = "cp"]
      <4>1. y.by = x.by /\ y.at = n /\ y.pc = "cp" /\ n \notin down
        BY <3>1, CallFields
      <4>2. "cp" \in Commands(x.by)
        BY <3>2, CommandsOf
      <4> HIDE DEF y
      <4>3. CallRight(y)'
        BY <2>1, <3>2, <3>3, <4>1, <4>2 DEF CallRight
      <4> QED BY <4>3 DEF y
    <3> QED BY <2>2, <3>1, <3>4 DEF CallInv
  <2> QED BY <1>5, <2>3, <2>4, <2>5, HandlerMoves
<1>6. ASSUME NEW n \in Nodes, NodeStops(n) PROVE CallInv'
  <2>1. calls' = {x \in calls : x.at /= n} /\ down' = down \cup {n}
    BY <1>6 DEF NodeStops
  <2>2. \A x \in calls' : x \in calls /\ x.at \notin down'
    BY <1>2, <2>1
  <2> QED BY <1>1, <2>2, CallKept DEF CallInv
<1>7. ASSUME NEW n \in Nodes, NEW f \in Files, Begins(n, f) PROVE CallInv'
  <2>1. PICK c \in Callers, w \in Jobs, y \in Calls :
          /\ c[2] = f /\ job[c].st = "idle" /\ job' = [job EXCEPT ![c] = w]
          /\ calls' = calls \cup {y} /\ y.by = c /\ y.at = n /\ n \notin down
          /\ \/ WebUpload(n, f) /\ c = <<Web, f>> /\ w = GivenTo(n) /\ y.pc = "webconfirm"
             \/ c = <<Delete, f>> /\ w = [NoJob EXCEPT !.st = "ok"] /\ y.pc = "webrm"
    BY <1>7, Begun
  <2>2. UNCHANGED down
    BY <1>7, Begun
  <2>3. \A x \in calls : CallRight(x)'
    BY <1>1, <1>2, <2>2, CallKept
  <2>4. job'[c] = w
    BY <2>1 DEF TypeInv
  <2>5. w.st = "ok" /\ (c = <<Web, f>> => w.of = n)
    <3>1. CASE c = <<Web, f>> /\ w = GivenTo(n)
      BY <3>1, GivenIsJob
    <3>2. CASE c = <<Delete, f>> /\ w = [NoJob EXCEPT !.st = "ok"]
      <4>1. c /= <<Web, f>>
        BY <3>2, CallersApart
      <4> QED BY <3>2, <4>1, NoJobIsJob
    <3> QED BY <2>1, <3>1, <3>2
  <2>6. y.pc \in Commands(c)
    <3>1. CASE c = <<Web, f>> /\ y.pc = "webconfirm"
      BY <3>1, CommandsOf
    <3>2. CASE c = <<Delete, f>> /\ y.pc = "webrm"
      BY <3>2, CommandsOf
    <3> QED BY <2>1, <3>1, <3>2
  <2>7. CallRight(y)'
    BY <2>1, <2>2, <2>4, <2>5, <2>6 DEF CallRight, Through
  <2> QED BY <2>1, <2>3, <2>7 DEF CallInv
<1> QED BY <1>3, <1>4, <1>5, <1>6, <1>7, NextHandlers DEF HandlersMove

-----------------------------------------------------------------------------
(***************************************************************************)
(* What is stored stays, until the file is deleted.                        *)
(***************************************************************************)
\* Lists and nodes change by handlers only, and where a web user begins.
LEMMA NothingStored ==
  ASSUME [Next]_vars
  PROVE  \/ UNCHANGED <<list, nodeVars>>
         \/ \E x \in calls : Handler(x)
         \/ \E n \in Nodes, f \in Files : Begins(n, f)
<1>1. ASSUME NEW f \in Files, StartUpload(f) \/ StartDelete(f) PROVE UNCHANGED <<list, nodeVars>>
  BY <1>1 DEF StartUpload, StartDelete
<1>2. ASSUME NEW c \in Callers, Dial(c) \/ GiveUp(c) PROVE UNCHANGED <<list, nodeVars>>
  BY <1>2 DEF Dial, GiveUp
<1>3. ASSUME NEW q \in Pingers, Replicate(q) \/ ScanEnds(q) \/ PingerStops(q) \/ \E b \in Nodes : PingFails(q, b)
      PROVE  UNCHANGED <<list, nodeVars>>
  BY <1>3 DEF Replicate, ScanEnds, PingerStops, PingFails
<1>4. ASSUME NEW n \in Nodes, NodeStops(n) \/ NodeReturns(n) PROVE UNCHANGED <<list, nodeVars>>
  BY <1>4 DEF NodeStops, NodeReturns
<1>5. CASE UNCHANGED vars
  BY <1>5 DEF vars, nodeVars
<1> QED BY <1>1, <1>2, <1>3, <1>4, <1>5 DEF Next, Begins

\* A handler of a file whose deletion nobody has asked for is not a deletion.
LEMMA NoDeletion ==
  ASSUME TypeInv, WalkInv, CallInv, JobMoves, NEW x \in calls, ~Deleted(x.by[2])'
  PROVE  x.by[1] /= Delete /\ ~Deleted(x.by[2])
<1>1. x.by \in Callers /\ x.by = <<x.by[1], x.by[2]>> /\ x.by[2] \in Files /\ job[x.by].st /= "idle"
  BY CallFields, CallersApart DEF CallInv, CallRight
<1>2. ~Deleted(x.by[2])
  BY <1>1, DeletedStays
<1> QED BY <1>1, <1>2 DEF Deleted

Kept(f) ==
  \A n \in Nodes :
    /\ f \in Lists(n) => (f \in ToSet(list[n]))'
    /\ f \in held[n] => f \in held'[n]
    /\ f \in entry[n] => f \in entry'[n]
    /\ f \in pinned[n] => f \in pinned'[n]

LEMMA StoredStays ==
  ASSUME TypeInv, WalkInv, CallInv, JobMoves, [Next]_vars, NEW f \in Files, ~Deleted(f)'
  PROVE  Kept(f) /\ ~Deleted(f) /\ Listing(f) \subseteq Listing(f)' /\ Listing(f)' \subseteq Nodes
<1>1. Kept(f)
  <2>1. CASE UNCHANGED <<list, nodeVars>>
    BY <2>1 DEF Kept, nodeVars, Lists
  <2>2. ASSUME NEW x \in calls, Handler(x) PROVE Kept(f)
    <3>1. /\ Elsewhere(x.at, x.by[2])
          /\ x.by[1] /= Delete => StoresIn(x.at, x.by[2])
      BY <2>2, HandlerStores
    <3>2. x.at \in Nodes /\ x.by[2] \in Files
      BY CallFields
    <3>3. CASE x.by[2] = f
      <4>1. StoresIn(x.at, f)
        BY <3>1, <3>3, NoDeletion
      <4> QED BY <3>1, <3>2, <3>3, <4>1 DEF Elsewhere, StoresIn, Kept
    <3>4. CASE x.by[2] /= f
      BY <3>1, <3>2, <3>4 DEF Elsewhere, Kept
    <3> QED BY <3>3, <3>4
  <2>3. ASSUME NEW n \in Nodes, NEW g \in Files, Begins(n, g) PROVE Kept(f)
    <3>1. f = g => UNCHANGED pinned
      <4>1. PICK c \in Callers, w \in Jobs :
              /\ job' = [job EXCEPT ![c] = w]
              /\ \/ WebUpload(n, g)
                 \/ c = <<Delete, g>> /\ w = [NoJob EXCEPT !.st = "ok"]
        BY <2>3, Begun
      <4>2. CASE WebUpload(n, g)
        BY <2>3, <4>2, Begun
      <4>3. CASE c = <<Delete, g>> /\ w = [NoJob EXCEPT !.st = "ok"]
        <5>1. job'[<<Delete, g>>].st = "ok"
          BY <4>1, <4>3, NoJobIsJob DEF TypeInv
        <5> QED BY <5>1 DEF Deleted
      <4> QED BY <4>1, <4>2, <4>3
    <3>2. UNCHANGED <<list, entry>>
      BY <2>3, Begun
    <3>3. \A m \in Nodes : held[m] \subseteq held'[m] /\ pinned[m] \ {g} \subseteq pinned'[m]
      BY <2>3, Begun
    <3> QED BY <3>1, <3>2, <3>3 DEF Kept, Lists
  <2> QED BY <2>1, <2>2, <2>3, NothingStored
<1>2. ~Deleted(f)
  BY DeletedStays
<1> QED BY <1>1, <1>2 DEF Kept, Listing, Lists

-----------------------------------------------------------------------------
(***************************************************************************)
(* Copies.                                                                 *)
(***************************************************************************)
LEMMA CopiesNext == TypeInv /\ WalkInv /\ CallInv /\ CopiesInv /\ [Next]_vars => CopiesInv'
<1> SUFFICES ASSUME TypeInv, WalkInv, CallInv, CopiesInv, [Next]_vars, NEW f \in Files, ~Deleted(f)'
             PROVE  LET j == job'[<<Upload, f>>]
                    IN  /\ j.st \in {"ok", "before"} => Cardinality(Listing(f)') >= Copies
                        /\ j.st = "run" => j.good \subseteq Listing(f)' /\ Cardinality(j.good) = j.won
  BY DEF CopiesInv
<1>1. JobMoves
  BY NextMoves
<1>2. ~Deleted(f) /\ Listing(f) \subseteq Listing(f)' /\ Listing(f)' \in SUBSET Nodes /\ Listing(f) \in SUBSET Nodes
  BY <1>1, StoredStays DEF Listing
<1> DEFINE c == <<Upload, f>>
           j == job[c]
           L == Listing(f)
           M == Listing(f)'
           Good(i) == /\ i.st \in {"ok", "before"} => Cardinality(M) >= Copies
                      /\ i.st = "run" => i.good \subseteq M /\ Cardinality(i.good) = i.won
<1>3. c \in Callers /\ c[1] = Upload /\ c[2] = f /\ j \in Jobs
  BY CallersApart DEF TypeInv
<1>4. /\ j.st \in {"ok", "before"} => Cardinality(L) >= Copies
      /\ j.st = "run" => j.good \subseteq L /\ Cardinality(j.good) = j.won
  BY <1>2 DEF CopiesInv
<1>5. IsFiniteSet(M) /\ Cardinality(M) \in Nat /\ Cardinality(L) \in Nat /\ Cardinality(L) <= Cardinality(M) /\ Copies \in Nat
  BY <1>2, SomeNodes, FS_Subset, ProvidersAssumption
<1>6. j.st = "run" => j.k <= Len(j.peers)
  BY <1>3 DEF WalkInv
<1>7. j.good \in SUBSET Nodes /\ j.won \in Nat /\ IsFiniteSet(j.good)
  <2>1. j.good \in SUBSET Nodes /\ j.won \in Nat
    BY <1>3 DEF Jobs
  <2> QED BY <2>1, SomeNodes
<1> SUFFICES Good(job'[c])
  OBVIOUS
<1> HIDE DEF L, M
<1>8. CASE job'[c] = job[c]
  BY <1>2, <1>4, <1>5, <1>8 DEF L, M
<1>9. ASSUME NEW s \in Seq(Nodes), NEW n \in Nodes \cup {None}, job'[c] = Walk(s, n) PROVE Good(job'[c])
  <2>1. job'[c].st = "run" /\ job'[c].good = {} /\ job'[c].won = 0
    BY <1>9, WalkIsJob
  <2> QED BY <2>1, FS_EmptySet
<1>10. CASE j.st = "run" /\ job'[c] = [job[c] EXCEPT !.on = TRUE]
  BY <1>2, <1>3, <1>4, <1>10, WaitingWalk DEF L, M
<1>11. CASE j.st = "run" /\ job'[c] = After(c, FALSE)
  <2>1. /\ job'[c].st \in {"run", "ok", "failed"} /\ job'[c].st /= "ok"
        /\ job'[c].st = "run" => job'[c].good = j.good /\ job'[c].won = j.won
    BY <1>3, <1>6, <1>11, AfterWalks
  <2> QED BY <1>2, <1>4, <1>11, <2>1 DEF L, M
<1>12. ASSUME j.st = "run", job'[c] = After(c, TRUE),
              NEW x \in calls, x.by = c, Waits(x), Uploads(x) => x.by[2] \in ToSet(list'[x.at])
       PROVE  Good(job'[c])
  <2> DEFINE n == j.peers[j.k]
             g == j.good \cup {n}
  <2>1. x.at = n /\ n \notin j.good /\ n \in Nodes /\ f \in ToSet(list'[n])
    <3>1. CallRight(x) /\ x.nth = j.k
      BY <1>12 DEF CallInv, Waits
    <3>2. x.at = n /\ n \notin j.good
      BY <1>3, <1>12, <3>1 DEF CallRight, Uploads
    <3>3. x.at \in Nodes
      BY CallFields
    <3>4. f \in ToSet(list'[x.at])
      BY <1>3, <1>12 DEF Uploads
    <3> QED BY <3>2, <3>3, <3>4
  <2>2. n \in M
    BY <2>1 DEF M, Listing, Lists
  <2>3. g \subseteq M
    BY <1>2, <1>4, <1>12, <2>2 DEF L, M
  <2>4. Cardinality(g) = j.won + 1
    BY <1>4, <1>7, <1>12, <2>1, FS_AddElement
  <2>5. Cardinality(g) <= Cardinality(M)
    BY <1>5, <2>3, FS_Subset
  <2>6. /\ job'[c].st \in {"run", "ok", "failed"}
        /\ job'[c].st = "ok" => j.won + 1 = Copies
        /\ job'[c].st = "run" => job'[c].good = g /\ job'[c].won = j.won + 1
    BY <1>3, <1>6, <1>12, AfterWalks
  <2> HIDE DEF g
  <2> QED BY <1>5, <1>7, <2>3, <2>4, <2>5, <2>6
<1>13. CASE job'[c] = [NoJob EXCEPT !.st = "failed"]
  BY <1>13, NoJobIsJob
<1>14. c[1] /= Web /\ c[1] /= Delete
  BY CallersApart
<1> HIDE DEF Good
<1> QED BY <1>1, <1>3, <1>14, <1>8, <1>9, <1>10, <1>11, <1>12, <1>13 DEF JobMoves, Moves

-----------------------------------------------------------------------------
(***************************************************************************)
(* Records, pins and names.                                                *)
(***************************************************************************)
\* Who comes to pin or to confirm has just copied the file in or pinned it.
LEMMA Arrivals ==
  ASSUME TypeInv, WalkInv, CallInv, [Next]_vars, NEW y \in calls' \ calls, y.pc \in {"pin", "confirm"}
  PROVE  \E x \in calls :
           /\ y.by = x.by /\ y.at = x.at
           /\ y.pc = "pin" => CopyIn(x) /\ ~Answer(x, FALSE)
           /\ y.pc = "confirm" => PinFile(x) /\ x.by[2] \in pinned'[x.at]
<1>1. ASSUME NEW c \in Callers, Dial(c) PROVE FALSE
  <2> DEFINE n == job[c].peers[job[c].k]
             first == CASE c[1] = Upload -> "cp" [] c[1] = Delete -> "unpin" [] OTHER -> "verify"
  <2>1. job[c].st = "run" /\ y = CallOf(c, n, first)
    BY <1>1 DEF Dial
  <2>2. first \in Pcs /\ first \notin {"pin", "confirm"}
    BY CallersApart DEF Pcs
  <2> HIDE DEF first
  <2>3. y.pc = first
    BY <2>1, <2>2, DialedCall
  <2> QED BY <2>2, <2>3
<1>2. ASSUME NEW n \in Nodes, NodeStops(n) PROVE FALSE
  BY <1>2 DEF NodeStops
<1>3. ASSUME NEW x \in calls, Handler(x)
      PROVE  /\ y.by = x.by /\ y.at = x.at
             /\ y.pc = "pin" => CopyIn(x) /\ ~Answer(x, FALSE)
             /\ y.pc = "confirm" => PinFile(x) /\ x.by[2] \in pinned'[x.at]
  <2>1. ~Answer(x, TRUE) /\ ~Answer(x, FALSE)
    BY DEF Answer
  <2>2. ASSUME NEW pc \in Pcs, GoTo(x, pc) PROVE y.by = x.by /\ y.at = x.at /\ y.pc = pc
    <3>1. y = [x EXCEPT !.pc = pc]
      BY <2>2 DEF GoTo
    <3> QED BY <3>1, CallFields
  <2>3. ASSUME NEW pc \in Commands(x.by) PROVE pc \in Pcs
    <3>1. x.by \in Callers
      BY CallFields
    <3> QED BY <2>3, <3>1, CommandsOf DEF Pcs
  <2>11. ~Spreads(x)
    <3>1. ASSUME Spreads(x) PROVE FALSE
      <4>1. PICK ns \in SUBSET Nodes : calls' = (calls \ {x}) \cup {[x EXCEPT !.at = n, !.pc = "cp"] : n \in ns}
        BY <3>1 DEF Spreads
      <4>2. PICK n \in Nodes : y = [x EXCEPT !.at = n, !.pc = "cp"]
        BY <4>1
      <4> QED BY <4>2, CallFields
    <3> QED BY <3>1
  <2>4. PICK pc \in Pcs : GoTo(x, pc)
    BY <1>3, <2>1, <2>3, <2>11, HandlerMoves
  <2>5. y.by = x.by /\ y.at = x.at /\ y.pc = pc /\ GoTo(x, y.pc)
    BY <2>2, <2>4
  <2>6. CASE Verify(x)
    BY <2>1, <2>2, <2>5, <2>6 DEF Verify, Pcs
  <2>7. CASE CopyIn(x)
    BY <2>1, <2>2, <2>5, <2>7 DEF CopyIn, Pcs
  <2>8. CASE PinFile(x)
    <3>1. x.at \in Nodes /\ pinned' = [pinned EXCEPT ![x.at] = @ \cup {x.by[2]}] /\ GoTo(x, "confirm")
      BY <2>1, <2>8, CallFields DEF PinFile
    <3>2. x.by[2] \in pinned'[x.at]
      BY <3>1 DEF TypeInv
    <3> QED BY <2>2, <2>5, <2>8, <3>1, <3>2 DEF Pcs
  <2>9. CASE Confirm(x) \/ SpaceFreed(x)
    BY <2>1, <2>9 DEF Confirm, SpaceFreed
  <2>10. CASE Unpin(x) \/ RemoveName(x) \/ RemoveBlock(x)
    BY <2>1, <2>2, <2>5, <2>10 DEF Unpin, RemoveName, RemoveBlock, Pcs
  <2>12. CASE WebConfirm(x) \/ WebPin(x) \/ WebRemove(x)
    <3>1. CASE WebConfirm(x)
      BY <2>2, <2>5, <3>1 DEF WebConfirm, Pcs
    <3>2. CASE WebPin(x)
      BY <2>1, <2>5, <2>11, <3>2, WebSpreads
    <3> QED BY <2>1, <2>12, <3>1, <3>2 DEF WebRemove
  <2> QED BY <1>3, <2>6, <2>7, <2>8, <2>9, <2>10, <2>12 DEF Handler
<1>4. ASSUME NEW n \in Nodes, NEW f \in Files, Begins(n, f) PROVE FALSE
  BY <1>4, Begun
<1> QED BY <1>1, <1>2, <1>3, <1>4, NextHandlers DEF HandlersMove

\* Only a ConfirmUpload puts a file on a list.
LEMMA Listings ==
  ASSUME TypeInv, WalkInv, CallInv, [Next]_vars, NEW n \in Nodes, NEW f \in Files,
         f \in ToSet(list'[n]), f \notin Lists(n)
  PROVE  \E x \in calls : (Confirm(x) \/ WebConfirm(x)) /\ x.at = n /\ x.by[2] = f
<1>1. PICK x \in calls : Handler(x)
  BY NothingStored, Begun DEF Lists
<1>2. x.at = n /\ x.by[2] = f
  BY <1>1, HandlerStores DEF Elsewhere, Lists
<1>3. list' /= list
  BY DEF Lists
<1>4. CASE \/ Verify(x) \/ CopyIn(x) \/ PinFile(x) \/ Unpin(x) \/ RemoveName(x) \/ RemoveBlock(x)
           \/ WebPin(x) \/ WebRemove(x)
  BY <1>3, <1>4 DEF Verify, CopyIn, PinFile, Unpin, RemoveName, RemoveBlock, WebPin, WebRemove
<1>5. CASE SpaceFreed(x)
  <2>1. list[n] \in Seq(Files)
    BY DEF TypeInv
  <2>2. PICK s \in Without(list[n], f) : list' = [list EXCEPT ![n] = s]
    BY <1>2, <1>3, <1>5 DEF SpaceFreed
  <2>3. ToSet(list'[n]) \subseteq ToSet(list[n])
    BY <2>1, <2>2, ListChanges DEF TypeInv
  <2> QED BY <2>3 DEF Lists
<1> QED BY <1>1, <1>2, <1>4, <1>5 DEF Handler

LEMMA PinNext == TypeInv /\ WalkInv /\ CallInv /\ PinInv /\ [Next]_vars => PinInv'
<1> SUFFICES ASSUME TypeInv, WalkInv, CallInv, PinInv, [Next]_vars, NEW f \in Files, ~Deleted(f)'
             PROVE  /\ \A n \in Listing(f)' : n /= Through(f)' => f \in pinned'[n]
                    /\ \A y \in calls' : y.by[2] = f /\ y.pc = "confirm" => f \in pinned'[y.at]
  BY DEF PinInv
<1>1. JobMoves
  BY NextMoves
<1>2. Kept(f) /\ ~Deleted(f)
  BY <1>1, StoredStays
<1>3. ASSUME NEW x \in calls, x.by[2] = f, x.pc = "confirm" PROVE f \in pinned'[x.at]
  BY <1>2, <1>3, CallFields DEF PinInv, Kept
<1>4. ASSUME NEW y \in calls', y.by[2] = f, y.pc = "confirm" PROVE f \in pinned'[y.at]
  <2>1. CASE y \in calls
    BY <1>3, <1>4, <2>1
  <2>2. CASE y \notin calls
    BY <1>4, <2>2, Arrivals
  <2> QED BY <2>1, <2>2
<1>5. ASSUME NEW n \in Listing(f)', n /= Through(f)' PROVE f \in pinned'[n]
  <2>1. n \in Nodes /\ f \in ToSet(list'[n])
    BY <1>5 DEF Listing, Lists
  <2>4. n /= Through(f)
    BY <1>1, <1>5, <2>1, ThroughStays
  <2>2. CASE f \in Lists(n)
    BY <1>2, <2>1, <2>2, <2>4 DEF PinInv, Listing, Kept
  <2>3. CASE f \notin Lists(n)
    <3>1. PICK x \in calls : (Confirm(x) \/ WebConfirm(x)) /\ x.at = n /\ x.by[2] = f
      BY <2>1, <2>3, Listings
    <3>2. x.pc = "confirm"
      BY <2>4, <3>1 DEF Confirm, WebConfirm, May, CallInv, CallRight
    <3> QED BY <1>3, <3>1, <3>2
  <2> QED BY <2>2, <2>3
<1> QED BY <1>4, <1>5

-----------------------------------------------------------------------------
(***************************************************************************)
(* Runs in which nothing fails.                                            *)
(***************************************************************************)
LEMMA NoFaults ==
  ASSUME TypeInv, CallInv, [Next]_vars, faults' = 0
  PROVE  faults = 0 /\ ~Fault /\ ~\E n \in Nodes : NodeStops(n)
<1>1. faults \in Nat
  BY DEF TypeInv
<1>2. ~Fault
  BY <1>1 DEF Fault
<1>3. faults' = faults \/ faults' = faults + 1
  <2>1. ASSUME NEW f \in Files, StartUpload(f) \/ StartDelete(f) PROVE faults' = faults
    BY <2>1 DEF StartUpload, StartDelete
  <2>2. ASSUME NEW c \in Callers, Dial(c) \/ GiveUp(c) PROVE faults' = faults \/ faults' = faults + 1
    BY <2>2 DEF Dial, GiveUp, Fault
  <2>3. ASSUME NEW x \in calls, Handler(x) PROVE faults' = faults \/ faults' = faults + 1
    BY <2>3, HandlerMoves
  <2>4. ASSUME NEW q \in Pingers, Replicate(q) \/ ScanEnds(q) \/ PingerStops(q) \/ \E b \in Nodes : PingFails(q, b)
        PROVE  faults' = faults \/ faults' = faults + 1
    BY <2>4 DEF Replicate, ScanEnds, PingerStops, PingFails, Fault
  <2>5. ASSUME NEW n \in Nodes, NodeStops(n) \/ NodeReturns(n) PROVE faults' = faults \/ faults' = faults + 1
    BY <2>5 DEF NodeStops, NodeReturns, Fault
  <2>6. CASE UNCHANGED vars
    BY <2>6 DEF vars
  <2>7. ASSUME NEW n \in Nodes, NEW f \in Files, Begins(n, f) PROVE faults' = faults
    BY <2>7, Begun
  <2> QED BY <2>1, <2>2, <2>3, <2>4, <2>5, <2>6, <2>7 DEF Next, Begins
<1>4. ~\E n \in Nodes : NodeStops(n)
  BY <1>2 DEF NodeStops
<1> QED BY <1>1, <1>2, <1>3, <1>4

\* A handler leaves only by a command of its own.
LEMMA HandlerLeaves ==
  ASSUME TypeInv, CallInv, [Next]_vars, faults' = 0, NEW x \in calls, x \notin calls'
  PROVE  Handler(x)
<1>1. ASSUME NEW z \in calls, Handler(z) PROVE calls \ {z} \subseteq calls'
  BY <1>1, HandlerMoves DEF GoTo, Answer, Spreads
<1>2. ASSUME NEW c \in Callers, Dial(c) PROVE calls \subseteq calls'
  BY <1>2 DEF Dial
<1>3. ASSUME NEW n \in Nodes, NEW f \in Files, Begins(n, f) PROVE calls \subseteq calls'
  BY <1>3, Begun
<1> QED BY <1>1, <1>2, <1>3, NextHandlers, NoFaults DEF HandlersMove

\* Whoever goes on is there with its new command.
LEMMA GoesOn ==
  ASSUME TypeInv, NEW x \in calls, NEW pc \in Pcs, GoTo(x, pc)
  PROVE  OnWay(x.at, x.by[2], {pc})'
<1> DEFINE y == [x EXCEPT !.pc = pc]
<1>1. y \in calls' /\ y.by = x.by /\ y.at = x.at /\ y.pc = pc
  BY CallFields DEF GoTo
<1> HIDE DEF y
<1> QED BY <1>1 DEF OnWay

\* A pin that finds the blocks is made, and is confirmed.  Who has confirmed
\* for a web user pins.
LEMMA PinsOn ==
  ASSUME TypeInv, CallInv, [Next]_vars, faults' = 0,
         NEW x \in calls, x.pc \in {"pin", "confirm", "webpin"}, x.pc = "pin" => Found(x), x \notin calls'
  PROVE  /\ x.pc = "pin" => OnWay(x.at, x.by[2], {"confirm"})'
         /\ x.pc = "confirm" => x.by[2] \in ToSet(list'[x.at])
         /\ x.pc = "webpin" => x.by[2] \in pinned'[x.at]
<1>1. ~Fault
  BY NoFaults
<1>2. Handler(x)
  BY HandlerLeaves
<1>3. x.at \in Nodes \ down
  BY CallFields DEF CallInv, CallRight
<1>5. CASE x.pc = "pin"
  <2>1. PinFile(x)
    BY <1>2, <1>5 DEF Handler, Verify, CopyIn, Confirm, Unpin, RemoveName, RemoveBlock, SpaceFreed,
                      WebConfirm, WebPin, WebRemove, May
  <2>2. GoTo(x, "confirm")
    BY <1>1, <1>5, <2>1 DEF PinFile
  <2> QED BY <1>5, <2>2, GoesOn DEF Pcs
<1>7. CASE x.pc = "webpin"
  <2>1. WebPin(x)
    BY <1>2, <1>7 DEF Handler, Verify, CopyIn, PinFile, Confirm, Unpin, RemoveName, RemoveBlock, SpaceFreed,
                      WebConfirm, WebRemove, May
  <2>2. pinned' = [pinned EXCEPT ![x.at] = @ \cup {x.by[2]}]
    BY <1>1, <2>1 DEF WebPin
  <2> QED BY <1>3, <1>7, <2>2 DEF TypeInv
<1>6. CASE x.pc = "confirm"
  <2>1. Confirm(x)
    BY <1>2, <1>6 DEF Handler, Verify, CopyIn, PinFile, Unpin, RemoveName, RemoveBlock, SpaceFreed,
                      WebConfirm, WebPin, WebRemove, May
  <2>2. list' = IF x.by[2] \in Lists(x.at) THEN list ELSE [list EXCEPT ![x.at] = Append(@, x.by[2])]
    BY <1>1, <2>1 DEF Confirm
  <2>3. list[x.at] \in Seq(Files) /\ x.by[2] \in Files /\ x.at \in Nodes
    BY CallFields DEF TypeInv
  <2>4. x.by[2] \in ToSet(Append(list[x.at], x.by[2]))
    BY <2>3, ListChanges
  <2>5. CASE x.by[2] \in Lists(x.at)
    BY <1>6, <2>2, <2>5 DEF Lists
  <2>6. CASE x.by[2] \notin Lists(x.at)
    <3>1. list'[x.at] = Append(list[x.at], x.by[2])
      BY <2>2, <2>3, <2>6 DEF TypeInv
    <3> QED BY <1>6, <2>4, <3>1
  <2> QED BY <2>5, <2>6
<1> QED BY <1>5, <1>6, <1>7

\* A name or a pin that is new is that of a handler which goes on, or has
\* confirmed before.
LEMMA NewStores ==
  ASSUME TypeInv, WalkInv, CallInv, [Next]_vars, faults' = 0, NEW n \in Nodes, NEW f \in Files
  PROVE  /\ f \in entry'[n] \ entry[n] => OnWay(n, f, {"pin"})'
         /\ f \in pinned'[n] \ pinned[n] => OnWay(n, f, {"confirm"})' \/ OnWay(n, f, {"webpin"})
<1>1. ~Fault
  BY NoFaults
<1>2. entry \in [Nodes -> SUBSET Files] /\ pinned \in [Nodes -> SUBSET Files]
  BY DEF TypeInv
<1>3. ASSUME f \in entry'[n], f \notin entry[n] PROVE OnWay(n, f, {"pin"})'
  <2>1. PICK x \in calls : Handler(x)
    BY <1>3, NothingStored, Begun DEF nodeVars
  <2>2. x.at = n /\ x.by[2] = f
    BY <1>3, <2>1, HandlerStores DEF Elsewhere
  <2>3. entry' /= entry /\ ~(\E S : entry' = [entry EXCEPT ![n] = @ \ S])
    BY <1>2, <1>3
  <2>4. CopyIn(x)
    BY <2>1, <2>2, <2>3 DEF Handler, Verify, PinFile, Confirm, Unpin, RemoveName, RemoveBlock, SpaceFreed,
                            WebConfirm, WebPin, WebRemove, nodeVars
  <2>5. GoTo(x, "pin")
    BY <1>1, <2>3, <2>4 DEF CopyIn
  <2> QED BY <2>2, <2>5, GoesOn DEF Pcs
<1>4. ASSUME f \in pinned'[n], f \notin pinned[n] PROVE OnWay(n, f, {"confirm"})' \/ OnWay(n, f, {"webpin"})
  <2>1. PICK x \in calls : Handler(x)
    BY <1>4, NothingStored, Begun DEF nodeVars
  <2>2. x.at = n /\ x.by[2] = f
    BY <1>4, <2>1, HandlerStores DEF Elsewhere
  <2>3. pinned' /= pinned /\ ~(\E S : pinned' = [pinned EXCEPT ![n] = @ \ S])
    BY <1>2, <1>4
  <2>4. PinFile(x) \/ WebPin(x)
    BY <2>1, <2>2, <2>3 DEF Handler, Verify, CopyIn, Confirm, Unpin, RemoveName, RemoveBlock, SpaceFreed,
                            WebConfirm, WebRemove, nodeVars
  <2>5. CASE PinFile(x)
    <3>1. GoTo(x, "confirm")
      BY <1>1, <2>3, <2>5 DEF PinFile
    <3> QED BY <2>2, <3>1, GoesOn DEF Pcs
  <2>6. CASE WebPin(x)
    BY <2>2, <2>6 DEF WebPin, May, OnWay
  <2> QED BY <2>4, <2>5, <2>6
<1> QED BY <1>3, <1>4

\* Copying the file in leaves the name, and the blocks if it is not an upload.
LEMMA CopiedIn ==
  ASSUME TypeInv, CallInv, [Next]_vars, faults' = 0, NEW x \in calls, CopyIn(x), ~Answer(x, FALSE),
         Uploads(x) => Found(x)
  PROVE  x.by[2] \in entry'[x.at] /\ (Uploads(x) \/ x.by[2] \in held'[x.at])
<1>1. ~Fault
  BY NoFaults
<1>2. x.at \in Nodes /\ x.by[2] \in Files
  BY CallFields
<1>3. entry \in [Nodes -> SUBSET Files] /\ held \in [Nodes -> SUBSET Files]
  BY DEF TypeInv
<1>4. \/ entry' = [entry EXCEPT ![x.at] = @ \cup {x.by[2]}] /\ held' = [held EXCEPT ![x.at] = @ \cup {x.by[2]}]
      \/ Uploads(x) /\ x.by[2] \in entry[x.at] /\ entry' = entry
  BY <1>1 DEF CopyIn
<1> QED BY <1>2, <1>3, <1>4

\* Who comes to pin for a web user has just confirmed, and is listed.
LEMMA WebArrivals ==
  ASSUME TypeInv, WalkInv, CallInv, [Next]_vars, NEW y \in calls' \ calls, y.pc = "webpin"
  PROVE  \E x \in calls : WebConfirm(x) /\ y.by = x.by /\ y.at = x.at
<1>1. ASSUME NEW c \in Callers, Dial(c) PROVE FALSE
  <2> DEFINE n == job[c].peers[job[c].k]
             first == CASE c[1] = Upload -> "cp" [] c[1] = Delete -> "unpin" [] OTHER -> "verify"
  <2>1. job[c].st = "run" /\ y = CallOf(c, n, first)
    BY <1>1 DEF Dial
  <2>2. first \in Pcs /\ first /= "webpin"
    BY CallersApart DEF Pcs
  <2> HIDE DEF first
  <2>3. y.pc = first
    BY <2>1, <2>2, DialedCall
  <2> QED BY <2>2, <2>3
<1>2. ASSUME NEW n \in Nodes, NodeStops(n) PROVE FALSE
  BY <1>2 DEF NodeStops
<1>3. ASSUME NEW x \in calls, Handler(x) PROVE WebConfirm(x) /\ y.by = x.by /\ y.at = x.at
  <2>1. ~Answer(x, TRUE) /\ ~Answer(x, FALSE)
    BY DEF Answer
  <2>2. ASSUME NEW pc \in Pcs, GoTo(x, pc) PROVE y.by = x.by /\ y.at = x.at /\ y.pc = pc
    <3>1. y = [x EXCEPT !.pc = pc]
      BY <2>2 DEF GoTo
    <3> QED BY <3>1, CallFields
  <2>3. ~Spreads(x)
    <3>1. ASSUME Spreads(x) PROVE FALSE
      <4>1. PICK ns \in SUBSET Nodes : calls' = (calls \ {x}) \cup {[x EXCEPT !.at = n, !.pc = "cp"] : n \in ns}
        BY <3>1 DEF Spreads
      <4>2. PICK n \in Nodes : y = [x EXCEPT !.at = n, !.pc = "cp"]
        BY <4>1
      <4> QED BY <4>2, CallFields
    <3> QED BY <3>1
  <2>4. CASE Verify(x)
    BY <2>1, <2>2, <2>4 DEF Verify, Pcs
  <2>5. CASE CopyIn(x)
    BY <2>1, <2>2, <2>5 DEF CopyIn, Pcs
  <2>6. CASE PinFile(x)
    BY <2>1, <2>2, <2>6 DEF PinFile, Pcs
  <2>7. CASE Confirm(x) \/ SpaceFreed(x) \/ WebRemove(x)
    BY <2>1, <2>7 DEF Confirm, SpaceFreed, WebRemove
  <2>8. CASE Unpin(x) \/ RemoveName(x) \/ RemoveBlock(x)
    BY <2>1, <2>2, <2>8 DEF Unpin, RemoveName, RemoveBlock, Pcs
  <2>9. CASE WebPin(x)
    BY <2>1, <2>3, <2>9, WebSpreads
  <2>10. CASE WebConfirm(x)
    BY <2>2, <2>10 DEF WebConfirm, Pcs
  <2> QED BY <1>3, <2>4, <2>5, <2>6, <2>7, <2>8, <2>9, <2>10 DEF Handler
<1>4. ASSUME NEW n \in Nodes, NEW f \in Files, Begins(n, f) PROVE FALSE
  BY <1>4, Begun
<1> QED BY <1>1, <1>2, <1>3, <1>4, NextHandlers DEF HandlersMove

LEMMA Confirmed ==
  ASSUME TypeInv, NEW x \in calls, WebConfirm(x), ~Fault
  PROVE  x.by[2] \in ToSet(list'[x.at])
<1>1. list' = IF x.by[2] \in Lists(x.at) THEN list ELSE [list EXCEPT ![x.at] = Append(@, x.by[2])]
  BY DEF WebConfirm
<1>2. list[x.at] \in Seq(Files) /\ x.by[2] \in Files /\ x.at \in Nodes
  BY CallFields DEF TypeInv
<1>3. x.by[2] \in ToSet(Append(list[x.at], x.by[2]))
  BY <1>2, ListChanges
<1>4. CASE x.by[2] \in Lists(x.at)
  BY <1>1, <1>4 DEF Lists
<1>5. CASE x.by[2] \notin Lists(x.at)
  <2>1. list'[x.at] = Append(list[x.at], x.by[2])
    BY <1>1, <1>2, <1>5 DEF TypeInv
  <2> QED BY <1>3, <2>1
<1> QED BY <1>4, <1>5

LEMMA QuietNext == TypeInv /\ WalkInv /\ CallInv /\ PinInv /\ QuietInv /\ [Next]_vars => QuietInv'
<1> SUFFICES ASSUME TypeInv, WalkInv, CallInv, PinInv, QuietInv, [Next]_vars, faults' = 0, NEW f \in Files, ~Deleted(f)'
             PROVE  /\ job'[<<Web, f>>].st = "ok" => Through(f)' \in Nodes \ down' /\ f \in held'[Through(f)']
                    /\ \A y \in calls' : y.by[2] = f /\ y.pc \in {"pin", "confirm"} =>
                         f \in entry'[y.at] /\ (Uploads(y) \/ f \in held'[y.at])
                    /\ \A y \in calls' : y.by[2] = f /\ y.pc = "webpin" => y.at \in Listing(f)'
                    /\ \A n \in Nodes :
                         /\ n \in Listing(f)' => f \in entry'[n] \/ n = Through(f)'
                         /\ n \in Listing(f)' => f \in pinned'[n] \/ OnWay(n, f, {"webpin"})'
                         /\ f \in entry'[n] => n \in Listing(f)' \/ OnWay(n, f, {"pin", "confirm"})'
                         /\ f \in pinned'[n] => n \in Listing(f)' \/ OnWay(n, f, {"confirm"})'
  BY DEF QuietInv, Uploads, Through
<1>1. JobMoves
  BY NextMoves
<1>2. Kept(f) /\ ~Deleted(f) /\ Listing(f) \subseteq Listing(f)'
  BY <1>1, StoredStays
<1>3. faults = 0 /\ ~Fault
  BY NoFaults
<1>4. /\ job[<<Web, f>>].st = "ok" => Through(f) \in Nodes \ down /\ f \in held[Through(f)]
      /\ \A x \in calls : x.by[2] = f /\ x.pc \in {"pin", "confirm"} =>
           f \in entry[x.at] /\ (Uploads(x) \/ f \in held[x.at])
      /\ \A x \in calls : x.by[2] = f /\ x.pc = "webpin" => x.at \in Listing(f)
      /\ \A n \in Nodes :
           /\ n \in Listing(f) => f \in entry[n] \/ n = Through(f)
           /\ n \in Listing(f) => f \in pinned[n] \/ OnWay(n, f, {"webpin"})
           /\ f \in entry[n] => n \in Listing(f) \/ OnWay(n, f, {"pin", "confirm"})
           /\ f \in pinned[n] => n \in Listing(f) \/ OnWay(n, f, {"confirm"})
  BY <1>2, <1>3 DEF QuietInv
<1>5. ASSUME NEW x \in calls, x.by[2] = f, x.pc \in {"pin", "confirm"}
      PROVE  x.at \in Nodes /\ f \in entry'[x.at] /\ (Uploads(x) \/ f \in held'[x.at])
  BY <1>2, <1>4, <1>5, CallFields DEF Kept
<1>11. ASSUME NEW x \in calls, x.by[2] = f, Uploads(x) PROVE Found(x)
  <2>1. CASE x.by[1] = Upload
    BY <2>1 DEF Found
  <2>2. CASE x.by[1] = Web
    <3>1. x.by = <<Web, f>> /\ job[x.by].st /= "idle"
      BY <1>11, <2>2, CallFields, CallersApart DEF CallInv, CallRight
    <3>2. job[<<Web, f>>].st = "ok"
      BY <3>1 DEF WalkInv, WebRight
    <3> QED BY <1>4, <1>11, <3>2 DEF Found
  <2> QED BY <1>11, <2>1, <2>2 DEF Uploads
<1>12. ASSUME job'[<<Web, f>>].st = "ok" PROVE Through(f)' \in Nodes \ down' /\ f \in held'[Through(f)']
  <2>1. down' \subseteq down
    BY DownStays, NoFaults
  <2>2. CASE job[<<Web, f>>].st = "ok"
    <3>1. Through(f)' = Through(f)
      BY <1>1, <2>2, MovesWalk DEF Through
    <3> QED BY <1>2, <1>4, <2>1, <2>2, <3>1 DEF Kept
  <2>3. CASE job[<<Web, f>>].st /= "ok"
    <3>1. <<Web, f>> \in Callers /\ <<Web, f>>[1] = Web /\ <<Web, f>>[1] /= Delete /\ <<Web, f>>[2] = f
      BY CallersApart
    <3>2. job[<<Web, f>>].st = "idle" /\ Moves(<<Web, f>>)
      BY <1>1, <2>3, <3>1 DEF WalkInv, WebRight, JobMoves
    <3>3. PICK n \in Nodes : WebUpload(n, f) /\ job'[<<Web, f>>] = GivenTo(n)
      BY <1>12, <3>1, <3>2 DEF Moves
    <3>4. Through(f)' = n
      BY <3>3, GivenIsJob DEF Through
    <3>5. Begins(n, f)
      BY <3>3 DEF Begins
    <3>6. f \in held'[n] /\ UNCHANGED down /\ n \notin down
      BY <3>3, <3>5, Begun DEF WebUpload
    <3> QED BY <3>4, <3>6
  <2> QED BY <2>2, <2>3
<1>6. ASSUME NEW y \in calls', y.by[2] = f, y.pc \in {"pin", "confirm"}
      PROVE  f \in entry'[y.at] /\ (Uploads(y) \/ f \in held'[y.at])
  <2>1. CASE y \in calls
    BY <1>5, <1>6, <2>1
  <2>2. CASE y \notin calls
    <3>1. PICK x \in calls :
            /\ y.by = x.by /\ y.at = x.at
            /\ y.pc = "pin" => CopyIn(x) /\ ~Answer(x, FALSE)
            /\ y.pc = "confirm" => PinFile(x) /\ x.by[2] \in pinned'[x.at]
      BY <1>6, <2>2, Arrivals
    <3>2. x.by[2] = f /\ Uploads(x) = Uploads(y)
      BY <1>6, <3>1 DEF Uploads
    <3>3. CASE y.pc = "pin"
      <4>1. f \in entry'[x.at] /\ (Uploads(x) \/ f \in held'[x.at])
        BY <1>11, <3>1, <3>2, <3>3, CopiedIn
      <4> QED BY <3>1, <3>2, <4>1
    <3>4. CASE y.pc = "confirm"
      <4>1. x.pc = "pin"
        BY <3>1, <3>4 DEF PinFile, May
      <4>2. f \in entry'[x.at] /\ (Uploads(x) \/ f \in held'[x.at])
        BY <1>5, <3>2, <4>1
      <4> QED BY <3>1, <3>2, <4>2
    <3> QED BY <1>6, <3>3, <3>4
  <2> QED BY <2>1, <2>2
<1>7. ASSUME NEW n \in Nodes, n \in Listing(f)', n \notin Listing(f)
      PROVE  /\ f \in entry'[n] \/ n = Through(f)'
             /\ f \in pinned'[n] \/ OnWay(n, f, {"webpin"})'
  <2>1. f \in ToSet(list'[n]) /\ f \notin Lists(n)
    BY <1>7 DEF Listing, Lists
  <2>2. PICK x \in calls : (Confirm(x) \/ WebConfirm(x)) /\ x.at = n /\ x.by[2] = f
    BY <2>1, Listings
  <2>3. CASE Confirm(x)
    <3>1. x.pc = "confirm"
      BY <2>3 DEF Confirm, May
    <3>2. f \in pinned[n]
      BY <1>2, <2>2, <3>1 DEF PinInv
    <3> QED BY <1>2, <1>5, <2>2, <3>1, <3>2 DEF Kept
  <2>4. CASE WebConfirm(x)
    <3>1. n = Through(f)
      BY <2>2, <2>4 DEF WebConfirm, May, CallInv, CallRight
    <3>2. Through(f)' = Through(f)
      BY <1>1, <3>1, ThroughStays
    <3>3. GoTo(x, "webpin")
      BY <2>4 DEF WebConfirm
    <3> QED BY <2>2, <3>1, <3>2, <3>3, GoesOn DEF Pcs
  <2> QED BY <2>2, <2>3, <2>4
<1>13. ASSUME NEW n \in Nodes, n \in Listing(f)' PROVE f \in entry'[n] \/ n = Through(f)'
  <2>1. n = Through(f) => n = Through(f)'
    BY <1>1, ThroughStays
  <2> QED BY <1>2, <1>4, <1>7, <1>13, <2>1 DEF Kept
<1>14. ASSUME NEW n \in Nodes, n \in Listing(f)' PROVE f \in pinned'[n] \/ OnWay(n, f, {"webpin"})'
  <2>1. CASE n \notin Listing(f)
    BY <1>7, <1>14, <2>1
  <2>2. CASE f \in pinned[n]
    BY <1>2, <2>2 DEF Kept
  <2>3. CASE OnWay(n, f, {"webpin"})
    <3>1. PICK x \in calls : x.at = n /\ x.by[2] = f /\ x.pc = "webpin"
      BY <2>3 DEF OnWay
    <3>2. x \notin calls' => f \in pinned'[n]
      BY <3>1, PinsOn
    <3> QED BY <3>1, <3>2 DEF OnWay
  <2> QED BY <1>4, <2>1, <2>2, <2>3
<1>15. ASSUME NEW y \in calls', y.by[2] = f, y.pc = "webpin" PROVE y.at \in Listing(f)'
  <2>1. CASE y \in calls
    BY <1>2, <1>4, <1>15, <2>1
  <2>2. CASE y \notin calls
    <3>1. PICK x \in calls : WebConfirm(x) /\ y.by = x.by /\ y.at = x.at
      BY <1>15, <2>2, WebArrivals
    <3>2. f \in ToSet(list'[x.at])
      BY <1>3, <1>15, <3>1, Confirmed
    <3> QED BY <3>1, <3>2, CallFields DEF Listing, Lists
  <2> QED BY <2>1, <2>2
<1>8. ASSUME NEW n \in Nodes, NEW x \in calls, x.at = n, x.by[2] = f, x.pc \in {"pin", "confirm"}
      PROVE  \/ x \in calls'
             \/ x.pc = "pin" /\ OnWay(n, f, {"confirm"})'
             \/ x.pc = "confirm" /\ n \in Listing(f)'
  <2>1. Found(x)
    <3>1. Uploads(x) \/ x.by[2] \in held[x.at]
      BY <1>4, <1>8
    <3>2. x.at \in Nodes \ down
      BY CallFields DEF CallInv, CallRight
    <3> QED BY <1>8, <1>11, <3>1, <3>2 DEF Found
  <2>2. ASSUME x \notin calls', x.pc = "pin" PROVE OnWay(n, f, {"confirm"})'
    BY <1>8, <2>1, <2>2, PinsOn
  <2>3. ASSUME x \notin calls', x.pc = "confirm" PROVE f \in ToSet(list'[n])
    BY <1>8, <2>1, <2>3, PinsOn
  <2> QED BY <1>8, <2>2, <2>3 DEF Listing, Lists
<1>9. ASSUME NEW n \in Nodes, f \in entry'[n] PROVE n \in Listing(f)' \/ OnWay(n, f, {"pin", "confirm"})'
  <2>1. CASE f \notin entry[n]
    <3>1. OnWay(n, f, {"pin"})'
      BY <1>9, <2>1, NewStores
    <3> QED BY <3>1 DEF OnWay
  <2>2. CASE n \in Listing(f)
    BY <1>2, <2>2
  <2>3. CASE OnWay(n, f, {"pin", "confirm"})
    <3>1. PICK x \in calls : x.at = n /\ x.by[2] = f /\ x.pc \in {"pin", "confirm"}
      BY <2>3 DEF OnWay
    <3> QED BY <1>8, <3>1 DEF OnWay
  <2> QED BY <1>4, <2>1, <2>2, <2>3
<1>10. ASSUME NEW n \in Nodes, f \in pinned'[n] PROVE n \in Listing(f)' \/ OnWay(n, f, {"confirm"})'
  <2>1. CASE f \notin pinned[n]
    <3>1. CASE OnWay(n, f, {"webpin"})
      <4>1. PICK x \in calls : x.at = n /\ x.by[2] = f /\ x.pc = "webpin"
        BY <3>1 DEF OnWay
      <4> QED BY <1>2, <1>4, <4>1
    <3> QED BY <1>10, <2>1, <3>1, NewStores
  <2>2. CASE n \in Listing(f)
    BY <1>2, <2>2
  <2>3. CASE OnWay(n, f, {"confirm"})
    <3>1. PICK x \in calls : x.at = n /\ x.by[2] = f /\ x.pc = "confirm"
      BY <2>3 DEF OnWay
    <3> QED BY <1>8, <3>1 DEF OnWay
  <2> QED BY <1>4, <2>1, <2>2, <2>3
<1> QED BY <1>6, <1>9, <1>10, <1>12, <1>13, <1>14, <1>15
-----------------------------------------------------------------------------
(***************************************************************************)
(* The initial states, and the theorems.                                   *)
(***************************************************************************)
LEMMA InitOK == Init => IInv
<1> SUFFICES ASSUME Init PROVE IInv
  OBVIOUS
<1>1. PICK s \in Starts :
        /\ list \in [Nodes -> UNION {Answers(Files, k) : k \in 0 .. Cardinality(Files)}]
        /\ \A n \in Nodes : Lists(n) = {f \in Files : n \in s.home}
        /\ held = [n \in Nodes |-> {f \in Files : n \in s.home}]
        /\ entry = held /\ pinned = held
        /\ job = [c \in Callers |->
                    IF c[1] = Upload /\ s.home /= {} THEN [NoJob EXCEPT !.st = "before"] ELSE NoJob]
        /\ down = s.down
  BY DEF Init
<1>2. banned = {} /\ calls = {} /\ scan = [q \in Pingers |-> NoScan] /\ faults = 0
  BY DEF Init
<1>3. /\ s.home \in SUBSET Nodes /\ s.down \in SUBSET Nodes
      /\ s.home /= {} => Cardinality(s.home) = Copies
  BY ProvidersAssumption
<1>4. list \in [Nodes -> Seq(Files)]
  <2>1. ASSUME NEW k \in 0 .. Cardinality(Files), NEW a \in Answers(Files, k) PROVE a \in Seq(Files)
    <3>1. k \in Nat
      BY <2>1, FS_CardinalityType, ProvidersAssumption
    <3> QED BY <2>1, <3>1 DEF Answers
  <2> QED BY <1>1, <2>1
<1>5. \A c \in Callers : /\ job[c] \in Jobs /\ ~job[c].on /\ job[c].st \in {"idle", "before"}
                         /\ job[c].st = "before" => c[1] = Upload /\ s.home /= {}
  BY <1>1, NoJobIsJob
<1>6. TypeInv
  <2>1. job \in [Callers -> Jobs]
    BY <1>1, <1>5
  <2>2. scan \in [Pingers -> Scans]
    BY <1>2 DEF NoScan, Scans
  <2>3. held \in [Nodes -> SUBSET Files] /\ entry \in [Nodes -> SUBSET Files] /\ pinned \in [Nodes -> SUBSET Files]
    BY <1>1
  <2> QED BY <1>1, <1>2, <1>3, <1>4, <2>1, <2>2, <2>3 DEF TypeInv
<1>7. WalkInv
  <2>1. ASSUME NEW f \in Files PROVE job[<<Web, f>>] = NoJob
    BY <1>1, CallersApart
  <2>2. \A f \in Files : WebRight(f)
    BY <2>1 DEF WebRight, Through, NoJob
  <2> QED BY <1>2, <1>5, <2>2 DEF WalkInv, NoScan
<1>8. CallInv
  BY <1>2 DEF CallInv
<1>9. ASSUME NEW f \in Files PROVE Listing(f) = s.home
  BY <1>1, <1>3 DEF Listing
<1>10. CopiesInv
  <2>1. ASSUME NEW f \in Files, job[<<Upload, f>>].st \in {"ok", "before"} PROVE Cardinality(Listing(f)) >= Copies
    <3>1. <<Upload, f>> \in Callers
      BY CallersApart
    <3>2. s.home /= {}
      BY <1>5, <2>1, <3>1
    <3>3. Cardinality(Listing(f)) = Copies /\ Copies \in Nat
      BY <1>3, <1>9, <3>2, ProvidersAssumption
    <3> QED BY <3>3
  <2>2. ASSUME NEW f \in Files PROVE job[<<Upload, f>>].st /= "run"
    BY <1>5, CallersApart
  <2> QED BY <2>1, <2>2 DEF CopiesInv
<1>11. \A f \in Files, n \in Nodes : f \in entry[n] /\ f \in pinned[n] <=> n \in s.home
  BY <1>1
<1>12. PinInv
  BY <1>1, <1>2, <1>3, <1>9 DEF PinInv
<1>13. QuietInv
  <2>1. \A f \in Files : job[<<Web, f>>].st /= "ok"
    BY <1>5, CallersApart
  <2> QED BY <1>1, <1>2, <1>3, <1>9, <2>1 DEF QuietInv
<1> QED BY <1>6, <1>7, <1>8, <1>10, <1>12, <1>13 DEF IInv

LEMMA Step == IInv /\ [Next]_vars => IInv'
BY TypeNext, CallNext, CopiesNext, PinNext, QuietNext DEF IInv

\* In every run: walks and handlers are what their callers made them, an
\* upload counts nodes that are listed, and pins, names and lists agree.
THEOREM Invariant == Spec => []IInv
BY InitOK, Step, PTL DEF Spec

\* A provider that others give a file confirms it only when it is pinned,
\* whatever fails.  When nothing failed, a node that serves no request for a
\* file has its pin exactly when the contract lists it, and its name too unless
\* it was a web user who gave it the file.
THEOREM RecordAgreesAlways == Spec => []RecordAgrees
<1>1. IInv => RecordAgrees
  <2> SUFFICES ASSUME IInv, NEW f \in Files, ~Deleted(f), NEW n \in Nodes
               PROVE  /\ n \in Listing(f) /\ n /= Through(f) => f \in pinned[n]
                      /\ faults = 0 /\ Serving(n, f) = {} =>
                           /\ f \in pinned[n] <=> n \in Listing(f)
                           /\ n /= Through(f) => (f \in entry[n] <=> n \in Listing(f))
    BY DEF RecordAgrees
  <2>1. n \in Listing(f) /\ n /= Through(f) => f \in pinned[n]
    BY DEF IInv, PinInv
  <2>2. ASSUME faults = 0, Serving(n, f) = {}
        PROVE  /\ f \in pinned[n] <=> n \in Listing(f)
               /\ n /= Through(f) => (f \in entry[n] <=> n \in Listing(f))
    <3>1. ~OnWay(n, f, {"confirm"}) /\ ~OnWay(n, f, {"pin", "confirm"}) /\ ~OnWay(n, f, {"webpin"})
      BY <2>2 DEF OnWay, Serving
    <3>2. /\ n \in Listing(f) => f \in entry[n] \/ n = Through(f)
          /\ n \in Listing(f) => f \in pinned[n] \/ OnWay(n, f, {"webpin"})
          /\ f \in entry[n] => n \in Listing(f) \/ OnWay(n, f, {"pin", "confirm"})
          /\ f \in pinned[n] => n \in Listing(f) \/ OnWay(n, f, {"confirm"})
      BY <2>2 DEF IInv, QuietInv
    <3> QED BY <3>1, <3>2
  <2> QED BY <2>1, <2>2
<1> QED BY <1>1, Invariant, PTL

\* An upload that reports success has its copies on that many different
\* nodes, for as long as nobody asks to delete the file.
THEOREM CopiesAreMade == Spec => []UploadedCopies
<1>1. IInv => UploadedCopies
  BY DEF IInv, CopiesInv, UploadedCopies
<1> QED BY <1>1, Invariant, PTL

-----------------------------------------------------------------------------
(* Validation: the inductive invariant *)

\* An entry is that of a goroutine of the node, or one of its goroutines has to end yet.
Entered ==
    \A n \in Storers : uuidProvMap[n] # Nothing =>
        \E i \in Ids : checks[i].node = n /\ checks[i].pc # "done"

\* The goroutines of a check are those of its role.
AnswerPlaces == {"store", "open", "nap", "linger", "done"}
Roles ==
    \A i \in Ids :
        /\ checks[i].role = "provider" => checks[i].pc \in AnswerPlaces
        /\ checks[i].role = "initiator" => checks[i].pc \notin {"store", "open", "nap"}

TakenOver(r) == \A k \in DOMAIN r.providers : \E l \in DOMAIN r.nodes : r.nodes[l] = r.providers[k]

\* Of the addresses that nobody can use a list has only that of the node that asks: the
\* others have come with a registration.
ListsUsable(r, asker) == \A k \in DOMAIN r.providers : r.providers[k] \in Unusable => r.providers[k] = asker

Traced ==
    \A i \in Ids : /\ checks[i].chunk \in Ids
                   /\ checks[i].role = "initiator" => checks[i].chunk = i
                   /\ ListsUsable(checks[i], checks[checks[i].chunk].node)

\* The list that a check sends is not empty, and who answers has taken it over.
Listed ==
    /\ \A i \in Ids :
         /\ checks[i].role = "provider" \/ checks[i].pc = "gather" => Len(checks[i].providers) >= 1
         /\ checks[i].role = "provider" /\ checks[i].pc \in {"nap", "linger"} => TakenOver(checks[i])
    /\ \A c \in thriftCalls : /\ c.from \in Ids
                              /\ c.kind = "chunk" => c.listed >= 1 /\ c.listed <= Len(checks[c.from].providers)

CheckInv == CheckTypeOK /\ Entered /\ Roles /\ Traced /\ Listed

-----------------------------------------------------------------------------
(* Steps of one RunningCheck *)

LEMMA Changed ==
    ASSUME NEW s \in Seq(RunningCheck), NEW i \in DOMAIN s, NEW r \in RunningCheck, NEW t, t = [s EXCEPT ![i] = r]
    PROVE  /\ t \in Seq(RunningCheck) /\ DOMAIN t = DOMAIN s /\ Len(t) = Len(s)
           /\ t[i] = r /\ \A j \in DOMAIN s : j # i => t[j] = s[j]
BY ExceptSeq

LEMMA Added ==
    ASSUME NEW s \in Seq(RunningCheck), NEW r \in RunningCheck, NEW t, t = Append(s, r)
    PROVE  /\ t \in Seq(RunningCheck) /\ DOMAIN t = DOMAIN s \cup {Len(s) + 1} /\ Len(t) = Len(s) + 1
           /\ t[Len(s) + 1] = r /\ Len(s) + 1 \notin DOMAIN s /\ \A j \in DOMAIN s : t[j] = s[j]
<1>1. t \in Seq(RunningCheck) /\ Len(t) = Len(s) + 1 /\ Len(s) \in Nat
    BY AppendProperties, LenProperties
<1>2. DOMAIN t = 1 .. Len(t) /\ DOMAIN s = 1 .. Len(s)
    BY <1>1, LenProperties
<1>3. \A j \in 1 .. Len(s) : t[j] = s[j]
    BY AppendProperties
<1>4. t[Len(s) + 1] = r
    BY AppendProperties
<1> QED BY <1>1, <1>2, <1>3, <1>4

\* What EXCEPT makes of the fields of a record, one at a time.
LEMMA Fields ==
    ASSUME NEW r \in RunningCheck, NEW n \in Storers
    PROVE  /\ \A x \in {"get", "info", "self", "gather", "ask", "sum", "store", "open", "nap", "linger", "done"} :
                 /\ [r EXCEPT !.pc = x] \in RunningCheck
           /\ \A b \in BOOLEAN : [r EXCEPT !.hasInfo = b] \in RunningCheck /\ [r EXCEPT !.stuck = b] \in RunningCheck
           /\ [r EXCEPT !.nodes = Append(r.nodes, n)] \in RunningCheck
           /\ [r EXCEPT !.providers = Append(r.providers, n)] \in RunningCheck
           /\ [r EXCEPT !.nodes = r.nodes \o r.providers] \in RunningCheck
           /\ \A x \in Chunks : [r EXCEPT !.results[n] = x] \in RunningCheck
<1>1. r.nodes \in Seq(Storers) /\ r.providers \in Seq(Storers)
    BY DEF RunningCheck
<1>2. Append(r.nodes, n) \in Seq(Storers) /\ Append(r.providers, n) \in Seq(Storers) /\ r.nodes \o r.providers \in Seq(Storers)
    BY <1>1, AppendProperties, ConcatProperties
<1>3. \A x \in Chunks : [r.results EXCEPT ![n] = x] \in [Storers -> Chunks]
    BY DEF RunningCheck
<1>4. \A x \in Chunks : [r EXCEPT !.results = [r.results EXCEPT ![n] = x]] \in RunningCheck
    BY <1>3 DEF RunningCheck
<1>5. \A x \in Chunks : [r EXCEPT !.results[n] = x] \in RunningCheck
    BY <1>4
<1>6. \A x \in {"get", "info", "self", "gather", "ask", "sum", "store", "open", "nap", "linger", "done"} : [r EXCEPT !.pc = x] \in RunningCheck
    BY DEF RunningCheck
<1>7. \A b \in BOOLEAN : [r EXCEPT !.hasInfo = b] \in RunningCheck /\ [r EXCEPT !.stuck = b] \in RunningCheck
    BY DEF RunningCheck
<1>8. [r EXCEPT !.nodes = Append(r.nodes, n)] \in RunningCheck
    BY <1>2 DEF RunningCheck
<1>9. [r EXCEPT !.providers = Append(r.providers, n)] \in RunningCheck
    BY <1>2 DEF RunningCheck
<1>10. [r EXCEPT !.nodes = r.nodes \o r.providers] \in RunningCheck
    BY <1>2 DEF RunningCheck
<1> QED BY <1>5, <1>6, <1>7, <1>8, <1>9, <1>10

-----------------------------------------------------------------------------
(* A step that changes one RunningCheck keeps the invariant *)

\* r is the new record of check i.
Sound(i, r) ==
    /\ r \in RunningCheck /\ r.role = checks[i].role /\ r.node = checks[i].node /\ r.chunk = checks[i].chunk
    /\ ListsUsable(r, checks[checks[i].chunk].node)
    /\ Len(r.providers) >= Len(checks[i].providers)
    /\ r.role = "provider" => r.pc \in AnswerPlaces
    /\ r.role = "initiator" => r.pc \notin {"store", "open", "nap"}
    /\ r.pc = "gather" => Len(r.providers) >= 1
    /\ r.role = "provider" /\ r.pc \in {"nap", "linger"} => TakenOver(r)

\* What a step sends is a call of a check that there is.
Sent(cs) ==
    \A c \in cs \ thriftCalls : c \in Call /\ c.from \in Ids
                          /\ (c.kind = "chunk" => c.listed >= 1 /\ c.listed <= Len(checks[c.from].providers))

LEMMA OneChanges ==
    ASSUME CheckInv, NEW i \in Ids, NEW r, Sound(i, r), checks' = [checks EXCEPT ![i] = r],
           Sent(thriftCalls'), registered' \in 0 .. MaxRegistrations,
           \/ uuidProvMap' = uuidProvMap /\ (r.pc = "done" => checks[i].pc = "done")
           \/ uuidProvMap' = [uuidProvMap EXCEPT ![r.node] = i] /\ r.pc # "done"
           \/ uuidProvMap' = [uuidProvMap EXCEPT ![r.node] = Nothing]
    PROVE  CheckInv'
<1>1. /\ checks' \in Seq(RunningCheck) /\ Ids' = Ids
      /\ checks'[i] = r /\ \A j \in Ids : j # i => checks'[j] = checks[j]
    <2>1. checks \in Seq(RunningCheck) /\ r \in RunningCheck /\ i \in DOMAIN checks
        BY DEF CheckInv, CheckTypeOK, Sound, Ids
    <2> QED BY <2>1, Changed DEF Ids
<1>2. r.node \in Storers
    BY DEF Sound, RunningCheck
<1>3. uuidProvMap' \in [Storers -> Ids \cup {Nothing}]
    BY <1>2 DEF CheckInv, CheckTypeOK
<1>4. thriftCalls' \subseteq Call
    BY DEF CheckInv, CheckTypeOK, Sent
<1>5. CheckTypeOK'
    BY <1>1, <1>3, <1>4 DEF CheckTypeOK
<1>6. Entered'
    <2> SUFFICES ASSUME NEW n \in Storers, uuidProvMap'[n] # Nothing
                 PROVE  \E j \in Ids : checks'[j].node = n /\ checks'[j].pc # "done"
        BY <1>1 DEF Entered
    <2>1. CASE uuidProvMap'[n] = uuidProvMap[n] /\ (n = r.node => (r.pc = "done" => checks[i].pc = "done"))
        <3>1. PICK j \in Ids : checks[j].node = n /\ checks[j].pc # "done"
            BY <2>1 DEF CheckInv, Entered
        <3> QED BY <1>1, <2>1, <3>1 DEF Sound
    <2>2. CASE n = r.node /\ r.pc # "done"
        BY <1>1, <2>2
    <2>3. \/ uuidProvMap'[n] = uuidProvMap[n] /\ (n = r.node => (r.pc = "done" => checks[i].pc = "done"))
          \/ n = r.node /\ r.pc # "done"
        BY <1>2 DEF CheckInv, CheckTypeOK
    <2> QED BY <2>1, <2>2, <2>3
<1>7. Roles'
    BY <1>1 DEF CheckInv, Roles, Sound
<1>8. \A j \in Ids : Len(checks[j].providers) \in Nat /\ Len(checks'[j].providers) \in Nat
    <2>1. \A j \in Ids : checks[j] \in RunningCheck /\ checks'[j] \in RunningCheck
        BY <1>1 DEF CheckInv, CheckTypeOK, Ids
    <2>2. \A j \in Ids : checks[j].providers \in Seq(Storers) /\ checks'[j].providers \in Seq(Storers)
        BY <2>1 DEF RunningCheck
    <2> QED BY <2>2, LenProperties
<1>9. \A j \in Ids : /\ checks'[j].role = checks[j].role
                     /\ Len(checks'[j].providers) >= Len(checks[j].providers)
    BY <1>1, <1>8 DEF Sound
<1>10. Listed'
    <2>1. \A j \in Ids :
             /\ checks'[j].role = "provider" \/ checks'[j].pc = "gather" => Len(checks'[j].providers) >= 1
             /\ checks'[j].role = "provider" /\ checks'[j].pc \in {"nap", "linger"} => TakenOver(checks'[j])
        BY <1>1, <1>8, <1>9 DEF CheckInv, Listed, Sound
    <2>2. \A c \in thriftCalls' : /\ c.from \in Ids
                                  /\ c.kind = "chunk" => c.listed >= 1 /\ c.listed <= Len(checks[c.from].providers)
        BY DEF CheckInv, Listed, Sent
    <2>3. \A c \in thriftCalls' : c.listed \in Nat
        BY <1>4 DEF Call
    <2>4. \A c \in thriftCalls' : c.kind = "chunk" => c.listed <= Len(checks'[c.from].providers)
        BY <1>8, <1>9, <2>2, <2>3
    <2> QED BY <1>1, <2>1, <2>2, <2>4 DEF Listed
<1>11. Traced'
    <2>1. \A j \in Ids : checks'[j].chunk = checks[j].chunk /\ checks'[j].role = checks[j].role
                         /\ checks'[j].node = checks[j].node /\ checks[j].chunk \in Ids
        BY <1>1 DEF Sound, CheckInv, Traced
    <2>2. \A j \in Ids : ListsUsable(checks'[j], checks[checks[j].chunk].node)
        BY <1>1 DEF Sound, CheckInv, Traced
    <2> QED BY <1>1, <2>1, <2>2 DEF CheckInv, Traced
<1> QED BY <1>5, <1>6, <1>7, <1>10, <1>11 DEF CheckInv

LEMMA Known ==
    ASSUME CheckInv, NEW i \in Ids
    PROVE  /\ checks[i] \in RunningCheck /\ checks[i].node \in Storers /\ checks[i].chunk \in Nat
           /\ checks[i].nodes \in Seq(Storers) /\ checks[i].providers \in Seq(Storers)
           /\ Len(checks[i].nodes) \in Nat /\ Len(checks[i].providers) \in Nat
           /\ checks \in Seq(RunningCheck) /\ Len(checks) \in Nat /\ Ids = 1 .. Len(checks) /\ i \in Nat
           /\ checks = [checks EXCEPT ![i] = checks[i]]
<1>1. checks \in Seq(RunningCheck) /\ i \in DOMAIN checks
    BY DEF CheckInv, CheckTypeOK, Ids
<1>2. checks[i] \in RunningCheck /\ Len(checks) \in Nat /\ DOMAIN checks = 1 .. Len(checks)
    BY <1>1, LenProperties
<1>3. checks[i].nodes \in Seq(Storers) /\ checks[i].providers \in Seq(Storers) /\ checks[i].node \in Storers /\ checks[i].chunk \in Nat
    BY <1>2 DEF RunningCheck
<1>4. checks = [checks EXCEPT ![i] = checks[i]]
    BY <1>1
<1> QED BY <1>1, <1>2, <1>3, <1>4, LenProperties DEF Ids

\* A RunningCheck that only goes on.
LEMMA CheckGoesOn ==
    ASSUME CheckInv, NEW i \in Ids, NEW x, Goto(i, x), Sent(thriftCalls'), UNCHANGED registered,
           x \in {"get", "info", "self", "gather", "ask", "sum", "store", "open", "nap", "linger", "done"},
           checks[i].role = "provider" => x \in AnswerPlaces, checks[i].role = "initiator" => x \notin {"store", "open", "nap"},
           x = "gather" => Len(checks[i].providers) >= 1,
           checks[i].role = "provider" /\ x \in {"nap", "linger"} => TakenOver(checks[i]),
           \/ uuidProvMap' = uuidProvMap /\ x # "done"
           \/ Store(i) /\ x # "done"
           \/ uuidProvMap' = [uuidProvMap EXCEPT ![checks[i].node] = Nothing]
    PROVE  CheckInv'
<1> DEFINE r == [checks[i] EXCEPT !.pc = x]
<1>1. checks[i] \in RunningCheck /\ checks[i].node \in Storers /\ Len(checks[i].providers) \in Nat
    BY Known
<1>2. r \in RunningCheck
    BY <1>1, Fields
<1>3. /\ r.role = checks[i].role /\ r.node = checks[i].node /\ r.providers = checks[i].providers
      /\ r.nodes = checks[i].nodes /\ r.chunk = checks[i].chunk /\ r.pc = x
    BY <1>1 DEF RunningCheck
<1>4. checks' = [checks EXCEPT ![i] = r]
    BY DEF Goto
<1>5. registered' \in 0 .. MaxRegistrations
    BY DEF CheckInv, CheckTypeOK
<1> HIDE DEF r
<1>6. Sound(i, r)
    BY <1>1, <1>2, <1>3 DEF Sound, CheckInv, Traced, TakenOver, ListsUsable
<1>7. \/ uuidProvMap' = uuidProvMap /\ r.pc # "done"
      \/ uuidProvMap' = [uuidProvMap EXCEPT ![r.node] = i] /\ r.pc # "done"
      \/ uuidProvMap' = [uuidProvMap EXCEPT ![r.node] = Nothing]
    BY <1>3 DEF Store
<1> QED BY <1>4, <1>5, <1>6, <1>7, OneChanges

LEMMA SendsSound ==
    ASSUME CheckInv, NEW i \in Ids, NEW kind \in {"chunk", "sum"}, NEW places, places \subseteq DOMAIN checks[i].nodes,
           NEW sum \in Chunks, kind = "chunk" => Len(checks[i].providers) >= 1,
           thriftCalls' = thriftCalls \cup Send(i, kind, places, sum)
    PROVE  Sent(thriftCalls')
<1>1. ASSUME NEW k \in places PROVE checks[i].nodes[k] \in Storers /\ k \in Nat
    <2>1. k \in 1 .. Len(checks[i].nodes) /\ checks[i].nodes \in Seq(Storers) /\ Len(checks[i].nodes) \in Nat
        BY <1>1, Known, LenProperties
    <2> QED BY <2>1, ElementOfSeq
<1>2. i \in Nat /\ Len(checks[i].providers) \in Nat
    BY Known
<1>3. ASSUME NEW c \in Send(i, kind, places, sum)
      PROVE  c \in Call /\ c.from = i /\ c.kind = kind /\ c.listed = Len(checks[i].providers)
    <2>1. PICK k \in places :
            c = [kind |-> kind, from |-> i, to |-> checks[i].nodes[k], place |-> k,
                 listed |-> Len(checks[i].providers), sum |-> sum, waited |-> kind = "chunk"]
        BY <1>3 DEF Send
    <2>2. checks[i].nodes[k] \in Storers /\ k \in Nat /\ (kind = "chunk") \in BOOLEAN
        BY <1>1
    <2>3. c \in Call
        BY <1>2, <2>1, <2>2 DEF Call
    <2> QED BY <2>1, <2>3
<1> QED BY <1>2, <1>3 DEF Sent

\* What a registration or the node itself adds to a list of nodes.
LEMMA Appended ==
    ASSUME NEW s \in Seq(Storers), NEW n \in Storers, NEW t, t = Append(s, n)
    PROVE  /\ DOMAIN t = DOMAIN s \cup {Len(s) + 1} /\ t[Len(s) + 1] = n
           /\ \A k \in DOMAIN s : t[k] = s[k]
<1>1. t \in Seq(Storers) /\ Len(t) = Len(s) + 1 /\ Len(s) \in Nat
    BY AppendProperties, LenProperties
<1>2. DOMAIN t = 1 .. Len(t) /\ DOMAIN s = 1 .. Len(s)
    BY <1>1, LenProperties
<1>3. t[Len(s) + 1] = n /\ \A k \in 1 .. Len(s) : t[k] = s[k]
    BY AppendProperties
<1> QED BY <1>1, <1>2, <1>3

LEMMA OneMore ==
    ASSUME NEW o, NEW r, NEW n \in Storers, NEW asker, o.providers \in Seq(Storers), r.providers = Append(o.providers, n),
           ListsUsable(o, asker), n \notin Unusable \/ n = asker
    PROVE  ListsUsable(r, asker)
<1>1. /\ DOMAIN r.providers = DOMAIN o.providers \cup {Len(o.providers) + 1} /\ r.providers[Len(o.providers) + 1] = n
      /\ \A k \in DOMAIN o.providers : r.providers[k] = o.providers[k]
    BY Appended
<1> QED BY <1>1 DEF ListsUsable

\* Whoever is in the second list is in the joined one.
LEMMA Joined ==
    ASSUME NEW s \in Seq(Storers), NEW t \in Seq(Storers)
    PROVE  \A k \in DOMAIN t : \E l \in DOMAIN (s \o t) : (s \o t)[l] = t[k]
<1> DEFINE u == s \o t
<1>1. u \in Seq(Storers) /\ Len(u) = Len(s) + Len(t) /\ Len(s) \in Nat /\ Len(t) \in Nat
    BY ConcatProperties, LenProperties
<1>3. \A l \in 1 .. Len(s) + Len(t) : u[l] = IF l <= Len(s) THEN s[l] ELSE t[l - Len(s)]
    BY ConcatProperties
<1> HIDE DEF u
<1>2. DOMAIN u = 1 .. Len(u) /\ DOMAIN t = 1 .. Len(t)
    BY <1>1, LenProperties
<1>4. ASSUME NEW k \in 1 .. Len(t) PROVE u[Len(s) + k] = t[k] /\ Len(s) + k \in 1 .. Len(u)
    <2>1. Len(s) + k \in 1 .. Len(u) /\ ~(Len(s) + k <= Len(s)) /\ (Len(s) + k) - Len(s) = k
        BY <1>1
    <2> QED BY <1>1, <1>3, <2>1
<1> QED BY <1>2, <1>4 DEF u

LEMMA CheckKept == ASSUME CheckInv, NEW i \in Ids, CheckStep(i) PROVE CheckInv'
<1>0. Sent(thriftCalls) /\ checks[i] \in RunningCheck /\ checks[i].node \in Storers /\ registered \in 0 .. MaxRegistrations
    BY Known DEF Sent, CheckInv, CheckTypeOK
<1>1. CASE GetFails(i)
    BY <1>0, <1>1, CheckGoesOn DEF GetFails, Finish, At, CheckInv, Roles, AnswerPlaces
<1>2. CASE SetInfo(i)
    <2> DEFINE a == [checks[i] EXCEPT !.pc = "info"]
               r == [a EXCEPT !.hasInfo = TRUE]
    <2>1. a \in RunningCheck
        BY <1>0, Fields
    <2>2. r \in RunningCheck
        BY <1>0, <2>1, Fields
    <2>3. r.role = checks[i].role /\ r.node = checks[i].node /\ r.providers = checks[i].providers /\ r.pc = "info"
          /\ r.chunk = checks[i].chunk
        BY <1>0 DEF RunningCheck
    <2>4. checks' = [checks EXCEPT ![i] = r]
        BY <1>0, <1>2 DEF SetInfo, RunningCheck, CheckInv, CheckTypeOK
    <2> HIDE DEF r
    <2>5. Sound(i, r)
        <3>1. checks[i].pc = "get" /\ Len(r.providers) \in Nat
            BY <1>2, <2>3, Known DEF SetInfo, At
        <3>2. checks[i].role # "provider"
            BY <3>1 DEF CheckInv, Roles, AnswerPlaces
        <3> QED BY <2>2, <2>3, <3>1, <3>2 DEF Sound, CheckInv, Traced, ListsUsable
    <2> QED BY <1>0, <1>2, <2>3, <2>4, <2>5, OneChanges DEF SetInfo
<1>3. CASE ListSelf(i)
    <2> DEFINE a == [checks[i] EXCEPT !.pc = "self"]
               r == [a EXCEPT !.nodes = Append(a.nodes, checks[i].node)]
    <2>1. a \in RunningCheck
        BY <1>0, Fields
    <2>2. r \in RunningCheck
        BY <1>0, <2>1, Fields
    <2>3. r.role = checks[i].role /\ r.node = checks[i].node /\ r.providers = checks[i].providers /\ r.pc = "self"
          /\ r.chunk = checks[i].chunk
        BY <1>0 DEF RunningCheck
    <2>4. checks' = [checks EXCEPT ![i] = r]
        BY <1>0, <1>3 DEF ListSelf, RunningCheck, CheckInv, CheckTypeOK
    <2> HIDE DEF r
    <2>5. Sound(i, r)
        <3>1. checks[i].role # "provider" /\ Len(checks[i].providers) \in Nat
            BY <1>3, Known DEF ListSelf, At, CheckInv, Roles, AnswerPlaces
        <3> QED BY <2>2, <2>3, <3>1 DEF Sound, CheckInv, Traced, ListsUsable
    <2> QED BY <1>0, <1>3, <2>3, <2>4, <2>5, OneChanges DEF ListSelf
<1>4. CASE ProvideSelf(i)
    <2> DEFINE a == [checks[i] EXCEPT !.pc = "gather"]
               r == [a EXCEPT !.providers = Append(a.providers, checks[i].node)]
    <2>1. a \in RunningCheck
        BY <1>0, Fields
    <2>2. r \in RunningCheck
        BY <1>0, <2>1, Fields
    <2>3. r.role = checks[i].role /\ r.node = checks[i].node /\ r.chunk = checks[i].chunk /\ r.pc = "gather"
          /\ r.providers = Append(checks[i].providers, checks[i].node)
        BY <1>0 DEF RunningCheck
    <2>4. Len(r.providers) = Len(checks[i].providers) + 1
        BY <1>0, <2>3, Known, AppendProperties
    <2>5. checks' = [checks EXCEPT ![i] = r]
        BY <1>0, <1>4 DEF ProvideSelf, RunningCheck, CheckInv, CheckTypeOK
    <2> HIDE DEF r
    <2>6. Sound(i, r)
        <3>1. checks[i].role # "provider" /\ Len(checks[i].providers) \in Nat
            BY <1>4, Known DEF ProvideSelf, At, CheckInv, Roles, AnswerPlaces
        <3>2. checks[i].chunk = i
            BY <1>0, <3>1 DEF RunningCheck, CheckInv, Traced
        <3>3. ListsUsable(r, checks[checks[i].chunk].node)
            BY <2>3, <3>2, Known, OneMore DEF CheckInv, Traced
        <3> QED BY <2>2, <2>3, <2>4, <3>1, <3>3 DEF Sound
    <2> QED BY <1>0, <1>4, <2>3, <2>5, <2>6, OneChanges DEF ProvideSelf, Store
<1>5. CASE SendChunkInfos(i)
    <2>1. Len(checks[i].providers) >= 1 /\ Nothing \in Chunks /\ Reached(i) \ {1} \subseteq DOMAIN checks[i].nodes
        BY <1>5 DEF SendChunkInfos, At, CheckInv, Listed, Chunks, Reached
    <2>2. Sent(thriftCalls')
        BY <1>5, <2>1, SendsSound DEF SendChunkInfos
    <2> QED BY <1>0, <1>5, <2>2, CheckGoesOn DEF SendChunkInfos, At, CheckInv, Roles, AnswerPlaces
<1>6. CASE Asked(i)
    BY <1>0, <1>6, CheckGoesOn DEF Asked, At, CheckInv, Roles, AnswerPlaces
<1>7. CASE SendSums(i)
    <2>1. PICK sum \in Chunks : thriftCalls' = thriftCalls \cup Send(i, "sum", Reached(i), sum)
        BY <1>7, Known DEF SendSums, Chunks
    <2>2. Sent(thriftCalls')
        BY <2>1, SendsSound DEF Reached
    <2> QED BY <1>0, <1>7, <2>2, CheckGoesOn DEF SendSums, At, CheckInv, Roles, AnswerPlaces
<1>8. CASE EndCheck(i)
    BY <1>0, <1>8, CheckGoesOn DEF EndCheck, Finish, At, CheckInv, Roles, AnswerPlaces
<1> QED BY <1>1, <1>2, <1>3, <1>4, <1>5, <1>6, <1>7, <1>8 DEF CheckStep

\* A daemon ends, with the goroutines of all its checks.
LEMMA DaemonEnds == ASSUME CheckInv, NEW i \in Ids, NobodyToAnswer(i) PROVE CheckInv'
<1>1. /\ checks' = [j \in Ids |-> IF checks[j].node = checks[i].node THEN [checks[j] EXCEPT !.pc = "done"] ELSE checks[j]]
      /\ uuidProvMap' = [uuidProvMap EXCEPT ![checks[i].node] = Nothing] /\ UNCHANGED <<thriftCalls, registered>>
    BY DEF NobodyToAnswer
<1>2. Ids' = Ids
    BY <1>1 DEF Ids
<1>3. ASSUME NEW j \in Ids
      PROVE  /\ checks'[j] \in RunningCheck
             /\ checks'[j].role = checks[j].role /\ checks'[j].node = checks[j].node /\ checks'[j].chunk = checks[j].chunk
             /\ checks'[j].providers = checks[j].providers /\ checks'[j].nodes = checks[j].nodes
             /\ checks'[j].pc = IF checks[j].node = checks[i].node THEN "done" ELSE checks[j].pc
    <2>1. checks[j] \in RunningCheck
        BY Known
    <2>2. PICK r : r = [checks[j] EXCEPT !.pc = "done"]
        OBVIOUS
    <2>3. /\ r \in RunningCheck /\ r.role = checks[j].role /\ r.node = checks[j].node /\ r.chunk = checks[j].chunk
          /\ r.providers = checks[j].providers /\ r.nodes = checks[j].nodes /\ r.pc = "done"
        BY <2>1, <2>2 DEF RunningCheck
    <2>4. checks'[j] = IF checks[j].node = checks[i].node THEN r ELSE checks[j]
        BY <1>1, <2>2
    <2> QED BY <2>1, <2>3, <2>4
<1>4. checks' \in Seq(RunningCheck)
    <2>1. Ids = 1 .. Len(checks) /\ Len(checks) \in Nat
        BY Known
    <2>2. checks' \in [1 .. Len(checks) -> RunningCheck]
        BY <1>1, <1>3, <2>1
    <2> QED BY <2>1, <2>2, SeqDef
<1>5. CheckTypeOK'
    BY <1>1, <1>2, <1>4, Known DEF CheckInv, CheckTypeOK
<1>6. Entered'
    <2> SUFFICES ASSUME NEW n \in Storers, uuidProvMap'[n] # Nothing
                 PROVE  \E j \in Ids : checks'[j].node = n /\ checks'[j].pc # "done"
        BY <1>2 DEF Entered
    <2>1. n # checks[i].node /\ uuidProvMap'[n] = uuidProvMap[n]
        BY <1>1, Known DEF CheckInv, CheckTypeOK
    <2>2. PICK j \in Ids : checks[j].node = n /\ checks[j].pc # "done"
        BY <2>1 DEF CheckInv, Entered
    <2> QED BY <1>3, <2>1, <2>2
<1>7. Roles'
    BY <1>2, <1>3 DEF CheckInv, Roles, AnswerPlaces
<1>8. Traced'
    <2>1. \A j \in Ids : checks[j].chunk \in Ids
        BY DEF CheckInv, Traced
    <2> QED BY <1>2, <1>3, <2>1 DEF CheckInv, Traced, ListsUsable
<1>9. Listed'
    <2>1. \A c \in thriftCalls : c.from \in Ids
        BY DEF CheckInv, Listed
    <2> QED BY <1>1, <1>2, <1>3, <2>1 DEF CheckInv, Listed, TakenOver
<1> QED BY <1>5, <1>6, <1>7, <1>8, <1>9 DEF CheckInv

LEMMA CollectKept == ASSUME CheckInv, NEW i \in Ids, CollectStep(i) PROVE CheckInv'
<1>0. Sent(thriftCalls) /\ checks[i] \in RunningCheck /\ checks[i].node \in Storers /\ registered \in 0 .. MaxRegistrations
    BY Known DEF Sent, CheckInv, CheckTypeOK
<1>1. checks[i].role \in {"initiator", "provider"}
    BY <1>0 DEF RunningCheck
<1>2. CASE StoreCollected(i)
    BY <1>0, <1>1, <1>2, CheckGoesOn DEF StoreCollected, At, CheckInv, Roles, AnswerPlaces
<1>6. CASE NobodyToAnswer(i)
    BY <1>6, DaemonEnds DEF NobodyToAnswer
<1>3. CASE CollectFails(i) \/ Respond(i)
    BY <1>0, <1>1, <1>3, CheckGoesOn DEF CollectFails, Respond, Finish, At, AnswerPlaces
<1>4. CASE Collect(i)
    <2> DEFINE a == [checks[i] EXCEPT !.pc = "nap"]
               b == [a EXCEPT !.nodes = a.nodes \o a.providers]
               n == checks[i].node
               r == [b EXCEPT !.results[n] = checks[i].chunk]
    <2>0. checks[i].chunk \in Chunks
        BY Known DEF Chunks
    <2>1. a \in RunningCheck
        BY <1>0, Fields
    <2>2. b \in RunningCheck
        BY <1>0, <2>1, Fields
    <2>3. r \in RunningCheck
        BY <1>0, <2>0, <2>2, Fields
    <2>4. r.role = checks[i].role /\ r.node = checks[i].node /\ r.pc = "nap"
          /\ r.providers = checks[i].providers /\ r.nodes = checks[i].nodes \o checks[i].providers
          /\ r.chunk = checks[i].chunk
        BY <1>0 DEF RunningCheck
    <2>5. checks[i].role = "provider" /\ Len(checks[i].providers) >= 1
        BY <1>1, <1>4 DEF Collect, At, CheckInv, Roles, Listed
    <2>7. checks' = [checks EXCEPT ![i] = r]
        BY <1>0, <1>4 DEF Collect, RunningCheck, CheckInv, CheckTypeOK
    <2> HIDE DEF r
    <2>6. TakenOver(r)
        <3>1. PICK s \in Seq(Storers), t \in Seq(Storers) : s = checks[i].nodes /\ t = checks[i].providers
            BY Known
        <3>3. \A k \in DOMAIN t : \E l \in DOMAIN (s \o t) : (s \o t)[l] = t[k]
            BY Joined
        <3>2. \A k \in DOMAIN checks[i].providers : \E l \in DOMAIN r.nodes : r.nodes[l] = checks[i].providers[k]
            <4>1. r.nodes = s \o t /\ checks[i].providers = t
                BY <2>4, <3>1
            <4> QED BY <3>3, <4>1, Zenon
        <3> QED BY <2>4, <3>2 DEF TakenOver
    <2>8. Sound(i, r)
        <3>1. Len(checks[i].providers) \in Nat
            BY Known
        <3>2. r.role = "provider" /\ r.pc \in AnswerPlaces /\ r.pc # "gather" /\ Len(r.providers) >= Len(checks[i].providers)
            BY <2>4, <2>5, <3>1 DEF AnswerPlaces
        <3>3. ListsUsable(r, checks[checks[i].chunk].node)
            BY <2>4 DEF CheckInv, Traced, ListsUsable
        <3> QED BY <2>3, <2>4, <2>6, <3>2, <3>3 DEF Sound
    <2> QED BY <1>0, <1>4, <2>4, <2>7, <2>8, OneChanges DEF Collect
<1>5. CASE SendCollected(i)
    <2>1. checks[i].role = "provider" /\ TakenOver(checks[i]) /\ checks[i].chunk \in Chunks
        BY <1>1, <1>5, Known DEF SendCollected, At, CheckInv, Roles, Listed, Chunks
    <2>2. Sent(thriftCalls')
        BY <1>5, <2>1, SendsSound DEF SendCollected, Reached
    <2> QED BY <1>0, <1>5, <2>1, <2>2, CheckGoesOn DEF SendCollected, At, AnswerPlaces
<1> QED BY <1>2, <1>3, <1>4, <1>5, <1>6 DEF CollectStep

-----------------------------------------------------------------------------
(* Registrations *)

\* A registration that lists its node in one or both of the lists.
LEMMA Registered ==
    ASSUME CheckInv, NEW i \in Ids, NEW n \in Storers, NEW r \in RunningCheck, checks' = [checks EXCEPT ![i] = r],
           UNCHANGED <<uuidProvMap, thriftCalls>>, registered < MaxRegistrations, registered' = registered + 1,
           r.role = checks[i].role, r.node = checks[i].node, r.chunk = checks[i].chunk,
           r.nodes = Append(checks[i].nodes, n),
           \/ r.pc = checks[i].pc
           \/ checks[i].pc \in {"info", "self"} /\ r.pc \in {"self", "gather"},
           \/ r.providers = checks[i].providers /\ r.pc # "gather"
           \/ r.providers = checks[i].providers /\ r.pc = checks[i].pc
           \/ \E q \in Storers : /\ r.providers = Append(checks[i].providers, q)
                                 /\ q \notin Unusable \/ (checks[i].role = "initiator" /\ q = checks[i].node)
                                 /\ r.pc \in {"nap", "linger"} => q = n
    PROVE  CheckInv'
<1>1. Len(r.nodes) = Len(checks[i].nodes) + 1 /\ Len(checks[i].nodes) \in Nat
    BY Known, AppendProperties
<1>2. Len(r.providers) >= Len(checks[i].providers) /\ Len(checks[i].providers) \in Nat
      /\ (r.providers # checks[i].providers => Len(r.providers) >= 1)
    BY Known, AppendProperties
<1>3. Sound(i, r)
    <2>1. r.role = "provider" => r.pc = checks[i].pc /\ r.pc \in AnswerPlaces
        BY DEF CheckInv, Roles, AnswerPlaces
    <2>2. r.role = "initiator" => r.pc \notin {"store", "open", "nap"}
        BY DEF CheckInv, Roles
    <2>3. r.pc = "gather" => Len(r.providers) >= 1
        <3>1. CASE r.providers = checks[i].providers
            BY <1>2, <3>1 DEF CheckInv, Listed
        <3>2. CASE r.providers # checks[i].providers
            BY <1>2, <3>2
        <3> QED BY <3>1, <3>2
    <2>4. ListsUsable(r, checks[checks[i].chunk].node)
        <3>1. ListsUsable(checks[i], checks[checks[i].chunk].node) /\ (checks[i].role = "initiator" => checks[i].chunk = i)
            BY DEF CheckInv, Traced
        <3>2. CASE r.providers = checks[i].providers
            BY <3>1, <3>2 DEF ListsUsable
        <3>3. CASE r.providers # checks[i].providers
            <4>1. PICK q \in Storers : r.providers = Append(checks[i].providers, q)
                                       /\ (q \notin Unusable \/ (checks[i].role = "initiator" /\ q = checks[i].node))
                BY <3>3
            <4>2. checks[i].providers \in Seq(Storers)
                BY Known
            <4>3. q \notin Unusable \/ q = checks[checks[i].chunk].node
                BY <3>1, <4>1
            <4> QED BY <3>1, <4>1, <4>2, <4>3, OneMore
        <3> QED BY <3>2, <3>3
    <2>5. ASSUME r.role = "provider", r.pc \in {"nap", "linger"} PROVE TakenOver(r)
        <3>1. TakenOver(checks[i])
            BY <2>1, <2>5 DEF CheckInv, Listed
        <3>2. /\ DOMAIN r.nodes = DOMAIN checks[i].nodes \cup {Len(checks[i].nodes) + 1} /\ r.nodes[Len(checks[i].nodes) + 1] = n
              /\ \A k \in DOMAIN checks[i].nodes : r.nodes[k] = checks[i].nodes[k]
            BY Known, Appended
        <3>3. \A k \in DOMAIN checks[i].providers : \E l \in DOMAIN r.nodes : r.nodes[l] = checks[i].providers[k]
            BY <3>1, <3>2 DEF TakenOver
        <3>4. CASE r.providers = checks[i].providers
            BY <3>3, <3>4 DEF TakenOver
        <3>5. CASE r.providers = Append(checks[i].providers, n)
            <4>1. /\ DOMAIN r.providers = DOMAIN checks[i].providers \cup {Len(checks[i].providers) + 1}
                  /\ r.providers[Len(checks[i].providers) + 1] = n
                  /\ \A k \in DOMAIN checks[i].providers : r.providers[k] = checks[i].providers[k]
                BY <3>5, Known, Appended
            <4> QED BY <3>2, <3>3, <4>1 DEF TakenOver
        <3> QED BY <2>5, <3>4, <3>5
    <2> QED BY <1>1, <1>2, <2>1, <2>2, <2>3, <2>4, <2>5 DEF Sound
<1>4. registered' \in 0 .. MaxRegistrations /\ Sent(thriftCalls')
    BY ValidationAssumption DEF CheckInv, CheckTypeOK, Sent
<1>5. r.pc = "done" => checks[i].pc = "done"
    OBVIOUS
<1> QED BY <1>3, <1>4, <1>5, OneChanges

LEMMA RegisterKept == ASSUME CheckInv, NEW n \in Storers, NEW p \in Storers, Register(n, p) PROVE CheckInv'
<1>1. CASE UNCHANGED checks
    <2>1. UNCHANGED <<checks, uuidProvMap, thriftCalls>> /\ registered' \in 0 .. MaxRegistrations
        BY <1>1, ValidationAssumption DEF Register, CheckInv, CheckTypeOK
    <2> QED BY <2>1 DEF CheckInv, CheckTypeOK, Entered, Roles, Traced, Listed, Ids
<1>2. CASE ~UNCHANGED checks
    <2>1. PICK i \in Ids : i = uuidProvMap[n]
        BY <1>2 DEF Register
    <2>2. PICK o : o = checks[i]
        OBVIOUS
    <2>3. o \in RunningCheck /\ checks \in Seq(RunningCheck)
        BY <2>2, Known
    <2> DEFINE a == [o EXCEPT !.nodes = Append(o.nodes, p)]
    <2>4. a \in RunningCheck
        BY <2>3, Fields
    <2>5. CASE o.hasInfo
        <3> DEFINE r == [a EXCEPT !.providers = Append(a.providers, p)]
        <3>1. r \in RunningCheck
            BY <2>4, Fields
        <3>2. r.role = o.role /\ r.node = o.node /\ r.chunk = o.chunk /\ r.nodes = Append(o.nodes, p) /\ r.pc = o.pc
              /\ r.providers = Append(o.providers, p)
            BY <2>3 DEF RunningCheck
        <3>3. checks' = [checks EXCEPT ![i] = r]
            <4>1. checks' = [checks EXCEPT ![i].nodes = Append(@, p), ![i].providers = Append(@, p)]
                BY <1>2, <2>1, <2>2, <2>5 DEF Register
            <4>2. a.providers = o.providers
                BY <2>3 DEF RunningCheck
            <4> QED BY <2>1, <2>2, <2>3, <4>1, <4>2
        <3> HIDE DEF r
        <3>4. UNCHANGED <<uuidProvMap, thriftCalls>> /\ registered < MaxRegistrations /\ registered' = registered + 1
              /\ p \notin Unusable
            BY DEF Register
        <3> QED BY <2>2, <3>1, <3>2, <3>3, <3>4, Registered
    <2>6. CASE ~o.hasInfo
        <3> DEFINE r == [a EXCEPT !.stuck = TRUE]
        <3>1. r \in RunningCheck
            BY <2>4, Fields
        <3>2. r.role = o.role /\ r.node = o.node /\ r.chunk = o.chunk /\ r.nodes = Append(o.nodes, p) /\ r.pc = o.pc
              /\ r.providers = o.providers
            BY <2>3 DEF RunningCheck
        <3>3. checks' = [checks EXCEPT ![i] = r]
            BY <1>2, <2>1, <2>2, <2>3, <2>6 DEF Register, RunningCheck
        <3> HIDE DEF r
        <3> QED BY <2>2, <3>1, <3>2, <3>3, Registered DEF Register
    <2> QED BY <2>5, <2>6
<1> QED BY <1>1, <1>2

LEMMA RacesKept == ASSUME CheckInv, NEW n \in Storers, NEW p \in Storers, RegisterRaces(n, p) PROVE CheckInv'
<1>1. PICK i \in Ids : i = uuidProvMap[n]
    BY DEF RegisterRaces
<1>2. PICK o : o = checks[i]
    OBVIOUS
<1>3. o \in RunningCheck /\ checks \in Seq(RunningCheck)
    BY <1>2, Known
<1>4. PICK kept \in Storers :
     /\ kept \in {checks[i].node, p}
     /\ \/ /\ At(i, "info")
           /\ checks' = [checks EXCEPT ![i].pc = "self", ![i].nodes = Append(@, kept), ![i].providers = Append(@, p)]
        \/ /\ At(i, "self")
           /\ checks' = [checks EXCEPT ![i].pc = "gather", ![i].nodes = Append(@, p), ![i].providers = Append(@, kept)]
    BY <1>1, Known DEF RegisterRaces
<1>5. ASSUME NEW x \in {"self", "gather"}, o.pc \in {"info", "self"}, NEW q \in Storers, NEW s \in Storers, s \in {o.node, p},
             checks' = [checks EXCEPT ![i].pc = x, ![i].nodes = Append(@, q), ![i].providers = Append(@, s)]
      PROVE  CheckInv'
    <2> DEFINE a == [o EXCEPT !.pc = x]
               b == [a EXCEPT !.nodes = Append(a.nodes, q)]
               r == [b EXCEPT !.providers = Append(b.providers, s)]
    <2>1. a \in RunningCheck
        BY <1>3, Fields
    <2>2. b \in RunningCheck
        BY <2>1, Fields
    <2>3. r \in RunningCheck
        BY <2>2, Fields
    <2>4. r.role = o.role /\ r.node = o.node /\ r.chunk = o.chunk /\ r.nodes = Append(o.nodes, q) /\ r.pc = x
          /\ r.providers = Append(o.providers, s)
        BY <1>3 DEF RunningCheck
    <2>5. checks' = [checks EXCEPT ![i] = r]
        BY <1>2, <1>3, <1>5 DEF RunningCheck
    <2> HIDE DEF r
    <2>6. \E z \in Storers : /\ r.providers = Append(checks[i].providers, z)
                             /\ z \notin Unusable \/ (checks[i].role = "initiator" /\ z = checks[i].node)
                             /\ r.pc \in {"nap", "linger"} => z = q
        <3>1. o.role = "initiator"
            BY <1>2, <1>3, <1>5 DEF CheckInv, Roles, AnswerPlaces, RunningCheck
        <3>2. p \notin Unusable
            BY DEF RegisterRaces
        <3> QED BY <1>2, <1>5, <2>4, <3>1, <3>2
    <2>7. UNCHANGED <<uuidProvMap, thriftCalls>> /\ registered < MaxRegistrations /\ registered' = registered + 1
        BY DEF RegisterRaces
    <2>8. r.nodes = Append(checks[i].nodes, q) /\ checks[i].pc \in {"info", "self"} /\ r.pc \in {"self", "gather"}
          /\ r.role = checks[i].role /\ r.node = checks[i].node /\ r.chunk = checks[i].chunk
        BY <1>2, <1>5, <2>4
    <2> QED BY <1>5, <2>3, <2>5, <2>6, <2>7, <2>8, Registered
<1> QED BY <1>2, <1>4, <1>5 DEF At

-----------------------------------------------------------------------------
(* New goroutines, and calls *)

LEMMA OneStarts ==
    ASSUME CheckInv, NEW r \in RunningCheck, checks' = Append(checks, r), thriftCalls' \subseteq thriftCalls, UNCHANGED registered,
           \/ /\ r.role = "provider" /\ r.pc = "store" /\ Len(r.providers) >= 1
              /\ r.chunk \in Ids /\ ListsUsable(r, checks[r.chunk].node)
           \/ r.role = "initiator" /\ r.pc = "get" /\ r.chunk = Len(checks) + 1 /\ r.providers = <<>>,
           \/ uuidProvMap' = uuidProvMap
           \/ uuidProvMap' = [uuidProvMap EXCEPT ![r.node] = Len(checks) + 1]
    PROVE  CheckInv'
<1>0. checks \in Seq(RunningCheck)
    BY DEF CheckInv, CheckTypeOK
<1>1. PICK k \in Nat : k = Len(checks) + 1
    BY <1>0, LenProperties
<1>2. /\ checks' \in Seq(RunningCheck) /\ Ids' = Ids \cup {k}
      /\ checks'[k] = r /\ k \notin Ids /\ \A j \in Ids : checks'[j] = checks[j]
    BY <1>0, <1>1, Added DEF Ids
<1>3. r.node \in Storers
    BY DEF RunningCheck
<1>4. CheckTypeOK'
    BY <1>1, <1>2, <1>3 DEF CheckInv, CheckTypeOK
<1>5. Entered'
    <2> SUFFICES ASSUME NEW n \in Storers, uuidProvMap'[n] # Nothing
                 PROVE  \E j \in Ids' : checks'[j].node = n /\ checks'[j].pc # "done"
        BY DEF Entered
    <2>1. CASE uuidProvMap'[n] = uuidProvMap[n]
        <3>1. PICK j \in Ids : checks[j].node = n /\ checks[j].pc # "done"
            BY <2>1 DEF CheckInv, Entered
        <3>2. j \in Ids' /\ checks'[j] = checks[j]
            BY <1>2
        <3> QED BY <3>1, <3>2
    <2>2. CASE uuidProvMap'[n] # uuidProvMap[n]
        <3>1. n = r.node
            BY <2>2 DEF CheckInv, CheckTypeOK
        <3> QED BY <1>2, <3>1
    <2> QED BY <2>1, <2>2
<1>6. Roles'
    BY <1>2 DEF CheckInv, Roles, AnswerPlaces
<1>7. Listed'
    <2>1. \A c \in thriftCalls : c.from \in Ids
        BY DEF CheckInv, Listed
    <2>2. ASSUME NEW j \in Ids'
          PROVE  /\ checks'[j].role = "provider" \/ checks'[j].pc = "gather" => Len(checks'[j].providers) >= 1
                 /\ checks'[j].role = "provider" /\ checks'[j].pc \in {"nap", "linger"} => TakenOver(checks'[j])
        <3>1. CASE j \in Ids
            BY <1>2, <3>1 DEF CheckInv, Listed
        <3>2. CASE j = k
            BY <1>2, <3>2
        <3> QED BY <1>2, <3>1, <3>2
    <2>3. ASSUME NEW c \in thriftCalls'
          PROVE  /\ c.from \in Ids'
                 /\ c.kind = "chunk" => c.listed >= 1 /\ c.listed <= Len(checks'[c.from].providers)
        <3>1. c \in thriftCalls /\ c.from \in Ids /\ c.from \in Ids' /\ checks'[c.from] = checks[c.from]
            BY <1>2, <2>1
        <3> QED BY <3>1 DEF CheckInv, Listed
    <2> QED BY <2>2, <2>3 DEF Listed, TakenOver
<1>8. Traced'
    <2>1. \A j \in Ids : checks[j].chunk \in Ids
        BY DEF CheckInv, Traced
    <2>2. ASSUME NEW j \in Ids
          PROVE  /\ checks'[j].chunk \in Ids' /\ (checks'[j].role = "initiator" => checks'[j].chunk = j)
                 /\ ListsUsable(checks'[j], checks'[checks'[j].chunk].node)
        BY <1>2, <2>1 DEF CheckInv, Traced
    <2>3. r.chunk \in Ids' /\ (r.role = "initiator" => r.chunk = k)
        BY <1>1, <1>2
    <2>4. ListsUsable(r, checks'[r.chunk].node)
        <3>1. CASE r.providers = <<>>
            <4>1. DOMAIN r.providers = {}
                BY <3>1
            <4> QED BY <4>1 DEF ListsUsable
        <3>2. CASE r.chunk \in Ids /\ ListsUsable(r, checks[r.chunk].node)
            BY <1>2, <3>2
        <3> QED BY <3>1, <3>2
    <2> QED BY <1>2, <2>2, <2>3, <2>4 DEF Traced
<1> QED BY <1>4, <1>5, <1>6, <1>7, <1>8 DEF CheckInv

LEMMA StartKept == ASSUME CheckInv, NEW n \in Storers, StartCheck(n) PROVE CheckInv'
<1>1. PICK k \in Nat : k = Len(checks) + 1
    BY LenProperties DEF CheckInv, CheckTypeOK
<1>2. PICK r \in RunningCheck : /\ checks' = Append(checks, r) /\ r.role = "initiator" /\ r.pc = "get" /\ r.node = n
                                /\ r.chunk = k /\ r.providers = <<>>
    <2>1. <<>> \in Seq(Storers) /\ [m \in Storers |-> Nothing] \in [Storers -> Chunks]
        BY DEF Chunks
    <2>2. PICK r : r = NewRunningCheck("initiator", n, "get", k, <<>>)
        OBVIOUS
    <2>3. r \in RunningCheck /\ r.role = "initiator" /\ r.pc = "get" /\ r.node = n /\ r.chunk = k /\ r.providers = <<>>
        BY <1>1, <2>1, <2>2 DEF NewRunningCheck, RunningCheck
    <2>4. checks' = Append(checks, r)
        BY <1>1, <2>2 DEF StartCheck
    <2> QED BY <2>3, <2>4
<1>3. thriftCalls' \subseteq thriftCalls /\ UNCHANGED registered /\ uuidProvMap' = [uuidProvMap EXCEPT ![r.node] = Len(checks) + 1]
    BY <1>2 DEF StartCheck
<1> QED BY <1>1, <1>2, <1>3, OneStarts

LEMMA CallStepKept == ASSUME CheckInv, NEW c \in thriftCalls, CallStep(c) PROVE CheckInv'
<1>0. c \in Call /\ c.from \in Ids /\ c.to \in Storers /\ c.sum \in Chunks /\ c.listed \in Nat
    BY DEF CheckInv, CheckTypeOK, Listed, Call
<1>1. CASE SendChunkInfo(c)
    <2>1. PICK len \in c.listed .. Len(checks[c.from].providers) :
            checks' = Append(checks, NewRunningCheck("provider", c.to, "store", checks[c.from].chunk,
                                                     SubSeq(checks[c.from].providers, 1, len)))
        BY <1>1 DEF SendChunkInfo
    <2>2. PICK ps : ps = checks[c.from].providers
        OBVIOUS
    <2>3. ps \in Seq(Storers) /\ checks[c.from].chunk \in Nat /\ Len(ps) \in Nat
        BY <1>0, <2>2, Known
    <2>4. c.listed >= 1
        BY <1>1 DEF SendChunkInfo, CheckInv, Listed
    <2>5. len \in 1 .. Len(ps)
        BY <1>0, <2>1, <2>2, <2>3, <2>4
    <2>6. SubSeq(ps, 1, len) \in Seq(Storers) /\ Len(SubSeq(ps, 1, len)) = len
        BY <2>3, <2>5, SubSeqProperties
    <2>7. PICK r \in RunningCheck : /\ checks' = Append(checks, r) /\ r.role = "provider" /\ r.pc = "store"
                                    /\ r.providers = SubSeq(ps, 1, len) /\ r.chunk = checks[c.from].chunk
        <3>1. PICK r : r = NewRunningCheck("provider", c.to, "store", checks[c.from].chunk, SubSeq(ps, 1, len))
            OBVIOUS
        <3>2. /\ r \in RunningCheck /\ r.role = "provider" /\ r.pc = "store"
              /\ r.providers = SubSeq(ps, 1, len) /\ r.chunk = checks[c.from].chunk
            <4>1. <<>> \in Seq(Storers) /\ [m \in Storers |-> Nothing] \in [Storers -> Chunks]
                BY DEF Chunks
            <4> QED BY <1>0, <2>3, <2>6, <3>1, <4>1 DEF NewRunningCheck, RunningCheck
        <3>3. checks' = Append(checks, r)
            BY <2>1, <2>2, <3>1
        <3> QED BY <3>2, <3>3
    <2>8. Len(r.providers) >= 1
        BY <2>5, <2>6, <2>7
    <2>9. r.chunk \in Ids /\ ListsUsable(r, checks[r.chunk].node)
        <3>1. checks[c.from].chunk \in Ids /\ ListsUsable(checks[c.from], checks[checks[c.from].chunk].node)
            BY <1>0 DEF CheckInv, Traced
        <3>2. DOMAIN r.providers = 1 .. len /\ \A k \in 1 .. len : r.providers[k] = ps[k]
            <4>1. r.providers \in Seq(Storers) /\ Len(r.providers) = len
                BY <2>6, <2>7
            <4>2. \A k \in 1 .. len : SubSeq(ps, 1, len)[k] = ps[k]
                BY <2>3, <2>5
            <4> QED BY <2>7, <4>1, <4>2, LenProperties
        <3>3. 1 .. len \subseteq DOMAIN ps
            BY <2>3, <2>5, LenProperties
        <3> QED BY <2>2, <2>7, <3>1, <3>2, <3>3 DEF ListsUsable
    <2> QED BY <1>1, <2>7, <2>8, <2>9, OneStarts DEF SendChunkInfo
<1>2. CASE SendChecksumHash(c)
    <2>1. CASE UNCHANGED checks
        <3>1. UNCHANGED <<checks, uuidProvMap, registered>> /\ thriftCalls' \subseteq thriftCalls
            BY <1>2, <2>1 DEF SendChecksumHash
        <3> QED BY <3>1 DEF CheckInv, CheckTypeOK, Entered, Roles, Traced, Listed, Ids
    <2>2. CASE ~UNCHANGED checks
        <3>1. PICK i \in Ids : i = uuidProvMap[c.to] /\ checks' = [checks EXCEPT ![i].results[checks[c.from].node] = c.sum]
            BY <1>2, <2>2 DEF SendChecksumHash
        <3>2. PICK m \in Storers : m = checks[c.from].node
            BY <1>0, Known
        <3>3. PICK o \in RunningCheck : o = checks[i]
            BY Known
        <3>4. PICK r \in RunningCheck : r = [o EXCEPT !.results[m] = c.sum]
            BY <1>0, Fields
        <3>5. checks' = [checks EXCEPT ![i] = r]
            BY <3>1, <3>2, <3>3, <3>4
        <3>6. r.role = o.role /\ r.node = o.node /\ r.providers = o.providers /\ r.nodes = o.nodes /\ r.pc = o.pc
              /\ r.chunk = o.chunk
            BY <3>4 DEF RunningCheck
        <3>7. Sound(i, r)
            <4>1. Len(r.providers) >= Len(checks[i].providers)
                BY <3>3, <3>6, Known
            <4>2. ListsUsable(r, checks[checks[i].chunk].node) /\ (TakenOver(o) => TakenOver(r))
                BY <3>3, <3>6 DEF CheckInv, Traced, ListsUsable, TakenOver
            <4> QED BY <3>3, <3>6, <4>1, <4>2 DEF Sound, CheckInv, Roles, Listed
        <3>8. Sent(thriftCalls') /\ registered' \in 0 .. MaxRegistrations /\ uuidProvMap' = uuidProvMap
            BY <1>2 DEF SendChecksumHash, Sent, CheckInv, CheckTypeOK
        <3> QED BY <3>3, <3>5, <3>6, <3>7, <3>8, OneChanges
    <2> QED BY <2>1, <2>2
<1>3. CASE Lose(c) \/ TimeOut(c)
    <2>1. PICK d : d = [c EXCEPT !.waited = FALSE]
        OBVIOUS
    <2>2. d \in Call /\ d.from = c.from /\ d.kind = c.kind /\ d.listed = c.listed
        BY <1>0, <2>1 DEF Call
    <2>3. UNCHANGED <<checks, uuidProvMap, registered>> /\ thriftCalls' \subseteq thriftCalls \cup {d}
        BY <1>3, <2>1 DEF Lose, TimeOut
    <2> QED BY <2>2, <2>3 DEF CheckInv, CheckTypeOK, Entered, Roles, Traced, Listed, Ids
<1> QED BY <1>1, <1>2, <1>3 DEF CallStep

-----------------------------------------------------------------------------
(* The theorems *)

LEMMA InitInv == CheckInit => CheckInv
<1> SUFFICES ASSUME CheckInit PROVE CheckInv
    OBVIOUS
<1>1. Ids = {} /\ checks \in Seq(RunningCheck)
    BY DEF CheckInit, Ids
<1>2. CheckTypeOK
    BY <1>1, ValidationAssumption DEF CheckInit, CheckTypeOK
<1> QED BY <1>1, <1>2 DEF CheckInit, CheckInv, Entered, Roles, Traced, Listed

LEMMA NextInv == CheckInv /\ [CheckNext]_checkVars => CheckInv'
<1> SUFFICES ASSUME CheckInv, [CheckNext]_checkVars PROVE CheckInv'
    OBVIOUS
<1>1. CASE CheckNext
    BY <1>1, StartKept, RegisterKept, RacesKept, CheckKept, CollectKept, CallStepKept DEF CheckNext
<1>2. CASE UNCHANGED checkVars
    BY <1>2 DEF checkVars, CheckInv, CheckTypeOK, Entered, Roles, Traced, Listed, Ids
<1> QED BY <1>1, <1>2

THEOREM CheckInvariant == CheckSpec => []CheckInv
BY InitInv, NextInv, PTL DEF CheckSpec

\* A RunningCheck, an entry of uuidProvMap and a call have the types that Validation gives them.
THEOREM Typing == CheckSpec => []CheckTypeOK
BY CheckInvariant, PTL DEF CheckInv

\* Every place of server.go where a check ends, and every one where an answer to a check
\* ends, removes the entry that it or another goroutine of the node has made.
THEOREM EntriesEnd == CheckSpec => []MapClean
<1>1. CheckInv => MapClean
    BY DEF CheckInv, Entered, MapClean
<1> QED BY <1>1, CheckInvariant, PTL

\* A node that answers has a rc.nodes[0] to report to, unless the node that asked has an address
\* nobody can use and is all there is in its list: the list that a chunk info carries is never
\* empty, and of the others only those are in it that have registered.
THEOREM ReportsReach == CheckSpec => []ReportHasTarget
<1>1. CheckInv => ReportHasTarget
    <2> SUFFICES ASSUME CheckInv, NEW i \in Ids, checks[i].role = "provider", checks[i].pc \in {"nap", "linger"}, Reached(i) = {}
                 PROVE  /\ Asker(i) \in Unusable
                        /\ \A k \in DOMAIN checks[i].providers : checks[i].providers[k] = Asker(i)
        BY DEF ReportHasTarget
    <2>1. \A l \in DOMAIN checks[i].nodes : checks[i].nodes[l] \in Unusable
        BY DEF Reached
    <2>2. \A k \in DOMAIN checks[i].providers : checks[i].providers[k] \in Unusable
        BY <2>1 DEF CheckInv, Listed, TakenOver
    <2>3. \A k \in DOMAIN checks[i].providers : checks[i].providers[k] = Asker(i)
        BY <2>2 DEF CheckInv, Traced, ListsUsable, Asker
    <2>4. 1 \in DOMAIN checks[i].providers
        BY Known, LenProperties DEF CheckInv, Listed
    <2> QED BY <2>2, <2>3, <2>4
<1> QED BY <1>1, CheckInvariant, PTL
=============================================================================
