----------------------------- MODULE Mfs_proofs -----------------------------
(***************************************************************************)
(* Theorems about Mfs, for any commands on any files in any directories    *)
(* and any interleaving with each other and the Republisher: names that no *)
(* two commands share have the content that running them one by one gives, *)
(* and a flush that ran alone has recorded the directories it flushes.     *)
(***************************************************************************)
EXTENDS Mfs, SequenceTheorems, TLAPS

(***************************************************************************)
(* The invariant.                                                          *)
(***************************************************************************)
Kinds == {"write", "buffer", "cp", "rm", "flush", "mv", "flushall", "never"}
Places == {"new", "done", "look", "add", "child", "open", "lock", "close", "up", "top", "root", "unlock",
           "unlink", "node", "sync", "read", "clear", "put", "drop", "wait", "offer", "answer"}
Contents == {Absent} \cup SUBSET Ops
Objs == [node : SUBSET Ops, desc : Ops \cup {None}]
OpRecs == [kind : Kinds, name : Names \cup {None}, to : Names \cup {None}, at : Places,
           obj : Nat, node : SUBSET Ops, snap : Trees, left : SUBSET Dirs]
Pubs == [st : {"idle", "waiting", "publishing"}, who : Ops \cup {None}, tree : Trees, num : Nat]

TreeInv ==
  /\ link \in Trees /\ top \in Trees
  /\ cache \in [Names -> Nat] /\ \A n \in Names : cache[n] <= Len(objs)
  /\ objs \in Seq(Objs)
OpInv == op \in [Ops -> OpRecs] /\ \A p \in Ops : op[p].obj <= Len(objs)
RootInv ==
  /\ root \in [tree : Trees, num : Nat] /\ lastpub \in Nat /\ stored \in Trees /\ token \in BOOLEAN
  /\ pub \in Pubs
TypeInv == TreeInv /\ OpInv /\ RootInv /\ want \in Trees /\ shared \subseteq Names /\ met \subseteq Ops

\* What a command goes through.
Files == {"write", "buffer", "cp", "flush"}
Stages(k) ==
  CASE k \in Writes -> {"look", "add", "child", "open", "lock", "close", "up", "top", "root", "unlock"}
    [] k = "cp" -> {"add", "child", "open", "lock", "close", "up", "top", "root", "unlock", "wait", "offer", "answer"}
    [] k = "flush" -> {"look", "open", "lock", "close", "up", "top", "root", "unlock", "wait", "offer", "answer"}
    [] k = "rm" -> {"look", "unlink", "node", "top", "root"}
    [] k = "mv" -> {"read", "clear", "put", "drop"}
    [] k = "flushall" -> {"node", "sync", "root", "wait", "offer", "answer"}
    [] OTHER -> {}

Staged(p) ==
  /\ op[p].at \in Stages(op[p].kind) \cup {"new", "done"}
  /\ op[p].name \in Names <=> op[p].kind \notin {"flushall", "never"}
  /\ op[p].to \in Names <=> op[p].kind = "mv"
  /\ op[p].at \in {"open", "lock", "close", "up", "unlock"} => op[p].obj /= 0
  /\ op[p].at \in {"top", "root"} => (op[p].kind \in Files <=> op[p].obj /= 0)
  /\ op[p].kind = "flushall" => op[p].obj = 0
StageInv == \A p \in Ops : Staged(p)

\* A File object is cached for one name, the one that whoever has it is about.
ObjInv ==
  /\ \A n, m \in Names : cache[n] /= 0 /\ cache[n] = cache[m] => n = m
  /\ \A n \in Names, p \in Ops : cache[n] /= 0 /\ op[p].obj = cache[n] => op[p].name = n

\* Names that two commands are about at the same time are shared, and so is
\* the name that a shared one is moved to.
ShareInv ==
  /\ \A p, q \in Ops : p /= q /\ Running(p) /\ Running(q) => About(p) \cap About(q) \subseteq shared
  /\ \A p \in Ops : Running(p) /\ op[p].name \in shared => About(p) \subseteq shared

\* What a name has in its directory and in its cached File.
Same(n, c) == link[n] = c /\ NodeOf(n) = c
\* The content that a command on a File starts from, and what it leaves.
Old(n) == IF want[n] = Absent THEN {} ELSE want[n]
Base(p, n) == IF op[p].kind = "cp" THEN {p} ELSE Old(n)
Content(p, n) == IF op[p].kind \in Writes THEN Old(n) \cup {p} ELSE Base(p, n)

\* How far a command has come with the name n it is about.
AtName(p, n) ==
  LET o == op[p]
  IN  /\ o.at \in {"look", "add", "unlink", "read", "clear"} => Same(n, want[n])
      /\ o.at = "child" => Same(n, Base(p, n)) /\ want[n] = Absent
      /\ o.at \in {"open", "lock", "close"} => cache[n] = o.obj /\ Same(n, Base(p, n))
      /\ o.at \in {"lock", "close"} => o.node = Base(p, n)
      /\ o.at = "up" => /\ o.node = Content(p, n) /\ NodeOf(n) = Content(p, n)
                        /\ link[n] \in {Base(p, n), Content(p, n)}
      /\ o.kind \in Files /\ o.at \in {"top", "root", "unlock", "wait", "offer", "answer"} => Same(n, Content(p, n))
      /\ o.kind = "flush" /\ o.at /= "look" => want[n] /= Absent
      /\ o.kind = "rm" /\ o.at \in {"node", "top", "root"} => Same(n, Absent)
      /\ o.at \in {"put", "drop"} /\ o.to /= n => Same(n, want[n])
      /\ o.at \in {"clear", "put", "drop"} => o.node = want[n]

\* And with the name m it moves a file to.
AtTo(p, m) ==
  LET o == op[p]
  IN  /\ o.at \in {"read", "clear"} => Same(m, want[m])
      /\ o.at = "put" => Same(m, Absent)
      /\ o.at = "drop" => Same(m, o.node)

Reached(p, n) == (op[p].name = n => AtName(p, n)) /\ (op[p].to = n => AtTo(p, n))
NameInv ==
  \A n \in Names \ shared :
    /\ \A p \in Ops : Running(p) => Reached(p, n)
    /\ Still(n) => Same(n, want[n])

\* Run answers the one it has taken, and what it publishes is what it read.
PubInv ==
  /\ \A p \in Ops : op[p].at = "answer" <=> pub.who = p
  /\ pub.who /= None => pub.st = "publishing"
  /\ lastpub <= root.num /\ (lastpub = root.num => stored = root.tree)
  /\ pub.st = "publishing" => pub.num <= root.num /\ (pub.num = root.num => pub.tree = root.tree)

\* A command that has met no other runs alone; it brings up what it flushes
\* as it is, and then the Republisher has it.
Brought(p, t) == \A n \in Flushed(p) : t[n] = link[n]
Carries(p) ==
  /\ op[p].at \in {"top", "root"} => Brought(p, op[p].snap)
  /\ op[p].at = "sync" => \A n \in Names : Dir[n] \notin op[p].left => top[n] = link[n]
  /\ op[p].at \in {"unlock", "wait", "offer", "answer"} /\ op[p].kind /= "buffer" => Brought(p, root.tree)
  /\ op[p].at = "answer" => Brought(p, pub.tree)
Alone(p) == Carries(p) /\ \A q \in Ops : Running(q) => q = p
AloneInv == \A p \in Ops \ met : Running(p) => Alone(p)

IInv == TypeInv /\ StageInv /\ ObjInv /\ ShareInv /\ NameInv /\ PubInv /\ AloneInv
-----------------------------------------------------------------------------
(***************************************************************************)
(* What a call does to the tree.                                           *)
(***************************************************************************)
LEMMA Trees0 ==
  /\ Absent \notin SUBSET Ops /\ Absent \in Contents /\ {} \in SUBSET Ops
  /\ \A c \in SUBSET Ops : c \in Contents
  /\ \A t \in Trees, n \in Names : t[n] \in Contents
  /\ \A t \in Trees, n \in Names, c \in Contents : [t EXCEPT ![n] = c] \in Trees
  /\ Dir \in [Names -> Dirs] /\ None \notin Names /\ None \notin Ops
BY MfsAssumption DEF Trees, Contents

LEMMA OverTree ==
  ASSUME NEW t \in Trees, NEW s \in Trees, NEW d
  PROVE  /\ Over(t, d, s) \in Trees
         /\ \A n \in Names : Over(t, d, s)[n] = IF Dir[n] = d THEN s[n] ELSE t[n]
BY DEF Over, Trees

\* A name has what its cached File has, or else what is linked.
LEMMA NodeTypes ==
  ASSUME TreeInv
  PROVE  /\ link \in Trees
         /\ \A n \in Names : /\ link[n] \in Contents /\ NodeOf(n) \in Contents
                             /\ cache[n] /= 0 => cache[n] \in 1 .. Len(objs) /\ objs[cache[n]] \in Objs
                                                 /\ NodeOf(n) = objs[cache[n]].node /\ NodeOf(n) \in SUBSET Ops
                             /\ cache[n] = 0 => NodeOf(n) = link[n]
                             /\ Has(n) => NodeOf(n) \in SUBSET Ops
<1>1. link \in Trees
  BY DEF TreeInv
<1>2. ASSUME NEW n \in Names
      PROVE  /\ link[n] \in Contents
             /\ cache[n] /= 0 => cache[n] \in 1 .. Len(objs) /\ objs[cache[n]] \in Objs
                                 /\ NodeOf(n) = objs[cache[n]].node /\ NodeOf(n) \in SUBSET Ops
             /\ cache[n] = 0 => NodeOf(n) = link[n]
  <2>1. link[n] \in Contents
    BY <1>1, Trees0
  <2>2. cache[n] \in Nat /\ cache[n] <= Len(objs) /\ objs \in Seq(Objs)
    BY DEF TreeInv
  <2>3. ASSUME cache[n] /= 0
        PROVE  cache[n] \in 1 .. Len(objs) /\ objs[cache[n]] \in Objs /\ NodeOf(n) = objs[cache[n]].node
    <3>1. cache[n] \in 1 .. Len(objs)
      BY <2>2, <2>3, LenProperties
    <3> QED BY <2>2, <2>3, <3>1, ElementOfSeq DEF NodeOf
  <2>4. cache[n] /= 0 => NodeOf(n) \in SUBSET Ops
    BY <2>3 DEF Objs
  <2> QED BY <2>1, <2>3, <2>4 DEF NodeOf
<1>3. ASSUME NEW n \in Names PROVE NodeOf(n) \in Contents /\ (Has(n) => NodeOf(n) \in SUBSET Ops)
  BY <1>2, Trees0 DEF Has, Contents
<1> QED BY <1>1, <1>2, <1>3

\* A name is there when it has a content.
LEMMA HasSame ==
  ASSUME TreeInv, NEW n \in Names, NEW c, Same(n, c)
  PROVE  Has(n) <=> c /= Absent
BY NodeTypes, Trees0 DEF Same, Has

\* What stays of a name that a call is not about: another may have linked
\* what its File has.
View(n) ==
  /\ cache'[n] = cache[n] /\ NodeOf(n)' = NodeOf(n)
  /\ link'[n] = link[n] \/ link'[n] = NodeOf(n)
TreeSame == link' = link /\ TreeInv' /\ Len(objs') = Len(objs)

LEMMA SameView ==
  ASSUME TreeInv, UNCHANGED treeVars
  PROVE  TreeSame /\ \A n \in Names : View(n)
BY DEF TreeInv, treeVars, TreeSame, View, NodeOf

LEMMA CachedView ==
  ASSUME TreeInv, NEW n \in Names, Has(n), Cached(n), UNCHANGED <<link, top>>
  PROVE  /\ TreeInv' /\ link' = link /\ Len(objs') >= Len(objs)
         /\ \A m \in Names : NodeOf(m)' = NodeOf(m) /\ (m /= n => View(m))
         /\ cache' = [cache EXCEPT ![n] = ObjOf(n)] /\ ObjOf(n) \in Nat \ {0} /\ ObjOf(n) <= Len(objs')
         /\ ObjOf(n) = IF cache[n] /= 0 THEN cache[n] ELSE Len(objs) + 1
<1>1. link' = link /\ top' = top
  OBVIOUS
<1>2. CASE cache[n] /= 0
  <2>1. cache' = cache /\ objs' = objs /\ ObjOf(n) = cache[n]
    BY <1>2 DEF Cached, ObjOf, TreeInv
  <2>2. UNCHANGED treeVars /\ ObjOf(n) \in Nat \ {0} /\ ObjOf(n) <= Len(objs') /\ Len(objs) \in Nat
    BY <1>2, <2>1, LenProperties DEF treeVars, TreeInv
  <2> QED BY <1>1, <1>2, <2>1, <2>2, SameView DEF TreeSame, View, Cached
<1>3. CASE cache[n] = 0
  <2> DEFINE o == [node |-> link[n], desc |-> None]
             k == Len(objs) + 1
  <2>1. ObjOf(n) = k /\ cache' = [cache EXCEPT ![n] = k] /\ objs' = Append(objs, o)
    BY <1>3 DEF Cached, ObjOf
  <2>2. link[n] \in SUBSET Ops
    BY <1>3, NodeTypes
  <2>3. o \in Objs /\ o.node = link[n]
    BY <2>2 DEF Objs
  <2>4. objs \in Seq(Objs) /\ Len(objs) \in Nat
    BY LenProperties DEF TreeInv
  <2> HIDE DEF o
  <2>5. objs' \in Seq(Objs) /\ Len(objs') = k /\ objs'[k] = o /\ \A i \in 1 .. Len(objs) : objs'[i] = objs[i]
    BY <2>1, <2>3, <2>4, AppendProperties
  <2>6. k \in Nat \ {0} /\ cache' \in [Names -> Nat]
    BY <2>1, <2>4 DEF TreeInv
  <2>7. \A m \in Names : cache'[m] <= Len(objs')
    BY <2>1, <2>4, <2>5 DEF TreeInv
  <2>8. TreeInv'
    BY <2>5, <2>6, <2>7 DEF TreeInv
  <2>9. NodeOf(n)' = NodeOf(n)
    BY <1>3, <2>1, <2>3, <2>5, <2>6 DEF NodeOf, TreeInv
  <2>10. ASSUME NEW m \in Names, m /= n PROVE cache'[m] = cache[m] /\ NodeOf(m)' = NodeOf(m)
    <3>1. cache'[m] = cache[m]
      BY <2>1, <2>10 DEF TreeInv
    <3>2. CASE cache[m] = 0
      BY <1>1, <3>1, <3>2 DEF NodeOf
    <3>3. CASE cache[m] /= 0
      <4>1. cache[m] \in 1 .. Len(objs)
        BY <3>3, NodeTypes
      <4> QED BY <2>5, <3>1, <3>3, <4>1 DEF NodeOf
    <3> QED BY <3>1, <3>2, <3>3
  <2> QED BY <1>1, <1>3, <2>1, <2>4, <2>5, <2>6, <2>8, <2>9, <2>10 DEF View
<1> QED BY <1>2, <1>3 DEF TreeInv

LEMMA LinkedView ==
  ASSUME TreeInv, NEW n \in Names, NEW c \in Contents, link' = [link EXCEPT ![n] = c], UNCHANGED <<top, cache, objs>>
  PROVE  /\ TreeInv' /\ link'[n] = c /\ NodeOf(n)' = IF cache[n] = 0 THEN c ELSE NodeOf(n)
         /\ \A m \in Names : m /= n => View(m) /\ link'[m] = link[m]
<1>1. link' \in Trees /\ link'[n] = c /\ \A m \in Names : m /= n => link'[m] = link[m]
  BY Trees0 DEF TreeInv, Trees
<1>2. TreeInv'
  BY <1>1 DEF TreeInv
<1>3. ASSUME NEW m \in Names, m /= n PROVE View(m)
  BY <1>1, <1>3 DEF View, NodeOf
<1> QED BY <1>1, <1>2, <1>3 DEF NodeOf

LEMMA UnlinkedView ==
  ASSUME TreeInv, NEW n \in Names, Unlinked(n)
  PROVE  /\ TreeInv' /\ objs' = objs /\ cache' = [cache EXCEPT ![n] = 0]
         /\ link'[n] = Absent /\ NodeOf(n)' = Absent
         /\ \A m \in Names : m /= n => View(m)
<1>1. link' \in Trees /\ link'[n] = Absent /\ \A m \in Names : m /= n => link'[m] = link[m]
  BY Trees0 DEF TreeInv, Trees, Unlinked, Contents
<1>2. cache' = [cache EXCEPT ![n] = 0] /\ UNCHANGED <<top, objs>> /\ cache \in [Names -> Nat]
  BY DEF Unlinked, TreeInv
<1>3. objs \in Seq(Objs) /\ Len(objs) \in Nat
  BY LenProperties DEF TreeInv
<1>4. TreeInv'
  BY <1>1, <1>2, <1>3 DEF TreeInv
<1>5. NodeOf(n)' = Absent
  BY <1>1, <1>2 DEF NodeOf
<1>6. ASSUME NEW m \in Names, m /= n PROVE View(m)
  BY <1>1, <1>2, <1>6 DEF View, NodeOf
<1> QED BY <1>1, <1>2, <1>4, <1>5, <1>6

LEMMA SyncedView ==
  ASSUME TreeInv, NEW d, Synced(d), top' \in Trees, UNCHANGED <<cache, objs>>
  PROVE  /\ TreeInv'
         /\ \A m \in Names : View(m) /\ link'[m] = IF Dir[m] = d THEN NodeOf(m) ELSE link[m]
<1> DEFINE t == [n \in Names |-> NodeOf(n)]
<1>1. t \in Trees /\ \A m \in Names : t[m] = NodeOf(m)
  BY NodeTypes DEF Trees, Contents
<1>2. link' = Over(link, d, t)
  BY DEF Synced
<1> HIDE DEF t
<1>3. link' \in Trees /\ \A m \in Names : link'[m] = IF Dir[m] = d THEN NodeOf(m) ELSE link[m]
  BY <1>1, <1>2, OverTree DEF TreeInv
<1>4. TreeInv'
  BY <1>3 DEF TreeInv
<1>5. ASSUME NEW m \in Names PROVE View(m)
  BY <1>3 DEF View, NodeOf
<1> QED BY <1>3, <1>4, <1>5

\* What a directory hands up.
LEMMA PartTree ==
  ASSUME link' \in Trees, NEW d
  PROVE  Part(d) \in Trees /\ \A n \in Names : Dir[n] = d => Part(d)[n] = link'[n]
<1>1. NoTree \in Trees
  BY DEF NoTree, Trees
<1> QED BY <1>1, OverTree DEF Part

LEMMA TopView ==
  ASSUME TreeInv, top' \in Trees, UNCHANGED <<link, cache, objs>>
  PROVE  TreeSame /\ \A m \in Names : View(m)
BY DEF TreeInv, TreeSame, View, NodeOf

\* A File object gets another node, or another owner of its descriptor.
LEMMA ObjView ==
  ASSUME TreeInv, NEW i \in 1 .. Len(objs), NEW c \in SUBSET Ops,
         objs' = [objs EXCEPT ![i].node = c], UNCHANGED <<link, top, cache>>
  PROVE  /\ TreeSame
         /\ \A m \in Names : IF cache[m] = i THEN NodeOf(m)' = c ELSE View(m)
<1>1. objs \in Seq(Objs) /\ objs[i] \in Objs /\ Len(objs) \in Nat
  BY ElementOfSeq, LenProperties DEF TreeInv
<1> DEFINE o == [objs[i] EXCEPT !.node = c]
<1>2. o \in Objs /\ o.node = c
  BY <1>1 DEF Objs
<1>3. objs' = [objs EXCEPT ![i] = o]
  BY <1>1
<1> HIDE DEF o
<1>4. objs' \in Seq(Objs) /\ Len(objs') = Len(objs) /\ objs'[i] = o /\ \A j \in 1 .. Len(objs) : j /= i => objs'[j] = objs[j]
  BY <1>1, <1>2, <1>3, ExceptSeq
<1>5. link' = link
  OBVIOUS
<1>6. TreeInv'
  BY <1>4 DEF TreeInv
<1>7. ASSUME NEW m \in Names, cache[m] = i PROVE NodeOf(m)' = c
  BY <1>2, <1>4, <1>7 DEF NodeOf
<1>8. ASSUME NEW m \in Names, cache[m] /= i PROVE View(m)
  <2>1. cache[m] /= 0 => cache[m] \in 1 .. Len(objs)
    BY NodeTypes
  <2> QED BY <1>4, <1>5, <1>8, <2>1 DEF View, NodeOf
<1> QED BY <1>4, <1>5, <1>6, <1>7, <1>8 DEF TreeSame

LEMMA DescView ==
  ASSUME TreeInv, NEW i \in 1 .. Len(objs), NEW d \in Ops \cup {None},
         objs' = [objs EXCEPT ![i].desc = d], UNCHANGED <<link, top, cache>>
  PROVE  TreeSame /\ \A m \in Names : View(m)
<1>1. objs \in Seq(Objs) /\ objs[i] \in Objs /\ Len(objs) \in Nat
  BY ElementOfSeq, LenProperties DEF TreeInv
<1> DEFINE o == [objs[i] EXCEPT !.desc = d]
<1>2. o \in Objs /\ o.node = objs[i].node
  BY <1>1 DEF Objs
<1>3. objs' = [objs EXCEPT ![i] = o]
  BY <1>1
<1> HIDE DEF o
<1>4. objs' \in Seq(Objs) /\ Len(objs') = Len(objs) /\ \A j \in 1 .. Len(objs) : objs'[j].node = objs[j].node
  <2>1. objs' \in Seq(Objs) /\ Len(objs') = Len(objs) /\ objs'[i] = o /\ \A j \in 1 .. Len(objs) : j /= i => objs'[j] = objs[j]
    BY <1>1, <1>2, <1>3, ExceptSeq
  <2> QED BY <1>2, <2>1
<1>5. link' = link
  OBVIOUS
<1>6. TreeInv'
  BY <1>4 DEF TreeInv
<1>7. ASSUME NEW m \in Names PROVE View(m)
  <2>1. cache[m] /= 0 => cache[m] \in 1 .. Len(objs)
    BY NodeTypes
  <2> QED BY <1>4, <1>5, <2>1 DEF View, NodeOf
<1> QED BY <1>4, <1>5, <1>6, <1>7 DEF TreeSame
-----------------------------------------------------------------------------
(***************************************************************************)
(* What a call does to its command.                                        *)
(***************************************************************************)
\* A command with one field changed is a command.
LEMMA OpFields ==
  ASSUME NEW r \in OpRecs
  PROVE  /\ \A a \in Places : [r EXCEPT !.at = a] \in OpRecs
         /\ \A i \in Nat : [r EXCEPT !.obj = i] \in OpRecs
         /\ \A c \in SUBSET Ops : [r EXCEPT !.node = c] \in OpRecs
         /\ \A l \in SUBSET Dirs : [r EXCEPT !.left = l] \in OpRecs
         /\ \A t \in Trees : [r EXCEPT !.snap = t] \in OpRecs
BY DEF OpRecs

\* Only the command p changes, and what it was asked stays.
Only(p) ==
  /\ op' \in [Ops -> OpRecs]
  /\ \A q \in Ops : q /= p => op'[q] = op[q]
  /\ op'[p].kind = op[p].kind /\ op'[p].name = op[p].name /\ op'[p].to = op[p].to

LEMMA MovesTo ==
  ASSUME op \in [Ops -> OpRecs], NEW p \in Ops, NEW r \in OpRecs, op' = [op EXCEPT ![p] = r],
         r.kind = op[p].kind, r.name = op[p].name, r.to = op[p].to
  PROVE  Only(p) /\ op'[p] = r
BY DEF Only

LEMMA GoToMoves ==
  ASSUME op \in [Ops -> OpRecs], NEW p \in Ops, NEW a \in Places, GoTo(p, a)
  PROVE  /\ Only(p) /\ op'[p].at = a
         /\ op'[p].obj = op[p].obj /\ op'[p].node = op[p].node /\ op'[p].snap = op[p].snap
<1> DEFINE s == [op[p] EXCEPT !.at = a]
<1>1. op[p] \in OpRecs
  OBVIOUS
<1>2. s \in OpRecs
  BY <1>1, OpFields
<1>3. /\ s.kind = op[p].kind /\ s.name = op[p].name /\ s.to = op[p].to /\ s.at = a
      /\ s.obj = op[p].obj /\ s.node = op[p].node /\ s.snap = op[p].snap
  BY <1>1 DEF OpRecs
<1>4. op' = [op EXCEPT ![p] = s]
  BY DEF GoTo
<1> HIDE DEF s
<1> QED BY <1>2, <1>3, <1>4, MovesTo

LEMMA DropsMoves ==
  ASSUME op \in [Ops -> OpRecs], NEW p \in Ops, NEW a \in Places, Drops(p, a)
  PROVE  Only(p) /\ op'[p].at = a /\ op'[p].obj = 0
<1> DEFINE s == Fresh(op[p], a)
<1>1. op[p] \in OpRecs
  OBVIOUS
<1>2. NoTree \in Trees /\ {} \in SUBSET Ops /\ {} \in SUBSET Dirs /\ 0 \in Nat
  BY DEF NoTree, Trees
<1>3. s \in OpRecs
  BY <1>1, <1>2 DEF OpRecs, Fresh
<1>4. s.kind = op[p].kind /\ s.name = op[p].name /\ s.to = op[p].to /\ s.at = a /\ s.obj = 0
  BY DEF Fresh
<1>5. op' = [op EXCEPT ![p] = s]
  BY DEF Drops
<1> HIDE DEF s
<1> QED BY <1>3, <1>4, <1>5, MovesTo

\* The call gives the command a File object, or a node and perhaps a level.
LEMMA ObjMoves ==
  ASSUME op \in [Ops -> OpRecs], NEW p \in Ops, NEW a \in Places, NEW i \in Nat,
         op' = [op EXCEPT ![p].obj = i, ![p].at = a]
  PROVE  Only(p) /\ op'[p].at = a /\ op'[p].obj = i
<1> DEFINE r == [op[p] EXCEPT !.obj = i]
           s == [r EXCEPT !.at = a]
<1>1. op[p] \in OpRecs
  OBVIOUS
<1>2. r \in OpRecs
  BY <1>1, OpFields
<1>3. s \in OpRecs
  BY <1>2, OpFields
<1>4. s.kind = op[p].kind /\ s.name = op[p].name /\ s.to = op[p].to /\ s.at = a /\ s.obj = i
  BY <1>1 DEF OpRecs
<1>5. op' = [op EXCEPT ![p] = s]
  OBVIOUS
<1> HIDE DEF s
<1> QED BY <1>3, <1>4, <1>5, MovesTo

LEMMA NodeMoves ==
  ASSUME op \in [Ops -> OpRecs], NEW p \in Ops, NEW a \in Places, NEW c \in SUBSET Ops,
         op' = [op EXCEPT ![p].node = c, ![p].at = a]
  PROVE  Only(p) /\ op'[p].at = a /\ op'[p].node = c /\ op'[p].obj = op[p].obj
<1> DEFINE r == [op[p] EXCEPT !.node = c]
           s == [r EXCEPT !.at = a]
<1>1. op[p] \in OpRecs
  OBVIOUS
<1>2. r \in OpRecs
  BY <1>1, OpFields
<1>3. s \in OpRecs
  BY <1>2, OpFields
<1>4. s.kind = op[p].kind /\ s.name = op[p].name /\ s.to = op[p].to /\ s.at = a /\ s.node = c /\ s.obj = op[p].obj
  BY <1>1 DEF OpRecs
<1>5. op' = [op EXCEPT ![p] = s]
  OBVIOUS
<1> HIDE DEF s
<1> QED BY <1>3, <1>4, <1>5, MovesTo

\* The call takes the command up with a tree, or to the other directories.
LEMMA UpMoves ==
  ASSUME op \in [Ops -> OpRecs], NEW p \in Ops, NEW a \in Places, NEW t \in Trees,
         op' = [op EXCEPT ![p].snap = t, ![p].at = a]
  PROVE  Only(p) /\ op'[p].at = a /\ op'[p].obj = op[p].obj /\ op'[p].snap = t
<1> DEFINE r == [op[p] EXCEPT !.snap = t]
           s == [r EXCEPT !.at = a]
<1>1. op[p] \in OpRecs
  OBVIOUS
<1>2. r \in OpRecs
  BY <1>1, OpFields
<1>3. s \in OpRecs
  BY <1>2, OpFields
<1>4. s.kind = op[p].kind /\ s.name = op[p].name /\ s.to = op[p].to
      /\ s.at = a /\ s.obj = op[p].obj /\ s.snap = t
  BY <1>1 DEF OpRecs
<1>5. op' = [op EXCEPT ![p] = s]
  OBVIOUS
<1> HIDE DEF s
<1> QED BY <1>3, <1>4, <1>5, MovesTo

LEMMA PartMoves ==
  ASSUME op \in [Ops -> OpRecs], NEW p \in Ops, NEW a \in Places, NEW t \in Trees,
         op' = [op EXCEPT ![p].snap = t, ![p].obj = 0, ![p].at = a]
  PROVE  Only(p) /\ op'[p].at = a /\ op'[p].obj = 0 /\ op'[p].snap = t
<1> DEFINE r == [op[p] EXCEPT !.snap = t]
           u == [r EXCEPT !.obj = 0]
           s == [u EXCEPT !.at = a]
<1>1. op[p] \in OpRecs
  OBVIOUS
<1>2. r \in OpRecs
  BY <1>1, OpFields
<1>3. u \in OpRecs
  BY <1>2, OpFields
<1>4. s \in OpRecs
  BY <1>3, OpFields
<1>5. s.kind = op[p].kind /\ s.name = op[p].name /\ s.to = op[p].to
      /\ s.at = a /\ s.obj = 0 /\ s.snap = t
  BY <1>1 DEF OpRecs
<1>6. op' = [op EXCEPT ![p] = s]
  OBVIOUS
<1> HIDE DEF s
<1> QED BY <1>4, <1>5, <1>6, MovesTo

LEMMA SyncMoves ==
  ASSUME op \in [Ops -> OpRecs], NEW p \in Ops, NEW a \in Places, NEW l \in SUBSET Dirs,
         op' = [op EXCEPT ![p].left = l, ![p].at = a]
  PROVE  Only(p) /\ op'[p].at = a /\ op'[p].obj = op[p].obj /\ op'[p].left = l
<1> DEFINE r == [op[p] EXCEPT !.left = l]
           s == [r EXCEPT !.at = a]
<1>1. op[p] \in OpRecs
  OBVIOUS
<1>2. r \in OpRecs
  BY <1>1, OpFields
<1>3. s \in OpRecs
  BY <1>2, OpFields
<1>4. s.kind = op[p].kind /\ s.name = op[p].name /\ s.to = op[p].to
      /\ s.at = a /\ s.obj = op[p].obj /\ s.left = l
  BY <1>1 DEF OpRecs
<1>5. op' = [op EXCEPT ![p] = s]
  OBVIOUS
<1> HIDE DEF s
<1> QED BY <1>3, <1>4, <1>5, MovesTo

LEMMA LeftMoves ==
  ASSUME op \in [Ops -> OpRecs], NEW p \in Ops, NEW l \in SUBSET Dirs,
         op' = [op EXCEPT ![p].left = l]
  PROVE  Only(p) /\ op'[p].at = op[p].at /\ op'[p].obj = op[p].obj /\ op'[p].left = l
<1> DEFINE s == [op[p] EXCEPT !.left = l]
<1>1. op[p] \in OpRecs
  OBVIOUS
<1>2. s \in OpRecs
  BY <1>1, OpFields
<1>3. s.kind = op[p].kind /\ s.name = op[p].name /\ s.to = op[p].to
      /\ s.at = op[p].at /\ s.obj = op[p].obj /\ s.left = l
  BY <1>1 DEF OpRecs
<1>4. op' = [op EXCEPT ![p] = s]
  OBVIOUS
<1> HIDE DEF s
<1> QED BY <1>2, <1>3, <1>4, MovesTo
-----------------------------------------------------------------------------
(***************************************************************************)
(* What a step has to keep.                                                *)
(***************************************************************************)
\* Which command may be where, and what it is about.
LEMMA Stagings ==
  /\ \A k \in {"write", "buffer"} : Stages(k) = {"look", "add", "child", "open", "lock", "close", "up", "top", "root", "unlock"}
  /\ Stages("cp") = {"add", "child", "open", "lock", "close", "up", "top", "root", "unlock", "wait", "offer", "answer"}
  /\ Stages("flush") = {"look", "open", "lock", "close", "up", "top", "root", "unlock", "wait", "offer", "answer"}
  /\ Stages("rm") = {"look", "unlink", "node", "top", "root"}
  /\ Stages("mv") = {"read", "clear", "put", "drop"}
  /\ Stages("flushall") = {"node", "sync", "root", "wait", "offer", "answer"}
  /\ Stages("never") = {}
BY DEF Stages, Writes

LEMMA Abouts ==
  ASSUME TypeInv, StageInv, NEW p \in Ops
  PROVE  /\ op[p] \in OpRecs
         /\ op[p].kind = "mv" => op[p].name \in Names /\ op[p].to \in Names /\ About(p) = {op[p].name, op[p].to}
         /\ op[p].kind \in Files \cup {"rm"} => op[p].name \in Names /\ op[p].to \notin Names /\ About(p) = {op[p].name}
         /\ op[p].kind \in {"flushall", "never"} => op[p].name \notin Names /\ About(p) = {}
<1>1. op[p] \in OpRecs
  BY DEF TypeInv, OpInv
<1>2. Staged(p)
  BY DEF StageInv
<1> QED BY <1>1, <1>2 DEF Staged, About, Files

LEMMA Kinded ==
  ASSUME TypeInv, StageInv, NEW p \in Ops
  PROVE  /\ op[p].kind \in Kinds /\ op[p].at \in Stages(op[p].kind) \cup {"new", "done"}
         /\ op[p].at = "look" => op[p].kind \in {"write", "buffer", "flush", "rm"}
         /\ op[p].at \in {"add", "child"} => op[p].kind \in {"write", "buffer", "cp"}
         /\ op[p].at \in {"open", "lock", "close", "up", "unlock"} => op[p].kind \in Files
         /\ op[p].at = "unlink" => op[p].kind = "rm"
         /\ op[p].at = "node" => op[p].kind \in {"rm", "flushall"}
         /\ op[p].at = "sync" => op[p].kind = "flushall"
         /\ op[p].at = "top" => op[p].kind \in Files \cup {"rm"}
         /\ op[p].at = "root" => op[p].kind \in Files \cup {"rm", "flushall"}
         /\ op[p].at \in {"read", "clear", "put", "drop"} => op[p].kind = "mv"
         /\ op[p].at \in {"wait", "offer", "answer"} => op[p].kind \in {"cp", "flush", "flushall"}
<1>1. op[p].kind \in Kinds
  BY Abouts DEF OpRecs
<1>2. op[p].at \in Stages(op[p].kind) \cup {"new", "done"}
  BY DEF StageInv, Staged
<1> QED BY <1>1, <1>2, Stagings DEF Kinds, Files

\* What a call of the command p leaves.
Result(p) ==
  /\ TypeInv' /\ ObjInv' /\ PubInv'
  /\ Only(p) /\ Staged(p)' /\ op'[p].at /= "new" /\ Running(p)
  /\ UNCHANGED <<shared, met>>
  /\ \A m \in Names \ About(p) : View(m) /\ want'[m] = want[m]
  /\ \A n \in About(p) \ shared : IF op'[p].at = "done" THEN Same(n, want[n])' ELSE Reached(p, n)'
  /\ p \notin met /\ op'[p].at /= "done" => Carries(p)'

\* A name that a call is not about stays with the command that is about it.
LEMMA ReachedKept ==
  ASSUME TypeInv, NEW r \in Ops, NEW n \in Names, op'[r] = op[r], Reached(r, n), View(n), want'[n] = want[n]
  PROVE  Reached(r, n)'
<1>1. ASSUME NEW c, Same(n, c) PROVE link'[n] = c /\ NodeOf(n)' = c
  BY <1>1 DEF Same, View
<1>2. cache'[n] = cache[n] /\ NodeOf(n)' = NodeOf(n) /\ (link'[n] = link[n] \/ link'[n] = NodeOf(n))
  BY DEF View
<1>3. Base(r, n)' = Base(r, n) /\ Content(r, n)' = Content(r, n)
  BY DEF Base, Content, Old
<1>4. op[r].name = n => AtName(r, n)'
  <2> SUFFICES ASSUME op[r].name = n, AtName(r, n) PROVE AtName(r, n)'
    BY DEF Reached
  <2> DEFINE b == Base(r, n)
             d == Content(r, n)
  <2>1. /\ op[r].at \in {"look", "add", "unlink", "read", "clear"} => Same(n, want[n])
        /\ op[r].at = "child" => Same(n, b) /\ want[n] = Absent
        /\ op[r].at \in {"open", "lock", "close"} => cache[n] = op[r].obj /\ Same(n, b)
        /\ op[r].at \in {"lock", "close"} => op[r].node = b
        /\ op[r].at = "up" => op[r].node = d /\ NodeOf(n) = d /\ link[n] \in {b, d}
        /\ op[r].kind \in Files /\ op[r].at \in {"top", "root", "unlock", "wait", "offer", "answer"} => Same(n, d)
        /\ op[r].kind = "flush" /\ op[r].at /= "look" => want[n] /= Absent
        /\ op[r].kind = "rm" /\ op[r].at \in {"node", "top", "root"} => Same(n, Absent)
        /\ op[r].at \in {"put", "drop"} /\ op[r].to /= n => Same(n, want[n])
        /\ op[r].at \in {"clear", "put", "drop"} => op[r].node = want[n]
    BY DEF AtName
  <2>2. Base(r, n)' = b /\ Content(r, n)' = d
    BY <1>3
  <2> HIDE DEF b, d
  <2> QED BY <1>1, <1>2, <2>1, <2>2 DEF AtName, Same
<1>5. op[r].to = n => AtTo(r, n)'
  BY <1>1 DEF Reached, AtTo, Same
<1> QED BY <1>4, <1>5 DEF Reached

LEMMA ResultInv ==
  ASSUME IInv, NEW p \in Ops, Result(p)
  PROVE  IInv'
<1> USE DEF IInv
<1>1. TypeInv' /\ ObjInv' /\ PubInv' /\ Only(p) /\ UNCHANGED <<shared, met>>
  BY DEF Result
<1>2. StageInv'
  <2>1. ASSUME NEW q \in Ops, q /= p PROVE Staged(q)'
    BY <1>1, <2>1 DEF Only, StageInv, Staged
  <2>2. Staged(p)'
    BY DEF Result
  <2> QED BY <2>1, <2>2 DEF StageInv
<1>3. ASSUME NEW q \in Ops
      PROVE  /\ (About(q))' = About(q) /\ op'[q].name = op[q].name
             /\ Running(q)' => Running(q)
             /\ q /= p => op'[q] = op[q] /\ (Running(q)' <=> Running(q))
  <2>1. op'[q].name = op[q].name /\ op'[q].to = op[q].to
    BY <1>1 DEF Only
  <2>2. q /= p => op'[q] = op[q]
    BY <1>1 DEF Only
  <2>3. Running(p)
    BY DEF Result
  <2> QED BY <2>1, <2>2, <2>3 DEF About, Running
<1>4. ShareInv'
  BY <1>1, <1>3 DEF ShareInv
<1>5. NameInv'
  <2> SUFFICES ASSUME NEW n \in Names, n \notin shared
               PROVE  /\ \A r \in Ops : Running(r)' => Reached(r, n)'
                      /\ Still(n)' => Same(n, want[n])'
    BY <1>1 DEF NameInv
  <2>1. /\ \A r \in Ops : Running(r) => Reached(r, n)
        /\ Still(n) => Same(n, want[n])
    BY DEF NameInv
  <2>2. CASE n \notin About(p)
    <3>1. View(n) /\ want'[n] = want[n]
      BY <2>2 DEF Result
    <3>2. ASSUME NEW r \in Ops, Running(r)' PROVE Reached(r, n)'
      <4>1. CASE r = p
        BY <1>1, <2>2, <4>1 DEF Only, Reached, About
      <4>2. CASE r /= p
        BY <1>3, <2>1, <3>1, <3>2, <4>2, ReachedKept
      <4> QED BY <4>1, <4>2
    <3>3. ASSUME Still(n)' PROVE Same(n, want[n])'
      <4>1. Still(n)
        BY <1>3, <2>2, <3>3 DEF Still
      <4>2. Same(n, want[n])
        BY <2>1, <4>1
      <4> QED BY <3>1, <4>2 DEF Same, View
    <3> QED BY <3>2, <3>3
  <2>3. CASE n \in About(p)
    <3>1. IF op'[p].at = "done" THEN Same(n, want[n])' ELSE Reached(p, n)'
      BY <2>3 DEF Result
    <3>2. Running(p) /\ op'[p].at /= "new"
      BY DEF Result
    <3>3. ASSUME NEW r \in Ops, Running(r)' PROVE Reached(r, n)'
      <4>1. CASE r = p
        BY <3>1, <3>3, <4>1 DEF Running
      <4>2. CASE r /= p
        <5>1. Running(r) /\ n \notin About(r)
          BY <1>3, <2>3, <3>2, <3>3, <4>2 DEF ShareInv
        <5>2. op'[r].name /= n /\ op'[r].to /= n
          BY <1>3, <4>2, <5>1 DEF About
        <5> QED BY <5>2 DEF Reached
      <4> QED BY <4>1, <4>2
    <3>4. ASSUME Still(n)' PROVE Same(n, want[n])'
      <4>1. ~Running(p)'
        BY <1>3, <2>3, <3>4 DEF Still
      <4> QED BY <3>1, <3>2, <4>1 DEF Running
    <3> QED BY <3>3, <3>4
  <2> QED BY <2>2, <2>3
<1>6. AloneInv'
  <2> SUFFICES ASSUME NEW q \in Ops, q \notin met, Running(q)' PROVE Alone(q)'
    BY <1>1 DEF AloneInv
  <2>1. Running(q) /\ Alone(q)
    BY <1>3 DEF AloneInv
  <2>2. q = p
    BY <2>1 DEF Alone, Result
  <2>3. \A r \in Ops : Running(r)' => r = p
    BY <1>3, <2>1, <2>2 DEF Alone
  <2>4. op'[p].at /= "done" /\ op'[p].kind = op[p].kind
    BY <1>1, <2>2 DEF Running, Only
  <2> QED BY <2>2, <2>3, <2>4 DEF Alone, Result
<1> QED BY <1>1, <1>2, <1>4, <1>5, <1>6

\* File objects stay with their names.
LEMMA ObjKept ==
  ASSUME TypeInv, ObjInv, NEW p \in Ops, Only(p), op'[p].obj \in {0, op[p].obj},
         \A n \in Names : cache'[n] \in {0, cache[n]}
  PROVE  ObjInv'
<1>1. \A q \in Ops : op'[q].name = op[q].name /\ op'[q].obj \in {0, op[q].obj}
  BY DEF Only
<1> QED BY <1>1 DEF ObjInv

LEMMA ObjCached ==
  ASSUME TypeInv, ObjInv, NEW p \in Ops, NEW n \in Names, Only(p),
         op'[p].obj \in {0, op[p].obj} \/ (op'[p].obj = ObjOf(n) /\ op[p].name = n),
         cache' = [cache EXCEPT ![n] = ObjOf(n)]
  PROVE  ObjInv'
<1> DEFINE i == ObjOf(n)
<1>1. i = IF cache[n] /= 0 THEN cache[n] ELSE Len(objs) + 1
  BY DEF ObjOf
<1>2. Len(objs) \in Nat /\ cache \in [Names -> Nat] /\ \A m \in Names : cache[m] \in Nat /\ cache[m] <= Len(objs)
  BY LenProperties DEF TypeInv, TreeInv
<1>3. \A q \in Ops : op[q].obj \in Nat /\ op[q].obj <= Len(objs)
  BY DEF TypeInv, OpInv, OpRecs
<1>4. \A q \in Ops : op'[q].name = op[q].name /\ (q /= p => op'[q].obj = op[q].obj)
  BY DEF Only
<1>5. \A m \in Names : cache'[m] = IF m = n THEN i ELSE cache[m]
  BY <1>2
<1>6. op'[p].obj \in {0, op[p].obj} \/ (op'[p].obj = i /\ op[p].name = n)
  OBVIOUS
<1>7. /\ \A m \in Names : cache[m] = i => m = n
      /\ \A q \in Ops : op[q].obj = i => op[q].name = n
  BY <1>1, <1>2, <1>3 DEF ObjInv
<1> HIDE DEF i
<1>8. ASSUME NEW m \in Names, NEW l \in Names, cache'[m] /= 0, cache'[m] = cache'[l] PROVE m = l
  BY <1>5, <1>7, <1>8 DEF ObjInv
<1>9. ASSUME NEW m \in Names, NEW q \in Ops, cache'[m] /= 0, op'[q].obj = cache'[m] PROVE op'[q].name = m
  <2>1. CASE op'[q].obj = op[q].obj
    BY <1>4, <1>5, <1>7, <1>9, <2>1 DEF ObjInv
  <2>2. CASE q = p /\ op'[q].obj = i /\ op[q].name = n
    BY <1>4, <1>5, <1>7, <1>9, <2>2
  <2> QED BY <1>4, <1>6, <1>9, <2>1, <2>2
<1> QED BY <1>8, <1>9 DEF ObjInv

\* Whoever is not at Run leaves it alone.
LEMMA PubKept ==
  ASSUME PubInv, NEW p \in Ops, Only(p), UNCHANGED pubVars, op[p].at /= "answer", op'[p].at /= "answer"
  PROVE  PubInv'
<1>1. \A q \in Ops : op'[q].at = "answer" <=> op[q].at = "answer"
  BY DEF Only
<1> QED BY <1>1 DEF PubInv, pubVars

\* The types follow from those of the tree and of the commands.
LEMMA TypesKept ==
  ASSUME TypeInv, TreeInv', NEW p \in Ops, Only(p), UNCHANGED <<pubVars, shared, met>>, want' \in Trees,
         Len(objs') >= Len(objs), op'[p].obj <= Len(objs')
  PROVE  TypeInv'
<1>1. RootInv'
  BY DEF TypeInv, RootInv, pubVars
<1>2. Len(objs) \in Nat /\ Len(objs') \in Nat
  BY LenProperties DEF TypeInv, TreeInv
<1>3. \A q \in Ops : op[q].obj \in Nat /\ op[q].obj <= Len(objs)
  BY DEF TypeInv, OpInv, OpRecs
<1>4. OpInv'
  BY <1>2, <1>3 DEF OpInv, Only
<1> QED BY <1>1, <1>4 DEF TypeInv

\* What a command has reached before its call.
LEMMA ReachedNow ==
  ASSUME IInv, NEW p \in Ops, Running(p)
  PROVE  /\ \A n \in About(p) \ shared : Reached(p, n)
         /\ op[p].name \in shared => About(p) \subseteq shared
BY DEF IInv, NameInv, ShareInv, About

LEMMA LookResult == ASSUME IInv, NEW p \in Ops, Look(p) PROVE Result(p)
<1>0. PICK n : n = op[p].name
  OBVIOUS
<1>1. /\ TypeInv /\ StageInv /\ ObjInv /\ PubInv /\ TreeInv /\ op \in [Ops -> OpRecs] /\ want \in Trees
      /\ n \in Names /\ About(p) = {n} /\ op[p].kind \in {"write", "buffer", "cp", "flush", "rm"}
      /\ op[p].at \in {"look", "child"} /\ op[p].to /= n
      /\ op[p].at = "look" => op[p].kind \in {"write", "buffer", "flush", "rm"}
      /\ op[p].at = "child" => op[p].kind \in {"write", "buffer", "cp"}
  BY <1>0, Kinded, Abouts DEF IInv, TypeInv, OpInv, Look, At, Files
<1>2. Running(p) /\ op[p].obj \in Nat /\ op[p].obj <= Len(objs) /\ Len(objs) \in Nat
  BY <1>1, LenProperties DEF Running, TypeInv, OpInv, OpRecs, TreeInv
<1>3. n \notin shared => AtName(p, n)
  BY <1>0, <1>1, <1>2, ReachedNow DEF Reached
<1>4. UNCHANGED <<shared, met>>
  BY DEF Look, Quiet
<1>5. CASE Has(n) /\ Cached(n)
           /\ op' = [op EXCEPT ![p].obj = ObjOf(n), ![p].at = IF op[p].kind = "rm" THEN "unlink" ELSE "open"]
           /\ UNCHANGED <<link, top, pubVars, want>>
  <2>1. /\ TreeInv' /\ link' = link /\ Len(objs') >= Len(objs)
        /\ \A m \in Names : NodeOf(m)' = NodeOf(m) /\ (m /= n => View(m))
        /\ cache' = [cache EXCEPT ![n] = ObjOf(n)] /\ ObjOf(n) \in Nat \ {0} /\ ObjOf(n) <= Len(objs')
    BY <1>1, <1>5, CachedView
  <2> DEFINE a == IF op[p].kind = "rm" THEN "unlink" ELSE "open"
  <2>2. a \in Places /\ a \in {"unlink", "open"}
    BY DEF Places
  <2>3. Only(p) /\ op'[p].at = a /\ op'[p].obj = ObjOf(n)
    <3>1. PICK i \in Nat : i = ObjOf(n)
      BY <2>1
    <3>2. op' = [op EXCEPT ![p].obj = i, ![p].at = a]
      BY <1>5, <3>1
    <3> HIDE DEF a
    <3> QED BY <1>1, <2>2, <3>1, <3>2, ObjMoves
  <2>4. op'[p].kind = op[p].kind /\ op'[p].name = n /\ op'[p].to = op[p].to
    BY <1>0, <2>3 DEF Only
  <2>5. TypeInv'
    BY <1>1, <1>4, <1>5, <2>1, <2>3, TypesKept
  <2>6. ObjInv'
    BY <1>0, <1>1, <2>1, <2>3, ObjCached
  <2>7. PubInv'
    BY <1>1, <1>5, <2>2, <2>3, PubKept
  <2>8. Staged(p)'
    BY <1>1, <2>1, <2>2, <2>3, <2>4, Stagings DEF Staged, StageInv, Files
  <2>9. cache'[n] = ObjOf(n)
    BY <1>1, <2>1 DEF TreeInv
  <2>10. ASSUME n \notin shared PROVE Reached(p, n)'
    <3>1. AtName(p, n)
      BY <1>3, <2>10
    <3>2. NodeOf(n)' = NodeOf(n) /\ link' = link /\ want' = want
      BY <1>1, <1>5, <2>1
    <3>3. op[p].at = "look" => Same(n, want[n]) /\ want[n] /= Absent
      BY <1>1, <1>5, <3>1, HasSame DEF AtName
    <3>4. op[p].at = "child" => Same(n, Base(p, n)) /\ want[n] = Absent
      BY <3>1 DEF AtName
    <3>5. op[p].kind = "rm" => Same(n, want[n])
      BY <1>1, <3>3
    <3>6. op[p].kind /= "rm" => Same(n, Base(p, n)) /\ (op[p].kind = "flush" => want[n] /= Absent)
      BY <1>1, <3>3, <3>4 DEF Base, Old
    <3>7. Base(p, n)' = Base(p, n)
      BY <2>4, <3>2 DEF Base, Old
    <3>8. CASE op[p].kind = "rm"
      BY <1>1, <2>2, <2>3, <2>4, <3>2, <3>5, <3>8 DEF Reached, AtName, Same
    <3>9. CASE op[p].kind /= "rm"
      BY <1>1, <2>2, <2>3, <2>4, <2>9, <3>2, <3>6, <3>7, <3>9 DEF Reached, AtName, Same
    <3> QED BY <3>8, <3>9
  <2> QED BY <1>1, <1>2, <1>4, <1>5, <2>1, <2>2, <2>3, <2>5, <2>6, <2>7, <2>8, <2>10 DEF Result, Carries
<1>6. CASE ~Has(n) /\ At(p, "look") /\ op[p].kind \in Writes /\ GoTo(p, "add") /\ UNCHANGED <<treeVars, pubVars, want>>
  <2>1. TreeSame /\ \A m \in Names : View(m)
    BY <1>1, <1>6, SameView
  <2>2. Only(p) /\ op'[p].at = "add" /\ op'[p].obj = op[p].obj
    BY <1>1, <1>6, GoToMoves DEF Places
  <2>3. op'[p].kind = op[p].kind /\ op'[p].name = n /\ op'[p].to = op[p].to
    BY <1>0, <2>2 DEF Only
  <2>4. TypeInv'
    BY <1>1, <1>2, <1>4, <1>6, <2>1, <2>2, TypesKept DEF TreeSame
  <2>5. ObjInv'
    BY <1>1, <1>6, <2>2, ObjKept DEF treeVars
  <2>6. PubInv'
    BY <1>1, <1>6, <2>2, PubKept
  <2>7. Staged(p)'
    BY <1>1, <1>6, <2>2, <2>3, Stagings DEF Staged, StageInv, Writes
  <2>8. ASSUME n \notin shared PROVE Reached(p, n)'
    <3>1. Same(n, want[n])
      BY <1>3, <1>6, <2>8 DEF AtName, At
    <3>2. link'[n] = link[n] /\ NodeOf(n)' = NodeOf(n) /\ want'[n] = want[n]
      BY <1>1, <1>6, <2>1 DEF View, TreeSame
    <3> QED BY <1>1, <1>6, <2>2, <2>3, <3>1, <3>2 DEF Reached, AtName, Same, Writes
  <2> QED BY <1>1, <1>2, <1>4, <1>6, <2>1, <2>2, <2>4, <2>5, <2>6, <2>7, <2>8 DEF Result, Carries
<1>7. CASE ~Has(n) /\ (At(p, "child") \/ op[p].kind \notin Writes) /\ Fails(p)
  <2>1. TreeSame /\ \A m \in Names : View(m)
    BY <1>1, <1>7, SameView DEF Fails
  <2>2. Only(p) /\ op'[p].at = "done" /\ op'[p].obj = 0
    BY <1>1, <1>7, DropsMoves DEF Places, Fails
  <2>3. op'[p].kind = op[p].kind /\ op'[p].name = n /\ op'[p].to = op[p].to
    BY <1>0, <2>2 DEF Only
  <2>4. TypeInv'
    BY <1>1, <1>2, <1>4, <1>7, <2>1, <2>2, TypesKept DEF TreeSame, Fails
  <2>5. ObjInv'
    BY <1>1, <1>7, <2>2, ObjKept DEF treeVars, Fails
  <2>6. PubInv'
    BY <1>1, <1>7, <2>2, PubKept DEF Fails
  <2>7. Staged(p)'
    BY <1>1, <2>2, <2>3 DEF Staged, StageInv
  <2>8. ASSUME n \notin shared PROVE Same(n, want[n])'
    <3>1. op[p].at = "look" => Same(n, want[n])
      BY <1>3, <2>8 DEF AtName
    <3>2. op[p].at = "child" => Same(n, Base(p, n)) /\ Base(p, n) /= Absent
      BY <1>3, <2>8, Trees0 DEF AtName, Base, Old
    <3>3. Same(n, want[n])
      BY <1>1, <1>7, <3>1, <3>2, HasSame
    <3>4. link'[n] = link[n] /\ NodeOf(n)' = NodeOf(n) /\ want'[n] = want[n]
      BY <1>1, <1>7, <2>1 DEF View, TreeSame, Fails
    <3> QED BY <3>3, <3>4 DEF Same
  <2> QED BY <1>1, <1>2, <1>4, <1>7, <2>1, <2>2, <2>4, <2>5, <2>6, <2>7, <2>8 DEF Result, Carries, Fails
<1> QED BY <1>0, <1>5, <1>6, <1>7 DEF Look

LEMMA AddResult == ASSUME IInv, NEW p \in Ops, Add(p) PROVE Result(p)
<1>0. PICK n : n = op[p].name
  OBVIOUS
<1>1. /\ TypeInv /\ StageInv /\ ObjInv /\ PubInv /\ TreeInv /\ op \in [Ops -> OpRecs] /\ want \in Trees
      /\ n \in Names /\ About(p) = {n} /\ op[p].kind \in {"write", "buffer", "cp"} /\ op[p].at = "add" /\ op[p].to /= n
  BY <1>0, Kinded, Abouts DEF IInv, TypeInv, OpInv, Add, At, Files
<1>2. Running(p) /\ op[p].obj \in Nat /\ op[p].obj <= Len(objs) /\ Len(objs) \in Nat
  BY <1>1, LenProperties DEF Running, TypeInv, OpInv, OpRecs, TreeInv
<1>3. n \notin shared => Same(n, want[n])
  BY <1>0, <1>1, <1>2, ReachedNow DEF Reached, AtName
<1>4. UNCHANGED <<shared, met>>
  BY DEF Add, Quiet
<1>5. ASSUME ~Has(n), Linked(n, IF op[p].kind = "cp" THEN {p} ELSE {}), GoTo(p, "child"), UNCHANGED <<pubVars, want>>
      PROVE  Result(p)
  <2> DEFINE c == IF op[p].kind = "cp" THEN {p} ELSE {}
  <2>1. c \in SUBSET Ops /\ c \in Contents
    BY DEF Contents
  <2>2. cache[n] = 0 /\ UNCHANGED <<top, cache, objs>> /\ link' = [link EXCEPT ![n] = c]
    BY <1>5 DEF Has, Linked
  <2>3. /\ TreeInv' /\ link'[n] = c /\ NodeOf(n)' = c
        /\ \A m \in Names : m /= n => View(m)
    BY <1>1, <2>1, <2>2, LinkedView
  <2>4. Only(p) /\ op'[p].at = "child" /\ op'[p].obj = op[p].obj
    BY <1>1, <1>5, GoToMoves DEF Places
  <2>5. op'[p].kind = op[p].kind /\ op'[p].name = n /\ op'[p].to = op[p].to
    BY <1>0, <2>4 DEF Only
  <2>6. TypeInv'
    BY <1>1, <1>2, <1>4, <1>5, <2>2, <2>3, <2>4, TypesKept
  <2>7. ObjInv'
    BY <1>1, <2>2, <2>4, ObjKept
  <2>8. PubInv'
    BY <1>1, <1>5, <2>4, PubKept
  <2>9. Staged(p)'
    BY <1>1, <2>4, <2>5, Stagings DEF Staged, StageInv
  <2>10. ASSUME n \notin shared PROVE Reached(p, n)'
    <3>1. want[n] = Absent /\ want' = want
      BY <1>1, <1>3, <1>5, <2>10, HasSame
    <3>2. Base(p, n)' = c
      BY <2>5, <3>1 DEF Base, Old
    <3> HIDE DEF c
    <3> QED BY <1>1, <2>3, <2>4, <2>5, <3>1, <3>2 DEF Reached, AtName, Same
  <2> QED BY <1>1, <1>2, <1>4, <1>5, <2>3, <2>4, <2>6, <2>7, <2>8, <2>9, <2>10 DEF Result, Carries
<1>6. ASSUME Has(n), Exists(p, n) PROVE Result(p)
  <2>0. Cached(n) /\ Drops(p, "done") /\ UNCHANGED <<link, top, pubVars, want>>
    BY <1>6 DEF Exists
  <2>1. /\ TreeInv' /\ link' = link /\ Len(objs') >= Len(objs)
        /\ \A m \in Names : NodeOf(m)' = NodeOf(m) /\ (m /= n => View(m))
        /\ cache' = [cache EXCEPT ![n] = ObjOf(n)] /\ ObjOf(n) \in Nat \ {0} /\ ObjOf(n) <= Len(objs')
    BY <1>1, <1>6, <2>0, CachedView
  <2>2. Only(p) /\ op'[p].at = "done" /\ op'[p].obj = 0
    BY <1>1, <2>0, DropsMoves DEF Places
  <2>3. op'[p].kind = op[p].kind /\ op'[p].name = n /\ op'[p].to = op[p].to
    BY <1>0, <2>2 DEF Only
  <2>4. Len(objs') \in Nat
    BY <2>1, LenProperties DEF TreeInv
  <2>5. TypeInv'
    BY <1>1, <1>4, <2>0, <2>1, <2>2, <2>4, TypesKept
  <2>6. ObjInv'
    BY <1>1, <2>1, <2>2, ObjCached
  <2>7. PubInv'
    BY <1>1, <2>0, <2>2, PubKept
  <2>8. Staged(p)'
    BY <1>1, <2>2, <2>3 DEF Staged, StageInv
  <2>9. ASSUME n \notin shared PROVE Same(n, want[n])'
    BY <1>1, <1>3, <2>0, <2>1, <2>9 DEF Same
  <2> QED BY <1>1, <1>2, <1>4, <2>0, <2>1, <2>2, <2>5, <2>6, <2>7, <2>8, <2>9 DEF Result, Carries
<1> QED BY <1>0, <1>5, <1>6 DEF Add

LEMMA OpenResult == ASSUME IInv, NEW p \in Ops, Open(p) PROVE Result(p)
<1>0. PICK n : n = op[p].name
  OBVIOUS
<1>1. /\ TypeInv /\ StageInv /\ ObjInv /\ PubInv /\ TreeInv /\ op \in [Ops -> OpRecs] /\ want \in Trees
      /\ n \in Names /\ About(p) = {n} /\ op[p].kind \in Files /\ op[p].at = "open" /\ op[p].to /= n /\ op[p].obj /= 0
  BY <1>0, Kinded, Abouts DEF IInv, TypeInv, OpInv, Open, At, StageInv, Staged
<1>2. Running(p) /\ op[p].obj \in 1 .. Len(objs) /\ Len(objs) \in Nat
  BY <1>1, LenProperties DEF Running, TypeInv, OpInv, OpRecs, TreeInv
<1>3. n \notin shared => AtName(p, n)
  BY <1>0, <1>1, <1>2, ReachedNow DEF Reached
<1>4. UNCHANGED <<treeVars, pubVars, want, shared, met>>
  BY DEF Open, Quiet
<1> DEFINE c == objs[op[p].obj].node
<1>5. c \in SUBSET Ops
  <2>1. objs[op[p].obj] \in Objs
    BY <1>1, <1>2, ElementOfSeq DEF TreeInv
  <2> QED BY <2>1 DEF Objs
<1>6. op' = [op EXCEPT ![p].node = c, ![p].at = "lock"]
  BY DEF Open
<1> HIDE DEF c
<1>7. Only(p) /\ op'[p].at = "lock" /\ op'[p].node = c /\ op'[p].obj = op[p].obj
  BY <1>1, <1>5, <1>6, NodeMoves DEF Places
<1>8. op'[p].kind = op[p].kind /\ op'[p].name = n /\ op'[p].to = op[p].to
  BY <1>0, <1>7 DEF Only
<1>9. TreeSame /\ \A m \in Names : View(m)
  BY <1>1, <1>4, SameView
<1>10. TypeInv'
  BY <1>1, <1>2, <1>4, <1>7, <1>9, TypesKept DEF TreeSame
<1>11. ObjInv'
  BY <1>1, <1>4, <1>7, ObjKept DEF treeVars
<1>12. PubInv'
  BY <1>1, <1>4, <1>7, PubKept
<1>13. Staged(p)'
  BY <1>1, <1>7, <1>8, Stagings DEF Staged, StageInv, Files
<1>14. ASSUME n \notin shared PROVE Reached(p, n)'
  <2>1. cache[n] = op[p].obj /\ Same(n, Base(p, n)) /\ (op[p].kind = "flush" => want[n] /= Absent)
    BY <1>1, <1>3, <1>14 DEF AtName
  <2>2. c = Base(p, n)
    BY <1>1, <2>1, NodeTypes DEF Same, c
  <2>3. cache'[n] = cache[n] /\ link' = link /\ NodeOf(n)' = NodeOf(n) /\ want' = want
    BY <1>1, <1>4, <1>9 DEF View, TreeSame
  <2>4. Base(p, n)' = Base(p, n)
    BY <1>8, <2>3 DEF Base, Old
  <2> QED BY <1>1, <1>7, <1>8, <2>1, <2>2, <2>3, <2>4 DEF Reached, AtName, Same, Files
<1> QED BY <1>1, <1>2, <1>4, <1>7, <1>9, <1>10, <1>11, <1>12, <1>13, <1>14 DEF Result, Carries

LEMMA LockResult == ASSUME IInv, NEW p \in Ops, LockDesc(p) PROVE Result(p)
<1>0. PICK n : n = op[p].name
  OBVIOUS
<1>1. /\ TypeInv /\ StageInv /\ ObjInv /\ PubInv /\ TreeInv /\ op \in [Ops -> OpRecs] /\ want \in Trees
      /\ n \in Names /\ About(p) = {n} /\ op[p].kind \in Files /\ op[p].at = "lock" /\ op[p].to /= n /\ op[p].obj /= 0
  BY <1>0, Kinded, Abouts DEF IInv, TypeInv, OpInv, LockDesc, At, StageInv, Staged
<1>2. Running(p) /\ op[p].obj \in 1 .. Len(objs) /\ Len(objs) \in Nat
  BY <1>1, LenProperties DEF Running, TypeInv, OpInv, OpRecs, TreeInv
<1>3. n \notin shared => AtName(p, n)
  BY <1>0, <1>1, <1>2, ReachedNow DEF Reached
<1>4. UNCHANGED <<link, top, cache, pubVars, want, shared, met>> /\ objs' = [objs EXCEPT ![op[p].obj].desc = p] /\ GoTo(p, "close")
  BY DEF LockDesc, Quiet
<1>5. Only(p) /\ op'[p].at = "close" /\ op'[p].node = op[p].node /\ op'[p].obj = op[p].obj
  BY <1>1, <1>4, GoToMoves DEF Places
<1>6. op'[p].kind = op[p].kind /\ op'[p].name = n /\ op'[p].to = op[p].to
  BY <1>0, <1>5 DEF Only
<1>7. TreeSame /\ \A m \in Names : View(m)
  BY <1>1, <1>2, <1>4, DescView
<1>8. TypeInv'
  BY <1>1, <1>2, <1>4, <1>5, <1>7, TypesKept DEF TreeSame
<1>9. ObjInv'
  BY <1>1, <1>4, <1>5, ObjKept
<1>10. PubInv'
  BY <1>1, <1>4, <1>5, PubKept
<1>11. Staged(p)'
  BY <1>1, <1>5, <1>6, Stagings DEF Staged, StageInv, Files
<1>12. ASSUME n \notin shared PROVE Reached(p, n)'
  <2>1. cache[n] = op[p].obj /\ Same(n, Base(p, n)) /\ op[p].node = Base(p, n) /\ (op[p].kind = "flush" => want[n] /= Absent)
    BY <1>1, <1>3, <1>12 DEF AtName
  <2>2. cache'[n] = cache[n] /\ link' = link /\ NodeOf(n)' = NodeOf(n) /\ want' = want
    BY <1>1, <1>4, <1>7 DEF View, TreeSame
  <2>3. Base(p, n)' = Base(p, n)
    BY <1>6, <2>2 DEF Base, Old
  <2> QED BY <1>1, <1>5, <1>6, <2>1, <2>2, <2>3 DEF Reached, AtName, Same, Files
<1> QED BY <1>1, <1>2, <1>4, <1>5, <1>7, <1>8, <1>9, <1>10, <1>11, <1>12 DEF Result, Carries

LEMMA FlushUpResult == ASSUME IInv, NEW p \in Ops, FlushUp(p) PROVE Result(p)
<1>0. PICK n : n = op[p].name
  OBVIOUS
<1>1. /\ TypeInv /\ StageInv /\ ObjInv /\ PubInv /\ TreeInv /\ op \in [Ops -> OpRecs] /\ want \in Trees
      /\ n \in Names /\ About(p) = {n} /\ op[p].kind \in Files /\ op[p].at = "close" /\ op[p].to /= n /\ op[p].obj /= 0
  BY <1>0, Kinded, Abouts DEF IInv, TypeInv, OpInv, FlushUp, At, StageInv, Staged
<1>2. Running(p) /\ op[p].obj \in 1 .. Len(objs) /\ Len(objs) \in Nat /\ op[p].node \in SUBSET Ops
  BY <1>1, LenProperties DEF Running, TypeInv, OpInv, OpRecs, TreeInv
<1>3. n \notin shared => AtName(p, n)
  BY <1>0, <1>1, <1>2, ReachedNow DEF Reached
<1> DEFINE c == IF op[p].kind \in Writes THEN op[p].node \cup {p} ELSE op[p].node
<1>4. c \in SUBSET Ops
  BY <1>2
<1>5. /\ UNCHANGED <<link, top, cache, pubVars, want, shared, met>> /\ objs' = [objs EXCEPT ![op[p].obj].node = c]
      /\ op' = [op EXCEPT ![p].node = c, ![p].at = "up"]
  BY DEF FlushUp, Quiet
<1>6. op[p].at = "close" /\ n \notin shared => c = Content(p, n)
  BY <1>3 DEF AtName, Content, Base, Writes
<1> HIDE DEF c
<1>7. Only(p) /\ op'[p].at = "up" /\ op'[p].node = c /\ op'[p].obj = op[p].obj
  BY <1>1, <1>4, <1>5, NodeMoves DEF Places
<1>8. op'[p].kind = op[p].kind /\ op'[p].name = n /\ op'[p].to = op[p].to
  BY <1>0, <1>7 DEF Only
<1>9. TreeSame /\ \A m \in Names : IF cache[m] = op[p].obj THEN NodeOf(m)' = c ELSE View(m)
  BY <1>1, <1>2, <1>4, <1>5, ObjView
<1>10. \A m \in Names : m /= n => View(m)
  BY <1>0, <1>1, <1>9 DEF ObjInv
<1>11. TypeInv'
  BY <1>1, <1>2, <1>5, <1>7, <1>9, TypesKept DEF TreeSame
<1>12. ObjInv'
  BY <1>1, <1>5, <1>7, ObjKept
<1>13. PubInv'
  BY <1>1, <1>5, <1>7, PubKept
<1>14. Staged(p)'
  BY <1>1, <1>7, <1>8, Stagings DEF Staged, StageInv, Files
<1>15. ASSUME n \notin shared PROVE Reached(p, n)'
  <2>1. cache[n] = op[p].obj /\ Same(n, Base(p, n)) /\ (op[p].kind = "flush" => want[n] /= Absent)
    BY <1>1, <1>3, <1>15 DEF AtName
  <2>2. link' = link /\ NodeOf(n)' = c /\ want' = want
    BY <1>1, <1>5, <1>9, <2>1 DEF TreeSame
  <2>3. Base(p, n)' = Base(p, n) /\ Content(p, n)' = c
    BY <1>1, <1>6, <1>8, <1>15, <2>2 DEF Base, Content, Old
  <2> QED BY <1>1, <1>7, <1>8, <2>1, <2>2, <2>3 DEF Reached, AtName, Same, Files
<1> QED BY <1>1, <1>2, <1>5, <1>7, <1>10, <1>11, <1>12, <1>13, <1>14, <1>15, Trees0 DEF Result, Carries

LEMMA CloseChildResult == ASSUME IInv, NEW p \in Ops, CloseChild(p) PROVE Result(p)
<1>0. PICK n : n = op[p].name
  OBVIOUS
<1> DEFINE c == op[p].node
           t == Part(Dir[n])
<1>1. /\ TypeInv /\ StageInv /\ ObjInv /\ PubInv /\ TreeInv /\ op \in [Ops -> OpRecs] /\ want \in Trees
      /\ n \in Names /\ About(p) = {n} /\ op[p].kind \in Files /\ op[p].at = "up" /\ op[p].to /= n /\ op[p].obj /= 0
  BY <1>0, Kinded, Abouts DEF IInv, TypeInv, OpInv, CloseChild, At, StageInv, Staged
<1>2. Running(p) /\ op[p].obj \in 1 .. Len(objs) /\ Len(objs) \in Nat /\ c \in SUBSET Ops /\ c \in Contents
  BY <1>1, LenProperties, Trees0 DEF Running, TypeInv, OpInv, OpRecs, TreeInv
<1>3. n \notin shared => AtName(p, n)
  BY <1>0, <1>1, <1>2, ReachedNow DEF Reached
<1>4. /\ UNCHANGED <<top, cache, objs, pubVars, want, shared, met>> /\ link' = [link EXCEPT ![n] = c]
      /\ op' = IF op[p].kind = "buffer" THEN [op EXCEPT ![p].at = "unlock"]
               ELSE [op EXCEPT ![p].snap = t, ![p].at = "top"]
  BY <1>0 DEF CloseChild, Quiet
<1>5. /\ TreeInv' /\ link'[n] = c /\ NodeOf(n)' = IF cache[n] = 0 THEN c ELSE NodeOf(n)
      /\ \A m \in Names : m /= n => View(m)
  <2> HIDE DEF c
  <2> QED BY <1>1, <1>2, <1>4, LinkedView
<1>6. t \in Trees /\ \A m \in Names : Dir[m] = Dir[n] => t[m] = link'[m]
  BY <1>5, PartTree DEF TreeInv
<1> HIDE DEF c, t
<1>7. /\ Only(p) /\ op'[p].obj = op[p].obj
      /\ IF op[p].kind = "buffer" THEN op'[p].at = "unlock" ELSE op'[p].at = "top" /\ op'[p].snap = t
  <2>1. CASE op[p].kind = "buffer"
    <3>1. GoTo(p, "unlock")
      BY <1>4, <2>1 DEF GoTo
    <3> QED BY <1>1, <2>1, <3>1, GoToMoves DEF Places
  <2>2. CASE op[p].kind /= "buffer"
    <3>1. op' = [op EXCEPT ![p].snap = t, ![p].at = "top"] /\ "top" \in Places
      BY <1>4, <2>2 DEF Places
    <3> QED BY <1>1, <1>6, <2>2, <3>1, UpMoves
  <2> QED BY <2>1, <2>2
<1>8. op'[p].kind = op[p].kind /\ op'[p].name = n /\ op'[p].to = op[p].to
  BY <1>0, <1>7 DEF Only
<1>9. TypeInv'
  BY <1>1, <1>2, <1>4, <1>5, <1>7, TypesKept
<1>10. ObjInv'
  BY <1>1, <1>4, <1>7, ObjKept
<1>11. PubInv'
  BY <1>1, <1>4, <1>7, PubKept
<1>12. Staged(p)'
  BY <1>1, <1>7, <1>8, Stagings DEF Staged, StageInv, Files
<1>13. ASSUME n \notin shared PROVE Reached(p, n)'
  <2>1. c = Content(p, n) /\ NodeOf(n) = Content(p, n) /\ (op[p].kind = "flush" => want[n] /= Absent)
    BY <1>1, <1>3, <1>13 DEF AtName, c
  <2>2. Content(p, n)' = Content(p, n) /\ want' = want
    BY <1>4, <1>8 DEF Base, Content, Old
  <2>3. Same(n, Content(p, n))'
    BY <1>5, <2>1, <2>2 DEF Same
  <2> QED BY <1>1, <1>7, <1>8, <2>1, <2>2, <2>3 DEF Reached, AtName, Files
<1>14. p \notin met => Carries(p)'
  <2>1. op[p].kind = "buffer" => Carries(p)'
    BY <1>7, <1>8 DEF Carries
  <2>2. op[p].kind /= "buffer" => Brought(p, op[p].snap)'
    BY <1>1, <1>6, <1>7, <1>8 DEF Brought, Flushed, Files
  <2>3. op[p].kind /= "buffer" => Carries(p)'
    BY <1>7, <2>2 DEF Carries
  <2> QED BY <2>1, <2>3
<1> QED BY <1>1, <1>2, <1>4, <1>5, <1>7, <1>9, <1>10, <1>11, <1>12, <1>13, <1>14 DEF Result

LEMMA CloseTopResult == ASSUME IInv, NEW p \in Ops, CloseTop(p) PROVE Result(p)
<1>0. PICK n : n = op[p].name
  OBVIOUS
<1> DEFINE t == Over(top, Dir[n], op[p].snap)
<1>1. /\ TypeInv /\ StageInv /\ ObjInv /\ PubInv /\ TreeInv /\ op \in [Ops -> OpRecs] /\ want \in Trees
      /\ n \in Names /\ About(p) = {n} /\ op[p].kind \in Files \cup {"rm"} /\ op[p].at = "top" /\ op[p].to /= n
      /\ op[p].kind \in Files <=> op[p].obj /= 0
  BY <1>0, Kinded, Abouts DEF IInv, TypeInv, OpInv, CloseTop, At, StageInv, Staged
<1>2. Running(p) /\ op[p].obj \in Nat /\ op[p].obj <= Len(objs) /\ Len(objs) \in Nat /\ op[p].snap \in Trees
  BY <1>1, LenProperties DEF Running, TypeInv, OpInv, OpRecs, TreeInv
<1>3. n \notin shared => AtName(p, n)
  BY <1>0, <1>1, <1>2, ReachedNow DEF Reached
<1>4. UNCHANGED <<link, cache, objs, pubVars, want, shared, met>> /\ top' = t
      /\ op' = [op EXCEPT ![p].snap = t, ![p].at = "root"]
  BY <1>0 DEF CloseTop, Quiet
<1>5. t \in Trees /\ \A m \in Names : t[m] = IF Dir[m] = Dir[n] THEN op[p].snap[m] ELSE top[m]
  BY <1>1, <1>2, OverTree DEF TreeInv
<1> HIDE DEF t
<1>6. TreeSame /\ \A m \in Names : View(m)
  BY <1>1, <1>4, <1>5, TopView
<1>7. Only(p) /\ op'[p].at = "root" /\ op'[p].snap = t /\ op'[p].obj = op[p].obj
  BY <1>1, <1>4, <1>5, UpMoves DEF Places
<1>8. op'[p].kind = op[p].kind /\ op'[p].name = n /\ op'[p].to = op[p].to
  BY <1>0, <1>7 DEF Only
<1>9. TypeInv'
  BY <1>1, <1>2, <1>4, <1>6, <1>7, TypesKept DEF TreeSame
<1>10. ObjInv'
  BY <1>1, <1>4, <1>7, ObjKept
<1>11. PubInv'
  BY <1>1, <1>4, <1>7, PubKept
<1>12. Staged(p)'
  BY <1>1, <1>7, <1>8, Stagings DEF Staged, StageInv, Files
<1>13. ASSUME n \notin shared PROVE Reached(p, n)'
  <2>1. /\ op[p].kind \in Files => Same(n, Content(p, n))
        /\ op[p].kind = "rm" => Same(n, Absent)
        /\ op[p].kind = "flush" => want[n] /= Absent
    BY <1>1, <1>3, <1>13 DEF AtName
  <2>2. Content(p, n)' = Content(p, n) /\ want' = want /\ link' = link /\ NodeOf(n)' = NodeOf(n)
    BY <1>1, <1>4, <1>6, <1>8 DEF Base, Content, Old, View
  <2> QED BY <1>1, <1>7, <1>8, <2>1, <2>2 DEF Reached, AtName, Same, Files
<1>14. p \notin met => Carries(p)'
  <2>1. p \notin met => \A m \in Names : Dir[m] = Dir[n] => op[p].snap[m] = link[m]
    BY <1>0, <1>1, <1>2 DEF IInv, AloneInv, Alone, Carries, Brought, Flushed, Files
  <2>2. p \notin met => Brought(p, op[p].snap)'
    BY <1>1, <1>4, <1>5, <1>7, <1>8, <2>1 DEF Brought, Flushed, Files
  <2> QED BY <1>7, <2>2 DEF Carries
<1> QED BY <1>1, <1>2, <1>4, <1>6, <1>7, <1>9, <1>10, <1>11, <1>12, <1>13, <1>14 DEF Result

\* What a command leaves to the name it is about, were it the only one.
LEMMA Effects ==
  ASSUME TypeInv, StageInv, NEW p \in Ops
  PROVE  /\ Effect(p) \in Trees
         /\ \A m \in Names \ About(p) : Effect(p)[m] = want[m]
         /\ op[p].kind \in Files /\ (op[p].kind = "flush" => want[op[p].name] /= Absent) =>
              Effect(p)[op[p].name] = Content(p, op[p].name)
         /\ op[p].kind = "rm" => Effect(p)[op[p].name] = Absent
         /\ op[p].kind = "mv" => /\ Effect(p)[op[p].name] = Absent
                                 /\ op[p].to /= op[p].name => Effect(p)[op[p].to] = want[op[p].name]
<1>0. PICK n, m : n = op[p].name /\ m = op[p].to
  OBVIOUS
<1>1. op[p].kind \in Kinds /\ want \in Trees
  BY Kinded DEF TypeInv
<1>2. CASE op[p].kind \in {"write", "buffer"}
  <2> DEFINE c == Old(n) \cup {p}
  <2>1. n \in Names /\ About(p) = {n}
    BY <1>0, <1>2, Abouts DEF Files
  <2>2. Old(n) \in SUBSET Ops
    BY <1>1, <2>1, Trees0 DEF Old, Contents
  <2>3. c \in Contents
    BY <2>2, Trees0
  <2>4. Effect(p) = [want EXCEPT ![n] = c] /\ Content(p, n) = c
    BY <1>0, <1>2 DEF Effect, Old, Content, Writes
  <2> HIDE DEF c
  <2>5. Effect(p) \in Trees
    BY <1>1, <2>1, <2>3, <2>4, Trees0 DEF Trees, Contents
  <2>6. Effect(p)[n] = c /\ \A l \in Names : l /= n => Effect(p)[l] = want[l]
    BY <1>1, <2>1, <2>4 DEF Trees
  <2> QED BY <1>0, <1>2, <2>1, <2>4, <2>5, <2>6 DEF Files
<1>3. CASE op[p].kind = "cp"
  <2>1. n \in Names /\ About(p) = {n}
    BY <1>0, <1>3, Abouts DEF Files
  <2>2. {p} \in Contents
    BY Trees0
  <2>3. Effect(p) = [want EXCEPT ![n] = {p}] /\ Content(p, n) = {p}
    BY <1>0, <1>3 DEF Effect, Base, Content, Writes
  <2>4. Effect(p) \in Trees
    BY <1>1, <2>1, <2>2, <2>3, Trees0 DEF Trees, Contents
  <2>5. Effect(p)[n] = {p} /\ \A l \in Names : l /= n => Effect(p)[l] = want[l]
    BY <1>1, <2>1, <2>3 DEF Trees
  <2> QED BY <1>0, <1>3, <2>1, <2>3, <2>4, <2>5 DEF Files
<1>4. CASE op[p].kind = "rm"
  <2>1. n \in Names /\ About(p) = {n}
    BY <1>0, <1>4, Abouts DEF Files
  <2>2. Effect(p) = [want EXCEPT ![n] = Absent]
    BY <1>0, <1>4 DEF Effect
  <2>3. Effect(p) \in Trees
    BY <1>1, <2>1, <2>2, Trees0 DEF Trees, Contents
  <2>4. Effect(p)[n] = Absent /\ \A l \in Names : l /= n => Effect(p)[l] = want[l]
    BY <1>1, <2>1, <2>2 DEF Trees
  <2> QED BY <1>0, <1>4, <2>1, <2>3, <2>4 DEF Files
<1>5. CASE op[p].kind = "mv"
  <2>1. n \in Names /\ m \in Names /\ About(p) = {n, m}
    BY <1>0, <1>5, Abouts DEF Files
  <2> DEFINE t == [want EXCEPT ![m] = want[n]]
  <2>2. Effect(p) = [t EXCEPT ![n] = Absent]
    BY <1>0, <1>5 DEF Effect
  <2>3. want[n] \in Contents
    BY <1>1, <2>1, Trees0
  <2>4. t \in Trees /\ t[m] = want[n] /\ \A l \in Names : l /= m => t[l] = want[l]
    <3>1. t \in Trees
      BY <1>1, <2>1, <2>3, Trees0
    <3> QED BY <1>1, <2>1, <3>1 DEF Trees
  <2> HIDE DEF t
  <2>5. Effect(p) \in Trees
    BY <2>1, <2>2, <2>4, Trees0 DEF Trees, Contents
  <2>6. Effect(p)[n] = Absent /\ \A l \in Names : l /= n => Effect(p)[l] = t[l]
    BY <2>1, <2>2, <2>4 DEF Trees
  <2> QED BY <1>0, <1>5, <2>1, <2>4, <2>5, <2>6 DEF Files
<1>6. CASE op[p].kind \in {"flush", "flushall", "never"}
  <2>1. Effect(p) = want
    BY <1>6 DEF Effect
  <2>2. op[p].kind = "flush" /\ want[n] /= Absent => Content(p, n) = want[n]
    BY DEF Content, Base, Old, Writes
  <2> QED BY <1>0, <1>1, <1>6, <2>1, <2>2 DEF Files
<1> QED BY <1>1, <1>2, <1>3, <1>4, <1>5, <1>6 DEF Kinds

\* The types when the Republisher has moved.
LEMMA TypesMoved ==
  ASSUME TypeInv, TreeInv', RootInv', NEW p \in Ops, Only(p), UNCHANGED <<shared, met>>, want' \in Trees,
         Len(objs') >= Len(objs), op'[p].obj <= Len(objs')
  PROVE  TypeInv'
<1>1. Len(objs) \in Nat /\ Len(objs') \in Nat
  BY LenProperties DEF TypeInv, TreeInv
<1>2. \A q \in Ops : op[q].obj \in Nat /\ op[q].obj <= Len(objs)
  BY DEF TypeInv, OpInv, OpRecs
<1>3. OpInv'
  BY <1>1, <1>2 DEF OpInv, Only
<1> QED BY <1>3 DEF TypeInv

\* A command ends.
LEMMA DoneResult ==
  ASSUME IInv, NEW p \in Ops, Running(p), Done(p), UNCHANGED <<shared, met>>,
         TreeInv', RootInv', PubInv', Len(objs') = Len(objs),
         \A n \in Names : cache'[n] \in {0, cache[n]},
         \A n \in Names \ About(p) : View(n),
         \A n \in About(p) \ shared : link'[n] = Effect(p)[n] /\ NodeOf(n)' = Effect(p)[n]
  PROVE  Result(p)
<1>1. TypeInv /\ StageInv /\ ObjInv /\ op \in [Ops -> OpRecs] /\ Drops(p, "done") /\ want' = Effect(p)
  BY DEF IInv, TypeInv, OpInv, Done
<1>2. Only(p) /\ op'[p].at = "done" /\ op'[p].obj = 0
  BY <1>1, DropsMoves DEF Places
<1>3. /\ want' \in Trees /\ \A m \in Names \ About(p) : want'[m] = want[m]
  BY <1>1, Effects
<1>4. Len(objs) \in Nat
  BY <1>1, LenProperties DEF TypeInv, TreeInv
<1>5. TypeInv'
  BY <1>1, <1>2, <1>3, <1>4, TypesMoved
<1>6. ObjInv'
  BY <1>1, <1>2, ObjKept
<1>7. Staged(p)'
  BY <1>1, <1>2 DEF Only, Staged, StageInv
<1>8. \A n \in About(p) \ shared : Same(n, want[n])'
  BY <1>1 DEF Same
<1> QED BY <1>2, <1>3, <1>5, <1>6, <1>7, <1>8 DEF Result, Carries

LEMMA UpdateResult == ASSUME IInv, NEW p \in Ops, Update(p) PROVE Result(p)
<1>0. PICK n : n = op[p].name
  OBVIOUS
<1>1. /\ TypeInv /\ StageInv /\ ObjInv /\ PubInv /\ TreeInv /\ RootInv /\ op \in [Ops -> OpRecs] /\ want \in Trees
      /\ op[p] \in OpRecs /\ op[p].kind \in Files \cup {"rm", "flushall"} /\ op[p].at = "root"
      /\ op[p].kind \in Files <=> op[p].obj /= 0
      /\ op[p].kind \in Files \cup {"rm"} => n \in Names /\ op[p].to /= n /\ About(p) = {n}
      /\ op[p].kind = "flushall" => About(p) = {}
  BY <1>0, Kinded, Abouts DEF IInv, TypeInv, OpInv, Update, At, StageInv, Staged
<1>2. Running(p) /\ op[p].obj \in Nat /\ op[p].obj <= Len(objs) /\ Len(objs) \in Nat /\ op[p].snap \in Trees
  BY <1>1, LenProperties DEF Running, TypeInv, OpInv, OpRecs, TreeInv
<1>3. /\ root' = [tree |-> op[p].snap, num |-> root.num + 1] /\ token' = TRUE
      /\ UNCHANGED <<treeVars, lastpub, stored, pub, shared, met>>
  BY DEF Update, Quiet
<1>4. root.num \in Nat /\ root'.tree = op[p].snap /\ root'.num = root.num + 1 /\ root' \in [tree : Trees, num : Nat]
  BY <1>1, <1>2, <1>3 DEF RootInv
<1>5. RootInv'
  BY <1>1, <1>3, <1>4 DEF RootInv
<1>6. TreeSame /\ \A m \in Names : View(m)
  BY <1>1, <1>3, SameView
<1>7. \A m \in Names : cache'[m] = cache[m] /\ link'[m] = link[m] /\ NodeOf(m)' = NodeOf(m)
  BY <1>6 DEF View, TreeSame
<1>8. ASSUME Only(p), op'[p].at /= "answer" PROVE PubInv'
  <2>1. \A q \in Ops : op'[q].at = "answer" <=> op[q].at = "answer"
    BY <1>1, <1>8 DEF Only
  <2>2. lastpub \in Nat /\ pub.num \in Nat
    BY <1>1 DEF RootInv, Pubs
  <2>3. lastpub < root'.num /\ (pub.st = "publishing" => pub.num < root'.num)
    BY <1>1, <1>4, <2>2 DEF PubInv
  <2> QED BY <1>1, <1>3, <1>4, <2>1, <2>2, <2>3 DEF PubInv
<1>9. ASSUME p \notin met, Only(p) PROVE Brought(p, root.tree)'
  <2>1. Brought(p, op[p].snap)
    BY <1>1, <1>2, <1>9 DEF IInv, AloneInv, Alone, Carries
  <2>2. Flushed(p)' = Flushed(p) /\ Flushed(p) \subseteq Names
    BY <1>9 DEF Only, Flushed
  <2> QED BY <1>4, <1>7, <2>1, <2>2 DEF Brought
<1>10. n \in About(p) \ shared => AtName(p, n)
  BY <1>0, <1>2, ReachedNow DEF Reached
<1>11. CASE op[p].kind = "rm" /\ Done(p)
  <2>1. Only(p) /\ op'[p].at = "done"
    BY <1>1, <1>11, DropsMoves DEF Done, Places
  <2>2. Effect(p)[n] = Absent
    BY <1>0, <1>1, <1>11, Effects
  <2>3. n \notin shared => Same(n, Absent)
    BY <1>1, <1>10, <1>11 DEF AtName
  <2>4. \A m \in About(p) \ shared : link'[m] = Effect(p)[m] /\ NodeOf(m)' = Effect(p)[m]
    BY <1>1, <1>7, <1>11, <2>2, <2>3 DEF Same
  <2>5. PubInv'
    BY <1>8, <2>1
  <2> QED BY <1>2, <1>3, <1>5, <1>6, <1>7, <1>11, <2>4, <2>5, DoneResult DEF TreeSame
<1>12. CASE op[p].kind = "flushall" /\ Drops(p, "wait") /\ UNCHANGED want
  <2>1. Only(p) /\ op'[p].at = "wait" /\ op'[p].obj = 0
    BY <1>1, <1>12, DropsMoves DEF Places
  <2>2. op'[p].kind = op[p].kind /\ op'[p].name = op[p].name /\ op'[p].to = op[p].to
    BY <2>1 DEF Only
  <2>3. PubInv'
    BY <1>8, <2>1
  <2>4. TypeInv'
    BY <1>1, <1>2, <1>3, <1>5, <1>6, <1>12, <2>1, TypesMoved DEF TreeSame
  <2>5. ObjInv'
    BY <1>1, <1>7, <2>1, ObjKept
  <2>6. Staged(p)'
    BY <1>1, <1>12, <2>1, <2>2, Stagings DEF Staged, StageInv
  <2> QED BY <1>1, <1>2, <1>3, <1>6, <1>9, <1>12, <2>1, <2>3, <2>4, <2>5, <2>6 DEF Result, Carries
<1>13. CASE op[p].kind \in Files /\ GoTo(p, "unlock") /\ UNCHANGED want
  <2>1. Only(p) /\ op'[p].at = "unlock" /\ op'[p].obj = op[p].obj
    BY <1>1, <1>13, GoToMoves DEF Places
  <2>2. op'[p].kind = op[p].kind /\ op'[p].name = n /\ op'[p].to = op[p].to
    BY <1>0, <2>1 DEF Only
  <2>3. PubInv'
    BY <1>8, <2>1
  <2>4. TypeInv'
    BY <1>1, <1>2, <1>3, <1>5, <1>6, <1>13, <2>1, TypesMoved DEF TreeSame
  <2>5. ObjInv'
    BY <1>1, <1>7, <2>1, ObjKept
  <2>6. Staged(p)'
    BY <1>1, <1>13, <2>1, <2>2, Stagings DEF Staged, StageInv, Files
  <2>7. ASSUME n \notin shared PROVE Reached(p, n)'
    <3>1. Same(n, Content(p, n)) /\ (op[p].kind = "flush" => want[n] /= Absent)
      <4>1. AtName(p, n)
        BY <1>1, <1>10, <1>13, <2>7
      <4> QED BY <1>1, <1>13, <4>1 DEF AtName, Same
    <3>2. Content(p, n)' = Content(p, n) /\ want' = want
      BY <1>13, <2>2 DEF Content, Base, Old
    <3> QED BY <1>1, <1>7, <1>13, <2>1, <2>2, <3>1, <3>2 DEF Reached, AtName, Same, Files
  <2> QED BY <1>1, <1>2, <1>3, <1>6, <1>9, <1>13, <2>1, <2>3, <2>4, <2>5, <2>6, <2>7 DEF Result, Carries
<1> QED
  <2>1. op[p].kind \in Files => op[p].kind /= "rm" /\ op[p].kind /= "flushall"
    BY DEF Files
  <2> QED BY <1>1, <1>11, <1>12, <1>13, <2>1 DEF Update

LEMMA UnlockResult == ASSUME IInv, NEW p \in Ops, Unlock(p) PROVE Result(p)
<1>0. PICK n : n = op[p].name
  OBVIOUS
<1>1. /\ TypeInv /\ StageInv /\ ObjInv /\ PubInv /\ TreeInv /\ RootInv /\ op \in [Ops -> OpRecs] /\ want \in Trees
      /\ n \in Names /\ About(p) = {n} /\ op[p].kind \in Files /\ op[p].at = "unlock" /\ op[p].to /= n /\ op[p].obj /= 0
  BY <1>0, Kinded, Abouts DEF IInv, TypeInv, OpInv, Unlock, At, StageInv, Staged
<1>2. Running(p) /\ op[p].obj \in 1 .. Len(objs) /\ Len(objs) \in Nat
  BY <1>1, LenProperties DEF Running, TypeInv, OpInv, OpRecs, TreeInv
<1>3. UNCHANGED <<link, top, cache, pubVars, shared, met>> /\ objs' = [objs EXCEPT ![op[p].obj].desc = None]
  BY DEF Unlock, Quiet
<1>4. TreeSame /\ \A m \in Names : View(m)
  BY <1>1, <1>2, <1>3, DescView
<1>5. \A m \in Names : cache'[m] = cache[m] /\ link'[m] = link[m] /\ NodeOf(m)' = NodeOf(m)
  BY <1>4 DEF View, TreeSame
<1>6. RootInv'
  BY <1>1, <1>3 DEF RootInv, pubVars
<1>7. n \notin shared => Same(n, Content(p, n)) /\ (op[p].kind = "flush" => want[n] /= Absent)
  BY <1>0, <1>1, <1>2, ReachedNow DEF Reached, AtName
<1>8. CASE op[p].kind \in {"cp", "flush"} /\ Drops(p, "wait") /\ UNCHANGED want
  <2>1. Only(p) /\ op'[p].at = "wait" /\ op'[p].obj = 0
    BY <1>1, <1>8, DropsMoves DEF Places
  <2>2. op'[p].kind = op[p].kind /\ op'[p].name = n /\ op'[p].to = op[p].to
    BY <1>0, <2>1 DEF Only
  <2>3. PubInv'
    BY <1>1, <1>3, <2>1, PubKept
  <2>4. TypeInv'
    BY <1>1, <1>2, <1>3, <1>4, <1>8, <2>1, TypesKept DEF TreeSame
  <2>5. ObjInv'
    BY <1>1, <1>5, <2>1, ObjKept
  <2>6. Staged(p)'
    BY <1>1, <1>8, <2>1, <2>2, Stagings DEF Staged, StageInv
  <2>7. ASSUME n \notin shared PROVE Reached(p, n)'
    <3>1. Content(p, n)' = Content(p, n) /\ want' = want
      BY <1>8, <2>2 DEF Content, Base, Old
    <3> QED BY <1>1, <1>5, <1>7, <1>8, <2>1, <2>2, <2>7, <3>1 DEF Reached, AtName, Same, Files
  <2>8. p \notin met => Brought(p, root.tree)'
    <3>1. p \notin met => Brought(p, root.tree)
      BY <1>1, <1>2, <1>8 DEF IInv, AloneInv, Alone, Carries
    <3>2. Flushed(p)' = Flushed(p) /\ root' = root /\ link' = link
      BY <1>3, <1>4, <2>1 DEF Only, Flushed, TreeSame, pubVars
    <3> QED BY <3>1, <3>2 DEF Brought
  <2> QED BY <1>1, <1>2, <1>3, <1>4, <1>8, <2>1, <2>3, <2>4, <2>5, <2>6, <2>7, <2>8 DEF Result, Carries
<1>9. CASE Done(p)
  <2>1. Only(p) /\ op'[p].at = "done"
    BY <1>1, <1>9, DropsMoves DEF Done, Places
  <2>2. PubInv'
    BY <1>1, <1>3, <2>1, PubKept
  <2>3. n \notin shared => Effect(p)[n] = Content(p, n)
    BY <1>0, <1>1, <1>7, Effects
  <2>4. \A m \in About(p) \ shared : link'[m] = Effect(p)[m] /\ NodeOf(m)' = Effect(p)[m]
    BY <1>1, <1>5, <1>7, <2>3 DEF Same
  <2> QED BY <1>2, <1>3, <1>4, <1>5, <1>6, <1>9, <2>2, <2>4, DoneResult DEF TreeSame
<1> QED BY <1>8, <1>9 DEF Unlock

LEMMA UnlinkResult == ASSUME IInv, NEW p \in Ops, Unlink(p) PROVE Result(p)
<1>0. PICK n : n = op[p].name
  OBVIOUS
<1>1. /\ TypeInv /\ StageInv /\ ObjInv /\ PubInv /\ TreeInv /\ op \in [Ops -> OpRecs] /\ want \in Trees
      /\ n \in Names /\ About(p) = {n} /\ op[p].kind = "rm" /\ op[p].at = "unlink" /\ op[p].to /= n
  BY <1>0, Kinded, Abouts DEF IInv, TypeInv, OpInv, Unlink, At
<1>2. Running(p) /\ op[p].obj \in Nat /\ op[p].obj <= Len(objs) /\ Len(objs) \in Nat
  BY <1>1, LenProperties DEF Running, TypeInv, OpInv, OpRecs, TreeInv
<1>3. Unlinked(n) /\ UNCHANGED <<pubVars, want, shared, met>>
  BY <1>0 DEF Unlink, Quiet
<1>4. /\ TreeInv' /\ objs' = objs /\ cache' = [cache EXCEPT ![n] = 0]
      /\ link'[n] = Absent /\ NodeOf(n)' = Absent
      /\ \A m \in Names : m /= n => View(m)
  BY <1>1, <1>3, UnlinkedView
<1>5. \A m \in Names : cache'[m] \in {0, cache[m]}
  BY <1>1, <1>4 DEF TreeInv
<1>6. n \notin shared => Same(n, want[n])
  BY <1>0, <1>1, <1>2, ReachedNow DEF Reached, AtName
<1>7. CASE link[n] /= Absent /\ GoTo(p, "node")
  <2>1. Only(p) /\ op'[p].at = "node" /\ op'[p].obj = op[p].obj
    BY <1>1, <1>7, GoToMoves DEF Places
  <2>2. op'[p].kind = "rm" /\ op'[p].name = n /\ op'[p].to = op[p].to
    BY <1>0, <1>1, <2>1 DEF Only
  <2>3. PubInv'
    BY <1>1, <1>3, <2>1, PubKept
  <2>4. TypeInv'
    BY <1>1, <1>2, <1>3, <1>4, <2>1, TypesKept
  <2>5. ObjInv'
    BY <1>1, <1>5, <2>1, ObjKept
  <2>6. Staged(p)'
    BY <1>1, <2>1, <2>2, Stagings DEF Staged, StageInv, Files
  <2>7. Reached(p, n)'
    BY <1>1, <1>4, <2>1, <2>2 DEF Reached, AtName, Same, Files
  <2> QED BY <1>1, <1>2, <1>3, <1>4, <2>1, <2>3, <2>4, <2>5, <2>6, <2>7 DEF Result, Carries
<1>8. CASE link[n] = Absent /\ Drops(p, "done")
  <2>1. Only(p) /\ op'[p].at = "done" /\ op'[p].obj = 0
    BY <1>1, <1>8, DropsMoves DEF Places
  <2>2. PubInv'
    BY <1>1, <1>3, <2>1, PubKept
  <2>3. TypeInv'
    BY <1>1, <1>2, <1>3, <1>4, <2>1, TypesKept
  <2>4. ObjInv'
    BY <1>1, <1>5, <2>1, ObjKept
  <2>5. Staged(p)'
    BY <1>1, <2>1 DEF Only, Staged, StageInv
  <2>6. n \notin shared => Same(n, want[n])'
    BY <1>3, <1>4, <1>6, <1>8 DEF Same
  <2> QED BY <1>1, <1>2, <1>3, <1>4, <2>1, <2>2, <2>3, <2>4, <2>5, <2>6 DEF Result, Carries
<1> QED BY <1>0, <1>7, <1>8 DEF Unlink

LEMMA GetNodeResult == ASSUME IInv, NEW p \in Ops, GetNode(p) PROVE Result(p)
<1>0. PICK n : n = op[p].name
  OBVIOUS
<1>1. /\ TypeInv /\ StageInv /\ ObjInv /\ PubInv /\ TreeInv /\ op \in [Ops -> OpRecs] /\ want \in Trees
      /\ op[p].at = "node"
      /\ op[p].kind = "rm" => n \in Names /\ op[p].to /= n /\ About(p) = {n}
      /\ op[p].kind = "flushall" => About(p) = {} /\ n \notin Names
  BY <1>0, Kinded, Abouts DEF IInv, TypeInv, OpInv, GetNode, At, Files
<1>2. Running(p) /\ op[p].obj \in Nat /\ op[p].obj <= Len(objs) /\ Len(objs) \in Nat
  BY <1>1, LenProperties DEF Running, TypeInv, OpInv, OpRecs, TreeInv
<1>3. CASE op[p].kind = "rm"
  <2> DEFINE t == Part(Dir[n])
  <2>1. /\ Synced(Dir[n]) /\ UNCHANGED <<top, cache, objs, pubVars, want, shared, met>>
        /\ op' = [op EXCEPT ![p].snap = t, ![p].obj = 0, ![p].at = "top"]
    BY <1>0, <1>3 DEF GetNode, Quiet
  <2>2. /\ TreeInv'
        /\ \A m \in Names : View(m) /\ link'[m] = IF Dir[m] = Dir[n] THEN NodeOf(m) ELSE link[m]
    BY <1>1, <2>1, SyncedView DEF TreeInv
  <2>3. t \in Trees /\ \A m \in Names : Dir[m] = Dir[n] => t[m] = link'[m]
    BY <2>2, PartTree DEF TreeInv
  <2> HIDE DEF t
  <2>4. Only(p) /\ op'[p].at = "top" /\ op'[p].snap = t /\ op'[p].obj = 0
    BY <1>1, <2>1, <2>3, PartMoves DEF Places
  <2>5. op'[p].kind = "rm" /\ op'[p].name = n /\ op'[p].to = op[p].to
    BY <1>0, <1>3, <2>4 DEF Only
  <2>6. PubInv'
    BY <1>1, <2>1, <2>4, PubKept
  <2>7. TypeInv'
    BY <1>1, <1>2, <2>1, <2>2, <2>4, TypesKept
  <2>8. ObjInv'
    BY <1>1, <2>1, <2>4, ObjKept
  <2>9. Staged(p)'
    BY <1>1, <1>3, <2>4, <2>5, Stagings DEF Staged, StageInv, Files
  <2>10. ASSUME n \notin shared PROVE Reached(p, n)'
    <3>1. Same(n, Absent)
      BY <1>0, <1>1, <1>2, <1>3, <2>10, ReachedNow DEF Reached, AtName
    <3>2. link'[n] = Absent /\ NodeOf(n)' = Absent
      BY <1>1, <1>3, <2>2, <3>1 DEF Same, View
    <3> QED BY <1>1, <1>3, <2>4, <2>5, <3>2 DEF Reached, AtName, Same, Files
  <2>11. Carries(p)'
    <3>1. Brought(p, op[p].snap)'
      BY <2>3, <2>4, <2>5 DEF Brought, Flushed
    <3> QED BY <2>4, <3>1 DEF Carries
  <2> QED BY <1>1, <1>2, <1>3, <2>1, <2>2, <2>4, <2>6, <2>7, <2>8, <2>9, <2>10, <2>11 DEF Result
<1>4. CASE op[p].kind = "flushall"
  <2>1. UNCHANGED <<treeVars, pubVars, want, shared, met>> /\ op' = [op EXCEPT ![p].left = Dirs, ![p].at = "sync"]
    BY <1>4 DEF GetNode, Quiet
  <2>2. TreeSame /\ \A m \in Names : View(m)
    BY <1>1, <2>1, SameView
  <2>3. Only(p) /\ op'[p].at = "sync" /\ op'[p].left = Dirs /\ op'[p].obj = op[p].obj
    BY <1>1, <2>1, SyncMoves DEF Places
  <2>4. op'[p].kind = "flushall" /\ op'[p].name = n /\ op'[p].to = op[p].to
    BY <1>0, <1>4, <2>3 DEF Only
  <2>5. PubInv'
    BY <1>1, <2>1, <2>3, PubKept
  <2>6. TypeInv'
    BY <1>1, <1>2, <2>1, <2>2, <2>3, TypesKept DEF TreeSame
  <2>7. ObjInv'
    BY <1>1, <2>1, <2>3, ObjKept DEF treeVars
  <2>8. Staged(p)'
    BY <1>0, <1>1, <1>4, <2>3, <2>4, Stagings DEF Staged, StageInv, Files
  <2>9. Carries(p)'
    BY <2>3, Trees0 DEF Carries
  <2> QED BY <1>1, <1>2, <1>4, <2>1, <2>2, <2>3, <2>5, <2>6, <2>7, <2>8, <2>9 DEF Result
<1> QED BY <1>3, <1>4 DEF GetNode

LEMMA SyncDirResult == ASSUME IInv, NEW p \in Ops, SyncDir(p) PROVE Result(p)
<1>1. /\ TypeInv /\ StageInv /\ ObjInv /\ PubInv /\ TreeInv /\ op \in [Ops -> OpRecs] /\ want \in Trees
      /\ op[p].kind = "flushall" /\ op[p].at = "sync" /\ About(p) = {} /\ op[p].name \notin Names
  BY Kinded, Abouts DEF IInv, TypeInv, OpInv, SyncDir, At
<1>2. Running(p) /\ op[p].obj \in Nat /\ op[p].obj <= Len(objs) /\ Len(objs) \in Nat /\ op[p].left \in SUBSET Dirs
  BY <1>1, LenProperties DEF Running, TypeInv, OpInv, OpRecs, TreeInv
<1>3. PICK d \in op[p].left :
        Synced(d) /\ top' = Over(top, d, link') /\ op' = [op EXCEPT ![p].left = @ \ {d}]
  BY DEF SyncDir
<1>4. UNCHANGED <<cache, objs, pubVars, want, shared, met>>
  BY DEF SyncDir, Quiet
<1>5. link' \in Trees
  <2>1. [n \in Names |-> NodeOf(n)] \in Trees
    BY <1>1, NodeTypes DEF Trees, Contents
  <2> QED BY <1>1, <1>3, <2>1, OverTree DEF Synced, TreeInv
<1>6. top' \in Trees /\ \A m \in Names : top'[m] = IF Dir[m] = d THEN link'[m] ELSE top[m]
  BY <1>1, <1>3, <1>5, OverTree DEF TreeInv
<1>7. /\ TreeInv'
      /\ \A m \in Names : View(m) /\ link'[m] = IF Dir[m] = d THEN NodeOf(m) ELSE link[m]
  BY <1>1, <1>3, <1>4, <1>6, SyncedView
<1> DEFINE l == op[p].left \ {d}
<1>8. l \in SUBSET Dirs /\ op' = [op EXCEPT ![p].left = l]
  BY <1>2, <1>3
<1>9. \A m \in Names : Dir[m] \notin l => Dir[m] \notin op[p].left \/ Dir[m] = d
  OBVIOUS
<1> HIDE DEF l
<1>10. Only(p) /\ op'[p].at = "sync" /\ op'[p].left = l /\ op'[p].obj = op[p].obj
  BY <1>1, <1>8, LeftMoves
<1>11. op'[p].kind = "flushall" /\ op'[p].name = op[p].name /\ op'[p].to = op[p].to
  BY <1>1, <1>10 DEF Only
<1>12. PubInv'
  BY <1>1, <1>4, <1>10, PubKept
<1>13. TypeInv'
  BY <1>1, <1>2, <1>4, <1>7, <1>10, TypesKept
<1>14. ObjInv'
  BY <1>1, <1>4, <1>10, ObjKept
<1>15. Staged(p)'
  BY <1>1, <1>10, <1>11, Stagings DEF Staged, StageInv, Files
<1>16. p \notin met => Carries(p)'
  <2>1. p \notin met => \A m \in Names : Dir[m] \notin op[p].left => top[m] = link[m]
    BY <1>1, <1>2 DEF IInv, AloneInv, Alone, Carries
  <2>2. p \notin met => \A m \in Names : Dir[m] \notin l => top'[m] = link'[m]
    BY <1>6, <1>7, <1>9, <2>1
  <2> QED BY <1>10, <2>2 DEF Carries
<1> QED BY <1>1, <1>2, <1>4, <1>7, <1>10, <1>12, <1>13, <1>14, <1>15, <1>16 DEF Result

LEMMA SyncEndResult == ASSUME IInv, NEW p \in Ops, SyncEnd(p) PROVE Result(p)
<1>1. /\ TypeInv /\ StageInv /\ ObjInv /\ PubInv /\ TreeInv /\ op \in [Ops -> OpRecs] /\ want \in Trees /\ top \in Trees
      /\ op[p].kind = "flushall" /\ op[p].at = "sync" /\ About(p) = {} /\ op[p].name \notin Names
  BY Kinded, Abouts DEF IInv, TypeInv, OpInv, SyncEnd, At, TreeInv
<1>2. Running(p) /\ op[p].obj \in Nat /\ op[p].obj <= Len(objs) /\ Len(objs) \in Nat
  BY <1>1, LenProperties DEF Running, TypeInv, OpInv, OpRecs, TreeInv
<1>3. /\ UNCHANGED <<treeVars, pubVars, want, shared, met>> /\ op[p].left = {}
      /\ op' = [op EXCEPT ![p].snap = top, ![p].at = "root"]
  BY DEF SyncEnd, Quiet
<1>4. TreeSame /\ \A m \in Names : View(m)
  BY <1>1, <1>3, SameView
<1>5. Only(p) /\ op'[p].at = "root" /\ op'[p].snap = top /\ op'[p].obj = op[p].obj
  BY <1>1, <1>3, UpMoves DEF Places
<1>6. op'[p].kind = "flushall" /\ op'[p].name = op[p].name /\ op'[p].to = op[p].to
  BY <1>1, <1>5 DEF Only
<1>7. PubInv'
  BY <1>1, <1>3, <1>5, PubKept
<1>8. TypeInv'
  BY <1>1, <1>2, <1>3, <1>4, <1>5, TypesKept DEF TreeSame
<1>9. ObjInv'
  BY <1>1, <1>3, <1>5, ObjKept DEF treeVars
<1>10. Staged(p)'
  BY <1>1, <1>5, <1>6, Stagings DEF Staged, StageInv, Files
<1>11. p \notin met => Carries(p)'
  <2>1. p \notin met => \A m \in Names : top[m] = link[m]
    BY <1>1, <1>2, <1>3 DEF IInv, AloneInv, Alone, Carries
  <2>2. p \notin met => Brought(p, op[p].snap)'
    BY <1>4, <1>5, <1>6, <2>1 DEF Brought, Flushed, TreeSame
  <2> QED BY <1>5, <2>2 DEF Carries
<1> QED BY <1>1, <1>2, <1>3, <1>4, <1>5, <1>7, <1>8, <1>9, <1>10, <1>11 DEF Result

LEMMA WaitPubResult == ASSUME IInv, NEW p \in Ops, WaitPub(p) PROVE Result(p)
<1>0. PICK n : n = op[p].name
  OBVIOUS
<1>1. /\ TypeInv /\ StageInv /\ ObjInv /\ PubInv /\ TreeInv /\ RootInv /\ op \in [Ops -> OpRecs] /\ want \in Trees
      /\ op[p].kind \in {"cp", "flush", "flushall"} /\ op[p].at = "wait"
      /\ op[p].kind \in Files => n \in Names /\ op[p].to /= n /\ About(p) = {n}
      /\ op[p].kind = "flushall" => About(p) = {}
  BY <1>0, Kinded, Abouts DEF IInv, TypeInv, OpInv, WaitPub, At, Files
<1>2. Running(p) /\ op[p].obj \in Nat /\ op[p].obj <= Len(objs) /\ Len(objs) \in Nat
  BY <1>1, LenProperties DEF Running, TypeInv, OpInv, OpRecs, TreeInv
<1>3. UNCHANGED <<treeVars, pubVars, shared, met>>
  BY DEF WaitPub, Quiet
<1>4. TreeSame /\ \A m \in Names : View(m)
  BY <1>1, <1>3, SameView
<1>5. \A m \in Names : cache'[m] = cache[m] /\ link'[m] = link[m] /\ NodeOf(m)' = NodeOf(m)
  BY <1>4 DEF View, TreeSame
<1>6. RootInv'
  BY <1>1, <1>3 DEF RootInv, pubVars
<1>7. n \in About(p) \ shared => /\ n \in Names /\ op[p].to /= n /\ op[p].kind \in Files
                                 /\ Same(n, Content(p, n)) /\ (op[p].kind = "flush" => want[n] /= Absent)
  BY <1>0, <1>1, <1>2, ReachedNow DEF Reached, AtName, Files
<1>8. CASE Done(p)
  <2>1. Only(p) /\ op'[p].at = "done"
    BY <1>1, <1>8, DropsMoves DEF Done, Places
  <2>2. PubInv'
    BY <1>1, <1>3, <2>1, PubKept
  <2>3. n \in About(p) \ shared => Effect(p)[n] = Content(p, n)
    BY <1>0, <1>1, <1>7, Effects
  <2>4. \A m \in About(p) \ shared : link'[m] = Effect(p)[m] /\ NodeOf(m)' = Effect(p)[m]
    BY <1>1, <1>5, <1>7, <2>3 DEF Same, Files
  <2> QED BY <1>2, <1>3, <1>4, <1>5, <1>6, <1>8, <2>2, <2>4, DoneResult DEF TreeSame
<1>9. CASE GoTo(p, "offer") /\ UNCHANGED want
  <2>1. Only(p) /\ op'[p].at = "offer" /\ op'[p].obj = op[p].obj
    BY <1>1, <1>9, GoToMoves DEF Places
  <2>2. op'[p].kind = op[p].kind /\ op'[p].name = n /\ op'[p].to = op[p].to
    BY <1>0, <2>1 DEF Only
  <2>3. PubInv'
    BY <1>1, <1>3, <2>1, PubKept
  <2>4. TypeInv'
    BY <1>1, <1>2, <1>3, <1>4, <1>9, <2>1, TypesKept DEF TreeSame
  <2>5. ObjInv'
    BY <1>1, <1>5, <2>1, ObjKept
  <2>6. Staged(p)'
    <3>1. op'[p].at \in Stages(op'[p].kind)
      BY <1>1, <2>1, <2>2, Stagings
    <3>2. Staged(p)
      BY <1>1 DEF StageInv
    <3> QED BY <1>0, <1>1, <2>1, <2>2, <3>1, <3>2 DEF Staged
  <2>7. ASSUME n \in About(p) \ shared PROVE Reached(p, n)'
    <3>1. Content(p, n)' = Content(p, n) /\ want' = want
      BY <1>9, <2>2 DEF Content, Base, Old
    <3> QED BY <1>1, <1>5, <1>7, <2>1, <2>2, <2>7, <3>1 DEF Reached, AtName, Same, Files
  <2>8. p \notin met => Brought(p, root.tree)'
    <3>1. p \notin met => Brought(p, root.tree)
      BY <1>1, <1>2 DEF IInv, AloneInv, Alone, Carries
    <3>2. Flushed(p)' = Flushed(p) /\ root' = root /\ link' = link
      BY <1>3, <1>4, <2>1 DEF Only, Flushed, TreeSame, pubVars
    <3> QED BY <3>1, <3>2 DEF Brought
  <2> QED BY <1>1, <1>2, <1>3, <1>4, <1>9, <2>1, <2>3, <2>4, <2>5, <2>6, <2>7, <2>8 DEF Result, Carries, Files
<1> QED BY <1>8, <1>9 DEF WaitPub

LEMMA MvReadResult == ASSUME IInv, NEW p \in Ops, MvRead(p) PROVE Result(p)
<1>0. PICK n, m : n = op[p].name /\ m = op[p].to
  OBVIOUS
<1>1. /\ TypeInv /\ StageInv /\ ObjInv /\ PubInv /\ TreeInv /\ op \in [Ops -> OpRecs] /\ want \in Trees
      /\ n \in Names /\ m \in Names /\ About(p) = {n, m} /\ op[p].kind = "mv" /\ op[p].at = "read"
  BY <1>0, Kinded, Abouts DEF IInv, TypeInv, OpInv, MvRead, At
<1>2. Running(p) /\ op[p].obj \in Nat /\ op[p].obj <= Len(objs) /\ Len(objs) \in Nat
  BY <1>1, LenProperties DEF Running, TypeInv, OpInv, OpRecs, TreeInv
<1>3. \A l \in About(p) \ shared : Same(l, want[l])
  BY <1>0, <1>1, <1>2, ReachedNow DEF Reached, AtName, AtTo
<1>4. UNCHANGED <<shared, met>>
  BY DEF MvRead, Quiet
<1>5. CASE /\ Has(n) /\ Cached(n) /\ UNCHANGED <<link, top, pubVars, want>>
           /\ op' = [op EXCEPT ![p].node = NodeOf(n), ![p].at = "clear"]
  <2>1. /\ TreeInv' /\ link' = link /\ Len(objs') >= Len(objs)
        /\ \A l \in Names : NodeOf(l)' = NodeOf(l) /\ (l /= n => View(l))
        /\ cache' = [cache EXCEPT ![n] = ObjOf(n)] /\ ObjOf(n) \in Nat \ {0} /\ ObjOf(n) <= Len(objs')
    BY <1>1, <1>5, CachedView
  <2>2. PICK c \in SUBSET Ops : c = NodeOf(n)
    BY <1>1, <1>5, NodeTypes
  <2>3. Only(p) /\ op'[p].at = "clear" /\ op'[p].node = c /\ op'[p].obj = op[p].obj
    BY <1>1, <1>5, <2>2, NodeMoves DEF Places
  <2>4. op'[p].kind = "mv" /\ op'[p].name = n /\ op'[p].to = m
    BY <1>0, <1>1, <2>3 DEF Only
  <2>5. PubInv'
    BY <1>1, <1>5, <2>3, PubKept
  <2>6. Len(objs') \in Nat
    BY <2>1, LenProperties DEF TreeInv
  <2>7. TypeInv'
    BY <1>1, <1>2, <1>4, <1>5, <2>1, <2>3, <2>6, TypesKept
  <2>8. ObjInv'
    BY <1>1, <2>1, <2>3, ObjCached
  <2>9. Staged(p)'
    BY <1>1, <2>3, <2>4, Stagings DEF Staged, StageInv, Files
  <2>10. ASSUME NEW l \in About(p), l \notin shared PROVE Reached(p, l)'
    <3>1. Same(l, want[l])' /\ want' = want
      BY <1>1, <1>3, <1>5, <2>1, <2>10 DEF Same
    <3>2. l = n => c = want[n]
      BY <1>3, <2>2, <2>10 DEF Same
    <3> QED BY <2>3, <2>4, <3>1, <3>2 DEF Reached, AtName, AtTo, Files
  <2> QED BY <1>1, <1>2, <1>4, <1>5, <2>1, <2>3, <2>5, <2>7, <2>8, <2>9, <2>10 DEF Result, Carries
<1>6. CASE Fails(p)
  <2>1. Drops(p, "done") /\ UNCHANGED <<treeVars, pubVars, want>>
    BY <1>6 DEF Fails
  <2>2. Only(p) /\ op'[p].at = "done" /\ op'[p].obj = 0
    BY <1>1, <2>1, DropsMoves DEF Places
  <2>3. TreeSame /\ \A l \in Names : View(l)
    BY <1>1, <2>1, SameView
  <2>4. PubInv'
    BY <1>1, <2>1, <2>2, PubKept
  <2>5. TypeInv'
    BY <1>1, <1>2, <1>4, <2>1, <2>2, <2>3, TypesKept DEF TreeSame
  <2>6. ObjInv'
    BY <1>1, <2>1, <2>2, ObjKept DEF treeVars
  <2>7. Staged(p)'
    BY <1>1, <2>2 DEF Only, Staged, StageInv
  <2>8. ASSUME NEW l \in About(p), l \notin shared PROVE Same(l, want[l])'
    BY <1>1, <1>3, <2>1, <2>3, <2>8 DEF Same, TreeSame, View
  <2> QED BY <1>1, <1>2, <1>4, <2>1, <2>2, <2>3, <2>4, <2>5, <2>6, <2>7, <2>8 DEF Result, Carries
<1> QED BY <1>0, <1>5, <1>6 DEF MvRead

LEMMA MvClearResult == ASSUME IInv, NEW p \in Ops, MvClear(p) PROVE Result(p)
<1>0. PICK n, m : n = op[p].name /\ m = op[p].to
  OBVIOUS
<1>1. /\ TypeInv /\ StageInv /\ ObjInv /\ PubInv /\ TreeInv /\ op \in [Ops -> OpRecs] /\ want \in Trees
      /\ n \in Names /\ m \in Names /\ About(p) = {n, m} /\ op[p].kind = "mv" /\ op[p].at = "clear"
  BY <1>0, Kinded, Abouts DEF IInv, TypeInv, OpInv, MvClear, At
<1>2. Running(p) /\ op[p].obj \in Nat /\ op[p].obj <= Len(objs) /\ Len(objs) \in Nat
  BY <1>1, LenProperties DEF Running, TypeInv, OpInv, OpRecs, TreeInv
<1>3. /\ n \notin shared => Same(n, want[n]) /\ op[p].node = want[n]
      /\ m \notin shared => Same(m, want[m])
  BY <1>0, <1>1, <1>2, ReachedNow DEF Reached, AtName, AtTo
<1>4. /\ UNCHANGED <<pubVars, want, shared, met>> /\ GoTo(p, "put")
      /\ IF Has(m) THEN Unlinked(m) ELSE UNCHANGED treeVars
  BY <1>0 DEF MvClear, Quiet
<1>5. /\ TreeInv' /\ Len(objs') = Len(objs)
      /\ \A l \in Names : cache'[l] \in {0, cache[l]} /\ (l /= m => View(l))
      /\ m \notin shared => link'[m] = Absent /\ NodeOf(m)' = Absent
  <2>1. CASE Has(m)
    <3>1. /\ TreeInv' /\ objs' = objs /\ cache' = [cache EXCEPT ![m] = 0]
          /\ link'[m] = Absent /\ NodeOf(m)' = Absent
          /\ \A l \in Names : l /= m => View(l)
      BY <1>1, <1>4, <2>1, UnlinkedView
    <3>2. \A l \in Names : cache'[l] \in {0, cache[l]}
      BY <1>1, <3>1 DEF TreeInv
    <3> QED BY <3>1, <3>2
  <2>2. CASE ~Has(m)
    <3>1. TreeSame /\ \A l \in Names : View(l)
      BY <1>1, <1>4, <2>2, SameView
    <3>2. m \notin shared => want[m] = Absent
      BY <1>1, <1>3, <2>2, HasSame
    <3> QED BY <1>1, <1>3, <3>1, <3>2 DEF TreeSame, View, Same
  <2> QED BY <2>1, <2>2
<1>6. Only(p) /\ op'[p].at = "put" /\ op'[p].node = op[p].node /\ op'[p].obj = op[p].obj
  BY <1>1, <1>4, GoToMoves DEF Places
<1>7. op'[p].kind = "mv" /\ op'[p].name = n /\ op'[p].to = m
  BY <1>0, <1>1, <1>6 DEF Only
<1>8. PubInv'
  BY <1>1, <1>4, <1>6, PubKept
<1>9. TypeInv'
  BY <1>1, <1>2, <1>4, <1>5, <1>6, TypesKept
<1>10. ObjInv'
  BY <1>1, <1>5, <1>6, ObjKept
<1>11. Staged(p)'
  BY <1>1, <1>6, <1>7, Stagings DEF Staged, StageInv, Files
<1>12. ASSUME n \notin shared PROVE AtName(p, n)'
  <2>1. n /= m => link'[n] = want[n] /\ NodeOf(n)' = want[n]
    BY <1>1, <1>3, <1>5, <1>12 DEF Same, View
  <2> QED BY <1>3, <1>4, <1>6, <1>7, <1>12, <2>1 DEF AtName, Same, Files
<1>13. ASSUME m \notin shared PROVE AtTo(p, m)'
  BY <1>5, <1>6, <1>13 DEF AtTo, Same
<1>14. \A l \in About(p) \ shared : Reached(p, l)'
  BY <1>1, <1>7, <1>12, <1>13 DEF Reached
<1> QED BY <1>1, <1>2, <1>4, <1>5, <1>6, <1>8, <1>9, <1>10, <1>11, <1>14 DEF Result, Carries

LEMMA MvAddResult == ASSUME IInv, NEW p \in Ops, MvAdd(p) PROVE Result(p)
<1>0. PICK n, m : n = op[p].name /\ m = op[p].to
  OBVIOUS
<1>1. /\ TypeInv /\ StageInv /\ ObjInv /\ PubInv /\ TreeInv /\ op \in [Ops -> OpRecs] /\ want \in Trees
      /\ n \in Names /\ m \in Names /\ About(p) = {n, m} /\ op[p].kind = "mv" /\ op[p].at = "put"
  BY <1>0, Kinded, Abouts DEF IInv, TypeInv, OpInv, MvAdd, At
<1>2. /\ Running(p) /\ op[p].obj \in Nat /\ op[p].obj <= Len(objs) /\ Len(objs) \in Nat
      /\ op[p].node \in SUBSET Ops /\ op[p].node \in Contents
  BY <1>1, LenProperties DEF Running, TypeInv, OpInv, OpRecs, TreeInv, Contents
<1>3. /\ n \notin shared => (n /= m => Same(n, want[n])) /\ op[p].node = want[n]
      /\ m \notin shared => Same(m, Absent)
  BY <1>0, <1>1, <1>2, ReachedNow DEF Reached, AtName, AtTo
<1>4. UNCHANGED <<shared, met>>
  BY DEF MvAdd, Quiet
<1>5. CASE ~Has(m) /\ Linked(m, op[p].node) /\ GoTo(p, "drop") /\ UNCHANGED <<pubVars, want>>
  <2>1. cache[m] = 0 /\ UNCHANGED <<top, cache, objs>> /\ link' = [link EXCEPT ![m] = op[p].node]
    BY <1>5 DEF Has, Linked
  <2>2. /\ TreeInv' /\ link'[m] = op[p].node /\ NodeOf(m)' = op[p].node
        /\ \A l \in Names : l /= m => View(l)
    BY <1>1, <1>2, <2>1, LinkedView
  <2>3. Only(p) /\ op'[p].at = "drop" /\ op'[p].node = op[p].node /\ op'[p].obj = op[p].obj
    BY <1>1, <1>5, GoToMoves DEF Places
  <2>4. op'[p].kind = "mv" /\ op'[p].name = n /\ op'[p].to = m
    BY <1>0, <1>1, <2>3 DEF Only
  <2>5. PubInv'
    BY <1>1, <1>5, <2>3, PubKept
  <2>6. TypeInv'
    BY <1>1, <1>2, <1>4, <1>5, <2>1, <2>2, <2>3, TypesKept
  <2>7. ObjInv'
    BY <1>1, <2>1, <2>3, ObjKept
  <2>8. Staged(p)'
    BY <1>1, <2>3, <2>4, Stagings DEF Staged, StageInv, Files
  <2>9. ASSUME n \notin shared PROVE AtName(p, n)'
    <3>1. n /= m => link'[n] = want[n] /\ NodeOf(n)' = want[n]
      BY <1>1, <1>3, <2>2, <2>9 DEF Same, View
    <3> QED BY <1>3, <1>5, <2>3, <2>4, <2>9, <3>1 DEF AtName, Same, Files
  <2>10. AtTo(p, m)'
    BY <2>2, <2>3 DEF AtTo, Same
  <2>11. \A l \in About(p) \ shared : Reached(p, l)'
    BY <1>1, <2>4, <2>9, <2>10 DEF Reached
  <2> QED BY <1>1, <1>2, <1>4, <1>5, <2>1, <2>2, <2>3, <2>5, <2>6, <2>7, <2>8, <2>11 DEF Result, Carries
<1>6. CASE Has(m) /\ Exists(p, m)
  <2>1. Cached(m) /\ Drops(p, "done") /\ UNCHANGED <<link, top, pubVars, want>>
    BY <1>6 DEF Exists
  <2>2. /\ TreeInv' /\ link' = link /\ Len(objs') >= Len(objs)
        /\ \A l \in Names : NodeOf(l)' = NodeOf(l) /\ (l /= m => View(l))
        /\ cache' = [cache EXCEPT ![m] = ObjOf(m)] /\ ObjOf(m) \in Nat \ {0} /\ ObjOf(m) <= Len(objs')
    BY <1>1, <1>6, <2>1, CachedView
  <2>3. Only(p) /\ op'[p].at = "done" /\ op'[p].obj = 0
    BY <1>1, <2>1, DropsMoves DEF Places
  <2>4. PubInv'
    BY <1>1, <2>1, <2>3, PubKept
  <2>5. Len(objs') \in Nat
    BY <2>2, LenProperties DEF TreeInv
  <2>6. TypeInv'
    BY <1>1, <1>4, <2>1, <2>2, <2>3, <2>5, TypesKept
  <2>7. ObjInv'
    BY <1>1, <2>2, <2>3, ObjCached
  <2>8. Staged(p)'
    BY <1>1, <2>3 DEF Only, Staged, StageInv
  <2>9. m \in shared
    BY <1>1, <1>3, <1>6, HasSame
  <2>10. ASSUME NEW l \in About(p), l \notin shared PROVE Same(l, want[l])'
    <3>1. l = n /\ n /= m
      BY <1>1, <2>9, <2>10
    <3> QED BY <1>1, <1>3, <2>1, <2>2, <2>10, <3>1 DEF Same
  <2> QED BY <1>1, <1>2, <1>4, <2>1, <2>2, <2>3, <2>4, <2>6, <2>7, <2>8, <2>10 DEF Result, Carries
<1> QED BY <1>0, <1>5, <1>6 DEF MvAdd

LEMMA MvRemoveResult == ASSUME IInv, NEW p \in Ops, MvRemove(p) PROVE Result(p)
<1>0. PICK n, m : n = op[p].name /\ m = op[p].to
  OBVIOUS
<1>1. /\ TypeInv /\ StageInv /\ PubInv /\ TreeInv /\ RootInv /\ op \in [Ops -> OpRecs]
      /\ n \in Names /\ m \in Names /\ About(p) = {n, m} /\ op[p].kind = "mv" /\ op[p].at = "drop"
  BY <1>0, Kinded, Abouts DEF IInv, TypeInv, OpInv, MvRemove, At
<1>2. Running(p)
  BY <1>1 DEF Running
<1>3. /\ n \notin shared => op[p].node = want[n]
      /\ m \notin shared => Same(m, op[p].node)
      /\ n \in shared => m \in shared
  BY <1>0, <1>1, <1>2, ReachedNow DEF Reached, AtName, AtTo
<1>4. Unlinked(n) /\ Done(p) /\ UNCHANGED <<pubVars, shared, met>>
  BY <1>0 DEF MvRemove, Quiet
<1>5. /\ TreeInv' /\ objs' = objs /\ cache' = [cache EXCEPT ![n] = 0]
      /\ link'[n] = Absent /\ NodeOf(n)' = Absent
      /\ \A l \in Names : l /= n => View(l)
  BY <1>1, <1>4, UnlinkedView
<1>6. \A l \in Names : cache'[l] \in {0, cache[l]}
  BY <1>1, <1>5 DEF TreeInv
<1>7. Only(p) /\ op'[p].at = "done"
  BY <1>1, <1>4, DropsMoves DEF Done, Places
<1>8. PubInv'
  BY <1>1, <1>4, <1>7, PubKept
<1>9. RootInv'
  BY <1>1, <1>4 DEF RootInv, pubVars
<1>10. Effect(p)[n] = Absent /\ (n /= m => Effect(p)[m] = want[n])
  BY <1>0, <1>1, Effects
<1>11. ASSUME m /= n, m \notin shared PROVE link'[m] = want[n] /\ NodeOf(m)' = want[n]
  BY <1>1, <1>3, <1>5, <1>11 DEF Same, View
<1>12. \A l \in About(p) \ shared : link'[l] = Effect(p)[l] /\ NodeOf(l)' = Effect(p)[l]
  BY <1>1, <1>5, <1>10, <1>11
<1> QED BY <1>1, <1>2, <1>4, <1>5, <1>6, <1>8, <1>9, <1>12, DoneResult
-----------------------------------------------------------------------------
(***************************************************************************)
(* Steps of Run, and the start of a command.                               *)
(***************************************************************************)
LEMMA OfferResult == ASSUME IInv, NEW p \in Ops, TakeOffer(p) PROVE Result(p)
<1>0. PICK n : n = op[p].name
  OBVIOUS
<1>1. /\ TypeInv /\ StageInv /\ ObjInv /\ PubInv /\ TreeInv /\ RootInv /\ op \in [Ops -> OpRecs] /\ want \in Trees
      /\ op[p].kind \in {"cp", "flush", "flushall"} /\ op[p].at = "offer"
      /\ op[p].kind \in Files => n \in Names /\ op[p].to /= n /\ About(p) = {n}
      /\ op[p].kind = "flushall" => About(p) = {}
  BY <1>0, Kinded, Abouts DEF IInv, TypeInv, OpInv, TakeOffer, At, Files
<1>2. Running(p) /\ op[p].obj \in Nat /\ op[p].obj <= Len(objs) /\ Len(objs) \in Nat
  BY <1>1, LenProperties DEF Running, TypeInv, OpInv, OpRecs, TreeInv
<1>3. /\ pub.st = "waiting" /\ GoTo(p, "answer")
      /\ pub' = [st |-> "publishing", who |-> p, tree |-> root.tree, num |-> root.num]
      /\ UNCHANGED <<treeVars, root, lastpub, stored, token, want, shared, met>>
  BY DEF TakeOffer, Publishing, history
<1>4. TreeSame /\ \A m \in Names : View(m)
  BY <1>1, <1>3, SameView
<1>5. \A m \in Names : cache'[m] = cache[m] /\ link'[m] = link[m] /\ NodeOf(m)' = NodeOf(m)
  BY <1>4 DEF View, TreeSame
<1>6. root.tree \in Trees /\ root.num \in Nat
  BY <1>1 DEF RootInv
<1>7. RootInv'
  BY <1>1, <1>3, <1>6 DEF RootInv, Pubs
<1>8. n \in About(p) \ shared => /\ n \in Names /\ op[p].to /= n /\ op[p].kind \in Files
                                 /\ Same(n, Content(p, n)) /\ (op[p].kind = "flush" => want[n] /= Absent)
  BY <1>0, <1>1, <1>2, ReachedNow DEF Reached, AtName, Files
<1>9. Only(p) /\ op'[p].at = "answer" /\ op'[p].obj = op[p].obj
  BY <1>1, <1>3, GoToMoves DEF Places
<1>10. op'[p].kind = op[p].kind /\ op'[p].name = n /\ op'[p].to = op[p].to
  BY <1>0, <1>9 DEF Only
<1>11. PubInv'
  <2>1. pub.who = None /\ \A q \in Ops : op[q].at /= "answer"
    BY <1>1, <1>3, Trees0 DEF PubInv
  <2>2. \A q \in Ops : op'[q].at = "answer" <=> q = p
    BY <1>9, <2>1 DEF Only
  <2> QED BY <1>1, <1>3, <1>6, <2>2 DEF PubInv
<1>12. TypeInv'
  BY <1>1, <1>2, <1>3, <1>4, <1>7, <1>9, TypesMoved DEF TreeSame
<1>13. ObjInv'
  BY <1>1, <1>5, <1>9, ObjKept
<1>14. Staged(p)'
  <2>1. op'[p].at \in Stages(op'[p].kind)
    BY <1>1, <1>9, <1>10, Stagings
  <2>2. Staged(p)
    BY <1>1 DEF StageInv
  <2> QED BY <1>0, <1>1, <1>9, <1>10, <2>1, <2>2 DEF Staged
<1>15. ASSUME n \in About(p) \ shared PROVE Reached(p, n)'
  <2>1. Content(p, n)' = Content(p, n) /\ want' = want
    BY <1>3, <1>10 DEF Content, Base, Old
  <2> QED BY <1>1, <1>5, <1>8, <1>9, <1>10, <1>15, <2>1 DEF Reached, AtName, Same, Files
<1>16. p \notin met => Brought(p, root.tree)' /\ Brought(p, pub.tree)'
  <2>1. p \notin met => Brought(p, root.tree)
    BY <1>1, <1>2 DEF IInv, AloneInv, Alone, Carries
  <2>2. Flushed(p)' = Flushed(p) /\ root' = root /\ link' = link /\ pub'.tree = root.tree
    BY <1>3, <1>4, <1>9 DEF Only, Flushed, TreeSame
  <2> QED BY <2>1, <2>2 DEF Brought
<1> QED BY <1>1, <1>2, <1>3, <1>4, <1>9, <1>11, <1>12, <1>13, <1>14, <1>15, <1>16 DEF Result, Carries, Files

LEMMA PublishedResult == ASSUME IInv, Published, NEW p \in Ops, pub.who = p PROVE Result(p)
<1>0. PICK n : n = op[p].name
  OBVIOUS
<1>1. /\ TypeInv /\ StageInv /\ PubInv /\ TreeInv /\ RootInv /\ op \in [Ops -> OpRecs]
      /\ op[p].kind \in {"cp", "flush", "flushall"} /\ op[p].at = "answer"
      /\ op[p].kind \in Files => n \in Names /\ op[p].to /= n /\ About(p) = {n}
      /\ op[p].kind = "flushall" => About(p) = {}
  BY <1>0, Kinded, Abouts DEF IInv, TypeInv, OpInv, PubInv, Files
<1>2. Running(p)
  BY <1>1 DEF Running
<1>3. /\ pub.st = "publishing" /\ stored' = pub.tree /\ lastpub' = pub.num /\ pub' = NoPub /\ Done(p)
      /\ UNCHANGED <<treeVars, root, token, shared, met>>
  BY Trees0 DEF Published, Quiet
<1>4. TreeSame /\ \A m \in Names : View(m)
  BY <1>1, <1>3, SameView
<1>5. \A m \in Names : cache'[m] = cache[m] /\ link'[m] = link[m] /\ NodeOf(m)' = NodeOf(m)
  BY <1>4 DEF View, TreeSame
<1>6. NoPub \in Pubs /\ NoPub.st = "idle" /\ NoPub.who = None
  BY DEF NoPub, Pubs, NoTree, Trees
<1>7. RootInv'
  BY <1>1, <1>3, <1>6 DEF RootInv, Pubs
<1>8. Only(p) /\ op'[p].at = "done"
  BY <1>1, <1>3, DropsMoves DEF Done, Places
<1>9. PubInv'
  <2>1. \A q \in Ops : op'[q].at /= "answer"
    BY <1>1, <1>8 DEF PubInv, Only
  <2> QED BY <1>1, <1>3, <1>6, <2>1, Trees0 DEF PubInv
<1>10. n \in About(p) \ shared => /\ op[p].kind \in Files
                                  /\ Same(n, Content(p, n)) /\ (op[p].kind = "flush" => want[n] /= Absent)
  BY <1>0, <1>1, <1>2, ReachedNow DEF Reached, AtName, Files
<1>11. n \in About(p) \ shared => Effect(p)[n] = Content(p, n)
  BY <1>0, <1>1, <1>10, Effects
<1>12. \A m \in About(p) \ shared : link'[m] = Effect(p)[m] /\ NodeOf(m)' = Effect(p)[m]
  BY <1>1, <1>5, <1>10, <1>11 DEF Same, Files
<1> QED BY <1>2, <1>3, <1>4, <1>5, <1>7, <1>9, <1>12, DoneResult DEF TreeSame

\* A step of Run that answers nobody.
LEMMA RestInv ==
  ASSUME IInv, UNCHANGED <<treeVars, op, root, history>>, RootInv', PubInv',
         UNCHANGED pub \/ \A p \in Ops : op[p].at /= "answer"
  PROVE  IInv'
<1> USE DEF IInv
<1>1. UNCHANGED <<link, top, cache, objs, op, root, want, shared, met>>
  BY DEF treeVars, history
<1>2. TypeInv' /\ StageInv' /\ ObjInv' /\ ShareInv'
  BY <1>1 DEF TypeInv, TreeInv, OpInv, StageInv, Staged, ObjInv, ShareInv, Running, About
<1>3. NameInv'
  <2>1. link' = link /\ (\A n \in Names : NodeOf(n)' = NodeOf(n)) /\ \A n \in Names : Still(n)' <=> Still(n)
    BY <1>1 DEF NodeOf, Still, Running, About
  <2>2. ASSUME NEW p \in Ops, NEW n \in Names, Reached(p, n) PROVE Reached(p, n)'
    BY <1>1, <2>1, <2>2 DEF Reached, AtName, AtTo, Same, Base, Content, Old
  <2> QED BY <1>1, <2>1, <2>2 DEF NameInv, Same, Running
<1>4. AloneInv'
  BY <1>1 DEF AloneInv, Alone, Carries, Brought, Flushed, Running
<1> QED BY <1>2, <1>3, <1>4

\* A command starts.
LEMMA StartTypes ==
  ASSUME IInv, NEW p \in Ops, Start(p)
  PROVE  /\ TypeInv' /\ StageInv' /\ ObjInv' /\ PubInv'
         /\ Only(p) /\ op[p].at = "new" /\ ~Running(p) /\ op'[p].at \in {"look", "add", "read", "node"}
         /\ op'[p].at = "add" => op[p].kind = "cp"
         /\ op'[p].at = "read" <=> op[p].kind = "mv"
         /\ op'[p].at = "node" => op[p].kind = "flushall"
<1>1. /\ TypeInv /\ StageInv /\ ObjInv /\ PubInv /\ op \in [Ops -> OpRecs]
      /\ op[p].kind \in Kinds /\ op[p].kind /= "never" /\ op[p].at = "new"
  BY Kinded DEF IInv, TypeInv, OpInv, Start, At
<1>2. /\ UNCHANGED <<treeVars, pubVars, want>> /\ GoTo(p, First(op[p].kind)) /\ Meets(p)
  BY DEF Start
<1>3. PICK a \in Places : /\ a = First(op[p].kind) /\ a \in {"look", "add", "read", "node"} /\ a \in Stages(op[p].kind)
                          /\ a = "add" => op[p].kind = "cp"
                          /\ a = "read" <=> op[p].kind = "mv"
                          /\ a = "node" => op[p].kind = "flushall"
  BY <1>1, Stagings DEF First, Kinds, Places
<1>4. Only(p) /\ op'[p].at = a /\ op'[p].obj = op[p].obj
  BY <1>1, <1>2, <1>3, GoToMoves
<1>5. TreeSame /\ objs' = objs /\ cache' = cache
  BY <1>1, <1>2, SameView DEF TypeInv, treeVars
<1>6. OpInv'
  BY <1>1, <1>4, <1>5 DEF OpInv, TypeInv, Only
<1>7. shared' \subseteq Names /\ met' \subseteq Ops
  BY <1>1, <1>2 DEF Meets, About, TypeInv
<1>8. TypeInv'
  BY <1>1, <1>2, <1>5, <1>6, <1>7 DEF TypeInv, TreeSame, RootInv, pubVars
<1>9. StageInv'
  <2>1. ASSUME NEW q \in Ops PROVE Staged(q)'
    <3>1. Staged(q)
      BY <1>1 DEF StageInv
    <3>2. CASE q = p
      BY <1>3, <1>4, <3>1, <3>2 DEF Only, Staged
    <3>3. CASE q /= p
      BY <1>4, <3>1, <3>3 DEF Only, Staged
    <3> QED BY <3>2, <3>3
  <2> QED BY <2>1 DEF StageInv
<1>10. ObjInv'
  BY <1>1, <1>4, <1>5, ObjKept
<1>11. PubInv'
  BY <1>1, <1>2, <1>3, <1>4, PubKept
<1>12. ~Running(p)
  BY <1>1 DEF Running
<1> QED BY <1>1, <1>3, <1>4, <1>8, <1>9, <1>10, <1>11, <1>12

LEMMA StartInv ==
  ASSUME IInv, NEW p \in Ops, Start(p)
  PROVE  IInv'
<1>1. /\ TypeInv' /\ StageInv' /\ ObjInv' /\ PubInv'
      /\ Only(p) /\ op[p].at = "new" /\ ~Running(p) /\ op'[p].at \in {"look", "add", "read", "node"}
      /\ op'[p].at = "add" => op[p].kind = "cp"
      /\ op'[p].at = "read" <=> op[p].kind = "mv"
      /\ op'[p].at = "node" => op[p].kind = "flushall"
  BY StartTypes
<1>2. /\ TypeInv /\ StageInv /\ ShareInv /\ NameInv /\ AloneInv /\ shared \subseteq Names
      /\ UNCHANGED <<treeVars, pubVars, want>>
  BY DEF IInv, TypeInv, Start
<1> DEFINE on == {q \in Ops : Running(q) /\ About(q) \cap About(p) /= {}}
<1>3. /\ met' = IF \E q \in Ops : Running(q) THEN met \cup {p} \cup {q \in Ops : Running(q)} ELSE met
      /\ shared' = shared \cup (IF on = {} /\ op[p].name \notin shared THEN {}
                                ELSE About(p) \cup UNION {About(q) : q \in on})
  BY DEF Start, Meets
<1>4. ASSUME NEW q \in Ops
      PROVE  /\ (About(q))' = About(q) /\ op'[q].name = op[q].name
             /\ q /= p => op'[q] = op[q] /\ (Running(q)' <=> Running(q))
  <2>1. op'[q].name = op[q].name /\ op'[q].to = op[q].to /\ (q /= p => op'[q] = op[q])
    BY <1>1 DEF Only
  <2> QED BY <2>1 DEF About, Running
<1>5. Running(p)'
  BY <1>1 DEF Running
<1>6. /\ shared \subseteq shared'
      /\ \A q \in Ops : Running(q) /\ About(q) \cap About(p) /= {} => About(p) \cup About(q) \subseteq shared'
      /\ op[p].name \in shared => About(p) \subseteq shared'
      /\ \A n \in shared' : n \in shared \/ n \in About(p) \/ \E q \in Ops : Running(q) /\ About(q) \cap About(p) /= {} /\ n \in About(q)
      /\ \A n \in shared' : n \notin shared => About(p) \subseteq shared'
  BY <1>3
<1> HIDE DEF on
<1>7. ShareInv'
  <2>1. ASSUME NEW q \in Ops, NEW r \in Ops, q /= r, Running(q)', Running(r)'
        PROVE  About(q) \cap About(r) \subseteq shared'
    <3>1. CASE q /= p /\ r /= p
      BY <1>2, <1>4, <1>6, <2>1, <3>1 DEF ShareInv
    <3>2. CASE q = p \/ r = p
      BY <1>4, <1>6, <2>1, <3>2
    <3> QED BY <3>1, <3>2
  <2>2. ASSUME NEW q \in Ops, Running(q)', op[q].name \in shared'
        PROVE  About(q) \subseteq shared'
    <3>1. CASE q = p
      BY <1>6, <2>2, <3>1
    <3>2. CASE q /= p /\ op[q].name \in shared
      BY <1>2, <1>4, <1>6, <2>2, <3>2 DEF ShareInv
    <3>3. CASE q /= p /\ op[q].name \notin shared
      <4>1. Running(q) /\ op[q].name \in About(q)
        <5>1. op[q].name \in Names
          BY <1>1, <2>2 DEF TypeInv
        <5> QED BY <1>4, <2>2, <3>3, <5>1 DEF About
      <4>2. CASE op[q].name \in About(p)
        BY <1>6, <4>1, <4>2
      <4>3. CASE \E r \in Ops : Running(r) /\ About(r) \cap About(p) /= {} /\ op[q].name \in About(r)
        <5>1. PICK r \in Ops : Running(r) /\ About(r) \cap About(p) /= {} /\ op[q].name \in About(r)
          BY <4>3
        <5>2. r = q
          BY <1>2, <3>3, <4>1, <5>1 DEF ShareInv
        <5> QED BY <1>6, <5>1, <5>2
      <4> QED BY <1>6, <2>2, <3>3, <4>2, <4>3
    <3> QED BY <3>1, <3>2, <3>3
  <2> QED BY <1>4, <2>1, <2>2 DEF ShareInv
<1>8. TreeInv /\ \A n \in Names : View(n)
  BY <1>2, SameView DEF TypeInv
<1>9. NameInv'
  <2> SUFFICES ASSUME NEW n \in Names, n \notin shared'
               PROVE  /\ \A r \in Ops : Running(r)' => Reached(r, n)'
                      /\ Still(n)' => Same(n, want[n])'
    BY DEF NameInv
  <2>1. /\ \A r \in Ops : Running(r) => Reached(r, n)
        /\ Still(n) => Same(n, want[n])
    BY <1>2, <1>6 DEF NameInv
  <2>2. View(n) /\ want' = want
    BY <1>2, <1>8
  <2>3. Still(n) => Same(n, want[n])'
    BY <2>1, <2>2 DEF Same, View
  <2>4. n \in About(p) => Still(n)
    BY <1>6 DEF Still
  <2>5. Still(n)' => Still(n)
    BY <1>1, <1>4 DEF Still
  <2>6. ASSUME NEW r \in Ops, Running(r)' PROVE Reached(r, n)'
    <3>1. CASE r = p
      <4>1. CASE n \notin About(p)
        BY <1>1, <3>1, <4>1 DEF Only, Reached, About
      <4>2. CASE n \in About(p)
        <5>1. Same(n, want[n])'
          BY <2>3, <2>4, <4>2
        <5>2. op'[p].kind = op[p].kind /\ op'[p].at = "node" => op[p].kind = "flushall"
          BY <1>1
        <5>3. op[p].kind /= "flushall"
          BY <1>2, <4>2, Abouts
        <5>4. op'[p].kind = op[p].kind /\ op'[p].at \in {"look", "add", "read"}
          BY <1>1, <5>3 DEF Only
        <5>5. op[p].kind = "flush" => op'[p].at = "look"
          BY <1>1, <5>4
        <5> QED BY <3>1, <5>1, <5>4, <5>5 DEF Reached, AtName, AtTo
      <4> QED BY <4>1, <4>2
    <3>2. CASE r /= p
      <4>1. op'[r] = op[r] /\ Running(r)
        BY <1>4, <2>6, <3>2
      <4> QED BY <1>2, <2>1, <2>2, <4>1, ReachedKept
    <3> QED BY <3>1, <3>2
  <2> QED BY <2>3, <2>5, <2>6
<1>10. AloneInv'
  <2> SUFFICES ASSUME NEW q \in Ops, q \notin met', Running(q)' PROVE Alone(q)'
    BY DEF AloneInv
  <2>1. \A r \in Ops : ~Running(r)
    BY <1>3, <1>4
  <2>2. q = p /\ \A r \in Ops : Running(r)' => r = p
    BY <1>4, <2>1
  <2> QED BY <1>1, <2>2 DEF Alone, Carries
<1> QED BY <1>1, <1>7, <1>9, <1>10 DEF IInv
-----------------------------------------------------------------------------
(***************************************************************************)
(* The theorems.                                                           *)
(***************************************************************************)
LEMMA InitInv == ASSUME Init PROVE IInv
<1> DEFINE t == [n \in Names |-> IF n \in Present THEN {} ELSE Absent]
<1>1. /\ link = t /\ top = t /\ cache = [n \in Names |-> 0] /\ objs = <<>>
      /\ root = [tree |-> t, num |-> 1] /\ lastpub = 0 /\ stored = t /\ want = t
      /\ token = FALSE /\ pub = NoPub /\ shared = {} /\ met = {}
  BY DEF Init
<1>2. PICK c \in Plans : op = [p \in Ops |-> Fresh(c[p], "new")]
  BY DEF Init
<1>3. t \in Trees
  BY Trees0 DEF Trees, Contents
<1> HIDE DEF t
<1>5. link = t
  BY <1>1
<1>6. \A n \in Names : NodeOf(n) = t[n]
  BY <1>1, <1>5 DEF NodeOf
<1>7. NoPub \in Pubs /\ NoPub.st = "idle" /\ NoPub.who = None /\ NoTree \in Trees
  BY DEF NoPub, Pubs, NoTree, Trees
<1>8. ASSUME NEW p \in Ops
      PROVE  /\ op[p] \in OpRecs /\ op[p].at = "new" /\ op[p].obj = 0
             /\ op[p].name \in Names <=> op[p].kind \notin {"flushall", "never"}
             /\ op[p].to \in Names <=> op[p].kind = "mv"
  <2>1. c[p] \in Commands
    BY <1>2, MfsAssumption
  <2>2. op[p] = Fresh(c[p], "new")
    BY <1>2
  <2>3. /\ op[p].kind = c[p].kind /\ op[p].name = c[p].name /\ op[p].to = c[p].to
        /\ op[p].at = "new" /\ op[p].obj = 0
    BY <2>2 DEF Fresh
  <2>4. /\ c[p].kind \in Kinds /\ c[p].name \in Names \cup {None} /\ c[p].to \in Names \cup {None}
        /\ c[p].name \in Names <=> c[p].kind \notin {"flushall", "never"}
        /\ c[p].to \in Names <=> c[p].kind = "mv"
    BY <2>1, Trees0 DEF Commands, Kinds
  <2>5. op[p] \in OpRecs
    BY <1>7, <2>2, <2>4 DEF Fresh, OpRecs, Places
  <2> QED BY <2>3, <2>4, <2>5
<1>9. TreeInv
  <2>1. objs \in Seq(Objs) /\ Len(objs) = 0
    BY <1>1
  <2> QED BY <1>1, <1>3, <2>1 DEF TreeInv
<1>10. OpInv
  <2>1. Len(objs) = 0 /\ op \in [Ops -> OpRecs]
    BY <1>1, <1>2, <1>8
  <2> QED BY <1>8, <2>1 DEF OpInv
<1>11. TypeInv
  BY <1>1, <1>3, <1>7, <1>9, <1>10 DEF TypeInv, RootInv
<1>12. StageInv
  BY <1>8 DEF StageInv, Staged
<1>13. \A p \in Ops : ~Running(p)
  BY <1>8 DEF Running
<1>14. ObjInv
  BY <1>1 DEF ObjInv
<1>15. ShareInv /\ AloneInv
  BY <1>13 DEF ShareInv, AloneInv
<1>16. NameInv
  BY <1>1, <1>5, <1>6, <1>13 DEF NameInv, Same
<1>17. PubInv
  BY <1>1, <1>7, <1>8, Trees0 DEF PubInv
<1> QED BY <1>11, <1>12, <1>14, <1>15, <1>16, <1>17 DEF IInv

LEMMA StepResult == ASSUME IInv, NEW p \in Ops, Step(p) PROVE Result(p)
BY LookResult, AddResult, OpenResult, LockResult, FlushUpResult, CloseChildResult, CloseTopResult, UpdateResult,
   UnlockResult, UnlinkResult, GetNodeResult, SyncDirResult, SyncEndResult, MvReadResult, MvClearResult, MvAddResult, MvRemoveResult, WaitPubResult DEF Step

\* Who answers nobody is idle, waiting or has no one.
LEMMA RunInv == ASSUME IInv, TakeToken \/ TimerFires \/ (Published /\ pub.who = None) PROVE IInv'
<1>1. /\ PubInv /\ RootInv /\ pub.who = None /\ \A p \in Ops : op[p].at /= "answer"
  <2>1. PubInv /\ RootInv
    BY DEF IInv, TypeInv
  <2>2. pub.who = None
    BY <2>1 DEF PubInv, TakeToken, TimerFires
  <2> QED BY <2>1, <2>2, Trees0 DEF PubInv
<1>2. root.tree \in Trees /\ root.num \in Nat /\ pub.tree \in Trees /\ pub.num \in Nat /\ pub \in Pubs
  BY <1>1 DEF RootInv, Pubs
<1>3. CASE TakeToken
  <2>1. /\ pub' = [pub EXCEPT !.st = "waiting"] /\ token' = FALSE
        /\ UNCHANGED <<treeVars, op, root, lastpub, stored, history>>
    BY <1>3 DEF TakeToken
  <2>2. pub' \in Pubs /\ pub'.st = "waiting" /\ pub'.who = None
    BY <1>1, <1>2, <2>1 DEF Pubs
  <2>3. RootInv' /\ PubInv'
    BY <1>1, <2>1, <2>2, Trees0 DEF RootInv, PubInv
  <2> QED BY <1>1, <2>1, <2>3, RestInv
<1>4. CASE TimerFires
  <2>1. /\ pub' = [st |-> "publishing", who |-> None, tree |-> root.tree, num |-> root.num]
        /\ UNCHANGED <<treeVars, op, root, lastpub, stored, token, history>>
    BY <1>4 DEF TimerFires, Publishing
  <2>2. RootInv' /\ PubInv'
    BY <1>1, <1>2, <2>1, Trees0 DEF RootInv, PubInv, Pubs
  <2> QED BY <1>1, <2>1, <2>2, RestInv
<1>5. CASE Published /\ pub.who = None
  <2>1. /\ stored' = pub.tree /\ lastpub' = pub.num /\ pub' = NoPub /\ pub.st = "publishing"
        /\ UNCHANGED <<treeVars, op, root, token, history>>
    BY <1>5 DEF Published, Quiet, history
  <2>2. NoPub \in Pubs /\ NoPub.st = "idle" /\ NoPub.who = None
    BY DEF NoPub, Pubs, NoTree, Trees
  <2>3. RootInv' /\ PubInv'
    BY <1>1, <1>2, <2>1, <2>2, Trees0 DEF RootInv, PubInv
  <2> QED BY <1>1, <2>1, <2>3, RestInv
<1> QED BY <1>3, <1>4, <1>5

\* A step of the system: one that answers nobody, or one of one command.
LEMMA Steps ==
  ASSUME IInv, Next
  PROVE  \/ TakeToken \/ TimerFires \/ (Published /\ pub.who = None)
         \/ \E p \in Ops : Start(p) \/ Step(p) \/ TakeOffer(p) \/ (Published /\ pub.who = p)
<1>1. pub.who \in Ops \cup {None}
  BY DEF IInv, TypeInv, RootInv, Pubs
<1> QED BY <1>1 DEF Next, Run

LEMMA NextInv == ASSUME IInv, [Next]_vars PROVE IInv'
<1>1. CASE Next
  <2>1. ASSUME NEW p \in Ops, Step(p) \/ TakeOffer(p) \/ (Published /\ pub.who = p) PROVE IInv'
    <3>1. Result(p)
      BY <2>1, StepResult, OfferResult, PublishedResult
    <3> QED BY <3>1, ResultInv
  <2> QED BY <1>1, <2>1, Steps, RunInv, StartInv
<1>2. CASE UNCHANGED vars
  <2>1. UNCHANGED <<treeVars, op, pubVars, history>> /\ UNCHANGED pub
    BY <1>2 DEF vars, pubVars
  <2>2. RootInv' /\ PubInv'
    BY <2>1 DEF IInv, TypeInv, RootInv, PubInv, pubVars
  <2> QED BY <2>1, <2>2, RestInv DEF pubVars
<1> QED BY <1>1, <1>2

\* The types, where each command is, and what it has made of the names that
\* are its own, hold from the first command on (mfs/dir.go, mfs/file.go,
\* mfs/fd.go, mfs/system.go, core/commands/files/files.go).
THEOREM Invariant == Spec => []IInv
<1>1. Init => IInv
  BY InitInv
<1>2. IInv /\ [Next]_vars => IInv'
  BY NextInv
<1> QED BY <1>1, <1>2, PTL DEF Spec

\* A name that no two commands share has the content that running them one by
\* one gives it, in its directory and in its cached File.
THEOREM NamesApartAlways == Spec => []NamesApart
<1>1. IInv => NamesApart
  BY DEF IInv, NameInv, NamesApart, Same
<1> QED BY <1>1, Invariant, PTL

\* A flush that ran alone returns only when the datastore has what it flushes:
\* the directory of the file, or every directory.
THEOREM FlushAloneHeals == Spec => FlushHeals
<1> DEFINE Heals == \A p \in Ops \ met : op[p].at \in {"wait", "answer"} /\ op'[p].at = "done" => \A n \in Flushed(p) : stored'[n] = link[n]
<1>1. ASSUME IInv, [Next]_vars PROVE [Heals]_vars
  <2> SUFFICES ASSUME Next, NEW p \in Ops, p \notin met, op[p].at \in {"wait", "answer"}, op'[p].at = "done"
               PROVE  \A n \in Flushed(p) : stored'[n] = link[n]
    BY <1>1
  <2>1. op'[p] /= op[p] /\ Running(p)
    BY DEF Running
  <2>2. PubInv /\ Alone(p) /\ op \in [Ops -> OpRecs]
    BY <1>1, <2>1 DEF IInv, AloneInv, TypeInv, OpInv
  <2>3. Brought(p, root.tree) /\ (op[p].at = "answer" => Brought(p, pub.tree))
    <3>1. op[p].kind \in {"cp", "flush", "flushall"}
      BY <1>1, Kinded DEF IInv
    <3> QED BY <2>2, <3>1 DEF Alone, Carries
  <2>4. ~TakeToken /\ ~TimerFires /\ ~(Published /\ pub.who = None)
    BY <2>1 DEF TakeToken, TimerFires, Published
  <2>5. PICK q \in Ops : Start(q) \/ Step(q) \/ TakeOffer(q) \/ (Published /\ pub.who = q)
    BY <1>1, <2>4, Steps
  <2>6. Only(q)
    <3>1. Result(q) => Only(q)
      BY DEF Result, Carries
    <3> QED BY <1>1, <2>5, <3>1, StartTypes, StepResult, OfferResult, PublishedResult
  <2>7. q = p
    BY <2>1, <2>6 DEF Only
  <2>8. CASE WaitPub(p)
    <3>1. lastpub = root.num
      <4>1. ASSUME GoTo(p, "offer") PROVE FALSE
        <5>1. op'[p].at = "offer"
          BY <2>2, <4>1, GoToMoves DEF Places
        <5> QED BY <5>1
      <4> QED BY <2>8, <4>1 DEF WaitPub
    <3>2. stored' = stored
      BY <2>8 DEF WaitPub, pubVars
    <3> QED BY <2>2, <2>3, <3>1, <3>2 DEF PubInv, Brought
  <2>9. CASE Published /\ pub.who = p
    <3>1. op[p].at = "answer"
      BY <2>2, <2>9 DEF PubInv
    <3> QED BY <2>3, <2>9, <3>1 DEF Published, Brought
  <2>10. Step(p) => WaitPub(p)
    BY DEF Step, Look, Add, Open, LockDesc, FlushUp, CloseChild, CloseTop, Update, Unlock, Unlink, GetNode, SyncDir, SyncEnd,
           MvRead, MvClear, MvAdd, MvRemove, At
  <2>11. ~Start(p) /\ ~TakeOffer(p)
    BY DEF Start, TakeOffer, At
  <2> QED BY <2>5, <2>7, <2>8, <2>9, <2>10, <2>11
<1>2. IInv /\ [Next]_vars => [Heals]_vars
  BY <1>1
<1> QED BY <1>2, Invariant, PTL DEF Spec, FlushHeals
=============================================================================
