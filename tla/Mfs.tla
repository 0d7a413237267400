-------------------------------- MODULE Mfs --------------------------------
(***************************************************************************)
(* The mutable file system: the tree of directories and files that the     *)
(* `files` commands change (mfs, core/commands/files), and the Republisher *)
(* that records its root in the datastore.  A change to a file goes up     *)
(* from directory to directory, each under its own lock only, and the root *)
(* is recorded some time later; a flush waits for that.                    *)
(*                                                                         *)
(* The files are in directories of the root directory.  link has what each *)
(* of those has linked in its own dirbuilder, and top what the root's has  *)
(* of them: a directory's links as they were when it was last handed up.   *)
(* The content of a file is the set of the writes that are in it (they go  *)
(* to different offsets).                                                  *)
(***************************************************************************)
EXTENDS Integers, Sequences, FiniteSets

CONSTANTS
  Ops,       \* commands; each is issued once (bound)
  Names,     \* files, by their paths
  Dirs,      \* directories of the root
  Dir,       \* the directory of each name
  Present,   \* files that are there at the start, empty
  None,      \* no name, no command
  Plans      \* what the commands may be: functions from Ops to Commands

Commands ==
  [kind : {"write", "buffer", "cp", "rm", "flush"}, name : Names, to : {None}]
  \cup [kind : {"mv"}, name : Names, to : Names]
  \cup [kind : {"flushall", "never"}, name : {None}, to : {None}]

Absent == {"absent"}

ASSUME MfsAssumption ==
  /\ Plans \subseteq [Ops -> Commands]
  /\ Dir \in [Names -> Dirs] /\ Present \subseteq Names
  /\ None \notin Names \cup Ops
  /\ Absent \notin SUBSET Ops

VARIABLES
  link,      \* content of each name as linked in its directory
  top,       \* and as linked, by way of its directory, in the root's
  cache,     \* cache[n]: the File object of a name, 0 when there is none
  objs,      \* File objects: their node and who has locked desclock
  op,        \* op[p]: what a command does and where it is
  root,      \* val of the Republisher: a tree and the number of its Update
  lastpub,   \* number of the Update published last
  stored,    \* the tree whose root the datastore has
  token,     \* Publish, a channel of capacity 1, holds a token
  pub,       \* Run: idle, waiting or publishing, for whom and what
  want,      \* history: content of each name if commands ran one by one
  shared,    \* history: names two commands at a time were about
  met        \* history: commands that another ran at the same time as

treeVars == <<link, top, cache, objs>>
pubVars == <<root, lastpub, stored, token, pub>>
history == <<want, shared, met>>
vars == <<treeVars, op, pubVars, history>>

Trees == [Names -> {Absent} \cup SUBSET Ops]
\* A tree with what another has for the names of a directory.
Over(t, d, s) == [n \in Names |-> IF Dir[n] = d THEN s[n] ELSE t[n]]
NoTree == [n \in Names |-> Absent]
Fresh(c, at) == [kind |-> c.kind, name |-> c.name, to |-> c.to, at |-> at,
                 obj |-> 0, node |-> {}, snap |-> NoTree, left |-> {}]
Running(p) == op[p].at \notin {"new", "done"}
About(p) == {op[p].name, op[p].to} \cap Names
NoPub == [st |-> "idle", who |-> None, tree |-> NoTree, num |-> 0]

TypeOK ==
  /\ link \in Trees /\ top \in Trees
  /\ \A n \in Names : cache[n] \in 0 .. Len(objs)
  /\ \A i \in DOMAIN objs : objs[i].node \in SUBSET Ops /\ objs[i].desc \in Ops \cup {None}
  /\ \A p \in Ops : /\ op[p].left \subseteq Dirs /\ op[p].snap \in Trees /\ op[p].obj \in 0 .. Len(objs)
                    /\ op[p].at \in {"unlock", "up", "top", "root"} /\ op[p].obj /= 0 => objs[op[p].obj].desc = p
  /\ root.tree \in Trees /\ stored \in Trees /\ lastpub \in 0 .. root.num
  /\ token \in BOOLEAN /\ pub.st \in {"idle", "waiting", "publishing"}

Init ==
  LET t == [n \in Names |-> IF n \in Present THEN {} ELSE Absent]
  IN  /\ link = t /\ top = t
      /\ cache = [n \in Names |-> 0] /\ objs = <<>>
      /\ \E c \in Plans : op = [p \in Ops |-> Fresh(c[p], "new")]
      /\ root = [tree |-> t, num |-> 1] /\ lastpub = 0
      /\ stored = t /\ want = t
      /\ token = FALSE /\ pub = NoPub
      /\ shared = {} /\ met = {}
-----------------------------------------------------------------------------
(***************************************************************************)
(* Directories.  What one call does under the lock of its directory is one *)
(* step.                                                                   *)
(***************************************************************************)
At(p, at) == op[p].at = at
GoTo(p, at) == op' = [op EXCEPT ![p].at = at]
\* The command needs what it has read no more.
Drops(p, at) == op' = [op EXCEPT ![p] = Fresh(@, at)]

\* childUnsync: a name is there when it is cached or linked.
Has(n) == cache[n] /= 0 \/ link[n] /= Absent
NodeOf(n) == IF cache[n] /= 0 THEN objs[cache[n]].node ELSE link[n]

\* Child: the File object of a name, made and cached when there is none.
ObjOf(n) == IF cache[n] /= 0 THEN cache[n] ELSE Len(objs) + 1
Cached(n) ==
  /\ cache' = [cache EXCEPT ![n] = ObjOf(n)]
  /\ objs' = IF cache[n] /= 0 THEN objs ELSE Append(objs, [node |-> link[n], desc |-> None])

\* AddChild of a name that is not there, and Unlink.
Linked(n, nd) == link' = [link EXCEPT ![n] = nd] /\ UNCHANGED <<top, cache, objs>>
\* A mutant of Unlinked: the File object stays cached.
Unlinked_cached(n) ==
  /\ link' = [link EXCEPT ![n] = Absent]
  /\ UNCHANGED <<top, cache, objs>>
Unlinked(n) ==
  /\ cache' = [cache EXCEPT ![n] = 0]
  /\ link' = [link EXCEPT ![n] = Absent]
  /\ UNCHANGED <<top, objs>>

\* GetNode of a directory first updates its links with the nodes of the
\* files it has cached.
Synced(d) == link' = Over(link, d, [n \in Names |-> NodeOf(n)])
\* What the directory hands to the root's.
Part(d) == Over(NoTree, d, link')

\* GetNode of the root's directory keeps its lock while it goes through the
\* others one by one.
RootFree == \A p \in Ops : op[p].at /= "sync"
-----------------------------------------------------------------------------
(***************************************************************************)
(* Commands.                                                               *)
(***************************************************************************)
First(k) == CASE k = "cp" -> "add" [] k = "mv" -> "read" [] k = "flushall" -> "node" [] OTHER -> "look"

\* What running at the same time as others leaves in the history.
Meets(p) ==
  LET on == {q \in Ops : Running(q) /\ About(q) \cap About(p) /= {}}
  IN  /\ met' = IF \E q \in Ops : Running(q) THEN met \cup {p} \cup {q \in Ops : Running(q)} ELSE met
      /\ shared' = shared \cup (IF on = {} /\ op[p].name \notin shared THEN {}
                                ELSE About(p) \cup UNION {About(q) : q \in on})

Start(p) ==
  /\ At(p, "new") /\ op[p].kind /= "never"
  /\ GoTo(p, First(op[p].kind))
  /\ Meets(p)
  /\ UNCHANGED <<treeVars, pubVars, want>>

Quiet == UNCHANGED <<shared, met>>
Fails(p) == Drops(p, "done") /\ UNCHANGED <<treeVars, pubVars, want>>
\* AddChild has looked the name up, and so cached it.
Exists(p, n) == Cached(n) /\ Drops(p, "done") /\ UNCHANGED <<link, top, pubVars, want>>

\* What a command that ends has done, were it the only one.
Effect(p) ==
  LET n == op[p].name
      k == op[p].kind
      old == IF want[n] = Absent THEN {} ELSE want[n]
  IN  CASE k \in {"write", "buffer"} -> [want EXCEPT ![n] = old \cup {p}]
        [] k = "cp" -> [want EXCEPT ![n] = {p}]
        [] k = "rm" -> [want EXCEPT ![n] = Absent]
        [] k = "mv" -> [want EXCEPT ![op[p].to] = want[n], ![n] = Absent]
        [] OTHER -> want
Done(p) == Drops(p, "done") /\ want' = Effect(p)

\* getFileHandle or Lookup of a file: write creates a name that is not there,
\* and looks it up again.
Writes == {"write", "buffer"}
Look(p) ==
  LET n == op[p].name
  IN  /\ (At(p, "look") \/ At(p, "child")) /\ Quiet
      /\ \/ /\ Has(n) /\ Cached(n)
            /\ op' = [op EXCEPT ![p].obj = ObjOf(n), ![p].at = IF op[p].kind = "rm" THEN "unlink" ELSE "open"]
            /\ UNCHANGED <<link, top, pubVars, want>>
         \/ /\ ~Has(n) /\ At(p, "look") /\ op[p].kind \in Writes
            /\ GoTo(p, "add") /\ UNCHANGED <<treeVars, pubVars, want>>
         \/ ~Has(n) /\ (At(p, "child") \/ op[p].kind \notin Writes) /\ Fails(p)

\* AddChild of an empty file, or for `files cp` PutNode of a node with the
\* command's own content.
Add(p) ==
  LET n == op[p].name
  IN  /\ At(p, "add") /\ Quiet
      /\ \/ /\ ~Has(n) /\ Linked(n, IF op[p].kind = "cp" THEN {p} ELSE {})
            /\ GoTo(p, "child") /\ UNCHANGED <<pubVars, want>>
         \/ Has(n) /\ Exists(p, n)

\* Open takes the node of the file before it has the lock of the descriptor.
Open(p) ==
  /\ At(p, "open") /\ Quiet
  /\ op' = [op EXCEPT ![p].node = objs[op[p].obj].node, ![p].at = "lock"]
  /\ UNCHANGED <<treeVars, pubVars, want>>

LockDesc(p) ==
  /\ At(p, "lock") /\ objs[op[p].obj].desc = None /\ Quiet
  /\ objs' = [objs EXCEPT ![op[p].obj].desc = p]
  /\ GoTo(p, "close")
  /\ UNCHANGED <<link, top, cache, pubVars, want>>

\* Close after writes, or Flush: the node of the descriptor is the file's,
\* and goes up.
FlushUp(p) ==
  LET nd == IF op[p].kind \in Writes THEN op[p].node \cup {p} ELSE op[p].node
  IN  /\ At(p, "close") /\ Quiet
      /\ objs' = [objs EXCEPT ![op[p].obj].node = nd]
      /\ op' = [op EXCEPT ![p].node = nd, ![p].at = "up"]
      /\ UNCHANGED <<link, top, cache, pubVars, want>>

\* closeChild of the file's directory: it links the node and, when the flush
\* is a full one, hands what it has linked up, having let go of its lock.
CloseChild(p) ==
  /\ At(p, "up") /\ Quiet
  /\ link' = [link EXCEPT ![op[p].name] = op[p].node]
  /\ op' = IF op[p].kind = "buffer" THEN [op EXCEPT ![p].at = "unlock"]
           ELSE [op EXCEPT ![p].snap = Part(Dir[op[p].name]), ![p].at = "top"]
  /\ UNCHANGED <<top, cache, objs, pubVars, want>>

\* closeChild of the root's directory: it links the one directory that calls,
\* and hands up what it has of all.
CloseTop(p) ==
  /\ At(p, "top") /\ RootFree /\ Quiet
  /\ top' = Over(top, Dir[op[p].name], op[p].snap)
  /\ op' = [op EXCEPT ![p].snap = top', ![p].at = "root"]
  /\ UNCHANGED <<link, cache, objs, pubVars, want>>

\* Root.closeChild: Update sets the value and leaves a token for Run.
Update(p) ==
  /\ At(p, "root") /\ Quiet
  /\ root' = [tree |-> op[p].snap, num |-> root.num + 1]
  /\ token' = TRUE
  /\ CASE op[p].kind = "rm" -> Done(p)
       [] op[p].kind = "flushall" -> Drops(p, "wait") /\ UNCHANGED want
       [] OTHER -> GoTo(p, "unlock") /\ UNCHANGED want
  /\ UNCHANGED <<treeVars, lastpub, stored, pub>>

\* A mutant of Unlock: Close leaves desclock locked.
Unlock_forgets(p) ==
  /\ At(p, "unlock") /\ Quiet
  /\ IF op[p].kind \in {"cp", "flush"} THEN Drops(p, "wait") /\ UNCHANGED want ELSE Done(p)
  /\ UNCHANGED <<link, top, cache, objs, pubVars>>

Unlock(p) ==
  /\ At(p, "unlock") /\ Quiet
  /\ objs' = [objs EXCEPT ![op[p].obj].desc = None]
  /\ IF op[p].kind \in {"cp", "flush"} THEN Drops(p, "wait") /\ UNCHANGED want ELSE Done(p)
  /\ UNCHANGED <<link, top, cache, pubVars>>

\* files rm: Unlink, then Flush of the directory.
Unlink(p) ==
  /\ At(p, "unlink") /\ Quiet
  /\ \/ link[op[p].name] /= Absent /\ Unlinked(op[p].name) /\ GoTo(p, "node") /\ UNCHANGED <<pubVars, want>>
     \/ link[op[p].name] = Absent /\ Unlinked(op[p].name) /\ Drops(p, "done") /\ UNCHANGED <<pubVars, want>>

\* Flush of a directory: GetNode, and on to its parent.  That of the root's
\* takes its lock and has every directory sync itself, in any order.
GetNode(p) ==
  /\ At(p, "node") /\ Quiet
  /\ \/ /\ op[p].kind = "rm" /\ Synced(Dir[op[p].name])
        /\ op' = [op EXCEPT ![p].snap = Part(Dir[op[p].name]), ![p].obj = 0, ![p].at = "top"]
        /\ UNCHANGED <<top, cache, objs, pubVars, want>>
     \/ /\ op[p].kind = "flushall" /\ RootFree
        /\ op' = [op EXCEPT ![p].left = Dirs, ![p].at = "sync"]
        /\ UNCHANGED <<treeVars, pubVars, want>>

SyncDir(p) ==
  /\ At(p, "sync") /\ Quiet
  /\ \E d \in op[p].left :
       /\ Synced(d) /\ top' = Over(top, d, link')
       /\ op' = [op EXCEPT ![p].left = @ \ {d}]
  /\ UNCHANGED <<cache, objs, pubVars, want>>

SyncEnd(p) ==
  /\ At(p, "sync") /\ op[p].left = {} /\ Quiet
  /\ op' = [op EXCEPT ![p].snap = top, ![p].at = "root"]
  /\ UNCHANGED <<treeVars, pubVars, want>>

\* files mv: the node of the source, the destination cleared, the node added
\* under its new name and the old name removed; nothing is flushed.
MvRead(p) ==
  /\ At(p, "read") /\ Quiet
  /\ \/ /\ Has(op[p].name) /\ Cached(op[p].name)
        /\ op' = [op EXCEPT ![p].node = NodeOf(op[p].name), ![p].at = "clear"]
        /\ UNCHANGED <<link, top, pubVars, want>>
     \/ ~Has(op[p].name) /\ Fails(p)

MvClear(p) ==
  /\ At(p, "clear") /\ Quiet
  /\ IF Has(op[p].to) THEN Unlinked(op[p].to) ELSE UNCHANGED treeVars
  /\ GoTo(p, "put")
  /\ UNCHANGED <<pubVars, want>>

MvAdd(p) ==
  /\ At(p, "put") /\ Quiet
  /\ \/ ~Has(op[p].to) /\ Linked(op[p].to, op[p].node) /\ GoTo(p, "drop") /\ UNCHANGED <<pubVars, want>>
     \/ Has(op[p].to) /\ Exists(p, op[p].to)

MvRemove(p) ==
  /\ At(p, "drop") /\ Quiet
  /\ Unlinked(op[p].name) /\ Done(p)
  /\ UNCHANGED pubVars
-----------------------------------------------------------------------------
(***************************************************************************)
(* The Republisher.                                                        *)
(***************************************************************************)
\* WaitPub: done when the value is the published one, otherwise the command
\* offers itself on pubnowch and waits for Run to take it and to answer.
WaitPub(p) ==
  /\ At(p, "wait") /\ Quiet
  /\ IF lastpub = root.num THEN Done(p) ELSE GoTo(p, "offer") /\ UNCHANGED want
  /\ UNCHANGED <<treeVars, pubVars>>

\* Run takes a token, and again while it waits.
TakeToken ==
  /\ pub.st \in {"idle", "waiting"} /\ token
  /\ token' = FALSE
  /\ pub' = [pub EXCEPT !.st = "waiting"]
  /\ UNCHANGED <<treeVars, op, root, lastpub, stored, history>>

\* A timer fires, or a command that waits is taken; publish reads the value.
Publishing(who) == pub' = [st |-> "publishing", who |-> who, tree |-> root.tree, num |-> root.num]
TimerFires ==
  /\ pub.st = "waiting" /\ Publishing(None)
  /\ UNCHANGED <<treeVars, op, root, lastpub, stored, token, history>>
TakeOffer(p) ==
  /\ pub.st = "waiting" /\ At(p, "offer")
  /\ Publishing(p) /\ GoTo(p, "answer")
  /\ UNCHANGED <<treeVars, root, lastpub, stored, token, history>>

\* A mutant of Published: the value at the end counts as published.
Published_val ==
  /\ pub.st = "publishing"
  /\ stored' = pub.tree /\ lastpub' = root.num
  /\ pub' = NoPub
  /\ IF pub.who = None THEN UNCHANGED <<op, want>> ELSE Done(pub.who)
  /\ Quiet /\ UNCHANGED <<treeVars, root, token>>

\* The datastore has the root; Run answers the command and is idle again.
Published ==
  /\ pub.st = "publishing"
  /\ stored' = pub.tree /\ lastpub' = pub.num
  /\ pub' = NoPub
  /\ IF pub.who = None THEN UNCHANGED <<op, want>> ELSE Done(pub.who)
  /\ Quiet /\ UNCHANGED <<treeVars, root, token>>
-----------------------------------------------------------------------------
Step(p) ==
  \/ Look(p) \/ Add(p) \/ Open(p) \/ LockDesc(p) \/ FlushUp(p) \/ CloseChild(p)
  \/ CloseTop(p) \/ Update(p) \/ Unlock(p) \/ Unlink(p)
  \/ GetNode(p) \/ SyncDir(p) \/ SyncEnd(p)
  \/ MvRead(p) \/ MvClear(p) \/ MvAdd(p) \/ MvRemove(p) \/ WaitPub(p)
Run == TakeToken \/ TimerFires \/ Published \/ \E p \in Ops : TakeOffer(p)

Next == Run \/ \E p \in Ops : Start(p) \/ Step(p)

\* Commands that have begun go on, and so does the goroutine of Run, whose
\* long timer no token resets.
Spec == Init /\ [][Next]_vars /\ WF_vars(Run) /\ WF_vars(TimerFires) /\ \A p \in Ops : WF_vars(Step(p))
-----------------------------------------------------------------------------
Still(n) == \A p \in Ops : Running(p) => n \notin About(p)

\* However the commands interleave, a name on which no two of them ran at the
\* same time, and whose content did not come from one that had that, has the
\* content that running them one by one gives it, in its directory and in its
\* cached File: no flush of another name, and no node that a slower command
\* brings up later, undoes it (mfs/dir.go, mfs/fd.go).
NamesApart ==
  \A n \in Names \ shared : Still(n) => link[n] = want[n] /\ NodeOf(n) = want[n]

\* A flush during which no other command ran has what it flushes recorded
\* when it returns, whatever commands that overlapped earlier have left in the
\* root's directory and in the Republisher: `files flush` of a file has its
\* directory as it is, and `files flush /` every directory.  What the root
\* records of the other directories may be older (FlushPath in mfs/ops.go).
Flushed(p) == IF op[p].kind = "flushall" THEN Names ELSE {n \in Names : Dir[n] = Dir[op[p].name]}
FlushHeals ==
  [][\A p \in Ops \ met :
       op[p].at \in {"wait", "answer"} /\ op'[p].at = "done" =>
         \A n \in Flushed(p) : stored'[n] = link[n]]_vars

\* Every command ends, and desclock and Run keep none of them; one that waits
\* for a publication may be left waiting, but only when it has happened.
CommandsEnd ==
  \A p \in Ops : Running(p) ~> At(p, "done") \/ (At(p, "offer") /\ lastpub = root.num)

\* "The entire length of the input will be written" (files write): a write that
\* has returned is in its file when nothing moved, removed or replaced it.
WritesKept ==
  \A p \in Ops : At(p, "done") /\ op[p].kind \in Writes
                /\ (\A q \in Ops : op[p].name \in About(q) => op[q].kind \in Writes \cup {"flush"})
    => p \in link[op[p].name]
=============================================================================
