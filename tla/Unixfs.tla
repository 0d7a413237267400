------------------------------- MODULE Unixfs -------------------------------
(***************************************************************************)
(* Files as graphs: the balanced and the trickle layout, and how they are  *)
(* appended to, overwritten, cut, read and sliced (importer, unixfs/mod,   *)
(* unixfs/io, casper/validation/validation.go).  Nodes are values: a link  *)
(* holds the node it names.  Leaves are protobuf nodes, not raw blocks.    *)
(***************************************************************************)
EXTENDS Integers, SequencesExt

CONSTANTS
    Zero,         \* the byte that gaps are filled with
    Chunk,        \* bytes in a leaf
    SparseChunk,  \* bytes in a leaf of a gap
    MaxLinks,     \* links of a node, or its direct leaves in the trickle layout
    LayerRepeat   \* subtrees of each depth in the trickle layout

ASSUME UnixfsAssumption ==
    /\ Chunk \in Nat \ {0} /\ SparseChunk \in Nat \ {0}
    /\ MaxLinks \in Nat \ {0, 1} /\ LayerRepeat \in Nat \ {0}

Sum(s) == LET upTo[i \in 0 .. Len(s)] == IF i = 0 THEN 0 ELSE upTo[i - 1] + s[i] IN upTo[Len(s)]

Joined(ss) == LET upTo[i \in 0 .. Len(ss)] == IF i = 0 THEN <<>> ELSE upTo[i - 1] \o ss[i] IN upTo[Len(ss)]

Least(a, b) == IF a < b THEN a ELSE b

From(s, i) == SubSeq(s, i, Len(s))

-----------------------------------------------------------------------------
(* Nodes and the builder.                                                  *)

NewUnixfsNode == [type |-> "File", data |-> <<>>, sizes |-> <<>>, links |-> <<>>]

\* A file that fits a leaf keeps its bytes in the root; so do balanced leaves.
DataNode(d) == [NewUnixfsNode EXCEPT !.data = d]

NewUnixfsBlock(d) == [DataNode(d) EXCEPT !.type = "Raw"]

FileSize(n) == Len(n.data) + Sum(n.sizes)

NumChildren(n) == Len(n.sizes)

AddChild(n, c) == [n EXCEPT !.sizes = Append(@, FileSize(c)), !.links = Append(@, c)]

RemoveLast(n) == [n EXCEPT !.sizes = Front(@), !.links = Front(@)]

Chunks(b, size) ==
    [i \in 1 .. (Len(b) + size - 1) \div size |->
        SubSeq(b, (i - 1) * size + 1, Least(i * size, Len(b)))]

\* A node and the chunks that are left; and with one more child.
Built(n, q) == [node |-> n, left |-> q]
WithChild(n, c) == Built(AddChild(n, c.node), c.left)

FillNodeLayer(n, q) ==
    LET room == IF NumChildren(n) < MaxLinks THEN MaxLinks - NumChildren(n) ELSE 0
        k == Least(Len(q), room)
    IN  Built([n EXCEPT !.sizes = @ \o [i \in 1 .. k |-> Len(q[i])], !.links = @ \o [i \in 1 .. k |-> NewUnixfsBlock(q[i])]],
              From(q, k + 1))

RECURSIVE FillNodeRec(_, _)
FillNodeRec(b, depth) ==
    IF depth = 0
    THEN Built(DataNode(Head(b.left)), Tail(b.left))
    ELSE IF NumChildren(b.node) >= MaxLinks \/ b.left = <<>>
    THEN b
    ELSE FillNodeRec(WithChild(b.node, FillNodeRec(Built(NewUnixfsNode, b.left), depth - 1)), depth)

RECURSIVE Levels(_, _)
Levels(b, level) ==
    IF b.left = <<>> THEN b.node
    ELSE Levels(FillNodeRec(Built(AddChild(NewUnixfsNode, b.node), b.left), level), level + 1)

BalancedLayout(q) ==
    IF q = <<>> THEN NewUnixfsNode ELSE Levels(Built(DataNode(Head(q)), Tail(q)), 1)

-----------------------------------------------------------------------------
(* The trickle layout.                                                     *)

\* The depths of the subtrees in layers a .. b, one after the other.
Layers(a, b) ==
    [i \in 1 .. LayerRepeat * (IF b < a THEN 0 ELSE b - a + 1) |-> a + (i - 1) \div LayerRepeat]

RECURSIVE Grow(_, _)
RECURSIVE FillTrickleRec(_, _)
\* Subtrees of the given depths below a node, while there are chunks.
Grow(b, depths) ==
    IF b.left = <<>> \/ depths = <<>> THEN b
    ELSE Grow(WithChild(b.node, FillTrickleRec(Head(depths), b.left)), Tail(depths))

FillTrickleRec(depth, q) == Grow(FillNodeLayer(NewUnixfsNode, q), Layers(1, depth - 1))

TrickleLayout(q) == Grow(FillNodeLayer(NewUnixfsNode, q), Layers(1, Len(q))).node

Depth(n) == IF NumChildren(n) < MaxLinks THEN 0 ELSE (NumChildren(n) - MaxLinks) \div LayerRepeat + 1

Progress(n) == IF NumChildren(n) < MaxLinks THEN 0 ELSE (NumChildren(n) - MaxLinks) % LayerRepeat

\* The direct leaves are filled before anything else.
Filled(b) == IF Depth(b.node) = 0 THEN FillNodeLayer(b.node, b.left) ELSE b

AtLeastOne(k) == IF k = 0 THEN 1 ELSE k

RECURSIVE TrickleAppendRec(_, _)
\* The last child is filled, and then the layer it is in.
AppendFillLastChild(b, depth, fill) ==
    IF NumChildren(b.node) <= MaxLinks THEN b
    ELSE Grow(WithChild(RemoveLast(b.node), TrickleAppendRec(Built(Last(b.node.links), b.left), depth - 1)),
              IF fill = 0 THEN <<>> ELSE [i \in 1 .. LayerRepeat - fill |-> depth])

TrickleAppendRec(b, depth) ==
    LET d == AtLeastOne(Depth(b.node))
    IN  IF depth = 0 \/ b.left = <<>> THEN b
        ELSE IF d = depth THEN Filled(b)
        ELSE Grow(AppendFillLastChild(Filled(b), d, Progress(b.node)), Layers(d + 1, depth - 1))

TrickleAppend(n, q) ==
    LET f == Filled(Built(n, q))
        d == AtLeastOne(Depth(n))
    IN  IF f.left = <<>> THEN f.node
        ELSE Grow(AppendFillLastChild(f, d - 1, Progress(n)), Layers(d + 1, d + Len(q))).node

-----------------------------------------------------------------------------
(* The surgery of DagModifier.                                             *)

Modified(n, done, left) == [node |-> n, done |-> done, left |-> left]

RECURSIVE Modify(_, _, _)
RECURSIVE ModifyFrom(_, _, _, _, _)
\* Where the child after the one written to is entered.
Onward(next, offset, cur) == next

\* Children are overwritten one after the other until no byte is left; the data
\* of a node with links is not looked at.
ModifyNext(n, i, next, offset, m) ==
    IF m.done THEN Modified([n EXCEPT !.links[i] = m.node], TRUE, m.left)
    ELSE ModifyFrom([n EXCEPT !.links[i] = m.node], i + 1, next, offset, m.left)

ModifyFrom(n, i, cur, offset, b) ==
    IF i > NumChildren(n) THEN Modified(n, FALSE, b)
    ELSE LET next == cur + n.sizes[i] IN
         IF next <= offset THEN ModifyFrom(n, i + 1, next, offset, b)
         ELSE ModifyNext(n, i, next, Onward(next, offset, cur), Modify(n.links[i], offset - cur, b))

Modify(n, offset, b) ==
    IF n.links # <<>> THEN ModifyFrom(n, 1, 0, offset, b)
    ELSE LET k == Least(Len(b), Len(n.data) - offset)
         IN  Modified([n EXCEPT !.data = SubSeq(@, 1, offset) \o SubSeq(b, 1, k) \o From(@, offset + k + 1)],
                      Len(b) < Len(n.data) - offset, From(b, k + 1))

\* The places where the code would index past the data of a leaf root.
ModifyFits(n, offset) == n.links = <<>> => offset <= Len(n.data)

\* What is overwritten, and then appended.
AndAppended(m) == IF m.done THEN m.node ELSE TrickleAppend(m.node, Chunks(m.left, Chunk))
Merged(n, offset, b) == AndAppended(Modify(n, offset, b))

ExpandSparse(n, size) == TrickleAppend(n, Chunks([i \in 1 .. size |-> Zero], SparseChunk))

\* The child that a cut at size goes through.
CutIn(n, size) == {i \in 1 .. Len(n.links) : /\ Sum([j \in 1 .. i |-> FileSize(n.links[j])]) > size
                                             /\ Sum([j \in 1 .. i - 1 |-> FileSize(n.links[j])]) <= size}

RECURSIVE DagTruncate(_, _)
DagTruncate(n, size) ==
    IF n.links = <<>> THEN NewUnixfsBlock(SubSeq(n.data, 1, size))
    ELSE LET i == CHOOSE j \in CutIn(n, size) : TRUE
             whole == SubSeq(n.links, 1, i - 1)
             rest == size - Sum([j \in 1 .. i - 1 |-> FileSize(n.links[j])])
         IN  [type |-> "Raw", data |-> <<>>,
              sizes |-> Append([j \in 1 .. i - 1 |-> FileSize(n.links[j])], rest),
              links |-> Append(whole, DagTruncate(n.links[i], rest))]

\* Without such a child there is no node to put in its place, and the code
\* stores a nil.
TruncateFits(n, size) == n.links = <<>> \/ CutIn(n, size) # {}

-----------------------------------------------------------------------------
(* Reading.                                                                *)

RECURSIVE Content(_)
\* A child of type Raw is a buffer: its links, if any, are not followed.
ChildContent(c) == IF c.type = "Raw" THEN c.data ELSE Content(c)

Content(n) == n.data \o Joined([i \in 1 .. Len(n.links) |-> ChildContent(n.links[i])])

\* The link that holds the byte at place left behind the data of the root; the
\* first link, when no link does.
LinkAt(n, left) ==
    LET ends == {i \in 1 .. Len(n.sizes) : Sum(SubSeq(n.sizes, 1, i)) > left}
    IN  IF ends = {} THEN 1 ELSE CHOOSE i \in ends : \A j \in ends : i <= j

\* What of left remains when that link is entered.
LeftIn(n, left) ==
    LET held == \E i \in 1 .. Len(n.sizes) : Sum(SubSeq(n.sizes, 1, i)) > left
    IN  left - Sum(IF held THEN SubSeq(n.sizes, 1, LinkAt(n, left) - 1) ELSE n.sizes)

RECURSIVE SeekRead(_, _)
\* All that a new reader of n returns after Seek(offset).
SeekRead(n, offset) ==
    IF offset <= Len(n.data)
    THEN From(Content(n), offset + 1)
    ELSE LET left == offset - Len(n.data) IN
         IF n.links = <<>> THEN <<>>
         ELSE LET i == LinkAt(n, left)
                  c == n.links[i]
              IN  (IF c.type = "Raw" THEN From(c.data, LeftIn(n, left) + 1)
                   ELSE SeekRead(c, LeftIn(n, left)))
                  \o Joined([j \in 1 .. Len(n.links) - i |-> ChildContent(n.links[i + j])])

\* Mutated: the end of the slice stays where it is when children are skipped.
SliceOf_far(bs, stop) == stop

\* The end of a slice after a child of bs bytes.
SliceOf(bs, stop) == stop - bs

RECURSIVE GetSlice(_, _, _)
RECURSIVE SliceFrom(_, _, _, _)
SliceFrom(n, i, start, stop) ==
    IF i > NumChildren(n) THEN <<>>
    ELSE LET bs == n.sizes[i] IN
         IF start >= bs THEN SliceFrom(n, i + 1, start - bs, SliceOf(bs, stop))
         ELSE GetSlice(n.links[i], start, Least(stop, bs))
              \o (IF stop <= bs THEN <<>> ELSE SliceFrom(n, i + 1, 0, SliceOf(bs, stop)))

\* A stop of 0 stands for the end; data in a node hides its links.
GetSlice(n, start, stop0) ==
    LET stop == IF stop0 = 0 THEN FileSize(n) ELSE stop0
    IN  IF n.data # <<>>
        THEN IF stop < Len(n.data) THEN SubSeq(n.data, start + 1, stop) ELSE From(n.data, start + 1)
        ELSE SliceFrom(n, 1, start, stop)
=============================================================================
