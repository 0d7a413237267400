------------------------------ MODULE FileDag ------------------------------
(***************************************************************************)
(* One file of the mutable file system and the descriptors that are opened *)
(* on it, one after the other (mfs/fd.go over unixfs/mod/dagmodifier.go),  *)
(* used the way `files write` and `files read` use them                    *)
(* (core/commands/files/files.go).  Liberties adds two cases that break    *)
(* the promises:                                                           *)
(*   "inline"  appending to a file that has its bytes in its root          *)
(*   "end"     placing a reader exactly at the end                         *)
(***************************************************************************)
EXTENDS Unixfs

CONSTANTS
    BufferSize,  \* bytes a descriptor keeps before it writes them out
    Liberties,
    Amounts,     \* sizes of one Read or Write
    MaxSize,     \* bound: bytes of the file
    MaxOpens,    \* bound: descriptors
    MaxCalls     \* bound: calls of Write on a descriptor

ASSUME FileDagAssumption ==
    /\ BufferSize \in Nat /\ MaxSize \in Nat /\ MaxOpens \in Nat /\ MaxCalls \in Nat
    /\ Amounts \subseteq Nat \ {0} /\ Zero = 0
    /\ Liberties \subseteq {"inline", "end"}

VARIABLES
    node,     \* File.node
    mode,     \* "none" without a descriptor, else "read", "write" or "both"
    cur,      \* DagModifier.curNode
    buf,      \* DagModifier.wrBuf and the bytes in it, or NoBuf
    start,    \* DagModifier.writeStart
    off,      \* DagModifier.curWrOff
    read,     \* DagModifier.read and the bytes it has yet to return, or NoRead
    changed,  \* fileDescriptor.hasChanges
    placed,   \* the command has called Seek
    got,      \* what the last Read returned
    opens, calls

vars == <<node, mode, cur, buf, start, off, read, changed, placed, got, opens, calls>>

NoBuf == [on |-> FALSE, bytes |-> <<>>]
NoRead == NoBuf
Holding(b) == [on |-> TRUE, bytes |-> b]

\* Bytes that occur once, so that a byte in the wrong place shows.
Fresh(n) == [i \in 1 .. n |-> 100 * opens + 10 * calls + i]

Pending == buf.bytes

Size == IF Len(Pending) + start > FileSize(cur) THEN Len(Pending) + start ELSE FileSize(cur)

-----------------------------------------------------------------------------

\* The file was added in either layout, or is the empty one `files write --create`
\* makes.
Init ==
    /\ \E n \in 0 .. MaxSize :
         LET q == Chunks([i \in 1 .. n |-> i], Chunk)
         IN  node \in {BalancedLayout(q), TrickleLayout(q)}
    /\ mode = "none" /\ cur = node
    /\ buf = NoBuf /\ start = 0 /\ off = 0 /\ read = NoRead
    /\ changed = FALSE /\ placed = FALSE /\ got = <<>>
    /\ opens = 0 /\ calls = 0

Opened(m) ==
    /\ mode = "none" /\ opens < MaxOpens
    /\ mode' = m /\ cur' = node
    /\ buf' = NoBuf /\ start' = 0 /\ off' = 0 /\ read' = NoRead
    /\ changed' = FALSE /\ placed' = FALSE /\ got' = <<>>
    /\ opens' = opens + 1 /\ calls' = 0
    /\ UNCHANGED node

Writable == mode \in {"write", "both"}

Readable == mode \in {"read", "both"}

\* Mutated: what comes next is written over what was just written.
AfterSync_stays(n, from, b) == from

\* Where the next buffer belongs.
AfterSync(n, from, b) == from + Len(b)

\* The buffer goes into the graph; without one there is nothing to do.
Synced == IF buf = NoBuf THEN cur ELSE Merged(cur, start, Pending)

SyncedStart == IF buf = NoBuf THEN start ELSE AfterSync(cur, start, Pending)

\* The data of a root that has links besides is found by no writer.
Appends(n, size) == size > FileSize(n) /\ n.data # <<>>

Allowed(n, size) == size <= MaxSize /\ (Appends(n, size) => "inline" \in Liberties)

Reaching(n, p) == IF p > FileSize(n) THEN ExpandSparse(n, p - FileSize(n)) ELSE n

\* A gap is closed at once: the node grows where it stands, whoever holds it.
Seek(p) ==
    /\ mode # "none" /\ Allowed(Synced, p)
    /\ cur' = Reaching(Synced, p)
    /\ read' = IF read = NoRead \/ buf # NoBuf THEN NoRead ELSE Holding(SeekRead(cur', p))
    /\ buf' = NoBuf /\ start' = p /\ off' = p /\ placed' = TRUE
    /\ UNCHANGED <<node, mode, changed, got, opens, calls>>

\* Where no child is cut through, the code stores a nil node and panics.
Resizable(n, size) == size > FileSize(n) \/ TruncateFits(n, size)
Resized(n, size) == IF size > FileSize(n) THEN Reaching(n, size) ELSE DagTruncate(n, size)

Truncate(size) ==
    /\ Writable /\ Allowed(Synced, size) /\ Resizable(Synced, size)
    /\ cur' = Resized(Synced, size)
    /\ buf' = NoBuf /\ start' = SyncedStart
    /\ read' = IF buf = NoBuf THEN read ELSE NoRead
    /\ changed' = TRUE
    /\ UNCHANGED <<node, mode, off, placed, got, opens, calls>>

\* Write on what WriteAt leaves.
Written(n, from, at, before, b) ==
    LET all == before \o b IN
    /\ read' = NoRead
    /\ off' = at + Len(b)
    /\ IF Len(all) > BufferSize
       THEN cur' = Merged(n, from, all) /\ start' = AfterSync(n, from, all) /\ buf' = NoBuf
       ELSE cur' = n /\ start' = from /\ buf' = Holding(all)

Write(k) ==
    /\ Writable /\ calls < MaxCalls
    /\ Allowed(cur, start + Len(Pending) + k)
    /\ Written(cur, start, off, Pending, Fresh(k))
    /\ changed' = TRUE /\ calls' = calls + 1
    /\ UNCHANGED <<node, mode, placed, got, opens>>

\* The reader hands out its first k bytes.
Taken(all, k) ==
    LET b == SubSeq(all, 1, Least(k, Len(all)))
    IN  got' = b /\ read' = Holding(From(all, Len(b) + 1)) /\ off' = off + Len(b)

Read(k) ==
    /\ Readable
    /\ cur' = Synced
    /\ Taken(IF read = NoRead \/ buf # NoBuf THEN SeekRead(cur', off) ELSE read.bytes, k)
    /\ start' = SyncedStart /\ buf' = NoBuf
    /\ UNCHANGED <<node, mode, changed, placed, opens, calls>>

Close ==
    /\ mode # "none" /\ mode' = "none"
    /\ cur' = IF changed THEN Synced ELSE node
    /\ node' = cur'
    /\ buf' = NoBuf /\ start' = 0 /\ off' = 0 /\ read' = NoRead
    /\ changed' = FALSE /\ placed' = FALSE /\ got' = <<>> /\ calls' = 0
    /\ UNCHANGED opens

\* `files read` refuses an offset past the end.
FilesRead ==
    \/ Opened("read")
    \/ \E p \in 0 .. FileSize(cur) :
         /\ mode = "read" /\ ~placed
         /\ (p = FileSize(cur) /\ p > Len(cur.data) => "end" \in Liberties)
         /\ Seek(p)
    \/ placed /\ \E k \in Amounts : Read(k)

\* `files write` cuts to 0 when told so, seeks once, and writes.
FilesWrite ==
    \/ Opened("write")
    \/ ~changed /\ ~placed /\ Truncate(0)
    \/ \E p \in 0 .. MaxSize : mode = "write" /\ ~placed /\ Seek(p)
    \/ placed /\ \E k \in Amounts : Write(k)

Next == FilesRead \/ FilesWrite \/ Close

Spec == Init /\ [][Next]_vars

-----------------------------------------------------------------------------

TypeOK ==
    /\ mode \in {"none", "read", "write", "both"}
    /\ start \in 0 .. MaxSize /\ off \in 0 .. 2 * MaxSize
    /\ changed \in BOOLEAN /\ placed \in BOOLEAN
    /\ opens \in 0 .. MaxOpens /\ calls \in 0 .. MaxCalls

\* A provider that is asked for the bytes start .. stop of the file takes
\* exactly these out of the graph, whatever its shape (casper/validation
\* GetSlice): otherwise an honest copy fails its check.
SlicesExact ==
    mode = "none" =>
      \A a \in 0 .. FileSize(node), b \in 1 .. FileSize(node) :
        a < b => GetSlice(node, a, b) = SubSeq(Content(node), a + 1, b)

\* What is buffered lies over the bytes that are in the graph.
Shown ==
    LET c == Content(cur)
    IN  SubSeq(c, 1, start) \o Pending \o From(c, start + Len(Pending) + 1)

File == INSTANCE ByteFile WITH
    saved <- Content(node), bytes <- Shown, pos <- off,
    given <- [n \in Amounts |-> Fresh(n)], Bytes <- Nat, Places <- 0 .. MaxSize

\* `files write --truncate` of any file leads to a file: dagTruncate finds a child
\* to cut (files.go, dagmodifier.go dagTruncate).
CutsFit == mode = "write" /\ ~placed /\ ~changed => TruncateFits(cur, 0)

\* The descriptor behaves like a sequence of bytes with a position: a gap is
\* filled with zeros, a write replaces the bytes it covers and no other, a read
\* returns the bytes at the position, and Close saves what was shown
\* (mfs/fd.go over DagModifier and DagReader).
ImplementsFile == File!Spec
=============================================================================
