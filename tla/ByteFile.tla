------------------------------ MODULE ByteFile ------------------------------
(***************************************************************************)
(* What a descriptor of a file promises: a sequence of bytes with a        *)
(* position, and a saved version that Close replaces when the descriptor   *)
(* has changed something.  (mfs/fd.go, the interface FileDescriptor.)      *)
(***************************************************************************)
EXTENDS Naturals, Sequences

CONSTANTS Zero, Bytes, Places, Amounts

VARIABLES
    saved,   \* the file, for whoever opens it next
    bytes,   \* the file, for the descriptor
    pos,     \* the descriptor's position
    changed, \* something was written or cut off
    mode,    \* "none", "read", "write" or "both"
    got,     \* what the last Read returned
    given    \* given[n]: the n bytes a caller would write now, which is not the file's state

vars == <<saved, bytes, pos, changed, mode, got>>

Zeros(n) == [i \in 1 .. n |-> Zero]

\* The file with at least n bytes.
Padded(f, n) == IF n > Len(f) THEN f \o Zeros(n - Len(f)) ELSE f

\* b over the bytes of f from place p on.
Overwritten(f, p, b) ==
    LET g == Padded(f, p) IN
    SubSeq(g, 1, p) \o b \o SubSeq(g, p + Len(b) + 1, Len(g))

\* The bytes of f from place p on, n of them at the most.
Piece(f, p, n) == SubSeq(f, p + 1, IF p + n < Len(f) THEN p + n ELSE Len(f))

Init ==
    /\ saved \in Seq(Bytes) /\ bytes = saved
    /\ pos = 0 /\ changed = FALSE /\ mode = "none" /\ got = <<>>

Open ==
    /\ mode = "none" /\ mode' \in {"read", "write", "both"}
    /\ bytes' = saved /\ pos' = 0 /\ changed' = FALSE /\ got' = <<>>
    /\ UNCHANGED saved

\* A place past the end makes the file grow.
Seek ==
    /\ mode # "none" /\ pos' \in Places
    /\ UNCHANGED <<changed, mode, got, saved>>
    /\ bytes' = Padded(bytes, pos')

Truncate ==
    /\ mode \in {"write", "both"} /\ changed' = TRUE
    /\ UNCHANGED <<pos, mode, got, saved>>
    /\ \E n \in Places : Len(bytes') = n /\ bytes' = SubSeq(Padded(bytes, n), 1, n)

\* The n bytes of the caller, from place p on.
WriteOf(n, p) ==
    /\ mode \in {"write", "both"} /\ changed' = TRUE /\ pos' = p + n
    /\ UNCHANGED <<mode, got, saved>>
    /\ bytes' = Overwritten(bytes, p, given[n])

Write == \E n \in Amounts : WriteOf(n, pos)

WriteAt == \E n \in Amounts, p \in Places : WriteOf(n, p)

Read ==
    /\ mode \in {"read", "both"} /\ pos' = pos + Len(got')
    /\ UNCHANGED <<changed, mode, saved, bytes>>
    /\ \E n \in Amounts : got' = Piece(bytes, pos, n)

Close ==
    /\ mode # "none" /\ mode' = "none"
    /\ saved' = IF changed THEN bytes ELSE saved
    /\ bytes' = saved'
    /\ changed' = FALSE /\ pos' = 0 /\ got' = <<>>

Next == Open \/ Seek \/ Truncate \/ Write \/ WriteAt \/ Read \/ Close

Spec == Init /\ [][Next]_vars
=============================================================================
