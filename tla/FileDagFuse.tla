---------------------------- MODULE FileDagFuse ----------------------------
(* The calls a mount makes on a descriptor (fuse/ipns/ipns_unix.go): in any  *)
(* order, WriteAt, and Truncate to any size.                                 *)
EXTENDS FileDag

\* The position moves on from where it was, not from p.
WriteAt(k, p) ==
    /\ Writable /\ calls < MaxCalls
    /\ p + k <= MaxSize /\ start + Len(Pending) + k <= MaxSize
    /\ \/ /\ p = start /\ buf # NoBuf
          /\ Written(cur, start, off, IF k >= Len(Pending) THEN <<>> ELSE Pending, Fresh(k))
       \/ /\ ~(p = start /\ buf # NoBuf) /\ p # off
          /\ LET n == IF p > Size THEN ExpandSparse(cur, p - Size) ELSE cur
                 m == IF buf = NoBuf THEN n ELSE Merged(n, start, Pending)
             IN  Written(m, p, off, <<>>, Fresh(k))
       \/ /\ ~(p = start /\ buf # NoBuf) /\ p = off
          /\ Written(cur, start, off, Pending, Fresh(k))
    /\ changed' = TRUE /\ calls' = calls + 1
    /\ UNCHANGED <<node, mode, placed, got, opens>>

FuseNext ==
    \/ \E m \in {"read", "write", "both"} : Opened(m)
    \/ Close
    \/ \E p \in 0 .. MaxSize : Truncate(p) \/ (p < FileSize(cur) /\ Seek(p))
    \/ \E k \in Amounts : (placed /\ Read(k)) \/ \E p \in 0 .. MaxSize : WriteAt(k, p)

FuseSpec == Init /\ [][FuseNext]_vars
=============================================================================
