------------------------------- MODULE MCMfs -------------------------------
\* Any two commands on three names in two directories, or two changes and a
\* flush.
EXTENDS Mfs, TLC

CONSTANTS p1, p2, p3, a, b, c, x, y

\* Two files in one directory and one in another.
MCDir == [n \in {a, b, c} |-> IF n = c THEN y ELSE x]

Never == [kind |-> "never", name |-> None, to |-> None]
FlushAll == [kind |-> "flushall", name |-> None, to |-> None]
Do(kind, n) == [kind |-> kind, name |-> n, to |-> None]

\* Both orders of a pair are the same up to the names of the commands.
Rank == [write |-> 1, buffer |-> 2, cp |-> 3, rm |-> 4, mv |-> 5, flush |-> 6, flushall |-> 7]
AnyTwo ==
  {(p1 :> p[1]) @@ (p2 :> p[2]) @@ (p3 :> Never) :
     p \in {q \in (Commands \ {Never}) \X (Commands \ {Never}) : Rank[q[1].kind] <= Rank[q[2].kind]}}
TwoAndFlush ==
  {(p1 :> q) @@ (p2 :> r) @@ (p3 :> f) :
     q \in {Do("write", a)}, r \in {Do("write", a), Do("rm", a)}, f \in {Do("flush", a), FlushAll}}
  \cup
  {(p1 :> q) @@ (p2 :> r) @@ (p3 :> f) :
     q \in {Do("buffer", a)}, r \in {Do("rm", a), Do("buffer", c)}, f \in {Do("flush", c), FlushAll}}
MCPlans == AnyTwo \cup TwoAndFlush

TwoWrites == {(p1 :> Do("write", a)) @@ (p2 :> Do("write", a)) @@ (p3 :> Never)}
=============================================================================
