---------------------------- MODULE MCProviders ----------------------------
\* A small network: as many copies as attempts, as in the code (4 and 4).
EXTENDS Providers

CONSTANTS n1, n2, n3, n4, root1, q1, q2
\* Every node is as good as another.  One of the two that have the file is
\* down, and may be back at once.
MCStarts == {[home |-> {}, down |-> {}], [home |-> {n1, n2}, down |-> {n1}]}
=============================================================================
