--------------------------- MODULE MCCachedStore ---------------------------
(* Instances of CachedStore for TLC. *)
EXTENDS CachedStore, TLC

\* The Bloom filter and the ARC cache, as the package and its tests build them.  Until
\* the filter is active, the first is the store alone, as the daemon has it: core/builder.go
\* asks for no ARC cache, and where a BloomFilterSize is set CachedBlockstore refuses to
\* build the filter, for which builder.go gives no number of hashes (caching.go:40).
BloomSetup == [arc |-> FALSE, bloom |-> TRUE]
ArcSetup == [arc |-> TRUE, bloom |-> FALSE]

EachSetup == {BloomSetup, ArcSetup}
ArcSetups == {ArcSetup}

Symmetry == Permutations(Keys) \cup Permutations(Clients)
=============================================================================
