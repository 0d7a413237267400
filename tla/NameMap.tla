------------------------------ MODULE NameMap ------------------------------
(* What a directory promises: a map from names to what they stand for, and  *)
(* its saved version (unixfs/io/dirbuilder.go, the methods of Directory).   *)

CONSTANTS Names, Values, None

VARIABLES
    entries, saved,
    asked     \* the last change: a name and its new value, None to remove it

Init == entries = [n \in Names |-> None] /\ saved = entries /\ asked = <<>>

\* A name that is not there may be removed.
Change ==
    \E n \in Names, v \in Values \cup {None} :
      /\ asked' = <<n, v>>
      /\ entries' = [entries EXCEPT ![n] = v] /\ UNCHANGED saved

Save == saved' = entries /\ UNCHANGED <<entries, asked>>

Load == entries' = saved /\ asked' = <<>> /\ UNCHANGED saved

Next == Change \/ Save \/ Load

Spec == Init /\ [][Next]_<<entries, saved, asked>>
=============================================================================
