------------------------------ MODULE MCPinGC ------------------------------
(***************************************************************************)
(* Instances of PinGC for TLC: two files over one shared leaf, the second  *)
(* being the first one's root under a new UUID, and in the instances with  *)
(* `add` the empty directory that an Adder starts from.                    *)
(***************************************************************************)
EXTENDS PinGC, TLC

CONSTANTS p1, p2, leaf, file, renamed, empty

MCLinks == [b \in Blocks |-> IF b \in {file, renamed} THEN {leaf} ELSE {}]
MCSuccessor ==
    [b \in Blocks |-> CASE b = file -> renamed [] b = renamed -> file [] OTHER -> b]
ClientSymmetry == Permutations({p1, p2})

=============================================================================
