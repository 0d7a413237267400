---------------------------- MODULE MCValidation ----------------------------
(***************************************************************************)
(* Instances of Validation for TLC: two nodes, either of which may make    *)
(* the second check.  The first is made by the one that has an address     *)
(* which nobody can use.                                                   *)
(***************************************************************************)
EXTENDS Validation

CONSTANTS m, n

=============================================================================
