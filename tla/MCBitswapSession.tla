-------------------------- MODULE MCBitswapSession --------------------------
(* Instances of BitswapSession for TLC. *)
EXTENDS BitswapSession, TLC

CONSTANTS k1, k2, s1, r1, r2

\* A request for two keys, the limit being one, and another that shares a key with
\* it in the session or stands alone.
TwoCalls == r1 :> {[of |-> s1, keys |-> {k1, k2}]} @@ r2 :> {[of |-> s1, keys |-> {k2}], [of |-> Direct, keys |-> {k1}]}

\* Nothing is asked within the session.
NoCalls == [r \in Requests |-> {}]
=============================================================================
