------------------------------ MODULE BlockMap ------------------------------
(***************************************************************************)
(* What a block store promises the goroutines that use it at the same      *)
(* time: the abstract specification that CachedStore implements.           *)
(*                                                                         *)
(* A key is in the store or not.  While a write of it is under way, after  *)
(* one that failed, and after two that crossed, an add and a delete,       *)
(* either may be the case; once a write that no other has crossed has      *)
(* answered its caller, there is no doubt left.  A question is answered    *)
(* with something that was possible at a moment between its start and its  *)
(* answer.                                                                 *)
(*                                                                         *)
(* A store that keeps its answers (`keeps`) promises less: a key is        *)
(* doubtful for the rest of the process once calls about it have           *)
(* overlapped and one of them was a write.                                 *)
(***************************************************************************)
EXTENDS FiniteSets

CONSTANTS Keys, Clients

VARIABLES
    keeps,          \* the store keeps answers; never changes
    possible,       \* possible[k]: the answers that are right for k now (TRUE: k is stored)
    may,            \* may[c]: the answers that were right since c asked
    crossed,        \* crossed[c]: keys of the write c that an opposite write has overlapped
    doubtful,       \* keys of which the store may have kept a wrong answer
    asks            \* asks[c]: what c has asked for and what it was told

told == <<possible, may, crossed, doubtful>>
vars == <<keeps, told, asks>>

Idle == [op |-> "idle", keys |-> {}, out |-> "none"]
Reads == {"has", "get"}
Writes == {"add", "del"}

Init ==
    /\ keeps \in BOOLEAN
    /\ possible \in [Keys -> {{TRUE}, {FALSE}}]
    /\ may = [c \in Clients |-> {}]
    /\ crossed = [c \in Clients |-> {}]
    /\ doubtful = {}
    /\ asks = [c \in Clients |-> Idle]

\* What a call makes of its keys.
Effects(op) == IF op = "add" THEN {TRUE} ELSE IF op = "del" THEN {FALSE} ELSE {}

\* The keys of ks that calls under way with one of these operations are about.
Meets(d, ops, ks) == IF asks[d].op \in ops /\ asks[d].out = "none" THEN asks[d].keys \cap ks ELSE {}

\* A call that begins makes its effect possible, and the calls about the same
\* keys may see it.
Begins(c, op, ks) ==
    /\ doubtful' = doubtful \cup
          (IF keeps THEN UNION {Meets(d, IF op \in Writes THEN Reads \cup Writes ELSE Writes, ks) : d \in Clients}
                    ELSE {})
    /\ possible' = [k \in Keys |-> IF k \in doubtful' THEN BOOLEAN
                                   ELSE IF k \in ks THEN possible[k] \cup Effects(op) ELSE possible[k]]
    /\ may' = [d \in Clients |->
                 IF d = c THEN UNION {IF k \in doubtful' THEN BOOLEAN ELSE possible[k] : k \in ks}
                 ELSE may[d] \cup (IF asks[d].keys \cap ks # {} THEN Effects(op) ELSE {})
                             \cup (IF asks[d].keys \cap doubtful' # {} THEN BOOLEAN ELSE {})]
    /\ crossed' = [d \in Clients |->
                 IF op \notin Writes THEN crossed[d]
                 ELSE IF d = c THEN UNION {Meets(e, Writes \ {op}, ks) : e \in Clients}
                 ELSE crossed[d] \cup Meets(d, Writes \ {op}, ks)]

\* A write has succeeded.
Settles(c) ==
    possible' = [k \in Keys |-> IF k \in asks[c].keys \ (crossed[c] \cup doubtful) THEN Effects(asks[c].op)
                                ELSE possible[k]]

Begin(c, op, ks) ==
    /\ asks[c] = Idle
    /\ asks' = [asks EXCEPT ![c] = [op |-> op, keys |-> ks, out |-> "none"]]
    /\ Begins(c, op, ks)
    /\ UNCHANGED keeps

AnswerRead(c) ==
    /\ asks[c].op \in Reads /\ asks[c].out = "none"
    /\ \E out \in {"yes", "no", "error"} :
        /\ out # "error" => (out = "yes") \in may[c]
        /\ asks' = [asks EXCEPT ![c].out = out]
    /\ UNCHANGED <<keeps, told>>

AnswerWrite(c) ==
    /\ asks[c].op \in Writes /\ asks[c].out = "none"
    /\ \/ /\ asks' = [asks EXCEPT ![c].out = "ok"]
          /\ Settles(c)
       \/ /\ \E out \in {"missing", "error"} :
                /\ out = "missing" => asks[c].op = "del" /\ FALSE \in may[c]
                /\ asks' = [asks EXCEPT ![c].out = out]
          /\ UNCHANGED possible
    /\ UNCHANGED <<keeps, may, crossed, doubtful>>

Return(c) ==
    /\ asks[c].out # "none"
    /\ asks' = [asks EXCEPT ![c] = Idle]
    /\ may' = [may EXCEPT ![c] = {}]
    /\ crossed' = [crossed EXCEPT ![c] = {}]
    /\ UNCHANGED <<keeps, possible, doubtful>>

Restart ==
    /\ asks' = [c \in Clients |-> Idle]
    /\ may' = [c \in Clients |-> {}]
    /\ crossed' = [c \in Clients |-> {}]
    /\ doubtful' = {}
    /\ UNCHANGED <<keeps, possible>>

Next ==
    \/ \E c \in Clients, op \in Reads, k \in Keys : Begin(c, op, {k})
    \/ \E c \in Clients, op \in Writes, ks \in SUBSET Keys : Begin(c, op, ks)
    \/ \E c \in Clients : AnswerRead(c) \/ AnswerWrite(c) \/ Return(c)
    \/ Restart

Spec == Init /\ [][Next]_vars
=============================================================================
