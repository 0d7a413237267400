-------------------------------- MODULE Hamt --------------------------------
(***************************************************************************)
(* A directory: one node with all its links, or a hash trie of shards      *)
(* (unixfs/io/dirbuilder.go, unixfs/hamt/hamt.go).  A shard is a function  *)
(* from the bits that are set to its children; children of a shard that    *)
(* was read from disk are loaded one by one, when they are asked for.      *)
(***************************************************************************)
EXTENDS Naturals, Sequences, FiniteSets, Functions

CONSTANTS
    Names, Values, None,
    HashOf,   \* of each name, cut into the pieces that pick a child on each level
    Absent,   \* whether a name may be removed that is not there
    MaxChanges  \* bound: changes of the directory

ASSUME HamtAssumption ==
    /\ None \notin Values /\ Absent \in BOOLEAN /\ MaxChanges \in Nat
    /\ \A m, n \in Names : m # n => HashOf[m] # HashOf[n] /\ Len(HashOf[m]) = Len(HashOf[n])

VARIABLES
    plain,     \* Directory.dirnode, while there is no shard
    shard,     \* Directory.shard
    sharded,   \* which of the two it is
    stored,    \* what GetNode returned last
    flag,      \* UseHAMTSharding of this run of the program
    asked,     \* the last change: a name and its new value
    dirCalls

dirVars == <<plain, shard, sharded, stored, flag, asked, dirCalls>>

\* hashBits.Next: the child a shard of level d looks under.
Piece(key, d) == HashOf[key][d]

NoLinks == [n \in {} |-> None]

Bits(s) == DOMAIN s

\* The entry of a name, or a shard one level down.
Leaf(key, val) == [leaf |-> TRUE, key |-> key, val |-> val, sub |-> NoLinks, loaded |-> TRUE]
Sub(s) == [leaf |-> FALSE, key |-> None, val |-> None, sub |-> s, loaded |-> TRUE]

SetChild(s, i, c) == [j \in Bits(s) \cup {i} |-> IF j = i THEN c ELSE s[j]]

RmChild(s, i) == Restrict(s, Bits(s) \ {i})

Load(s, i) == [s EXCEPT ![i].loaded = TRUE]

Done(s) == [shard |-> s, ok |-> TRUE]
NotExist(s) == [shard |-> s, ok |-> FALSE]

RECURSIVE ModifyValue(_, _, _, _)
\* Mutated: the new entry takes the place of the old one.
Split_drops(c, d, key, val) == Sub(ModifyValue(NoLinks, d, key, val).shard)

\* A leaf gives way to a shard that holds it and the new entry.
Split(c, d, key, val) ==
    Sub(ModifyValue(ModifyValue(NoLinks, d, key, val).shard, d, c.key, c.val).shard)

\* A shard that loses all its children but one entry gives way to it; a child
\* that was not loaded is not known to be an entry.
Collapsed(s, i, r) ==
    IF Bits(r) = {} THEN RmChild(s, i)
    ELSE IF \E j \in Bits(r) : Bits(r) = {j} /\ r[j].leaf /\ r[j].loaded
    THEN SetChild(s, i, r[CHOOSE j \in Bits(r) : TRUE])
    ELSE SetChild(s, i, Sub(r))

\* Without a value the entry goes: whatever its name is.
ModifyValue(s, d, key, val) ==
    LET i == Piece(key, d) IN
    IF i \notin Bits(s)
    THEN IF val = None THEN NotExist(s) ELSE Done(SetChild(s, i, Leaf(key, val)))
    ELSE LET c == s[i] IN
         IF ~c.leaf
         THEN LET r == ModifyValue(c.sub, d + 1, key, val) IN
              IF ~r.ok THEN NotExist(SetChild(s, i, Sub(r.shard)))
              ELSE IF val = None THEN Done(Collapsed(s, i, r.shard))
              ELSE Done(SetChild(s, i, Sub(r.shard)))
         ELSE IF val = None THEN Done(RmChild(s, i))
         ELSE IF c.key = key THEN Done(SetChild(s, i, Leaf(key, val)))
         ELSE Done(SetChild(s, i, Split(c, d + 1, key, val)))

RECURSIVE GetValue(_, _, _)
GetValue(s, d, key) ==
    LET i == Piece(key, d) IN
    IF i \notin Bits(s) THEN None
    ELSE IF ~s[i].leaf THEN GetValue(s[i].sub, d + 1, key)
    ELSE IF s[i].key = key THEN s[i].val ELSE None

RECURSIVE Visited(_, _, _)
\* The shard after a lookup has loaded what is on its way.
Visited(s, d, key) ==
    LET i == Piece(key, d) IN
    IF i \notin Bits(s) THEN s
    ELSE [Load(s, i) EXCEPT ![i].sub = IF s[i].leaf THEN @ ELSE Visited(@, d + 1, key)]

RECURSIVE WalkTrie(_)
WalkTrie(s) ==
    UNION {IF s[i].leaf THEN {<<s[i].key, s[i].val>>} ELSE WalkTrie(s[i].sub) : i \in Bits(s)}

RECURSIVE Marked(_, _)
\* All children, or none, are loaded.
Marked(s, on) == [i \in Bits(s) |-> [s[i] EXCEPT !.loaded = on, !.sub = Marked(@, on)]]

-----------------------------------------------------------------------------

DirInit ==
    /\ plain = NoLinks /\ shard = NoLinks /\ flag \in BOOLEAN /\ sharded = flag
    /\ stored = [sharded |-> sharded, links |-> NoLinks]
    /\ asked = <<>> /\ dirCalls = 0

\* A plain directory becomes a shard by entering its links one by one.
RECURSIVE Entered(_, _)
Entered(s, links) ==
    IF links = NoLinks THEN s
    ELSE LET n == CHOOSE m \in DOMAIN links : TRUE
         IN  Entered(ModifyValue(s, 1, n, links[n]).shard, RmChild(links, n))

DirAddChild(n, v) ==
    /\ IF sharded \/ flag
       THEN /\ shard' = ModifyValue(IF sharded THEN shard ELSE Entered(NoLinks, plain), 1, n, v).shard
            /\ sharded' = TRUE /\ plain' = NoLinks
       ELSE plain' = SetChild(plain, n, v) /\ UNCHANGED <<shard, sharded>>
    /\ asked' = <<n, v>>
    /\ UNCHANGED <<stored, flag>>

Entries ==
    IF sharded
    THEN [n \in Names |-> IF \E e \in WalkTrie(shard) : e[1] = n
                          THEN (CHOOSE e \in WalkTrie(shard) : e[1] = n)[2] ELSE None]
    ELSE [n \in Names |-> IF n \in DOMAIN plain THEN plain[n] ELSE None]

\* `files rm` looks the name up first, `files rm -r` does not.
RemoveChild(n) ==
    /\ Absent \/ Entries[n] # None
    /\ IF sharded THEN shard' = ModifyValue(shard, 1, n, None).shard /\ UNCHANGED plain
       ELSE plain' = RmChild(plain, n) /\ UNCHANGED shard
    /\ asked' = <<n, None>>
    /\ UNCHANGED <<sharded, stored, flag>>

Change ==
    /\ dirCalls < MaxChanges /\ dirCalls' = dirCalls + 1
    /\ \E n \in Names : RemoveChild(n) \/ \E v \in Values : DirAddChild(n, v)

DirFound(n) ==
    IF sharded THEN GetValue(shard, 1, n)
    ELSE IF n \in DOMAIN plain THEN plain[n] ELSE None

Find(n) ==
    /\ sharded /\ shard' = Visited(shard, 1, n)
    /\ UNCHANGED <<plain, sharded, stored, flag, asked, dirCalls>>

ForEachLink ==
    /\ sharded /\ shard' = Marked(shard, TRUE)
    /\ UNCHANGED <<plain, sharded, stored, flag, asked, dirCalls>>

GetNode ==
    /\ stored' = [sharded |-> sharded, links |-> IF sharded THEN Marked(shard, FALSE) ELSE plain]
    /\ UNCHANGED <<plain, shard, sharded, flag, asked, dirCalls>>

\* The directory is read again, in this run of the program or in the next.
NewDirectoryFromNode ==
    /\ flag' \in BOOLEAN
    /\ sharded' = stored.sharded
    /\ plain' = IF stored.sharded THEN NoLinks ELSE stored.links
    /\ shard' = IF stored.sharded THEN stored.links ELSE NoLinks
    /\ asked' = <<>>
    /\ UNCHANGED <<stored, dirCalls>>

DirNext == Change \/ ForEachLink \/ GetNode \/ NewDirectoryFromNode \/ \E n \in Names : Find(n)

DirSpec == DirInit /\ [][DirNext]_dirVars

-----------------------------------------------------------------------------

StoredEntries ==
    [n \in Names |->
        IF ~stored.sharded
        THEN IF n \in DOMAIN stored.links THEN stored.links[n] ELSE None
        ELSE GetValue(stored.links, 1, n)]

Directory == INSTANCE NameMap WITH entries <- Entries, saved <- StoredEntries

\* Splitting and collapsing shards, loading them piecemeal, saving them, and a
\* change of the sharding option change no entry but the one that is named
\* (dirbuilder.go, hamt.go modifyValue).
ImplementsNames == Directory!Spec

RECURSIVE Full(_)
Full(s) ==
    \A i \in Bits(s) :
      ~s[i].leaf => Cardinality(WalkTrie(s[i].sub)) > 1 /\ Full(s[i].sub)

\* The entries alone decide the shape, and with it the CID of the directory:
\* no shard is left that holds a single entry (hamt.go modifyValue).
Canonical == sharded => Full(shard)
=============================================================================
