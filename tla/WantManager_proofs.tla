------------------------- MODULE WantManager_proofs -------------------------
(***************************************************************************)
(* Theorems about what a node tells its partners that it wants, for any    *)
(* number of keys, sessions, partners, broken connections and lost         *)
(* messages: the wantlists, though they share their entries, track exactly *)
(* the sessions that want a key, and a partner whose queue has nothing     *)
(* left to send knows the wants, but for the keys it has missed.           *)
(***************************************************************************)
EXTENDS WantManager, SequenceTheorems, TLAPS

-----------------------------------------------------------------------------
(* The wantlists *)

\* An entry that a list shares is that of the wantlist or of the broadcast wants.
Shared ==
    \A c \in Cids :
        /\ entry[c]["wl"] \in {"wl", "none"} /\ entry[c]["bcwl"] \in {"wl", "bcwl", "none"}
        /\ \A p \in Peers : /\ entry[c][p] \in {p, "wl", "bcwl", "none"}
                            /\ refs[p] = 0 => entry[c][p] = "none"

\* Whom an entry tracks wants the key, a list has no entry that tracks nobody, and the
\* lists that a want went to track it.
Tracking ==
    \A c \in Cids :
        /\ \A e \in Lists : tracks[c][e] \subseteq Wanted(c)
        /\ \A l \in Lists : Has(l, c) => tracks[c][entry[c][l]] # {}
        /\ Wanted(c) # {} => Has("wl", c) /\ tracks[c][entry[c]["wl"]] = Wanted(c)
        /\ \A l \in {"bcwl"} \cup {p \in Peers : refs[p] > 0} :
             Broadcast(c) # {} => Has(l, c) /\ Broadcast(c) \subseteq tracks[c][entry[c][l]]

-----------------------------------------------------------------------------
(* The messages *)

\* Whether a partner that knew the wants `known` knows of c after the messages of a stream.
Kills(m, c) == c \notin m.want /\ c \in About(m)
Arrived(known, s, c) ==
    \/ \E i \in DOMAIN s : c \in s[i].want /\ \A j \in DOMAIN s : j > i => ~Kills(s[j], c)
    \/ c \in known /\ \A j \in DOMAIN s : ~Kills(s[j], c)

\* What p will know of c when its queue has sent what it sends, and what is pending.
Passed(p, c) == c \in sending[p].want \/ (~Kills(sending[p], c) /\ Arrived(ledger[p], wire[p], c))
Final(p, c) == c \in out[p].want \/ (~Kills(out[p], c) /\ Passed(p, c))

\* No message wants what it cancels.
Good(m) == m.want \cap m.cancel = {}
Messages ==
    \A p \in Peers : /\ Good(out[p]) /\ Good(sending[p])
                     /\ \A i \in DOMAIN wire[p] : Good(wire[p][i])
                     /\ \A i \in DOMAIN old[p] : Good(old[p][i])

\* A queue that has been stopped has nothing, and one without a token has nothing to send.
Resting ==
    \A p \in Peers :
        /\ refs[p] = 0 => /\ out[p] = NoMsg /\ ~work[p] /\ at[p] = "idle"
                          /\ wire[p] = <<>> /\ ledger[p] = {}
        /\ at[p] = "idle" => sending[p] = NoMsg
        /\ ~work[p] => Empty(out[p])
        /\ out[p].full => wire[p] = <<>> /\ at[p] = "idle" /\ ledger[p] \subseteq missed[p]

\* The partner will know of the keys that are in the list of its queue.
Told ==
    \A p \in Peers : refs[p] > 0 =>
        \A c \in Cids \ missed[p] : Final(p, c) <=> Has(p, c)

IInv == TypeOK /\ Shared /\ Tracking /\ Messages /\ Resting /\ Told

-----------------------------------------------------------------------------
(* Lemmas about messages *)

LEMMA Names == /\ "wl" \notin Peers /\ "bcwl" \notin Peers /\ "none" \notin Peers /\ "none" \notin Lists
               /\ "wl" \in Lists /\ "bcwl" \in Lists /\ Peers \subseteq Lists
BY WantManagerAssumption DEF Lists

LEMMA Nothing == /\ NoMsg \in Msgs /\ Good(NoMsg) /\ Empty(NoMsg) /\ ~NoMsg.full /\ About(NoMsg) = {}
                 /\ \A c : ~Kills(NoMsg, c) /\ c \notin NoMsg.want
BY DEF NoMsg, Msgs, Good, Empty, About, Kills

\* A want changes a message for its key only, and makes it want that, unless the message cancels it.
LEMMA Adds ==
    ASSUME NEW m \in Msgs, Good(m), NEW c \in Cids, NEW n, n = AddToMsg(m, c)
    PROVE  /\ n \in Msgs /\ Good(n) /\ n.full = m.full /\ ~Empty(n) /\ n.cancel = m.cancel
           /\ c \notin m.cancel => c \in n.want
           /\ \A d : d # c => (d \in n.want <=> d \in m.want) /\ (Kills(n, d) <=> Kills(m, d))
<1>1. CASE c \in m.cancel
    <2>1. n = m
        BY <1>1 DEF AddToMsg
    <2> QED BY <1>1, <2>1 DEF Empty
<1>2. CASE c \notin m.cancel
    <2>1. n = [m EXCEPT !.want = m.want \cup {c}]
        BY <1>2 DEF AddToMsg
    <2>2. n \in Msgs /\ n.full = m.full /\ n.want = m.want \cup {c} /\ n.cancel = m.cancel
        BY <2>1 DEF Msgs
    <2> QED BY <1>2, <2>2 DEF Good, Empty, Kills, About, Msgs
<1> QED BY <1>1, <1>2

LEMMA Cancels ==
    ASSUME NEW m \in Msgs, Good(m), NEW c \in Cids, NEW n, n = CancelInMsg(m, c)
    PROVE  /\ n \in Msgs /\ Good(n) /\ n.full = m.full /\ ~Empty(n)
           /\ Kills(n, c) /\ c \notin n.want
           /\ \A d : d # c => (d \in n.want <=> d \in m.want) /\ (Kills(n, d) <=> Kills(m, d))
<1>1. n \in Msgs /\ n.full = m.full /\ n.want = m.want \ {c} /\ n.cancel = m.cancel \cup {c}
    BY DEF CancelInMsg, Msgs
<1> QED BY <1>1 DEF Good, Empty, Kills, About, Msgs

\* What the partner's ledger does with a message.
LEMMA Applies ==
    ASSUME NEW m \in Msgs, Good(m), NEW known, known \subseteq Cids
    PROVE  /\ Apply(known, m) \subseteq Cids
           /\ \A c \in Cids : c \in Apply(known, m) <=> c \in m.want \/ (c \in known /\ ~Kills(m, c))
BY DEF Apply, Msgs, Good, Kills, About

-----------------------------------------------------------------------------
(* Lemmas about streams *)

LEMMA Unheard ==
    ASSUME NEW s \in Seq(Msgs), NEW c, \A i \in DOMAIN s : c \notin About(s[i]), NEW known
    PROVE  Arrived(known, s, c) <=> c \in known
<1>1. \A i \in DOMAIN s : c \notin s[i].want
    <2>1. \A i \in DOMAIN s : s[i] \in Msgs
        BY LenProperties, ElementOfSeq
    <2> QED BY <2>1 DEF About, Msgs
<1> QED BY <1>1 DEF Arrived, Kills

LEMMA Silence == ASSUME NEW c, NEW known PROVE Arrived(known, <<>>, c) <=> c \in known
BY DEF Arrived

LEMMA Sends ==
    ASSUME NEW s \in Seq(Msgs), NEW m \in Msgs, NEW c, NEW known
    PROVE  Arrived(known, Append(s, m), c) <=> c \in m.want \/ (Arrived(known, s, c) /\ ~Kills(m, c))
<1> DEFINE t == Append(s, m)
<1>1. PICK n \in Nat : n = Len(s) /\ DOMAIN s = 1 .. n /\ DOMAIN t = 1 .. n + 1 /\ t[n + 1] = m
    BY LenProperties, AppendProperties
<1>2. \A i \in 1 .. n : t[i] = s[i]
    BY <1>1, AppendProperties
<1> HIDE DEF t
<1>3. Arrived(known, t, c) <=>
        \/ \E i \in 1 .. n + 1 : c \in t[i].want /\ \A j \in 1 .. n + 1 : j > i => ~Kills(t[j], c)
        \/ c \in known /\ \A j \in 1 .. n + 1 : ~Kills(t[j], c)
    BY <1>1 DEF Arrived
<1>4. Arrived(known, s, c) <=>
        \/ \E i \in 1 .. n : c \in s[i].want /\ \A j \in 1 .. n : j > i => ~Kills(s[j], c)
        \/ c \in known /\ \A j \in 1 .. n : ~Kills(s[j], c)
    BY <1>1 DEF Arrived
<1>5. ASSUME c \in m.want PROVE Arrived(known, t, c)
    <2>1. n + 1 \in 1 .. n + 1 /\ \A j \in 1 .. n + 1 : ~(j > n + 1)
        OBVIOUS
    <2> QED BY <1>1, <1>3, <1>5, <2>1
<1>6. ASSUME Arrived(known, s, c), ~Kills(m, c) PROVE Arrived(known, t, c)
    <2>1. \A j \in 1 .. n + 1 : j \in 1 .. n \/ j = n + 1
        OBVIOUS
    <2>2. CASE c \in known /\ \A j \in 1 .. n : ~Kills(s[j], c)
        BY <1>1, <1>2, <1>3, <1>6, <2>1, <2>2
    <2>3. ASSUME NEW i \in 1 .. n, c \in s[i].want, \A j \in 1 .. n : j > i => ~Kills(s[j], c)
          PROVE  Arrived(known, t, c)
        <3>1. i \in 1 .. n + 1 /\ c \in t[i].want
            BY <1>2, <2>3
        <3>2. \A j \in 1 .. n + 1 : j > i => ~Kills(t[j], c)
            BY <1>1, <1>2, <1>6, <2>1, <2>3
        <3> QED BY <1>3, <3>1, <3>2
    <2> QED BY <1>4, <1>6, <2>2, <2>3
<1>7. ASSUME Arrived(known, t, c), c \notin m.want PROVE Arrived(known, s, c) /\ ~Kills(m, c)
    <2>1. n + 1 \in 1 .. n + 1 /\ \A j \in 1 .. n : j \in 1 .. n + 1 /\ n + 1 > j
        OBVIOUS
    <2>2. CASE c \in known /\ \A j \in 1 .. n + 1 : ~Kills(t[j], c)
        BY <1>1, <1>2, <1>4, <2>1, <2>2
    <2>3. ASSUME NEW i \in 1 .. n + 1, c \in t[i].want, \A j \in 1 .. n + 1 : j > i => ~Kills(t[j], c)
          PROVE  Arrived(known, s, c) /\ ~Kills(m, c)
        <3>1. i \in 1 .. n
            BY <1>1, <1>7, <2>3
        <3>2. c \in s[i].want /\ \A j \in 1 .. n : j > i => ~Kills(s[j], c)
            BY <1>2, <2>1, <2>3, <3>1
        <3>3. ~Kills(m, c)
            BY <1>1, <2>1, <2>3, <3>1
        <3> QED BY <1>4, <3>1, <3>2, <3>3
    <2> QED BY <1>3, <1>7, <2>2, <2>3
<1>8. c \in m.want => ~Kills(m, c)
    BY DEF Kills
<1>9. Arrived(known, t, c) <=> c \in m.want \/ (Arrived(known, s, c) /\ ~Kills(m, c))
    BY <1>5, <1>6, <1>7, <1>8
<1> QED BY <1>9 DEF t

LEMMA Hears ==
    ASSUME NEW s \in Seq(Msgs), s # <<>>, NEW c \in Cids, NEW known, known \subseteq Cids, Good(Head(s))
    PROVE  Arrived(Apply(known, Head(s)), Tail(s), c) <=> Arrived(known, s, c)
<1> DEFINE t == Tail(s)
           h == Head(s)
           k == Apply(known, h)
<1>1. PICK n \in Nat : n + 1 = Len(s) /\ DOMAIN s = 1 .. n + 1 /\ DOMAIN t = 1 .. n /\ s[1] = h
    <2>1. Len(s) \in Nat /\ Len(s) # 0 /\ DOMAIN s = 1 .. Len(s)
        BY EmptySeq, LenProperties
    <2>2. Len(t) = Len(s) - 1 /\ DOMAIN t = 1 .. Len(t)
        BY HeadTailProperties, LenProperties
    <2>3. s[1] = h
        OBVIOUS
    <2>4. Len(s) - 1 \in Nat /\ (Len(s) - 1) + 1 = Len(s)
        BY <2>1
    <2> QED BY <2>1, <2>2, <2>3, <2>4
<1>2. \A i \in 1 .. n : t[i] = s[i + 1]
    <2>1. Len(t) = n
        BY <1>1, HeadTailProperties
    <2> QED BY <2>1, HeadTailProperties
<1>3. h \in Msgs /\ (c \in k <=> c \in h.want \/ (c \in known /\ ~Kills(h, c)))
    BY HeadTailProperties, Applies
<1> HIDE DEF t, h, k
<1>4. Arrived(k, t, c) <=>
        \/ \E i \in 1 .. n : c \in t[i].want /\ \A j \in 1 .. n : j > i => ~Kills(t[j], c)
        \/ c \in k /\ \A j \in 1 .. n : ~Kills(t[j], c)
    BY <1>1 DEF Arrived
<1>5. Arrived(known, s, c) <=>
        \/ \E i \in 1 .. n + 1 : c \in s[i].want /\ \A j \in 1 .. n + 1 : j > i => ~Kills(s[j], c)
        \/ c \in known /\ \A j \in 1 .. n + 1 : ~Kills(s[j], c)
    BY <1>1 DEF Arrived
<1>6. \A j \in 1 .. n + 1 : j = 1 \/ (j - 1 \in 1 .. n /\ s[j] = t[j - 1] /\ j > 1)
    <2> SUFFICES ASSUME NEW j \in 1 .. n + 1, j # 1 PROVE j - 1 \in 1 .. n /\ s[j] = t[j - 1] /\ j > 1
        OBVIOUS
    <2>1. j - 1 \in 1 .. n /\ (j - 1) + 1 = j /\ j > 1
        OBVIOUS
    <2> QED BY <1>2, <2>1
<1>7. \A j \in 1 .. n : j + 1 \in 1 .. n + 1 /\ j + 1 # 1 /\ t[j] = s[j + 1]
    BY <1>2
<1>8. ASSUME Arrived(k, t, c) PROVE Arrived(known, s, c)
    <2>1. ASSUME NEW i \in 1 .. n, c \in t[i].want, \A j \in 1 .. n : j > i => ~Kills(t[j], c)
          PROVE  Arrived(known, s, c)
        <3>1. i + 1 \in 1 .. n + 1 /\ c \in s[i + 1].want
            BY <1>7, <2>1
        <3>2. ASSUME NEW j \in 1 .. n + 1, j > i + 1 PROVE ~Kills(s[j], c)
            <4>1. j - 1 \in 1 .. n /\ s[j] = t[j - 1] /\ j - 1 > i
                BY <1>6, <3>2
            <4> QED BY <2>1, <4>1
        <3> QED BY <1>5, <3>1, <3>2
    <2>2. ASSUME c \in k, \A j \in 1 .. n : ~Kills(t[j], c) PROVE Arrived(known, s, c)
        <3>1. \A j \in 1 .. n + 1 : j > 1 => ~Kills(s[j], c)
            BY <1>6, <2>2
        <3>2. CASE c \in h.want
            <4>1. 1 \in 1 .. n + 1 /\ c \in s[1].want
                BY <1>1, <3>2
            <4> QED BY <1>5, <3>1, <4>1
        <3>3. CASE c \in known /\ ~Kills(h, c)
            <4>1. \A j \in 1 .. n + 1 : ~Kills(s[j], c)
                BY <1>1, <1>6, <3>1, <3>3
            <4> QED BY <1>5, <3>3, <4>1
        <3> QED BY <1>3, <2>2, <3>2, <3>3
    <2> QED BY <1>4, <1>8, <2>1, <2>2
<1>9. ASSUME Arrived(known, s, c) PROVE Arrived(k, t, c)
    <2>1. ASSUME NEW i \in 1 .. n + 1, c \in s[i].want, \A j \in 1 .. n + 1 : j > i => ~Kills(s[j], c)
          PROVE  Arrived(k, t, c)
        <3>1. CASE i = 1
            <4>1. c \in k
                BY <1>1, <1>3, <2>1, <3>1
            <4>2. \A j \in 1 .. n : ~Kills(t[j], c)
                BY <1>7, <2>1, <3>1
            <4> QED BY <1>4, <4>1, <4>2
        <3>2. CASE i # 1
            <4>1. i - 1 \in 1 .. n /\ c \in t[i - 1].want
                BY <1>6, <2>1, <3>2
            <4>2. \A j \in 1 .. n : j > i - 1 => ~Kills(t[j], c)
                BY <1>7, <2>1
            <4> QED BY <1>4, <4>1, <4>2
        <3> QED BY <3>1, <3>2
    <2>2. ASSUME c \in known, \A j \in 1 .. n + 1 : ~Kills(s[j], c) PROVE Arrived(k, t, c)
        <3>1. c \in k
            <4>1. ~Kills(h, c)
                BY <1>1, <2>2
            <4> QED BY <1>3, <2>2, <4>1
        <3>2. \A j \in 1 .. n : ~Kills(t[j], c)
            BY <1>7, <2>2
        <3> QED BY <1>4, <3>1, <3>2
    <2> QED BY <1>5, <1>9, <2>1, <2>2
<1>10. Arrived(k, t, c) <=> Arrived(known, s, c)
    BY <1>8, <1>9
<1> QED BY <1>10 DEF k, t, h

-----------------------------------------------------------------------------
(* The wantlists *)

\* The lists that a want goes to, those that have no entry yet, and the entries they get.
In(ps, all) == {"wl"} \cup (IF all THEN {"bcwl"} ELSE {}) \cup ps
New(c, ps, all) == {l \in In(ps, all) : ~Has(l, c)}
Made(c, ps, all) ==
    [l \in Lists |-> IF l \notin New(c, ps, all) THEN entry[c][l]
                     ELSE IF l = "bcwl" /\ "wl" \in New(c, ps, all) THEN "wl" ELSE l]

\* For a session that asks all, or has asked already, or asks some partners.
LEMMA WantTracks ==
    ASSUME TypeOK, Shared, Tracking, NEW s \in Sessions, NEW c \in Cids,
           NEW ps \in SUBSET {p \in Peers : refs[p] > 0}, NEW all \in BOOLEAN, Want(s, c, ps, all),
           all => ps = {p \in Peers : refs[p] > 0}, UNCHANGED refs,
           NEW how \in {"some", "all"}, asked' = [asked EXCEPT ![s][c] = how],
           how = "all" => all \/ asked[s][c] = "all"
    PROVE  Shared' /\ Tracking'
<1> DEFINE in == In(ps, all)
           new == New(c, ps, all)
           made == Made(c, ps, all)
<1>1. /\ in \subseteq Lists /\ "wl" \in in
      /\ \A l \in in \ Peers : l \in {"wl", "bcwl"} /\ (l = "bcwl" => all)
      /\ \A p \in in \cap Peers : p \in ps
    <2>1. \A l \in in : l = "wl" \/ (l = "bcwl" /\ all) \/ l \in ps
        BY DEF In
    <2>2. "wl" \in in
        BY DEF In
    <2> HIDE DEF in
    <2>3. \A p \in ps : p \in Peers
        OBVIOUS
    <2> QED BY <2>1, <2>2, <2>3, Names
<1>0. made \in [Lists -> Lists \cup {"none"}]
    BY Names DEF Made, TypeOK
<1>2. /\ \A d \in Cids : d # c => entry'[d] = entry[d] /\ tracks'[d] = tracks[d]
      /\ entry'[c] = made
      /\ \A e \in Lists : tracks'[c][e] = IF \E l \in in : made[l] = e THEN tracks[c][e] \cup {s} ELSE tracks[c][e]
    <2>1. entry' = [entry EXCEPT ![c] = made]
        BY DEF Want, Made, New, In
    <2>2. tracks' = [tracks EXCEPT ![c] = [e \in Lists |->
                        IF \E l \in in : made[l] = e THEN tracks[c][e] \cup {s} ELSE tracks[c][e]]]
        BY DEF Want, Made, New, In, TypeOK
    <2> HIDE DEF made, in
    <2> QED BY <2>1, <2>2 DEF TypeOK
<1>3. \A l \in Lists : made[l] = IF l \notin new THEN entry[c][l]
                                 ELSE IF l = "bcwl" /\ "wl" \in new THEN "wl" ELSE l
    BY DEF Made
<1>4. \A l \in Lists : l \in new <=> l \in in /\ entry[c][l] = "none"
    BY <1>1 DEF New, Has
<1> HIDE DEF in, new, made
<1>5. /\ \A d \in Cids : d # c => Wanted(d)' = Wanted(d) /\ Broadcast(d)' = Broadcast(d)
      /\ Wanted(c)' = Wanted(c) \cup {s}
      /\ Broadcast(c)' \subseteq Broadcast(c) \cup (IF all THEN {s} ELSE {})
    BY DEF Wanted, Broadcast, TypeOK
<1>6. Shared'
    <2>1. made["wl"] \in {"wl", "none"} /\ made["bcwl"] \in {"wl", "bcwl", "none"}
        BY <1>3, <1>4, Names DEF Shared
    <2>2. \A p \in Peers : /\ made[p] \in {p, "wl", "bcwl", "none"}
                           /\ refs[p] = 0 => made[p] = "none"
        <3>1. \A p \in Peers : refs[p] = 0 => p \notin in
            BY <1>1
        <3> QED BY <1>3, <1>4, <3>1, Names DEF Shared
    <2> QED BY <1>2, <2>1, <2>2 DEF Shared
\* The lists that the want goes to have an entry, and it tracks s.
<1>7. \A l \in in : made[l] # "none" /\ made[l] \in Lists /\ tracks'[c][made[l]] = tracks[c][made[l]] \cup {s}
    <2> SUFFICES ASSUME NEW l \in in
                 PROVE  made[l] # "none" /\ made[l] \in Lists /\ tracks'[c][made[l]] = tracks[c][made[l]] \cup {s}
        OBVIOUS
    <2>1. l \in Lists /\ made[l] # "none"
        BY <1>1, <1>3, <1>4, Names
    <2>2. made[l] \in Lists
        BY <1>0, <2>1
    <2>3. PICK e \in Lists : e = made[l]
        BY <2>2
    <2>4. tracks'[c][e] = tracks[c][e] \cup {s}
        BY <1>2, <2>3
    <2> QED BY <2>1, <2>3, <2>4
\* The others have the entry they had.
<1>8. \A l \in Lists \ in : made[l] = entry[c][l]
    BY <1>3, <1>4
<1>9. \A e \in Lists : tracks[c][e] \subseteq tracks'[c][e] /\ tracks'[c][e] \subseteq tracks[c][e] \cup {s}
    <2>1. \A e \in Lists : tracks'[c][e] \in {tracks[c][e], tracks[c][e] \cup {s}}
        BY <1>2
    <2> QED BY <1>2, <2>1
<1>10. \A e \in Lists : tracks'[c][e] \subseteq Wanted(c)'
    BY <1>5, <1>9 DEF Tracking
<1>11. \A l \in Lists : made[l] # "none" => tracks'[c][made[l]] # {}
    <2> SUFFICES ASSUME NEW l \in Lists, made[l] # "none" PROVE tracks'[c][made[l]] # {}
        OBVIOUS
    <2>1. CASE l \in in
        BY <1>7, <2>1
    <2>2. CASE l \notin in
        <3>1. made[l] = entry[c][l] /\ made[l] \in Lists
            BY <1>0, <1>8, <2>2
        <3> QED BY <1>9, <3>1 DEF Tracking, Has
    <2> QED BY <2>1, <2>2
<1>12. made["wl"] # "none" /\ tracks'[c][made["wl"]] = Wanted(c)'
    <2>1. made["wl"] # "none" /\ tracks'[c][made["wl"]] = tracks[c][made["wl"]] \cup {s} /\ made["wl"] \in Lists
        BY <1>1, <1>7
    <2>2. CASE Has("wl", c)
        <3>1. made["wl"] = entry[c]["wl"]
            BY <1>3, <1>4, <2>2, Names DEF Has
        <3>2. Wanted(c) # {}
            <4>1. entry[c]["wl"] \in Lists /\ tracks[c][entry[c]["wl"]] # {}
                BY <2>2, Names DEF Tracking, Has, TypeOK
            <4> QED BY <4>1 DEF Tracking
        <3>3. tracks[c][made["wl"]] = Wanted(c)
            BY <3>1, <3>2 DEF Tracking
        <3> QED BY <1>5, <2>1, <3>3
    <2>3. CASE ~Has("wl", c)
        <3>1. Wanted(c) = {}
            BY <2>3 DEF Tracking
        <3>2. tracks[c][made["wl"]] = {}
            BY <2>1, <3>1 DEF Tracking
        <3> QED BY <1>5, <2>1, <3>1, <3>2
    <2> QED BY <2>2, <2>3
<1>13. ASSUME NEW l \in {"bcwl"} \cup {p \in Peers : refs[p] > 0}, Broadcast(c)' # {}
       PROVE  made[l] # "none" /\ Broadcast(c)' \subseteq tracks'[c][made[l]]
    <2>0. l \in Lists
        BY <1>13, Names
    <2>1. CASE Broadcast(c) = {}
        <3>1. all /\ Broadcast(c)' = {s}
            BY <1>5, <1>13, <2>1
        <3>2. l \in in
            BY <1>13, <3>1 DEF In, in
        <3> QED BY <1>7, <3>1, <3>2
    <2>2. CASE Broadcast(c) # {}
        <3>1. entry[c][l] # "none" /\ Broadcast(c) \subseteq tracks[c][entry[c][l]]
            BY <1>13, <2>2 DEF Tracking, Has
        <3>2. made[l] = entry[c][l] /\ made[l] \in Lists
            BY <1>0, <1>3, <1>4, <2>0, <3>1
        <3>3. CASE all
            <4>1. l \in in
                BY <1>13, <3>3 DEF In, in
            <4> QED BY <1>5, <1>7, <3>1, <3>2, <4>1
        <3>4. CASE ~all
            BY <1>5, <1>9, <3>1, <3>2, <3>4
        <3> QED BY <3>3, <3>4
    <2> QED BY <2>1, <2>2
<1>14. Tracking'
    <2> SUFFICES ASSUME NEW d \in Cids
                 PROVE  /\ \A e \in Lists : tracks'[d][e] \subseteq Wanted(d)'
                        /\ \A l \in Lists : entry'[d][l] # "none" => tracks'[d][entry'[d][l]] # {}
                        /\ Wanted(d)' # {} => entry'[d]["wl"] # "none" /\ tracks'[d][entry'[d]["wl"]] = Wanted(d)'
                        /\ \A l \in {"bcwl"} \cup {p \in Peers : refs[p] > 0} :
                             Broadcast(d)' # {} => entry'[d][l] # "none" /\ Broadcast(d)' \subseteq tracks'[d][entry'[d][l]]
        BY DEF Tracking, Has
    <2>1. CASE d = c
        BY <1>2, <1>10, <1>11, <1>12, <1>13, <2>1
    <2>2. CASE d # c
        BY <1>2, <1>5, <2>2 DEF Tracking, Has
    <2> QED BY <2>1, <2>2
<1> QED BY <1>6, <1>14

LEMMA CancelTracks ==
    ASSUME TypeOK, Shared, Tracking, NEW s \in Sessions, NEW c \in Cids, CancelWants(s, c)
    PROVE  Shared' /\ Tracking'
<1> DEFINE left == [e \in Lists |-> tracks[c][e] \ {s}]
           dropped == {l \in Lists : Has(l, c) /\ left[entry[c][l]] = {}}
<1>1. /\ tracks' = [tracks EXCEPT ![c] = left]
      /\ entry' = [entry EXCEPT ![c] = [l \in Lists |-> IF l \in dropped THEN "none" ELSE entry[c][l]]]
      /\ asked' = [asked EXCEPT ![s][c] = "none"]
      /\ UNCHANGED refs
    BY DEF CancelWants, TypeOK
<1>2. \A l \in Lists : Has(l, c) => entry[c][l] \in Lists
    BY DEF TypeOK, Has
<1>3. \A l \in Lists : l \in dropped <=> Has(l, c) /\ tracks[c][entry[c][l]] \subseteq {s}
    BY <1>2
<1> HIDE DEF dropped
<1>4. /\ \A d \in Cids : d # c => entry'[d] = entry[d] /\ tracks'[d] = tracks[d]
      /\ \A l \in Lists : entry'[c][l] = IF l \in dropped THEN "none" ELSE entry[c][l]
      /\ \A e \in Lists : tracks'[c][e] = tracks[c][e] \ {s}
    BY <1>1 DEF TypeOK
<1>5. /\ \A d \in Cids : d # c => Wanted(d)' = Wanted(d) /\ Broadcast(d)' = Broadcast(d)
      /\ Wanted(c)' = Wanted(c) \ {s} /\ Broadcast(c)' = Broadcast(c) \ {s}
    BY <1>1 DEF Wanted, Broadcast, TypeOK
<1>6. Shared'
    BY <1>1, <1>4, Names DEF Shared
<1>7. \A l \in Lists : entry'[c][l] # "none" =>
        Has(l, c) /\ l \notin dropped /\ entry'[c][l] = entry[c][l] /\ entry[c][l] \in Lists
    BY <1>2, <1>4 DEF Has
<1>8. \A l \in Lists : entry'[c][l] # "none" => tracks'[c][entry'[c][l]] # {}
    BY <1>3, <1>4, <1>7
<1>9. ASSUME Wanted(c)' # {} PROVE entry'[c]["wl"] # "none" /\ tracks'[c][entry'[c]["wl"]] = Wanted(c)'
    <2>1. Has("wl", c) /\ tracks[c][entry[c]["wl"]] = Wanted(c)
        BY <1>5, <1>9 DEF Tracking
    <2>2. "wl" \notin dropped
        BY <1>3, <1>5, <1>9, <2>1, Names
    <2> QED BY <1>2, <1>4, <1>5, <2>1, <2>2, Names DEF Has
<1>10. ASSUME NEW l \in {"bcwl"} \cup {p \in Peers : refs[p] > 0}, Broadcast(c)' # {}
       PROVE  entry'[c][l] # "none" /\ Broadcast(c)' \subseteq tracks'[c][entry'[c][l]]
    <2>1. l \in Lists
        BY Names
    <2>2. Has(l, c) /\ Broadcast(c) \subseteq tracks[c][entry[c][l]]
        BY <1>5, <1>10 DEF Tracking
    <2>3. l \notin dropped
        BY <1>3, <1>5, <1>10, <2>1, <2>2
    <2> QED BY <1>2, <1>4, <1>5, <2>1, <2>2, <2>3 DEF Has
<1>11. Tracking'
    <2> SUFFICES ASSUME NEW d \in Cids
                 PROVE  /\ \A e \in Lists : tracks'[d][e] \subseteq Wanted(d)'
                        /\ \A l \in Lists : entry'[d][l] # "none" => tracks'[d][entry'[d][l]] # {}
                        /\ Wanted(d)' # {} => entry'[d]["wl"] # "none" /\ tracks'[d][entry'[d]["wl"]] = Wanted(d)'
                        /\ \A l \in {"bcwl"} \cup {p \in Peers : refs[p] > 0} :
                             Broadcast(d)' # {} => entry'[d][l] # "none" /\ Broadcast(d)' \subseteq tracks'[d][entry'[d][l]]
        BY <1>1 DEF Tracking, Has
    <2>1. CASE d = c
        <3>1. \A e \in Lists : tracks'[c][e] \subseteq Wanted(c)'
            BY <1>4, <1>5 DEF Tracking
        <3> QED BY <1>8, <1>9, <1>10, <2>1, <3>1
    <2>2. CASE d # c
        BY <1>4, <1>5, <2>2 DEF Tracking, Has
    <2> QED BY <2>1, <2>2
<1> QED BY <1>6, <1>11

\* A step that leaves the lists alone, and the partners that have a queue.
LEMMA StillTracks ==
    ASSUME Shared, Tracking, UNCHANGED manager, UNCHANGED asked,
           \A p \in Peers : (refs'[p] = 0 => refs[p] = 0) /\ (refs'[p] > 0 => refs[p] > 0)
    PROVE  Shared' /\ Tracking'
<1>1. \A d \in Cids : Wanted(d)' = Wanted(d) /\ Broadcast(d)' = Broadcast(d)
    BY DEF Wanted, Broadcast
<1>2. Shared'
    BY DEF Shared, manager
<1>3. Tracking'
    BY <1>1 DEF Tracking, Has, manager
<1> QED BY <1>2, <1>3

LEMMA ConnectTracks ==
    ASSUME TypeOK, Shared, Tracking, NEW p \in Peers, Connect(p)
    PROVE  Shared' /\ Tracking'
<1>1. /\ UNCHANGED <<tracks, asked>> /\ refs' = [refs EXCEPT ![p] = refs[p] + 1]
      /\ \A q \in Peers : refs[q] \in Nat
    BY DEF Connect, TypeOK
<1>2. CASE refs[p] > 0
    <2>1. UNCHANGED manager
        BY <1>1, <1>2 DEF Connect, manager
    <2>2. \A q \in Peers : (refs'[q] = 0 => refs[q] = 0) /\ (refs'[q] > 0 => refs[q] > 0)
        BY <1>1, <1>2 DEF TypeOK
    <2> QED BY <1>1, <2>1, <2>2, StillTracks
<1>3. CASE ~(refs[p] > 0)
    <2>1. \A c \in Cids : /\ \A l \in Lists : entry'[c][l] = IF l = p THEN entry[c]["bcwl"] ELSE entry[c][l]
        BY <1>3, Names DEF Connect, TypeOK
    <2>2. \A d \in Cids : Wanted(d)' = Wanted(d) /\ Broadcast(d)' = Broadcast(d)
        BY <1>1 DEF Wanted, Broadcast
    <2>3. refs'[p] > 0 /\ \A q \in Peers : q # p => refs'[q] = refs[q]
        BY <1>1 DEF TypeOK
    <2>4. Shared'
        BY <2>1, <2>3, Names DEF Shared
    <2>5. Tracking'
        <3> SUFFICES ASSUME NEW d \in Cids
                     PROVE  /\ \A l \in Lists : entry'[d][l] # "none" => tracks[d][entry'[d][l]] # {}
                            /\ Wanted(d) # {} => entry'[d]["wl"] # "none" /\ tracks[d][entry'[d]["wl"]] = Wanted(d)
                            /\ \A l \in {"bcwl"} \cup {q \in Peers : refs'[q] > 0} :
                                 Broadcast(d) # {} => entry'[d][l] # "none" /\ Broadcast(d) \subseteq tracks[d][entry'[d][l]]
            BY <1>1, <2>2 DEF Tracking, Has
        <3>1. \A l \in Lists : entry'[d][l] # "none" => tracks[d][entry'[d][l]] # {}
            BY <2>1, Names DEF Tracking, Has
        <3>2. Wanted(d) # {} => entry'[d]["wl"] # "none" /\ tracks[d][entry'[d]["wl"]] = Wanted(d)
            BY <2>1, Names DEF Tracking, Has
        <3>3. ASSUME NEW l \in {"bcwl"} \cup {q \in Peers : refs'[q] > 0}, Broadcast(d) # {}
              PROVE  entry'[d][l] # "none" /\ Broadcast(d) \subseteq tracks[d][entry'[d][l]]
            <4>1. PICK k : k \in {"bcwl"} \cup {q \in Peers : refs[q] > 0} /\ entry'[d][l] = entry[d][k]
                BY <2>1, <2>3, <3>3, Names
            <4> QED BY <3>3, <4>1 DEF Tracking, Has
        <3> QED BY <3>1, <3>2, <3>3
    <2> QED BY <2>4, <2>5
<1> QED BY <1>2, <1>3

LEMMA DisconnectTracks ==
    ASSUME TypeOK, Shared, Tracking, NEW p \in Peers, Disconnect(p)
    PROVE  Shared' /\ Tracking'
<1>1. /\ \A d \in Cids, l \in Lists : /\ entry'[d][l] = IF l = p THEN "none" ELSE entry[d][l]
                                      /\ tracks'[d][l] = IF l = p THEN {} ELSE tracks[d][l]
      /\ UNCHANGED asked
    BY Names DEF Disconnect, TypeOK, history
<1>2. refs'[p] = 0 /\ \A q \in Peers : q # p => refs'[q] = refs[q]
    BY DEF Disconnect, TypeOK
<1>3. \A d \in Cids : Wanted(d)' = Wanted(d) /\ Broadcast(d)' = Broadcast(d)
    BY <1>1 DEF Wanted, Broadcast
<1>4. Shared'
    BY <1>1, <1>2, Names DEF Shared
<1>5. \A d \in Cids, l \in Lists : entry'[d][l] # "none" =>
        l # p /\ entry'[d][l] = entry[d][l] /\ entry[d][l] \in Lists /\ entry[d][l] # p
    <2> SUFFICES ASSUME NEW d \in Cids, NEW l \in Lists, entry'[d][l] # "none"
                 PROVE  l # p /\ entry'[d][l] = entry[d][l] /\ entry[d][l] \in Lists /\ entry[d][l] # p
        OBVIOUS
    <2>1. l # p /\ entry'[d][l] = entry[d][l] /\ entry[d][l] \in Lists
        BY <1>1 DEF TypeOK
    <2>2. entry[d][l] # p
        BY <2>1, Names DEF Shared, Lists
    <2> QED BY <2>1, <2>2
<1>6. \A d \in Cids, l \in Lists : entry'[d][l] # "none" => tracks'[d][entry'[d][l]] = tracks[d][entry[d][l]]
    BY <1>1, <1>5
<1>7. Tracking'
    <2> SUFFICES ASSUME NEW d \in Cids
                 PROVE  /\ \A e \in Lists : tracks'[d][e] \subseteq Wanted(d)
                        /\ \A l \in Lists : entry'[d][l] # "none" => tracks'[d][entry'[d][l]] # {}
                        /\ Wanted(d) # {} => entry'[d]["wl"] # "none" /\ tracks'[d][entry'[d]["wl"]] = Wanted(d)
                        /\ \A l \in {"bcwl"} \cup {q \in Peers : refs'[q] > 0} :
                             Broadcast(d) # {} => entry'[d][l] # "none" /\ Broadcast(d) \subseteq tracks'[d][entry'[d][l]]
        BY <1>1, <1>3 DEF Tracking, Has
    <2>1. \A e \in Lists : tracks'[d][e] \subseteq Wanted(d)
        BY <1>1 DEF Tracking
    <2>2. \A l \in Lists : entry'[d][l] # "none" => tracks'[d][entry'[d][l]] # {}
        BY <1>5, <1>6 DEF Tracking, Has
    <2>3. ASSUME Wanted(d) # {} PROVE entry'[d]["wl"] # "none" /\ tracks'[d][entry'[d]["wl"]] = Wanted(d)
        <3>1. Has("wl", d) /\ tracks[d][entry[d]["wl"]] = Wanted(d)
            BY <2>3 DEF Tracking
        <3>2. entry'[d]["wl"] # "none"
            BY <1>1, <3>1, Names DEF Has
        <3> QED BY <1>6, <3>1, <3>2, Names
    <2>4. ASSUME NEW l \in {"bcwl"} \cup {q \in Peers : refs'[q] > 0}, Broadcast(d) # {}
          PROVE  entry'[d][l] # "none" /\ Broadcast(d) \subseteq tracks'[d][entry'[d][l]]
        <3>1. l \in Lists /\ l # p /\ l \in {"bcwl"} \cup {q \in Peers : refs[q] > 0}
            BY <1>2, <2>4, Names
        <3>2. Has(l, d) /\ Broadcast(d) \subseteq tracks[d][entry[d][l]]
            BY <2>4, <3>1 DEF Tracking
        <3>3. entry'[d][l] # "none"
            BY <1>1, <3>1, <3>2 DEF Has
        <3> QED BY <1>6, <3>1, <3>2, <3>3
    <2> QED BY <2>1, <2>2, <2>3, <2>4
<1> QED BY <1>4, <1>7

-----------------------------------------------------------------------------
(* Types *)

LEMMA WantTypes ==
    ASSUME TypeOK, Messages, NEW s \in Sessions, NEW c \in Cids, NEW ps \in SUBSET Peers, NEW all \in BOOLEAN,
           Want(s, c, ps, all)
    PROVE  /\ entry' \in [Cids -> [Lists -> Lists \cup {"none"}]]
           /\ tracks' \in [Cids -> [Lists -> SUBSET Sessions]]
           /\ out' \in [Peers -> Msgs] /\ \A p \in Peers : Good(out'[p])
           /\ work' \in [Peers -> BOOLEAN] /\ missed' \in [Peers -> SUBSET Cids]
<1> DEFINE in == In(ps, all)
           new == New(c, ps, all)
           made == Made(c, ps, all)
<1>1. made \in [Lists -> Lists \cup {"none"}]
    BY Names DEF Made, TypeOK
<1>2. /\ entry' = [entry EXCEPT ![c] = made]
      /\ tracks' = [tracks EXCEPT ![c] = [e \in Lists |->
                        IF \E l \in in : made[l] = e THEN tracks[c][e] \cup {s} ELSE tracks[c][e]]]
      /\ out' = [p \in Peers |-> IF p \in new THEN AddToMsg(out[p], c) ELSE out[p]]
      /\ work' = [p \in Peers |-> work[p] \/ p \in new]
      /\ missed' = [p \in Peers |-> IF p \in new /\ c \in out[p].cancel THEN missed[p] \cup {c} ELSE missed[p]]
    BY DEF Want, Made, New, In, TypeOK
<1> HIDE DEF in, new, made
<1>3. entry' \in [Cids -> [Lists -> Lists \cup {"none"}]]
    BY <1>1, <1>2 DEF TypeOK
<1>4. tracks' \in [Cids -> [Lists -> SUBSET Sessions]]
    BY <1>2 DEF TypeOK
<1>5. \A p \in Peers : AddToMsg(out[p], c) \in Msgs /\ Good(AddToMsg(out[p], c))
    BY Adds DEF TypeOK, Messages
<1>6. out' \in [Peers -> Msgs] /\ \A p \in Peers : Good(out'[p])
    BY <1>2, <1>5 DEF TypeOK, Messages
<1>7. work' \in [Peers -> BOOLEAN]
    BY <1>2 DEF TypeOK
<1>8. missed' \in [Peers -> SUBSET Cids]
    BY <1>2 DEF TypeOK
<1> QED BY <1>3, <1>4, <1>6, <1>7, <1>8

LEMMA Bounds == /\ MaxAsks \in Nat /\ MaxConns \in Nat /\ MaxDials \in Nat /\ MaxFaults \in Nat
                /\ \A n \in 0 .. MaxAsks : n < MaxAsks => n + 1 \in 0 .. MaxAsks
                /\ \A n \in 0 .. MaxConns : n < MaxConns => n + 1 \in 0 .. MaxConns
                /\ \A n \in 0 .. MaxConns : n > 1 => n - 1 \in 0 .. MaxConns
                /\ \A n \in 0 .. MaxDials : n < MaxDials => n + 1 \in 0 .. MaxDials
                /\ \A n \in 0 .. MaxFaults : n < MaxFaults => n + 1 \in 0 .. MaxFaults
<1>1. MaxAsks \in Nat /\ MaxConns \in Nat /\ MaxDials \in Nat /\ MaxFaults \in Nat
    BY WantManagerAssumption
<1> QED BY <1>1

LEMMA Spoken == \A m \in Msgs : About(m) \in SUBSET Cids
BY DEF About, Msgs

LEMMA LosesTypes ==
    ASSUME TypeOK, NEW p \in Peers, LoseWire(p)
    PROVE  /\ wire' \in [Peers -> Seq(Msgs)] /\ missed' \in [Peers -> SUBSET Cids] /\ faults' \in 0 .. MaxFaults
<1>1. faults' \in 0 .. MaxFaults
    BY Bounds DEF LoseWire, TypeOK
<1>2. wire' \in [Peers -> Seq(Msgs)]
    <2>1. <<>> \in Seq(Msgs)
        BY EmptySeq
    <2> QED BY <2>1 DEF LoseWire, TypeOK
<1>3. UNION {About(wire[p][i]) : i \in DOMAIN wire[p]} \subseteq Cids
    <2>1. \A i \in DOMAIN wire[p] : wire[p][i] \in Msgs
        BY LenProperties, ElementOfSeq DEF TypeOK
    <2> QED BY <2>1, Spoken
<1>4. missed' \in [Peers -> SUBSET Cids]
    <2> DEFINE lost == UNION {About(wire[p][i]) : i \in DOMAIN wire[p]}
    <2>1. missed' = [missed EXCEPT ![p] = missed[p] \cup lost]
        BY DEF LoseWire, TypeOK
    <2> HIDE DEF lost
    <2>2. lost \subseteq Cids
        BY <1>3 DEF lost
    <2> QED BY <2>1, <2>2 DEF TypeOK
<1> QED BY <1>1, <1>2, <1>4

LEMMA Types == TypeOK /\ Messages /\ [Next]_vars => TypeOK'
<1> SUFFICES ASSUME TypeOK, Messages, [Next]_vars PROVE TypeOK'
    OBVIOUS
<1>0. <<>> \in Seq(Msgs) /\ NoMsg \in Msgs /\ Good(NoMsg)
    BY EmptySeq, Nothing
<1>1. ASSUME NEW s \in Sessions, NEW c \in Cids, NEW targets \in SUBSET Peers, WantBlocks(s, c, targets) PROVE TypeOK'
    <2> DEFINE ps == {p \in Peers : refs[p] > 0 /\ (targets = {} \/ p \in targets)}
               all == targets = {}
    <2>1. Want(s, c, ps, all) /\ ps \in SUBSET Peers /\ all \in BOOLEAN
        BY <1>1 DEF WantBlocks
    <2> HIDE DEF ps, all
    <2>2. /\ entry' \in [Cids -> [Lists -> Lists \cup {"none"}]]
          /\ tracks' \in [Cids -> [Lists -> SUBSET Sessions]]
          /\ out' \in [Peers -> Msgs] /\ \A p \in Peers : Good(out'[p])
          /\ work' \in [Peers -> BOOLEAN] /\ missed' \in [Peers -> SUBSET Cids]
        BY <2>1, WantTypes
    <2>3. asks' \in 0 .. MaxAsks
        BY <1>1, Bounds DEF WantBlocks, TypeOK
    <2>4. asked' \in [Sessions -> [Cids -> {"none", "some", "all"}]]
        BY <1>1 DEF WantBlocks, TypeOK
    <2> QED BY <1>1, <2>2, <2>3, <2>4 DEF WantBlocks, TypeOK, Good, goroutine, remote
<1>2. ASSUME NEW s \in Sessions, NEW c \in Cids, Tick(s, c) PROVE TypeOK'
    <2> DEFINE ps == {p \in Peers : refs[p] > 0}
    <2>1. Want(s, c, ps, TRUE) /\ ps \in SUBSET Peers
        BY <1>2 DEF Tick
    <2> HIDE DEF ps
    <2>2. /\ entry' \in [Cids -> [Lists -> Lists \cup {"none"}]]
          /\ tracks' \in [Cids -> [Lists -> SUBSET Sessions]]
          /\ out' \in [Peers -> Msgs] /\ \A p \in Peers : Good(out'[p])
          /\ work' \in [Peers -> BOOLEAN] /\ missed' \in [Peers -> SUBSET Cids]
        BY <2>1, WantTypes
    <2>3. asked' \in [Sessions -> [Cids -> {"none", "some", "all"}]]
        BY <1>2 DEF Tick, TypeOK
    <2> QED BY <1>2, <2>2, <2>3 DEF Tick, TypeOK, Good, goroutine, remote, bounds
<1>3. ASSUME NEW s \in Sessions, NEW c \in Cids, CancelWants(s, c) PROVE TypeOK'
    <2> DEFINE left == [e \in Lists |-> tracks[c][e] \ {s}]
               dropped == {l \in Lists : Has(l, c) /\ left[entry[c][l]] = {}}
    <2>1. /\ tracks' = [tracks EXCEPT ![c] = left]
          /\ entry' = [entry EXCEPT ![c] = [l \in Lists |-> IF l \in dropped THEN "none" ELSE entry[c][l]]]
          /\ out' = [p \in Peers |-> IF p \in dropped THEN CancelInMsg(out[p], c) ELSE out[p]]
          /\ work' = [p \in Peers |-> work[p] \/ p \in dropped]
          /\ asked' = [asked EXCEPT ![s][c] = "none"]
        BY <1>3 DEF CancelWants, TypeOK
    <2>2. left \in [Lists -> SUBSET Sessions]
        BY DEF TypeOK
    <2> HIDE DEF left, dropped
    <2>3. \A p \in Peers : CancelInMsg(out[p], c) \in Msgs /\ Good(CancelInMsg(out[p], c))
        BY Cancels DEF TypeOK, Messages
    <2>4. entry' \in [Cids -> [Lists -> Lists \cup {"none"}]]
        BY <2>1 DEF TypeOK
    <2>5. tracks' \in [Cids -> [Lists -> SUBSET Sessions]]
        BY <2>1, <2>2 DEF TypeOK
    <2>6. out' \in [Peers -> Msgs] /\ \A p \in Peers : Good(out'[p])
        BY <2>1, <2>3 DEF TypeOK, Messages
    <2>7. work' \in [Peers -> BOOLEAN]
        BY <2>1 DEF TypeOK
    <2>8. asks' \in 0 .. MaxAsks
        BY <1>3, Bounds DEF CancelWants, TypeOK
    <2>9. asked' \in [Sessions -> [Cids -> {"none", "some", "all"}]]
        BY <2>1 DEF TypeOK
    <2> QED BY <1>3, <2>4, <2>5, <2>6, <2>7, <2>8, <2>9 DEF CancelWants, TypeOK, Good, goroutine, remote
<1>4. ASSUME NEW p \in Peers, Connect(p) PROVE TypeOK'
    <2>1. dials' \in 0 .. MaxDials /\ refs' \in [Peers -> 0 .. MaxConns]
        BY <1>4, Bounds DEF Connect, TypeOK
    <2>2. CASE refs[p] > 0
        BY <1>4, <2>1, <2>2 DEF Connect, TypeOK, goroutine, remote
    <2>3. CASE ~(refs[p] > 0)
        <3>1. entry' \in [Cids -> [Lists -> Lists \cup {"none"}]]
            <4>1. entry' = [c \in Cids |-> [entry[c] EXCEPT ![p] = entry[c]["bcwl"]]]
                BY <1>4, <2>3 DEF Connect
            <4>2. \A c \in Cids : [entry[c] EXCEPT ![p] = entry[c]["bcwl"]] \in [Lists -> Lists \cup {"none"}]
                BY Names DEF TypeOK
            <4> QED BY <4>1, <4>2
        <3>2. PICK m \in Msgs : Good(m) /\ out' = [out EXCEPT ![p] = m]
            <4> DEFINE m == [full |-> TRUE, want |-> {c \in Cids : Has("bcwl", c)}, cancel |-> {}]
            <4>1. m \in Msgs /\ Good(m)
                BY DEF Msgs, Good
            <4> QED BY <1>4, <2>3, <4>1 DEF Connect
        <3>3. out' \in [Peers -> Msgs] /\ \A q \in Peers : Good(out'[q])
            BY <3>2 DEF TypeOK, Messages
        <3>4. work' \in [Peers -> BOOLEAN] /\ missed' \in [Peers -> SUBSET Cids]
            BY <1>4, <2>3 DEF Connect, TypeOK
        <3> QED BY <1>4, <2>1, <3>1, <3>3, <3>4 DEF Connect, TypeOK, Good, goroutine, remote
    <2> QED BY <2>2, <2>3
<1>5. ASSUME NEW p \in Peers, Break(p) PROVE TypeOK'
    <2>1. refs' \in [Peers -> 0 .. MaxConns]
        BY <1>5, Bounds DEF Break, TypeOK
    <2>2. CASE UNCHANGED <<sender, wire, missed, faults>>
        BY <1>5, <2>1, <2>2 DEF Break, TypeOK, manager
    <2>3. CASE LoseWire(p) /\ sender' = [sender EXCEPT ![p] = "broken"]
        BY <1>5, <2>1, <2>3, LosesTypes DEF Break, TypeOK, manager
    <2> QED BY <1>5, <2>2, <2>3 DEF Break
<1>6. ASSUME NEW p \in Peers, Disconnect(p) PROVE TypeOK'
    <2>1. refs' \in [Peers -> 0 .. MaxConns]
        BY <1>6, Bounds DEF Disconnect, TypeOK
    <2>2. entry' \in [Cids -> [Lists -> Lists \cup {"none"}]] /\ tracks' \in [Cids -> [Lists -> SUBSET Sessions]]
        BY <1>6, Names DEF Disconnect, TypeOK
    <2>3. out' \in [Peers -> Msgs] /\ \A q \in Peers : Good(out'[q])
        BY <1>0, <1>6 DEF Disconnect, TypeOK, Messages
    <2>4. /\ work' \in [Peers -> BOOLEAN] /\ at' \in [Peers -> {"idle", "open", "send"}]
          /\ sending' \in [Peers -> Msgs] /\ sender' \in [Peers -> {"none", "ok", "broken"}]
        BY <1>0, <1>6 DEF Disconnect, TypeOK
    <2>5. wire' \in [Peers -> Seq(Msgs)] /\ ledger' \in [Peers -> SUBSET Cids]
        BY <1>0, <1>6 DEF Disconnect, TypeOK
    <2>6. old' \in [Peers -> Seq(Msgs)]
        <3>1. PICK o : o \in Seq(Msgs) /\ old' = [old EXCEPT ![p] = o]
            <4> DEFINE opening == IF at[p] = "open" THEN <<sending[p]>> ELSE <<>>
                       pending == IF work[p] /\ ~Empty(out[p]) /\ sender[p] = "none" /\ at[p] \in {"idle", "open"}
                                    THEN <<out[p]>> ELSE <<>>
            <4>1. <<sending[p]>> \in Seq(Msgs) /\ <<out[p]>> \in Seq(Msgs)
                <5>1. sending[p] \in Msgs /\ out[p] \in Msgs
                    BY DEF TypeOK
                <5> QED BY <5>1
            <4>2. opening \in Seq(Msgs) /\ pending \in Seq(Msgs)
                BY <1>0, <4>1
            <4>3. old' = [old EXCEPT ![p] = opening \o pending]
                BY <1>6 DEF Disconnect
            <4> HIDE DEF opening, pending
            <4>4. opening \o pending \in Seq(Msgs)
                BY <4>2, ConcatProperties
            <4> QED BY <4>3, <4>4
        <3> QED BY <3>1 DEF TypeOK
    <2> QED BY <1>6, <2>1, <2>2, <2>3, <2>4, <2>5, <2>6 DEF Disconnect, TypeOK, Good, history, bounds
<1>7. ASSUME NEW p \in Peers, TakeWork(p) PROVE TypeOK'
    <2>1. work' \in [Peers -> BOOLEAN]
        BY <1>7 DEF TakeWork, TypeOK
    <2>2. CASE Empty(out[p])
        BY <1>7, <2>1, <2>2 DEF TakeWork, TypeOK, manager, remote, history, bounds
    <2>3. CASE ~Empty(out[p])
        <3>1. out' \in [Peers -> Msgs] /\ \A q \in Peers : Good(out'[q])
            <4>1. out' = [out EXCEPT ![p] = NoMsg]
                BY <1>7, <2>3 DEF TakeWork
            <4>2. out \in [Peers -> Msgs] /\ \A q \in Peers : Good(out[q])
                BY DEF TypeOK, Messages
            <4>3. NoMsg \in Msgs /\ Good(NoMsg)
                BY <1>0
            <4> QED BY <4>1, <4>2, <4>3
        <3>2. at' \in [Peers -> {"idle", "open", "send"}] /\ sending' \in [Peers -> Msgs]
            <4>1. at' \in [Peers -> {"idle", "open", "send"}]
                <5>1. PICK v \in {"open", "send"} : at' = [at EXCEPT ![p] = v]
                    BY <1>7, <2>3 DEF TakeWork
                <5>2. at \in [Peers -> {"idle", "open", "send"}]
                    BY DEF TypeOK
                <5> QED BY <5>1, <5>2
            <4>2. sending' = [sending EXCEPT ![p] = out[p]] /\ out[p] \in Msgs /\ sending \in [Peers -> Msgs]
                BY <1>7, <2>3 DEF TakeWork, TypeOK
            <4> QED BY <4>1, <4>2
        <3> QED BY <1>7, <2>1, <3>1, <3>2 DEF TakeWork, TypeOK, Good, manager, remote, history, bounds
    <2> QED BY <2>2, <2>3
<1>8. ASSUME NEW p \in Peers, Open(p) PROVE TypeOK'
    BY <1>8 DEF Open, TypeOK, manager, queue, remote, history, bounds
<1>9. ASSUME NEW p \in Peers, OpenFails(p) PROVE TypeOK'
    <2>1. faults' \in 0 .. MaxFaults
        BY <1>9, Bounds DEF OpenFails, TypeOK
    <2>2. missed' \in [Peers -> SUBSET Cids]
        <3>1. About(sending[p]) \in SUBSET Cids
            BY Spoken DEF TypeOK
        <3> QED BY <1>9, <3>1 DEF OpenFails, TypeOK
    <2>3. at' \in [Peers -> {"idle", "open", "send"}] /\ sending' \in [Peers -> Msgs]
        BY <1>0, <1>9 DEF OpenFails, TypeOK
    <2> QED BY <1>9, <2>1, <2>2, <2>3 DEF OpenFails, TypeOK, manager, queue, remote
<1>10. ASSUME NEW p \in Peers, Send(p) PROVE TypeOK'
    <2>1. wire' \in [Peers -> Seq(Msgs)]
        <3>1. Append(wire[p], sending[p]) \in Seq(Msgs)
            BY AppendProperties DEF TypeOK
        <3> QED BY <1>10, <3>1 DEF Send, TypeOK
    <2>2. at' \in [Peers -> {"idle", "open", "send"}] /\ sending' \in [Peers -> Msgs]
        BY <1>0, <1>10 DEF Send, TypeOK
    <2> QED BY <1>10, <2>1, <2>2 DEF Send, TypeOK, manager, queue, history, bounds
<1>11. ASSUME NEW p \in Peers, SendFails(p) PROVE TypeOK'
    <2>1. sender' \in [Peers -> {"none", "ok", "broken"}] /\ at' \in [Peers -> {"idle", "open", "send"}]
        BY <1>11 DEF SendFails, TypeOK
    <2>2. CASE UNCHANGED <<faults, wire, missed>>
        BY <1>11, <2>1, <2>2 DEF SendFails, TypeOK, manager, queue
    <2>3. CASE LoseWire(p)
        BY <1>11, <2>1, <2>3, LosesTypes DEF SendFails, TypeOK, manager, queue
    <2> QED BY <1>11, <2>2, <2>3 DEF SendFails
<1>12. ASSUME NEW p \in Peers, Deliver(p) PROVE TypeOK'
    <2>1. Head(wire[p]) \in Msgs /\ Tail(wire[p]) \in Seq(Msgs)
        BY <1>12, HeadTailProperties DEF Deliver, TypeOK
    <2>2. Apply(ledger[p], Head(wire[p])) \in SUBSET Cids
        BY <2>1 DEF Apply, TypeOK, Msgs
    <2>3. ledger' \in [Peers -> SUBSET Cids] /\ wire' \in [Peers -> Seq(Msgs)]
        BY <1>12, <2>1, <2>2 DEF Deliver, TypeOK
    <2> QED BY <1>12, <2>3 DEF Deliver, TypeOK, manager, queue, goroutine, history, bounds
<1>13. ASSUME NEW p \in Peers, OldSends(p) PROVE TypeOK'
    <2>1. Head(old[p]) \in Msgs /\ Tail(old[p]) \in Seq(Msgs)
        BY <1>13, HeadTailProperties DEF OldSends, TypeOK
    <2>2. Apply(ledger[p], Head(old[p])) \in SUBSET Cids /\ About(Head(old[p])) \in SUBSET Cids
        BY <2>1, Spoken DEF Apply, TypeOK, Msgs
    <2>3. ledger' \in [Peers -> SUBSET Cids] /\ old' \in [Peers -> Seq(Msgs)] /\ missed' \in [Peers -> SUBSET Cids]
        BY <1>13, <2>1, <2>2 DEF OldSends, TypeOK
    <2> QED BY <1>13, <2>3 DEF OldSends, TypeOK, manager, queue, bounds
<1>14. ASSUME NEW p \in Peers, OldEnds(p) PROVE TypeOK'
    <2>1. Tail(old[p]) \in Seq(Msgs)
        BY <1>14, HeadTailProperties DEF OldEnds, TypeOK
    <2>2. old' \in [Peers -> Seq(Msgs)]
        BY <1>14, <2>1 DEF OldEnds, TypeOK
    <2> QED BY <1>14, <2>2 DEF OldEnds, TypeOK, manager, queue, remote, history, bounds
<1>15. ASSUME NEW p \in Peers, NEW c \in Cids, BlockLost(p, c) PROVE TypeOK'
    <2>1. faults' \in 0 .. MaxFaults
        BY <1>15, Bounds DEF BlockLost, TypeOK
    <2> QED BY <1>15, <2>1 DEF BlockLost, TypeOK, manager, queue, goroutine
<1>16. CASE UNCHANGED vars
    BY <1>16 DEF TypeOK, vars, manager, queue, goroutine, remote, history, bounds
<1> QED BY <1>1, <1>2, <1>3, <1>4, <1>5, <1>6, <1>7, <1>8, <1>9, <1>10, <1>11, <1>12, <1>13, <1>14, <1>15, <1>16 DEF Next

-----------------------------------------------------------------------------
(* Messages want nothing that they cancel *)

AllGood(s) == \A i \in DOMAIN s : Good(s[i])

LEMMA GoodStreams ==
    ASSUME NEW s \in Seq(Msgs), AllGood(s)
    PROVE  /\ \A m \in Msgs : Good(m) => AllGood(Append(s, m))
           /\ s # <<>> => Good(Head(s)) /\ AllGood(Tail(s))
<1>1. ASSUME NEW m \in Msgs, Good(m) PROVE AllGood(Append(s, m))
    <2>1. PICK n \in Nat : n = Len(s) /\ DOMAIN s = 1 .. n /\ DOMAIN Append(s, m) = 1 .. n + 1 /\ Append(s, m)[n + 1] = m
        BY LenProperties, AppendProperties
    <2>2. \A i \in 1 .. n : Append(s, m)[i] = s[i]
        BY <2>1, AppendProperties
    <2>3. \A i \in 1 .. n + 1 : i \in 1 .. n \/ i = n + 1
        OBVIOUS
    <2> HIDE DEF AllGood
    <2>4. \A i \in 1 .. n + 1 : Good(Append(s, m)[i])
        BY <1>1, <2>1, <2>2, <2>3 DEF AllGood
    <2> QED BY <2>1, <2>4 DEF AllGood
<1>2. ASSUME s # <<>> PROVE Good(Head(s)) /\ AllGood(Tail(s))
    <2>1. PICK n \in Nat : n + 1 = Len(s) /\ DOMAIN s = 1 .. n + 1 /\ DOMAIN Tail(s) = 1 .. n /\ s[1] = Head(s)
        <3>1. Len(s) \in Nat /\ Len(s) # 0 /\ DOMAIN s = 1 .. Len(s)
            BY <1>2, EmptySeq, LenProperties
        <3>2. Len(Tail(s)) = Len(s) - 1 /\ DOMAIN Tail(s) = 1 .. Len(Tail(s))
            BY <1>2, HeadTailProperties, LenProperties
        <3>3. s[1] = Head(s)
            BY <1>2
        <3>4. Len(s) - 1 \in Nat /\ (Len(s) - 1) + 1 = Len(s)
            BY <3>1
        <3> QED BY <3>1, <3>2, <3>3, <3>4
    <2>2. \A i \in 1 .. n : Tail(s)[i] = s[i + 1]
        <3>1. Len(Tail(s)) = n
            BY <1>2, <2>1, HeadTailProperties
        <3> QED BY <1>2, <3>1, HeadTailProperties
    <2>3. 1 \in 1 .. n + 1 /\ \A i \in 1 .. n : i + 1 \in 1 .. n + 1
        OBVIOUS
    <2> QED BY <2>1, <2>2, <2>3 DEF AllGood
<1> QED BY <1>1, <1>2

LEMMA MessagesKept == TypeOK /\ Messages /\ [Next]_vars => Messages'
<1> SUFFICES ASSUME TypeOK, Messages, [Next]_vars PROVE Messages'
    OBVIOUS
<1>1. \A p \in Peers : Good(out'[p])
    BY Types DEF TypeOK, Good
<1>2. \A p \in Peers : Good(sending[p]) /\ AllGood(wire[p]) /\ AllGood(old[p]) /\ Good(out[p])
    BY DEF Messages, AllGood
<1>3. SUFFICES \A q \in Peers : Good(sending'[q]) /\ AllGood(wire'[q]) /\ AllGood(old'[q])
    BY <1>1 DEF Messages, AllGood
<1>4. AllGood(<<>>) /\ Good(NoMsg)
    BY Nothing DEF AllGood
<1>5. CASE UNCHANGED <<sending, wire, old>>
    BY <1>2, <1>5
<1>6. ASSUME NEW p \in Peers, wire' = [wire EXCEPT ![p] = <<>>], UNCHANGED <<sending, old>>
      PROVE  \A q \in Peers : Good(sending'[q]) /\ AllGood(wire'[q]) /\ AllGood(old'[q])
    BY <1>2, <1>4, <1>6 DEF TypeOK
<1>7. ASSUME NEW p \in Peers, Disconnect(p)
      PROVE  \A q \in Peers : Good(sending'[q]) /\ AllGood(wire'[q]) /\ AllGood(old'[q])
    <2>1. wire' = [wire EXCEPT ![p] = <<>>] /\ sending' = [sending EXCEPT ![p] = NoMsg]
        BY <1>7 DEF Disconnect
    <2> DEFINE opening == IF at[p] = "open" THEN <<sending[p]>> ELSE <<>>
               pending == IF work[p] /\ ~Empty(out[p]) /\ sender[p] = "none" /\ at[p] \in {"idle", "open"}
                            THEN <<out[p]>> ELSE <<>>
    <2>2. old' = [old EXCEPT ![p] = opening \o pending]
        BY <1>7 DEF Disconnect
    <2>3. sending[p] \in Msgs /\ out[p] \in Msgs
        BY DEF TypeOK
    <2>4. AllGood(<<sending[p]>>) /\ AllGood(<<out[p]>>)
        BY <1>2, <2>3 DEF AllGood
    <2>5. /\ opening \in Seq(Msgs) /\ AllGood(opening) /\ pending \in Seq(Msgs) /\ AllGood(pending)
        <3>1. <<sending[p]>> \in Seq(Msgs) /\ <<out[p]>> \in Seq(Msgs) /\ <<>> \in Seq(Msgs)
            BY <2>3
        <3> QED BY <1>4, <2>4, <3>1
    <2> HIDE DEF opening, pending
    <2>6. AllGood(opening \o pending)
        <3>1. PICK m \in Nat, n \in Nat : m = Len(opening) /\ n = Len(pending) /\ DOMAIN opening = 1 .. m /\ DOMAIN pending = 1 .. n
            BY <2>5, LenProperties
        <3>2. /\ DOMAIN (opening \o pending) = 1 .. (m + n)
              /\ \A i \in 1 .. (m + n) : (opening \o pending)[i] = IF i <= m THEN opening[i] ELSE pending[i - m]
            BY <2>5, <3>1, ConcatProperties, LenProperties
        <3>3. \A i \in 1 .. (m + n) : IF i <= m THEN i \in 1 .. m ELSE i - m \in 1 .. n
            OBVIOUS
        <3> QED BY <2>5, <3>1, <3>2, <3>3 DEF AllGood
    <2> QED BY <1>2, <1>4, <2>1, <2>2, <2>6 DEF TypeOK
<1>8. ASSUME NEW p \in Peers, TakeWork(p) PROVE \A q \in Peers : Good(sending'[q]) /\ AllGood(wire'[q]) /\ AllGood(old'[q])
    BY <1>2, <1>8 DEF TakeWork, TypeOK, remote
<1>9. ASSUME NEW p \in Peers, sending' = [sending EXCEPT ![p] = NoMsg], UNCHANGED <<wire, old>>
      PROVE  \A q \in Peers : Good(sending'[q]) /\ AllGood(wire'[q]) /\ AllGood(old'[q])
    BY <1>2, <1>4, <1>9 DEF TypeOK
<1>10. ASSUME NEW p \in Peers, Send(p) PROVE \A q \in Peers : Good(sending'[q]) /\ AllGood(wire'[q]) /\ AllGood(old'[q])
    <2>1. AllGood(Append(wire[p], sending[p]))
        BY <1>2, GoodStreams DEF TypeOK
    <2> QED BY <1>2, <1>4, <1>10, <2>1 DEF Send, TypeOK
<1>11. ASSUME NEW p \in Peers, Deliver(p) PROVE \A q \in Peers : Good(sending'[q]) /\ AllGood(wire'[q]) /\ AllGood(old'[q])
    <2>1. AllGood(Tail(wire[p]))
        BY <1>2, <1>11, GoodStreams DEF TypeOK, Deliver
    <2> QED BY <1>2, <1>11, <2>1 DEF Deliver, TypeOK, goroutine
<1>12. ASSUME NEW p \in Peers, old' = [old EXCEPT ![p] = Tail(old[p])], old[p] # <<>>, UNCHANGED <<sending, wire>>
       PROVE  \A q \in Peers : Good(sending'[q]) /\ AllGood(wire'[q]) /\ AllGood(old'[q])
    <2>1. AllGood(Tail(old[p]))
        BY <1>2, <1>12, GoodStreams DEF TypeOK
    <2> QED BY <1>2, <1>12, <2>1 DEF TypeOK
<1>13. ASSUME NEW s \in Sessions, NEW c \in Cids, NEW targets \in SUBSET Peers, WantBlocks(s, c, targets)
       PROVE  UNCHANGED <<sending, wire, old>>
    BY <1>13 DEF WantBlocks, goroutine, remote
<1>14. ASSUME NEW s \in Sessions, NEW c \in Cids, Tick(s, c) \/ CancelWants(s, c) PROVE UNCHANGED <<sending, wire, old>>
    BY <1>14 DEF Tick, CancelWants, goroutine, remote
<1>15. ASSUME NEW p \in Peers, Connect(p) \/ Open(p) PROVE UNCHANGED <<sending, wire, old>>
    BY <1>15 DEF Connect, Open, goroutine, remote
<1>16. ASSUME NEW p \in Peers, Break(p) \/ SendFails(p)
       PROVE  wire' \in {wire, [wire EXCEPT ![p] = <<>>]} /\ UNCHANGED <<sending, old>>
    BY <1>16 DEF Break, SendFails, LoseWire
<1>17. ASSUME NEW p \in Peers, OpenFails(p) PROVE sending' = [sending EXCEPT ![p] = NoMsg] /\ UNCHANGED <<wire, old>>
    BY <1>17 DEF OpenFails, remote
<1>18. ASSUME NEW p \in Peers, OldSends(p) \/ OldEnds(p)
       PROVE  old' = [old EXCEPT ![p] = Tail(old[p])] /\ old[p] # <<>> /\ UNCHANGED <<sending, wire>>
    BY <1>18 DEF OldSends, OldEnds, remote, TypeOK
<1>19. ASSUME NEW p \in Peers, NEW c \in Cids, BlockLost(p, c) PROVE UNCHANGED <<sending, wire, old>>
    BY <1>19 DEF BlockLost, goroutine
<1>20. CASE UNCHANGED vars
    BY <1>5, <1>20 DEF vars, goroutine, remote
<1>21. ASSUME NEW p \in Peers, Break(p) \/ SendFails(p)
       PROVE  \A q \in Peers : Good(sending'[q]) /\ AllGood(wire'[q]) /\ AllGood(old'[q])
    <2>1. CASE wire' = wire
        BY <1>5, <1>16, <1>21, <2>1
    <2>2. CASE wire' = [wire EXCEPT ![p] = <<>>]
        BY <1>6, <1>16, <1>21, <2>2
    <2> QED BY <1>16, <1>21, <2>1, <2>2
<1>22. ASSUME NEW p \in Peers, OpenFails(p)
       PROVE  \A q \in Peers : Good(sending'[q]) /\ AllGood(wire'[q]) /\ AllGood(old'[q])
    BY <1>9, <1>17, <1>22
<1>23. ASSUME NEW p \in Peers, OldSends(p) \/ OldEnds(p)
       PROVE  \A q \in Peers : Good(sending'[q]) /\ AllGood(wire'[q]) /\ AllGood(old'[q])
    BY <1>12, <1>18, <1>23
<1> QED
    BY <1>5, <1>7, <1>8, <1>10, <1>11, <1>13, <1>14, <1>15, <1>19, <1>20, <1>21, <1>22, <1>23 DEF Next

-----------------------------------------------------------------------------
(* What a change of the wantlist does to the queue of a partner *)

\* p has no list, or its list and its message stay; or it gets an entry and is told so.
Tells(c, p) ==
    /\ \A d \in Cids : d # c => entry'[d][p] = entry[d][p]
    /\ \/ entry'[c][p] = entry[c][p] /\ out'[p] = out[p] /\ work'[p] = work[p] /\ missed'[p] = missed[p]
       \/ /\ refs[p] > 0 /\ entry[c][p] = "none" /\ entry'[c][p] = p
          /\ out'[p] = AddToMsg(out[p], c) /\ work'[p] = TRUE
          /\ missed'[p] = IF c \in out[p].cancel THEN missed[p] \cup {c} ELSE missed[p]

LEMMA WantTells ==
    ASSUME NEW s \in Sessions, NEW c \in Cids, NEW ps \in SUBSET Peers, NEW all \in BOOLEAN, NEW p \in Peers,
           TypeOK, \A r \in ps : refs[r] > 0, Want(s, c, ps, all)
    PROVE  Tells(c, p)
<1> DEFINE new == New(c, ps, all)
           made == Made(c, ps, all)
<1>1. /\ entry' = [entry EXCEPT ![c] = made]
      /\ out' = [q \in Peers |-> IF q \in new THEN AddToMsg(out[q], c) ELSE out[q]]
      /\ work' = [q \in Peers |-> work[q] \/ q \in new]
      /\ missed' = [q \in Peers |-> IF q \in new /\ c \in out[q].cancel THEN missed[q] \cup {c} ELSE missed[q]]
    BY DEF Want, Made, New, In
<1>2. p \in new => p \in ps /\ entry[c][p] = "none"
    BY Names DEF New, In, Has
<1>3. made[p] = IF p \in new THEN p ELSE entry[c][p]
    BY Names DEF Made
<1> HIDE DEF new, made
<1>4. /\ \A d \in Cids : d # c => entry'[d][p] = entry[d][p]
      /\ entry'[c][p] = made[p]
    BY <1>1 DEF TypeOK
<1>5. CASE p \in new
    <2>1. out'[p] = AddToMsg(out[p], c) /\ missed'[p] = IF c \in out[p].cancel THEN missed[p] \cup {c} ELSE missed[p]
        BY <1>1, <1>5
    <2>2. work'[p] = TRUE
        BY <1>1, <1>5
    <2> QED BY <1>2, <1>3, <1>4, <1>5, <2>1, <2>2 DEF Tells
<1>6. CASE p \notin new
    <2>1. out'[p] = out[p] /\ missed'[p] = missed[p]
        BY <1>1, <1>6
    <2>2. work'[p] = work[p]
        BY <1>1, <1>6 DEF TypeOK
    <2> QED BY <1>3, <1>4, <1>6, <2>1, <2>2 DEF Tells
<1> QED BY <1>5, <1>6

LEMMA CancelTells ==
    ASSUME NEW s \in Sessions, NEW c \in Cids, NEW p \in Peers, TypeOK, CancelWants(s, c)
    PROVE  /\ \A d \in Cids : d # c => entry'[d][p] = entry[d][p]
           /\ missed' = missed
           /\ \/ entry'[c][p] = entry[c][p] /\ out'[p] = out[p] /\ work'[p] = work[p]
              \/ entry[c][p] # "none" /\ entry'[c][p] = "none" /\ out'[p] = CancelInMsg(out[p], c) /\ work'[p]
<1> DEFINE left == [e \in Lists |-> tracks[c][e] \ {s}]
           dropped == {l \in Lists : Has(l, c) /\ left[entry[c][l]] = {}}
<1>1. /\ entry' = [entry EXCEPT ![c] = [l \in Lists |-> IF l \in dropped THEN "none" ELSE entry[c][l]]]
      /\ out' = [q \in Peers |-> IF q \in dropped THEN CancelInMsg(out[q], c) ELSE out[q]]
      /\ work' = [q \in Peers |-> work[q] \/ q \in dropped]
      /\ missed' = missed
    BY DEF CancelWants, TypeOK
<1>2. p \in dropped => entry[c][p] # "none"
    BY DEF Has
<1> HIDE DEF dropped
<1>3. /\ \A d \in Cids : d # c => entry'[d][p] = entry[d][p]
      /\ entry'[c][p] = IF p \in dropped THEN "none" ELSE entry[c][p]
    BY <1>1, Names DEF TypeOK
<1>4. CASE p \in dropped
    <2>1. out'[p] = CancelInMsg(out[p], c)
        BY <1>1, <1>4
    <2>2. work'[p]
        BY <1>1, <1>4
    <2> QED BY <1>1, <1>2, <1>3, <1>4, <2>1, <2>2
<1>5. CASE p \notin dropped
    <2>1. out'[p] = out[p]
        BY <1>1, <1>5
    <2>2. work'[p] = work[p]
        BY <1>1, <1>5 DEF TypeOK
    <2> QED BY <1>1, <1>3, <1>5, <2>1, <2>2
<1> QED BY <1>4, <1>5

-----------------------------------------------------------------------------
(* Queues at rest *)

Rests(p) ==
    /\ refs[p] = 0 => out[p] = NoMsg /\ ~work[p] /\ at[p] = "idle" /\ wire[p] = <<>> /\ ledger[p] = {}
    /\ at[p] = "idle" => sending[p] = NoMsg
    /\ ~work[p] => Empty(out[p])
    /\ out[p].full => wire[p] = <<>> /\ at[p] = "idle" /\ ledger[p] \subseteq missed[p]

LEMMA RestsAgain ==
    ASSUME NEW p \in Peers, Rests(p), UNCHANGED <<refs[p], at[p], sending[p], wire[p]>>,
           ledger'[p] \subseteq ledger[p], missed[p] \subseteq missed'[p],
           \/ out'[p] = out[p] /\ work'[p] = work[p]
           \/ refs[p] # 0 /\ work'[p] /\ out'[p].full = out[p].full
    PROVE  Rests(p)'
BY DEF Rests

LEMMA RestingKept == TypeOK /\ Shared /\ Messages /\ Resting /\ [Next]_vars => Resting'
<1> SUFFICES ASSUME TypeOK, Shared, Messages, Resting, [Next]_vars, NEW q \in Peers PROVE Rests(q)'
    BY DEF Resting, Rests
<1>0. Rests(q)
    BY DEF Resting, Rests
<1>1. ASSUME NEW s \in Sessions, NEW c \in Cids, NEW ps \in SUBSET Peers, \A r \in ps : refs[r] > 0, NEW all \in BOOLEAN,
             Want(s, c, ps, all), UNCHANGED <<refs, goroutine, remote>>
      PROVE  Rests(q)'
    <2>0. \/ out'[q] = out[q] /\ work'[q] = work[q] /\ missed'[q] = missed[q]
          \/ /\ refs[q] > 0 /\ out'[q] = AddToMsg(out[q], c) /\ work'[q] = TRUE
             /\ missed'[q] = IF c \in out[q].cancel THEN missed[q] \cup {c} ELSE missed[q]
        <3>1. Tells(c, q)
            BY <1>1, WantTells
        <3> QED BY <3>1 DEF Tells
    <2>1. missed[q] \subseteq missed'[q]
        BY <2>0
    <2>2. AddToMsg(out[q], c).full = out[q].full
        BY Adds DEF TypeOK, Messages
    <2>3. \/ out'[q] = out[q] /\ work'[q] = work[q]
          \/ refs[q] # 0 /\ work'[q] /\ out'[q].full = out[q].full
        <3>1. refs[q] > 0 => refs[q] # 0
            OBVIOUS
        <3> QED BY <2>0, <2>2, <3>1
    <2> QED BY <1>0, <1>1, <2>1, <2>3, RestsAgain DEF goroutine, remote
<1>2. ASSUME NEW s \in Sessions, NEW c \in Cids, NEW targets \in SUBSET Peers, WantBlocks(s, c, targets) PROVE Rests(q)'
    <2> DEFINE ps == {p \in Peers : refs[p] > 0 /\ (targets = {} \/ p \in targets)}
               all == targets = {}
    <2>1. Want(s, c, ps, all) /\ ps \in SUBSET Peers /\ (\A r \in ps : refs[r] > 0) /\ all \in BOOLEAN
        BY <1>2 DEF WantBlocks
    <2>2. UNCHANGED <<refs, goroutine, remote>>
        BY <1>2 DEF WantBlocks
    <2> HIDE DEF ps, all
    <2> QED BY <1>1, <2>1, <2>2
<1>3. ASSUME NEW s \in Sessions, NEW c \in Cids, Tick(s, c) PROVE Rests(q)'
    <2> DEFINE ps == {p \in Peers : refs[p] > 0}
    <2>1. Want(s, c, ps, TRUE) /\ UNCHANGED <<refs, goroutine, remote>> /\ ps \in SUBSET Peers /\ \A r \in ps : refs[r] > 0
        BY <1>3 DEF Tick
    <2> HIDE DEF ps
    <2> QED BY <1>1, <2>1
<1>4. ASSUME NEW s \in Sessions, NEW c \in Cids, CancelWants(s, c) PROVE Rests(q)'
    <2>1. CancelInMsg(out[q], c).full = out[q].full
        BY Cancels DEF TypeOK, Messages
    <2>2. entry[c][q] # "none" => refs[q] # 0
        BY DEF Shared
    <2>3. \/ out'[q] = out[q] /\ work'[q] = work[q]
          \/ refs[q] # 0 /\ work'[q] /\ out'[q].full = out[q].full
        BY <1>4, <2>1, <2>2, CancelTells
    <2> QED BY <1>0, <1>4, <2>3, RestsAgain DEF CancelWants, goroutine, remote
\* A step of another partner's, or one that leaves the queue to itself.
<1>5. ASSUME UNCHANGED <<refs[q], out[q], work[q], at[q], sending[q], wire[q]>>,
             ledger'[q] \subseteq ledger[q], missed[q] \subseteq missed'[q]
      PROVE  Rests(q)'
    BY <1>0, <1>5, RestsAgain
<1>6. ASSUME NEW p \in Peers, Connect(p) PROVE Rests(q)'
    <2>1. UNCHANGED <<at, sending, wire, ledger>>
        BY <1>6 DEF Connect, goroutine, remote
    <2>2. CASE p # q
        <3>1. UNCHANGED <<refs[q], out[q], work[q], missed[q]>>
            BY <1>6, <2>2 DEF Connect, TypeOK
        <3> QED BY <1>5, <2>1, <3>1
    <2>3. CASE p = q /\ refs[q] > 0
        <3>1. refs'[q] # 0 /\ UNCHANGED <<out, work, missed>>
            BY <1>6, <2>3 DEF Connect, TypeOK
        <3> QED BY <1>0, <2>1, <3>1 DEF Rests
    <2>4. CASE p = q /\ ~(refs[q] > 0)
        <3>1. refs'[q] # 0 /\ refs[q] = 0
            BY <1>6, <2>4 DEF Connect, TypeOK
        <3>2. work'[q]
            BY <1>6, <2>4 DEF Connect, TypeOK
        <3> QED BY <1>0, <2>1, <3>1, <3>2 DEF Rests
    <2> QED BY <2>2, <2>3, <2>4
<1>7. ASSUME NEW p \in Peers, Break(p) PROVE Rests(q)'
    <2>1. UNCHANGED <<out, work, at, sending, ledger>>
        BY <1>7 DEF Break
    <2>2. (refs'[q] = 0 => refs[q] = 0) /\ wire'[q] \in {wire[q], <<>>} /\ missed[q] \subseteq missed'[q]
        <3>1. refs'[q] = 0 => refs[q] = 0
            BY <1>7 DEF Break, TypeOK
        <3>2. wire'[q] \in {wire[q], <<>>}
            BY <1>7 DEF Break, LoseWire, TypeOK
        <3>3. missed[q] \subseteq missed'[q]
            <4> DEFINE lost == UNION {About(wire[p][i]) : i \in DOMAIN wire[p]}
            <4>1. missed' = missed \/ missed' = [missed EXCEPT ![p] = missed[p] \cup lost]
                BY <1>7 DEF Break, LoseWire, TypeOK
            <4>2. missed \in [Peers -> SUBSET Cids]
                BY DEF TypeOK
            <4> HIDE DEF lost
            <4> QED BY <4>1, <4>2
        <3> QED BY <3>1, <3>2, <3>3
    <2> QED BY <1>0, <2>1, <2>2 DEF Rests
<1>8. ASSUME NEW p \in Peers, Disconnect(p) PROVE Rests(q)'
    <2>1. missed' = missed
        BY <1>8 DEF Disconnect, history
    <2>2. CASE p # q
        <3>1. UNCHANGED <<refs[q], out[q], work[q], at[q], sending[q], wire[q], ledger[q]>>
            BY <1>8, <2>2 DEF Disconnect, TypeOK
        <3> QED BY <1>5, <2>1, <3>1
    <2>3. CASE p = q
        <3>1. /\ out'[q] = NoMsg /\ ~work'[q] /\ at'[q] = "idle"
              /\ wire'[q] = <<>> /\ ledger'[q] = {} /\ sending'[q] = NoMsg
            BY <1>8, <2>3 DEF Disconnect, TypeOK
        <3> QED BY <3>1, Nothing DEF Rests
    <2> QED BY <2>2, <2>3
<1>9. ASSUME NEW p \in Peers, TakeWork(p) PROVE Rests(q)'
    <2>1. UNCHANGED <<refs, wire, ledger, missed>>
        BY <1>9 DEF TakeWork, remote, history
    <2>2. CASE p # q
        <3>1. UNCHANGED <<out[q], work[q], at[q], sending[q]>>
            BY <1>9, <2>2 DEF TakeWork, TypeOK
        <3> QED BY <1>5, <2>1, <3>1
    <2>3. CASE p = q /\ Empty(out[q])
        <3>1. UNCHANGED <<out, at, sending>> /\ refs[q] # 0
            BY <1>9, <2>3 DEF TakeWork
        <3> QED BY <1>0, <2>1, <2>3, <3>1 DEF Rests
    <2>4. CASE p = q /\ ~Empty(out[q])
        <3>1. out'[q] = NoMsg /\ at'[q] \in {"open", "send"} /\ refs[q] # 0
            BY <1>9, <2>4 DEF TakeWork, TypeOK
        <3> QED BY <2>1, <3>1, Nothing DEF Rests
    <2> QED BY <2>2, <2>3, <2>4
<1>10. ASSUME NEW p \in Peers, Open(p) PROVE Rests(q)'
    <2>1. UNCHANGED <<refs, out, work, sending, wire, ledger, missed>>
        BY <1>10 DEF Open, queue, remote, history
    <2>2. CASE p # q
        BY <1>0, <1>10, <2>1, <2>2 DEF Open, TypeOK, Rests
    <2>3. CASE p = q
        <3>1. at[q] = "open" /\ at'[q] = "send"
            BY <1>10, <2>3 DEF Open, TypeOK
        <3> QED BY <1>0, <2>1, <3>1 DEF Rests
    <2> QED BY <2>2, <2>3
<1>11. ASSUME NEW p \in Peers, OpenFails(p) PROVE Rests(q)'
    <2>1. UNCHANGED <<refs, out, work, wire, ledger>>
        BY <1>11 DEF OpenFails, queue, remote
    <2>2. CASE p # q
        <3>1. UNCHANGED <<at[q], sending[q], missed[q]>>
            BY <1>11, <2>2 DEF OpenFails, TypeOK
        <3> QED BY <1>5, <2>1, <3>1
    <2>3. CASE p = q
        <3>1. at[q] = "open" /\ at'[q] = "idle" /\ sending'[q] = NoMsg
            BY <1>11, <2>3 DEF OpenFails, TypeOK
        <3> QED BY <1>0, <2>1, <3>1 DEF Rests
    <2> QED BY <2>2, <2>3
<1>12. ASSUME NEW p \in Peers, Send(p) PROVE Rests(q)'
    <2>1. UNCHANGED <<refs, out, work, ledger, missed>>
        BY <1>12 DEF Send, queue, history
    <2>2. CASE p # q
        <3>1. UNCHANGED <<at[q], sending[q], wire[q]>>
            BY <1>12, <2>2 DEF Send, TypeOK
        <3> QED BY <1>5, <2>1, <3>1
    <2>3. CASE p = q
        <3>1. at[q] = "send" /\ at'[q] = "idle" /\ sending'[q] = NoMsg
            BY <1>12, <2>3 DEF Send, TypeOK
        <3> QED BY <1>0, <2>1, <3>1 DEF Rests
    <2> QED BY <2>2, <2>3
<1>13. ASSUME NEW p \in Peers, SendFails(p) PROVE Rests(q)'
    <2>1. UNCHANGED <<refs, out, work, sending, ledger>>
        BY <1>13 DEF SendFails, queue
    <2>2. CASE p # q
        <3>1. UNCHANGED <<at[q], wire[q], missed[q]>>
            BY <1>13, <2>2 DEF SendFails, LoseWire, TypeOK
        <3> QED BY <1>5, <2>1, <3>1
    <2>3. CASE p = q
        <3>1. at[q] = "send" /\ at'[q] = "open"
            BY <1>13, <2>3 DEF SendFails, TypeOK
        <3> QED BY <1>0, <2>1, <3>1 DEF Rests
    <2> QED BY <2>2, <2>3
<1>14. ASSUME NEW p \in Peers, Deliver(p) PROVE Rests(q)'
    <2>1. UNCHANGED <<refs, out, work, at, sending, missed>>
        BY <1>14 DEF Deliver, queue, goroutine, history
    <2>2. CASE p # q
        <3>1. UNCHANGED <<ledger[q], wire[q]>>
            BY <1>14, <2>2 DEF Deliver, TypeOK
        <3> QED BY <1>5, <2>1, <3>1
    <2>3. CASE p = q
        <3>1. wire[q] # <<>>
            BY <1>14, <2>3 DEF Deliver
        <3> QED BY <1>0, <2>1, <3>1 DEF Rests
    <2> QED BY <2>2, <2>3
<1>15. ASSUME NEW p \in Peers, OldSends(p) PROVE Rests(q)'
    <2>1. UNCHANGED <<refs, out, work, at, sending, wire>>
        BY <1>15 DEF OldSends, queue
    <2>2. CASE p # q
        <3>1. UNCHANGED <<ledger[q], missed[q]>>
            BY <1>15, <2>2 DEF OldSends, TypeOK
        <3> QED BY <1>5, <2>1, <3>1
    <2>3. CASE p = q
        <3>1. PICK m \in Msgs : ledger'[q] = Apply(ledger[q], m) /\ missed'[q] = missed[q] \cup About(m)
            <4>1. Head(old[p]) \in Msgs
                BY <1>15, HeadTailProperties DEF OldSends, TypeOK
            <4> QED BY <1>15, <2>3, <4>1 DEF OldSends, TypeOK
        <3>2. Apply(ledger[q], m) \subseteq ledger[q] \cup About(m)
            BY DEF Apply, About, Msgs
        <3>3. refs[q] # 0
            BY <1>15, <2>3 DEF OldSends
        <3> QED BY <1>0, <2>1, <3>1, <3>2, <3>3 DEF Rests
    <2> QED BY <2>2, <2>3
<1>16. ASSUME NEW p \in Peers, OldEnds(p) PROVE Rests(q)'
    BY <1>5, <1>16 DEF OldEnds, queue, remote, history
<1>17. ASSUME NEW p \in Peers, NEW c \in Cids, BlockLost(p, c) PROVE Rests(q)'
    <2>1. UNCHANGED <<refs, out, work, at, sending, wire>>
        BY <1>17 DEF BlockLost, queue, goroutine
    <2>2. ledger'[q] \subseteq ledger[q] /\ missed[q] \subseteq missed'[q]
        BY <1>17 DEF BlockLost, TypeOK
    <2> QED BY <1>5, <2>1, <2>2
<1>18. CASE UNCHANGED vars
    BY <1>5, <1>18 DEF vars, queue, goroutine, remote, history
<1> QED BY <1>2, <1>3, <1>4, <1>6, <1>7, <1>8, <1>9, <1>10, <1>11, <1>12, <1>13, <1>14, <1>15, <1>16, <1>17, <1>18 DEF Next

-----------------------------------------------------------------------------
(* What a partner will know *)

Knows(p, c) == refs[p] > 0 /\ c \notin missed[p] => (Final(p, c) <=> entry[c][p] # "none")

LEMMA KnowsStill ==
    ASSUME NEW p \in Peers, NEW c \in Cids, Knows(p, c), refs'[p] > 0 => refs[p] > 0, missed[p] \subseteq missed'[p],
           entry'[c][p] = entry[c][p],
           c \notin missed'[p] => /\ c \in out'[p].want <=> c \in out[p].want
                                  /\ Kills(out'[p], c) <=> Kills(out[p], c)
                                  /\ Passed(p, c)' <=> Passed(p, c)
    PROVE  Knows(p, c)'
BY DEF Knows, Final

LEMMA PassedStill ==
    ASSUME NEW p \in Peers, NEW c \in Cids, UNCHANGED <<sending[p], ledger[p], wire[p]>>
    PROVE  Passed(p, c)' <=> Passed(p, c)
BY DEF Passed

LEMMA StillKnows ==
    ASSUME NEW p \in Peers, NEW c \in Cids, Knows(p, c), refs'[p] > 0 => refs[p] > 0, missed[p] \subseteq missed'[p],
           UNCHANGED <<entry[c][p], out[p], sending[p], ledger[p], wire[p]>>
    PROVE  Knows(p, c)'
BY KnowsStill, PassedStill

LEMMA SameKnown == ASSUME NEW s, NEW c, NEW k, NEW l, c \in k <=> c \in l PROVE Arrived(k, s, c) <=> Arrived(l, s, c)
BY DEF Arrived

LEMMA LosesKnows ==
    ASSUME TypeOK, NEW p \in Peers, NEW q \in Peers, NEW d \in Cids, Knows(q, d), LoseWire(p),
           UNCHANGED <<entry, out, sending, ledger>>, refs'[q] > 0 => refs[q] > 0
    PROVE  Knows(q, d)'
<1> DEFINE lost == UNION {About(wire[p][i]) : i \in DOMAIN wire[p]}
<1>1. missed' = [missed EXCEPT ![p] = missed[p] \cup lost] /\ wire' = [wire EXCEPT ![p] = <<>>]
    BY DEF LoseWire, TypeOK
<1>2. CASE p # q
    <2> HIDE DEF lost
    <2>1. UNCHANGED <<missed[q], wire[q]>>
        BY <1>1, <1>2 DEF TypeOK
    <2> QED BY <2>1, StillKnows
<1>3. CASE p = q
    <2>1. d \notin lost => \A i \in DOMAIN wire[q] : d \notin About(wire[q][i])
        BY <1>3
    <2> HIDE DEF lost
    <2>2. missed'[q] = missed[q] \cup lost /\ wire'[q] = <<>> /\ wire[q] \in Seq(Msgs)
        BY <1>1, <1>3 DEF TypeOK
    <2>3. d \notin missed'[q] => (Arrived(ledger'[q], wire'[q], d) <=> Arrived(ledger[q], wire[q], d))
        <3>1. SUFFICES ASSUME d \notin lost PROVE Arrived(ledger[q], <<>>, d) <=> Arrived(ledger[q], wire[q], d)
            BY <2>2
        <3>2. Arrived(ledger[q], wire[q], d) <=> d \in ledger[q]
            BY <2>1, <2>2, <3>1, Unheard
        <3>3. Arrived(ledger[q], <<>>, d) <=> d \in ledger[q]
            BY Silence
        <3> QED BY <3>2, <3>3
    <2>4. d \notin missed'[q] => (Passed(q, d)' <=> Passed(q, d))
        BY <2>3 DEF Passed
    <2> QED BY <2>2, <2>4, KnowsStill
<1> QED BY <1>2, <1>3

LEMMA ToldKept == TypeOK /\ Shared /\ Messages /\ Resting /\ Told /\ [Next]_vars => Told'
<1> SUFFICES ASSUME TypeOK, Shared, Messages, Resting, Told, [Next]_vars, NEW q \in Peers, NEW d \in Cids
             PROVE  Knows(q, d)'
    BY DEF Told, Knows, Has
<1>0. Knows(q, d)
    BY DEF Told, Knows, Has
<1>a. out[q] \in Msgs /\ Good(out[q]) /\ sending[q] \in Msgs /\ Good(sending[q]) /\ wire[q] \in Seq(Msgs) /\ ledger[q] \subseteq Cids
    BY DEF TypeOK, Messages
<1>1. ASSUME NEW s \in Sessions, NEW c \in Cids, NEW ps \in SUBSET Peers, \A r \in ps : refs[r] > 0, NEW all \in BOOLEAN,
             Want(s, c, ps, all), UNCHANGED <<refs, goroutine, remote>>
      PROVE  Knows(q, d)'
    <2>0. Tells(c, q)
        BY <1>1, WantTells
    <2>1. UNCHANGED <<refs[q], sending[q], ledger[q], wire[q]>>
        BY <1>1 DEF goroutine, remote
    <2>2. Passed(q, d)' <=> Passed(q, d)
        BY <2>1, PassedStill
    <2>3. missed[q] \subseteq missed'[q]
        BY <2>0 DEF Tells
    <2>4. PICK n \in Msgs : /\ n = AddToMsg(out[q], c)
                            /\ c \notin out[q].cancel => c \in n.want
                            /\ d # c => (d \in n.want <=> d \in out[q].want) /\ (Kills(n, d) <=> Kills(out[q], d))
        BY <1>a, Adds
    <2>5. CASE entry'[c][q] = entry[c][q] /\ out'[q] = out[q]
        <3>1. entry'[d][q] = entry[d][q]
            BY <2>0, <2>5 DEF Tells
        <3> QED BY <1>0, <2>1, <2>3, <2>5, <3>1, StillKnows
    <2>6. CASE /\ entry'[c][q] = q /\ out'[q] = n
               /\ missed'[q] = IF c \in out[q].cancel THEN missed[q] \cup {c} ELSE missed[q]
        <3>1. CASE d = c
            <4>1. d \notin missed'[q] => d \in out'[q].want
                BY <2>4, <2>6, <3>1
            <4>2. entry'[d][q] # "none"
                BY <2>6, <3>1, Names
            <4> QED BY <4>1, <4>2 DEF Knows, Final
        <3>2. CASE d # c
            <4>1. entry'[d][q] = entry[d][q]
                BY <2>0, <3>2 DEF Tells
            <4>2. (d \in out'[q].want <=> d \in out[q].want) /\ (Kills(out'[q], d) <=> Kills(out[q], d))
                BY <2>4, <2>6, <3>2
            <4> QED BY <1>0, <2>1, <2>2, <2>3, <4>1, <4>2, KnowsStill
        <3> QED BY <3>1, <3>2
    <2> QED BY <2>0, <2>4, <2>5, <2>6 DEF Tells
<1>2. ASSUME NEW s \in Sessions, NEW c \in Cids, NEW targets \in SUBSET Peers, WantBlocks(s, c, targets) PROVE Knows(q, d)'
    <2> DEFINE ps == {p \in Peers : refs[p] > 0 /\ (targets = {} \/ p \in targets)}
               all == targets = {}
    <2>1. Want(s, c, ps, all) /\ ps \in SUBSET Peers /\ (\A r \in ps : refs[r] > 0) /\ all \in BOOLEAN
        BY <1>2 DEF WantBlocks
    <2>2. UNCHANGED <<refs, goroutine, remote>>
        BY <1>2 DEF WantBlocks
    <2> HIDE DEF ps, all
    <2> QED BY <1>1, <2>1, <2>2
<1>3. ASSUME NEW s \in Sessions, NEW c \in Cids, Tick(s, c) PROVE Knows(q, d)'
    <2> DEFINE ps == {p \in Peers : refs[p] > 0}
    <2>1. Want(s, c, ps, TRUE) /\ UNCHANGED <<refs, goroutine, remote>> /\ ps \in SUBSET Peers /\ \A r \in ps : refs[r] > 0
        BY <1>3 DEF Tick
    <2> HIDE DEF ps
    <2> QED BY <1>1, <2>1
<1>4. ASSUME NEW s \in Sessions, NEW c \in Cids, CancelWants(s, c) PROVE Knows(q, d)'
    <2>1. UNCHANGED <<refs[q], sending[q], ledger[q], wire[q], missed[q]>>
        BY <1>4 DEF CancelWants, goroutine, remote
    <2>2. Passed(q, d)' <=> Passed(q, d)
        BY <2>1, PassedStill
    <2>3. \A e \in Cids : e # c => entry'[e][q] = entry[e][q]
        BY <1>4, CancelTells
    <2>4. PICK n \in Msgs : /\ n = CancelInMsg(out[q], c) /\ Kills(n, c) /\ c \notin n.want
                            /\ d # c => (d \in n.want <=> d \in out[q].want) /\ (Kills(n, d) <=> Kills(out[q], d))
        BY <1>a, Cancels
    <2>5. CASE entry'[c][q] = entry[c][q] /\ out'[q] = out[q]
        <3>1. entry'[d][q] = entry[d][q]
            BY <2>3, <2>5
        <3> QED BY <1>0, <2>1, <2>5, <3>1, StillKnows
    <2>6. CASE entry'[c][q] = "none" /\ out'[q] = n
        <3>1. CASE d = c
            <4>1. d \notin out'[q].want /\ Kills(out'[q], d)
                BY <2>4, <2>6, <3>1
            <4>2. entry'[d][q] = "none"
                BY <2>6, <3>1
            <4> QED BY <4>1, <4>2 DEF Knows, Final
        <3>2. CASE d # c
            <4>1. entry'[d][q] = entry[d][q]
                BY <2>3, <3>2
            <4>2. (d \in out'[q].want <=> d \in out[q].want) /\ (Kills(out'[q], d) <=> Kills(out[q], d))
                BY <2>4, <2>6, <3>2
            <4> QED BY <1>0, <2>1, <2>2, <4>1, <4>2, KnowsStill
        <3> QED BY <3>1, <3>2
    <2> QED BY <1>4, <2>4, <2>5, <2>6, CancelTells
<1>5. ASSUME NEW p \in Peers, Connect(p) PROVE Knows(q, d)'
    <2>1. UNCHANGED <<sending, wire, ledger>>
        BY <1>5 DEF Connect, goroutine, remote
    <2>2. CASE p # q
        <3>1. UNCHANGED <<entry[d][q], refs[q], out[q], missed[q]>>
            BY <1>5, <2>2, Names DEF Connect, TypeOK
        <3> QED BY <1>0, <2>1, <3>1, StillKnows
    <2>3. CASE p = q /\ refs[q] > 0
        <3>1. UNCHANGED <<entry, out, missed>>
            BY <1>5, <2>3 DEF Connect
        <3> QED BY <1>0, <2>1, <2>3, <3>1, StillKnows
    <2>4. CASE p = q /\ ~(refs[q] > 0)
        <3> DEFINE known == {c \in Cids : Has("bcwl", c)}
        <3>1. out'[q] = [full |-> TRUE, want |-> known, cancel |-> {}] /\ entry'[d][q] = entry[d]["bcwl"]
            BY <1>5, <2>4, Names DEF Connect, TypeOK
        <3>2. d \in known <=> entry'[d][q] # "none"
            BY <3>1 DEF Has
        <3> HIDE DEF known
        <3>3. out'[q].want = known /\ out'[q].full
            BY <3>1
        <3>4. d \notin known => Kills(out'[q], d)
            BY <3>3 DEF Kills, About
        <3> QED BY <3>2, <3>3, <3>4 DEF Knows, Final
    <2> QED BY <2>2, <2>3, <2>4
<1>6. ASSUME NEW p \in Peers, Break(p) PROVE Knows(q, d)'
    <2>1. UNCHANGED <<entry, out, sending, ledger>> /\ (refs'[q] > 0 => refs[q] > 0)
        BY <1>6 DEF Break, TypeOK, manager
    <2>2. CASE UNCHANGED <<sender, wire, missed, faults>>
        BY <1>0, <2>1, <2>2, StillKnows
    <2>3. CASE LoseWire(p)
        BY <1>0, <2>1, <2>3, LosesKnows
    <2> QED BY <1>6, <2>2, <2>3 DEF Break
<1>7. ASSUME NEW p \in Peers, Disconnect(p) PROVE Knows(q, d)'
    <2>1. CASE p # q
        <3>1. UNCHANGED <<entry[d][q], refs[q], out[q], sending[q], wire[q], ledger[q], missed[q]>>
            <4>1. missed' = missed
                BY <1>7 DEF Disconnect, history
            <4>2. entry'[d][q] = entry[d][q]
                BY <1>7, <2>1, Names DEF Disconnect, TypeOK
            <4> QED BY <1>7, <2>1, <4>1, <4>2 DEF Disconnect, TypeOK
        <3> QED BY <1>0, <3>1, StillKnows
    <2>2. CASE p = q
        <3>1. refs'[q] = 0
            BY <1>7, <2>2 DEF Disconnect, TypeOK
        <3> QED BY <3>1 DEF Knows
    <2> QED BY <2>1, <2>2
<1>8. ASSUME NEW p \in Peers, TakeWork(p) PROVE Knows(q, d)'
    <2>1. UNCHANGED <<entry, refs, wire, ledger, missed>>
        BY <1>8 DEF TakeWork, manager, remote, history
    <2>2. CASE p # q \/ Empty(out[q])
        <3>1. UNCHANGED <<out[q], sending[q]>>
            BY <1>8, <2>2 DEF TakeWork, TypeOK
        <3> QED BY <1>0, <2>1, <3>1, StillKnows
    <2>3. CASE p = q /\ ~Empty(out[q])
        <3>1. out'[q] = NoMsg /\ sending'[q] = out[q] /\ sending[q] = NoMsg
            BY <1>8, <2>3 DEF TakeWork, TypeOK, Resting
        <3>2. Passed(q, d) <=> Arrived(ledger[q], wire[q], d)
            BY <3>1, Nothing DEF Passed
        <3>3. Final(q, d)' <=> Passed(q, d)'
            BY <3>1, Nothing DEF Final
        <3>4. Passed(q, d)' <=> d \in out[q].want \/ (~Kills(out[q], d) /\ Arrived(ledger[q], wire[q], d))
            BY <2>1, <3>1 DEF Passed
        <3>5. Final(q, d)' <=> Final(q, d)
            BY <3>2, <3>3, <3>4 DEF Final
        <3> QED BY <1>0, <2>1, <3>5 DEF Knows
    <2> QED BY <2>2, <2>3
<1>9. ASSUME NEW p \in Peers, Open(p) PROVE Knows(q, d)'
    <2>1. UNCHANGED <<entry, refs, out, sending, wire, ledger, missed>>
        BY <1>9 DEF Open, manager, queue, remote, history
    <2> QED BY <1>0, <2>1, StillKnows
<1>10. ASSUME NEW p \in Peers, OpenFails(p) PROVE Knows(q, d)'
    <2>1. UNCHANGED <<entry, refs, out, wire, ledger>>
        BY <1>10 DEF OpenFails, manager, queue, remote
    <2>2. CASE p # q
        <3>1. UNCHANGED <<sending[q], missed[q]>>
            BY <1>10, <2>2 DEF OpenFails, TypeOK
        <3> QED BY <1>0, <2>1, <3>1, StillKnows
    <2>3. CASE p = q
        <3>1. sending'[q] = NoMsg /\ missed'[q] = missed[q] \cup About(sending[q])
            BY <1>10, <2>3 DEF OpenFails, TypeOK
        <3>2. d \notin About(sending[q]) => d \notin sending[q].want /\ ~Kills(sending[q], d)
            BY <1>a DEF About, Kills, Msgs
        <3>3. d \notin missed'[q] => (Passed(q, d)' <=> Passed(q, d))
            BY <2>1, <3>1, <3>2, Nothing DEF Passed
        <3> QED BY <1>0, <2>1, <3>1, <3>3, KnowsStill
    <2> QED BY <2>2, <2>3
<1>11. ASSUME NEW p \in Peers, Send(p) PROVE Knows(q, d)'
    <2>1. UNCHANGED <<entry, refs, out, ledger, missed>>
        BY <1>11 DEF Send, manager, queue, history
    <2>2. CASE p # q
        <3>1. UNCHANGED <<sending[q], wire[q]>>
            BY <1>11, <2>2 DEF Send, TypeOK
        <3> QED BY <1>0, <2>1, <3>1, StillKnows
    <2>3. CASE p = q
        <3>1. sending'[q] = NoMsg /\ wire'[q] = Append(wire[q], sending[q])
            BY <1>11, <2>3 DEF Send, TypeOK
        <3>2. Arrived(ledger[q], Append(wire[q], sending[q]), d) <=>
                d \in sending[q].want \/ (Arrived(ledger[q], wire[q], d) /\ ~Kills(sending[q], d))
            BY <1>a, Sends
        <3>3. Passed(q, d)' <=> Passed(q, d)
            BY <2>1, <3>1, <3>2, Nothing DEF Passed
        <3> QED BY <1>0, <2>1, <3>3, KnowsStill
    <2> QED BY <2>2, <2>3
<1>12. ASSUME NEW p \in Peers, SendFails(p) PROVE Knows(q, d)'
    <2>1. UNCHANGED <<entry, refs, out, sending, ledger>>
        BY <1>12 DEF SendFails, manager, queue
    <2>2. CASE UNCHANGED <<faults, wire, missed>>
        BY <1>0, <2>1, <2>2, StillKnows
    <2>3. CASE LoseWire(p)
        BY <1>0, <2>1, <2>3, LosesKnows
    <2> QED BY <1>12, <2>2, <2>3 DEF SendFails
<1>13. ASSUME NEW p \in Peers, Deliver(p) PROVE Knows(q, d)'
    <2>1. UNCHANGED <<entry, refs, out, sending, missed>>
        BY <1>13 DEF Deliver, manager, queue, goroutine, history
    <2>2. CASE p # q
        <3>1. UNCHANGED <<ledger[q], wire[q]>>
            BY <1>13, <2>2 DEF Deliver, TypeOK
        <3> QED BY <1>0, <2>1, <3>1, StillKnows
    <2>3. CASE p = q
        <3>1. wire[q] # <<>> /\ ledger'[q] = Apply(ledger[q], Head(wire[q])) /\ wire'[q] = Tail(wire[q])
            BY <1>13, <2>3 DEF Deliver, TypeOK
        <3>2. Good(Head(wire[q]))
            <4>1. AllGood(wire[q])
                BY DEF Messages, AllGood
            <4> QED BY <1>a, <3>1, <4>1, GoodStreams
        <3>3. Arrived(Apply(ledger[q], Head(wire[q])), Tail(wire[q]), d) <=> Arrived(ledger[q], wire[q], d)
            BY <1>a, <3>1, <3>2, Hears
        <3>4. Passed(q, d)' <=> Passed(q, d)
            BY <2>1, <3>1, <3>3 DEF Passed
        <3> QED BY <1>0, <2>1, <3>4, KnowsStill
    <2> QED BY <2>2, <2>3
<1>14. ASSUME NEW p \in Peers, OldSends(p) PROVE Knows(q, d)'
    <2>1. UNCHANGED <<entry, refs, out, sending, wire>>
        BY <1>14 DEF OldSends, manager, queue
    <2>2. CASE p # q
        <3>1. UNCHANGED <<ledger[q], missed[q]>>
            BY <1>14, <2>2 DEF OldSends, TypeOK
        <3> QED BY <1>0, <2>1, <3>1, StillKnows
    <2>3. CASE p = q
        <3>1. PICK m \in Msgs : ledger'[q] = Apply(ledger[q], m) /\ missed'[q] = missed[q] \cup About(m)
            <4>1. Head(old[p]) \in Msgs
                BY <1>14, HeadTailProperties DEF OldSends, TypeOK
            <4> QED BY <1>14, <2>3, <4>1 DEF OldSends, TypeOK
        <3>2. d \notin About(m) => (d \in Apply(ledger[q], m) <=> d \in ledger[q])
            BY DEF Apply, About, Msgs
        <3>3. d \notin missed'[q] => (Arrived(ledger'[q], wire[q], d) <=> Arrived(ledger[q], wire[q], d))
            BY <3>1, <3>2, SameKnown
        <3>4. d \notin missed'[q] => (Passed(q, d)' <=> Passed(q, d))
            BY <2>1, <3>3 DEF Passed
        <3> QED BY <1>0, <2>1, <3>1, <3>4, KnowsStill
    <2> QED BY <2>2, <2>3
<1>15. ASSUME NEW p \in Peers, OldEnds(p) PROVE Knows(q, d)'
    <2>1. UNCHANGED <<entry, refs, out, sending, wire, ledger, missed>>
        BY <1>15 DEF OldEnds, manager, queue, remote, history
    <2> QED BY <1>0, <2>1, StillKnows
<1>16. ASSUME NEW p \in Peers, NEW c \in Cids, BlockLost(p, c) PROVE Knows(q, d)'
    <2>1. UNCHANGED <<entry, refs, out, sending, wire>>
        BY <1>16 DEF BlockLost, manager, queue, goroutine
    <2>2. /\ missed[q] \subseteq missed'[q]
          /\ d \notin missed'[q] => (d \in ledger'[q] <=> d \in ledger[q])
        BY <1>16 DEF BlockLost, TypeOK
    <2>3. d \notin missed'[q] => (Arrived(ledger'[q], wire[q], d) <=> Arrived(ledger[q], wire[q], d))
        BY <2>2, SameKnown
    <2>4. d \notin missed'[q] => (Passed(q, d)' <=> Passed(q, d))
        BY <2>1, <2>3 DEF Passed
    <2> QED BY <1>0, <2>1, <2>2, <2>4, KnowsStill
<1>17. CASE UNCHANGED vars
    <2>1. UNCHANGED <<entry, refs, out, sending, wire, ledger, missed>>
        BY <1>17 DEF vars, manager, queue, goroutine, remote, history
    <2> QED BY <1>0, <2>1, StillKnows
<1> QED BY <1>2, <1>3, <1>4, <1>5, <1>6, <1>7, <1>8, <1>9, <1>10, <1>11, <1>12, <1>13, <1>14, <1>15, <1>16, <1>17 DEF Next

-----------------------------------------------------------------------------
(* The theorems *)

LEMMA Tracked == TypeOK /\ Shared /\ Tracking /\ [Next]_vars => Shared' /\ Tracking'
<1> SUFFICES ASSUME TypeOK, Shared, Tracking, [Next]_vars PROVE Shared' /\ Tracking'
    OBVIOUS
<1>1. ASSUME NEW s \in Sessions, NEW c \in Cids, NEW targets \in SUBSET Peers, WantBlocks(s, c, targets)
      PROVE  Shared' /\ Tracking'
    <2> DEFINE ps == {p \in Peers : refs[p] > 0 /\ (targets = {} \/ p \in targets)}
               all == targets = {}
               how == IF all \/ asked[s][c] = "all" THEN "all" ELSE "some"
    <2>1. Want(s, c, ps, all) /\ ps \in SUBSET {p \in Peers : refs[p] > 0} /\ all \in BOOLEAN /\ UNCHANGED refs
        BY <1>1 DEF WantBlocks
    <2>2. all => ps = {p \in Peers : refs[p] > 0}
        OBVIOUS
    <2>3. how \in {"some", "all"} /\ asked' = [asked EXCEPT ![s][c] = how] /\ (how = "all" => all \/ asked[s][c] = "all")
        BY <1>1 DEF WantBlocks, TypeOK
    <2> HIDE DEF ps, all, how
    <2>4. PICK a \in BOOLEAN, w \in {"some", "all"}, ts \in SUBSET {p \in Peers : refs[p] > 0} :
              /\ Want(s, c, ts, a) /\ (a => ts = {p \in Peers : refs[p] > 0})
              /\ asked' = [asked EXCEPT ![s][c] = w] /\ (w = "all" => a \/ asked[s][c] = "all")
        BY <2>1, <2>2, <2>3
    <2>5. CASE a = TRUE
        BY <2>1, <2>4, <2>5, WantTracks
    <2>6. CASE a = FALSE
        BY <2>1, <2>4, <2>6, WantTracks
    <2> QED BY <2>5, <2>6
<1>2. ASSUME NEW s \in Sessions, NEW c \in Cids, Tick(s, c) PROVE Shared' /\ Tracking'
    <2> DEFINE ps == {p \in Peers : refs[p] > 0}
    <2>1. Want(s, c, ps, TRUE) /\ ps \in SUBSET {p \in Peers : refs[p] > 0} /\ UNCHANGED refs
          /\ ps = {p \in Peers : refs[p] > 0}
        BY <1>2 DEF Tick
    <2>2. asked' = [asked EXCEPT ![s][c] = "all"]
        BY <1>2 DEF Tick
    <2> HIDE DEF ps
    <2> QED BY <2>1, <2>2, WantTracks
<1>3. ASSUME NEW s \in Sessions, NEW c \in Cids, CancelWants(s, c) PROVE Shared' /\ Tracking'
    BY <1>3, CancelTracks
<1>4. ASSUME NEW p \in Peers, Connect(p) PROVE Shared' /\ Tracking'
    BY <1>4, ConnectTracks
<1>5. ASSUME NEW p \in Peers, Disconnect(p) PROVE Shared' /\ Tracking'
    BY <1>5, DisconnectTracks
<1>6. ASSUME NEW p \in Peers, Break(p) PROVE Shared' /\ Tracking'
    <2>1. \A q \in Peers : (refs'[q] = 0 => refs[q] = 0) /\ (refs'[q] > 0 => refs[q] > 0)
        BY <1>6 DEF Break, TypeOK
    <2>2. UNCHANGED manager /\ UNCHANGED asked
        BY <1>6 DEF Break
    <2> QED BY <2>1, <2>2, StillTracks
<1>7. CASE UNCHANGED <<manager, refs, asked>>
    BY <1>7, StillTracks
<1>8. ASSUME NEW p \in Peers,
             \/ TakeWork(p) \/ Open(p) \/ OpenFails(p) \/ Send(p) \/ SendFails(p)
             \/ Deliver(p) \/ OldSends(p) \/ OldEnds(p) \/ \E c \in Cids : BlockLost(p, c)
      PROVE  UNCHANGED <<manager, refs, asked>>
    BY <1>8 DEF TakeWork, Open, OpenFails, Send, SendFails, Deliver, OldSends, OldEnds, BlockLost,
                queue, history
<1>9. CASE UNCHANGED vars
    BY <1>7, <1>9 DEF vars, queue, history
<1> QED BY <1>1, <1>2, <1>3, <1>4, <1>5, <1>6, <1>7, <1>8, <1>9 DEF Next

LEMMA Initially == Init => IInv
<1> SUFFICES ASSUME Init PROVE IInv
    OBVIOUS
<1>1. 0 \in 0 .. MaxAsks /\ 0 \in 0 .. MaxDials /\ 0 \in 0 .. MaxFaults /\ 0 \in 0 .. MaxConns /\ <<>> \in Seq(Msgs)
    <2>1. MaxAsks \in Nat /\ MaxConns \in Nat /\ MaxDials \in Nat /\ MaxFaults \in Nat
        BY Bounds
    <2> QED BY <2>1, EmptySeq
<1>2. TypeOK
    BY <1>1, Nothing DEF Init, TypeOK, NoMsg
<1>3. \A c \in Cids : Wanted(c) = {} /\ Broadcast(c) = {}
    BY DEF Init, Wanted, Broadcast
<1>4. Shared
    BY Names DEF Init, Shared
<1>5. Tracking
    BY <1>3, Names DEF Init, Tracking, Has
<1>6. Messages
    BY Nothing DEF Init, Messages
<1>7. Resting
    BY Nothing DEF Init, Resting
<1>8. Told
    BY DEF Init, Told
<1> QED BY <1>2, <1>4, <1>5, <1>6, <1>7, <1>8 DEF IInv

\* The inductive invariant, of any number of keys, sessions and partners.
THEOREM Invariant == Spec => []IInv
<1>1. IInv /\ [Next]_vars => IInv'
    BY Types, Tracked, MessagesKept, RestingKept, ToldKept DEF IInv
<1> QED BY Initially, <1>1, PTL DEF Spec

\* Each step keeps the values of the variables in their types.
THEOREM Typing == Spec => []TypeOK
<1>1. IInv => TypeOK
    BY DEF IInv
<1> QED BY Invariant, <1>1, PTL

\* The wantlists, though they share their entries (wantlist.go), track exactly the
\* sessions that want a key; a partner that comes, goes or is asked alone changes
\* nothing in the others' lists.
THEOREM ListsTrackSessions == Spec => []ListsTrack
<1>1. IInv => ListsTrack
    <2> SUFFICES ASSUME IInv, NEW c \in Cids
                 PROVE  /\ Has("wl", c) <=> Wanted(c) # {}
                        /\ Has("wl", c) => tracks[c][entry[c]["wl"]] = Wanted(c)
                        /\ Broadcast(c) # {} => \A l \in {"bcwl"} \cup {p \in Peers : refs[p] > 0} : Has(l, c)
                        /\ Wanted(c) = {} => \A l \in Lists : ~Has(l, c)
        BY DEF ListsTrack
    <2>1. \A l \in Lists : Has(l, c) => Wanted(c) # {}
        <3> SUFFICES ASSUME NEW l \in Lists, Has(l, c) PROVE Wanted(c) # {}
            OBVIOUS
        <3>1. entry[c][l] \in Lists /\ tracks[c][entry[c][l]] # {}
            BY DEF IInv, TypeOK, Tracking, Has
        <3> QED BY <3>1 DEF IInv, Tracking
    <2>2. Wanted(c) # {} => Has("wl", c) /\ tracks[c][entry[c]["wl"]] = Wanted(c)
        BY DEF IInv, Tracking
    <2>3. Broadcast(c) # {} => \A l \in {"bcwl"} \cup {p \in Peers : refs[p] > 0} : Has(l, c)
        BY DEF IInv, Tracking
    <2> QED BY <2>1, <2>2, <2>3, Names
<1> QED BY Invariant, <1>1, PTL

\* However changes are merged into the pending message, messages fail, streams
\* break and partners come back: once a queue has nothing left to send, its partner
\* knows what is wanted of all, and nothing that is not, but for what it missed.
THEOREM AllIsTold == Spec => []ToldAll
<1>1. IInv => ToldAll
    <2> SUFFICES ASSUME IInv, NEW p \in Peers, Quiet(p), NEW c \in Cids \ missed[p]
                 PROVE  /\ Broadcast(c) # {} => c \in ledger[p]
                        /\ c \in ledger[p] => Wanted(c) # {}
        BY DEF ToldAll
    <2>1. Final(p, c) <=> Has(p, c)
        BY DEF IInv, Told, Quiet
    <2>2. sending[p] = NoMsg /\ Empty(out[p]) /\ wire[p] = <<>> /\ (out[p].full => c \notin ledger[p]) /\ out[p] \in Msgs
        BY DEF IInv, Resting, Quiet, TypeOK
    <2>3. Passed(p, c) <=> c \in ledger[p]
        <3>1. Arrived(ledger[p], <<>>, c) <=> c \in ledger[p]
            BY Silence
        <3> QED BY <2>2, <3>1, Nothing DEF Passed
    <2>4. c \notin out[p].want /\ (~out[p].full => ~Kills(out[p], c))
        BY <2>2 DEF Empty, Kills, About, Msgs
    <2>5. Final(p, c) <=> c \in ledger[p]
        <3>1. out[p].full => ~Final(p, c)
            BY <2>2, <2>3, <2>4 DEF Final
        <3> QED BY <2>2, <2>3, <2>4, <3>1 DEF Final
    <2>6. Broadcast(c) # {} => Has(p, c)
        BY DEF IInv, Tracking, Quiet
    <2>7. Has(p, c) => Wanted(c) # {}
        <3> SUFFICES ASSUME Has(p, c) PROVE Wanted(c) # {}
            OBVIOUS
        <3>1. entry[c][p] \in Lists /\ tracks[c][entry[c][p]] # {}
            BY Names DEF IInv, TypeOK, Tracking, Has
        <3> QED BY <3>1 DEF IInv, Tracking
    <2> QED BY <2>1, <2>5, <2>6, <2>7
<1> QED BY Invariant, <1>1, PTL
=============================================================================
