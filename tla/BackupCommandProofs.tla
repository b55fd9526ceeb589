-------------------------- MODULE BackupCommandProofs --------------------------
(***************************************************************************)
(* Proofs about BackupCommand, for any number of records with any names    *)
(* and parents, any tree of files and any order of steps; and about the    *)
(* reader of the volume, for sectors, reads and caches of any size.        *)
(***************************************************************************)
EXTENDS BackupCommand, MftReader, FiniteSetTheorems, SequenceTheorems,
        WellFoundedInduction, TLAPS

-------------------------------------------------------------------------------
(* Induction: of the numbers with a property one is the least.             *)
LEMMA LeastNumber ==
  ASSUME NEW T \in SUBSET Nat, T # {}
  PROVE  \E m \in T : \A k \in T : m <= k
<1> DEFINE Below(m) == 0..m
           Tops == {Below(m) : m \in T}
<1>1. Tops \subseteq FiniteSubsetsOf(Nat)
  <2> SUFFICES ASSUME NEW m \in T PROVE Below(m) \in FiniteSubsetsOf(Nat)
    OBVIOUS
  <2>1. IsFiniteSet(0..m)
    BY FS_Interval
  <2> QED
    BY <2>1 DEF FiniteSubsetsOf
<1>2. Tops # {}
  OBVIOUS
<1>3. IsWellFoundedOn(StrictSubsetOrdering(Nat), FiniteSubsetsOf(Nat))
  BY FS_StrictSubsetOrderingWellFounded
<1> HIDE DEF Tops
<1>4. PICK top \in Tops : \A other \in Tops : <<other, top>> \notin StrictSubsetOrdering(Nat)
  BY <1>1, <1>2, <1>3, WFMin
<1>5. PICK m \in T : top = Below(m)
  BY <1>4 DEF Tops
<1>6. ASSUME NEW k \in T, k < m PROVE FALSE
  <2>1. Below(k) \in Tops
    BY DEF Tops
  <2>2. /\ Below(k) \in SUBSET Nat /\ Below(m) \in SUBSET Nat
        /\ Below(k) \subseteq Below(m) /\ Below(k) # Below(m)
    BY <1>6
  <2>3. <<Below(k), top>> \in StrictSubsetOrdering(Nat)
    BY <2>2, <1>5 DEF StrictSubsetOrdering
  <2> QED
    BY <2>1, <2>3, <1>4
<1> QED
  BY <1>5, <1>6

(* What holds for 0 and, with n, for n + 1 holds up to any bound.          *)
LEMMA Induction ==
  ASSUME NEW max \in Nat, NEW T \in SUBSET Nat, 0 \in T,
         \A n \in Nat : n < max /\ n \in T => n + 1 \in T
  PROVE  \A n \in 0..max : n \in T
<1> DEFINE Rest == {n \in 0..max : n \notin T}
<1> SUFFICES ASSUME Rest # {} PROVE FALSE
  OBVIOUS
<1>1. PICK m \in Rest : \A k \in Rest : m <= k
  <2>1. Rest \in SUBSET Nat
    OBVIOUS
  <2> HIDE DEF Rest
  <2> QED
    BY <2>1, LeastNumber
<1>2. m # 0
  BY <1>1
<1>3. m - 1 \in Nat /\ m - 1 < max /\ m - 1 \notin Rest
  BY <1>1, <1>2
<1>4. m - 1 \in T
  BY <1>3
<1>5. (m - 1) + 1 \in T
  BY <1>3, <1>4
<1> QED
  BY <1>1, <1>5

-------------------------------------------------------------------------------
(* Sequences: all but the last, the last, and prefixes.                    *)
LEMMA FrontLast ==
  ASSUME NEW S, NEW p \in Seq(S), p # <<>>
  PROVE  /\ Len(p) \in Nat \ {0}
         /\ Front(p) \in Seq(S)
         /\ Len(Front(p)) = Len(p) - 1
         /\ \A i \in 1..Len(p) - 1 : Front(p)[i] = p[i]
         /\ Last(p) \in S
         /\ Last(p) = p[Len(p)]
         /\ p = Append(Front(p), Last(p))
<1>1. Len(p) \in Nat \ {0}
  OBVIOUS
<1>2. /\ Front(p) \in Seq(S)
      /\ Len(Front(p)) = Len(p) - 1
      /\ \A i \in 1..Len(p) - 1 : Front(p)[i] = p[i]
  <2>1. \A i \in 1..Len(p) - 1 : p[i] \in S
    BY <1>1
  <2>2. /\ Front(p) \in Seq(S)
        /\ Len(Front(p)) = IF 1 <= Len(p) - 1 THEN Len(p) - 1 - 1 + 1 ELSE 0
        /\ \A i \in 1..Len(p) - 1 - 1 + 1 : Front(p)[i] = p[1 + i - 1]
    BY <2>1, <1>1, SubSeqProperties, 1 \in Int, Len(p) - 1 \in Int DEF Front
  <2> DEFINE n == Len(p)
             front == Front(p)
  <2>3. n \in Nat \ {0} /\ Len(front) = (IF 1 <= n - 1 THEN n - 1 - 1 + 1 ELSE 0)
    BY <2>2, <1>1
  <2>4. \A i \in 1..n - 1 : front[i] = p[i]
    <3> SUFFICES ASSUME NEW i \in 1..n - 1 PROVE front[i] = p[i]
      OBVIOUS
    <3>1. i \in 1..n - 1 - 1 + 1 /\ 1 + i - 1 = i
      BY <1>1
    <3> QED
      BY <2>2, <3>1
  <2> HIDE DEF n, front
  <2>5. Len(front) = n - 1
    BY <2>3
  <2> QED
    BY <2>2, <2>4, <2>5 DEF n, front
<1>3. Last(p) \in S /\ Last(p) = p[Len(p)]
  BY <1>1 DEF Last
<1>4. p = Append(Front(p), Last(p))
  BY <1>1, <1>2, <1>3
<1> QED
  BY <1>1, <1>2, <1>3, <1>4

LEMMA Appended ==
  ASSUME NEW S, NEW p \in Seq(S), NEW e \in S
  PROVE  /\ Append(p, e) \in Seq(S)
         /\ Append(p, e) # <<>>
         /\ Front(Append(p, e)) = p
         /\ Last(Append(p, e)) = e
         /\ Len(Append(p, e)) = Len(p) + 1
         /\ \A i \in 1..Len(p) : Append(p, e)[i] = p[i]
         /\ Append(p, e)[Len(p) + 1] = e
  BY DEF Front, Last

LEMMA PrefixMeans ==
  ASSUME NEW S, NEW p \in Seq(S), NEW q \in Seq(S)
  PROVE  IsPrefix(p, q) <=> Len(p) <= Len(q) /\ \A i \in 1..Len(p) : p[i] = q[i]
<1>1. SubSeq(p, 1, Len(p)) = p
  OBVIOUS
<1>2. CASE Len(p) <= Len(q)
  <2> DEFINE part == SubSeq(q, 1, Len(p))
  <2>1. part \in Seq(S) /\ Len(part) = Len(p) /\ \A i \in 1..Len(p) : part[i] = q[i]
    BY <1>2
  <2> HIDE DEF part
  <2>2. p = part <=> \A i \in 1..Len(p) : p[i] = part[i]
    BY <2>1
  <2> QED
    BY <1>1, <1>2, <2>1, <2>2 DEF IsPrefix, part
<1> QED
  BY <1>2 DEF IsPrefix

LEMMA PrefixOrder ==
  ASSUME NEW S, NEW p \in Seq(S), NEW q \in Seq(S), NEW r \in Seq(S)
  PROVE  /\ IsPrefix(p, p)
         /\ IsPrefix(p, q) /\ IsPrefix(q, r) => IsPrefix(p, r)
         /\ IsPrefix(p, q) /\ Len(p) = Len(q) => p = q
         /\ IsPrefix(p, q) => Len(p) <= Len(q)
<1>1. /\ Len(p) \in Nat /\ Len(q) \in Nat /\ Len(r) \in Nat
  OBVIOUS
<1>2. IsPrefix(p, p)
  BY PrefixMeans
<1>3. ASSUME IsPrefix(p, q), IsPrefix(q, r) PROVE IsPrefix(p, r)
  <2>1. Len(p) <= Len(q) /\ \A i \in 1..Len(p) : p[i] = q[i]
    BY <1>3, PrefixMeans
  <2>2. Len(q) <= Len(r) /\ \A i \in 1..Len(q) : q[i] = r[i]
    BY <1>3, PrefixMeans
  <2>3. Len(p) <= Len(r) /\ \A i \in 1..Len(p) : p[i] = r[i]
    BY <1>1, <2>1, <2>2
  <2> QED
    BY <2>3, PrefixMeans
<1>4. ASSUME IsPrefix(p, q) PROVE Len(p) <= Len(q) /\ \A i \in 1..Len(p) : p[i] = q[i]
  BY <1>4, PrefixMeans
<1>5. ASSUME IsPrefix(p, q), Len(p) = Len(q) PROVE p = q
  BY <1>4, <1>5
<1> QED
  BY <1>2, <1>3, <1>4, <1>5

(* A prefix of a sequence is the sequence or a prefix of all but its last. *)
LEMMA PrefixOfFront ==
  ASSUME NEW S, NEW p \in Seq(S), NEW q \in Seq(S), q # <<>>
  PROVE  IsPrefix(p, q) <=> p = q \/ IsPrefix(p, Front(q))
<1>1. /\ Len(q) \in Nat \ {0} /\ Front(q) \in Seq(S) /\ Len(Front(q)) = Len(q) - 1
      /\ \A i \in 1..Len(q) - 1 : Front(q)[i] = q[i]
  BY FrontLast
<1>2. IsPrefix(p, q) <=> Len(p) <= Len(q) /\ \A i \in 1..Len(p) : p[i] = q[i]
  BY PrefixMeans
<1>3. IsPrefix(p, Front(q)) <=> Len(p) <= Len(Front(q)) /\ \A i \in 1..Len(p) : p[i] = Front(q)[i]
  BY <1>1, PrefixMeans
<1>4. Len(p) \in Nat
  OBVIOUS
<1>5. ASSUME IsPrefix(p, q) PROVE p = q \/ IsPrefix(p, Front(q))
  <2>1. CASE Len(p) = Len(q)
    BY <1>5, <2>1, PrefixOrder
  <2>2. CASE Len(p) < Len(q)
    BY <1>1, <1>2, <1>3, <1>4, <1>5, <2>2
  <2> QED
    BY <1>1, <1>2, <1>4, <1>5, <2>1, <2>2
<1>6. ASSUME IsPrefix(p, Front(q)) PROVE IsPrefix(p, q)
  BY <1>1, <1>2, <1>3, <1>4, <1>6
<1>7. IsPrefix(q, q)
  BY PrefixOrder
<1> QED
  BY <1>5, <1>6, <1>7

LEMMA PrefixOfEmpty ==
  ASSUME NEW S, NEW p \in Seq(S)
  PROVE  IsPrefix(<<>>, p) /\ (IsPrefix(p, <<>>) <=> p = <<>>)
<1> DEFINE none == <<>>
<1>1. none \in Seq(S) /\ Len(none) = 0 /\ Len(p) \in Nat /\ (Len(p) = 0 <=> p = none)
  OBVIOUS
<1> HIDE DEF none
<1>2. IsPrefix(none, p)
  <2>1. IsPrefix(none, p) <=> Len(none) <= Len(p) /\ \A i \in 1..Len(none) : none[i] = p[i]
    BY <1>1, PrefixMeans
  <2> QED
    BY <1>1, <2>1
<1>3. IsPrefix(p, none) <=> Len(p) <= 0
  <2>1. IsPrefix(p, none) <=> Len(p) <= Len(none) /\ \A i \in 1..Len(p) : p[i] = none[i]
    BY <1>1, PrefixMeans
  <2> QED
    BY <1>1, <2>1
<1> QED
  BY <1>1, <1>2, <1>3 DEF none
-------------------------------------------------------------------------------
(* lookup_children, built up in the order of the map.                      *)
Pushed(pushed, order, last) ==
  pushed = [i \in 0..last |->
              IF i = 0 THEN [n \in Numbers |-> <<>>]
              ELSE [pushed[i - 1] EXCEPT
                      ![gathered[order[i]].parent] = Append(@, order[i])]]

LEMMA PushedExists ==
  ASSUME NEW order \in Seq(DOMAIN gathered)
  PROVE  \E pushed : Pushed(pushed, order, Len(order))
<1> DEFINE T == {k \in Nat : \E w : Pushed(w, order, k)}
           None == [n \in Numbers |-> <<>>]
           More(w, i) == [w EXCEPT ![gathered[order[i]].parent] = Append(@, order[i])]
<1>1. 0 \in T
  <2> DEFINE first == [i \in 0..0 |-> None]
  <2>1. Pushed(first, order, 0)
    BY DEF Pushed
  <2> QED
    BY <2>1
<1>2. ASSUME NEW n \in Nat, n < Len(order), n \in T PROVE n + 1 \in T
  <2>1. PICK at : Pushed(at, order, n)
    BY <1>2
  <2> DEFINE new == [i \in 0..n + 1 |-> IF i = n + 1 THEN More(at[n], n + 1) ELSE at[i]]
  <2> HIDE DEF None, More
  <2>2. at = [i \in 0..n |-> IF i = 0 THEN None ELSE More(at[i - 1], i)]
    BY <2>1 DEF Pushed, None, More
  <2>3. ASSUME NEW i \in 0..n + 1
        PROVE  new[i] = IF i = 0 THEN None ELSE More(new[i - 1], i)
    <3>1. CASE i = n + 1
      BY <3>1
    <3>2. CASE i # n + 1
      <4>1. at[i] = IF i = 0 THEN None ELSE More(at[i - 1], i)
        BY <2>2, <3>2
      <4> QED
        BY <4>1, <3>2
    <3> QED
      BY <3>1, <3>2
  <2>4. new = [i \in 0..n + 1 |-> IF i = 0 THEN None ELSE More(new[i - 1], i)]
    BY <2>3
  <2> HIDE DEF new
  <2>5. Pushed(new, order, n + 1)
    BY <2>4 DEF Pushed, None, More
  <2> QED
    BY <2>5 DEF T
<1> HIDE DEF T
<1>3. \A n \in 0..Len(order) : n \in T
  <2>1. T \in SUBSET Nat
    BY DEF T
  <2>2. Len(order) \in Nat
    OBVIOUS
  <2> QED
    BY <1>1, <1>2, <2>1, <2>2, Induction
<1>4. Len(order) \in T
  BY <1>3
<1> QED
  BY <1>4 DEF T

(* Each entry is pushed once, to the children of its parent.               *)
LookedUp(lookup, order, last) ==
  /\ lookup \in [Numbers -> Seq(DOMAIN gathered)]
  /\ \A n \in Numbers : \A i \in 1..Len(lookup[n]) :
       /\ gathered[lookup[n][i]].parent = n
       /\ \E m \in 1..last : lookup[n][i] = order[m]
  /\ \A n \in Numbers : \A i, j \in 1..Len(lookup[n]) :
       lookup[n][i] = lookup[n][j] => i = j
  /\ \A m \in 1..last : \E i \in 1..Len(lookup[gathered[order[m]].parent]) :
       lookup[gathered[order[m]].parent][i] = order[m]

Gathered ==
  /\ DOMAIN gathered \subseteq Numbers
  /\ \A n \in DOMAIN gathered : gathered[n] \in EntriesOf(n)

LEMMA EntryType ==
  ASSUME Gathered, NEW n \in DOMAIN gathered
  PROVE  /\ gathered[n].parent \in Numbers
         /\ gathered[n].isDir \in BOOLEAN
         /\ n # Root => gathered[n].name \in Names
         /\ n = Root => gathered[n].name = "root"
<1>1. gathered[n] \in EntriesOf(n)
  BY DEF Gathered
<1>2. Root \in Numbers
  BY BackupAssumption
<1>3. CASE n = Root
  <2>1. gathered[n] = [name |-> "root", parent |-> Root, isDir |-> TRUE]
    BY <1>1, <1>3 DEF EntriesOf
  <2>2. gathered[n].name = "root" /\ gathered[n].parent = Root /\ gathered[n].isDir = TRUE
    BY <2>1
  <2> QED
    BY <2>2, <1>2, <1>3
<1>4. CASE n # Root
  <2>1. gathered[n] \in [name : Names, parent : Numbers, isDir : BOOLEAN]
    BY <1>1, <1>4 DEF EntriesOf
  <2>2. gathered[n].name \in Names /\ gathered[n].parent \in Numbers /\ gathered[n].isDir \in BOOLEAN
    BY <2>1
  <2> QED
    BY <2>2, <1>4
<1> QED
  BY <1>3, <1>4

LEMMA LookedUpNext ==
  ASSUME Gathered, NEW order \in Seq(DOMAIN gathered),
         \A i, j \in 1..Len(order) : order[i] = order[j] => i = j,
         NEW n \in Nat, n < Len(order), NEW lookup, LookedUp(lookup, order, n)
  PROVE  LookedUp([lookup EXCEPT ![gathered[order[n + 1]].parent] = Append(@, order[n + 1])],
                  order, n + 1)
<1> DEFINE id == order[n + 1]
           par == gathered[id].parent
           before == lookup[par]
           after == Append(before, id)
           new == [lookup EXCEPT ![par] = after]
<1>1. id \in DOMAIN gathered /\ par \in Numbers
  <2>1. id \in DOMAIN gathered
    OBVIOUS
  <2> QED
    BY <2>1, EntryType
<1>2. before \in Seq(DOMAIN gathered)
  BY <1>1 DEF LookedUp
<1> HIDE DEF id, par
<1>3. /\ after \in Seq(DOMAIN gathered)
      /\ Len(after) = Len(before) + 1
      /\ \A i \in 1..Len(before) : after[i] = before[i]
      /\ after[Len(before) + 1] = id
  BY <1>1, <1>2, Appended
<1>4. Len(before) \in Nat
  BY <1>2
<1>5. \A i \in 1..Len(before) : before[i] # id
  <2> SUFFICES ASSUME NEW i \in 1..Len(before), before[i] = id PROVE FALSE
    OBVIOUS
  <2>0. \A a \in 1..Len(lookup[par]) : \E m \in 1..n : lookup[par][a] = order[m]
    BY <1>1 DEF LookedUp
  <2>1. PICK m \in 1..n : before[i] = order[m]
    BY <2>0
  <2>2. m \in 1..Len(order) /\ n + 1 \in 1..Len(order)
    OBVIOUS
  <2>3. order[m] = order[n + 1]
    BY <2>1 DEF id
  <2> QED
    BY <2>2, <2>3
<1> HIDE DEF after, before
<1>6. new \in [Numbers -> Seq(DOMAIN gathered)] /\ new[par] = after
      /\ \A k \in Numbers : k # par => new[k] = lookup[k]
  BY <1>1, <1>3 DEF LookedUp
<1> HIDE DEF new
<1>7. gathered[id].parent = par
  BY DEF par
<1>8. ASSUME NEW k \in Numbers, NEW i \in 1..Len(new[k])
      PROVE  gathered[new[k][i]].parent = k /\ \E m \in 1..n + 1 : new[k][i] = order[m]
  <2>1. CASE k # par
    BY <2>1, <1>6, <1>8 DEF LookedUp
  <2>2. CASE k = par /\ i = Len(before) + 1
    <3>1. new[k][i] = id /\ n + 1 \in 1..n + 1
      BY <2>2, <1>3, <1>6
    <3>2. gathered[new[k][i]].parent = k
      <4>1. gathered[new[k][i]].parent = gathered[id].parent
        BY <3>1
      <4> QED
        BY <4>1, <2>2, <1>7
    <3>3. new[k][i] = order[n + 1]
      BY <3>1 DEF id
    <3> QED
      BY <3>1, <3>2, <3>3
  <2>3. CASE k = par /\ i \in 1..Len(before)
    <3>1. new[k][i] = before[i]
      BY <2>3, <1>3, <1>6
    <3>2. gathered[before[i]].parent = par /\ \E m \in 1..n : before[i] = order[m]
      BY <2>3, <1>1 DEF LookedUp, before
    <3> QED
      BY <3>1, <3>2, <2>3
  <2> QED
    BY <2>1, <2>2, <2>3, <1>3, <1>4, <1>6
<1>9. ASSUME NEW k \in Numbers, NEW i \in 1..Len(new[k]), NEW j \in 1..Len(new[k]),
             new[k][i] = new[k][j]
      PROVE  i = j
  <2>1. CASE k # par
    BY <2>1, <1>6, <1>9 DEF LookedUp
  <2>2. CASE k = par
    <3>1. \A a, b \in 1..Len(before) : before[a] = before[b] => a = b
      BY <1>1 DEF LookedUp, before
    <3>2. i \in 1..Len(before) + 1 /\ j \in 1..Len(before) + 1
      BY <2>2, <1>3, <1>6
    <3>3. after[i] = after[j]
      BY <2>2, <1>6, <1>9
    <3> QED
      BY <3>1, <3>2, <3>3, <1>3, <1>4, <1>5
  <2> QED
    BY <2>1, <2>2
<1>10. ASSUME NEW m \in 1..n + 1
       PROVE  \E i \in 1..Len(new[gathered[order[m]].parent]) :
                new[gathered[order[m]].parent][i] = order[m]
  <2>1. CASE m = n + 1
    <3>1. order[m] = id /\ Len(before) + 1 \in 1..Len(new[par])
      BY <2>1, <1>3, <1>4, <1>6 DEF id
    <3> QED
      BY <3>1, <1>3, <1>6, <1>7
  <2>2. CASE m \in 1..n
    <3> DEFINE k == gathered[order[m]].parent
    <3>1. order[m] \in DOMAIN gathered
      BY <2>2
    <3>2. k \in Numbers
      BY <3>1, EntryType
    <3>3. PICK i \in 1..Len(lookup[k]) : lookup[k][i] = order[m]
      BY <2>2 DEF LookedUp
    <3> HIDE DEF k
    <3>4. CASE k # par
      BY <3>2, <3>3, <3>4, <1>6 DEF k
    <3>5. CASE k = par
      <4>1. i \in 1..Len(before) /\ before[i] = order[m]
        BY <3>3, <3>5 DEF before
      <4>2. i \in 1..Len(new[k]) /\ new[k][i] = order[m]
        BY <4>1, <3>5, <1>3, <1>4, <1>6
      <4> QED
        BY <4>2 DEF k
    <3> QED
      BY <3>4, <3>5
  <2> QED
    BY <2>1, <2>2
<1>11. LookedUp(new, order, n + 1)
  BY <1>6, <1>8, <1>9, <1>10 DEF LookedUp
<1> QED
  BY <1>11 DEF new, after, before, par, id
(* The order of the map is some order of all its keys.                     *)
IsOrder(order) ==
  /\ order \in Seq(DOMAIN gathered)
  /\ \A i, j \in 1..Len(order) : order[i] = order[j] => i = j
  /\ \A id \in DOMAIN gathered : \E i \in 1..Len(order) : order[i] = id

LEMMA GatheredFinite ==
  ASSUME Gathered
  PROVE  /\ IsFiniteSet(DOMAIN gathered)
         /\ Cardinality(DOMAIN gathered) \in Nat
         /\ Cardinality(DOMAIN gathered) <= Total
<1>1. Total \in Nat
  BY BackupAssumption
<1>2. IsFiniteSet(Numbers) /\ Cardinality(Numbers) = Total
  <2>1. 0 \in Int /\ Total - 1 \in Int
    BY <1>1
  <2>2. IsFiniteSet(0..Total - 1) /\ Cardinality(0..Total - 1) = IF 0 > Total - 1 THEN 0 ELSE Total - 1 - 0 + 1
    BY <2>1, FS_Interval
  <2> QED
    BY <2>2, <1>1 DEF Numbers
<1>3. DOMAIN gathered \in SUBSET Numbers
  BY DEF Gathered
<1>4. IsFiniteSet(DOMAIN gathered) /\ Cardinality(DOMAIN gathered) <= Cardinality(Numbers)
  BY <1>2, <1>3, FS_Subset
<1>5. Cardinality(DOMAIN gathered) \in Nat
  BY <1>4, FS_CardinalityType
<1> QED
  BY <1>2, <1>4, <1>5

LEMMA AnyOrder ==
  ASSUME Gathered, NEW order \in SetToSeqs(DOMAIN gathered)
  PROVE  IsOrder(order)
<1> DEFINE S == DOMAIN gathered
           D == 1..Cardinality(S)
<1>1. IsFiniteSet(S) /\ Cardinality(S) \in Nat
  BY GatheredFinite
<1>2. order \in [D -> S] /\ \A i, j \in D : i # j => order[i] # order[j]
  BY DEF SetToSeqs
<1>3. order \in Seq(S) /\ Len(order) = Cardinality(S)
  BY <1>1, <1>2
<1> HIDE DEF S
<1>4. order \in Injection(D, S)
  BY <1>2 DEF Injection, IsInjective
<1>5. Cardinality(D) = Cardinality(S)
  <2>1. 1 \in Int /\ Cardinality(S) \in Int
    BY <1>1
  <2>2. Cardinality(1..Cardinality(S)) = IF 1 > Cardinality(S) THEN 0 ELSE Cardinality(S) - 1 + 1
    BY <2>1, FS_Interval
  <2> QED
    BY <2>2, <1>1
<1>6. order \in Surjection(D, S)
  BY <1>1, <1>4, <1>5, FS_Injection
<1>7. \A id \in S : \E i \in D : order[i] = id
  BY <1>6 DEF Surjection
<1> QED
  BY <1>2, <1>3, <1>7 DEF IsOrder, S

(* What the scan relies on: each list has the entries of one parent, each  *)
(* of them once.                                                           *)
IsLookup(lookup) ==
  /\ lookup \in [Numbers -> Seq(DOMAIN gathered)]
  /\ \A n \in Numbers : \A i \in 1..Len(lookup[n]) : gathered[lookup[n][i]].parent = n
  /\ \A n \in Numbers : \A i, j \in 1..Len(lookup[n]) :
       lookup[n][i] = lookup[n][j] => i = j
  /\ \A id \in DOMAIN gathered : \E i \in 1..Len(lookup[gathered[id].parent]) :
       lookup[gathered[id].parent][i] = id

LEMMA PushedLooksUp ==
  ASSUME Gathered, NEW order, IsOrder(order), NEW pushed, Pushed(pushed, order, Len(order))
  PROVE  LookedUp(pushed[Len(order)], order, Len(order))
<1> DEFINE T == {k \in 0..Len(order) : LookedUp(pushed[k], order, k)}
           None == [n \in Numbers |-> <<>>]
<1>1. order \in Seq(DOMAIN gathered) /\ Len(order) \in Nat
  BY DEF IsOrder
<1>2. 0 \in T
  <2>1. pushed[0] = None
    BY <1>1 DEF Pushed
  <2>2. None \in [Numbers -> Seq(DOMAIN gathered)] /\ \A n \in Numbers : Len(None[n]) = 0
    OBVIOUS
  <2> HIDE DEF None
  <2>3. LookedUp(None, order, 0)
    BY <2>2 DEF LookedUp
  <2> QED
    BY <1>1, <2>1, <2>3
<1>3. ASSUME NEW n \in Nat, n < Len(order), n \in T PROVE n + 1 \in T
  <2> DEFINE lookup == pushed[n]
  <2>1. LookedUp(lookup, order, n)
    BY <1>3
  <2>2. pushed[n + 1] = [lookup EXCEPT ![gathered[order[n + 1]].parent] = Append(@, order[n + 1])]
    <3> DEFINE Step(i) == IF i = 0 THEN None
                          ELSE [pushed[i - 1] EXCEPT
                                  ![gathered[order[i]].parent] = Append(@, order[i])]
    <3>1. n + 1 \in 0..Len(order) /\ n + 1 # 0 /\ n + 1 - 1 = n
      BY <1>1, <1>3
    <3>2. Step(n + 1) = [pushed[n] EXCEPT ![gathered[order[n + 1]].parent] = Append(@, order[n + 1])]
      BY <3>1
    <3>3. pushed = [i \in 0..Len(order) |-> Step(i)]
      BY DEF Pushed
    <3> HIDE DEF Step
    <3>4. pushed[n + 1] = Step(n + 1)
      BY <3>1, <3>3
    <3> QED
      BY <3>2, <3>4
  <2>3. \A i, j \in 1..Len(order) : order[i] = order[j] => i = j
    BY DEF IsOrder
  <2> HIDE DEF lookup
  <2>4. LookedUp([lookup EXCEPT ![gathered[order[n + 1]].parent] = Append(@, order[n + 1])], order, n + 1)
    BY <1>1, <1>3, <2>1, <2>3, LookedUpNext
  <2>5. LookedUp(pushed[n + 1], order, n + 1)
    BY <2>2, <2>4
  <2> QED
    BY <1>1, <1>3, <2>5
<1>4. \A n \in 0..Len(order) : n \in T
  <2>1. T \in SUBSET Nat
    OBVIOUS
  <2> HIDE DEF T
  <2> QED
    BY <1>1, <1>2, <1>3, <2>1, Induction
<1>5. Len(order) \in T
  BY <1>1, <1>4
<1> QED
  BY <1>5

LEMMA ChildrenLookUp ==
  ASSUME Gathered, NEW order \in SetToSeqs(DOMAIN gathered)
  PROVE  IsLookup(ChildrenIn(order))
<1>1. IsOrder(order)
  BY AnyOrder
<1>2. order \in Seq(DOMAIN gathered) /\ Len(order) \in Nat
  BY <1>1 DEF IsOrder
<1>3. \E pushed : Pushed(pushed, order, Len(order))
  BY <1>2, PushedExists
<1> DEFINE all == CHOOSE pushed : Pushed(pushed, order, Len(order))
<1>4. Pushed(all, order, Len(order))
  BY <1>3
<1>5. ChildrenIn(order) = all[Len(order)]
  BY DEF ChildrenIn, Pushed
<1> HIDE DEF all
<1>6. LookedUp(all[Len(order)], order, Len(order))
  BY <1>1, <1>4, PushedLooksUp
<1> DEFINE lookup == all[Len(order)]
<1> HIDE DEF lookup
<1>7. LookedUp(lookup, order, Len(order))
  BY <1>6 DEF lookup
<1>8. ASSUME NEW id \in DOMAIN gathered
      PROVE  \E i \in 1..Len(lookup[gathered[id].parent]) : lookup[gathered[id].parent][i] = id
  <2>1. PICK m \in 1..Len(order) : order[m] = id
    BY <1>1 DEF IsOrder
  <2> QED
    BY <2>1, <1>7 DEF LookedUp
<1>9. IsLookup(lookup)
  BY <1>7, <1>8 DEF LookedUp, IsLookup
<1> QED
  BY <1>5, <1>9 DEF lookup
-------------------------------------------------------------------------------
(* The duplicates: of the entries with one name in one folder one remains. *)
Segments == Names \cup {"root", "unknown"}

Gone == UNION {Removed(children[n]) : n \in Numbers}

AreNamesakes(a, b) ==
  /\ gathered[a].name = gathered[b].name
  /\ gathered[a].parent = gathered[b].parent

LEMMA GoneMeans ==
  ASSUME NEW id
  PROVE  id \in Gone <=> \E n \in Numbers : \E i \in DOMAIN children[n] :
                            /\ children[n][i] = id
                            /\ \E j \in i + 1..Len(children[n]) :
                                 gathered[id].name = gathered[children[n][j]].name
BY DEF Gone, Removed

LEMMA OneOfNamesakesGone ==
  ASSUME Gathered, IsLookup(children), NEW a \in DOMAIN gathered, NEW b \in DOMAIN gathered,
         a # b, AreNamesakes(a, b)
  PROVE  a \in Gone \/ b \in Gone
<1> DEFINE n == gathered[a].parent
           s == children[n]
<1>1. n \in Numbers /\ n = gathered[b].parent
  BY EntryType DEF AreNamesakes
<1>2. s \in Seq(DOMAIN gathered)
  BY <1>1 DEF IsLookup
<1>3. PICK i \in 1..Len(s) : s[i] = a
  BY DEF IsLookup
<1>4. PICK j \in 1..Len(s) : s[j] = b
  <2>1. \E k \in 1..Len(children[gathered[b].parent]) : children[gathered[b].parent][k] = b
    BY DEF IsLookup
  <2> QED
    BY <1>1, <2>1
<1> HIDE DEF n
<1>5. Len(s) \in Nat /\ DOMAIN s = 1..Len(s)
  BY <1>2
<1>6. CASE i < j
  <2>1. j \in i + 1..Len(s) /\ i \in DOMAIN s
    BY <1>5, <1>6
  <2>2. gathered[a].name = gathered[s[j]].name
    BY <1>4 DEF AreNamesakes
  <2> QED
    BY <1>1, <1>3, <2>1, <2>2, GoneMeans
<1>7. CASE j < i
  <2>1. i \in j + 1..Len(s) /\ j \in DOMAIN s
    BY <1>5, <1>7
  <2>2. gathered[b].name = gathered[s[i]].name
    BY <1>3 DEF AreNamesakes
  <2> QED
    BY <1>1, <1>4, <2>1, <2>2, GoneMeans
<1>8. i # j
  BY <1>3, <1>4
<1> QED
  BY <1>5, <1>6, <1>7, <1>8

LEMMA GoneHasNamesake ==
  ASSUME Gathered, IsLookup(children), NEW id \in Gone
  PROVE  id \in DOMAIN gathered /\ HasNamesake(id)
<1>0. PICK n \in Numbers : \E i \in DOMAIN children[n] :
               /\ children[n][i] = id
               /\ \E j \in i + 1..Len(children[n]) :
                    gathered[id].name = gathered[children[n][j]].name
  BY GoneMeans
<1>1. PICK i \in DOMAIN children[n] :
               /\ children[n][i] = id
               /\ \E j \in i + 1..Len(children[n]) :
                    gathered[id].name = gathered[children[n][j]].name
  BY <1>0
<1>2. children[n] \in Seq(DOMAIN gathered)
  BY DEF IsLookup
<1>3. PICK j \in i + 1..Len(children[n]) : gathered[id].name = gathered[children[n][j]].name
  BY <1>1
<1>4. i \in 1..Len(children[n]) /\ j \in 1..Len(children[n]) /\ i # j
  BY <1>2, <1>3
<1> DEFINE other == children[n][j]
<1>5. id \in DOMAIN gathered /\ other \in DOMAIN gathered
  BY <1>1, <1>2, <1>4
<1>6. gathered[id].parent = n /\ gathered[other].parent = n
  BY <1>1, <1>4 DEF IsLookup
<1>7. id # other
  BY <1>1, <1>4 DEF IsLookup
<1> HIDE DEF other
<1>8. gathered[other].name = gathered[id].name
  BY <1>3 DEF other
<1> QED
  BY <1>5, <1>6, <1>7, <1>8 DEF HasNamesake

(* The last one in the list.                                               *)
LEMMA OneRemains ==
  ASSUME Gathered, IsLookup(children), NEW id \in DOMAIN gathered
  PROVE  \E other \in DOMAIN gathered \ Gone : AreNamesakes(id, other)
<1> DEFINE n == gathered[id].parent
           s == children[n]
           Same == {j \in 1..Len(s) : gathered[s[j]].name = gathered[id].name}
           T == {Len(s) - j : j \in Same}
<1>1. n \in Numbers
  BY EntryType
<1>2. s \in Seq(DOMAIN gathered)
  BY <1>1 DEF IsLookup
<1>3. PICK i \in 1..Len(s) : s[i] = id
  BY DEF IsLookup
<1> HIDE DEF n
<1>4. Len(s) \in Nat /\ DOMAIN s = 1..Len(s)
  BY <1>2
<1>5. T \in SUBSET Nat /\ Len(s) - i \in T
  BY <1>3, <1>4
<1> HIDE DEF T
<1>6. PICK m \in T : \A k \in T : m <= k
  BY <1>5, LeastNumber
<1>7. PICK last \in Same : m = Len(s) - last
  BY <1>6 DEF T
<1> DEFINE other == s[last]
<1>8. other \in DOMAIN gathered /\ gathered[other].name = gathered[id].name
  BY <1>2, <1>7
<1>9. gathered[other].parent = n
  BY <1>1, <1>7 DEF IsLookup
<1>10. ASSUME other \in Gone PROVE FALSE
  <2>0. PICK k \in Numbers : \E a \in DOMAIN children[k] :
               /\ children[k][a] = other
               /\ \E j \in a + 1..Len(children[k]) :
                    gathered[other].name = gathered[children[k][j]].name
    BY <1>10, GoneMeans
  <2>1. PICK a \in DOMAIN children[k] :
               /\ children[k][a] = other
               /\ \E j \in a + 1..Len(children[k]) :
                    gathered[other].name = gathered[children[k][j]].name
    BY <2>0
  <2>2. k = n
    <3>1. children[k] \in Seq(DOMAIN gathered)
      BY DEF IsLookup
    <3>2. a \in 1..Len(children[k])
      BY <3>1
    <3>3. gathered[children[k][a]].parent = k
      BY <3>2 DEF IsLookup
    <3> QED
      BY <2>1, <3>3, <1>9
  <2> HIDE DEF other
  <2>3. PICK j \in a + 1..Len(s) : gathered[other].name = gathered[s[j]].name
    BY <2>1, <2>2
  <2>4. a \in 1..Len(s) /\ s[a] = other
    BY <2>1, <2>2, <1>4
  <2>5. a = last
    <3>1. \A x, y \in 1..Len(s) : s[x] = s[y] => x = y
      BY <1>1 DEF IsLookup
    <3> QED
      BY <2>4, <3>1, <1>7 DEF other
  <2>6. j \in Same
    <3>1. j \in 1..Len(s)
      BY <2>3, <2>4, <1>4
    <3>2. gathered[s[j]].name = gathered[id].name
      BY <2>3, <1>8
    <3> QED
      BY <3>1, <3>2
  <2>7. Len(s) - j \in T
    BY <2>6 DEF T
  <2> HIDE DEF s, Same
  <2>8. last \in Nat /\ j \in Nat /\ last < j
    BY <2>3, <2>4, <2>5, <1>4
  <2> QED
    BY <2>7, <2>8, <1>4, <1>6, <1>7
<1> QED
  BY <1>8, <1>9, <1>10 DEF AreNamesakes, n

-------------------------------------------------------------------------------
(* The paths of chains of records.                                         *)
LEMMA PathOfType ==
  ASSUME Gathered, NEW c \in Seq(DOMAIN gathered)
  PROVE  /\ PathOf(c) \in Seq(Segments)
         /\ Len(PathOf(c)) = Len(c)
         /\ \A i \in 1..Len(c) : PathOf(c)[i] = gathered[c[i]].name
<1>1. Len(c) \in Nat /\ DOMAIN c = 1..Len(c)
  OBVIOUS
<1>2. ASSUME NEW i \in 1..Len(c) PROVE gathered[c[i]].name \in Segments
  <2>1. c[i] \in DOMAIN gathered
    OBVIOUS
  <2> QED
    BY <2>1, EntryType DEF Segments
<1> DEFINE NameAt(i) == gathered[c[i]].name
<1>3. PathOf(c) = [i \in 1..Len(c) |-> NameAt(i)]
  BY <1>1 DEF PathOf
<1>4. \A i \in 1..Len(c) : NameAt(i) \in Segments
  BY <1>2
<1> HIDE DEF NameAt
<1>5. /\ PathOf(c) \in Seq(Segments)
      /\ Len(PathOf(c)) = Len(c)
      /\ \A i \in 1..Len(c) : PathOf(c)[i] = NameAt(i)
  BY <1>1, <1>3, <1>4
<1> QED
  BY <1>5 DEF NameAt

LEMMA PathOfAppend ==
  ASSUME Gathered, NEW c \in Seq(DOMAIN gathered), NEW id \in DOMAIN gathered
  PROVE  PathOf(Append(c, id)) = Append(PathOf(c), gathered[id].name)
<1> DEFINE more == Append(c, id)
           name == gathered[id].name
           path == Append(PathOf(c), name)
<1>1. name \in Segments
  BY EntryType DEF Segments
<1>2. /\ more \in Seq(DOMAIN gathered) /\ Len(more) = Len(c) + 1 /\ more[Len(c) + 1] = id
      /\ \A i \in 1..Len(c) : more[i] = c[i]
  BY Appended
<1>3. /\ PathOf(c) \in Seq(Segments) /\ Len(PathOf(c)) = Len(c)
      /\ \A i \in 1..Len(c) : PathOf(c)[i] = gathered[c[i]].name
  BY PathOfType
<1> HIDE DEF name, more
<1>4. /\ path \in Seq(Segments) /\ Len(path) = Len(c) + 1 /\ path[Len(c) + 1] = name
      /\ \A i \in 1..Len(c) : path[i] = PathOf(c)[i]
  BY <1>1, <1>3
<1>5. /\ PathOf(more) \in Seq(Segments) /\ Len(PathOf(more)) = Len(more)
      /\ \A i \in 1..Len(more) : PathOf(more)[i] = gathered[more[i]].name
  BY <1>2, PathOfType
<1> HIDE DEF path
<1>6. ASSUME NEW i \in 1..Len(c) + 1 PROVE PathOf(more)[i] = path[i]
  <2>0. Len(c) \in Nat
    OBVIOUS
  <2>1. CASE i = Len(c) + 1
    BY <2>1, <1>2, <1>4, <1>5 DEF name
  <2>2. CASE i \in 1..Len(c)
    BY <2>2, <1>2, <1>3, <1>4, <1>5
  <2> QED
    BY <2>0, <2>1, <2>2
<1>7. PathOf(more) = path
  BY <1>2, <1>4, <1>5, <1>6
<1> QED
  BY <1>7 DEF more, path, name

LEMMA ChainMeans ==
  ASSUME NEW c
  PROVE  c \in Chains <=>
           /\ c \in Seq(DOMAIN gathered \ {Root})
           /\ Len(c) \in 1..Total - 1
           /\ gathered[c[1]].parent = Root
           /\ \A i \in 2..Len(c) : gathered[c[i]].parent = c[i - 1]
<1> DEFINE D == DOMAIN gathered \ {Root}
<1> HIDE DEF D
<1>1. c \in UNION {[1..n -> D] : n \in 1..Total - 1} <=> c \in Seq(D) /\ Len(c) \in 1..Total - 1
  <2>1. ASSUME NEW n \in 1..Total - 1, c \in [1..n -> D]
        PROVE  c \in Seq(D) /\ Len(c) = n
    BY <2>1
  <2>2. ASSUME c \in Seq(D), Len(c) \in 1..Total - 1
        PROVE  c \in [1..Len(c) -> D]
    BY <2>2
  <2> QED
    BY <2>1, <2>2
<1> QED
  BY <1>1 DEF Chains, D

LEMMA ChainGrows ==
  ASSUME Gathered, NEW id \in DOMAIN gathered \ {Root}, NEW c,
         \/ c = <<>> /\ gathered[id].parent = Root
         \/ c \in Chains /\ gathered[id].parent = Last(c),
         Len(c) + 1 <= Total - 1
  PROVE  Append(c, id) \in Chains
<1> DEFINE D == DOMAIN gathered \ {Root}
           more == Append(c, id)
<1>1. c \in Seq(D)
  <2>1. CASE c = <<>>
    BY <2>1
  <2>2. CASE c \in Chains
    BY <2>2, ChainMeans
  <2> QED
    BY <2>1, <2>2
<1>2. Len(c) \in Nat /\ Total \in Nat
  BY <1>1, BackupAssumption
<1>3. /\ more \in Seq(D) /\ Len(more) = Len(c) + 1 /\ more[Len(c) + 1] = id
      /\ \A i \in 1..Len(c) : more[i] = c[i]
  BY <1>1, Appended
<1>4. CASE c = <<>> /\ gathered[id].parent = Root
  <2>1. Len(c) = 0
    BY <1>4
  <2> HIDE DEF more
  <2>2. gathered[more[1]].parent = Root /\ Len(more) \in 1..Total - 1 /\ 2..Len(more) = {}
    BY <2>1, <1>2, <1>3, <1>4
  <2>3. more \in Chains
    BY <1>3, <2>2, ChainMeans
  <2> QED
    BY <2>3 DEF more
<1>5. CASE c \in Chains /\ gathered[id].parent = Last(c)
  <2>1. /\ Len(c) \in 1..Total - 1 /\ gathered[c[1]].parent = Root
        /\ \A i \in 2..Len(c) : gathered[c[i]].parent = c[i - 1]
    BY <1>5, ChainMeans
  <2> HIDE DEF more
  <2>2. gathered[more[1]].parent = Root /\ Len(more) \in 1..Total - 1
    BY <2>1, <1>2, <1>3
  <2>3. ASSUME NEW i \in 2..Len(more) PROVE gathered[more[i]].parent = more[i - 1]
    <3>1. CASE i = Len(c) + 1
      <4>1. more[i] = id /\ more[i - 1] = c[Len(c)]
        BY <3>1, <2>1, <1>2, <1>3
      <4> QED
        BY <4>1, <1>5 DEF Last
    <3>2. CASE i \in 2..Len(c)
      <4>1. more[i] = c[i] /\ more[i - 1] = c[i - 1]
        BY <3>2, <1>2, <1>3
      <4> QED
        BY <4>1, <3>2, <2>1
    <3> QED
      BY <3>1, <3>2, <1>2, <1>3
  <2>4. more \in Chains
    BY <1>3, <2>2, <2>3, ChainMeans
  <2> QED
    BY <2>4 DEF more
<1> QED
  BY <1>4, <1>5
-------------------------------------------------------------------------------
(* What has been listed: the ids, the chain of ids that each was reached   *)
(* by, and the paths.  No two chains have the same names.                  *)
Reached(ids, chain, paths) ==
  /\ ids \subseteq DOMAIN gathered \ Gone
  /\ Root \in ids
  /\ chain \in [ids -> Seq(DOMAIN gathered)]
  /\ chain[Root] = <<>>
  /\ \A id \in ids \ {Root} :
       /\ gathered[id].parent \in ids
       /\ chain[id] = Append(chain[gathered[id].parent], id)
       /\ chain[id] \in Chains
  /\ \A id \in ids : Len(chain[id]) < Cardinality(ids)
  /\ \A a, b \in ids : PathOf(chain[a]) = PathOf(chain[b]) => a = b
  /\ paths = {PathOf(chain[id]) : id \in ids \ {Root}}

Lengthened(ids, chain, new) ==
  [id \in ids \cup {new} |-> IF id = new THEN Append(chain[gathered[new].parent], new)
                                         ELSE chain[id]]

(* A path that has been listed is one of the folder that it is in.         *)
LEMMA ListedInFolder ==
  ASSUME Gathered, NEW ids, NEW chain, NEW paths, Reached(ids, chain, paths),
         NEW b \in ids, NEW par \in ids, NEW name \in Segments,
         PathOf(chain[b]) = Append(PathOf(chain[par]), name)
  PROVE  b # Root /\ gathered[b].parent = par /\ gathered[b].name = name
<1>1. chain[b] \in Seq(DOMAIN gathered) /\ chain[par] \in Seq(DOMAIN gathered)
  BY DEF Reached
<1>2. PathOf(chain[par]) \in Seq(Segments) /\ Len(PathOf(chain[b])) = Len(chain[b])
  BY <1>1, PathOfType
<1>3. /\ Len(Append(PathOf(chain[par]), name)) = Len(PathOf(chain[par])) + 1
      /\ Front(Append(PathOf(chain[par]), name)) = PathOf(chain[par])
      /\ Last(Append(PathOf(chain[par]), name)) = name
  BY <1>2, Appended
<1>4. Len(PathOf(chain[par])) \in Nat
  BY <1>2
<1>5. b # Root
  <2> SUFFICES ASSUME b = Root PROVE FALSE
    OBVIOUS
  <2>1. chain[b] = <<>>
    BY DEF Reached
  <2>2. Len(chain[b]) = 0
    BY <2>1
  <2> QED
    BY <2>2, <1>2, <1>3, <1>4
<1> DEFINE up == gathered[b].parent
<1>6. up \in ids /\ chain[b] = Append(chain[up], b) /\ b \in DOMAIN gathered
  BY <1>5 DEF Reached
<1> HIDE DEF up
<1>7. chain[up] \in Seq(DOMAIN gathered)
  BY <1>6 DEF Reached
<1>8. PathOf(chain[b]) = Append(PathOf(chain[up]), gathered[b].name)
  BY <1>6, <1>7, PathOfAppend
<1>9. PathOf(chain[up]) \in Seq(Segments) /\ gathered[b].name \in Segments
  BY <1>6, <1>7, PathOfType, EntryType DEF Segments
<1>10. /\ Front(PathOf(chain[b])) = PathOf(chain[up])
       /\ Last(PathOf(chain[b])) = gathered[b].name
  <2>1. /\ Front(Append(PathOf(chain[up]), gathered[b].name)) = PathOf(chain[up])
        /\ Last(Append(PathOf(chain[up]), gathered[b].name)) = gathered[b].name
    BY <1>9, Appended
  <2> QED
    BY <2>1, <1>8
<1>11. PathOf(chain[up]) = PathOf(chain[par]) /\ gathered[b].name = name
  BY <1>3, <1>10
<1>12. up = par
  BY <1>6, <1>11 DEF Reached
<1> QED
  BY <1>5, <1>11, <1>12 DEF up

LEMMA NewPath ==
  ASSUME Gathered, IsLookup(children), NEW ids, NEW chain, NEW paths, Reached(ids, chain, paths),
         NEW new \in DOMAIN gathered \ (ids \cup Gone), gathered[new].parent \in ids
  PROVE  \A b \in ids : PathOf(chain[b]) # Append(PathOf(chain[gathered[new].parent]), gathered[new].name)
<1> DEFINE par == gathered[new].parent
           name == gathered[new].name
<1>1. par \in ids /\ name \in Segments
  BY EntryType DEF Segments
<1> SUFFICES ASSUME NEW b \in ids, PathOf(chain[b]) = Append(PathOf(chain[par]), name)
             PROVE  FALSE
  OBVIOUS
<1>2. AreNamesakes(b, new)
  <2> HIDE DEF par, name
  <2>1. gathered[b].parent = par /\ gathered[b].name = name
    BY <1>1, ListedInFolder
  <2> QED
    BY <2>1 DEF AreNamesakes, par, name
<1>3. b # new /\ b \in DOMAIN gathered /\ new \in DOMAIN gathered /\ b \notin Gone /\ new \notin Gone
  BY DEF Reached
<1> QED
  BY <1>2, <1>3, OneOfNamesakesGone

LEMMA ReachedNext ==
  ASSUME Gathered, IsLookup(children), NEW ids, NEW chain, NEW paths, Reached(ids, chain, paths),
         NEW new \in DOMAIN gathered \ (ids \cup Gone), gathered[new].parent \in ids
  PROVE  Reached(ids \cup {new}, Lengthened(ids, chain, new),
                 paths \cup {Append(PathOf(chain[gathered[new].parent]), gathered[new].name)})
<1> DEFINE par == gathered[new].parent
           name == gathered[new].name
           path == Append(PathOf(chain[par]), name)
           more == Append(chain[par], new)
           longer == Lengthened(ids, chain, new)
           wider == ids \cup {new}
<1>1. par \in ids /\ new \in DOMAIN gathered /\ new \notin ids /\ new # Root /\ par # new
  BY DEF Reached
<1>2. chain[par] \in Seq(DOMAIN gathered)
  BY <1>1 DEF Reached
<1>3. more \in Seq(DOMAIN gathered) /\ Len(more) = Len(chain[par]) + 1
  BY <1>1, <1>2, Appended
<1>4. PathOf(more) = path
  BY <1>1, <1>2, PathOfAppend
<1>5. longer = [id \in wider |-> IF id = new THEN more ELSE chain[id]]
  BY DEF Lengthened
<1>6. /\ longer[new] = more /\ \A id \in ids : longer[id] = chain[id]
      /\ DOMAIN longer = wider
  <2> HIDE DEF more
  <2> QED
    BY <1>1, <1>5
<1>7. longer \in [wider -> Seq(DOMAIN gathered)]
  <2>1. \A id \in ids : chain[id] \in Seq(DOMAIN gathered)
    BY DEF Reached
  <2> HIDE DEF more, longer
  <2> QED
    BY <1>3, <1>5, <2>1
<1>8. /\ IsFiniteSet(ids) /\ Cardinality(ids) \in Nat
      /\ Cardinality(wider) = Cardinality(ids) + 1
      /\ Cardinality(wider) <= Total
  <2>1. IsFiniteSet(DOMAIN gathered) /\ Cardinality(DOMAIN gathered) <= Total
    BY GatheredFinite
  <2>2. ids \in SUBSET DOMAIN gathered /\ wider \in SUBSET DOMAIN gathered
    BY DEF Reached
  <2>3. IsFiniteSet(ids) /\ IsFiniteSet(wider) /\ Cardinality(wider) <= Cardinality(DOMAIN gathered)
    BY <2>1, <2>2, FS_Subset
  <2>4. Cardinality(wider) = IF new \in ids THEN Cardinality(ids) ELSE Cardinality(ids) + 1
    BY <2>3, FS_AddElement
  <2>5. Cardinality(ids) \in Nat /\ Cardinality(DOMAIN gathered) \in Nat /\ Cardinality(wider) \in Nat
    BY <2>1, <2>3, FS_CardinalityType
  <2> HIDE DEF wider
  <2> QED
    BY <1>1, <2>1, <2>3, <2>4, <2>5, BackupAssumption
<1>9. /\ Len(chain[par]) \in Nat /\ Len(chain[par]) < Cardinality(ids)
      /\ Len(more) < Cardinality(wider)
      /\ Len(chain[par]) + 1 <= Total - 1
  <2>1. Len(chain[par]) < Cardinality(ids)
    BY <1>1 DEF Reached
  <2>2. Len(chain[par]) \in Nat
    BY <1>2
  <2> HIDE DEF more, wider
  <2> QED
    BY <2>1, <2>2, <1>3, <1>8, BackupAssumption
<1>10. more \in Chains
  <2>1. CASE par = Root
    <3>1. chain[par] = <<>>
      BY <2>1 DEF Reached
    <3>2. new \in DOMAIN gathered \ {Root}
      BY <1>1
    <3> QED
      BY <3>1, <3>2, <2>1, <1>9, ChainGrows
  <2>2. CASE par # Root
    <3> DEFINE up == gathered[par].parent
    <3>1. up \in ids /\ chain[par] = Append(chain[up], par) /\ chain[par] \in Chains
      BY <2>2, <1>1 DEF Reached
    <3>2. chain[up] \in Seq(DOMAIN gathered) /\ par \in DOMAIN gathered
      BY <3>1, <1>1 DEF Reached
    <3> HIDE DEF up
    <3>3. Last(chain[par]) = par
      BY <3>1, <3>2, Appended
    <3>4. new \in DOMAIN gathered \ {Root}
      BY <1>1
    <3> QED
      BY <3>1, <3>3, <3>4, <1>9, ChainGrows
  <2> QED
    BY <2>1, <2>2
<1>11. \A b \in ids : PathOf(chain[b]) # path
  BY NewPath
<1> HIDE DEF name, path, more, longer
<1>12. wider \subseteq DOMAIN gathered \ Gone /\ Root \in wider
  BY DEF Reached
<1>13. longer[Root] = <<>>
  BY <1>6 DEF Reached
<1>14. ASSUME NEW id \in wider \ {Root}
       PROVE  /\ gathered[id].parent \in wider
              /\ longer[id] = Append(longer[gathered[id].parent], id)
              /\ longer[id] \in Chains
  <2>1. CASE id = new
    <3>1. longer[id] = more /\ longer[par] = chain[par] /\ par \in wider
      BY <2>1, <1>1, <1>6
    <3> QED
      BY <3>1, <2>1, <1>10 DEF more
  <2>2. CASE id \in ids
    <3> DEFINE up == gathered[id].parent
    <3>1. up \in ids /\ chain[id] = Append(chain[up], id) /\ chain[id] \in Chains
      BY <2>2 DEF Reached
    <3> HIDE DEF up
    <3>2. longer[id] = chain[id] /\ longer[up] = chain[up] /\ up \in wider
      BY <2>2, <3>1, <1>6
    <3>3. /\ up \in wider
          /\ longer[id] = Append(longer[up], id)
          /\ longer[id] \in Chains
      BY <3>1, <3>2
    <3> QED
      BY <3>3 DEF up
  <2> QED
    BY <2>1, <2>2
<1>15. ASSUME NEW id \in wider PROVE Len(longer[id]) < Cardinality(wider)
  <2>1. CASE id = new
    BY <2>1, <1>6, <1>9
  <2>2. CASE id \in ids
    <3>1. Len(chain[id]) < Cardinality(ids) /\ chain[id] \in Seq(DOMAIN gathered)
      BY <2>2 DEF Reached
    <3>2. longer[id] = chain[id]
      BY <2>2, <1>6
    <3>3. Len(chain[id]) \in Nat
      BY <3>1
    <3> HIDE DEF wider
    <3> QED
      BY <3>1, <3>2, <3>3, <1>8
  <2> QED
    BY <2>1, <2>2
<1>16. ASSUME NEW a \in wider, NEW b \in wider, PathOf(longer[a]) = PathOf(longer[b])
       PROVE  a = b
  <2>1. CASE a \in ids /\ b \in ids
    <3>1. PathOf(chain[a]) = PathOf(chain[b])
      BY <2>1, <1>6, <1>16
    <3> QED
      BY <3>1, <2>1 DEF Reached
  <2>2. CASE a = new /\ b \in ids
    BY <2>2, <1>4, <1>6, <1>11, <1>16
  <2>3. CASE a \in ids /\ b = new
    BY <2>3, <1>4, <1>6, <1>11, <1>16
  <2> QED
    BY <2>1, <2>2, <2>3
<1>17. paths \cup {path} = {PathOf(longer[id]) : id \in wider \ {Root}}
  <2>1. paths = {PathOf(chain[id]) : id \in ids \ {Root}}
    BY DEF Reached
  <2>2. \A id \in ids \ {Root} : PathOf(chain[id]) = PathOf(longer[id])
    BY <1>6
  <2>3. PathOf(longer[new]) = path /\ new # Root
    BY <1>1, <1>4, <1>6
  <2> QED
    BY <2>1, <2>2, <2>3
<1>18. Reached(wider, longer, paths \cup {path})
  <2> HIDE DEF wider
  <2> QED
    BY <1>7, <1>12, <1>13, <1>14, <1>15, <1>16, <1>17 DEF Reached
<1> QED
  BY <1>18 DEF longer, path, name
(* When nothing in a folder that was listed is left, all is listed but     *)
(* what is in a folder that has lost its name to another.                  *)
LEMMA AllReached ==
  ASSUME Gathered, IsLookup(children), NEW ids, NEW chain, NEW paths, Reached(ids, chain, paths),
         \A id \in DOMAIN gathered : gathered[id].parent \in ids => id \in ids \cup Gone
  PROVE  /\ paths \subseteq {PathOf(c) : c \in Chains}
         /\ \A c \in Chains :
              PathOf(c) \in paths \/ \E i \in 1..Len(c) - 1 : HasNamesake(c[i])
<1>1. paths \subseteq {PathOf(c) : c \in Chains}
  BY DEF Reached
<1>2. ASSUME NEW c \in Chains, \A i \in 1..Len(c) - 1 : ~HasNamesake(c[i])
      PROVE  PathOf(c) \in paths
  <2> DEFINE n == Len(c)
             At(k) == IF k = 0 THEN Root ELSE c[k]
             T == {k \in 0..n - 1 : At(k) \in ids /\ chain[At(k)] = SubSeq(c, 1, k)}
  <2>1. /\ c \in Seq(DOMAIN gathered \ {Root}) /\ n \in 1..Total - 1
        /\ gathered[c[1]].parent = Root
        /\ \A i \in 2..n : gathered[c[i]].parent = c[i - 1]
    BY ChainMeans
  <2>2. n \in Nat \ {0} /\ c \in Seq(DOMAIN gathered)
    BY <2>1
  <2>3. ASSUME NEW k \in 1..n
        PROVE  c[k] \in DOMAIN gathered \ {Root} /\ gathered[c[k]].parent = At(k - 1)
    <3>1. c[k] \in DOMAIN gathered \ {Root}
      BY <2>1
    <3>2. CASE k = 1
      BY <3>1, <3>2, <2>1
    <3>3. CASE k # 1
      <4>1. k \in 2..n /\ k - 1 # 0
        BY <3>3, <2>2
      <4> QED
        BY <3>1, <4>1, <2>1
    <3> QED
      BY <3>2, <3>3
  <2>4. 0 \in T
    <3>1. Root \in ids /\ chain[Root] = <<>>
      BY DEF Reached
    <3>2. SubSeq(c, 1, 0) = <<>>
      BY <2>2
    <3>3. At(0) = Root
      OBVIOUS
    <3>4. 0 \in 0..n - 1
      BY <2>2
    <3>5. At(0) \in ids /\ chain[At(0)] = SubSeq(c, 1, 0)
      BY <3>1, <3>2, <3>3
    <3> HIDE DEF At, n
    <3> QED
      BY <3>4, <3>5
  <2>5. ASSUME NEW k \in Nat, k < n - 1, k \in T PROVE k + 1 \in T
    <3> DEFINE next == c[k + 1]
               par == At(k)
               part == SubSeq(c, 1, k)
    <3>1. k + 1 \in 1..n /\ k + 1 \in 1..n - 1 /\ k + 1 # 0 /\ k + 1 - 1 = k /\ k + 1 \in 0..n - 1
      BY <2>2, <2>5
    <3>2. next \in DOMAIN gathered \ {Root} /\ gathered[next].parent = par
      BY <2>3, <3>1
    <3>3. par \in ids /\ chain[par] = part
      BY <2>5
    <3>4. ~HasNamesake(next)
      BY <1>2, <3>1
    <3> HIDE DEF next, par, part
    <3>5. next \in ids
      BY <3>2, <3>3, <3>4, GoneHasNamesake
    <3>6. chain[next] = Append(part, next)
      BY <3>2, <3>3, <3>5 DEF Reached
    <3>7. Append(SubSeq(c, 1, k), c[k + 1]) = SubSeq(c, 1, k + 1)
      BY <2>2, <3>1
    <3>8. At(k + 1) = next
      BY <3>1 DEF next
    <3>9. chain[At(k + 1)] = SubSeq(c, 1, k + 1)
      BY <3>6, <3>7, <3>8 DEF part, next
    <3> QED
      BY <3>1, <3>5, <3>8, <3>9
  <2>6. \A k \in 0..n - 1 : k \in T
    <3>1. T \in SUBSET Nat /\ n - 1 \in Nat
      BY <2>2
    <3> HIDE DEF T, n
    <3> QED
      BY <2>4, <2>5, <3>1, Induction
  <2> DEFINE last == c[n]
             par == At(n - 1)
  <2>7. par \in ids /\ chain[par] = SubSeq(c, 1, n - 1)
    <3>1. n - 1 \in 0..n - 1
      BY <2>2
    <3>2. n - 1 \in T
      BY <2>6, <3>1
    <3> QED
      BY <3>2
  <2>8. last \in DOMAIN gathered \ {Root} /\ gathered[last].parent = par
    <3>1. n \in 1..n
      BY <2>2
    <3> HIDE DEF At, n
    <3> QED
      BY <3>1, <2>3
  <2>9. c = Append(chain[par], last)
    <3>1. c # <<>>
      BY <2>2
    <3> HIDE DEF par
    <3> QED
      BY <3>1, <2>2, <2>7, FrontLast DEF Front, Last
  <2> HIDE DEF last, par, At
  <2>10. PICK other \in DOMAIN gathered \ Gone : AreNamesakes(last, other)
    BY <2>8, OneRemains
  <2>11. gathered[other].parent = par /\ gathered[other].name = gathered[last].name
    BY <2>8, <2>10 DEF AreNamesakes
  <2>12. other \in ids
    BY <2>7, <2>10, <2>11
  <2>13. other # Root
    <3>1. gathered[last].name \in Names
      BY <2>8, EntryType
    <3>2. other = Root => gathered[other].name = "root"
      BY <2>10, EntryType
    <3> QED
      BY <3>1, <3>2, <2>11, BackupAssumption
  <2>14. chain[par] \in Seq(DOMAIN gathered) /\ chain[other] = Append(chain[par], other)
         /\ PathOf(chain[other]) \in paths
    BY <2>7, <2>11, <2>12, <2>13 DEF Reached
  <2>15. PathOf(chain[other]) = Append(PathOf(chain[par]), gathered[other].name)
    BY <2>10, <2>14, PathOfAppend
  <2>16. PathOf(Append(chain[par], last)) = Append(PathOf(chain[par]), gathered[last].name)
    BY <2>8, <2>14, PathOfAppend
  <2>17. PathOf(chain[other]) = PathOf(Append(chain[par], last))
    BY <2>11, <2>15, <2>16
  <2> QED
    BY <2>9, <2>14, <2>17
<1> QED
  BY <1>1, <1>2

-------------------------------------------------------------------------------
(* The builder: the path of the folder that is open, and the one that will *)
(* be when the record that waits is added.                                 *)
OpenPath == [i \in 1..Len(parents) - 1 |-> parents[i + 1].name]

Target ==
  IF pc = "adding" THEN IF item.isDir THEN item.path ELSE Front(item.path)
  ELSE OpenPath

Named(folders) ==
  /\ \E S : folders \in Seq(S)
  /\ \A i \in 1..Len(folders) : "name" \in DOMAIN folders[i] /\ folders[i].name \in Segments

BuilderInv ==
  /\ Named(parents)
  /\ parents # <<>>
  /\ pc \in {"reading", "adding"}
  /\ pc = "adding" =>
       /\ item.path \in Seq(Segments)
       /\ item.path # <<>>
       /\ InOpenFolders(item.path)

LEMMA OpenPathType ==
  ASSUME BuilderInv
  PROVE  /\ Len(parents) \in Nat \ {0}
         /\ OpenPath \in Seq(Segments)
         /\ Len(OpenPath) = Len(parents) - 1
         /\ \A i \in 1..Len(parents) - 1 : OpenPath[i] = parents[i + 1].name
<1>1. PICK S : parents \in Seq(S)
  BY DEF BuilderInv, Named
<1>2. Len(parents) \in Nat \ {0}
  BY <1>1 DEF BuilderInv
<1>3. \A i \in 1..Len(parents) - 1 : parents[i + 1].name \in Segments
  BY <1>2 DEF BuilderInv, Named
<1> DEFINE NameAt(i) == parents[i + 1].name
           n == Len(parents) - 1
<1>4. n \in Nat
  BY <1>2
<1>5. OpenPath = [i \in 1..n |-> NameAt(i)] /\ \A i \in 1..n : NameAt(i) \in Segments
  BY <1>3 DEF OpenPath
<1> HIDE DEF NameAt, n
<1>6. OpenPath \in Seq(Segments) /\ Len(OpenPath) = n /\ \A i \in 1..n : OpenPath[i] = NameAt(i)
  BY <1>4, <1>5
<1> QED
  BY <1>2, <1>6 DEF NameAt, n

(* What the builder takes is in the folder that is open, or in one of      *)
(* those around it.                                                        *)
LEMMA InOpenFoldersMeans ==
  ASSUME BuilderInv, NEW p \in Seq(Segments), p # <<>>
  PROVE  InOpenFolders(p) <=> IsPrefix(Front(p), OpenPath)
<1>1. /\ Len(parents) \in Nat \ {0} /\ OpenPath \in Seq(Segments)
      /\ Len(OpenPath) = Len(parents) - 1
      /\ \A i \in 1..Len(parents) - 1 : OpenPath[i] = parents[i + 1].name
  BY OpenPathType
<1>2. /\ Len(p) \in Nat \ {0} /\ Front(p) \in Seq(Segments) /\ Len(Front(p)) = Len(p) - 1
      /\ \A i \in 1..Len(p) - 1 : Front(p)[i] = p[i]
  BY FrontLast
<1>3. IsPrefix(Front(p), OpenPath) <=>
        Len(Front(p)) <= Len(OpenPath) /\ \A i \in 1..Len(Front(p)) : Front(p)[i] = OpenPath[i]
  BY <1>1, <1>2, PrefixMeans
<1>4. ASSUME InOpenFolders(p) PROVE IsPrefix(Front(p), OpenPath)
  <2>1. Len(p) <= Len(parents) /\ \A i \in 1..Len(p) - 1 : p[i] = parents[i + 1].name
    BY <1>4 DEF InOpenFolders
  <2>2. Len(Front(p)) <= Len(OpenPath) /\ \A i \in 1..Len(Front(p)) : Front(p)[i] = OpenPath[i]
    BY <2>1, <1>1, <1>2
  <2> QED
    BY <1>3, <2>2
<1>5. ASSUME IsPrefix(Front(p), OpenPath) PROVE InOpenFolders(p)
  <2>1. Len(Front(p)) <= Len(OpenPath) /\ \A i \in 1..Len(Front(p)) : Front(p)[i] = OpenPath[i]
    BY <1>3, <1>5
  <2>2. Len(p) <= Len(parents)
    BY <2>1, <1>1, <1>2
  <2>3. ASSUME NEW i \in 1..Len(p) - 1 PROVE p[i] = parents[i + 1].name
    <3>1. i \in 1..Len(Front(p)) /\ i \in 1..Len(parents) - 1
      BY <2>2, <1>1, <1>2
    <3> QED
      BY <3>1, <2>1, <1>1, <1>2
  <2> QED
    BY <2>2, <2>3 DEF InOpenFolders
<1> QED
  BY <1>4, <1>5
(* Folders with the same names.                                            *)
SameNames(new, old) ==
  /\ Named(new)
  /\ Len(new) = Len(old)
  /\ \A i \in 1..Len(old) : new[i].name = old[i].name

LEMMA NamedType ==
  ASSUME NEW folders, Named(folders)
  PROVE  /\ Len(folders) \in Nat
         /\ DOMAIN folders = 1..Len(folders)
         /\ folders # <<>> <=> Len(folders) # 0
<1>1. PICK S : folders \in Seq(S)
  BY DEF Named
<1> QED
  BY <1>1

LEMMA LastReplaced ==
  ASSUME NEW folders, Named(folders), folders # <<>>,
         NEW e, "name" \in DOMAIN e, e.name = folders[Len(folders)].name
  PROVE  SameNames([folders EXCEPT ![Len(folders)] = e], folders)
<1> DEFINE n == Len(folders)
           new == [folders EXCEPT ![n] = e]
<1>1. PICK S : folders \in Seq(S)
  BY DEF Named
<1>2. n \in Nat \ {0}
  BY <1>1
<1>3. /\ new \in Seq(S \cup {e}) /\ Len(new) = n /\ new[n] = e
      /\ \A i \in 1..n : i # n => new[i] = folders[i]
  BY <1>1, <1>2
<1>4. \A i \in 1..n : "name" \in DOMAIN folders[i] /\ folders[i].name \in Segments
  BY DEF Named
<1> HIDE DEF new, n
<1>5. ASSUME NEW i \in 1..n
      PROVE  "name" \in DOMAIN new[i] /\ new[i].name \in Segments /\ new[i].name = folders[i].name
  <2>1. CASE i = n
    <3>1. e.name = folders[n].name
      BY DEF n
    <3> QED
      BY <3>1, <2>1, <1>3, <1>4
  <2>2. CASE i # n
    BY <2>2, <1>3, <1>4
  <2> QED
    BY <2>1, <2>2
<1>6. \E T : new \in Seq(T)
  BY <1>3
<1>7. Named(new)
  BY <1>3, <1>5, <1>6 DEF Named
<1>8. SameNames(new, folders)
  BY <1>3, <1>5, <1>7 DEF SameNames, n
<1> QED
  BY <1>8 DEF new, n

LEMMA NamedFront ==
  ASSUME NEW folders, Named(folders), folders # <<>>
  PROVE  /\ Named(Front(folders))
         /\ Len(Front(folders)) = Len(folders) - 1
         /\ \A i \in 1..Len(folders) - 1 : Front(folders)[i] = folders[i]
<1>1. PICK S : folders \in Seq(S)
  BY DEF Named
<1> DEFINE outer == Front(folders)
<1>2. /\ Len(folders) \in Nat \ {0} /\ outer \in Seq(S) /\ Len(outer) = Len(folders) - 1
      /\ \A i \in 1..Len(folders) - 1 : outer[i] = folders[i]
  BY <1>1, FrontLast
<1> HIDE DEF outer
<1>3. Named(outer)
  BY <1>2 DEF Named
<1> QED
  BY <1>2, <1>3 DEF outer

LEMMA NamedAppend ==
  ASSUME NEW folders, Named(folders), NEW e, "name" \in DOMAIN e, e.name \in Segments
  PROVE  /\ Named(Append(folders, e))
         /\ Len(Append(folders, e)) = Len(folders) + 1
         /\ \A i \in 1..Len(folders) : Append(folders, e)[i] = folders[i]
         /\ Append(folders, e)[Len(folders) + 1] = e
<1>1. PICK S : folders \in Seq(S)
  BY DEF Named
<1> DEFINE new == Append(folders, e)
           T == S \cup {e}
<1>2. folders \in Seq(T) /\ e \in T /\ Len(folders) \in Nat
  BY <1>1
<1> HIDE DEF T
<1>3. /\ new \in Seq(T) /\ Len(new) = Len(folders) + 1
      /\ \A i \in 1..Len(folders) : new[i] = folders[i]
      /\ new[Len(folders) + 1] = e
  BY <1>2, Appended
<1> HIDE DEF new
<1>4. ASSUME NEW i \in 1..Len(new) PROVE "name" \in DOMAIN new[i] /\ new[i].name \in Segments
  <2>1. CASE i = Len(folders) + 1
    BY <2>1, <1>3
  <2>2. CASE i \in 1..Len(folders)
    <3>1. "name" \in DOMAIN folders[i] /\ folders[i].name \in Segments
      BY <2>2 DEF Named
    <3> QED
      BY <3>1, <2>2, <1>3
  <2> QED
    BY <2>1, <2>2, <1>2, <1>3
<1>5. Named(new)
  BY <1>3, <1>4 DEF Named
<1> QED
  BY <1>3, <1>5 DEF new

LEMMA CountedNames ==
  ASSUME BuilderInv
  PROVE  SameNames(Counted(item), parents)
<1> DEFINE n == Len(parents)
           Count(r) == IF item.isDir THEN [r EXCEPT !.info.folders = @ + 1]
                                     ELSE [r EXCEPT !.info.files = @ + 1]
           new == [i \in 1..n |-> Count(parents[i])]
<1>1. /\ Named(parents) /\ n \in Nat /\ DOMAIN parents = 1..n
  BY NamedType DEF BuilderInv
<1>2. CASE ~options.recount
  <2>1. Counted(item) = parents
    BY <1>2 DEF Counted
  <2> QED
    BY <1>1, <2>1 DEF SameNames
<1>3. CASE options.recount
  <2>1. Counted(item) = new
    BY <1>1, <1>3 DEF Counted
  <2>2. ASSUME NEW i \in 1..n
        PROVE  "name" \in DOMAIN Count(parents[i]) /\ Count(parents[i]).name = parents[i].name
                 /\ parents[i].name \in Segments
    <3>1. "name" \in DOMAIN parents[i] /\ parents[i].name \in Segments
      BY <1>1 DEF Named
    <3> QED
      BY <3>1
  <2>3. \E S : new \in Seq(S)
    <3> DEFINE S == {Count(parents[i]) : i \in 1..n}
    <3>1. \A i \in 1..n : Count(parents[i]) \in S
      OBVIOUS
    <3> HIDE DEF S, Count, n
    <3>2. new \in Seq(S)
      BY <1>1, <3>1
    <3> QED
      BY <3>2
  <2> HIDE DEF Count
  <2>4. Len(new) = n /\ \A i \in 1..n : new[i] = Count(parents[i])
    BY <1>1
  <2> HIDE DEF new
  <2>5. \A i \in 1..n : "name" \in DOMAIN new[i] /\ new[i].name = parents[i].name
                          /\ new[i].name \in Segments
    BY <2>2, <2>4
  <2>6. Named(new)
    BY <2>3, <2>4, <2>5 DEF Named
  <2>7. SameNames(new, parents)
    BY <2>4, <2>5, <2>6 DEF SameNames
  <2> QED
    BY <2>1, <2>7
<1> QED
  BY <1>2, <1>3

(* The record waits until the folders that it is not in are finished.      *)
LEMMA FinishFolderStep ==
  ASSUME BuilderInv, FinishFolder
  PROVE  BuilderInv' /\ Target' = Target /\ UNCHANGED <<pc, item, listing>>
<1> DEFINE outer == Front(parents)
           n == Len(outer)
<1>1. /\ pc = "adding" /\ Len(parents) > Len(item.path)
      /\ UNCHANGED <<options, listing, item, pc>>
  BY DEF FinishFolder, BuilderInv, Kept
<1>2. /\ Named(parents) /\ parents # <<>> /\ item.path \in Seq(Segments) /\ item.path # <<>>
      /\ InOpenFolders(item.path)
  BY <1>1 DEF BuilderInv
<1>3. Len(item.path) \in Nat \ {0} /\ Len(parents) \in Nat
  BY <1>2, NamedType
<1>4. Named(outer) /\ n = Len(parents) - 1 /\ \A i \in 1..n : outer[i] = parents[i]
  BY <1>2, NamedFront
<1>5. outer # <<>> /\ n \in Nat \ {0}
  BY <1>1, <1>3, <1>4, NamedType
<1> HIDE DEF outer
<1>6. PICK info, kids : parents' = [outer EXCEPT ![n] = [@ EXCEPT !.info = info, !.children = kids]]
  BY <1>5 DEF FinishFolder, WithChild, outer
<1> DEFINE e == [outer[n] EXCEPT !.info = info, !.children = kids]
<1>7. "name" \in DOMAIN outer[n] /\ n \in 1..n /\ DOMAIN outer = 1..n
  BY <1>4, <1>5, NamedType DEF Named
<1>8. "name" \in DOMAIN e /\ e.name = outer[n].name
  BY <1>7
<1>9. parents' = [outer EXCEPT ![n] = e]
  BY <1>6, <1>7
<1> HIDE DEF e
<1>10. SameNames(parents', outer)
  BY <1>4, <1>5, <1>8, <1>9, LastReplaced
<1>11. /\ Named(parents') /\ Len(parents') = n
       /\ \A i \in 1..n : parents'[i].name = parents[i].name
  BY <1>4, <1>10 DEF SameNames
<1>12. parents' # <<>>
  BY <1>5, <1>11
<1>13. InOpenFolders(item.path)'
  <2>1. Len(item.path) <= Len(parents) /\ \A i \in 1..Len(item.path) - 1 : item.path[i] = parents[i + 1].name
    BY <1>2 DEF InOpenFolders
  <2>2. Len(item.path) <= n
    BY <1>1, <1>3, <1>4
  <2>3. ASSUME NEW i \in 1..Len(item.path) - 1 PROVE item.path[i] = parents'[i + 1].name
    <3>1. i + 1 \in 1..n
      BY <2>2, <1>3, <1>5
    <3> QED
      BY <3>1, <2>1, <1>11
  <2> QED
    BY <1>1, <1>11, <2>2, <2>3 DEF InOpenFolders
<1>14. BuilderInv'
  BY <1>1, <1>2, <1>11, <1>12, <1>13 DEF BuilderInv
<1> QED
  BY <1>1, <1>14 DEF Target
(* The folders that are left are those of the record that waits.           *)
LEMMA ItemInOpenFolder ==
  ASSUME BuilderInv, pc = "adding", Len(parents) = Kept
  PROVE  /\ item.path \in Seq(Segments) /\ item.path # <<>>
         /\ Front(item.path) = OpenPath
         /\ Last(item.path) \in Segments
         /\ item.path = Append(OpenPath, Last(item.path))
<1>1. item.path \in Seq(Segments) /\ item.path # <<>> /\ InOpenFolders(item.path)
  BY DEF BuilderInv
<1>2. /\ Len(item.path) \in Nat \ {0} /\ Front(item.path) \in Seq(Segments)
      /\ Len(Front(item.path)) = Len(item.path) - 1
      /\ Last(item.path) \in Segments
      /\ item.path = Append(Front(item.path), Last(item.path))
  BY <1>1, FrontLast
<1>3. IsPrefix(Front(item.path), OpenPath)
  BY <1>1, InOpenFoldersMeans
<1>4. OpenPath \in Seq(Segments) /\ Len(OpenPath) = Len(item.path) - 1
  BY OpenPathType DEF Kept
<1>5. Front(item.path) = OpenPath
  BY <1>2, <1>3, <1>4, PrefixOrder
<1> QED
  BY <1>1, <1>2, <1>5

LEMMA AddFolderStep ==
  ASSUME BuilderInv, AddFolder
  PROVE  BuilderInv' /\ Target' = Target /\ pc' = "reading" /\ UNCHANGED listing
<1>1. /\ pc = "adding" /\ Len(parents) = Kept /\ item.isDir /\ pc' = "reading"
      /\ UNCHANGED listing
  BY DEF AddFolder
<1>2. /\ item.path \in Seq(Segments) /\ item.path # <<>>
      /\ Last(item.path) \in Segments
      /\ item.path = Append(OpenPath, Last(item.path))
  BY <1>1, ItemInOpenFolder
<1> DEFINE name == Last(item.path)
           counted == Counted(item)
           n == Len(parents)
<1>3. PICK info : parents' = Append(counted, [name |-> name, info |-> info, children |-> <<>>])
  BY DEF AddFolder
<1> DEFINE e == [name |-> name, info |-> info, children |-> <<>>]
<1>4. SameNames(counted, parents)
  BY CountedNames
<1> HIDE DEF counted, name
<1>5. "name" \in DOMAIN e /\ e.name = name /\ name \in Segments
  BY <1>2 DEF name
<1>6. parents' = Append(counted, e)
  BY <1>3
<1> HIDE DEF e
<1>7. /\ Named(counted) /\ Len(counted) = n /\ \A i \in 1..n : counted[i].name = parents[i].name
  BY <1>4 DEF SameNames
<1>8. /\ Named(parents') /\ Len(parents') = n + 1
      /\ \A i \in 1..n : parents'[i] = counted[i]
      /\ parents'[n + 1] = e
  BY <1>5, <1>6, <1>7, NamedAppend
<1>9. n \in Nat \ {0} /\ parents' # <<>>
  <2>1. n \in Nat \ {0}
    BY OpenPathType
  <2>2. Len(parents') # 0
    BY <2>1, <1>8
  <2> QED
    BY <2>1, <2>2, <1>8, NamedType
<1>10. BuilderInv'
  BY <1>1, <1>8, <1>9 DEF BuilderInv
<1>11. OpenPath' = Append(OpenPath, name)
  <2>1. /\ OpenPath \in Seq(Segments) /\ Len(OpenPath) = n - 1
        /\ \A i \in 1..n - 1 : OpenPath[i] = parents[i + 1].name
    BY OpenPathType
  <2> DEFINE new == OpenPath'
             more == Append(OpenPath, name)
  <2>2. /\ new \in Seq(Segments) /\ Len(new) = n
        /\ \A i \in 1..n : new[i] = parents'[i + 1].name
    <3>1. new = [i \in 1..Len(parents') - 1 |-> parents'[i + 1].name]
      BY DEF OpenPath
    <3>2. Len(parents') - 1 = n
      BY <1>8, <1>9
    <3>3. \A i \in 1..n : parents'[i + 1].name \in Segments
      BY <1>8, <1>9 DEF Named
    <3> DEFINE NameAt(i) == parents'[i + 1].name
    <3>4. new = [i \in 1..n |-> NameAt(i)] /\ \A i \in 1..n : NameAt(i) \in Segments
      BY <3>1, <3>2, <3>3
    <3> HIDE DEF NameAt, new, n
    <3>5. new \in Seq(Segments) /\ Len(new) = n /\ \A i \in 1..n : new[i] = NameAt(i)
      BY <1>9, <3>4
    <3> QED
      BY <3>5 DEF NameAt
  <2>3. /\ more \in Seq(Segments) /\ Len(more) = n
        /\ \A i \in 1..n - 1 : more[i] = OpenPath[i]
        /\ more[n] = name
    <3>1. /\ more \in Seq(Segments) /\ Len(more) = Len(OpenPath) + 1
          /\ \A i \in 1..Len(OpenPath) : more[i] = OpenPath[i]
          /\ more[Len(OpenPath) + 1] = name
      BY <1>5, <2>1, Appended
    <3> HIDE DEF more
    <3> QED
      BY <3>1, <2>1, <1>9
  <2> HIDE DEF new, more, n
  <2>4. ASSUME NEW i \in 1..n PROVE new[i] = more[i]
    <3>1. CASE i = n
      BY <3>1, <1>5, <1>8, <1>9, <2>2, <2>3 DEF n
    <3>2. CASE i \in 1..n - 1
      <4>1. parents'[i + 1].name = parents[i + 1].name
        <5>1. i + 1 \in 1..n
          BY <3>2, <1>9 DEF n
        <5> QED
          BY <5>1, <1>7, <1>8 DEF n
      <4> QED
        BY <3>2, <4>1, <2>1, <2>2, <2>3 DEF n
    <3> QED
      BY <3>1, <3>2, <1>9 DEF n
  <2>5. new = more
    BY <2>2, <2>3, <2>4
  <2> QED
    BY <2>5 DEF new, more
<1> QED
  BY <1>1, <1>2, <1>10, <1>11 DEF Target, name

LEMMA AddFileStep ==
  ASSUME BuilderInv, AddFile
  PROVE  BuilderInv' /\ Target' = Target /\ pc' = "reading" /\ UNCHANGED listing
<1>1. /\ pc = "adding" /\ Len(parents) = Kept /\ ~item.isDir /\ pc' = "reading"
      /\ UNCHANGED listing
  BY DEF AddFile
<1>2. Front(item.path) = OpenPath
  BY <1>1, ItemInOpenFolder
<1> DEFINE counted == Counted(item)
           n == Len(parents)
<1>3. PICK info, kids :
        parents' = [counted EXCEPT ![n] = [@ EXCEPT !.info = info, !.children = kids]]
  <2>1. parents' = [counted EXCEPT ![n] =
                      WithChild(@, item, ChildAt(Last(item.path), FALSE, Len(entries')))]
    BY DEF AddFile
  <2> HIDE DEF counted, n
  <2> QED
    BY <2>1 DEF WithChild
<1>4. SameNames(counted, parents)
  BY CountedNames
<1> HIDE DEF counted
<1>5. /\ Named(counted) /\ Len(counted) = n /\ \A i \in 1..n : counted[i].name = parents[i].name
  BY <1>4 DEF SameNames
<1>6. n \in Nat \ {0} /\ counted # <<>> /\ DOMAIN counted = 1..n
  <2>1. n \in Nat \ {0}
    BY OpenPathType
  <2> QED
    BY <2>1, <1>5, NamedType
<1> DEFINE e == [counted[n] EXCEPT !.info = info, !.children = kids]
<1>7. "name" \in DOMAIN e /\ e.name = counted[n].name
  <2>1. "name" \in DOMAIN counted[n]
    BY <1>5, <1>6 DEF Named
  <2> QED
    BY <2>1
<1>8. parents' = [counted EXCEPT ![n] = e]
  BY <1>3, <1>6
<1> HIDE DEF e
<1>9. SameNames(parents', counted)
  BY <1>5, <1>6, <1>7, <1>8, LastReplaced
<1>10. /\ Named(parents') /\ Len(parents') = n
       /\ \A i \in 1..n : parents'[i].name = parents[i].name
  BY <1>5, <1>9 DEF SameNames
<1>11. parents' # <<>>
  <2>1. Len(parents') # 0
    BY <1>6, <1>10
  <2> QED
    BY <2>1, <1>10, NamedType
<1>12. BuilderInv'
  BY <1>1, <1>10, <1>11 DEF BuilderInv
<1>13. OpenPath' = OpenPath
  <2>1. \A i \in 1..n - 1 : parents'[i + 1].name = parents[i + 1].name
    BY <1>6, <1>10
  <2> QED
    BY <1>10, <2>1 DEF OpenPath
<1> QED
  BY <1>1, <1>2, <1>12, <1>13 DEF Target

(* What the builder makes of a record that it takes, and of one that it    *)
(* does not.                                                               *)
LEMMA TakeStep ==
  ASSUME BuilderInv, NEW path \in Seq(Segments), path # <<>>, NEW isDir \in BOOLEAN,
         Take(RecordOf(path, isDir))
  PROVE  /\ BuilderInv'
         /\ Target' = IF isDir THEN path ELSE Front(path)
         /\ pc = "reading" /\ pc' = "adding"
         /\ IsPrefix(Front(path), Target)
         /\ listing' = Append(listing, RecordOf(path, isDir))
<1> DEFINE r == RecordOf(path, isDir)
<1>1. /\ pc = "reading" /\ pc' = "adding" /\ InOpenFolders(r.path) /\ item' = r
      /\ listing' = Append(listing, r) /\ parents' = parents
  BY DEF Take
<1>2. r.path = path /\ r.isDir = isDir
  BY DEF RecordOf
<1> HIDE DEF r
<1>3. BuilderInv'
  BY <1>1, <1>2 DEF BuilderInv, InOpenFolders
<1>4. IsPrefix(Front(path), Target)
  BY <1>1, <1>2, InOpenFoldersMeans DEF Target
<1>5. Target' = IF isDir THEN path ELSE Front(path)
  <2>1. CASE isDir
    BY <2>1, <1>1, <1>2 DEF Target
  <2>2. CASE ~isDir
    BY <2>2, <1>1, <1>2 DEF Target
  <2> QED
    BY <2>1, <2>2
<1> QED
  BY <1>1, <1>3, <1>4, <1>5 DEF r

LEMMA RefuseStep ==
  ASSUME BuilderInv, NEW path \in Seq(Segments), path # <<>>, NEW isDir \in BOOLEAN,
         Refuse(RecordOf(path, isDir))
  PROVE  ~IsPrefix(Front(path), Target) /\ UNCHANGED listing
<1>1. RecordOf(path, isDir).path = path
  BY DEF RecordOf
<1>2. pc = "reading" /\ ~InOpenFolders(path) /\ UNCHANGED listing
  BY <1>1 DEF Refuse
<1> QED
  BY <1>2, InOpenFoldersMeans DEF Target

LEMMA TargetType ==
  ASSUME BuilderInv
  PROVE  Target \in Seq(Segments)
<1>1. OpenPath \in Seq(Segments)
  BY OpenPathType
<1>2. CASE pc = "adding"
  <2>1. item.path \in Seq(Segments) /\ Front(item.path) \in Seq(Segments)
    BY <1>2, FrontLast DEF BuilderInv
  <2> QED
    BY <2>1, <1>2 DEF Target
<1> QED
  BY <1>1, <1>2 DEF Target
-------------------------------------------------------------------------------
(* The open folders of the iterator, one inside of the other: each lists   *)
(* children of one entry, and what is left in a folder that was listed     *)
(* waits in it.                                                            *)
OpenType(o) ==
  /\ o \in Seq([path : Seq(Segments), rest : Seq(DOMAIN gathered)])
  /\ \A i, j \in 1..Len(o) : i <= j => IsPrefix(o[i].path, o[j].path)

Owned(o, ids, chain) ==
  \A j \in 1..Len(o) : \E id \in ids :
    /\ o[j].path = PathOf(chain[id])
    /\ \A k \in 1..Len(o[j].rest) : gathered[o[j].rest[k]].parent = id

WaitsIn(o, path, id) ==
  \E j \in 1..Len(o) : o[j].path = path /\ \E k \in 1..Len(o[j].rest) : o[j].rest[k] = id

Waiting(o, ids, chain, rest) ==
  \A id \in rest :
    gathered[id].parent \in ids => WaitsIn(o, PathOf(chain[gathered[id].parent]), id)

OpenLists(o, ids, chain, rest) ==
  /\ OpenType(o)
  /\ Owned(o, ids, chain)
  /\ Waiting(o, ids, chain, rest)

LEMMA OpenAt ==
  ASSUME NEW o, OpenType(o), NEW j \in 1..Len(o)
  PROVE  /\ o[j].path \in Seq(Segments)
         /\ o[j].rest \in Seq(DOMAIN gathered)
<1> DEFINE S == Seq(Segments)
           R == Seq(DOMAIN gathered)
<1> DEFINE T == [path : S, rest : R]
<1>1. o \in Seq(T)
  BY DEF OpenType
<1> HIDE DEF T
<1>2. o[j] \in T
  BY <1>1
<1> USE DEF T
<1> HIDE DEF S, R
<1>3. o[j].path \in S /\ o[j].rest \in R
  BY <1>2
<1> QED
  BY <1>3 DEF S, R

LEMMA OpenLength ==
  ASSUME NEW o, OpenType(o)
  PROVE  /\ Len(o) \in Nat
         /\ DOMAIN o = 1..Len(o)
         /\ o # <<>> <=> Len(o) # 0
BY DEF OpenType

LEMMA LeaveFolder ==
  ASSUME NEW o, NEW ids, NEW chain, NEW rest, OpenLists(o, ids, chain, rest),
         o # <<>>, Last(o).rest = <<>>
  PROVE  OpenLists(Front(o), ids, chain, rest)
<1> DEFINE S == [path : Seq(Segments), rest : Seq(DOMAIN gathered)]
           new == Front(o)
           n == Len(o)
<1>1. o \in Seq(S)
  BY DEF OpenLists, OpenType
<1> HIDE DEF S
<1>2. /\ n \in Nat \ {0} /\ new \in Seq(S) /\ Len(new) = n - 1
      /\ \A i \in 1..n - 1 : new[i] = o[i]
      /\ Last(o) = o[n]
  BY <1>1, FrontLast
<1> HIDE DEF new, n
<1>3. OpenType(new)
  <2>1. \A i, j \in 1..n : i <= j => IsPrefix(o[i].path, o[j].path)
    BY DEF OpenLists, OpenType, n
  <2>2. \A i, j \in 1..Len(new) : i <= j => IsPrefix(new[i].path, new[j].path)
    BY <2>1, <1>2
  <2> QED
    BY <2>2, <1>2 DEF OpenType, S
<1>4. Owned(new, ids, chain)
  <2> SUFFICES ASSUME NEW j \in 1..Len(new)
               PROVE  \E id \in ids :
                        /\ new[j].path = PathOf(chain[id])
                        /\ \A k \in 1..Len(new[j].rest) : gathered[new[j].rest[k]].parent = id
    BY DEF Owned
  <2>1. j \in 1..n /\ new[j] = o[j]
    BY <1>2
  <2>2. \E id \in ids :
          /\ o[j].path = PathOf(chain[id])
          /\ \A k \in 1..Len(o[j].rest) : gathered[o[j].rest[k]].parent = id
    BY <2>1 DEF OpenLists, Owned, n
  <2> QED
    BY <2>1, <2>2
<1>5. Waiting(new, ids, chain, rest)
  <2> SUFFICES ASSUME NEW id \in rest, gathered[id].parent \in ids
               PROVE  WaitsIn(new, PathOf(chain[gathered[id].parent]), id)
    BY DEF Waiting
  <2> DEFINE path == PathOf(chain[gathered[id].parent])
  <2>1. WaitsIn(o, path, id)
    BY DEF OpenLists, Waiting
  <2> HIDE DEF path
  <2>2. PICK j \in 1..n : o[j].path = path /\ \E k \in 1..Len(o[j].rest) : o[j].rest[k] = id
    BY <2>1 DEF WaitsIn, n
  <2>3. j # n
    <3>1. Len(o[n].rest) = 0
      BY <1>2
    <3> QED
      BY <2>2, <3>1
  <2>4. j \in 1..Len(new) /\ new[j] = o[j]
    BY <2>3, <1>2
  <2>5. WaitsIn(new, path, id)
    BY <2>2, <2>4 DEF WaitsIn
  <2> QED
    BY <2>5 DEF path
<1> QED
  BY <1>3, <1>4, <1>5 DEF OpenLists, new

(* The first of the children in the innermost folder.                      *)
Dropped(o) == [o EXCEPT ![Len(o)].rest = Tail(@)]

LEMMA DroppedMeans ==
  ASSUME NEW o, OpenType(o), o # <<>>, Last(o).rest # <<>>
  PROVE  /\ Len(o) \in Nat \ {0}
         /\ OpenType(Dropped(o))
         /\ Len(Dropped(o)) = Len(o)
         /\ \A j \in 1..Len(o) : Dropped(o)[j].path = o[j].path
         /\ \A j \in 1..Len(o) - 1 : Dropped(o)[j] = o[j]
         /\ Dropped(o)[Len(o)].rest = Tail(o[Len(o)].rest)
         /\ o[Len(o)].rest \in Seq(DOMAIN gathered)
         /\ o[Len(o)].rest # <<>>
         /\ Head(Last(o).rest) = o[Len(o)].rest[1]
<1> DEFINE P == Seq(Segments)
           R == Seq(DOMAIN gathered)
           S == [path : P, rest : R]
           n == Len(o)
           new == Dropped(o)
<1>1. o \in Seq(S) /\ n \in Nat \ {0} /\ n \in 1..n
  BY OpenLength DEF OpenType
<1>2. o[n].path \in P /\ o[n].rest \in R /\ o[n].rest # <<>>
  BY <1>1, OpenAt DEF Last
<1>3. Tail(o[n].rest) \in R
  <2> DEFINE s == o[n].rest
  <2>1. s \in Seq(DOMAIN gathered) /\ s # <<>>
    BY <1>2
  <2> HIDE DEF s
  <2>2. Tail(s) \in Seq(DOMAIN gathered)
    BY <2>1
  <2> QED
    BY <2>2 DEF s
<1> DEFINE last == o[n]
           after == Tail(last.rest)
           e == [last EXCEPT !.rest = after]
<1>4. new = [o EXCEPT ![n] = e]
  BY DEF Dropped
<1>5. e \in S /\ e.path = last.path /\ e.rest = after
  <2>1. last \in S
    <3> HIDE DEF S
    <3> QED
      BY <1>1
  <2>2. after \in R
    BY <1>3
  <2> HIDE DEF P, R, last, after
  <2> QED
    BY <2>1, <2>2
<1> HIDE DEF e, S, new
<1>6. new \in Seq(S) /\ Len(new) = n /\ new[n] = e /\ \A j \in 1..n : j # n => new[j] = o[j]
  BY <1>1, <1>4, <1>5
<1>7. \A j \in 1..n : new[j].path = o[j].path
  <2> SUFFICES ASSUME NEW j \in 1..n PROVE new[j].path = o[j].path
    OBVIOUS
  <2>1. CASE j = n
    BY <2>1, <1>5, <1>6
  <2>2. CASE j # n
    BY <2>2, <1>6
  <2> QED
    BY <2>1, <2>2
<1>8. \A j \in 1..n - 1 : new[j] = o[j]
  BY <1>1, <1>6
<1>9. OpenType(new)
  <2>1. \A i, j \in 1..n : i <= j => IsPrefix(o[i].path, o[j].path)
    BY DEF OpenType
  <2>2. \A i, j \in 1..Len(new) : i <= j => IsPrefix(new[i].path, new[j].path)
    BY <2>1, <1>6, <1>7
  <2> QED
    BY <2>2, <1>6 DEF OpenType, S, P, R
<1>10. Head(Last(o).rest) = o[n].rest[1]
  BY <1>2 DEF Last
<1> QED
  BY <1>1, <1>2, <1>5, <1>6, <1>7, <1>8, <1>9, <1>10 DEF new, P, R

LEMMA DropFirst ==
  ASSUME NEW o, NEW ids, NEW chain, NEW rest, OpenLists(o, ids, chain, rest),
         o # <<>>, Last(o).rest # <<>>
  PROVE  OpenLists(Dropped(o), ids, chain, rest \ {Head(Last(o).rest)})
<1> DEFINE n == Len(o)
           new == Dropped(o)
           first == Head(Last(o).rest)
           old == o[n].rest
           after == Tail(old)
<1>1. OpenType(o)
  BY DEF OpenLists
<1>2. /\ n \in Nat \ {0}
      /\ OpenType(new)
      /\ Len(new) = n
      /\ \A j \in 1..n : new[j].path = o[j].path
      /\ \A j \in 1..n - 1 : new[j] = o[j]
      /\ new[n].rest = after
      /\ old \in Seq(DOMAIN gathered)
      /\ old # <<>>
      /\ first = old[1]
  BY <1>1, DroppedMeans
<1>3. /\ Len(old) \in Nat \ {0} /\ Len(after) = Len(old) - 1
      /\ \A k \in 1..Len(old) - 1 : after[k] = old[k + 1]
  BY <1>2
<1>4. old = o[n].rest
  OBVIOUS
<1> HIDE DEF new, first, old, after
<1>5. Owned(new, ids, chain)
  <2> SUFFICES ASSUME NEW j \in 1..n
               PROVE  \E id \in ids :
                        /\ new[j].path = PathOf(chain[id])
                        /\ \A k \in 1..Len(new[j].rest) : gathered[new[j].rest[k]].parent = id
    BY <1>2 DEF Owned
  <2>1. PICK id \in ids :
          /\ o[j].path = PathOf(chain[id])
          /\ \A k \in 1..Len(o[j].rest) : gathered[o[j].rest[k]].parent = id
    BY DEF OpenLists, Owned
  <2>2. \A k \in 1..Len(new[j].rest) : gathered[new[j].rest[k]].parent = id
    <3>1. CASE j = n
      <4> SUFFICES ASSUME NEW k \in 1..Len(new[j].rest)
                   PROVE  gathered[new[j].rest[k]].parent = id
        OBVIOUS
      <4>1. new[j].rest[k] = old[k + 1] /\ k + 1 \in 1..Len(old)
        BY <3>1, <1>2, <1>3
      <4> QED
        BY <4>1, <3>1, <2>1, <1>4
    <3>2. CASE j # n
      <4>1. j \in 1..n - 1
        BY <3>2, <1>2
      <4> QED
        BY <4>1, <2>1, <1>2
    <3> QED
      BY <3>1, <3>2
  <2> QED
    BY <2>1, <2>2, <1>2
<1>6. Waiting(new, ids, chain, rest \ {first})
  <2> SUFFICES ASSUME NEW id \in rest, id # first, gathered[id].parent \in ids
               PROVE  WaitsIn(new, PathOf(chain[gathered[id].parent]), id)
    BY DEF Waiting
  <2> DEFINE path == PathOf(chain[gathered[id].parent])
  <2>1. WaitsIn(o, path, id)
    BY DEF OpenLists, Waiting
  <2> HIDE DEF path
  <2>2. PICK j \in 1..n : o[j].path = path /\ \E k \in 1..Len(o[j].rest) : o[j].rest[k] = id
    BY <2>1 DEF WaitsIn
  <2>3. \E k \in 1..Len(new[j].rest) : new[j].rest[k] = id
    <3>1. PICK k \in 1..Len(o[j].rest) : o[j].rest[k] = id
      BY <2>2
    <3>2. CASE j = n
      <4>1. k # 1 /\ k \in 1..Len(old) /\ old[k] = id
        BY <3>1, <3>2, <1>2, <1>4
      <4>2. k - 1 \in 1..Len(after) /\ after[k - 1] = old[k]
        BY <4>1, <1>3
      <4> QED
        BY <4>1, <4>2, <3>2, <1>2
    <3>3. CASE j # n
      <4>1. j \in 1..n - 1
        BY <3>3, <1>2
      <4> QED
        BY <4>1, <3>1, <1>2
    <3> QED
      BY <3>2, <3>3
  <2>4. WaitsIn(new, path, id)
    BY <2>2, <2>3, <1>2 DEF WaitsIn
  <2> QED
    BY <2>4 DEF path
<1> QED
  BY <1>2, <1>5, <1>6 DEF OpenLists, new, first
(* An entry is listed: its children, if it has any, wait in it.            *)
LEMMA StillOwned ==
  ASSUME NEW o, NEW ids, NEW chain, Owned(o, ids, chain), NEW new, new \notin ids
  PROVE  Owned(o, ids \cup {new}, Lengthened(ids, chain, new))
<1> DEFINE longer == Lengthened(ids, chain, new)
<1>1. \A id \in ids : longer[id] = chain[id]
  BY DEF Lengthened
<1> HIDE DEF longer
<1>2. Owned(o, ids \cup {new}, longer)
  <2> SUFFICES ASSUME NEW j \in 1..Len(o)
               PROVE  \E id \in ids \cup {new} :
                        /\ o[j].path = PathOf(longer[id])
                        /\ \A k \in 1..Len(o[j].rest) : gathered[o[j].rest[k]].parent = id
    BY DEF Owned
  <2>1. PICK id \in ids :
          /\ o[j].path = PathOf(chain[id])
          /\ \A k \in 1..Len(o[j].rest) : gathered[o[j].rest[k]].parent = id
    BY DEF Owned
  <2>2. PathOf(longer[id]) = PathOf(chain[id])
    BY <1>1
  <2> QED
    BY <2>1, <2>2
<1> QED
  BY <1>2 DEF longer

LEMMA StillWaiting ==
  ASSUME NEW o, NEW ids, NEW chain, NEW rest, Waiting(o, ids, chain, rest), NEW new, new \notin ids,
         NEW id \in rest, gathered[id].parent \in ids
  PROVE  WaitsIn(o, PathOf(Lengthened(ids, chain, new)[gathered[id].parent]), id)
<1> DEFINE up == gathered[id].parent
<1>1. Lengthened(ids, chain, new)[up] = chain[up]
  BY DEF Lengthened
<1>2. WaitsIn(o, PathOf(chain[up]), id)
  BY DEF Waiting
<1> QED
  BY <1>1, <1>2

LEMMA NothingWaits ==
  ASSUME Gathered, IsLookup(children), NEW o, NEW ids, NEW chain, NEW rest,
         OpenLists(o, ids, chain, rest), rest \subseteq DOMAIN gathered,
         NEW new \in DOMAIN gathered, new \notin ids, new \in Numbers, children[new] = <<>>
  PROVE  OpenLists(o, ids \cup {new}, Lengthened(ids, chain, new), rest)
<1>1. Owned(o, ids \cup {new}, Lengthened(ids, chain, new))
  BY StillOwned DEF OpenLists
<1>2. Waiting(o, ids \cup {new}, Lengthened(ids, chain, new), rest)
  <2> SUFFICES ASSUME NEW id \in rest, gathered[id].parent \in ids \cup {new}
               PROVE  WaitsIn(o, PathOf(Lengthened(ids, chain, new)[gathered[id].parent]), id)
    BY DEF Waiting
  <2>1. gathered[id].parent # new
    <3> SUFFICES ASSUME gathered[id].parent = new PROVE FALSE
      OBVIOUS
    <3>1. PICK i \in 1..Len(children[gathered[id].parent]) : children[gathered[id].parent][i] = id
      BY DEF IsLookup
    <3>2. Len(children[gathered[id].parent]) = 0
      OBVIOUS
    <3> QED
      BY <3>1, <3>2
  <2> QED
    BY <2>1, StillWaiting DEF OpenLists
<1> QED
  BY <1>1, <1>2 DEF OpenLists

LEMMA EnterFolder ==
  ASSUME Gathered, IsLookup(children), NEW o, NEW ids, NEW chain, NEW rest,
         OpenLists(o, ids, chain, rest), rest \subseteq DOMAIN gathered,
         NEW new \in DOMAIN gathered, new \notin ids, new \in Numbers,
         NEW path \in Seq(Segments), path = PathOf(Lengthened(ids, chain, new)[new]),
         \A i \in 1..Len(o) : IsPrefix(o[i].path, path)
  PROVE  OpenLists(Append(o, [path |-> path, rest |-> children[new]]),
                   ids \cup {new}, Lengthened(ids, chain, new), rest)
<1> DEFINE P == Seq(Segments)
           R == Seq(DOMAIN gathered)
           S == [path : P, rest : R]
           kids == children[new]
           e == [path |-> path, rest |-> kids]
           n == Len(o)
           more == Append(o, e)
           wider == ids \cup {new}
           longer == Lengthened(ids, chain, new)
<1>1. o \in Seq(S) /\ n \in Nat
  BY DEF OpenLists, OpenType
<1>2. kids \in R
  BY DEF IsLookup
<1> HIDE DEF P, R
<1>3. e \in S /\ e.path = path /\ e.rest = kids
  <2>1. path \in P
    BY DEF P
  <2> HIDE DEF kids
  <2> QED
    BY <2>1, <1>2
<1> HIDE DEF S, e
<1>4. /\ more \in Seq(S) /\ Len(more) = n + 1 /\ more[n + 1] = e
      /\ \A j \in 1..n : more[j] = o[j]
  BY <1>1, <1>3, Appended
<1> HIDE DEF more, longer
<1>5. OpenType(more)
  <2>1. \A i, j \in 1..n : i <= j => IsPrefix(o[i].path, o[j].path)
    BY DEF OpenLists, OpenType
  <2>2. ASSUME NEW i \in 1..n + 1, NEW j \in 1..n + 1, i <= j
        PROVE  IsPrefix(more[i].path, more[j].path)
    <3>1. CASE j \in 1..n
      <4>1. i \in 1..n
        BY <3>1, <2>2, <1>1
      <4>2. more[i] = o[i] /\ more[j] = o[j] /\ IsPrefix(o[i].path, o[j].path)
        BY <3>1, <4>1, <2>1, <2>2, <1>4
      <4> QED
        BY <4>2
    <3>2. CASE i \in 1..n /\ j = n + 1
      <4>1. more[i] = o[i] /\ more[j] = e /\ IsPrefix(o[i].path, path)
        BY <3>2, <1>4
      <4>2. more[i].path = o[i].path /\ more[j].path = path
        BY <4>1, <1>3
      <4> QED
        BY <4>1, <4>2
    <3>3. CASE i = n + 1 /\ j = n + 1
      <4>1. more[i].path = path /\ more[j].path = path
        BY <3>3, <1>3, <1>4
      <4>2. IsPrefix(path, path)
        BY PrefixOrder
      <4> QED
        BY <4>1, <4>2
    <3> QED
      BY <3>1, <3>2, <3>3, <2>2, <1>1
  <2> QED
    BY <2>2, <1>4 DEF OpenType, S, P, R
<1>6. Owned(more, wider, longer)
  <2>1. Owned(o, wider, longer)
    BY StillOwned DEF OpenLists, longer
  <2> SUFFICES ASSUME NEW j \in 1..n + 1
               PROVE  \E id \in wider :
                        /\ more[j].path = PathOf(longer[id])
                        /\ \A k \in 1..Len(more[j].rest) : gathered[more[j].rest[k]].parent = id
    BY <1>4 DEF Owned
  <2>2. CASE j = n + 1
    <3>1. more[j].path = PathOf(longer[new]) /\ more[j].rest = kids
      BY <2>2, <1>3, <1>4 DEF longer
    <3>2. \A k \in 1..Len(kids) : gathered[kids[k]].parent = new
      BY DEF IsLookup
    <3>3. \A k \in 1..Len(more[j].rest) : gathered[more[j].rest[k]].parent = new
      <4> HIDE DEF kids
      <4> QED
        BY <3>1, <3>2
    <3> QED
      BY <3>1, <3>3
  <2>3. CASE j \in 1..n
    <3>1. PICK id \in wider :
            /\ o[j].path = PathOf(longer[id])
            /\ \A k \in 1..Len(o[j].rest) : gathered[o[j].rest[k]].parent = id
      BY <2>1, <2>3 DEF Owned
    <3>2. more[j] = o[j]
      BY <2>3, <1>4
    <3> QED
      BY <3>1, <3>2
  <2> QED
    BY <2>2, <2>3, <1>1
<1>7. Waiting(more, wider, longer, rest)
  <2> SUFFICES ASSUME NEW id \in rest, gathered[id].parent \in wider
               PROVE  WaitsIn(more, PathOf(longer[gathered[id].parent]), id)
    BY DEF Waiting
  <2> DEFINE up == gathered[id].parent
  <2>1. CASE up = new
    <3>1. PICK i \in 1..Len(kids) : kids[i] = id
      BY <2>1 DEF IsLookup
    <3>2. more[n + 1].path = path /\ more[n + 1].rest = kids /\ n + 1 \in 1..Len(more)
      BY <1>1, <1>3, <1>4
    <3>3. PathOf(longer[up]) = path
      BY <2>1 DEF longer
    <3> HIDE DEF kids, up
    <3>4. WaitsIn(more, path, id)
      BY <3>1, <3>2 DEF WaitsIn
    <3> QED
      BY <3>3, <3>4 DEF up
  <2>2. CASE up # new
    <3> DEFINE there == PathOf(longer[up])
    <3>1. WaitsIn(o, there, id)
      BY <2>2, StillWaiting DEF OpenLists, longer
    <3> HIDE DEF there
    <3>2. PICK j \in 1..n : o[j].path = there /\ \E k \in 1..Len(o[j].rest) : o[j].rest[k] = id
      BY <3>1 DEF WaitsIn
    <3>3. j \in 1..Len(more) /\ more[j] = o[j]
      BY <1>1, <1>4
    <3>4. WaitsIn(more, there, id)
      BY <3>2, <3>3 DEF WaitsIn
    <3> QED
      BY <3>4 DEF there
  <2> QED
    BY <2>1, <2>2
<1> QED
  BY <1>5, <1>6, <1>7 DEF OpenLists, more, e, longer
-------------------------------------------------------------------------------
(* The listing of the records of the MFT.                                  *)
LookupInv ==
  /\ Gathered
  /\ IsLookup(children)
  /\ Root \in DOMAIN gathered \ Gone
  /\ left \subseteq DOMAIN gathered \ (Gone \cup {Root})

Emitted == DOMAIN gathered \ (left \cup Gone)

Progress(ids, chain, paths, o, rest) ==
  /\ Reached(ids, chain, paths)
  /\ OpenLists(o, ids, chain, rest)

OpenInTarget ==
  pc \in {"reading", "adding"} /\ open # <<>> => IsPrefix(Last(open).path, Target)

(* What the builder takes for granted: no name has a separator, and the    *)
(* folder that is walked through is the root.                              *)
Sound == WholeNames /\ ~misrooted

(* What is listed of these paths.                                          *)
Cuts(paths) == {Cut(q) : q \in paths} \ {<<>>}

ListingInv ==
  /\ LookupInv
  /\ \E chain, paths : Progress(Emitted, chain, paths, open, left) /\ Listed = Cuts(paths)

ListedInv ==
  /\ \E S : listing \in Seq(S)
  /\ listing # <<>> => listing[1].path = <<>>
  /\ NothingListedTwice

LEMMA SoundStays ==
  ASSUME UNCHANGED <<gathered, tree, misrooted>>
  PROVE  Sound' = Sound
BY DEF Sound, WholeNames

LEMMA ListingStays ==
  ASSUME ListedInv, UNCHANGED <<listing, gathered, tree, misrooted>>
  PROVE  ListedInv'
<1>1. NothingListedTwice'
  BY SoundStays DEF ListedInv, NothingListedTwice, Sound
<1> QED
  BY <1>1 DEF ListedInv

LEMMA NothingListed ==
  ASSUME listing' = <<>>
  PROVE  ListedInv'
BY DEF ListedInv, NothingListedTwice

LEMMA WholeCut ==
  ASSUME NEW p, \A i \in DOMAIN p : Whole(p[i])
  PROVE  Cut(p) = p
BY DEF Cut

(* Paths of whole names are listed as they are.                            *)
LEMMA WholePath ==
  ASSUME Sound, Gathered, NEW c \in Chains
  PROVE  Cut(PathOf(c)) = PathOf(c) /\ PathOf(c) # <<>>
<1>1. c \in Seq(DOMAIN gathered \ {Root}) /\ Len(c) \in 1..Total - 1
  BY ChainMeans
<1>2. c \in Seq(DOMAIN gathered) /\ \A i \in 1..Len(c) : c[i] \in DOMAIN gathered \ {Root}
  BY <1>1
<1>3. /\ PathOf(c) \in Seq(Segments) /\ Len(PathOf(c)) = Len(c)
      /\ \A i \in 1..Len(c) : PathOf(c)[i] = gathered[c[i]].name
  BY <1>2, PathOfType
<1>4. DOMAIN PathOf(c) = 1..Len(c) /\ Len(PathOf(c)) # 0
  <2>1. DOMAIN PathOf(c) = DOMAIN c
    BY DEF PathOf
  <2>2. DOMAIN c = 1..Len(c)
    <3>1. PICK S : c \in Seq(S)
      BY <1>1
    <3> QED
      BY <3>1
  <2>3. Len(c) # 0
    <3>1. PICK n \in 1..Total - 1 : n = Len(c)
      BY <1>1
    <3>2. Total \in Nat
      BY BackupAssumption
    <3>3. n # 0
      BY <3>2
    <3> QED
      BY <3>1, <3>3
  <2> QED
    BY <2>1, <2>2, <2>3, <1>3
<1>5. \A i \in DOMAIN PathOf(c) : Whole(PathOf(c)[i])
  BY <1>2, <1>3, <1>4 DEF Sound, WholeNames
<1>6. Cut(PathOf(c)) = PathOf(c)
  BY <1>5, WholeCut
<1>7. PathOf(c) # <<>>
  BY <1>4
<1> QED
  BY <1>6, <1>7

LEMMA CutsWhole ==
  ASSUME Sound, Gathered, NEW ids, NEW chain, NEW paths, Reached(ids, chain, paths)
  PROVE  Cuts(paths) = paths
<1>1. ASSUME NEW q \in paths PROVE Cut(q) = q /\ q # <<>>
  <2>1. PICK id \in ids \ {Root} : q = PathOf(chain[id])
    BY DEF Reached
  <2>2. chain[id] \in Chains
    BY <2>1 DEF Reached
  <2> QED
    BY <2>1, <2>2, WholePath
<1> QED
  BY <1>1 DEF Cuts

LEMMA CutsMore ==
  ASSUME NEW paths, NEW path
  PROVE  Cuts(paths \cup {path}) = IF Cut(path) = <<>> THEN Cuts(paths) ELSE Cuts(paths) \cup {Cut(path)}
BY DEF Cuts

(* What is listed once more. *)
LEMMA ListedMore ==
  ASSUME ListedInv, listing # <<>>, NEW r, listing' = Append(listing, r),
         UNCHANGED <<gathered, tree, misrooted>>
  PROVE  /\ Listed' = Listed \cup {r.path}
         /\ (Sound => r.path \notin Listed /\ r.path # <<>>) => ListedInv'
         /\ listing' # <<>>
<1> DEFINE n == Len(listing)
<1>1. PICK S : listing \in Seq(S)
  BY DEF ListedInv
<1> DEFINE T == S \cup {r}
<1>2. listing \in Seq(T) /\ r \in T
  BY <1>1
<1> HIDE DEF T
<1>3. /\ n \in Nat \ {0} /\ listing' \in Seq(T) /\ Len(listing') = n + 1
      /\ \A i \in 1..n : listing'[i] = listing[i]
      /\ listing'[n + 1] = r
      /\ DOMAIN listing = 1..n /\ DOMAIN listing' = 1..n + 1
      /\ listing' # <<>>
  <2>1. n \in Nat \ {0} /\ DOMAIN listing = 1..n
    BY <1>2
  <2>2. /\ Append(listing, r) \in Seq(T) /\ Len(Append(listing, r)) = n + 1
        /\ Append(listing, r) # <<>>
        /\ \A i \in 1..n : Append(listing, r)[i] = listing[i]
        /\ Append(listing, r)[n + 1] = r
    BY <1>2, Appended
  <2>3. DOMAIN listing' = 1..Len(listing')
    BY <2>2
  <2> QED
    BY <2>1, <2>2, <2>3
<1>4. Listed' = Listed \cup {r.path}
  <2>1. Listed' = {listing'[i].path : i \in 2..n + 1}
    BY <1>3 DEF Listed
  <2>2. Listed = {listing[i].path : i \in 2..n}
    BY DEF Listed
  <2>3. \A i \in 2..n : listing'[i].path = listing[i].path
    BY <1>3
  <2>4. listing'[n + 1].path = r.path
    BY <1>3
  <2>5. n + 1 \in 2..n + 1 /\ \A i \in 2..n + 1 : i = n + 1 \/ i \in 2..n
    BY <1>3
  <2>6. \A i \in 2..n : i \in 2..n + 1
    BY <1>3
  <2> HIDE DEF n
  <2> QED
    BY <2>1, <2>2, <2>3, <2>4, <2>5, <2>6
<1>5. ASSUME Sound => r.path \notin Listed /\ r.path # <<>> PROVE ListedInv'
  <2>1. Sound => \A i \in 1..n : listing[i].path # r.path
    <3> SUFFICES ASSUME Sound, NEW i \in 1..n, listing[i].path = r.path PROVE FALSE
      OBVIOUS
    <3>1. CASE i = 1
      BY <3>1, <1>5 DEF ListedInv
    <3>2. CASE i # 1
      <4>1. i \in 2..Len(listing)
        BY <3>2, <1>3
      <4> QED
        BY <4>1, <1>5 DEF Listed
    <3> QED
      BY <3>1, <3>2
  <2>2. listing'[1].path = <<>>
    BY <1>3 DEF ListedInv
  <2>3. NothingListedTwice'
    <3> SUFFICES ASSUME Sound, NEW i \in 1..n + 1, NEW j \in 1..n + 1,
                        listing'[i].path = listing'[j].path
                 PROVE  i = j
      BY <1>3, SoundStays DEF NothingListedTwice, Sound
    <3>1. \A k, m \in 1..n : listing[k].path = listing[m].path => k = m
      BY <1>3 DEF ListedInv, NothingListedTwice, Sound
    <3>2. CASE i \in 1..n /\ j \in 1..n
      BY <3>1, <3>2, <1>3
    <3>3. CASE i \in 1..n /\ j = n + 1
      <4>1. listing'[i].path = listing[i].path /\ listing'[j].path = r.path
        BY <3>3, <1>3
      <4> QED
        BY <4>1, <3>3, <2>1
    <3>4. CASE i = n + 1 /\ j \in 1..n
      <4>1. listing'[j].path = listing[j].path /\ listing'[i].path = r.path
        BY <3>4, <1>3
      <4> QED
        BY <4>1, <3>4, <2>1
    <3> QED
      BY <3>2, <3>3, <3>4, <1>3
  <2> QED
    BY <1>3, <2>2, <2>3 DEF ListedInv
<1> QED
  BY <1>3, <1>4, <1>5

(* The entries and who is whose child do not change in the listing.        *)
LEMMA SameRecords ==
  ASSUME UNCHANGED <<gathered, children>>
  PROVE  /\ Gone' = Gone /\ Chains' = Chains
         /\ \A c : PathOf(c)' = PathOf(c)
         /\ Gathered => Gathered'
         /\ IsLookup(children) => IsLookup(children)'
<1>1. \A s : Removed(s)' = Removed(s)
  BY DEF Removed
<1>2. Gone' = Gone
  BY <1>1 DEF Gone, Removed
<1>3. Chains' = Chains
  BY DEF Chains
<1>4. \A c : PathOf(c)' = PathOf(c)
  BY DEF PathOf
<1>5. Gathered => Gathered'
  BY DEF Gathered
<1>6. IsLookup(children) => IsLookup(children)'
  BY DEF IsLookup
<1> QED
  BY <1>2, <1>3, <1>4, <1>5, <1>6

LEMMA SameReached ==
  ASSUME UNCHANGED <<gathered, children>>, NEW ids, NEW chain, NEW paths,
         Reached(ids, chain, paths)
  PROVE  Reached(ids, chain, paths)'
<1>1. /\ Gone' = Gone /\ Chains' = Chains
      /\ \A c : PathOf(c)' = PathOf(c)
  BY SameRecords
<1> QED
  BY <1>1 DEF Reached

LEMMA SameOpenLists ==
  ASSUME UNCHANGED <<gathered, children>>, NEW o, NEW ids, NEW chain, NEW rest,
         OpenLists(o, ids, chain, rest)
  PROVE  OpenLists(o, ids, chain, rest)'
<1>1. \A c : PathOf(c)' = PathOf(c)
  BY SameRecords
<1>2. OpenType(o)'
  BY DEF OpenLists, OpenType
<1>3. Owned(o, ids, chain)'
  BY <1>1 DEF OpenLists, Owned
<1>4. Waiting(o, ids, chain, rest)'
  BY <1>1 DEF OpenLists, Waiting, WaitsIn
<1> QED
  BY <1>2, <1>3, <1>4 DEF OpenLists

LEMMA SameProgress ==
  ASSUME UNCHANGED <<gathered, children>>, NEW o, NEW ids, NEW chain, NEW paths, NEW rest,
         Progress(ids, chain, paths, o, rest)
  PROVE  Progress(ids, chain, paths, o, rest)'
BY SameReached, SameOpenLists DEF Progress

(* Into the next state: what holds of the values that the variables get.   *)
LEMMA NextProgress ==
  ASSUME UNCHANGED <<gathered, children>>, LookupInv, NEW chain, NEW paths,
         Progress(DOMAIN gathered \ (left' \cup Gone), chain, paths, open', left'),
         Listed' = Cuts(paths), left' \subseteq left
  PROVE  ListingInv'
<1>1. PICK ids, o, rest :
        /\ ids = DOMAIN gathered \ (left' \cup Gone)
        /\ o = open' /\ rest = left'
  OBVIOUS
<1>2. Progress(ids, chain, paths, o, rest)
  BY <1>1
<1>3. Progress(ids, chain, paths, o, rest)'
  BY <1>2, SameProgress
<1>4. /\ Gone' = Gone
      /\ Gathered => Gathered'
      /\ IsLookup(children) => IsLookup(children)'
  BY SameRecords
<1>5. ids = Emitted'
  BY <1>1, <1>4 DEF Emitted
<1>6. Progress(Emitted, chain, paths, open, left)'
  BY <1>1, <1>3, <1>5
<1>7. LookupInv'
  BY <1>4 DEF LookupInv
<1>8. (\E any, some : Progress(Emitted, any, some, open, left) /\ Listed = Cuts(some))'
  BY <1>6
<1> QED
  BY <1>7, <1>8 DEF ListingInv

LEMMA LeaveOpenStep ==
  ASSUME ListingInv, LeaveOpen
  PROVE  ListingInv' /\ (BuilderInv /\ OpenInTarget => OpenInTarget')
<1>1. /\ open # <<>> /\ Last(open).rest = <<>> /\ open' = Front(open) /\ pc = "reading"
      /\ UNCHANGED <<gathered, children, left, listing, parents, pc, item>>
  BY DEF LeaveOpen, Rounds, indexVars
<1>2. LookupInv
  BY DEF ListingInv
<1>3. PICK chain, paths : Progress(Emitted, chain, paths, open, left) /\ Listed = Cuts(paths)
  BY DEF ListingInv
<1>4. OpenLists(Front(open), Emitted, chain, left)
  BY <1>1, <1>3, LeaveFolder DEF Progress
<1>5. /\ Progress(DOMAIN gathered \ (left' \cup Gone), chain, paths, open', left')
      /\ Listed' = Cuts(paths)
  <2>1. Listed' = Listed /\ DOMAIN gathered \ (left' \cup Gone) = Emitted
    BY <1>1 DEF Listed, Emitted
  <2> QED
    BY <1>1, <1>3, <1>4, <2>1 DEF Progress
<1>6. ASSUME BuilderInv, OpenInTarget PROVE OpenInTarget'
  <2>1. OpenType(open)
    BY <1>3 DEF Progress, OpenLists
  <2>2. Target' = Target
    BY <1>1 DEF Target, OpenPath
  <2> SUFFICES ASSUME open' # <<>> PROVE IsPrefix(Last(open').path, Target)
    BY <2>2 DEF OpenInTarget
  <2> DEFINE n == Len(open)
             S == [path : Seq(Segments), rest : Seq(DOMAIN gathered)]
  <2>3. open \in Seq(S) /\ n \in Nat \ {0}
    BY <1>1, <2>1, OpenLength DEF OpenType
  <2> HIDE DEF S
  <2>4. Front(open) \in Seq(S) /\ Len(Front(open)) = n - 1 /\ Last(open) = open[n]
        /\ \A i \in 1..n - 1 : Front(open)[i] = open[i]
    BY <1>1, <2>3, FrontLast
  <2>5. n - 1 \in 1..n - 1 /\ n - 1 \in 1..n /\ n \in 1..n /\ n - 1 <= n
    <3>1. Len(open') # 0
      BY <1>1, <2>4
    <3> QED
      BY <3>1, <1>1, <2>3, <2>4
  <2>6. Last(open') = open[n - 1]
    BY <1>1, <2>4, <2>5 DEF Last
  <2>7. IsPrefix(open[n - 1].path, open[n].path)
    BY <2>1, <2>5 DEF OpenType
  <2>8. IsPrefix(open[n].path, Target)
    BY <1>1, <1>6, <2>4 DEF OpenInTarget
  <2>9. open[n - 1].path \in Seq(Segments) /\ open[n].path \in Seq(Segments) /\ Target \in Seq(Segments)
    BY <1>6, <2>1, <2>5, OpenAt, TargetType
  <2> QED
    BY <2>6, <2>7, <2>8, <2>9, PrefixOrder
<1> QED
  BY <1>1, <1>2, <1>5, <1>6, NextProgress

LEMMA LastOfDropped ==
  ASSUME NEW o, OpenType(o), o # <<>>, Last(o).rest # <<>>
  PROVE  Last(Dropped(o)).path = Last(o).path /\ Dropped(o) # <<>>
<1>1. /\ Len(o) \in Nat \ {0} /\ Len(Dropped(o)) = Len(o) /\ OpenType(Dropped(o))
      /\ \A j \in 1..Len(o) : Dropped(o)[j].path = o[j].path
  BY DroppedMeans
<1>2. Dropped(o) # <<>>
  BY <1>1, OpenLength
<1> QED
  BY <1>1, <1>2 DEF Last

LEMMA SkipRemovedStep ==
  ASSUME ListingInv, SkipRemoved
  PROVE  ListingInv' /\ (OpenInTarget => OpenInTarget')
<1>1. /\ open # <<>> /\ Last(open).rest # <<>> /\ open' = Dropped(open) /\ pc = "reading"
      /\ Head(Last(open).rest) \notin left
      /\ UNCHANGED <<gathered, children, left, listing, parents, pc, item>>
  BY DEF SkipRemoved, Rounds, indexVars, AfterFirst, Dropped
<1>2. LookupInv
  BY DEF ListingInv
<1>3. PICK chain, paths : Progress(Emitted, chain, paths, open, left) /\ Listed = Cuts(paths)
  BY DEF ListingInv
<1>4. OpenLists(Dropped(open), Emitted, chain, left \ {Head(Last(open).rest)})
  BY <1>1, <1>3, DropFirst DEF Progress
<1>5. left \ {Head(Last(open).rest)} = left
  BY <1>1
<1>6. /\ Progress(DOMAIN gathered \ (left' \cup Gone), chain, paths, open', left')
      /\ Listed' = Cuts(paths)
  <2>1. Listed' = Listed /\ DOMAIN gathered \ (left' \cup Gone) = Emitted
    BY <1>1 DEF Listed, Emitted
  <2> QED
    BY <1>1, <1>3, <1>4, <1>5, <2>1 DEF Progress
<1>7. ASSUME OpenInTarget PROVE OpenInTarget'
  <2>1. Last(open').path = Last(open).path
    BY <1>1, <1>3, LastOfDropped DEF Progress, OpenLists
  <2>2. Target' = Target
    BY <1>1 DEF Target, OpenPath
  <2> QED
    BY <1>1, <1>7, <2>1, <2>2 DEF OpenInTarget
<1> QED
  BY <1>1, <1>2, <1>6, <1>7, NextProgress

(* The record that the iterator gives next: its entry is a child of one    *)
(* that was listed, and its path continues that of the innermost folder.   *)
LEMMA NextRecord ==
  ASSUME LookupInv, NEW chain, NEW paths, Progress(Emitted, chain, paths, open, left),
         NEW id, open # <<>>, Last(open).rest # <<>>, id = Head(Last(open).rest)
  PROVE  /\ id \in DOMAIN gathered
         /\ gathered[id].parent \in Emitted
         /\ Last(open).path = PathOf(chain[gathered[id].parent])
         /\ Last(open).path \in Seq(Segments)
<1> DEFINE n == Len(open)
<1>1. OpenType(open) /\ Owned(open, Emitted, chain)
  BY DEF Progress, OpenLists
<1>2. /\ n \in Nat \ {0} /\ open[n].rest \in Seq(DOMAIN gathered) /\ open[n].rest # <<>>
      /\ id = open[n].rest[1]
  BY <1>1, DroppedMeans
<1>3. n \in 1..n /\ Last(open) = open[n]
  BY <1>2 DEF Last
<1>4. PICK par \in Emitted :
        /\ open[n].path = PathOf(chain[par])
        /\ \A k \in 1..Len(open[n].rest) : gathered[open[n].rest[k]].parent = par
  BY <1>1, <1>3 DEF Owned
<1> DEFINE s == open[n].rest
<1>5. 1 \in 1..Len(s) /\ s[1] \in DOMAIN gathered
  <2>1. s \in Seq(DOMAIN gathered) /\ s # <<>>
    BY <1>2
  <2> HIDE DEF s
  <2> QED
    BY <2>1
<1>6. id \in DOMAIN gathered /\ gathered[id].parent = par
  BY <1>2, <1>4, <1>5
<1>7. open[n].path \in Seq(Segments)
  BY <1>1, <1>3, OpenAt
<1> QED
  BY <1>3, <1>4, <1>6, <1>7

(* What the iterator makes of it: one more entry was reached, at a path    *)
(* that none has.                                                          *)
LEMMA ListChildProgress ==
  ASSUME LookupInv, NEW chain, NEW paths, Progress(Emitted, chain, paths, open, left),
         open # <<>>, Last(open).rest # <<>>,
         NEW id \in left, id = Head(Last(open).rest),
         NEW path, path = Append(Last(open).path, gathered[id].name),
         left' = left \ {id},
         open' = IF children[id] = <<>> THEN Dropped(open)
                 ELSE Append(Dropped(open), [path |-> path, rest |-> children[id]])
  PROVE  /\ \E more : Progress(DOMAIN gathered \ (left' \cup Gone), more, paths \cup {path},
                               open', left')
         /\ path \notin paths /\ path \in Seq(Segments) /\ path # <<>>
         /\ Front(path) = Last(open).path
         /\ id \in DOMAIN gathered \ {Root}
         /\ gathered[id].name \in Names /\ gathered[id].isDir \in BOOLEAN
         /\ Last(open').path = IF children[id] = <<>> THEN Front(path) ELSE path
<1> DEFINE name == gathered[id].name
           par == gathered[id].parent
<1>1. /\ Gathered /\ IsLookup(children)
      /\ left \subseteq DOMAIN gathered \ (Gone \cup {Root})
  BY DEF LookupInv
<1>2. /\ Reached(Emitted, chain, paths) /\ OpenLists(open, Emitted, chain, left)
      /\ OpenType(open)
  BY DEF Progress, OpenLists
<1>3. /\ id \in DOMAIN gathered /\ par \in Emitted
      /\ Last(open).path = PathOf(chain[par]) /\ Last(open).path \in Seq(Segments)
  BY NextRecord
<1>4. /\ id \in DOMAIN gathered \ (Emitted \cup Gone) /\ id \in Numbers /\ id # Root
      /\ name \in Segments /\ name \in Names /\ gathered[id].isDir \in BOOLEAN
  <2>1. id \in Numbers
    BY <1>1, <1>3 DEF Gathered
  <2>2. id \in DOMAIN gathered \ (Emitted \cup Gone) /\ id # Root
    BY <1>1 DEF Emitted
  <2>3. gathered[id] \in EntriesOf(id)
    BY <1>1, <1>3 DEF Gathered
  <2>4. name \in Names /\ gathered[id].isDir \in BOOLEAN
    BY <2>2, <2>3 DEF EntriesOf
  <2> QED
    BY <2>1, <2>2, <2>4 DEF Segments
<1>5. path \in Seq(Segments) /\ path # <<>> /\ Front(path) = Last(open).path
  <2>1. PICK base, n : base = Last(open).path /\ n = name
    OBVIOUS
  <2>2. base \in Seq(Segments) /\ n \in Segments /\ path = Append(base, n)
    BY <2>1, <1>3, <1>4
  <2>3. path \in Seq(Segments) /\ path # <<>> /\ Front(path) = base
    BY <2>2, Appended
  <2> QED
    BY <2>1, <2>3
<1>6. gathered[id].parent \in Emitted /\ gathered[id].parent = par /\ gathered[id].name = name
  BY <1>3
<1>7. path = Append(PathOf(chain[gathered[id].parent]), gathered[id].name)
  BY <1>3
<1> HIDE DEF name, par
<1>8. path \notin paths
  <2>1. \A b \in Emitted : PathOf(chain[b]) # path
    <3>1. \A b \in Emitted :
            PathOf(chain[b]) # Append(PathOf(chain[gathered[id].parent]), gathered[id].name)
      BY <1>1, <1>2, <1>4, <1>6, NewPath
    <3> QED
      BY <3>1, <1>7
  <2>2. paths = {PathOf(chain[b]) : b \in Emitted \ {Root}}
    BY <1>2 DEF Reached
  <2> QED
    BY <2>1, <2>2
<1> DEFINE longer == Lengthened(Emitted, chain, id)
           wider == Emitted \cup {id}
<1>9. Reached(wider, longer, paths \cup {path})
  <2>1. Reached(Emitted \cup {id}, Lengthened(Emitted, chain, id),
          paths \cup {Append(PathOf(chain[gathered[id].parent]), gathered[id].name)})
    BY <1>1, <1>2, <1>4, <1>6, ReachedNext
  <2> QED
    BY <2>1, <1>7
<1>10. path = PathOf(longer[id])
  <2>1. longer[id] = Append(chain[gathered[id].parent], id)
    BY DEF Lengthened
  <2>2. chain[gathered[id].parent] \in Seq(DOMAIN gathered)
    BY <1>2, <1>6 DEF Reached
  <2> HIDE DEF longer
  <2> QED
    BY <2>1, <2>2, <1>1, <1>4, <1>7, PathOfAppend
<1> DEFINE o == Dropped(open)
<1>11. OpenLists(o, Emitted, chain, left') /\ left' \subseteq DOMAIN gathered
  <2>1. OpenLists(o, Emitted, chain, left \ {id})
    BY <1>2, DropFirst
  <2> QED
    BY <2>1, <1>1
<1>12. /\ OpenType(o) /\ o # <<>> /\ Last(o).path = Last(open).path
       /\ \A i, j \in 1..Len(o) : i <= j => IsPrefix(o[i].path, o[j].path)
  BY <1>2, DroppedMeans, LastOfDropped DEF OpenType
<1>13. open' = IF children[id] = <<>> THEN o ELSE Append(o, [path |-> path, rest |-> children[id]])
  OBVIOUS
<1> HIDE DEF o, longer
<1>14. Len(o) \in Nat \ {0} /\ Last(o) = o[Len(o)]
  BY <1>12, OpenLength DEF Last
<1>15. /\ OpenLists(open', wider, longer, left')
       /\ Last(open').path = IF children[id] = <<>> THEN Front(path) ELSE path
  <2>1. CASE children[id] = <<>>
    <3>1. open' = o
      BY <2>1, <1>13
    <3>2. OpenLists(o, wider, longer, left')
      BY <2>1, <1>1, <1>4, <1>11, NothingWaits DEF longer
    <3> QED
      BY <2>1, <3>1, <3>2, <1>5, <1>12
  <2>2. CASE children[id] # <<>>
    <3> DEFINE e == [path |-> path, rest |-> children[id]]
    <3>1. open' = Append(o, e)
      BY <2>2, <1>13
    <3>2. \A i \in 1..Len(o) : IsPrefix(o[i].path, path)
      <4> SUFFICES ASSUME NEW i \in 1..Len(o) PROVE IsPrefix(o[i].path, path)
        OBVIOUS
      <4>1. IsPrefix(o[i].path, Front(path))
        <5>1. Len(o) \in 1..Len(o) /\ i <= Len(o)
          BY <1>14
        <5> QED
          BY <5>1, <1>5, <1>12, <1>14
      <4>2. o[i].path \in Seq(Segments)
        BY <1>12, OpenAt
      <4> QED
        BY <4>1, <4>2, <1>5, PrefixOfFront
    <3>3. OpenLists(Append(o, [path |-> path, rest |-> children[id]]), wider, longer, left')
      BY <1>1, <1>4, <1>5, <1>10, <1>11, <3>2, EnterFolder DEF longer
    <3>4. Last(open').path = path
      <4>1. e.path = path
        OBVIOUS
      <4>2. o \in Seq([path : Seq(Segments), rest : Seq(DOMAIN gathered)])
        BY <1>12 DEF OpenType
      <4> DEFINE A == [path : Seq(Segments), rest : Seq(DOMAIN gathered)]
                 S == A \cup {e}
      <4> HIDE DEF A, e
      <4>3. o \in Seq(A)
        BY <4>2 DEF A
      <4>5. o \in Seq(S) /\ e \in S
        BY <4>3
      <4> HIDE DEF S
      <4>4. Last(Append(o, e)) = e
        BY <4>5, Appended
      <4> QED
        BY <3>1, <4>1, <4>4
    <3> QED
      BY <2>2, <3>1, <3>3, <3>4
  <2> QED
    BY <2>1, <2>2
<1>16. wider = DOMAIN gathered \ (left' \cup Gone)
  BY <1>1, <1>4 DEF Emitted
<1>17. Progress(DOMAIN gathered \ (left' \cup Gone), longer, paths \cup {path}, open', left')
  BY <1>9, <1>15, <1>16 DEF Progress
<1>18. gathered[id].name \in Names
  BY <1>4 DEF name
<1> QED
  BY <1>4, <1>5, <1>8, <1>15, <1>17, <1>18

(* Names without separators: the builder takes the record.                 *)
LEMMA SoundChildStep ==
  ASSUME BuilderInv, OpenInTarget, pc = "reading", open # <<>>,
         NEW path \in Seq(Segments), path # <<>>, Front(path) = Last(open).path,
         NEW isDir \in BOOLEAN, NEW inner \in BOOLEAN, inner => isDir,
         Last(open').path = IF ~inner THEN Front(path) ELSE path,
         Hand(RecordOf(path, isDir)) \/ HandWrong(RecordOf(path, isDir))
  PROVE  /\ BuilderInv' /\ OpenInTarget' /\ pc' = "adding" /\ UNCHANGED <<phase, result>>
         /\ listing' = Append(listing, RecordOf(path, isDir))
<1>1. IsPrefix(Last(open).path, Target)
  BY DEF OpenInTarget
<1>2. ~HandWrong(RecordOf(path, isDir))
  BY <1>1, RefuseStep DEF HandWrong
<1>3. RecordOf(path, isDir).path = path
  BY DEF RecordOf
<1>4. Take(RecordOf(path, isDir)) /\ UNCHANGED <<phase, result>>
  BY <1>2, <1>3 DEF Hand
<1>5. /\ BuilderInv' /\ pc' = "adding"
      /\ Target' = IF isDir THEN path ELSE Front(path)
      /\ listing' = Append(listing, RecordOf(path, isDir))
  BY <1>4, TakeStep
<1>6. Front(path) \in Seq(Segments)
  BY FrontLast
<1>7. /\ IsPrefix(Front(path), Front(path)) /\ IsPrefix(path, path)
      /\ IsPrefix(Front(path), path)
  BY <1>6, PrefixOrder, PrefixOfFront
<1>8. IsPrefix(Last(open').path, Target')
  BY <1>5, <1>7
<1> QED
  BY <1>4, <1>5, <1>8 DEF OpenInTarget

LEMMA HandedOver ==
  ASSUME ListedInv, listing # <<>>, UNCHANGED <<gathered, tree, misrooted>>,
         NEW path, NEW isDir, Hand(RecordOf(path, isDir)),
         Sound => path \notin Listed /\ path # <<>>, pc = "reading"
  PROVE  /\ Listed' = IF path = <<>> THEN Listed ELSE Listed \cup {path}
         /\ ListedInv' /\ listing' # <<>>
         /\ pc' \in {"reading", "adding"} /\ UNCHANGED <<phase, result>>
<1>1. RecordOf(path, isDir).path = path
  BY DEF RecordOf
<1>2. CASE path = <<>>
  <2>1. UNCHANGED <<listing, pc, phase, result>>
    BY <1>1, <1>2 DEF Hand, indexVars
  <2> QED
    BY <1>2, <2>1, ListingStays DEF Listed
<1>3. CASE path # <<>>
  <2>1. Take(RecordOf(path, isDir)) /\ UNCHANGED <<phase, result>>
    BY <1>1, <1>3 DEF Hand
  <2>2. listing' = Append(listing, RecordOf(path, isDir)) /\ pc' = "adding"
    BY <2>1 DEF Take
  <2> QED
    BY <1>1, <1>3, <2>1, <2>2, ListedMore
<1> QED
  BY <1>2, <1>3

LEMMA ListChildStep ==
  ASSUME ListingInv, ListedInv, listing # <<>>, Sound => BuilderInv /\ OpenInTarget, ListChild
  PROVE  /\ Sound' = Sound
         /\ \/ /\ ListingInv' /\ ListedInv' /\ listing' # <<>>
               /\ Sound => BuilderInv' /\ OpenInTarget'
               /\ pc' \in {"reading", "adding"} /\ UNCHANGED <<phase, result>>
            \/ ~Sound /\ UNCHANGED listing /\ End("not in open folder")
<1> DEFINE id == Head(Last(open).rest)
           name == gathered[id].name
           path == Append(Last(open).path, name)
           isDir == IsFolder(id) \/ Closed(name)
           r == RecordOf(Cut(path), isDir)
<1>1. /\ open # <<>> /\ Last(open).rest # <<>> /\ id \in left /\ left' = left \ {id}
      /\ pc = "reading"
      /\ open' = IF children[id] = <<>> THEN Dropped(open)
                 ELSE Append(Dropped(open), [path |-> path, rest |-> children[id]])
      /\ Hand(r) \/ HandWrong(r)
      /\ UNCHANGED <<gathered, children, tree, misrooted>>
  BY DEF ListChild, Rounds, AfterFirst, Dropped, walkVars
<1>2. LookupInv /\ Gathered
  BY DEF ListingInv, LookupInv
<1>3. PICK chain, paths : Progress(Emitted, chain, paths, open, left) /\ Listed = Cuts(paths)
  BY DEF ListingInv
<1>4. /\ \E more : Progress(DOMAIN gathered \ (left' \cup Gone), more, paths \cup {path},
                            open', left')
      /\ path \notin paths /\ path \in Seq(Segments) /\ path # <<>>
      /\ Front(path) = Last(open).path
      /\ id \in DOMAIN gathered \ {Root}
      /\ name \in Names /\ gathered[id].isDir \in BOOLEAN
      /\ Last(open').path = IF children[id] = <<>> THEN Front(path) ELSE path
  BY <1>1, <1>2, <1>3, ListChildProgress
<1>5. PICK more : Progress(DOMAIN gathered \ (left' \cup Gone), more, paths \cup {path},
                           open', left')
  BY <1>4
<1>6. isDir \in BOOLEAN /\ (children[id] # <<>> => isDir)
  BY <1>4 DEF IsFolder
<1>7. left' \subseteq left
  BY <1>1
<1> HIDE DEF id, path
<1>8. ASSUME Listed' = IF Cut(path) = <<>> THEN Listed ELSE Listed \cup {Cut(path)}
      PROVE  ListingInv'
  <2>1. Listed' = Cuts(paths \cup {path})
    BY <1>3, <1>8, CutsMore
  <2> QED
    BY <1>1, <1>2, <1>5, <1>7, <2>1, NextProgress
<1>9. Sound' = Sound
  BY <1>1, SoundStays
<1>10. ASSUME Sound PROVE Cut(path) = path /\ path \notin Listed
  <2>1. Reached(DOMAIN gathered \ (left' \cup Gone), more, paths \cup {path})
    BY <1>5 DEF Progress
  <2>2. Cuts(paths \cup {path}) = paths \cup {path}
    BY <1>2, <1>10, <2>1, CutsWhole
  <2>3. Reached(Emitted, chain, paths)
    BY <1>3 DEF Progress
  <2>4. Cuts(paths) = paths
    BY <1>2, <1>10, <2>3, CutsWhole
  <2>5. path \notin Listed /\ path \in Cuts(paths \cup {path}) /\ path \notin Cuts(paths)
    BY <1>3, <1>4, <2>2, <2>4
  <2>6. Cuts(paths \cup {path}) = IF Cut(path) = <<>> THEN Cuts(paths)
                                  ELSE Cuts(paths) \cup {Cut(path)}
    BY CutsMore
  <2> QED
    BY <2>5, <2>6
<1>11. CASE Sound
  <2>1. Hand(RecordOf(path, isDir)) \/ HandWrong(RecordOf(path, isDir))
    BY <1>1, <1>10, <1>11
  <2> HIDE DEF isDir
  <2>2. Last(open').path = IF ~(children[id] # <<>>) THEN Front(path) ELSE path
    BY <1>4
  <2>3. /\ BuilderInv' /\ OpenInTarget' /\ pc' = "adding" /\ UNCHANGED <<phase, result>>
        /\ listing' = Append(listing, RecordOf(path, isDir))
    BY <1>1, <1>4, <1>6, <1>11, <2>1, <2>2, SoundChildStep
  <2>4. RecordOf(path, isDir).path = path
    BY DEF RecordOf
  <2>5. Listed' = Listed \cup {path} /\ ListedInv' /\ listing' # <<>>
    BY <1>1, <1>4, <1>10, <1>11, <2>3, <2>4, ListedMore
  <2>6. ListingInv'
    BY <1>4, <1>8, <1>10, <1>11, <2>5
  <2> QED
    BY <1>9, <2>3, <2>5, <2>6
<1>12. CASE ~Sound
  <2>1. CASE Hand(r)
    <3>1. Hand(RecordOf(Cut(path), isDir))
      BY <2>1
    <3> HIDE DEF isDir
    <3>2. /\ Listed' = IF Cut(path) = <<>> THEN Listed ELSE Listed \cup {Cut(path)}
          /\ ListedInv' /\ listing' # <<>>
          /\ pc' \in {"reading", "adding"} /\ UNCHANGED <<phase, result>>
      BY <1>1, <1>12, <3>1, HandedOver
    <3> QED
      BY <1>8, <1>9, <1>12, <3>2
  <2>2. CASE HandWrong(r)
    BY <2>2, <1>9, <1>12 DEF HandWrong, Refuse
  <2> QED
    BY <1>1, <2>1, <2>2
<1> QED
  BY <1>11, <1>12

(* When the folders are all left, all that there is was listed.            *)
LEMMA ListingComplete ==
  ASSUME ListingInv, open = <<>>
  PROVE  Complete
<1>1. PICK chain, paths : Progress(Emitted, chain, paths, open, left) /\ Listed = Cuts(paths)
  BY DEF ListingInv
<1>2. /\ Gathered /\ IsLookup(children) /\ Reached(Emitted, chain, paths)
      /\ Waiting(open, Emitted, chain, left)
  BY <1>1 DEF ListingInv, LookupInv, Progress, OpenLists
<1>3. \A id \in DOMAIN gathered : gathered[id].parent \in Emitted => id \in Emitted \cup Gone
  <2> SUFFICES ASSUME NEW id \in DOMAIN gathered, gathered[id].parent \in Emitted, id \in left
               PROVE  FALSE
    BY DEF Emitted
  <2> DEFINE path == PathOf(chain[gathered[id].parent])
  <2>1. WaitsIn(open, path, id)
    BY <1>2 DEF Waiting
  <2> HIDE DEF path
  <2>2. \E j \in 1..Len(open) : open[j].path = path
    BY <2>1 DEF WaitsIn
  <2>3. Len(open) = 0
    OBVIOUS
  <2> QED
    BY <2>2, <2>3
<1>4. /\ paths \subseteq {PathOf(c) : c \in Chains}
      /\ \A c \in Chains :
           PathOf(c) \in paths \/ \E i \in 1..Len(c) - 1 : HasNamesake(c[i])
  BY <1>2, <1>3, AllReached
<1>5. children # <<>>
  <2>1. DOMAIN children = Numbers /\ Root \in Numbers
    BY <1>2, BackupAssumption DEF IsLookup
  <2>2. children = <<>> => DOMAIN children = {}
    OBVIOUS
  <2> QED
    BY <2>1, <2>2
<1>6. Listed \subseteq {Cut(PathOf(c)) : c \in Chains}
  BY <1>1, <1>4 DEF Cuts
<1>7. \A c \in Chains :
        \/ Cut(PathOf(c)) \in Listed \cup {<<>>}
        \/ \E i \in 1..Len(c) - 1 : HasNamesake(c[i])
  BY <1>1, <1>4 DEF Cuts
<1> QED
  BY <1>5, <1>6, <1>7 DEF Complete

(* The index when it was created.                                          *)
IndexOpened ==
  /\ listing = <<RecordOf(<<>>, TRUE)>>
  /\ parents = <<RootFolder(options, RecordOf(<<>>, TRUE))>>
  /\ pc = "reading"

LEMMA OpenedIndex ==
  IndexOpened => /\ BuilderInv /\ ListedInv /\ listing # <<>>
                 /\ Listed = {} /\ Target = <<>>
<1> SUFFICES ASSUME IndexOpened
             PROVE  /\ BuilderInv /\ ListedInv /\ listing # <<>>
                    /\ Listed = {} /\ Target = <<>>
  OBVIOUS
<1> DEFINE r == RecordOf(<<>>, TRUE)
           f == RootFolder(options, r)
<1>1. listing = <<r>> /\ parents = <<f>> /\ pc = "reading"
  BY DEF IndexOpened
<1>2. "name" \in DOMAIN f /\ f.name = "root" /\ r.path = <<>>
  BY DEF RootFolder, RecordOf
<1> HIDE DEF r, f
<1>3. /\ listing \in Seq({r}) /\ Len(listing) = 1 /\ listing[1] = r
      /\ parents \in Seq({f}) /\ Len(parents) = 1 /\ parents[1] = f
      /\ DOMAIN listing = 1..1
  BY <1>1
<1>4. Named(parents)
  <2>1. \E S : parents \in Seq(S)
    BY <1>3
  <2>2. \A i \in 1..Len(parents) : "name" \in DOMAIN parents[i] /\ parents[i].name \in Segments
    BY <1>2, <1>3 DEF Segments
  <2> QED
    BY <2>1, <2>2 DEF Named
<1>5. BuilderInv
  BY <1>1, <1>3, <1>4 DEF BuilderInv
<1>6. ListedInv
  <2>1. \E S : listing \in Seq(S)
    BY <1>3
  <2>2. NothingListedTwice
    BY <1>3 DEF NothingListedTwice
  <2> QED
    BY <2>1, <2>2, <1>2, <1>3 DEF ListedInv
<1>7. Listed = {}
  BY <1>3 DEF Listed
<1>8. Target = <<>>
  <2>1. OpenPath = <<>>
    BY <1>3 DEF OpenPath
  <2> QED
    BY <2>1, <1>1 DEF Target
<1> QED
  BY <1>3, <1>5, <1>6, <1>7, <1>8

ListingStarts ==
  /\ IndexOpened
  /\ Gathered /\ IsLookup(children)
  /\ Root \in DOMAIN gathered \ Gone
  /\ left = DOMAIN gathered \ (Gone \cup {Root})
  /\ open = <<[path |-> <<>>, rest |-> children[Root]]>>

LEMMA ListingStartsWell ==
  ListingStarts => ListingInv /\ OpenInTarget
<1> SUFFICES ASSUME ListingStarts PROVE ListingInv /\ OpenInTarget
  OBVIOUS
<1>1. Listed = {} /\ Target = <<>>
  BY OpenedIndex DEF ListingStarts
<1>2. /\ Gathered /\ IsLookup(children) /\ Root \in DOMAIN gathered \ Gone /\ Root \in Numbers
      /\ left = DOMAIN gathered \ (Gone \cup {Root})
  BY BackupAssumption DEF ListingStarts
<1>3. LookupInv /\ Emitted = {Root}
  BY <1>2 DEF LookupInv, Emitted
<1> DEFINE none == <<>>
           kids == children[Root]
           e == [path |-> none, rest |-> kids]
           chain == [id \in {Root} |-> none]
<1>4. /\ none \in Seq(Segments) /\ none \in Seq(DOMAIN gathered) /\ Len(none) = 0
      /\ kids \in Seq(DOMAIN gathered)
      /\ PathOf(none) = none
      /\ IsPrefix(none, none)
  <2>1. none \in Seq(Segments) /\ none \in Seq(DOMAIN gathered) /\ Len(none) = 0
    OBVIOUS
  <2>2. PathOf(none) = none
    <3>1. PathOf(none) \in Seq(Segments) /\ Len(PathOf(none)) = 0
      BY <1>2, <2>1, PathOfType
    <3> QED
      BY <3>1
  <2>3. IsPrefix(none, none)
    BY <2>1, PrefixOrder
  <2> QED
    BY <1>2, <2>1, <2>2, <2>3 DEF IsLookup
<1>5. open = <<e>>
  BY DEF ListingStarts
<1> HIDE DEF none, kids
<1>6. /\ open \in Seq([path : Seq(Segments), rest : Seq(DOMAIN gathered)])
      /\ Len(open) = 1 /\ open[1] = e /\ e.path = none /\ e.rest = kids
      /\ Last(open) = e
  <2> DEFINE P == Seq(Segments)
             R == Seq(DOMAIN gathered)
             S == [path : P, rest : R]
  <2>1. none \in P /\ kids \in R
    BY <1>4
  <2> HIDE DEF P, R
  <2>2. e \in S /\ e.path = none /\ e.rest = kids
    BY <2>1
  <2> HIDE DEF e, S
  <2>3. open \in Seq(S) /\ Len(open) = 1 /\ open[1] = e
    BY <2>2, <1>5
  <2> QED
    BY <2>2, <2>3 DEF S, P, R, Last
<1> HIDE DEF e
<1>7. OpenType(open)
  BY <1>4, <1>6 DEF OpenType
<1>8. chain[Root] = none /\ DOMAIN chain = {Root}
  OBVIOUS
<1>9. chain \in [{Root} -> Seq(DOMAIN gathered)]
  BY <1>4
<1> HIDE DEF chain
<1>10. Owned(open, {Root}, chain)
  <2>1. \A k \in 1..Len(kids) : gathered[kids[k]].parent = Root
    BY <1>2 DEF IsLookup, kids
  <2> QED
    BY <2>1, <1>4, <1>6, <1>8 DEF Owned
<1>11. Waiting(open, {Root}, chain, left)
  <2> SUFFICES ASSUME NEW id \in left, gathered[id].parent = Root
               PROVE  WaitsIn(open, PathOf(chain[gathered[id].parent]), id)
    BY DEF Waiting
  <2>1. id \in DOMAIN gathered
    BY <1>2
  <2>2. \E k \in 1..Len(kids) : kids[k] = id
    BY <2>1, <1>2 DEF IsLookup, kids
  <2>3. WaitsIn(open, none, id)
    BY <2>2, <1>6 DEF WaitsIn
  <2> QED
    BY <2>3, <1>4, <1>8
<1>12. Reached({Root}, chain, {})
  <2>1. Cardinality({Root}) = 1
    BY FS_Singleton
  <2>2. Len(chain[Root]) < Cardinality({Root})
    BY <2>1, <1>4, <1>8
  <2>3. chain[Root] = <<>>
    BY <1>8 DEF none
  <2> QED
    BY <2>2, <2>3, <1>2, <1>9 DEF Reached
<1>13. Progress(Emitted, chain, {}, open, left) /\ Listed = Cuts({})
  <2>1. Cuts({}) = {}
    BY DEF Cuts
  <2> QED
    BY <2>1, <1>1, <1>3, <1>7, <1>10, <1>11, <1>12 DEF Progress, OpenLists
<1>14. OpenInTarget
  BY <1>1, <1>4, <1>6 DEF OpenInTarget, none
<1> QED
  BY <1>3, <1>13, <1>14 DEF ListingInv

LEMMA RootRemains ==
  ASSUME Gathered, NEW lookup, IsLookup(lookup)
  PROVE  Root \notin UNION {Removed(lookup[n]) : n \in Numbers}
<1> SUFFICES ASSUME NEW n \in Numbers, Root \in Removed(lookup[n]) PROVE FALSE
  OBVIOUS
<1> DEFINE s == lookup[n]
<1>1. PICK i \in DOMAIN s :
        s[i] = Root /\ \E j \in i + 1..Len(s) : gathered[s[i]].name = gathered[s[j]].name
  BY DEF Removed
<1>2. s \in Seq(DOMAIN gathered) /\ \A a, b \in 1..Len(s) : s[a] = s[b] => a = b
  BY DEF IsLookup
<1> HIDE DEF s
<1>3. PICK j \in i + 1..Len(s) : gathered[Root].name = gathered[s[j]].name
  BY <1>1
<1>4. /\ i \in 1..Len(s) /\ j \in 1..Len(s) /\ i # j
      /\ s[i] \in DOMAIN gathered /\ s[j] \in DOMAIN gathered
  BY <1>2, <1>3
<1>5. gathered[s[j]].name = "root"
  BY <1>1, <1>3, <1>4, EntryType
<1>6. s[j] = Root
  BY <1>4, <1>5, EntryType, BackupAssumption
<1> QED
  BY <1>1, <1>2, <1>4, <1>6

LEMMA FixDuplicatesStep ==
  ASSUME Gathered, pc = "reading", FixDuplicates
  PROVE  /\ UNCHANGED <<gathered, canceled, pc>>
         /\ \/ /\ phase' = "listing" /\ result' = result
               /\ BuilderInv' /\ ListedInv' /\ listing' # <<>>
               /\ ListingInv' /\ OpenInTarget'
            \/ /\ phase' = "ended" /\ result' = "no root"
               /\ Root \notin DOMAIN gathered
               /\ UNCHANGED <<children, listing>>
<1>1. PICK order \in SetToSeqs(DOMAIN gathered) :
       LET lookup == ChildrenIn(order)
           removed == UNION {Removed(lookup[n]) : n \in Numbers} IN
       IF Root \in DOMAIN gathered \ removed
       THEN /\ children' = lookup
            /\ left' = DOMAIN gathered \ (removed \cup {Root})
            /\ open' = <<[path |-> <<>>, rest |-> lookup[Root]]>>
            /\ Continue("listing")
            /\ OpenIndex
       ELSE /\ End("no root")
            /\ UNCHANGED <<children, left, open, indexVars>>
  BY DEF FixDuplicates
<1> DEFINE lookup == ChildrenIn(order)
           removed == UNION {Removed(lookup[n]) : n \in Numbers}
<1>2. IsLookup(lookup)
  BY ChildrenLookUp
<1>3. Root \notin removed
  BY <1>2, RootRemains
<1>4. UNCHANGED <<gathered, canceled>>
  BY DEF FixDuplicates
<1> HIDE DEF lookup, removed
<1>5. CASE Root \in DOMAIN gathered
  <2>1. /\ children' = lookup /\ left' = DOMAIN gathered \ (removed \cup {Root})
        /\ open' = <<[path |-> <<>>, rest |-> lookup[Root]]>>
        /\ Continue("listing") /\ OpenIndex
    BY <1>1, <1>3, <1>5 DEF lookup, removed
  <2>2. IndexOpened' /\ UNCHANGED pc
    BY <2>1 DEF OpenIndex, IndexOpened, RecordOf, RootFolder
  <2>3. Gathered'
    BY <1>4 DEF Gathered
  <2>4. IsLookup(children)'
    BY <1>2, <1>4, <2>1 DEF IsLookup
  <2>5. Gone' = removed
    <3>1. \A s : Removed(s)' = Removed(s)
      BY <1>4 DEF Removed
    <3> QED
      BY <1>4, <2>1, <3>1 DEF Gone, removed, Removed
  <2>6. ListingStarts'
    BY <1>3, <1>4, <1>5, <2>1, <2>2, <2>3, <2>4, <2>5 DEF ListingStarts
  <2>7. (ListingStarts => ListingInv /\ OpenInTarget)'
    BY ListingStartsWell, PTL
  <2>8. (IndexOpened => /\ BuilderInv /\ ListedInv /\ listing # <<>>
                        /\ Listed = {} /\ Target = <<>>)'
    BY OpenedIndex, PTL
  <2> QED
    BY <1>4, <2>1, <2>2, <2>6, <2>7, <2>8 DEF Continue
<1>6. CASE Root \notin DOMAIN gathered
  <2>1. End("no root") /\ UNCHANGED <<children, left, open, indexVars>>
    BY <1>1, <1>6 DEF lookup, removed
  <2> QED
    BY <1>4, <1>6, <2>1 DEF End, indexVars
<1> QED
  BY <1>5, <1>6
-------------------------------------------------------------------------------
(* The walk through the folders, and the nodes of a traversal.             *)
TreeType ==
  /\ DOMAIN tree \subseteq Paths
  /\ tree \in [DOMAIN tree -> BOOLEAN]
  /\ found \subseteq DOMAIN tree

WalkType ==
  /\ TreeType
  /\ walked \subseteq found
  /\ trail \in Seq(Names)

(* A folder around the entry that comes next was listed or was left out;   *)
(* the nodes of a traversal are all listed.                                *)
WalkInv == WalkType /\ Listed \subseteq walked

(* Whatever the names: unless another folder was taken for the root, what  *)
(* is listed was visited.                                                  *)
VisitedListed == ~misrooted => Listed \subseteq {Cut(p) : p \in walked}

AboveTarget ==
  \A x \in Seq(Segments) : x # <<>> /\ IsPrefix(x, Target) => x \in Listed

AboveEntry ==
  \A x \in Seq(Segments) :
    x # <<>> /\ IsPrefix(x, trail) =>
      \/ IsPrefix(x, Target)
      \/ x \in walked /\ x \notin Listed /\ tree[x]

AboveNode ==
  /\ \A p \in walked : Last(p) # Blank /\ \A i \in DOMAIN p : Whole(p[i])
  /\ IsPrefix(trail, Target)

FolderLeftOut ==
  \E p \in walked \ Listed, q \in walked : tree[p] /\ IsStrictPrefix(p, q)

BlankWalked == \E p \in walked : Last(p) = Blank

SeparatorWalked == \E p \in walked : ~Whole(Last(p))

LEMMA NamesAreSegments ==
  ASSUME NEW p \in Seq(Names)
  PROVE  p \in Seq(Segments)
<1>1. Names \subseteq Segments
  BY DEF Segments
<1> QED
  BY <1>1

LEMMA PathType ==
  ASSUME NEW p \in Paths
  PROVE  /\ p \in Seq(Names) /\ p \in Seq(Segments) /\ p # <<>>
         /\ Front(p) \in Seq(Names) /\ Front(p) \in Seq(Segments)
         /\ Len(Front(p)) = Len(p) - 1 /\ Len(p) \in Nat
         /\ Last(p) \in Names
<1>1. PICK n \in 1..MaxDepth : p \in [1..n -> Names]
  BY DEF Paths
<1>2. p \in Seq(Names) /\ p # <<>>
  <2>1. p \in Seq(Names) /\ Len(p) = n
    BY <1>1, IndexAssumption
  <2>2. p # <<>>
    BY <2>1, <1>1, IndexAssumption
  <2> QED
    BY <2>1, <2>2
<1>3. Front(p) \in Seq(Names) /\ Last(p) \in Names /\ Len(Front(p)) = Len(p) - 1 /\ Len(p) \in Nat
  BY <1>2, FrontLast
<1> QED
  BY <1>2, <1>3, NamesAreSegments

(* Of an entry: where it is in the tree.                                   *)
NextEntry(p) ==
  /\ pc = "reading"
  /\ p \in Paths /\ p \in found /\ p \notin walked
  /\ IsPrefix(Front(p), trail)
  /\ walked' = walked \cup {p}
  /\ tree[p] \in BOOLEAN
  /\ trail' = IF tree[p] THEN p ELSE Front(p)
  /\ UNCHANGED <<tree, found, children, canceled, gathered, misrooted>>

LEMMA NextEntryMeans ==
  ASSUME WalkType, NEW p, WalkNext(p)
  PROVE  NextEntry(p)
<1>1. p \in DOMAIN tree /\ p \in Paths
  BY DEF WalkNext, WalkType, TreeType
<1>2. tree[p] \in BOOLEAN
  BY <1>1 DEF WalkType, TreeType
<1> QED
  BY <1>1, <1>2 DEF WalkNext, NextEntry, mftVars

(* The folders around the next entry are those around this one.            *)
LEMMA AboveNext ==
  ASSUME WalkType, NEW p, NextEntry(p), NEW x \in Seq(Segments), x # <<>>, IsPrefix(x, trail')
  PROVE  \/ x = p /\ tree[p]
         \/ IsPrefix(x, Front(p)) /\ IsPrefix(x, trail)
<1>1. p \in Seq(Segments) /\ p # <<>> /\ Front(p) \in Seq(Segments) /\ trail \in Seq(Segments)
  BY PathType, NamesAreSegments DEF NextEntry, WalkType
<1>2. CASE tree[p]
  <2>1. IsPrefix(x, p)
    BY <1>2 DEF NextEntry
  <2>2. x = p \/ IsPrefix(x, Front(p))
    BY <2>1, <1>1, PrefixOfFront
  <2> QED
    BY <2>2, <1>1, <1>2, PrefixOrder DEF NextEntry
<1>3. CASE ~tree[p]
  <2>1. IsPrefix(x, Front(p))
    BY <1>3 DEF NextEntry
  <2> QED
    BY <2>1, <1>1, PrefixOrder DEF NextEntry
<1> QED
  BY <1>2, <1>3

LEMMA NextWalkType ==
  ASSUME WalkType, NEW p, NextEntry(p)
  PROVE  WalkType'
<1>1. p \in Seq(Names) /\ Front(p) \in Seq(Names)
  BY PathType DEF NextEntry
<1>2. trail' \in Seq(Names) /\ walked' \subseteq found'
  BY <1>1 DEF NextEntry, WalkType
<1>3. TreeType'
  BY DEF NextEntry, WalkType, TreeType
<1> QED
  BY <1>2, <1>3 DEF WalkType

LEMMA NextWalkInv ==
  ASSUME WalkInv, NEW p, NextEntry(p), Listed' \subseteq Listed \cup {p}
  PROVE  WalkInv'
<1>1. WalkType'
  BY NextWalkType DEF WalkInv
<1>2. Listed' \subseteq walked'
  BY DEF NextEntry, WalkInv
<1> QED
  BY <1>1, <1>2 DEF WalkInv

LEMMA SkipEntryStep ==
  ASSUME WalkInv, AboveTarget, AboveEntry, NEW p, SkipEntry(p)
  PROVE  WalkInv' /\ AboveTarget' /\ AboveEntry'
<1>1. NextEntry(p)
  BY NextEntryMeans DEF SkipEntry, WalkInv
<1>2. UNCHANGED <<listing, parents, pc, item>>
  BY DEF SkipEntry, indexVars
<1>3. Listed' = Listed /\ Target' = Target
  BY <1>2 DEF Listed, Target, OpenPath
<1>4. WalkInv'
  BY <1>1, <1>3, NextWalkInv
<1>5. AboveTarget'
  BY <1>3 DEF AboveTarget
<1>6. AboveEntry'
  <2> SUFFICES ASSUME NEW x \in Seq(Segments), x # <<>>, IsPrefix(x, trail'), ~IsPrefix(x, Target)
               PROVE  x \in walked' /\ x \notin Listed /\ tree'[x]
    BY <1>3 DEF AboveEntry
  <2>1. CASE x = p /\ tree[p]
    BY <2>1, <1>1 DEF NextEntry, WalkInv
  <2>2. CASE IsPrefix(x, trail)
    <3>1. x \in walked /\ x \notin Listed /\ tree[x]
      BY <2>2 DEF AboveEntry
    <3> QED
      BY <3>1, <1>1 DEF NextEntry
  <2> QED
    BY <2>1, <2>2, <1>1, AboveNext DEF WalkInv
<1> QED
  BY <1>4, <1>5, <1>6

(* An entry that is listed is the target, or is in it.                     *)
LEMMA ListedIsTarget ==
  ASSUME WalkInv, AboveTarget, BuilderInv, ListedInv, listing # <<>>,
         NEW p, NextEntry(p), Take(RecordOf(p, tree[p]))
  PROVE  /\ WalkInv' /\ AboveTarget' /\ BuilderInv' /\ ListedInv' /\ listing' # <<>>
         /\ trail' = Target' /\ pc' = "adding" /\ Listed' = Listed \cup {p}
<1>1. /\ p \in Seq(Segments) /\ p # <<>> /\ Front(p) \in Seq(Segments) /\ tree[p] \in BOOLEAN
      /\ p \notin walked
  BY PathType DEF NextEntry
<1>2. /\ BuilderInv' /\ pc' = "adding"
      /\ Target' = IF tree[p] THEN p ELSE Front(p)
      /\ IsPrefix(Front(p), Target)
      /\ listing' = Append(listing, RecordOf(p, tree[p]))
  BY <1>1, TakeStep
<1>3. RecordOf(p, tree[p]).path = p
  BY DEF RecordOf
<1>4. p \notin Listed
  BY <1>1 DEF WalkInv
<1>5. Listed' = Listed \cup {p} /\ ListedInv' /\ listing' # <<>>
  <2>1. UNCHANGED <<gathered, tree, misrooted>>
    BY DEF NextEntry
  <2> QED
    BY <2>1, <1>1, <1>2, <1>3, <1>4, ListedMore
<1>6. WalkInv'
  BY <1>5, NextWalkInv
<1>7. trail' = Target'
  BY <1>2 DEF NextEntry
<1>8. AboveTarget'
  <2> SUFFICES ASSUME NEW x \in Seq(Segments), x # <<>>, IsPrefix(x, Target')
               PROVE  x \in Listed'
    BY DEF AboveTarget
  <2>1. CASE x = p
    BY <2>1, <1>5
  <2>2. CASE IsPrefix(x, Front(p))
    <3>1. IsPrefix(x, Target)
      BY <2>2, <1>1, <1>2, TargetType, PrefixOrder
    <3> QED
      BY <3>1, <1>5 DEF AboveTarget
  <2> QED
    BY <2>1, <2>2, <1>7, AboveNext DEF WalkInv
<1> QED
  BY <1>2, <1>5, <1>6, <1>7, <1>8

(* Names without separators in the folder that was asked for.              *)
LEMMA SoundEntryStep ==
  ASSUME WalkInv, AboveTarget, AboveEntry, BuilderInv, ListedInv, listing # <<>>,
         NEW p, NextEntry(p), Hand(RecordOf(p, tree[p])) \/ HandWrong(RecordOf(p, tree[p]))
  PROVE  \/ /\ WalkInv' /\ AboveTarget' /\ AboveEntry' /\ BuilderInv' /\ ListedInv'
            /\ listing' # <<>> /\ pc' = "adding" /\ UNCHANGED <<phase, result>>
            /\ Listed' = Listed \cup {p}
         \/ /\ UNCHANGED listing /\ End("not in open folder") /\ FolderLeftOut'
<1>1. /\ p \in Seq(Segments) /\ p # <<>> /\ Front(p) \in Seq(Segments) /\ tree[p] \in BOOLEAN
      /\ Len(Front(p)) = Len(p) - 1 /\ Len(p) \in Nat /\ p \in walked'
  BY PathType DEF NextEntry
<1>2. CASE Hand(RecordOf(p, tree[p]))
  <2>1. Take(RecordOf(p, tree[p])) /\ UNCHANGED <<phase, result>>
    <3>1. RecordOf(p, tree[p]).path = p
      BY DEF RecordOf
    <3> QED
      BY <3>1, <1>1, <1>2 DEF Hand
  <2>2. /\ WalkInv' /\ AboveTarget' /\ BuilderInv' /\ ListedInv' /\ listing' # <<>>
        /\ trail' = Target' /\ pc' = "adding" /\ Listed' = Listed \cup {p}
    BY <2>1, ListedIsTarget
  <2>3. AboveEntry'
    BY <2>2 DEF AboveEntry
  <2> QED
    BY <2>1, <2>2, <2>3
<1>3. CASE HandWrong(RecordOf(p, tree[p]))
  <2>2. ~IsPrefix(Front(p), Target) /\ UNCHANGED listing /\ End("not in open folder")
    BY <1>1, <1>3, RefuseStep DEF HandWrong
  <2> DEFINE x == Front(p)
  <2>3. x # <<>>
    BY <1>1, <2>2, TargetType, PrefixOfEmpty
  <2>4. x \in walked /\ x \notin Listed /\ tree[x]
    BY <1>1, <2>2, <2>3 DEF AboveEntry, NextEntry
  <2>5. IsStrictPrefix(x, p)
    <3>1. IsPrefix(x, x)
      BY <1>1, PrefixOrder
    <3>2. IsPrefix(x, p)
      BY <3>1, <1>1, PrefixOfFront
    <3>3. x # p
      BY <1>1
    <3> QED
      BY <3>2, <3>3 DEF IsStrictPrefix
  <2>6. Listed' = Listed
    BY <2>2 DEF Listed
  <2> HIDE DEF x
  <2>7. FolderLeftOut'
    <3>1. x \in walked' \ Listed' /\ tree'[x] /\ p \in walked'
      BY <1>1, <2>4, <2>6 DEF NextEntry
    <3> QED
      BY <3>1, <2>5 DEF FolderLeftOut
  <2> QED
    BY <2>2, <2>7
<1> QED
  BY <1>2, <1>3

(* A path of a folder with whole names is one as it is.                    *)
LEMMA WholeEntry ==
  ASSUME Sound, TreeType, NEW p \in DOMAIN tree
  PROVE  Cut(p) = p /\ IsFolderPath(p) = tree[p]
<1>1. p \in Paths /\ tree[p] \in BOOLEAN
  BY DEF TreeType
<1>2. \A i \in DOMAIN p : Whole(p[i])
  BY DEF Sound, WholeNames
<1>3. Cut(p) = p
  BY <1>2, WholeCut
<1>4. Whole(Last(p)) /\ Last(p) \in Names
  <2>1. p \in Seq(Names) /\ p # <<>> /\ Last(p) \in Names
    BY <1>1, PathType
  <2>2. Len(p) \in DOMAIN p /\ Last(p) = p[Len(p)]
    BY <2>1 DEF Last
  <2> QED
    BY <2>1, <2>2, <1>2
<1>5. Split[Last(p)] = <<Last(p)>>
  BY <1>4 DEF Whole
<1>6. Last(Split[Last(p)]) = Last(p)
  <2>1. PICK n : n = Last(p)
    OBVIOUS
  <2>2. Last(<<n>>) = n
    BY DEF Last
  <2> QED
    BY <2>1, <2>2, <1>5
<1>7. Last(p) # ""
  BY <1>4, SplitAssumption
<1>8. ~Closed(Last(p))
  BY <1>6, <1>7 DEF Closed
<1> QED
  BY <1>1, <1>3, <1>8 DEF IsFolderPath

LEMMA ListEntryStep ==
  ASSUME WalkType, VisitedListed, ListedInv, listing # <<>>,
         Sound => BuilderInv /\ WalkInv /\ AboveTarget /\ AboveEntry,
         NEW p, ListEntry(p)
  PROVE  /\ Sound' = Sound
         /\ \/ /\ WalkType' /\ VisitedListed' /\ ListedInv' /\ listing' # <<>>
               /\ Sound => BuilderInv' /\ WalkInv' /\ AboveTarget' /\ AboveEntry'
               /\ pc' \in {"reading", "adding"} /\ UNCHANGED <<phase, result>>
            \/ /\ UNCHANGED listing /\ End("not in open folder")
               /\ ~Sound \/ FolderLeftOut'
<1>1. NextEntry(p) /\ p \in DOMAIN tree /\ TreeType
  BY NextEntryMeans DEF ListEntry, WalkType, TreeType, NextEntry
<1>2. Sound' = Sound
  BY <1>1, SoundStays DEF NextEntry
<1>3. WalkType'
  BY <1>1, NextWalkType
<1>4. PICK rest \in IF misrooted THEN RestsOf(p) ELSE {p} :
        Hand(RecordOf(Cut(rest), IsFolderPath(p))) \/ HandWrong(RecordOf(Cut(rest), IsFolderPath(p)))
  BY DEF ListEntry
<1>5. CASE Sound
  <2>1. Cut(rest) = p /\ IsFolderPath(p) = tree[p]
    BY <1>1, <1>4, <1>5, WholeEntry DEF Sound
  <2>2. \/ /\ WalkInv' /\ AboveTarget' /\ AboveEntry' /\ BuilderInv' /\ ListedInv'
           /\ listing' # <<>> /\ pc' = "adding" /\ UNCHANGED <<phase, result>>
           /\ Listed' = Listed \cup {p}
        \/ /\ UNCHANGED listing /\ End("not in open folder") /\ FolderLeftOut'
    BY <1>1, <1>4, <1>5, <2>1, SoundEntryStep
  <2>3. Listed' = Listed \cup {p} => VisitedListed'
    <3>1. Cut(p) = p
      BY <1>1, <1>5, WholeEntry
    <3> QED
      BY <3>1, <1>1 DEF VisitedListed, NextEntry
  <2> QED
    BY <1>2, <1>3, <2>2, <2>3
<1>6. CASE ~Sound /\ Hand(RecordOf(Cut(rest), IsFolderPath(p)))
  <2> DEFINE isDir == IsFolderPath(p)
  <2>1. pc = "reading" /\ UNCHANGED <<gathered, tree, misrooted>>
    BY <1>1 DEF NextEntry
  <2>2. Hand(RecordOf(Cut(rest), isDir))
    BY <1>6
  <2> HIDE DEF isDir
  <2>3. /\ Listed' = IF Cut(rest) = <<>> THEN Listed ELSE Listed \cup {Cut(rest)}
        /\ ListedInv' /\ listing' # <<>>
        /\ pc' \in {"reading", "adding"} /\ UNCHANGED <<phase, result>>
    BY <1>6, <2>1, <2>2, HandedOver
  <2>4. VisitedListed'
    <3> SUFFICES ASSUME ~misrooted PROVE Listed' \subseteq {Cut(q) : q \in walked'}
      BY <2>1 DEF VisitedListed
    <3>1. rest = p
      BY <1>4
    <3>2. Listed' \subseteq Listed \cup {Cut(p)} /\ walked' = walked \cup {p}
      BY <2>3, <3>1, <1>1 DEF NextEntry
    <3> QED
      BY <3>2 DEF VisitedListed
  <2> QED
    BY <1>2, <1>3, <1>6, <2>3, <2>4
<1>7. CASE ~Sound /\ HandWrong(RecordOf(Cut(rest), IsFolderPath(p)))
  BY <1>2, <1>7 DEF HandWrong, Refuse
<1> QED
  BY <1>4, <1>5, <1>6, <1>7

LEMMA ListNodeStep ==
  ASSUME WalkInv, AboveTarget, AboveNode, BuilderInv, ListedInv, listing # <<>>,
         NEW p, ListNode(p)
  PROVE  \/ /\ WalkInv' /\ AboveTarget' /\ AboveNode' /\ BuilderInv' /\ ListedInv'
            /\ listing' # <<>> /\ pc' = "adding" /\ UNCHANGED <<phase, result>>
         \/ /\ UNCHANGED listing
            /\ \/ End("not in open folder") /\ BlankWalked'
               \/ End("separator") /\ SeparatorWalked'
<1>1. NextEntry(p)
  BY NextEntryMeans DEF ListNode, WalkInv
<1>2. /\ p \in Seq(Segments) /\ p # <<>> /\ Front(p) \in Seq(Segments) /\ tree[p] \in BOOLEAN
      /\ p \notin walked /\ p \in walked'
  BY <1>1, PathType DEF NextEntry
<1> DEFINE path == NodePath(p)
<1>3. path \in Seq(Segments) /\ path # <<>>
  <2>1. "unknown" \in Segments
    BY DEF Segments
  <2> QED
    BY <2>1, <1>2, Appended DEF NodePath
<1>4. IF Whole(Last(p))
      THEN Hand(RecordOf(path, tree[p])) \/ HandWrong(RecordOf(path, tree[p]))
      ELSE End("separator") /\ UNCHANGED indexVars
  BY DEF ListNode
<1>5. RecordOf(path, tree[p]).path = path
  BY DEF RecordOf
<1> HIDE DEF path
<1>6. Hand(RecordOf(path, tree[p])) => Take(RecordOf(path, tree[p])) /\ UNCHANGED <<phase, result>>
  BY <1>3, <1>5 DEF Hand
<1>7. CASE ~Whole(Last(p))
  <2>1. End("separator") /\ UNCHANGED listing
    BY <1>4, <1>7 DEF indexVars
  <2> QED
    BY <2>1, <1>2, <1>7 DEF SeparatorWalked
<1>8. CASE Whole(Last(p)) /\ Last(p) = Blank
  <2>1. Front(path) = p
    <3>1. "unknown" \in Segments
      BY DEF Segments
    <3> QED
      BY <3>1, <1>2, <1>8, Appended DEF NodePath, path
  <2>2. ~Hand(RecordOf(path, tree[p]))
    <3> SUFFICES ASSUME Take(RecordOf(path, tree[p])) PROVE FALSE
      BY <1>6
    <3>1. IsPrefix(p, Target)
      BY <2>1, <1>2, <1>3, TakeStep
    <3>2. p \in Listed
      BY <3>1, <1>2 DEF AboveTarget
    <3> QED
      BY <3>2, <1>2 DEF WalkInv
  <2>3. UNCHANGED listing /\ End("not in open folder")
    BY <2>2, <1>4, <1>8 DEF HandWrong, Refuse
  <2>4. BlankWalked'
    BY <1>2, <1>8 DEF BlankWalked
  <2> QED
    BY <2>3, <2>4
<1>9. CASE Whole(Last(p)) /\ Last(p) # Blank
  <2>1. path = p
    BY <1>9 DEF NodePath, path
  <2>2. IsPrefix(Front(p), Target)
    <3>1. trail \in Seq(Segments)
      BY NamesAreSegments DEF WalkInv, WalkType
    <3> QED
      BY <3>1, <1>1, <1>2, TargetType, PrefixOrder DEF AboveNode, NextEntry
  <2>3. ~HandWrong(RecordOf(p, tree[p]))
    BY <2>2, <1>2, RefuseStep DEF HandWrong
  <2>4. Take(RecordOf(p, tree[p])) /\ UNCHANGED <<phase, result>>
    BY <2>1, <2>3, <1>4, <1>6, <1>9
  <2>5. /\ WalkInv' /\ AboveTarget' /\ BuilderInv' /\ ListedInv' /\ listing' # <<>>
        /\ trail' = Target' /\ pc' = "adding"
    BY <1>1, <2>4, ListedIsTarget
  <2>6. \A i \in DOMAIN p : Whole(p[i])
    <3> DEFINE x == Front(p)
               n == Len(p)
    <3>1. n \in Nat \ {0} /\ DOMAIN p = 1..n /\ Last(p) = p[n]
      BY <1>2 DEF Last
    <3>2. Len(x) = n - 1 /\ x \in Seq(Segments) /\ \A i \in 1..n - 1 : x[i] = p[i]
      BY <1>2, FrontLast
    <3>3. x = <<>> \/ x \in walked
      BY <1>2, <2>2 DEF AboveTarget, WalkInv
    <3> HIDE DEF x, n
    <3>4. \A i \in 1..n - 1 : Whole(p[i])
      <4>1. CASE x = <<>>
        <5>1. n - 1 = 0
          BY <4>1, <3>1, <3>2
        <5>2. 1..n - 1 = {}
          BY <5>1
        <5> QED
          BY <5>2
      <4>2. CASE x \in walked
        <5>1. \A i \in DOMAIN x : Whole(x[i])
          BY <4>2 DEF AboveNode
        <5>2. DOMAIN x = 1..n - 1
          BY <3>2
        <5> QED
          BY <5>1, <5>2, <3>2
      <4> QED
        BY <3>3, <4>1, <4>2
    <3>5. Whole(p[n])
      BY <3>1, <1>9
    <3> SUFFICES ASSUME NEW i \in 1..n PROVE Whole(p[i])
      BY <3>1
    <3>6. i = n \/ i \in 1..n - 1
      BY <3>1
    <3> QED
      BY <3>4, <3>5, <3>6
  <2>7. AboveNode'
    <3>1. IsPrefix(trail', Target')
      <4>1. trail' \in Seq(Segments)
        BY <2>5, NamesAreSegments DEF WalkInv, WalkType
      <4>2. IsPrefix(trail', trail')
        BY <4>1, PrefixOrder
      <4> QED
        BY <4>2, <2>5
    <3>2. \A q \in walked' : Last(q) # Blank /\ \A i \in DOMAIN q : Whole(q[i])
      BY <1>1, <1>9, <2>6 DEF AboveNode, NextEntry
    <3> QED
      BY <3>1, <3>2 DEF AboveNode
  <2> QED
    BY <2>4, <2>5, <2>7
<1> QED
  BY <1>7, <1>8, <1>9

-------------------------------------------------------------------------------
(* The whole command: what holds in each phase of it.                      *)

(* Nothing has been listed yet.                                            *)
Fresh == pc = "reading" /\ listing = <<>> /\ children = <<>>

Unwalked ==
  /\ TreeType /\ found = DOMAIN tree
  /\ walked = {} /\ trail = <<>>

Counters ==
  /\ attempt \in Nat /\ record \in Nat
  /\ phase = "start" => attempt = 0
  /\ phase \in {"attempt", "records"} => attempt < Retries

(* The builder goes on undisturbed as long as no name has a separator and  *)
(* the root is its own; what was listed is known in any case.              *)
ListingGoes ==
  /\ ListingInv
  /\ Sound => BuilderInv /\ OpenInTarget

WalkingGoes ==
  /\ children = <<>> /\ found = DOMAIN tree
  /\ WalkType /\ VisitedListed
  /\ Sound => BuilderInv /\ WalkInv /\ AboveTarget /\ AboveEntry

NodesGo ==
  /\ BuilderInv /\ children = <<>>
  /\ WalkInv /\ AboveTarget /\ AboveNode

(* While records are read; and when there are no more.                     *)
Scanned ==
  /\ listing # <<>>
  /\ pc \in {"reading", "adding", "finishing"}
  /\ pc = "finishing" /\ ~canceled /\ ~misrooted => Complete

(* The parts of the invariant that speak of the phase, one for each.       *)
StartInv == phase \in {"start", "attempt", "records"} =>
              Fresh /\ Unwalked /\ tree = <<>>
WalkStarts == phase \in {"walk", "traversal"} => Fresh /\ Unwalked
RootlessInv == phase = "rootless" => Fresh /\ WalkType /\ found = DOMAIN tree /\ misrooted
ScanInv == phase \in {"listing", "walking", "nodes"} => Scanned
GoesOn ==
  /\ phase = "listing" /\ pc # "finishing" => ListingGoes
  /\ phase = "walking" /\ pc # "finishing" => WalkingGoes
  /\ phase = "nodes" /\ pc # "finishing" => NodesGo /\ (found = DOMAIN tree \/ canceled)
WritingInv == phase = "writing" /\ ~canceled /\ ~misrooted => Complete
Running == phase # "ended" => result = "running"

BackupInv ==
  /\ Gathered /\ ListedInv /\ Counters
  /\ StartInv /\ WalkStarts /\ RootlessInv /\ ScanInv /\ GoesOn /\ WritingInv /\ Running
  /\ SuccessListsEverything
  /\ PanicsOnlyThere

(* What none of these parts sees: the counters, the output, and the phase. *)
SameScan == UNCHANGED <<indexVars, gathered, left, children, open, walkVars>>

(* What was scanned is the same.                                           *)
LEMMA SameComplete ==
  ASSUME UNCHANGED <<listing, gathered, children, tree, walked>>
  PROVE  Listed' = Listed /\ (Complete => Complete')
<1>1. Listed' = Listed
  BY DEF Listed
<1>2. Chains' = Chains /\ \A c : PathOf(c)' = PathOf(c)
  BY SameRecords
<1>3. \A id : HasNamesake(id)' = HasNamesake(id)
  BY DEF HasNamesake
<1> QED
  BY <1>1, <1>2, <1>3 DEF Complete

LEMMA SameListing ==
  ASSUME ListingInv, UNCHANGED <<gathered, left, children, open, listing>>
  PROVE  ListingInv'
<1>1. LookupInv
  BY DEF ListingInv
<1>2. PICK chain, paths : Progress(Emitted, chain, paths, open, left) /\ Listed = Cuts(paths)
  BY DEF ListingInv
<1>3. Progress(DOMAIN gathered \ (left' \cup Gone), chain, paths, open', left')
  BY <1>2 DEF Emitted
<1>4. Listed' = Cuts(paths)
  BY <1>2 DEF Listed
<1> QED
  BY <1>1, <1>3, <1>4, NextProgress

LEMMA SameParts ==
  ASSUME SameScan
  PROVE  /\ Gathered' = Gathered /\ (ListedInv => ListedInv') /\ Sound' = Sound
         /\ Fresh' = Fresh /\ Unwalked' = Unwalked
         /\ BuilderInv' = BuilderInv /\ (ListingInv => ListingInv')
         /\ OpenInTarget' = OpenInTarget
         /\ WalkType' = WalkType /\ VisitedListed' = VisitedListed
         /\ WalkInv' = WalkInv /\ AboveTarget' = AboveTarget
         /\ AboveEntry' = AboveEntry /\ AboveNode' = AboveNode
         /\ Listed' = Listed /\ (Complete => Complete')
<1>1. /\ UNCHANGED <<options, listing, parents, entries, rootMeta, item, pc>>
      /\ UNCHANGED <<gathered, left, children, open, tree, found, walked, trail, misrooted>>
  BY DEF SameScan, indexVars, walkVars
<1>2. Gathered' = Gathered
  BY <1>1 DEF Gathered
<1>3. (ListedInv => ListedInv') /\ Sound' = Sound
  BY <1>1, ListingStays, SoundStays
<1>4. Fresh' = Fresh /\ Unwalked' = Unwalked
  BY <1>1 DEF Fresh, Unwalked, TreeType
<1>5. BuilderInv' = BuilderInv
  BY <1>1 DEF BuilderInv, Named, InOpenFolders
<1>6. Listed' = Listed /\ (Complete => Complete')
  BY <1>1, SameComplete
<1>7. Target' = Target
  BY <1>1 DEF Target, OpenPath
<1>8. (ListingInv => ListingInv') /\ OpenInTarget' = OpenInTarget
  BY <1>1, <1>7, SameListing DEF OpenInTarget
<1>9. WalkType' = WalkType /\ VisitedListed' = VisitedListed /\ WalkInv' = WalkInv
  BY <1>1, <1>6 DEF WalkInv, WalkType, VisitedListed, TreeType
<1>10. AboveTarget' = AboveTarget
  BY <1>6, <1>7 DEF AboveTarget
<1>11. AboveEntry' = AboveEntry /\ AboveNode' = AboveNode
  BY <1>1, <1>6, <1>7 DEF AboveEntry, AboveNode
<1> QED
  BY <1>2, <1>3, <1>4, <1>5, <1>6, <1>8, <1>9, <1>10, <1>11

(* While the command runs it has not ended badly, nor well.                *)
LEMMA StillRuns ==
  ASSUME result' \in {"running", "error"}
  PROVE  SuccessListsEverything' /\ PanicsOnlyThere'
BY DEF SuccessListsEverything, PanicsOnlyThere

LEMMA EndsWell ==
  ASSUME Gathered', ListedInv', attempt' \in Nat, record' \in Nat, phase' = "ended",
         SuccessListsEverything', PanicsOnlyThere'
  PROVE  BackupInv'
BY DEF BackupInv, Counters, StartInv, WalkStarts, RootlessInv, ScanInv, GoesOn, WritingInv, Running

LEMMA EndsInError ==
  ASSUME BackupInv, UNCHANGED <<indexVars, gathered, walkVars>>, attempt' \in Nat, record' \in Nat,
         End("error")
  PROVE  BackupInv'
<1>1. UNCHANGED <<listing, gathered, tree, misrooted>>
  BY DEF indexVars, walkVars
<1>2. Gathered' /\ ListedInv'
  BY <1>1, ListingStays DEF BackupInv, Gathered
<1>3. phase' = "ended" /\ result' = "error"
  BY DEF End
<1> QED
  BY <1>2, <1>3, StillRuns, EndsWell

(* A step that only changes counters, the output or the request to cancel. *)
LEMMA NothingHappens ==
  ASSUME BackupInv, SameScan, Counters', UNCHANGED <<phase, result>>,
         canceled' = canceled \/ (canceled' = TRUE /\ result = "running")
  PROVE  BackupInv'
<1>1. /\ Gathered' /\ ListedInv' /\ Sound' = Sound /\ Fresh' = Fresh /\ Unwalked' = Unwalked
      /\ BuilderInv' = BuilderInv /\ (ListingInv => ListingInv')
      /\ OpenInTarget' = OpenInTarget
      /\ WalkType' = WalkType /\ VisitedListed' = VisitedListed
      /\ WalkInv' = WalkInv /\ AboveTarget' = AboveTarget
      /\ AboveEntry' = AboveEntry /\ AboveNode' = AboveNode
      /\ Listed' = Listed /\ (Complete => Complete')
  BY SameParts DEF BackupInv
<1>2. UNCHANGED <<listing, pc, gathered, children, tree, found, walked, misrooted>>
  BY DEF SameScan, indexVars, walkVars
<1>3. canceled' = FALSE => canceled = FALSE
  OBVIOUS
<1>4. StartInv' /\ WalkStarts' /\ RootlessInv'
  BY <1>1, <1>2 DEF BackupInv, StartInv, WalkStarts, RootlessInv
<1>5. ScanInv'
  BY <1>1, <1>2 DEF BackupInv, ScanInv, Scanned
<1>6. GoesOn'
  BY <1>1, <1>2 DEF BackupInv, GoesOn, ListingGoes, WalkingGoes, NodesGo
<1>7. WritingInv' /\ Running'
  BY <1>1, <1>2 DEF BackupInv, WritingInv, Running
<1>8. SuccessListsEverything'
  BY <1>1, <1>2 DEF BackupInv, SuccessListsEverything
<1>9. PanicsOnlyThere'
  <2>1. WholeNames' = WholeNames
    BY <1>2 DEF WholeNames
  <2> QED
    BY <2>1, <1>1, <1>2 DEF BackupInv, PanicsOnlyThere
<1> QED
  BY <1>1, <1>4, <1>5, <1>6, <1>7, <1>8, <1>9 DEF BackupInv

LEMMA CancelKeeps == BackupInv /\ Cancel => BackupInv'
<1> SUFFICES ASSUME BackupInv, Cancel PROVE BackupInv'
  OBVIOUS
<1>1. /\ SameScan /\ UNCHANGED <<phase, result, attempt, record>>
      /\ canceled' = TRUE /\ result = "running"
  BY DEF Cancel, SameScan, mftVars
<1>2. Counters'
  BY <1>1 DEF BackupInv, Counters
<1> QED
  BY <1>1, <1>2, NothingHappens

LEMMA StutterKeeps == BackupInv /\ UNCHANGED vars => BackupInv'
<1> SUFFICES ASSUME BackupInv, UNCHANGED vars PROVE BackupInv'
  OBVIOUS
<1>1. SameScan /\ UNCHANGED <<phase, result, attempt, record, canceled>>
  BY DEF vars, SameScan, mftVars
<1>2. Counters'
  BY <1>1 DEF BackupInv, Counters
<1> QED
  BY <1>1, <1>2, NothingHappens

(* Into another phase before anything is listed.                           *)
LEMMA Prepares ==
  ASSUME BackupInv, Gathered', ListedInv', Counters',
         phase' \in {"attempt", "records", "walk", "traversal"},
         Fresh', Unwalked', phase' \in {"attempt", "records"} => tree' = <<>>,
         result' = "running"
  PROVE  BackupInv'
<1>1. SuccessListsEverything' /\ PanicsOnlyThere'
  BY StillRuns
<1> QED
  BY <1>1 DEF BackupInv, StartInv, WalkStarts, RootlessInv, ScanInv, GoesOn, WritingInv, Running

LEMMA RefusedKeeps == BackupInv /\ Refused => BackupInv'
<1> SUFFICES ASSUME BackupInv, Refused PROVE BackupInv'
  OBVIOUS
<1>1. /\ UNCHANGED <<indexVars, gathered, walkVars>> /\ End("error")
      /\ attempt' = attempt /\ record' = record
  BY DEF Refused, mftVars
<1>2. attempt' \in Nat /\ record' \in Nat
  BY <1>1 DEF BackupInv, Counters
<1> QED
  BY <1>1, <1>2, EndsInError

LEMMA TreesType ==
  ASSUME NEW t \in Trees
  PROVE  DOMAIN t \subseteq Paths /\ t \in [DOMAIN t -> BOOLEAN]
<1>1. PICK P \in {Q \in SUBSET Paths : Cardinality(Q) <= MaxTree} :
        t \in {u \in [P -> BOOLEAN] :
                 \A p \in P : Len(p) > 1 => Front(p) \in P /\ u[Front(p)]}
  BY DEF Trees
<1>2. P \subseteq Paths /\ t \in [P -> BOOLEAN]
  BY <1>1
<1>3. DOMAIN t = P
  BY <1>2
<1> QED
  BY <1>2, <1>3

LEMMA CreateOutputKeeps == BackupInv /\ CreateOutput => BackupInv'
<1> SUFFICES ASSUME BackupInv, CreateOutput PROVE BackupInv'
  OBVIOUS
<1>1. /\ phase = "start" /\ UNCHANGED <<indexVars, canceled>>
      /\ UNCHANGED <<attempt, record, gathered, left, children, open>>
  BY DEF CreateOutput, mftVars
<1>2. /\ Fresh /\ Unwalked /\ tree = <<>> /\ result = "running"
      /\ attempt = 0 /\ record \in Nat /\ Gathered /\ ListedInv
  BY <1>1 DEF BackupInv, StartInv, Counters, Running
<1>3. 0 < Retries
  BY BackupAssumption
<1>4. Gathered' /\ ListedInv'
  <2>1. listing' = <<>>
    BY <1>1, <1>2 DEF Fresh, indexVars
  <2> QED
    BY <2>1, <1>1, <1>2, NothingListed DEF Gathered
<1>5. Fresh'
  BY <1>1, <1>2 DEF Fresh, indexVars
<1>6. CASE Continue("attempt") /\ UNCHANGED walkVars
  <2>1. Unwalked' /\ tree' = <<>>
    BY <1>2, <1>6 DEF Unwalked, TreeType, walkVars
  <2>2. phase' = "attempt" /\ result' = "running"
    BY <1>2, <1>6 DEF Continue
  <2>3. Counters'
    BY <1>1, <1>2, <1>3, <2>2 DEF Counters
  <2> QED
    BY <1>4, <1>5, <2>1, <2>2, <2>3, Prepares
<1>7. CASE /\ Continue("walk") \/ Continue("traversal")
           /\ tree' \in Trees
           /\ found' = DOMAIN tree'
           /\ UNCHANGED <<walked, trail, misrooted>>
  <2>1. Unwalked'
    <3>1. DOMAIN tree' \subseteq Paths /\ tree' \in [DOMAIN tree' -> BOOLEAN]
      BY <1>7, TreesType
    <3> QED
      BY <3>1, <1>2, <1>7 DEF Unwalked, TreeType
  <2>2. phase' \in {"walk", "traversal"} /\ result' = "running"
    BY <1>2, <1>7 DEF Continue
  <2>3. Counters'
    BY <1>1, <1>2, <2>2 DEF Counters
  <2> QED
    BY <1>4, <1>5, <2>1, <2>2, <2>3, Prepares
<1>8. CASE End("error") /\ UNCHANGED walkVars
  BY <1>1, <1>2, <1>8, EndsInError
<1> QED
  BY <1>6, <1>7, <1>8 DEF CreateOutput

(* The loop over the attempts never runs out of them by itself.            *)
LEMMA AttemptFails ==
  ASSUME Counters, phase \in {"attempt", "records"}, AttemptFailed, result = "running"
  PROVE  /\ attempt' \in Nat
         /\ \/ End("error")
            \/ phase' = "attempt" /\ result' = "running" /\ attempt' < Retries
<1>1. attempt \in Nat /\ attempt < Retries
  BY DEF Counters
<1>2. Retries \in Nat
  BY BackupAssumption
<1>3. CASE attempt + 1 = Retries
  BY <1>1, <1>3 DEF AttemptFailed, GivesUp
<1>4. CASE attempt + 1 # Retries
  <2>1. attempt # Retries /\ attempt + 1 \in Nat /\ attempt + 1 < Retries
    BY <1>1, <1>2, <1>4
  <2>2. attempt' = attempt + 1 /\ Continue("attempt")
    BY <2>1, <1>4 DEF AttemptFailed, GivesUp
  <2> QED
    BY <2>1, <2>2 DEF Continue
<1> QED
  BY <1>3, <1>4

LEMMA BeforeListing ==
  ASSUME BackupInv, phase \in {"attempt", "records"}
  PROVE  /\ Fresh /\ Unwalked /\ tree = <<>> /\ result = "running"
         /\ attempt \in Nat /\ attempt < Retries /\ record \in Nat
         /\ Gathered /\ ListedInv /\ Counters
BY DEF BackupInv, StartInv, Counters, Running

(* From an attempt to the next, or to the records.                         *)
LEMMA AttemptGoesOn ==
  ASSUME BackupInv, phase \in {"attempt", "records"},
         UNCHANGED <<indexVars, left, children, open, walkVars>>, Gathered',
         attempt' \in Nat, attempt' < Retries, record' \in Nat,
         phase' \in {"attempt", "records"}, result' = "running"
  PROVE  BackupInv'
<1>1. Fresh /\ Unwalked /\ tree = <<>> /\ ListedInv
  BY BeforeListing
<1>2. Fresh' /\ Unwalked' /\ tree' = <<>> /\ ListedInv'
  <2>1. Fresh' /\ Unwalked' /\ tree' = <<>>
    BY <1>1 DEF Fresh, Unwalked, TreeType, indexVars, walkVars
  <2> QED
    BY <2>1, NothingListed DEF Fresh
<1>3. Counters'
  BY DEF Counters
<1> QED
  BY <1>2, <1>3, Prepares

LEMMA NothingGathered ==
  ASSUME gathered' = <<>>
  PROVE  Gathered'
BY DEF Gathered

LEMMA StartAttemptKeeps == BackupInv /\ StartAttempt => BackupInv'
<1> SUFFICES ASSUME BackupInv, StartAttempt PROVE BackupInv'
  OBVIOUS
<1>1. /\ phase = "attempt" /\ record' = 0 /\ gathered' = <<>>
      /\ UNCHANGED <<indexVars, canceled, left, children, open, walkVars>>
      /\ \/ End("error") /\ UNCHANGED attempt
         \/ AttemptFailed
         \/ Continue("records") /\ UNCHANGED attempt
  BY DEF StartAttempt
<1>2. /\ Fresh /\ Unwalked /\ result = "running" /\ Counters
      /\ attempt \in Nat /\ attempt < Retries /\ ListedInv
  BY <1>1, BeforeListing
<1>3. Gathered'
  BY <1>1, NothingGathered
<1>4. CASE End("error") /\ attempt' \in Nat
  <2>1. ListedInv'
    <3>1. listing' = <<>>
      BY <1>1, <1>2 DEF Fresh, indexVars
    <3> QED
      BY <3>1, NothingListed
  <2>2. phase' = "ended" /\ result' = "error"
    BY <1>4 DEF End
  <2>3. record' \in Nat
    BY <1>1
  <2> QED
    BY <2>1, <2>2, <2>3, <1>3, <1>4, StillRuns, EndsWell
<1>5. CASE phase' \in {"attempt", "records"} /\ result' = "running"
           /\ attempt' \in Nat /\ attempt' < Retries
  BY <1>1, <1>3, <1>5, AttemptGoesOn
<1>6. CASE AttemptFailed
  BY <1>1, <1>2, <1>4, <1>5, <1>6, AttemptFails
<1>7. CASE Continue("records") /\ UNCHANGED attempt
  BY <1>2, <1>5, <1>7 DEF Continue
<1> QED
  BY <1>1, <1>2, <1>4, <1>6, <1>7

LEMMA GatherKeeps == BackupInv /\ Gather => BackupInv'
<1> SUFFICES ASSUME BackupInv, Gather PROVE BackupInv'
  OBVIOUS
<1>1. /\ phase = "records" /\ record < Total /\ record' = record + 1
      /\ UNCHANGED <<indexVars, phase, result, attempt, left, children, open, walkVars>>
  BY DEF Gather
<1>2. /\ result = "running" /\ Gathered
      /\ attempt \in Nat /\ attempt < Retries /\ record \in Nat
  BY <1>1, BeforeListing
<1>3. record \in Numbers
  BY <1>1, <1>2, BackupAssumption DEF Numbers
<1>4. Gathered'
  <2>1. CASE UNCHANGED gathered
    BY <2>1, <1>2 DEF Gathered
  <2>2. CASE \E e \in EntriesOf(record) :
               gathered' = [n \in DOMAIN gathered \cup {record} |->
                              IF n = record THEN e ELSE gathered[n]]
    <3>1. PICK e \in EntriesOf(record) :
            gathered' = [n \in DOMAIN gathered \cup {record} |->
                           IF n = record THEN e ELSE gathered[n]]
      BY <2>2
    <3>2. DOMAIN gathered' = DOMAIN gathered \cup {record}
      BY <3>1
    <3>3. ASSUME NEW n \in DOMAIN gathered' PROVE gathered'[n] \in EntriesOf(n)
      <4>1. CASE n = record
        BY <3>1, <3>2, <4>1
      <4>2. CASE n # record
        <5>1. n \in DOMAIN gathered /\ gathered'[n] = gathered[n]
          BY <3>1, <3>2, <4>2
        <5> QED
          BY <5>1, <1>2 DEF Gathered
      <4> QED
        BY <4>1, <4>2
    <3> QED
      BY <3>2, <3>3, <1>2, <1>3 DEF Gathered
  <2> QED
    BY <2>1, <2>2 DEF Gather
<1>5. record' \in Nat /\ phase' \in {"attempt", "records"} /\ result' = "running"
  BY <1>1, <1>2
<1>6. attempt' \in Nat /\ attempt' < Retries
  BY <1>1, <1>2
<1> QED
  BY <1>1, <1>4, <1>5, <1>6, AttemptGoesOn

LEMMA CanceledInRecordsKeeps == BackupInv /\ CanceledInRecords => BackupInv'
<1> SUFFICES ASSUME BackupInv, CanceledInRecords PROVE BackupInv'
  OBVIOUS
<1>1. /\ phase = "records" /\ AttemptFailed
      /\ UNCHANGED <<indexVars, canceled, record, gathered, left, children, open, walkVars>>
  BY DEF CanceledInRecords
<1>2. /\ result = "running" /\ Gathered /\ Counters /\ record \in Nat
  BY <1>1, BeforeListing
<1>3. Gathered' /\ record' \in Nat
  BY <1>1, <1>2 DEF Gathered
<1>4. /\ attempt' \in Nat
      /\ \/ End("error")
         \/ phase' = "attempt" /\ result' = "running" /\ attempt' < Retries
  BY <1>1, <1>2, AttemptFails
<1>5. CASE End("error")
  BY <1>1, <1>3, <1>4, <1>5, EndsInError
<1>6. CASE phase' = "attempt" /\ result' = "running" /\ attempt' < Retries
  BY <1>1, <1>3, <1>4, <1>6, AttemptGoesOn
<1> QED
  BY <1>4, <1>5, <1>6

(* Into the listing: the invariant of the phase, and nothing of the others.*)
LEMMA ScanStarts ==
  ASSUME Gathered', ListedInv', Counters', phase' \in {"listing", "walking", "nodes"},
         Scanned', GoesOn', result' = "running"
  PROVE  BackupInv'
<1>1. SuccessListsEverything' /\ PanicsOnlyThere'
  BY StillRuns
<1> QED
  BY <1>1 DEF BackupInv, StartInv, WalkStarts, RootlessInv, ScanInv, WritingInv, Running

LEMMA FixDuplicatesKeeps == BackupInv /\ FixDuplicates => BackupInv'
<1> SUFFICES ASSUME BackupInv, FixDuplicates PROVE BackupInv'
  OBVIOUS
<1>1. phase = "records" /\ attempt' = 0 /\ record' = 0
  BY DEF FixDuplicates
<1>2. Gathered /\ ListedInv /\ pc = "reading" /\ result = "running"
  BY <1>1, BeforeListing DEF Fresh
<1>3. /\ UNCHANGED <<gathered, canceled, pc>>
      /\ \/ /\ phase' = "listing" /\ result' = result
            /\ BuilderInv' /\ ListedInv' /\ listing' # <<>>
            /\ ListingInv' /\ OpenInTarget'
         \/ /\ phase' = "ended" /\ result' = "no root"
            /\ Root \notin DOMAIN gathered
            /\ UNCHANGED <<children, listing>>
  BY <1>2, FixDuplicatesStep
<1>4. Gathered'
  BY <1>2, <1>3 DEF Gathered
<1>5. CASE /\ phase' = "listing" /\ result' = result
           /\ BuilderInv' /\ ListedInv' /\ listing' # <<>>
           /\ ListingInv' /\ OpenInTarget'
  <2>1. Counters'
    BY <1>1, <1>5 DEF Counters
  <2>2. Scanned'
    BY <1>2, <1>3, <1>5 DEF Scanned
  <2>3. GoesOn'
    BY <1>5 DEF GoesOn, ListingGoes
  <2> QED
    BY <2>1, <2>2, <2>3, <1>2, <1>4, <1>5, ScanStarts
<1>6. CASE /\ phase' = "ended" /\ result' = "no root"
           /\ Root \notin DOMAIN gathered
           /\ UNCHANGED <<children, listing>>
  <2>1. ListedInv'
    <3>1. listing' = <<>>
      BY <1>1, <1>6, BeforeListing DEF Fresh
    <3> QED
      BY <3>1, NothingListed
  <2>2. PanicsOnlyThere' /\ SuccessListsEverything'
    BY <1>3, <1>6 DEF PanicsOnlyThere, SuccessListsEverything
  <2>3. attempt' \in Nat /\ record' \in Nat
    BY <1>1
  <2> QED
    BY <2>1, <2>2, <2>3, <1>4, <1>6, EndsWell
<1> QED
  BY <1>3, <1>5, <1>6

LEMMA InScan ==
  ASSUME BackupInv, phase \in {"listing", "walking", "nodes"}
  PROVE  /\ Gathered /\ ListedInv /\ listing # <<>>
         /\ pc \in {"reading", "adding", "finishing"}
         /\ (pc = "finishing" /\ ~canceled /\ ~misrooted => Complete)
         /\ result = "running" /\ attempt \in Nat /\ record \in Nat
         /\ (phase = "listing" /\ pc # "finishing" => ListingGoes)
         /\ (phase = "walking" /\ pc # "finishing" => WalkingGoes)
         /\ (phase = "nodes" /\ pc # "finishing" => NodesGo /\ (found = DOMAIN tree \/ canceled))
BY DEF BackupInv, ScanInv, Scanned, Counters, GoesOn, Running

(* A step of the scan after which it goes on.                              *)
LEMMA ScanGoesOn ==
  ASSUME BackupInv, phase \in {"listing", "walking", "nodes"},
         UNCHANGED <<phase, result, attempt, record, gathered>>,
         ListedInv', listing' # <<>>, pc' \in {"reading", "adding"}, GoesOn'
  PROVE  BackupInv'
<1>1. Gathered /\ result = "running" /\ attempt \in Nat /\ record \in Nat
  BY InScan
<1>2. Gathered'
  BY <1>1 DEF Gathered
<1>3. Counters'
  BY <1>1 DEF Counters
<1>4. Scanned'
  BY DEF Scanned
<1> QED
  BY <1>1, <1>2, <1>3, <1>4, ScanStarts

(* The end of the records, whatever else they could have been.             *)
LEMMA ScanFinishes ==
  ASSUME BackupInv, phase \in {"listing", "walking", "nodes"},
         UNCHANGED <<phase, result, attempt, record, gathered>>,
         ListedInv', listing' # <<>>, pc' = "finishing", canceled' \/ misrooted' \/ Complete'
  PROVE  BackupInv'
<1>1. Gathered /\ result = "running" /\ attempt \in Nat /\ record \in Nat
  BY InScan
<1>2. Gathered'
  BY <1>1 DEF Gathered
<1>3. Counters'
  BY <1>1 DEF Counters
<1>4. Scanned'
  BY DEF Scanned
<1>5. GoesOn'
  BY DEF GoesOn
<1> QED
  BY <1>1, <1>2, <1>3, <1>4, <1>5, ScanStarts

(* The index and its target stay while the iterator goes on by itself.     *)
LEMMA RoundKeeps ==
  ASSUME BackupInv, phase = "listing", pc = "reading",
         UNCHANGED <<indexVars, phase, result, attempt, record, gathered, walkVars>>,
         ListingInv', BuilderInv /\ OpenInTarget => OpenInTarget'
  PROVE  BackupInv'
<1>1. ListingGoes /\ ListedInv /\ listing # <<>>
  BY InScan
<1>2. UNCHANGED <<listing, parents, item, pc, gathered, tree, misrooted>>
  BY DEF indexVars, walkVars
<1>3. ListedInv' /\ listing' # <<>> /\ pc' = "reading" /\ Sound' = Sound
  BY <1>1, <1>2, ListingStays, SoundStays
<1>4. BuilderInv' = BuilderInv
  BY <1>2 DEF BuilderInv, Named, InOpenFolders
<1>5. GoesOn'
  BY <1>1, <1>3, <1>4 DEF GoesOn, ListingGoes
<1> QED
  BY <1>3, <1>5, ScanGoesOn

LEMMA LeaveOpenKeeps == BackupInv /\ LeaveOpen => BackupInv'
<1> SUFFICES ASSUME BackupInv, LeaveOpen PROVE BackupInv'
  OBVIOUS
<1>1. /\ phase = "listing" /\ pc = "reading"
      /\ UNCHANGED <<indexVars, phase, result, attempt, record, gathered, walkVars>>
  BY DEF LeaveOpen, Rounds
<1>2. ListingInv
  BY <1>1, InScan DEF ListingGoes
<1>3. ListingInv' /\ (BuilderInv /\ OpenInTarget => OpenInTarget')
  BY <1>2, LeaveOpenStep
<1> QED
  BY <1>1, <1>3, RoundKeeps

LEMMA SkipRemovedKeeps == BackupInv /\ SkipRemoved => BackupInv'
<1> SUFFICES ASSUME BackupInv, SkipRemoved PROVE BackupInv'
  OBVIOUS
<1>1. /\ phase = "listing" /\ pc = "reading"
      /\ UNCHANGED <<indexVars, phase, result, attempt, record, gathered, walkVars>>
  BY DEF SkipRemoved, Rounds
<1>2. ListingInv
  BY <1>1, InScan DEF ListingGoes
<1>3. ListingInv' /\ (OpenInTarget => OpenInTarget')
  BY <1>2, SkipRemovedStep
<1> QED
  BY <1>1, <1>3, RoundKeeps

(* The builder refuses a record: a folder around it was left out, a name   *)
(* is blank or has a separator, or the root is another folder.             *)
LEMMA RefusedRecord ==
  ASSUME BackupInv, phase \in {"listing", "walking", "nodes"},
         UNCHANGED <<attempt, record, gathered, tree, misrooted, listing>>,
         End("not in open folder"), ~Sound \/ FolderLeftOut' \/ BlankWalked'
  PROVE  BackupInv'
<1>1. Gathered /\ ListedInv /\ attempt \in Nat /\ record \in Nat
  BY InScan
<1>2. Gathered' /\ ListedInv'
  BY <1>1, ListingStays DEF Gathered
<1>3. phase' = "ended" /\ result' = "not in open folder"
  BY DEF End
<1>4. PanicsOnlyThere' /\ SuccessListsEverything'
  <2>1. ~Sound' \/ FolderLeftOut' \/ BlankWalked'
    BY SoundStays
  <2>2. ~Sound' => misrooted' \/ ~WholeNames'
    BY DEF Sound
  <2> QED
    BY <1>3, <2>1, <2>2 DEF PanicsOnlyThere, SuccessListsEverything, FolderLeftOut, BlankWalked
<1> QED
  BY <1>1, <1>2, <1>3, <1>4, EndsWell

LEMMA ListChildKeeps == BackupInv /\ ListChild => BackupInv'
<1> SUFFICES ASSUME BackupInv, ListChild PROVE BackupInv'
  OBVIOUS
<1>1. /\ phase = "listing" /\ pc = "reading"
      /\ UNCHANGED <<attempt, record, gathered, tree, misrooted>>
  BY DEF ListChild, Rounds, walkVars
<1>2. ListingGoes /\ ListedInv /\ listing # <<>>
  BY <1>1, InScan
<1>3. /\ Sound' = Sound
      /\ \/ /\ ListingInv' /\ ListedInv' /\ listing' # <<>>
            /\ Sound => BuilderInv' /\ OpenInTarget'
            /\ pc' \in {"reading", "adding"} /\ UNCHANGED <<phase, result>>
         \/ ~Sound /\ UNCHANGED listing /\ End("not in open folder")
  BY <1>2, ListChildStep DEF ListingGoes
<1>4. CASE /\ ListingInv' /\ ListedInv' /\ listing' # <<>>
           /\ Sound => BuilderInv' /\ OpenInTarget'
           /\ pc' \in {"reading", "adding"} /\ UNCHANGED <<phase, result>>
  <2>1. GoesOn'
    BY <1>1, <1>3, <1>4 DEF GoesOn, ListingGoes
  <2> QED
    BY <2>1, <1>1, <1>4, ScanGoesOn
<1>5. CASE ~Sound /\ UNCHANGED listing /\ End("not in open folder")
  BY <1>1, <1>5, RefusedRecord
<1> QED
  BY <1>3, <1>4, <1>5

LEMMA EndOfListingKeeps == BackupInv /\ EndOfListing => BackupInv'
<1> SUFFICES ASSUME BackupInv, EndOfListing PROVE BackupInv'
  OBVIOUS
<1>1. /\ phase = "listing" /\ pc = "reading" /\ pc' = "finishing"
      /\ (open = <<>> \/ canceled)
      /\ UNCHANGED <<listing, phase, result, canceled>>
      /\ UNCHANGED <<attempt, record, gathered, children, tree, walked, misrooted>>
  BY DEF EndOfListing, EndOfRecords, mftVars, walkVars
<1>2. ListingInv /\ ListedInv /\ listing # <<>>
  BY <1>1, InScan DEF ListingGoes
<1>3. canceled \/ Complete
  BY <1>1, <1>2, ListingComplete
<1>4. Complete => Complete'
  BY <1>1, SameComplete
<1>5. ListedInv' /\ listing' # <<>>
  BY <1>1, <1>2, ListingStays
<1> QED
  BY <1>1, <1>3, <1>4, <1>5, ScanFinishes

-------------------------------------------------------------------------------
(* Folders are finished and entries are added: of what the scan sees only  *)
(* pc changes, and the target stays.                                       *)
LEMMA BuilderGoesOn ==
  ASSUME BackupInv, phase \in {"listing", "walking", "nodes"}, pc # "finishing",
         UNCHANGED listing, pc' \in {"reading", "adding"},
         BuilderInv => BuilderInv' /\ Target' = Target,
         UNCHANGED <<phase, result, canceled, mftVars, walkVars>>
  PROVE  BackupInv'
<1>1. /\ UNCHANGED <<attempt, record, gathered, left, children, open>>
      /\ UNCHANGED <<tree, found, walked, trail, misrooted>>
  BY DEF mftVars, walkVars
<1>2. /\ ListedInv /\ listing # <<>> /\ pc \in {"reading", "adding"}
      /\ (phase = "listing" => ListingGoes)
      /\ (phase = "walking" => WalkingGoes)
      /\ (phase = "nodes" => NodesGo /\ (found = DOMAIN tree \/ canceled))
  BY InScan
<1>3. Listed' = Listed /\ Sound' = Sound
  BY <1>1, SoundStays DEF Listed
<1>4. ListedInv' /\ listing' # <<>>
  BY <1>1, <1>2, ListingStays
<1>5. ListingInv => ListingInv'
  BY <1>1, SameListing
<1>6. /\ (WalkType => WalkType') /\ (VisitedListed => VisitedListed')
      /\ (WalkInv => WalkInv')
  BY <1>1, <1>3 DEF WalkInv, WalkType, TreeType, VisitedListed
<1>7. ASSUME Target' = Target
      PROVE  /\ (OpenInTarget => OpenInTarget') /\ (AboveTarget => AboveTarget')
             /\ (AboveEntry => AboveEntry') /\ (AboveNode => AboveNode')
  <2>1. OpenInTarget => OpenInTarget'
    BY <1>1, <1>2, <1>7 DEF OpenInTarget
  <2>2. AboveTarget => AboveTarget'
    BY <1>3, <1>7 DEF AboveTarget
  <2>3. AboveEntry => AboveEntry'
    BY <1>1, <1>3, <1>7 DEF AboveEntry
  <2>4. AboveNode => AboveNode'
    BY <1>1, <1>7 DEF AboveNode
  <2> QED
    BY <2>1, <2>2, <2>3, <2>4
<1>8. ListingGoes => ListingGoes'
  BY <1>3, <1>5, <1>7 DEF ListingGoes
<1>9. WalkingGoes => WalkingGoes'
  BY <1>1, <1>3, <1>6, <1>7 DEF WalkingGoes
<1>10. NodesGo => NodesGo'
  BY <1>1, <1>6, <1>7 DEF NodesGo
<1>11. GoesOn'
  BY <1>1, <1>2, <1>8, <1>9, <1>10 DEF GoesOn
<1> QED
  BY <1>1, <1>4, <1>11, ScanGoesOn

LEMMA BuildKeeps == BackupInv /\ Build => BackupInv'
<1> SUFFICES ASSUME BackupInv, Build PROVE BackupInv'
  OBVIOUS
<1>1. /\ phase \in {"listing", "walking", "nodes"}
      /\ UNCHANGED <<phase, result, canceled, output, mftVars, walkVars>>
      /\ FinishFolder \/ AddFolder \/ AddFile
  BY DEF Build
<1>2. CASE pc # "finishing"
  <2>1. UNCHANGED listing /\ pc' \in {"reading", "adding"}
    BY <1>1, <1>2 DEF FinishFolder, AddFolder, AddFile
  <2>2. BuilderInv => BuilderInv' /\ Target' = Target
    <3>1. CASE FinishFolder
      BY <3>1, FinishFolderStep
    <3>2. CASE AddFolder
      BY <3>2, AddFolderStep
    <3>3. CASE AddFile
      BY <3>3, AddFileStep
    <3> QED
      BY <1>1, <3>1, <3>2, <3>3
  <2> QED
    BY <1>1, <1>2, <2>1, <2>2, BuilderGoesOn
<1>3. CASE pc = "finishing"
  <2>1. pc' = "finishing" /\ UNCHANGED listing
    <3>1. ~AddFolder /\ ~AddFile
      BY <1>3 DEF AddFolder, AddFile
    <3> QED
      BY <1>1, <1>3, <3>1 DEF FinishFolder
  <2>2. /\ UNCHANGED <<attempt, record, gathered, children, tree, walked, misrooted>>
    BY <1>1 DEF mftVars, walkVars
  <2>3. ListedInv /\ listing # <<>> /\ (canceled \/ misrooted \/ Complete)
    BY <1>1, <1>3, InScan
  <2>4. ListedInv' /\ listing' # <<>>
    BY <2>1, <2>2, <2>3, ListingStays
  <2>5. Complete => Complete'
    BY <2>1, <2>2, SameComplete
  <2> QED
    BY <1>1, <2>1, <2>2, <2>3, <2>4, <2>5, ScanFinishes
<1> QED
  BY <1>2, <1>3

-------------------------------------------------------------------------------
(* The walks start above everything.                                       *)
LEMMA FreshIndex ==
  ASSUME Fresh, OpenIndex
  PROVE  /\ ListedInv' /\ listing' # <<>> /\ pc' = "reading" /\ BuilderInv'
         /\ Listed' = {} /\ Target' = <<>>
<1>1. IndexOpened'
  BY DEF OpenIndex, IndexOpened, Fresh
<1>2. (IndexOpened => /\ BuilderInv /\ ListedInv /\ listing # <<>>
                      /\ Listed = {} /\ Target = <<>>)'
  BY OpenedIndex, PTL
<1>3. pc' = "reading"
  BY <1>1 DEF IndexOpened
<1> QED
  BY <1>1, <1>2, <1>3

LEMMA WalkStartsWell ==
  ASSUME BackupInv, phase \in {"walk", "traversal"}, OpenIndex,
         UNCHANGED <<children, tree, walked, trail>>,
         found' \subseteq DOMAIN tree
  PROVE  /\ ListedInv' /\ listing' # <<>> /\ pc' = "reading"
         /\ BuilderInv' /\ children' = <<>>
         /\ WalkType' /\ VisitedListed'
         /\ WalkInv' /\ AboveTarget' /\ AboveEntry' /\ AboveNode'
<1>1. Fresh /\ TreeType /\ walked = {} /\ trail = <<>>
  BY DEF BackupInv, WalkStarts, Unwalked
<1>2. /\ ListedInv' /\ listing' # <<>> /\ pc' = "reading" /\ BuilderInv'
      /\ Listed' = {} /\ Target' = <<>>
  BY <1>1, FreshIndex
<1>3. children' = <<>>
  BY <1>1 DEF Fresh
<1>4. WalkType' /\ VisitedListed' /\ WalkInv'
  BY <1>1, <1>2 DEF WalkInv, WalkType, VisitedListed, TreeType
<1>5. ASSUME NEW x \in Seq(Segments) PROVE IsPrefix(x, <<>>) <=> x = <<>>
  BY PrefixOfEmpty
<1>6. AboveTarget' /\ AboveEntry'
  BY <1>1, <1>2, <1>5 DEF AboveTarget, AboveEntry
<1>7. AboveNode'
  <2>1. IsPrefix(<<>>, <<>>)
    <3>1. <<>> \in Seq(Segments)
      OBVIOUS
    <3> QED
      BY <3>1, PrefixOfEmpty
  <2> QED
    BY <2>1, <1>1, <1>2 DEF AboveNode
<1> QED
  BY <1>2, <1>3, <1>4, <1>6, <1>7

LEMMA BeforeWalk ==
  ASSUME BackupInv, phase \in {"walk", "traversal"}
  PROVE  /\ Gathered /\ ListedInv /\ result = "running" /\ found = DOMAIN tree
         /\ attempt \in Nat /\ record \in Nat
         /\ Fresh /\ WalkType
<1>1. Fresh /\ Unwalked
  BY DEF BackupInv, WalkStarts
<1>2. trail \in Seq(Names) /\ walked \subseteq found
  BY <1>1 DEF Unwalked
<1> QED
  BY <1>1, <1>2 DEF BackupInv, Counters, Unwalked, Running, WalkType

(* Nothing but a panic comes before the first record.                      *)
LEMMA PanicsAtOnce ==
  ASSUME Gathered, ListedInv, attempt \in Nat, record \in Nat,
         UNCHANGED <<indexVars, attempt, record, gathered, tree, misrooted>>,
         NEW how, End(how), how # "ok", PanicsOnlyThere'
  PROVE  BackupInv'
<1>1. Gathered' /\ attempt' \in Nat /\ record' \in Nat
  BY DEF Gathered
<1>2. ListedInv'
  BY ListingStays DEF indexVars
<1>3. phase' = "ended" /\ SuccessListsEverything'
  BY DEF End, SuccessListsEverything
<1> QED
  BY <1>1, <1>2, <1>3, EndsWell

LEMMA WalkRootKeeps == BackupInv /\ WalkRoot => BackupInv'
<1> SUFFICES ASSUME BackupInv, WalkRoot PROVE BackupInv'
  OBVIOUS
<1>1. /\ phase = "walk"
      /\ UNCHANGED <<canceled, attempt, record, gathered, children, tree, found, walked, trail, misrooted>>
  BY DEF WalkRoot, mftVars, walkVars
<1>2. /\ Gathered /\ ListedInv /\ result = "running" /\ found = DOMAIN tree
      /\ attempt \in Nat /\ record \in Nat
  BY <1>1, BeforeWalk
<1>3. Gathered' /\ attempt' \in Nat /\ record' \in Nat
  BY <1>1, <1>2 DEF Gathered
<1>4. CASE tree = <<>> /\ End("root is a file") /\ UNCHANGED indexVars
  <2>1. PanicsOnlyThere'
    BY <1>1, <1>4 DEF PanicsOnlyThere, End
  <2> QED
    BY <2>1, <1>1, <1>2, <1>4, PanicsAtOnce
<1>5. CASE Continue("walking") /\ OpenIndex
  <2>2. /\ ListedInv' /\ listing' # <<>> /\ pc' = "reading"
        /\ BuilderInv' /\ children' = <<>>
        /\ WalkType' /\ VisitedListed'
        /\ WalkInv' /\ AboveTarget' /\ AboveEntry'
    BY <1>1, <1>2, <1>5, WalkStartsWell
  <2>3. phase' = "walking" /\ result' = "running"
    BY <1>2, <1>5 DEF Continue
  <2>4. Counters'
    BY <2>3, <1>3 DEF Counters
  <2>5. Scanned' /\ GoesOn'
    BY <2>2, <2>3, <1>1, <1>2 DEF Scanned, GoesOn, WalkingGoes
  <2> QED
    BY <2>2, <2>3, <2>4, <2>5, <1>3, ScanStarts
<1> QED
  BY <1>4, <1>5 DEF WalkRoot

(* Without the record of the root nothing was listed yet.                  *)
LEMMA StillRootless ==
  ASSUME Gathered, attempt \in Nat, record \in Nat, Fresh, WalkType', found' = DOMAIN tree', misrooted',
         UNCHANGED <<indexVars, attempt, record, gathered, children>>,
         phase' = "rootless", result' = "running"
  PROVE  BackupInv'
<1>1. Gathered' /\ Fresh'
  BY DEF Gathered, Fresh, indexVars
<1>2. ListedInv'
  BY <1>1, NothingListed DEF Fresh
<1>3. Counters'
  BY DEF Counters
<1> QED
  BY <1>1, <1>2, <1>3, StillRuns
     DEF BackupInv, StartInv, WalkStarts, RootlessInv, ScanInv, GoesOn, WritingInv, Running

LEMMA LeaveOutRootKeeps == BackupInv /\ LeaveOutRoot => BackupInv'
<1> SUFFICES ASSUME BackupInv, LeaveOutRoot PROVE BackupInv'
  OBVIOUS
<1>1. /\ phase = "walk" /\ Continue("rootless") /\ misrooted'
      /\ UNCHANGED <<indexVars, attempt, record, gathered, children, tree, found, walked, trail>>
  BY DEF LeaveOutRoot, mftVars
<1>2. /\ Gathered /\ result = "running" /\ found = DOMAIN tree
      /\ attempt \in Nat /\ record \in Nat /\ Fresh /\ WalkType
  BY <1>1, BeforeWalk
<1>3. WalkType' /\ found' = DOMAIN tree'
  BY <1>1, <1>2 DEF WalkType, TreeType
<1>4. phase' = "rootless" /\ result' = "running"
  BY <1>1, <1>2 DEF Continue
<1> QED
  BY <1>1, <1>2, <1>3, <1>4, StillRootless

LEMMA InRootless ==
  ASSUME BackupInv, phase = "rootless"
  PROVE  /\ Gathered /\ ListedInv /\ result = "running" /\ found = DOMAIN tree
         /\ attempt \in Nat /\ record \in Nat
         /\ Fresh /\ WalkType /\ misrooted
BY DEF BackupInv, RootlessInv, Counters, Running

LEMMA NoRecordKeeps == BackupInv /\ NoRecord => BackupInv'
<1> SUFFICES ASSUME BackupInv, NoRecord PROVE BackupInv'
  OBVIOUS
<1>1. /\ phase = "rootless" /\ (walked = found \/ canceled) /\ End("no record")
      /\ UNCHANGED <<indexVars, canceled, attempt, record, gathered, tree, found, walked, misrooted>>
  BY DEF NoRecord, mftVars, walkVars
<1>2. /\ Gathered /\ ListedInv /\ attempt \in Nat /\ record \in Nat
      /\ misrooted /\ found = DOMAIN tree
  BY <1>1, InRootless
<1>3. PanicsOnlyThere'
  BY <1>1, <1>2 DEF PanicsOnlyThere, End
<1> QED
  BY <1>1, <1>2, <1>3, PanicsAtOnce

LEMMA ListFirstKeeps ==
  ASSUME NEW p
  PROVE  BackupInv /\ ListFirst(p) => BackupInv'
<1> SUFFICES ASSUME BackupInv, ListFirst(p) PROVE BackupInv'
  OBVIOUS
<1>1. /\ phase = "rootless" /\ WalkNext(p)
      /\ IF IsFolderPath(p) THEN Continue("walking") /\ OpenIndex
                            ELSE End("root is a file") /\ UNCHANGED indexVars
  BY DEF ListFirst
<1>2. /\ Gathered /\ ListedInv /\ attempt \in Nat /\ record \in Nat
      /\ Fresh /\ WalkType /\ misrooted /\ found = DOMAIN tree /\ result = "running"
  BY <1>1, InRootless
<1>3. NextEntry(p) /\ UNCHANGED <<attempt, record>>
  BY <1>1, <1>2, NextEntryMeans DEF WalkNext, mftVars
<1>4. WalkType' /\ Gathered' /\ misrooted' /\ attempt' \in Nat /\ record' \in Nat
      /\ UNCHANGED <<gathered, tree, found, children>>
  BY <1>2, <1>3, NextWalkType DEF NextEntry, Gathered
<1>5. CASE Continue("walking") /\ OpenIndex
  <2>1. ListedInv' /\ listing' # <<>> /\ pc' = "reading"
    BY <1>2, <1>5, FreshIndex
  <2>2. phase' = "walking" /\ result' = "running"
    BY <1>2, <1>5 DEF Continue
  <2>3. Counters'
    BY <1>4, <2>2 DEF Counters
  <2>4. children' = <<>> /\ found' = DOMAIN tree' /\ VisitedListed' /\ ~Sound'
    BY <1>2, <1>4 DEF Fresh, VisitedListed, Sound
  <2>5. Scanned' /\ GoesOn'
    BY <1>4, <2>1, <2>2, <2>4 DEF Scanned, GoesOn, WalkingGoes
  <2> QED
    BY <1>4, <2>1, <2>2, <2>3, <2>5, ScanStarts
<1>6. CASE ~IsFolderPath(p) /\ End("root is a file") /\ UNCHANGED indexVars
  <2>1. ~tree'[p] /\ p \in walked'
    BY <1>3, <1>6 DEF IsFolderPath, NextEntry
  <2>2. PanicsOnlyThere'
    BY <1>4, <1>6, <2>1 DEF PanicsOnlyThere, End
  <2>3. UNCHANGED misrooted
    BY <1>3 DEF NextEntry
  <2> QED
    BY <1>2, <1>3, <1>4, <1>6, <2>2, <2>3, PanicsAtOnce
<1> QED
  BY <1>1, <1>5, <1>6

LEMMA TraverseKeeps == BackupInv /\ Traverse => BackupInv'
<1> SUFFICES ASSUME BackupInv, Traverse PROVE BackupInv'
  OBVIOUS
<1>1. /\ phase = "traversal"
      /\ UNCHANGED <<canceled, attempt, record, gathered, children, tree, walked, trail, misrooted>>
  BY DEF Traverse, mftVars
<1>2. /\ Gathered /\ ListedInv /\ result = "running"
      /\ attempt \in Nat /\ record \in Nat
  BY <1>1, BeforeWalk
<1>3. Gathered' /\ attempt' \in Nat /\ record' \in Nat
  BY <1>1, <1>2 DEF Gathered
<1>4. CASE End("error") /\ UNCHANGED indexVars
  <2>1. ListedInv'
    BY <1>1, <1>2, <1>4, ListingStays DEF indexVars
  <2>2. phase' = "ended" /\ result' = "error"
    BY <1>4 DEF End
  <2> QED
    BY <2>1, <2>2, <1>3, StillRuns, EndsWell
<1>5. CASE /\ Continue("nodes")
           /\ OpenIndex
           /\ found' \in {f \in SUBSET DOMAIN tree : \A p \in f : Len(p) > 1 => Front(p) \in f}
           /\ found' = DOMAIN tree \/ canceled
  <2>1. found' \subseteq DOMAIN tree
    BY <1>5
  <2>2. /\ ListedInv' /\ listing' # <<>> /\ pc' = "reading"
        /\ BuilderInv' /\ children' = <<>>
        /\ WalkInv' /\ AboveTarget' /\ AboveNode'
    BY <2>1, <1>1, <1>5, WalkStartsWell
  <2>3. phase' = "nodes" /\ result' = "running"
    BY <1>5, <1>2 DEF Continue
  <2>4. Counters'
    BY <2>3, <1>3 DEF Counters
  <2>5. Scanned'
    BY <2>2 DEF Scanned
  <2>6. GoesOn'
    BY <2>2, <2>3, <1>1, <1>5 DEF GoesOn, NodesGo
  <2> QED
    BY <2>2, <2>3, <2>4, <2>5, <2>6, <1>3, ScanStarts
<1> QED
  BY <1>4, <1>5 DEF Traverse

LEMMA WalkNextMeans ==
  ASSUME NEW p, WalkNext(p)
  PROVE  /\ pc = "reading"
         /\ UNCHANGED <<canceled, attempt, record, gathered, children, tree, found, misrooted>>
BY DEF WalkNext, mftVars

LEMMA SkipEntryKeeps ==
  ASSUME NEW p
  PROVE  BackupInv /\ SkipEntry(p) => BackupInv'
<1> SUFFICES ASSUME BackupInv, SkipEntry(p) PROVE BackupInv'
  OBVIOUS
<1>1. /\ WalkNext(p) /\ phase \in {"walking", "rootless"}
      /\ UNCHANGED <<indexVars, listing, parents, item, phase, result>>
      /\ pc = "reading"
      /\ UNCHANGED <<canceled, attempt, record, gathered, children, tree, found, misrooted>>
  BY WalkNextMeans DEF SkipEntry, indexVars
<1>2. CASE phase = "walking"
  <2>1. ListedInv /\ listing # <<>> /\ WalkingGoes
    BY <1>1, <1>2, InScan
  <2>2. NextEntry(p)
    BY <1>1, <2>1, NextEntryMeans DEF WalkingGoes
  <2>3. WalkType'
    BY <2>1, <2>2, NextWalkType DEF WalkingGoes
  <2>4. VisitedListed'
    <3>1. Listed' = Listed /\ walked \subseteq walked'
      BY <1>1, <2>2 DEF Listed, NextEntry
    <3> QED
      BY <1>1, <2>1, <3>1 DEF WalkingGoes, VisitedListed
  <2>5. Sound' = Sound /\ ListedInv' /\ listing' # <<>> /\ pc' = "reading"
    BY <1>1, <2>1, SoundStays, ListingStays DEF indexVars
  <2>6. BuilderInv' = BuilderInv
    BY <1>1 DEF BuilderInv, Named, InOpenFolders, indexVars
  <2>7. Sound => WalkInv' /\ AboveTarget' /\ AboveEntry'
    BY <2>1, SkipEntryStep DEF WalkingGoes
  <2>8. GoesOn'
    BY <1>1, <1>2, <2>1, <2>3, <2>4, <2>5, <2>6, <2>7 DEF GoesOn, WalkingGoes
  <2> QED
    BY <1>1, <1>2, <2>5, <2>8, ScanGoesOn
<1>3. CASE phase = "rootless"
  <2>1. /\ Gathered /\ attempt \in Nat /\ record \in Nat /\ result = "running"
        /\ Fresh /\ WalkType /\ misrooted /\ found = DOMAIN tree
    BY <1>3, InRootless
  <2>2. WalkType'
    BY <1>1, <2>1, NextEntryMeans, NextWalkType
  <2>3. found' = DOMAIN tree' /\ misrooted' /\ phase' = "rootless" /\ result' = "running"
    BY <1>1, <1>3, <2>1
  <2> QED
    BY <1>1, <2>1, <2>2, <2>3, StillRootless
<1> QED
  BY <1>1, <1>2, <1>3

LEMMA ListEntryKeeps ==
  ASSUME NEW p
  PROVE  BackupInv /\ ListEntry(p) => BackupInv'
<1> SUFFICES ASSUME BackupInv, ListEntry(p) PROVE BackupInv'
  OBVIOUS
<1>1. /\ phase = "walking" /\ pc = "reading"
      /\ UNCHANGED <<canceled, attempt, record, gathered, children, tree, found, misrooted>>
  BY WalkNextMeans DEF ListEntry
<1>2. ListedInv /\ listing # <<>> /\ WalkingGoes
  BY <1>1, InScan
<1>3. /\ Sound' = Sound
      /\ \/ /\ WalkType' /\ VisitedListed' /\ ListedInv' /\ listing' # <<>>
            /\ Sound => BuilderInv' /\ WalkInv' /\ AboveTarget' /\ AboveEntry'
            /\ pc' \in {"reading", "adding"} /\ UNCHANGED <<phase, result>>
         \/ /\ UNCHANGED listing /\ End("not in open folder")
            /\ ~Sound \/ FolderLeftOut'
  BY <1>2, ListEntryStep DEF WalkingGoes
<1>4. CASE /\ WalkType' /\ VisitedListed' /\ ListedInv' /\ listing' # <<>>
           /\ Sound => BuilderInv' /\ WalkInv' /\ AboveTarget' /\ AboveEntry'
           /\ pc' \in {"reading", "adding"} /\ UNCHANGED <<phase, result>>
  <2>1. GoesOn'
    BY <1>1, <1>2, <1>3, <1>4 DEF GoesOn, WalkingGoes
  <2> QED
    BY <2>1, <1>1, <1>4, ScanGoesOn
<1>5. CASE /\ UNCHANGED listing /\ End("not in open folder")
           /\ ~Sound \/ FolderLeftOut'
  BY <1>1, <1>5, RefusedRecord
<1> QED
  BY <1>3, <1>4, <1>5

LEMMA ListNodeKeeps ==
  ASSUME NEW p
  PROVE  BackupInv /\ ListNode(p) => BackupInv'
<1> SUFFICES ASSUME BackupInv, ListNode(p) PROVE BackupInv'
  OBVIOUS
<1>1. /\ phase = "nodes" /\ pc = "reading"
      /\ UNCHANGED <<canceled, attempt, record, gathered, children, tree, found, misrooted>>
  BY WalkNextMeans DEF ListNode
<1>2. ListedInv /\ listing # <<>> /\ NodesGo /\ (found = DOMAIN tree \/ canceled)
  BY <1>1, InScan
<1>3. \/ /\ WalkInv' /\ AboveTarget' /\ AboveNode' /\ BuilderInv' /\ ListedInv'
         /\ listing' # <<>> /\ pc' = "adding" /\ UNCHANGED <<phase, result>>
      \/ /\ UNCHANGED listing
         /\ \/ End("not in open folder") /\ BlankWalked'
            \/ End("separator") /\ SeparatorWalked'
  BY <1>2, ListNodeStep DEF NodesGo
<1>4. CASE /\ WalkInv' /\ AboveTarget' /\ AboveNode' /\ BuilderInv' /\ ListedInv'
           /\ listing' # <<>> /\ pc' = "adding" /\ UNCHANGED <<phase, result>>
  <2>1. GoesOn'
    BY <1>1, <1>2, <1>4 DEF GoesOn, NodesGo
  <2> QED
    BY <2>1, <1>1, <1>4, ScanGoesOn
<1>5. CASE UNCHANGED listing /\ End("not in open folder") /\ BlankWalked'
  BY <1>1, <1>5, RefusedRecord
<1>6. CASE UNCHANGED listing /\ End("separator") /\ SeparatorWalked'
  <2>1. Gathered /\ ListedInv /\ attempt \in Nat /\ record \in Nat
    BY <1>1, InScan
  <2>2. Gathered' /\ ListedInv'
    BY <1>1, <1>6, <2>1, ListingStays DEF Gathered
  <2>3. phase' = "ended" /\ PanicsOnlyThere' /\ SuccessListsEverything'
    BY <1>6 DEF PanicsOnlyThere, SuccessListsEverything, SeparatorWalked, End
  <2> QED
    BY <1>1, <2>1, <2>2, <2>3, EndsWell
<1> QED
  BY <1>3, <1>4, <1>5, <1>6

LEMMA EndOfWalkKeeps == BackupInv /\ EndOfWalk => BackupInv'
<1> SUFFICES ASSUME BackupInv, EndOfWalk PROVE BackupInv'
  OBVIOUS
<1>1. /\ phase \in {"walking", "nodes"} /\ pc = "reading" /\ pc' = "finishing"
      /\ (walked = found \/ (phase = "walking" /\ canceled))
      /\ UNCHANGED <<listing, phase, result, canceled>>
      /\ UNCHANGED <<attempt, record, gathered, children, tree, walked, misrooted>>
  BY DEF EndOfWalk, EndOfRecords, mftVars, walkVars
<1>2. /\ ListedInv /\ listing # <<>> /\ children = <<>>
      /\ (found = DOMAIN tree \/ canceled)
  BY <1>1, InScan DEF WalkingGoes, NodesGo
<1>3. ListedInv' /\ listing' # <<>>
  BY <1>1, <1>2, ListingStays
<1>4. misrooted \/ Listed \subseteq {Cut(p) : p \in walked}
  <2>1. CASE phase = "walking"
    BY <1>1, <2>1, InScan DEF WalkingGoes, VisitedListed
  <2>2. CASE phase = "nodes"
    <3>1. Listed \subseteq walked /\ AboveNode
      BY <1>1, <2>2, InScan DEF NodesGo, WalkInv
    <3>2. \A p \in walked : Cut(p) = p
      BY <3>1, WholeCut DEF AboveNode
    <3> QED
      BY <3>1, <3>2
  <2> QED
    BY <1>1, <2>1, <2>2
<1>5. canceled \/ misrooted \/ Complete
  BY <1>1, <1>2, <1>4 DEF Complete
<1>6. Complete => Complete'
  BY <1>1, SameComplete
<1> QED
  BY <1>1, <1>3, <1>5, <1>6, ScanFinishes

-------------------------------------------------------------------------------
(* Writing.                                                                *)
LEMMA StartWritingKeeps == BackupInv /\ StartWriting => BackupInv'
<1> SUFFICES ASSUME BackupInv, StartWriting PROVE BackupInv'
  OBVIOUS
<1>1. /\ phase \in {"listing", "walking", "nodes"} /\ pc = "finishing"
      /\ phase' = "writing" /\ UNCHANGED <<listing, result, canceled>>
      /\ UNCHANGED <<attempt, record, gathered, children, tree, walked, misrooted>>
  BY DEF StartWriting, Built, Continue, mftVars, walkVars
<1>2. /\ Gathered /\ ListedInv /\ (~canceled /\ ~misrooted => Complete)
      /\ result = "running" /\ attempt \in Nat /\ record \in Nat
  BY <1>1, InScan
<1>3. Gathered' /\ ListedInv'
  BY <1>1, <1>2, ListingStays DEF Gathered
<1>4. Complete => Complete'
  BY <1>1, SameComplete
<1>5. Counters' /\ WritingInv'
  BY <1>1, <1>2, <1>4 DEF Counters, WritingInv
<1>6. SuccessListsEverything' /\ PanicsOnlyThere'
  BY <1>1, <1>2, StillRuns
<1> QED
  BY <1>1, <1>2, <1>3, <1>5, <1>6
     DEF BackupInv, StartInv, WalkStarts, RootlessInv, ScanInv, GoesOn, Running

LEMMA WriteSomeKeeps == BackupInv /\ WriteSome => BackupInv'
<1> SUFFICES ASSUME BackupInv, WriteSome PROVE BackupInv'
  OBVIOUS
<1>1. SameScan /\ UNCHANGED <<phase, result, attempt, record, canceled>>
  BY DEF WriteSome, SameScan, mftVars
<1>2. Counters'
  BY <1>1 DEF BackupInv, Counters
<1> QED
  BY <1>1, <1>2, NothingHappens

LEMMA WriteFailsKeeps == BackupInv /\ WriteFails => BackupInv'
<1> SUFFICES ASSUME BackupInv, WriteFails PROVE BackupInv'
  OBVIOUS
<1>1. /\ UNCHANGED <<indexVars, gathered, walkVars>> /\ End("error")
      /\ attempt' = attempt /\ record' = record
  BY DEF WriteFails, mftVars
<1>2. attempt' \in Nat /\ record' \in Nat
  BY <1>1 DEF BackupInv, Counters
<1> QED
  BY <1>1, <1>2, EndsInError

LEMMA WriteRestKeeps == BackupInv /\ WriteRest => BackupInv'
<1> SUFFICES ASSUME BackupInv, WriteRest PROVE BackupInv'
  OBVIOUS
<1>1. /\ phase = "writing" /\ ~canceled /\ End("ok")
      /\ SameScan /\ UNCHANGED <<attempt, record>>
  BY DEF WriteRest, MayWrite, SameScan, mftVars
<1>2. /\ (misrooted \/ Complete) /\ Gathered /\ ListedInv
      /\ attempt \in Nat /\ record \in Nat
  BY <1>1 DEF BackupInv, WritingInv, Counters
<1>3. (misrooted' \/ Complete') /\ Gathered' /\ ListedInv'
  BY <1>1, <1>2, SameParts DEF SameScan, walkVars
<1>4. phase' = "ended" /\ result' = "ok"
  BY <1>1 DEF End
<1>5. SuccessListsEverything' /\ PanicsOnlyThere'
  BY <1>3, <1>4 DEF SuccessListsEverything, PanicsOnlyThere
<1> QED
  BY <1>1, <1>2, <1>3, <1>4, <1>5, EndsWell

-------------------------------------------------------------------------------
LEMMA BackupStarts == BackupInit => BackupInv
<1> SUFFICES ASSUME BackupInit PROVE BackupInv
  OBVIOUS
<1>1. /\ phase = "start" /\ result = "running" /\ attempt = 0 /\ record = 0
      /\ listing = <<>> /\ pc = "reading" /\ gathered = <<>> /\ children = <<>>
      /\ tree = <<>> /\ found = {} /\ walked = {} /\ trail = <<>>
  BY DEF BackupInit
<1>2. Gathered
  BY <1>1 DEF Gathered
<1>3. ListedInv
  BY <1>1 DEF ListedInv, NothingListedTwice
<1>4. Counters
  BY <1>1 DEF Counters
<1>5. Fresh /\ Unwalked
  BY <1>1 DEF Fresh, Unwalked, TreeType
<1>6. SuccessListsEverything /\ PanicsOnlyThere
  BY <1>1 DEF SuccessListsEverything, PanicsOnlyThere
<1> QED
  BY <1>1, <1>2, <1>3, <1>4, <1>5, <1>6
     DEF BackupInv, StartInv, WalkStarts, RootlessInv, ScanInv, GoesOn, WritingInv, Running

LEMMA BackupKept == BackupInv /\ [Next]_vars => BackupInv'
<1> SUFFICES ASSUME BackupInv, [Next]_vars PROVE BackupInv'
  OBVIOUS
<1>1. CASE Cancel \/ Refused \/ CreateOutput
  BY <1>1, CancelKeeps, RefusedKeeps, CreateOutputKeeps
<1>2. CASE StartAttempt \/ Gather \/ CanceledInRecords \/ FixDuplicates
  BY <1>2, StartAttemptKeeps, GatherKeeps, CanceledInRecordsKeeps, FixDuplicatesKeeps
<1>3. CASE LeaveOpen \/ SkipRemoved \/ ListChild \/ EndOfListing
  BY <1>3, LeaveOpenKeeps, SkipRemovedKeeps, ListChildKeeps, EndOfListingKeeps
<1>4. CASE WalkRoot \/ LeaveOutRoot \/ NoRecord \/ Traverse
  BY <1>4, WalkRootKeeps, LeaveOutRootKeeps, NoRecordKeeps, TraverseKeeps
<1>5. CASE \E p \in found : SkipEntry(p) \/ ListFirst(p) \/ ListEntry(p) \/ ListNode(p)
  BY <1>5, SkipEntryKeeps, ListFirstKeeps, ListEntryKeeps, ListNodeKeeps
<1>6. CASE EndOfWalk \/ Build
  BY <1>6, EndOfWalkKeeps, BuildKeeps
<1>7. CASE StartWriting \/ WriteSome \/ WriteFails \/ WriteRest
  BY <1>7, StartWritingKeeps, WriteSomeKeeps, WriteFailsKeeps, WriteRestKeeps
<1>8. CASE Ended \/ UNCHANGED vars
  BY <1>8, StutterKeeps DEF Ended
<1> QED
  BY <1>1, <1>2, <1>3, <1>4, <1>5, <1>6, <1>7, <1>8 DEF Next

LEMMA BackupCorrect == Spec => []BackupInv
<1> QED
  BY BackupStarts, BackupKept, PTL DEF Spec

(* A backup that succeeds lists no path that is not there and has looked   *)
(* at each one that is, whatever the MFT holds, in whatever order the map  *)
(* gives its entries, whatever names split into several, wherever a        *)
(* request to cancel arrives; the walk that had to leave out its own root  *)
(* is the exception (scan_using_mft, parse_mft, scan_cross_platform,       *)
(* edirstat_backup, from_csv_records).                                     *)
THEOREM BackupComplete == Spec => []SuccessListsEverything
<1>1. BackupInv => SuccessListsEverything
  BY DEF BackupInv
<1> QED
  BY BackupCorrect, <1>1, PTL

(* No path is listed twice, whatever names without separators and whatever *)
(* parents the records of the MFT have (parse_mft, "Fix duplicate          *)
(* records"), and whatever a walk leaves out below its root.               *)
THEOREM ListedOnce == Spec => []NothingListedTwice
<1>1. BackupInv => NothingListedTwice
  BY DEF BackupInv, ListedInv
<1> QED
  BY BackupCorrect, <1>1, PTL

(* The command panics only where PanicsOnlyThere says: the builder takes   *)
(* every listing of the MFT with whole names and every walk that leaves    *)
(* out no folder, and the loop over the attempts does not run out of them  *)
(* (backup.rs, mft.rs, edirstat_snapshot.rs, fs_index.rs).                 *)
THEOREM KnownPanicsOnly == Spec => []PanicsOnlyThere
<1>1. BackupInv => PanicsOnlyThere
  BY DEF BackupInv
<1> QED
  BY BackupCorrect, <1>1, PTL

-------------------------------------------------------------------------------
(* The reader of the volume (MftReader).                                   *)

(* What is buffered are the bytes before the position of the SectorReader. *)
BufferInv ==
  \E len \in 0..stream : buffer = Bytes(stream - len, len)

(* What is cached are bytes of the volume, each where it was read.         *)
IsBytes(entry) ==
  \E at, len \in 0..Size : /\ at + len <= Size
                           /\ entry = [at |-> at, data |-> Bytes(at, len)]

CacheInv ==
  /\ cached \in Seq([at : 0..Size, data : Seq(Int)])
  /\ \A i \in 1..Len(cached) : IsBytes(cached[i])

ReaderInv ==
  /\ stream \in 0..Size
  /\ BufferInv
  /\ CacheInv
  /\ keeps \in BOOLEAN

-------------------------------------------------------------------------------
LEMMA AlignBounds ==
  ASSUME NEW n \in Nat
  PROVE  /\ AlignDown(n) \in Nat
         /\ AlignDown(n) <= n
         /\ n < AlignDown(n) + Sector
BY ReaderAssumption DEF AlignDown

LEMMA BytesType ==
  ASSUME NEW at \in Nat, NEW len \in Nat
  PROVE  /\ Bytes(at, len) \in Seq(Int)
         /\ Len(Bytes(at, len)) = len
         /\ \A i \in 1..len : Bytes(at, len)[i] = at + i - 1
BY DEF Bytes

(* The next bytes of a sequence, after the first. *)
Part(s, first, count) == SubSeq(s, first + 1, first + count)

(* A part of the bytes of a volume is bytes of the volume. *)
LEMMA PartOfBytes ==
  ASSUME NEW at \in Nat, NEW len \in Nat, NEW first \in Nat, NEW count \in Nat,
         first + count <= len
  PROVE  Part(Bytes(at, len), first, count) = Bytes(at + first, count)
<1> DEFINE part == SubSeq(Bytes(at, len), first + 1, first + count)
<1>1. Bytes(at, len) \in Seq(Int) /\ Len(Bytes(at, len)) = len
  BY BytesType
<1>2. part \in Seq(Int) /\ Len(part) = count
  BY <1>1
<1>3. at + first \in Nat
  OBVIOUS
<1>4. Bytes(at + first, count) \in Seq(Int) /\ Len(Bytes(at + first, count)) = count
  BY <1>3, BytesType
<1>5. ASSUME NEW i \in 1..count
      PROVE  part[i] = Bytes(at + first, count)[i]
  <2>1. part[i] = Bytes(at, len)[first + i]
    BY <1>1
  <2>2. first + i \in 1..len
    OBVIOUS
  <2>3. Bytes(at, len)[first + i] = at + (first + i) - 1
    BY <2>2, BytesType
  <2>4. Bytes(at + first, count)[i] = (at + first) + i - 1
    BY <1>3, BytesType
  <2> QED
    BY <2>1, <2>3, <2>4
<1> HIDE DEF part
<1>6. part = Bytes(at + first, count)
  BY <1>2, <1>4, <1>5
<1> QED
  BY <1>6 DEF part, Part

-------------------------------------------------------------------------------
LEMMA PositionBounds ==
  ASSUME ReaderInv
  PROVE  Position \in 0..Size /\ Len(buffer) \in Nat /\ Position + Len(buffer) = stream
<1>1. PICK len \in 0..stream : buffer = Bytes(stream - len, len)
  BY DEF ReaderInv, BufferInv
<1>2. stream - len \in Nat /\ len \in Nat
  BY ReaderAssumption DEF ReaderInv
<1>3. Len(buffer) = len
  BY <1>1, <1>2, BytesType
<1> QED
  BY <1>2, <1>3, ReaderAssumption DEF ReaderInv, Position

(* The SectorReader gives the bytes at its position, if the volume is at   *)
(* the start of a sector.                                                  *)
LEMMA SectorBytesAreThere ==
  ASSUME ReaderInv, NEW n \in Nat, ~SectorFails(Realigned, n)
  PROVE  SectorBytes(Realigned, n) = Bytes(stream, n) /\ stream + n <= Size
<1>1. stream \in Nat /\ Size \in Nat /\ Sector \in Nat
  BY ReaderAssumption DEF ReaderInv
<1>2. Realigned \in Nat /\ Realigned <= stream
  BY <1>1, AlignBounds DEF Realigned, Aligned
<1>3. Start = stream - Realigned /\ Start \in Nat
  BY <1>1, <1>2 DEF Start, Realigned, Aligned
<1>4. Wanted(n) \in Nat /\ Start + n <= Wanted(n)
  <2>1. Start + n \in Nat
    BY <1>3
  <2> QED
    BY <2>1, <1>1, AlignBounds DEF Wanted, AlignUp
<1>5. Part(Bytes(Realigned, Wanted(n)), Start, n) = Bytes(Realigned + Start, n)
  BY <1>2, <1>3, <1>4, PartOfBytes
<1>6. stream + n <= Size
  BY <1>1, <1>2, <1>3, <1>4 DEF SectorFails
<1>7. Realigned + Start = stream
  BY <1>1, <1>2, <1>3
<1> QED
  BY <1>5, <1>6, <1>7 DEF SectorBytes, Part

(* A read that gives the bytes at the position, and moves it behind them.  *)
Reads(n) ==
  \E len \in 0..n :
    /\ Position + len <= Size
    /\ got' = Bytes(Position, len)
    /\ Position' = Position + len

LEMMA ReadsImplementRead ==
  ASSUME NEW n \in 1..MaxRead, Reads(n)
  PROVE  Stream!Next
BY DEF Reads, Bytes, Stream!Next, Stream!Read

(* What is added to the cache are the bytes at the position of the read.   *)
LEMMA KeepInv ==
  ASSUME ReaderInv, NEW len \in Nat, Position + len <= Size,
         got' = Bytes(Position, len), Keep(got')
  PROVE  CacheInv'
<1>1. Position \in 0..Size /\ len \in 0..Size
  BY PositionBounds, ReaderAssumption
<1>2. CASE UNCHANGED cached
  BY <1>2 DEF ReaderInv, CacheInv, IsBytes
<1>3. CASE cached' = Append(cached, KeptAt(got'))
  <2> DEFINE kept == [at |-> Position, data |-> Bytes(Position, len)]
  <2>1. cached' = Append(cached, kept)
    BY <1>3 DEF KeptAt
  <2>2. kept \in [at : 0..Size, data : Seq(Int)]
    BY <1>1, BytesType
  <2>3. IsBytes(kept)
    BY <1>1 DEF IsBytes
  <2> HIDE DEF kept
  <2>4. cached \in Seq([at : 0..Size, data : Seq(Int)])
    BY DEF ReaderInv, CacheInv
  <2>5. cached' \in Seq([at : 0..Size, data : Seq(Int)]) /\ Len(cached') = Len(cached) + 1
    BY <2>1, <2>2, <2>4
  <2>6. \A i \in 1..Len(cached') : IsBytes(cached'[i])
    BY <2>1, <2>3, <2>4, <2>5 DEF ReaderInv, CacheInv
  <2> QED
    BY <2>5, <2>6 DEF CacheInv, IsBytes
<1> QED
  BY <1>2, <1>3 DEF Keep

-------------------------------------------------------------------------------
LEMMA InitReader == ReaderInit => ReaderInv /\ Stream!Init
<1> SUFFICES ASSUME ReaderInit PROVE ReaderInv /\ Stream!Init
  OBVIOUS
<1>1. stream = 0 /\ buffer = <<>> /\ cached = <<>> /\ keeps = TRUE /\ got = <<>>
  BY DEF ReaderInit
<1>2. BufferInv
  BY <1>1 DEF BufferInv, Bytes
<1>3. CacheInv
  BY <1>1 DEF CacheInv
<1>4. ReaderInv
  BY <1>1, <1>2, <1>3, ReaderAssumption DEF ReaderInv
<1>5. stream = 0 /\ Len(buffer) = 0
  BY <1>1
<1>6. Position = 0
  <2>1. stream - Len(buffer) = 0
    BY <1>5
  <2> QED
    BY <2>1 DEF Position
<1> QED
  BY <1>1, <1>4, <1>6 DEF Stream!Init

(* A seek, whose buffer is empty. *)
LEMMA SeekToInv ==
  ASSUME ReaderInv, NEW p \in 0..Size, SeekTo(p), UNCHANGED <<cached, keeps>>
  PROVE  ReaderInv' /\ Position' = p
<1>1. stream' = p /\ buffer' = <<>>
  BY DEF SeekTo
<1>2. BufferInv'
  BY <1>1, ReaderAssumption DEF BufferInv, Bytes
<1>3. CacheInv'
  BY DEF ReaderInv, CacheInv, IsBytes
<1>4. Position' = p
  BY <1>1 DEF Position
<1> QED
  BY <1>1, <1>2, <1>3, <1>4 DEF ReaderInv

LEMMA ReadCachedStep ==
  ASSUME ReaderInv, NEW n \in 1..MaxRead, ReadCached(n)
  PROVE  ReaderInv' /\ Reads(n)
<1> DEFINE offset(hit) == Position - hit.at
           length(hit) == IF n < Len(hit.data) - offset(hit) THEN n
                          ELSE Len(hit.data) - offset(hit)
<1>1. PICK i \in Hits :
        /\ got' = SubSeq(cached[i].data, offset(cached[i]) + 1,
                         offset(cached[i]) + length(cached[i]))
        /\ SeekTo(Position + length(cached[i]))
        /\ UNCHANGED <<cached, keeps>>
  BY DEF ReadCached
<1>2. i \in 1..Len(cached)
  BY DEF Hits, ReaderInv, CacheInv
<1>3. PICK at \in 0..Size, len \in 0..Size :
        at + len <= Size /\ cached[i] = [at |-> at, data |-> Bytes(at, len)]
  BY <1>2 DEF ReaderInv, CacheInv, IsBytes
<1>4. at \in Nat /\ len \in Nat /\ n \in Nat /\ n >= 1 /\ Size \in Nat
  BY ReaderAssumption
<1>5. cached[i].at = at /\ cached[i].data = Bytes(at, len) /\ Len(cached[i].data) = len
  BY <1>3, <1>4, BytesType
<1>6. Position \in Nat /\ Position >= at /\ Position < at + len
  BY <1>4, <1>5, PositionBounds DEF Hits
<1> DEFINE from == Position - at
           taken == IF n < len - from THEN n ELSE len - from
<1>7. from \in Nat /\ taken \in Nat /\ taken <= n /\ from + taken <= len
  BY <1>4, <1>6
<1>8. offset(cached[i]) = from /\ length(cached[i]) = taken
  BY <1>5
<1>9. got' = Part(Bytes(at, len), from, taken) /\ SeekTo(Position + taken)
  BY <1>1, <1>5, <1>8 DEF Part
<1> HIDE DEF offset, length, taken
<1>10. got' = Bytes(Position, taken)
  <2>1. at + from = Position
    BY <1>4, <1>6
  <2> HIDE DEF from
  <2>2. Part(Bytes(at, len), from, taken) = Bytes(at + from, taken)
    BY <1>4, <1>7, PartOfBytes
  <2> QED
    BY <1>9, <2>1, <2>2
<1>11. Position + taken \in 0..Size
  BY <1>3, <1>4, <1>6, <1>7
<1>12. ReaderInv' /\ Position' = Position + taken
  BY <1>1, <1>9, <1>11, SeekToInv
<1>13. taken \in 0..n
  BY <1>4, <1>7
<1> QED
  BY <1>10, <1>11, <1>12, <1>13 DEF Reads

LEMMA BypassStep ==
  ASSUME ReaderInv, NEW n \in 1..MaxRead, Bypass(n)
  PROVE  ReaderInv' /\ Reads(n)
<1>1. n \in Nat /\ Size \in Nat /\ stream \in 0..Size
  BY ReaderAssumption DEF ReaderInv
<1>2. Position = stream
  BY DEF Bypass, Position, ReaderInv
<1>3. got' = Bytes(Position, n) /\ Position + n <= Size
  BY <1>1, <1>2, SectorBytesAreThere DEF Bypass
<1>4. stream' = stream + n /\ buffer' = <<>> /\ keeps' = keeps /\ Keep(got')
  BY DEF Bypass
<1>5. CacheInv'
  BY <1>1, <1>3, <1>4, KeepInv
<1>6. BufferInv'
  BY <1>1, <1>4 DEF BufferInv, Bytes
<1>7. stream' \in 0..Size /\ Position' = Position + n
  BY <1>1, <1>2, <1>3, <1>4 DEF Position
<1>8. ReaderInv'
  BY <1>4, <1>5, <1>6, <1>7 DEF ReaderInv
<1>9. n \in 0..n
  BY <1>1
<1> QED
  BY <1>3, <1>7, <1>8, <1>9 DEF Reads

(* Of m bytes at the position, the first are given out and the rest stays  *)
(* in the buffer.                                                          *)
LEMMA BufferedStep ==
  ASSUME ReaderInv, NEW n \in 1..MaxRead, NEW m \in Nat, Position + m <= Size,
         Buffered(Bytes(Position, m), Position + m, n)
  PROVE  ReaderInv' /\ Reads(n)
<1> DEFINE taken == IF n < m THEN n ELSE m
<1>1. Position \in Nat /\ n \in Nat /\ Size \in Nat
  BY PositionBounds, ReaderAssumption
<1>2. taken \in Nat /\ taken <= n /\ taken <= m
  BY <1>1
<1>3. Len(Bytes(Position, m)) = m
  BY <1>1, BytesType
<1>4. /\ got' = SubSeq(Bytes(Position, m), 1, taken)
      /\ buffer' = SubSeq(Bytes(Position, m), taken + 1, m)
      /\ stream' = Position + m
      /\ keeps' = keeps
      /\ Keep(got')
  BY <1>3 DEF Buffered
<1> HIDE DEF taken
<1>5. got' = Bytes(Position, taken)
  <2>1. 0 + taken <= m /\ 0 + taken = taken /\ 0 + 1 = 1 /\ Position + 0 = Position
    BY <1>1, <1>2
  <2>2. Part(Bytes(Position, m), 0, taken) = Bytes(Position + 0, taken)
    BY <1>1, <1>2, <2>1, PartOfBytes
  <2>3. SubSeq(Bytes(Position, m), 0 + 1, 0 + taken) = Bytes(Position + 0, taken)
    BY <2>2 DEF Part
  <2> QED
    BY <1>4, <2>1, <2>3
<1>6. buffer' = Bytes(Position + taken, m - taken)
  <2>1. m - taken \in Nat /\ taken + (m - taken) <= m /\ taken + (m - taken) = m
    BY <1>1, <1>2
  <2>2. Part(Bytes(Position, m), taken, m - taken) = Bytes(Position + taken, m - taken)
    BY <1>1, <1>2, <2>1, PartOfBytes
  <2>3. SubSeq(Bytes(Position, m), taken + 1, taken + (m - taken))
          = Bytes(Position + taken, m - taken)
    BY <2>2 DEF Part
  <2> QED
    BY <1>4, <2>1, <2>3
<1>7. m - taken \in 0..stream' /\ stream' - (m - taken) = Position + taken
  BY <1>1, <1>2, <1>4
<1>8. BufferInv'
  BY <1>6, <1>7 DEF BufferInv, Bytes
<1>9. Position' = Position + taken
  <2>1. Position + taken \in Nat /\ m - taken \in Nat
    BY <1>1, <1>2
  <2>2. Len(buffer') = m - taken
    BY <1>6, <2>1, BytesType
  <2> QED
    BY <1>7, <2>2 DEF Position
<1>10. Position + taken <= Size /\ taken \in 0..n /\ stream' \in 0..Size
  BY <1>1, <1>2, <1>4
<1>11. CacheInv'
  BY <1>2, <1>4, <1>5, <1>10, KeepInv
<1>12. ReaderInv'
  BY <1>4, <1>8, <1>10, <1>11 DEF ReaderInv
<1> QED
  BY <1>5, <1>9, <1>10, <1>12 DEF Reads

LEMMA FromBufferStep ==
  ASSUME ReaderInv, NEW n \in 1..MaxRead, FromBuffer(n)
  PROVE  ReaderInv' /\ Reads(n)
<1>1. PICK len \in 0..stream : buffer = Bytes(stream - len, len)
  BY DEF ReaderInv, BufferInv
<1>2. stream \in Nat /\ len \in Nat /\ stream - len \in Nat /\ stream <= Size
  BY ReaderAssumption DEF ReaderInv
<1>3. Len(buffer) = len
  BY <1>1, <1>2, BytesType
<1>4. Position = stream - len /\ Position + len = stream
  BY <1>2, <1>3 DEF Position
<1>5. Buffered(Bytes(Position, len), Position + len, n)
  BY <1>1, <1>4 DEF FromBuffer
<1> QED
  BY <1>2, <1>4, <1>5, BufferedStep

LEMMA FillStep ==
  ASSUME ReaderInv, NEW n \in 1..MaxRead, Fill(n)
  PROVE  ReaderInv' /\ Reads(n)
<1>1. Sector \in Nat
  BY ReaderAssumption
<1>2. Position = stream
  BY DEF Fill, Position, ReaderInv
<1>3. SectorBytes(Realigned, Sector) = Bytes(Position, Sector) /\ Position + Sector <= Size
  BY <1>1, <1>2, SectorBytesAreThere DEF Fill
<1>4. Buffered(Bytes(Position, Sector), Position + Sector, n)
  BY <1>2, <1>3 DEF Fill
<1> QED
  BY <1>1, <1>3, <1>4, BufferedStep

(* A step that moves no position. *)
LEMMA NoReadStep ==
  ASSUME ReaderInv, UNCHANGED <<stream, buffer, cached>>, keeps' \in BOOLEAN
  PROVE  ReaderInv' /\ Position' = Position
BY DEF ReaderInv, BufferInv, CacheInv, IsBytes, Position

LEMMA NextReader ==
  ReaderInv /\ [ReaderNext]_readerVars => ReaderInv' /\ [Stream!Next]_(Stream!vars)
<1> SUFFICES ASSUME ReaderInv, [ReaderNext]_readerVars
             PROVE  ReaderInv' /\ [Stream!Next]_(Stream!vars)
  OBVIOUS
<1>1. ASSUME NEW n \in 1..MaxRead,
             ReadCached(n) \/ Bypass(n) \/ FromBuffer(n) \/ Fill(n)
      PROVE  ReaderInv' /\ Stream!Next
  <2>1. ReaderInv' /\ Reads(n)
    BY <1>1, ReadCachedStep, BypassStep, FromBufferStep, FillStep
  <2> QED
    BY <2>1, ReadsImplementRead
<1>2. ASSUME NEW n \in 1..MaxRead, ReadFails(n)
      PROVE  ReaderInv' /\ Stream!Next
  <2>1. ReaderInv' /\ Position' = Position
    BY <1>2, NoReadStep DEF ReadFails, ReaderInv
  <2> QED
    BY <1>2, <2>1 DEF ReadFails, Stream!Next, Stream!Fail
<1>3. ASSUME NEW p \in 0..Size, Seek(p)
      PROVE  ReaderInv' /\ Stream!Next
  <2>1. ReaderInv' /\ Position' = p
    BY <1>3, SeekToInv DEF Seek
  <2> QED
    BY <1>3, <2>1 DEF Seek, Stream!Next, Stream!Seek
<1>4. CASE StopKeeping
  <2>1. ReaderInv' /\ Position' = Position
    BY <1>4, NoReadStep DEF StopKeeping
  <2> QED
    BY <1>4, <2>1 DEF StopKeeping, Stream!Next, Stream!Fail
<1>5. CASE UNCHANGED readerVars
  <2>1. ReaderInv' /\ Position' = Position
    BY <1>5, NoReadStep DEF readerVars, ReaderInv
  <2> QED
    BY <1>5, <2>1 DEF readerVars, Stream!vars
<1> QED
  BY <1>1, <1>2, <1>3, <1>4, <1>5 DEF ReaderNext

(* Whatever the sizes of volume, sectors, buffer and cache, a reader of    *)
(* the MFT sees one stream: each read gives the bytes at the position of   *)
(* the last seek or read, though four positions are kept for it.           *)
THEOREM ReaderImplementsStream == ReaderSpec => ImplementsStream
<1>1. ReaderInit => ReaderInv /\ Stream!Init
  BY InitReader
<1>2. ReaderInv /\ [ReaderNext]_readerVars => ReaderInv' /\ [Stream!Next]_(Stream!vars)
  BY NextReader
<1> QED
  BY <1>1, <1>2, PTL DEF ReaderSpec, ImplementsStream, Stream!Spec
===============================================================================
