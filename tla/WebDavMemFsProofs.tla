--------------------------- MODULE WebDavMemFsProofs ---------------------------
(***************************************************************************)
(* Proofs about WebDavMemFs, for any names, depth and number of nodes:     *)
(* that the two links of each node keep one tree, and that this tree of    *)
(* ids implements the paths of PathFiles.                                  *)
(***************************************************************************)
EXTENDS MCWebDavMemFs, FiniteSetTheorems, SequenceTheorems, WellFoundedInduction, TLAPS

-------------------------------------------------------------------------------
(* Induction: of the numbers with a property one is the least.             *)
LEMMA LeastNumber ==
  ASSUME NEW T \in SUBSET Nat, T # {}
  PROVE  \E m \in T : \A k \in T : m <= k
<1> DEFINE Below(m) == 0..m
           Tops == {Below(m) : m \in T}
<1>1. Tops \subseteq FiniteSubsetsOf(Nat)
  <2> SUFFICES ASSUME NEW m \in T PROVE Below(m) \in FiniteSubsetsOf(Nat)
    OBVIOUS
  <2>1. IsFiniteSet(0..m)
    BY FS_Interval
  <2> QED
    BY <2>1 DEF FiniteSubsetsOf
<1>2. Tops # {}
  OBVIOUS
<1>3. IsWellFoundedOn(StrictSubsetOrdering(Nat), FiniteSubsetsOf(Nat))
  BY FS_StrictSubsetOrderingWellFounded
<1> HIDE DEF Tops
<1>4. PICK top \in Tops : \A other \in Tops : <<other, top>> \notin StrictSubsetOrdering(Nat)
  BY <1>1, <1>2, <1>3, WFMin
<1>5. PICK m \in T : top = Below(m)
  BY <1>4 DEF Tops
<1>6. ASSUME NEW k \in T, k < m PROVE FALSE
  <2>1. Below(k) \in Tops
    BY DEF Tops
  <2>2. /\ Below(k) \in SUBSET Nat /\ Below(m) \in SUBSET Nat
        /\ Below(k) \subseteq Below(m) /\ Below(k) # Below(m)
    BY <1>6
  <2>3. <<Below(k), top>> \in StrictSubsetOrdering(Nat)
    BY <2>2, <1>5 DEF StrictSubsetOrdering
  <2> QED
    BY <2>1, <2>3, <1>4
<1> QED
  BY <1>5, <1>6

(* What holds for 0 and, with n, for n + 1 holds up to any bound.          *)
LEMMA Induction ==
  ASSUME NEW max \in Nat, NEW T \in SUBSET Nat, 0 \in T,
         \A n \in Nat : n < max /\ n \in T => n + 1 \in T
  PROVE  \A n \in 0..max : n \in T
<1> DEFINE Rest == {n \in 0..max : n \notin T}
<1> SUFFICES ASSUME Rest # {} PROVE FALSE
  OBVIOUS
<1>1. PICK m \in Rest : \A k \in Rest : m <= k
  <2>1. Rest \in SUBSET Nat
    OBVIOUS
  <2> HIDE DEF Rest
  <2> QED
    BY <2>1, LeastNumber
<1>2. m # 0
  BY <1>1
<1>3. m - 1 \in Nat /\ m - 1 < max /\ m - 1 \notin Rest
  BY <1>1, <1>2
<1>4. m - 1 \in T
  BY <1>3
<1>5. (m - 1) + 1 \in T
  BY <1>3, <1>4
<1> QED
  BY <1>1, <1>5

-------------------------------------------------------------------------------
(* Paths: a path without its last segment, and that segment.               *)
LEMMA FrontLast ==
  ASSUME NEW p \in Seq(Names), p # <<>>
  PROVE  /\ Len(p) \in Nat \ {0}
         /\ Front(p) \in Seq(Names)
         /\ Len(Front(p)) = Len(p) - 1
         /\ \A i \in 1..Len(p) - 1 : Front(p)[i] = p[i]
         /\ Last(p) \in Names
         /\ Last(p) = p[Len(p)]
         /\ p = Append(Front(p), Last(p))
<1>1. Len(p) \in Nat \ {0}
  OBVIOUS
<1>2. /\ Front(p) \in Seq(Names)
      /\ Len(Front(p)) = Len(p) - 1
      /\ \A i \in 1..Len(p) - 1 : Front(p)[i] = p[i]
  <2>1. \A i \in 1..Len(p) - 1 : p[i] \in Names
    BY <1>1
  <2>2. /\ Front(p) \in Seq(Names)
        /\ Len(Front(p)) = IF 1 <= Len(p) - 1 THEN Len(p) - 1 - 1 + 1 ELSE 0
        /\ \A i \in 1..Len(p) - 1 - 1 + 1 : Front(p)[i] = p[1 + i - 1]
    BY <2>1, <1>1, SubSeqProperties, 1 \in Int, Len(p) - 1 \in Int DEF Front
  <2> DEFINE n == Len(p)
             front == Front(p)
  <2>3. n \in Nat \ {0} /\ Len(front) = (IF 1 <= n - 1 THEN n - 1 - 1 + 1 ELSE 0)
    BY <2>2, <1>1
  <2>4. \A i \in 1..n - 1 : front[i] = p[i]
    <3> SUFFICES ASSUME NEW i \in 1..n - 1 PROVE front[i] = p[i]
      OBVIOUS
    <3>1. i \in 1..n - 1 - 1 + 1 /\ 1 + i - 1 = i
      BY <1>1
    <3> QED
      BY <2>2, <3>1
  <2> HIDE DEF n, front
  <2>5. Len(front) = n - 1
    BY <2>3
  <2> QED
    BY <2>2, <2>4, <2>5 DEF n, front
<1>3. Last(p) \in Names /\ Last(p) = p[Len(p)]
  BY <1>1 DEF Last
<1>4. p = Append(Front(p), Last(p))
  BY <1>1, <1>2, <1>3
<1> QED
  BY <1>1, <1>2, <1>3, <1>4

LEMMA AppendedPath ==
  ASSUME NEW p \in Seq(Names), NEW name \in Names
  PROVE  /\ Append(p, name) \in Seq(Names)
         /\ Append(p, name) # <<>>
         /\ Front(Append(p, name)) = p
         /\ Last(Append(p, name)) = name
         /\ Len(Append(p, name)) = Len(p) + 1
  BY DEF Front, Last

-------------------------------------------------------------------------------
(* What lookup_segs has after the segments of a path.                      *)
Start == [node |-> RootId, isDir |-> TRUE]
Walk(at, p) == at = [i \in 0..Len(p) |-> IF i = 0 THEN Start ELSE Follow(at[i - 1], p[i])]
Reached(p) ==
  LET at[i \in 0..Len(p)] == IF i = 0 THEN Start ELSE Follow(at[i - 1], p[i]) IN at[Len(p)]

LEMMA WalkExists ==
  ASSUME NEW p \in Seq(Names)
  PROVE  \E at : Walk(at, p)
<1> DEFINE Part(w, k) == w = [i \in 0..k |-> IF i = 0 THEN Start ELSE Follow(w[i - 1], p[i])]
           T == {k \in Nat : \E w : Part(w, k)}
<1>1. 0 \in T
  <2> DEFINE first == [i \in 0..0 |-> Start]
  <2>1. Part(first, 0)
    OBVIOUS
  <2> QED
    BY <2>1
<1>2. ASSUME NEW n \in Nat, n < Len(p), n \in T PROVE n + 1 \in T
  <2>1. PICK at : Part(at, n)
    BY <1>2
  <2> DEFINE new == [i \in 0..n + 1 |-> IF i = n + 1 THEN Follow(at[n], p[n + 1]) ELSE at[i]]
  <2>2. ASSUME NEW i \in 0..n + 1
        PROVE  new[i] = IF i = 0 THEN Start ELSE Follow(new[i - 1], p[i])
    <3>1. CASE i = n + 1
      BY <3>1
    <3>2. CASE i # n + 1
      <4>1. at[i] = IF i = 0 THEN Start ELSE Follow(at[i - 1], p[i])
        BY <2>1, <3>2
      <4> QED
        BY <4>1, <3>2
    <3> QED
      BY <3>1, <3>2
  <2>3. Part(new, n + 1)
    BY <2>2
  <2> HIDE DEF new, Part
  <2>4. \E w : Part(w, n + 1)
    BY <2>3
  <2> QED
    BY <2>4 DEF T
<1> HIDE DEF T
<1>3. \A n \in 0..Len(p) : n \in T
  <2>1. T \in SUBSET Nat
    BY DEF T
  <2>2. Len(p) \in Nat
    OBVIOUS
  <2> QED
    BY <1>1, <1>2, <2>1, <2>2, Induction
<1>4. Len(p) \in T
  BY <1>3
<1> QED
  BY <1>4 DEF T, Walk

LEMMA WalkUnique ==
  ASSUME NEW p \in Seq(Names), NEW q \in Seq(Names), NEW at, NEW other, Walk(at, p), Walk(other, q),
         Len(p) <= Len(q), \A i \in 1..Len(p) : p[i] = q[i]
  PROVE  \A i \in 0..Len(p) : at[i] = other[i]
<1> DEFINE T == {k \in Nat : k <= Len(p) => at[k] = other[k]}
<1>1. 0 \in T
  BY DEF Walk
<1>2. ASSUME NEW n \in Nat, n < Len(p), n \in T PROVE n + 1 \in T
  <2>1. at[n + 1] = Follow(at[n], p[n + 1]) /\ other[n + 1] = Follow(other[n], q[n + 1])
    BY <1>2 DEF Walk
  <2> QED
    BY <1>2, <2>1
<1>3. T \in SUBSET Nat /\ Len(p) \in Nat
  OBVIOUS
<1> HIDE DEF T
<1>4. \A n \in 0..Len(p) : n \in T
  BY <1>1, <1>2, <1>3, Induction
<1> QED
  BY <1>4 DEF T

LEMMA ReachedIs ==
  ASSUME NEW p \in Seq(Names), NEW at, Walk(at, p)
  PROVE  Reached(p) = at[Len(p)]
<1> DEFINE g == CHOOSE f : f = [i \in 0..Len(p) |-> IF i = 0 THEN Start ELSE Follow(f[i - 1], p[i])]
<1>1. Walk(g, p)
  BY WalkExists DEF Walk
<1>2. Reached(p) = g[Len(p)]
  BY DEF Reached
<1> HIDE DEF g
<1>3. g[Len(p)] = at[Len(p)]
  BY <1>1, WalkUnique
<1> QED
  BY <1>2, <1>3

(* lookup_segs follows the last segment from what the others lead to.      *)
LEMMA ReachedStep ==
  ASSUME NEW p \in Seq(Names)
  PROVE  /\ Lookup(p) = Reached(p).node
         /\ p = <<>> => Reached(p) = Start
         /\ p # <<>> => Reached(p) = Follow(Reached(Front(p)), Last(p))
<1>1. Lookup(p) = Reached(p).node
  BY DEF Lookup, Reached, Start
<1>2. PICK at : Walk(at, p)
  BY WalkExists
<1>3. Reached(p) = at[Len(p)]
  BY <1>2, ReachedIs
<1>4. ASSUME p = <<>> PROVE Reached(p) = Start
  BY <1>2, <1>3, <1>4 DEF Walk
<1>5. ASSUME p # <<>> PROVE Reached(p) = Follow(Reached(Front(p)), Last(p))
  <2>1. Front(p) \in Seq(Names) /\ Len(Front(p)) = Len(p) - 1 /\ Len(p) \in Nat \ {0}
        /\ \A i \in 1..Len(p) - 1 : Front(p)[i] = p[i]
    BY <1>5, FrontLast
  <2>2. PICK other : Walk(other, Front(p))
    BY <2>1, WalkExists
  <2>3. Reached(Front(p)) = other[Len(p) - 1]
    BY <2>1, <2>2, ReachedIs
  <2>4. other[Len(p) - 1] = at[Len(p) - 1]
    BY <2>1, <2>2, <1>2, WalkUnique
  <2>5. at[Len(p)] = Follow(at[Len(p) - 1], p[Len(p)])
    BY <1>2, <2>1 DEF Walk
  <2> QED
    BY <1>3, <2>3, <2>4, <2>5 DEF Last
<1> QED
  BY <1>1, <1>4, <1>5

-------------------------------------------------------------------------------
(* The tree: what nodes are, how the links of parents and of children fit  *)
(* together, and a path for each node that agrees with the names.          *)
ChildMaps == UNION {[S -> 1..MaxId] : S \in SUBSET Names}
NodeType == [data : [isDir : BOOLEAN, data : Data], parent : Nat, children : ChildMaps]

Typed(tree) == tree \in [DOMAIN tree -> NodeType] /\ DOMAIN tree \subseteq 1..MaxId

Linked(tree) ==
  /\ RootId \in DOMAIN tree
  /\ tree[RootId].data.isDir
  /\ \A i \in DOMAIN tree :
       /\ ~tree[i].data.isDir => tree[i].children = NoChildren
       /\ \A n \in DOMAIN tree[i].children :
            /\ tree[i].children[n] \in DOMAIN tree
            /\ tree[tree[i].children[n]].parent = i
       /\ i # RootId =>
            /\ tree[i].parent \in DOMAIN tree
            /\ \E n \in DOMAIN tree[tree[i].parent].children :
                 tree[tree[i].parent].children[n] = i

PathsAgree(tree, P) ==
  /\ P \in [DOMAIN tree -> Seq(Names)]
  /\ P[RootId] = <<>>
  /\ \A i \in DOMAIN tree : \A n \in DOMAIN tree[i].children :
       P[tree[i].children[n]] = Append(P[i], n)

Tree(tree, P) == Typed(tree) /\ Linked(tree) /\ PathsAgree(tree, P)

LEMMA NodeFields ==
  ASSUME NEW node \in NodeType
  PROVE  /\ node = [data |-> node.data, parent |-> node.parent, children |-> node.children]
         /\ node.data.isDir \in BOOLEAN
         /\ node.data.data \in Data
         /\ node.data = [isDir |-> node.data.isDir, data |-> node.data.data]
         /\ node.parent \in Nat
         /\ DOMAIN node.children \subseteq Names
         /\ node.children \in [DOMAIN node.children -> 1..MaxId]
<1>1. /\ node = [data |-> node.data, parent |-> node.parent, children |-> node.children]
      /\ node.data \in [isDir : BOOLEAN, data : Data]
      /\ node.parent \in Nat
      /\ node.children \in ChildMaps
  BY DEF NodeType
<1>2. /\ node.data.isDir \in BOOLEAN
      /\ node.data.data \in Data
      /\ node.data = [isDir |-> node.data.isDir, data |-> node.data.data]
  BY <1>1
<1>3. PICK S \in SUBSET Names : node.children \in [S -> 1..MaxId]
  BY <1>1 DEF ChildMaps
<1> QED
  BY <1>1, <1>2, <1>3

(* Each node but the root is a child, below the path of its parent.        *)
LEMMA ChildOfParent ==
  ASSUME NEW tree, NEW P, Tree(tree, P), NEW i \in DOMAIN tree, i # RootId
  PROVE  \E n \in DOMAIN tree[tree[i].parent].children :
           /\ tree[i].parent \in DOMAIN tree
           /\ tree[tree[i].parent].children[n] = i
           /\ tree[tree[i].parent].data.isDir
           /\ n \in Names
           /\ P[tree[i].parent] \in Seq(Names)
           /\ P[i] = Append(P[tree[i].parent], n)
           /\ P[i] # <<>>
           /\ P[tree[i].parent] = Front(P[i])
<1> DEFINE q == tree[i].parent
<1>1. q \in DOMAIN tree
  BY DEF Tree, Linked
<1>2. PICK n \in DOMAIN tree[q].children : tree[q].children[n] = i
  BY DEF Tree, Linked
<1>3. tree[q] \in NodeType
  BY <1>1 DEF Tree, Typed
<1>4. DOMAIN tree[q].children \subseteq Names
  BY <1>3, NodeFields
<1>5. n \in Names
  BY <1>4
<1>6. tree[q].data.isDir
  <2>1. ASSUME ~tree[q].data.isDir PROVE FALSE
    <3>1. tree[q].children = NoChildren
      BY <2>1, <1>1 DEF Tree, Linked
    <3> QED
      BY <3>1, <1>2 DEF NoChildren
  <2>2. tree[q].data.isDir \in BOOLEAN
    BY <1>3, NodeFields
  <2> QED
    BY <2>1, <2>2
<1>7. P[q] \in Seq(Names)
  BY <1>1 DEF Tree, PathsAgree
<1>8. P[i] = Append(P[q], n)
  BY <1>1, <1>2 DEF Tree, PathsAgree
<1>9. P[i] # <<>> /\ P[q] = Front(P[i])
  BY <1>5, <1>7, <1>8, AppendedPath
<1> HIDE DEF q
<1>10. \E m \in DOMAIN tree[q].children :
         /\ q \in DOMAIN tree
         /\ tree[q].children[m] = i
         /\ tree[q].data.isDir
         /\ m \in Names
         /\ P[q] \in Seq(Names)
         /\ P[i] = Append(P[q], m)
         /\ P[i] # <<>>
         /\ P[q] = Front(P[i])
  BY <1>1, <1>2, <1>5, <1>6, <1>7, <1>8, <1>9
<1> QED
  BY <1>10 DEF q

(* A segment in a directory.                                               *)
LEMMA FollowChild ==
  ASSUME NEW id \in Int, ~Failed([node |-> id, isDir |-> TRUE]), nodes[id].data.isDir, NEW name
  PROVE  /\ name \in DOMAIN nodes[id].children =>
              Follow([node |-> id, isDir |-> TRUE], name) =
                [node |-> nodes[id].children[name], isDir |-> TRUE]
         /\ name \notin DOMAIN nodes[id].children =>
              Follow([node |-> id, isDir |-> TRUE], name) = [node |-> NotFound, isDir |-> TRUE]
<1> DEFINE s == [node |-> id, isDir |-> TRUE]
           target == IF name \in DOMAIN nodes[s.node].children
                       THEN nodes[s.node].children[name] ELSE NotFound
<1>1. s.isDir /\ s.node = id /\ ~Failed(s) /\ nodes[s.node].data.isDir
  OBVIOUS
<1>2. Follow(s, name) = [s EXCEPT !.node = target]
  <2> HIDE DEF s
  <2> QED
    BY <1>1, Zenon DEF Follow
<1>3. /\ name \in DOMAIN nodes[id].children => target = nodes[id].children[name]
      /\ name \notin DOMAIN nodes[id].children => target = NotFound
  <2> HIDE DEF s
  <2> QED
    BY <1>1, Zenon
<1>4. Follow(s, name) = [node |-> target, isDir |-> TRUE]
  <2> HIDE DEF target
  <2> QED
    BY <1>2
<1> HIDE DEF target
<1> QED
  BY <1>3, <1>4

(* The path of a node leads to it.                                         *)
LEMMA PathLeads ==
  ASSUME NEW P, Tree(nodes, P), NEW i \in DOMAIN nodes
  PROVE  Reached(P[i]) = [node |-> i, isDir |-> TRUE]
<1> DEFINE T == {k \in Nat : \A j \in DOMAIN nodes :
                   Len(P[j]) = k => Reached(P[j]) = [node |-> j, isDir |-> TRUE]}
<1>1. P \in [DOMAIN nodes -> Seq(Names)] /\ P[RootId] = <<>>
  BY DEF Tree, PathsAgree
<1>2. 0 \in T
  <2> SUFFICES ASSUME NEW j \in DOMAIN nodes, Len(P[j]) = 0
               PROVE  Reached(P[j]) = [node |-> j, isDir |-> TRUE]
    OBVIOUS
  <2>1. P[j] \in Seq(Names) /\ P[j] = <<>>
    BY <1>1
  <2>2. j = RootId
    BY <2>1, ChildOfParent
  <2> QED
    BY <2>1, <2>2, ReachedStep DEF Start
<1>3. ASSUME NEW n \in Nat, n < Len(P[i]), n \in T PROVE n + 1 \in T
  <2> SUFFICES ASSUME NEW j \in DOMAIN nodes, Len(P[j]) = n + 1
               PROVE  Reached(P[j]) = [node |-> j, isDir |-> TRUE]
    OBVIOUS
  <2>1. P[j] \in Seq(Names) /\ P[j] # <<>>
    BY <1>1
  <2>2. j # RootId
    BY <2>1, <1>1
  <2> DEFINE q == nodes[j].parent
  <2>3. PICK name \in DOMAIN nodes[q].children :
          /\ q \in DOMAIN nodes
          /\ nodes[q].children[name] = j
          /\ nodes[q].data.isDir
          /\ name \in Names
          /\ P[q] \in Seq(Names)
          /\ P[j] = Append(P[q], name)
          /\ P[q] = Front(P[j])
    BY <2>2, ChildOfParent
  <2> HIDE DEF q
  <2>4. Len(P[q]) = n /\ Last(P[j]) = name
    BY <2>3, AppendedPath
  <2>5. Reached(P[q]) = [node |-> q, isDir |-> TRUE]
    BY <1>3, <2>3, <2>4
  <2>6. q \notin {NotFound, Forbidden}
    BY <2>3 DEF Tree, Typed, NotFound, Forbidden
  <2>7. Follow(Reached(P[q]), name) = [node |-> j, isDir |-> TRUE]
    BY <2>3, <2>5, <2>6, FollowChild DEF Failed, Tree, Typed
  <2>8. Reached(P[j]) = Follow(Reached(Front(P[j])), Last(P[j]))
    BY <2>1, ReachedStep
  <2> QED
    BY <2>3, <2>4, <2>7, <2>8
<1> HIDE DEF T
<1>4. T \in SUBSET Nat
  BY DEF T
<1>5. Len(P[i]) \in Nat
  BY <1>1
<1>6. \A n \in 0..Len(P[i]) : n \in T
  BY <1>2, <1>3, <1>4, <1>5, Induction
<1>7. Len(P[i]) \in T
  BY <1>5, <1>6
<1> QED
  BY <1>7 DEF T

(* What lookup_segs finds: nothing, the node at the path, or a file that   *)
(* one more segment follows.                                               *)
At(P, s, p) ==
  \/ Failed(s)
  \/ /\ s.node \in DOMAIN nodes
     /\ s.isDir
     /\ P[s.node] = p
  \/ /\ s.node \in DOMAIN nodes
     /\ ~s.isDir
     /\ ~nodes[s.node].data.isDir
     /\ p # <<>>
     /\ P[s.node] = Front(p)

LEMMA ReachedAt ==
  ASSUME NEW P, Tree(nodes, P), NEW p \in Seq(Names)
  PROVE  Reached(p) \in [node : Int, isDir : BOOLEAN] /\ At(P, Reached(p), p)
<1> DEFINE States == [node : Int, isDir : BOOLEAN]
           T == {k \in Nat : \A r \in Seq(Names) :
                   Len(r) = k => Reached(r) \in States /\ At(P, Reached(r), r)}
<1>1. P \in [DOMAIN nodes -> Seq(Names)] /\ P[RootId] = <<>> /\ RootId \in DOMAIN nodes
      /\ DOMAIN nodes \subseteq 1..MaxId /\ MaxId \in Nat
  BY WebDavAssumption DEF Tree, PathsAgree, Linked, Typed
<1>2. 0 \in T
  <2> SUFFICES ASSUME NEW r \in Seq(Names), Len(r) = 0
               PROVE  Reached(r) \in States /\ At(P, Reached(r), r)
    OBVIOUS
  <2>1. r = <<>>
    OBVIOUS
  <2>2. Reached(r) = [node |-> RootId, isDir |-> TRUE]
    BY <2>1, ReachedStep DEF Start
  <2>3. Reached(r).node = RootId /\ Reached(r).isDir
    BY <2>2
  <2>4. At(P, Reached(r), r)
    BY <2>1, <2>3, <1>1, Zenon DEF At
  <2> QED
    BY <2>2, <2>4 DEF RootId
<1>3. ASSUME NEW n \in Nat, n < Len(p), n \in T PROVE n + 1 \in T
  <2> SUFFICES ASSUME NEW r \in Seq(Names), Len(r) = n + 1
               PROVE  Reached(r) \in States /\ At(P, Reached(r), r)
    OBVIOUS
  <2> DEFINE s == Reached(Front(r))
             name == Last(r)
  <2>1. r # <<>>
    OBVIOUS
  <2>2. Front(r) \in Seq(Names) /\ Len(Front(r)) = n /\ r = Append(Front(r), name)
    BY <2>1, FrontLast
  <2>3. s \in States /\ At(P, s, Front(r))
    BY <1>3, <2>2
  <2>4. Reached(r) = Follow(s, name)
    BY <2>1, ReachedStep
  <2> HIDE DEF s, name
  <2>5. CASE Failed(s)
    BY <2>3, <2>4, <2>5 DEF Follow, At
  <2>6. CASE ~Failed(s) /\ ~s.isDir
    <3>1. Follow(s, name) = [s EXCEPT !.node = Forbidden]
      BY <2>6, Zenon DEF Follow
    <3>2. Follow(s, name) = [node |-> Forbidden, isDir |-> FALSE]
      BY <2>3, <2>6, <3>1
    <3> QED
      BY <2>4, <3>2 DEF At, Failed, Forbidden
  <2>7. CASE ~Failed(s) /\ s.isDir /\ ~nodes[s.node].data.isDir
    <3>1. s.node \in DOMAIN nodes /\ P[s.node] = Front(r)
      BY <2>3, <2>7 DEF At
    <3>2. Follow(s, name) = [node |-> s.node, isDir |-> FALSE]
      BY <2>3, <2>7 DEF Follow
    <3> QED
      BY <2>1, <2>3, <2>4, <2>7, <3>1, <3>2 DEF At
  <2>8. CASE ~Failed(s) /\ s.isDir /\ nodes[s.node].data.isDir
    <3>1. s.node \in DOMAIN nodes /\ P[s.node] = Front(r)
      BY <2>3, <2>8 DEF At
    <3>2. s = [node |-> s.node, isDir |-> TRUE] /\ s.node \in Int
      BY <2>3, <2>8
    <3>3. CASE name \in DOMAIN nodes[s.node].children
      <4>1. nodes[s.node].children[name] \in DOMAIN nodes
            /\ P[nodes[s.node].children[name]] = Append(P[s.node], name)
        BY <3>1, <3>3 DEF Tree, Linked, PathsAgree
      <4>2. Reached(r) = [node |-> nodes[s.node].children[name], isDir |-> TRUE]
        BY <2>4, <2>8, <3>2, <3>3, FollowChild
      <4>3. nodes[s.node].children[name] \in Int
        BY <1>1, <4>1
      <4>4. /\ Reached(r).node = nodes[s.node].children[name]
            /\ Reached(r).isDir
            /\ P[nodes[s.node].children[name]] = r
        BY <2>2, <3>1, <4>1, <4>2
      <4>5. At(P, Reached(r), r)
        BY <4>1, <4>4, Zenon DEF At
      <4> QED
        BY <4>2, <4>3, <4>5
    <3>4. CASE name \notin DOMAIN nodes[s.node].children
      <4>1. Reached(r) = [node |-> NotFound, isDir |-> TRUE]
        BY <2>4, <2>8, <3>2, <3>4, FollowChild
      <4> QED
        BY <4>1 DEF At, Failed, NotFound
    <3> QED
      BY <3>3, <3>4
  <2> QED
    BY <2>3, <2>5, <2>6, <2>7, <2>8
<1> HIDE DEF T
<1>4. T \in SUBSET Nat
  BY DEF T
<1>5. Len(p) \in Nat
  OBVIOUS
<1>6. \A n \in 0..Len(p) : n \in T
  BY <1>2, <1>3, <1>4, <1>5, Induction
<1>7. Len(p) \in T
  BY <1>5, <1>6
<1> QED
  BY <1>7 DEF T

(* Different nodes have different paths.                                   *)
LEMMA PathsDiffer ==
  ASSUME NEW tree, NEW P, Tree(tree, P), NEW i \in DOMAIN tree, NEW j \in DOMAIN tree, P[i] = P[j]
  PROVE  i = j
<1> DEFINE T == {k \in Nat : \A a, b \in DOMAIN tree : Len(P[a]) = k /\ P[a] = P[b] => a = b}
<1>1. P \in [DOMAIN tree -> Seq(Names)] /\ P[RootId] = <<>>
  BY DEF Tree, PathsAgree
<1>2. 0 \in T
  <2> SUFFICES ASSUME NEW a \in DOMAIN tree, NEW b \in DOMAIN tree, Len(P[a]) = 0, P[a] = P[b]
               PROVE  a = b
    OBVIOUS
  <2>1. P[a] = <<>> /\ P[b] = <<>>
    BY <1>1
  <2> QED
    BY <2>1, ChildOfParent
<1>3. ASSUME NEW n \in Nat, n < Len(P[i]), n \in T PROVE n + 1 \in T
  <2> SUFFICES ASSUME NEW a \in DOMAIN tree, NEW b \in DOMAIN tree, Len(P[a]) = n + 1, P[a] = P[b]
               PROVE  a = b
    OBVIOUS
  <2> DEFINE qa == tree[a].parent
             qb == tree[b].parent
  <2>1. a # RootId /\ b # RootId
    BY <1>1
  <2>2. PICK na \in DOMAIN tree[qa].children :
          /\ qa \in DOMAIN tree /\ tree[qa].children[na] = a /\ na \in Names
          /\ P[qa] \in Seq(Names) /\ P[a] = Append(P[qa], na) /\ P[qa] = Front(P[a])
    BY <2>1, ChildOfParent
  <2>3. PICK nb \in DOMAIN tree[qb].children :
          /\ qb \in DOMAIN tree /\ tree[qb].children[nb] = b /\ nb \in Names
          /\ P[qb] \in Seq(Names) /\ P[b] = Append(P[qb], nb) /\ P[qb] = Front(P[b])
    BY <2>1, ChildOfParent
  <2> HIDE DEF qa, qb
  <2>4. P[qa] = P[qb] /\ Len(P[qa]) = n
    BY <2>2, <2>3, AppendedPath
  <2>5. qa = qb
    BY <1>3, <2>2, <2>3, <2>4
  <2>6. na = nb
    BY <2>2, <2>3, AppendedPath
  <2> QED
    BY <2>2, <2>3, <2>5, <2>6
<1> HIDE DEF T
<1>4. T \in SUBSET Nat
  BY DEF T
<1>5. Len(P[i]) \in Nat
  BY <1>1
<1>6. \A n \in 0..Len(P[i]) : n \in T
  BY <1>2, <1>3, <1>4, <1>5, Induction
<1>7. Len(P[i]) \in T
  BY <1>5, <1>6
<1> QED
  BY <1>7 DEF T

(* What the operations find at a path, and where its parent is.            *)
LEMMA LookupNode ==
  ASSUME NEW P, Tree(nodes, P), NEW p \in Seq(Names), IsNode(Lookup(p))
  PROVE  /\ Lookup(p) \in DOMAIN nodes
         /\ \/ P[Lookup(p)] = p
            \/ ~nodes[Lookup(p)].data.isDir /\ p # <<>> /\ P[Lookup(p)] = Front(p)
<1>1. At(P, Reached(p), p) /\ Lookup(p) = Reached(p).node
  BY ReachedAt, ReachedStep
<1>2. ~Failed(Reached(p))
  BY <1>1 DEF IsNode, Failed
<1> QED
  BY <1>1, <1>2 DEF At

LEMMA LookupPath ==
  ASSUME NEW P, Tree(nodes, P), NEW i \in DOMAIN nodes
  PROVE  Lookup(P[i]) = i
<1>1. P[i] \in Seq(Names)
  BY DEF Tree, PathsAgree
<1>2. Reached(P[i]) = [node |-> i, isDir |-> TRUE]
  BY PathLeads
<1>3. Lookup(P[i]) = Reached(P[i]).node
  BY <1>1, ReachedStep
<1> QED
  BY <1>2, <1>3

LEMMA ParentNode ==
  ASSUME NEW P, Tree(nodes, P), NEW p \in Seq(Names), p # <<>>, IsNode(LookupParent(p))
  PROVE  /\ LookupParent(p) \in DOMAIN nodes
         /\ nodes[LookupParent(p)].data.isDir
         /\ P[LookupParent(p)] = Front(p)
         /\ Front(p) \in Seq(Names)
         /\ Last(p) \in Names
         /\ p = Append(P[LookupParent(p)], Last(p))
         /\ Last(p) \in DOMAIN nodes[LookupParent(p)].children =>
              Lookup(p) = nodes[LookupParent(p)].children[Last(p)]
         /\ Last(p) \notin DOMAIN nodes[LookupParent(p)].children => Lookup(p) = NotFound
<1> DEFINE q == LookupParent(p)
           n == Lookup(Front(p))
<1>1. Front(p) \in Seq(Names) /\ Last(p) \in Names /\ p = Append(Front(p), Last(p))
  BY FrontLast
<1>2. q = n /\ IsNode(n) /\ nodes[n].data.isDir
  BY DEF LookupParent, IsNode, Forbidden, NotFound
<1>3. n \in DOMAIN nodes /\ P[n] = Front(p)
  BY <1>1, <1>2, LookupNode
<1>4. Reached(Front(p)) = [node |-> n, isDir |-> TRUE]
  BY <1>3, PathLeads
<1>5. Reached(p) = Follow([node |-> n, isDir |-> TRUE], Last(p)) /\ Lookup(p) = Reached(p).node
  BY <1>4, ReachedStep
<1>6. n \in Int /\ ~Failed([node |-> n, isDir |-> TRUE])
  BY <1>2, <1>3 DEF Tree, Typed, Failed, IsNode
<1> HIDE DEF q, n
<1>7. ASSUME Last(p) \in DOMAIN nodes[n].children
      PROVE  Lookup(p) = nodes[n].children[Last(p)]
  <2>1. Reached(p) = [node |-> nodes[n].children[Last(p)], isDir |-> TRUE]
    BY <1>2, <1>5, <1>6, <1>7, FollowChild
  <2> QED
    BY <1>5, <2>1
<1>8. ASSUME Last(p) \notin DOMAIN nodes[n].children PROVE Lookup(p) = NotFound
  <2>1. Reached(p) = [node |-> NotFound, isDir |-> TRUE]
    BY <1>2, <1>5, <1>6, <1>8, FollowChild
  <2> QED
    BY <1>5, <2>1
<1> QED
  BY <1>1, <1>2, <1>3, <1>7, <1>8 DEF q

-------------------------------------------------------------------------------
(* The changes of the tree that the operations make.                       *)
LEMMA PutChild ==
  ASSUME NEW f \in ChildMaps, NEW name \in Names, NEW id \in 1..MaxId
  PROVE  Put(f, name, id) \in ChildMaps
<1>1. PICK S \in SUBSET Names : f \in [S -> 1..MaxId]
  BY DEF ChildMaps
<1>2. Put(f, name, id) \in [S \cup {name} -> 1..MaxId]
  BY <1>1 DEF Put
<1> QED
  BY <1>2 DEF ChildMaps

WithNode(tree, id, parent, name, data) ==
  Put([tree EXCEPT ![parent].children = Put(@, name, id)], id, NewNode(parent, data))

FileType == [isDir : BOOLEAN, data : Data]

(* What a change of the tree leaves: all nodes, but those that are gone,   *)
(* with their contents, and maybe a new one.                               *)
Grown(tree, id, data, new, Q) ==
  /\ Tree(new, Q)
  /\ DOMAIN new = DOMAIN tree \cup {id}
  /\ new[id].data = data
  /\ \A i \in DOMAIN tree : new[i].data = tree[i].data

Shrunk(tree, gone, new, Q) ==
  /\ Tree(new, Q)
  /\ DOMAIN new = DOMAIN tree \ gone
  /\ \A i \in DOMAIN new : new[i].data = tree[i].data

(* A new node in a directory.                                              *)
LEMMA Adding ==
  ASSUME NEW tree, NEW P, Tree(tree, P), NEW parent \in DOMAIN tree, tree[parent].data.isDir,
         NEW name \in Names \ DOMAIN tree[parent].children, NEW data \in FileType,
         NEW id \in 1..MaxId \ DOMAIN tree
  PROVE  Grown(tree, id, data, WithNode(tree, id, parent, name, data),
               Put(P, id, Append(P[parent], name)))
<1> DEFINE new == WithNode(tree, id, parent, name, data)
           Q == Put(P, id, Append(P[parent], name))
           inner == [tree EXCEPT ![parent].children = Put(@, name, id)]
<1>1. tree \in [DOMAIN tree -> NodeType] /\ DOMAIN tree \subseteq 1..MaxId /\ MaxId \in Nat
  BY WebDavAssumption DEF Tree, Typed
<1>2. DOMAIN inner = DOMAIN tree
  OBVIOUS
<1>3. ASSUME NEW i \in DOMAIN tree
      PROVE  /\ inner[i] \in NodeType
             /\ inner[i].data = tree[i].data
             /\ inner[i].parent = tree[i].parent
             /\ i # parent => inner[i].children = tree[i].children
             /\ i = parent => inner[i].children = Put(tree[i].children, name, id)
  <2>1. tree[i] \in NodeType
    BY <1>1
  <2>2. tree[i] = [data |-> tree[i].data, parent |-> tree[i].parent, children |-> tree[i].children]
        /\ tree[i].data \in FileType /\ tree[i].parent \in Nat /\ tree[i].children \in ChildMaps
    BY <2>1 DEF NodeType, FileType
  <2>3. CASE i = parent
    <3> DEFINE map == Put(tree[i].children, name, id)
    <3>1. map \in ChildMaps
      BY <2>2, PutChild
    <3>2. inner[i] = [tree[i] EXCEPT !.children = map]
      BY <2>3
    <3> HIDE DEF map, inner
    <3>3. inner[i] = [data |-> tree[i].data, parent |-> tree[i].parent, children |-> map]
      BY <2>2, <3>2
    <3> QED
      BY <2>2, <2>3, <3>1, <3>3 DEF map, NodeType, FileType
  <2>4. CASE i # parent
    BY <2>1, <2>4
  <2> QED
    BY <2>3, <2>4
<1>4. /\ DOMAIN new = DOMAIN tree \cup {id}
      /\ new[id] = NewNode(parent, data)
      /\ \A i \in DOMAIN tree : new[i] = inner[i]
  <2>1. new = Put(inner, id, NewNode(parent, data))
    BY DEF WithNode
  <2> HIDE DEF new, inner
  <2> QED
    BY <1>2, <2>1 DEF Put
<1>5. new[id].children = NoChildren /\ new[id].data = data /\ new[id].parent = parent
      /\ new[id] \in NodeType
  <2>1. NoChildren \in ChildMaps
    <3>1. NoChildren \in [{} -> 1..MaxId] /\ {} \in SUBSET Names
      BY DEF NoChildren
    <3> QED
      BY <3>1 DEF ChildMaps
  <2> QED
    BY <1>1, <1>4, <2>1 DEF NewNode, NodeType, FileType
<1>6. /\ DOMAIN new[parent].children = DOMAIN tree[parent].children \cup {name}
      /\ new[parent].children[name] = id
      /\ \A n \in DOMAIN tree[parent].children :
           new[parent].children[n] = tree[parent].children[n]
  <2> DEFINE children == tree[parent].children
  <2>1. new[parent].children = Put(children, name, id)
    BY <1>3, <1>4
  <2> HIDE DEF children
  <2>2. /\ DOMAIN Put(children, name, id) = DOMAIN children \cup {name}
        /\ Put(children, name, id)[name] = id
        /\ \A n \in DOMAIN children : n # name => Put(children, name, id)[n] = children[n]
    BY DEF Put
  <2>3. name \notin DOMAIN children
    BY DEF children
  <2> HIDE DEF new
  <2> QED
    BY <2>1, <2>2, <2>3 DEF children
<1>7. /\ DOMAIN Q = DOMAIN tree \cup {id}
      /\ Q[id] = Append(P[parent], name)
      /\ \A i \in DOMAIN tree : Q[i] = P[i]
      /\ \A i \in DOMAIN Q : Q[i] \in Seq(Names)
  <2>1. P \in [DOMAIN tree -> Seq(Names)]
    BY DEF Tree, PathsAgree
  <2>2. Append(P[parent], name) \in Seq(Names)
    BY <2>1, AppendedPath
  <2>3. /\ DOMAIN Q = DOMAIN P \cup {id}
        /\ Q[id] = Append(P[parent], name)
        /\ \A i \in DOMAIN P : i # id => Q[i] = P[i]
    BY DEF Put
  <2> HIDE DEF Q
  <2> QED
    BY <2>1, <2>2, <2>3
<1>8. new = [i \in DOMAIN new |-> new[i]] /\ Q = [i \in DOMAIN Q |-> Q[i]]
  BY DEF WithNode, Put
<1> HIDE DEF new, Q, inner
<1>9. Typed(new)
  BY <1>1, <1>3, <1>4, <1>5, <1>8 DEF Typed
<1>10. Linked(new)
  <2>1. RootId \in DOMAIN new /\ new[RootId].data.isDir
    BY <1>3, <1>4 DEF Tree, Linked
  <2>2. ASSUME NEW i \in DOMAIN new, ~new[i].data.isDir PROVE new[i].children = NoChildren
    <3>1. CASE i = id
      BY <3>1, <1>5
    <3>2. CASE i \in DOMAIN tree
      <4>1. i # parent
        BY <2>2, <3>2, <1>3, <1>4
      <4> QED
        BY <4>1, <2>2, <3>2, <1>3, <1>4 DEF Tree, Linked
    <3> QED
      BY <3>1, <3>2, <1>4
  <2>3. ASSUME NEW i \in DOMAIN new, NEW n \in DOMAIN new[i].children
        PROVE  new[i].children[n] \in DOMAIN new /\ new[new[i].children[n]].parent = i
    <3>1. CASE i = id
      BY <3>1, <1>5 DEF NoChildren
    <3>2. CASE i = parent /\ n = name
      BY <3>2, <1>4, <1>5, <1>6
    <3>3. CASE i \in DOMAIN tree /\ ~(i = parent /\ n = name)
      <4>1. n \in DOMAIN tree[i].children /\ new[i].children[n] = tree[i].children[n]
        BY <3>3, <1>3, <1>4, <1>6
      <4>2. tree[i].children[n] \in DOMAIN tree /\ tree[tree[i].children[n]].parent = i
        BY <3>3, <4>1 DEF Tree, Linked
      <4> QED
        BY <4>1, <4>2, <1>3, <1>4
    <3> QED
      BY <3>1, <3>2, <3>3, <1>4
  <2>4. ASSUME NEW i \in DOMAIN new, i # RootId
        PROVE  /\ new[i].parent \in DOMAIN new
               /\ \E n \in DOMAIN new[new[i].parent].children : new[new[i].parent].children[n] = i
    <3>1. CASE i = id
      BY <3>1, <1>4, <1>5, <1>6
    <3>2. CASE i \in DOMAIN tree
      <4> DEFINE q == tree[i].parent
      <4>1. q \in DOMAIN tree /\ new[i].parent = q
        BY <2>4, <3>2, <1>3, <1>4 DEF Tree, Linked
      <4>2. PICK n \in DOMAIN tree[q].children : tree[q].children[n] = i
        BY <2>4, <3>2 DEF Tree, Linked
      <4> HIDE DEF q
      <4>3. n \in DOMAIN new[q].children /\ new[q].children[n] = i
        BY <4>1, <4>2, <1>3, <1>4, <1>6
      <4> QED
        BY <4>1, <4>3, <1>4
    <3> QED
      BY <3>1, <3>2, <1>4
  <2> QED
    BY <2>1, <2>2, <2>3, <2>4 DEF Linked
<1>11. PathsAgree(new, Q)
  <2>1. Q \in [DOMAIN new -> Seq(Names)] /\ Q[RootId] = <<>>
    BY <1>4, <1>7, <1>8 DEF Tree, PathsAgree, Linked
  <2>2. ASSUME NEW i \in DOMAIN new, NEW n \in DOMAIN new[i].children
        PROVE  Q[new[i].children[n]] = Append(Q[i], n)
    <3>1. CASE i = id
      BY <3>1, <1>5 DEF NoChildren
    <3>2. CASE i = parent /\ n = name
      BY <3>2, <1>6, <1>7
    <3>3. CASE i \in DOMAIN tree /\ ~(i = parent /\ n = name)
      <4>1. n \in DOMAIN tree[i].children /\ new[i].children[n] = tree[i].children[n]
        BY <3>3, <1>3, <1>4, <1>6
      <4>2. tree[i].children[n] \in DOMAIN tree /\ P[tree[i].children[n]] = Append(P[i], n)
        BY <3>3, <4>1 DEF Tree, Linked, PathsAgree
      <4> QED
        BY <3>3, <4>1, <4>2, <1>7
    <3> QED
      BY <3>1, <3>2, <3>3, <1>4
  <2> QED
    BY <2>1, <2>2 DEF PathsAgree
<1>12. Tree(new, Q)
  BY <1>9, <1>10, <1>11 DEF Tree
<1>13. DOMAIN new = DOMAIN tree \cup {id} /\ new[id].data = data
       /\ \A i \in DOMAIN tree : new[i].data = tree[i].data
  BY <1>3, <1>4, <1>5
<1> QED
  BY <1>12, <1>13 DEF Grown, new, Q

(* delete_node_from_parent: the node's name in its parent is the only link *)
(* to it, and all that changes.                                            *)
Unlinked(tree, new, q, name) ==
  /\ new \in [DOMAIN tree -> NodeType]
  /\ \A i \in DOMAIN tree : new[i].data = tree[i].data /\ new[i].parent = tree[i].parent
  /\ \A i \in DOMAIN tree : i # q => new[i].children = tree[i].children
  /\ DOMAIN new[q].children = DOMAIN tree[q].children \ {name}
  /\ \A x \in DOMAIN new[q].children : new[q].children[x] = tree[q].children[x]

LinkTo(tree, P, n, q, name) ==
  /\ q \in DOMAIN tree
  /\ q # n
  /\ name \in DOMAIN tree[q].children
  /\ name \in Names
  /\ tree[q].children[name] = n
  /\ tree[q].data.isDir
  /\ P[n] = Append(P[q], name)
  /\ \A i \in DOMAIN tree : \A x \in DOMAIN tree[i].children :
       tree[i].children[x] = n => i = q /\ x = name

LEMMA OnlyLink ==
  ASSUME NEW tree, NEW P, Tree(tree, P), NEW n \in DOMAIN tree, n # RootId,
         NEW q \in DOMAIN tree, NEW name \in DOMAIN tree[q].children, tree[q].children[name] = n
  PROVE  LinkTo(tree, P, n, q, name)
<1>1. P \in [DOMAIN tree -> Seq(Names)]
  BY DEF Tree, PathsAgree
<1>2. PICK other \in DOMAIN tree[tree[n].parent].children :
        /\ tree[tree[n].parent].data.isDir
        /\ other \in Names
        /\ P[n] = Append(P[tree[n].parent], other)
  BY ChildOfParent
<1>3. ASSUME NEW i \in DOMAIN tree, NEW x \in DOMAIN tree[i].children, tree[i].children[x] = n
      PROVE  i = tree[n].parent /\ P[n] = Append(P[i], x) /\ x \in Names
  <2>1. tree[n].parent = i /\ P[n] = Append(P[i], x)
    BY <1>3 DEF Tree, Linked, PathsAgree
  <2>2. tree[i] \in NodeType
    BY DEF Tree, Typed
  <2>3. x \in Names
    BY <2>2, NodeFields
  <2> QED
    BY <2>1, <2>3
<1>4. q = tree[n].parent /\ P[n] = Append(P[q], name) /\ name \in Names
  BY <1>3
<1>5. ASSUME NEW i \in DOMAIN tree, NEW x \in DOMAIN tree[i].children, tree[i].children[x] = n
      PROVE  i = q /\ x = name
  <2>1. i = q /\ P[n] = Append(P[q], x) /\ x \in Names
    BY <1>3, <1>4, <1>5
  <2>2. P[q] \in Seq(Names)
    BY <1>1
  <2> QED
    BY <1>4, <2>1, <2>2, AppendedPath
<1>6. q # n
  <2> SUFFICES ASSUME q = n PROVE FALSE
    OBVIOUS
  <2>1. P[n] \in Seq(Names)
    BY <1>1
  <2>2. Len(P[n]) = Len(P[n]) + 1 /\ Len(P[n]) \in Nat
    BY <1>4, <2>1, AppendedPath
  <2> QED
    BY <2>2
<1> QED
  BY <1>2, <1>4, <1>5, <1>6 DEF LinkTo

LEMMA Unnaming ==
  ASSUME NEW tree, NEW P, Tree(tree, P), NEW n \in DOMAIN tree, n # RootId
  PROVE  \E q \in DOMAIN tree : \E name \in DOMAIN tree[q].children :
           LinkTo(tree, P, n, q, name) /\ Unlinked(tree, Unnamed(tree, n), q, name)
<1> DEFINE q == tree[n].parent
           children == tree[q].children
           name == CHOOSE x \in DOMAIN children : children[x] = n
           rest == [x \in DOMAIN children \ {name} |-> children[x]]
           new == [tree EXCEPT ![q].children = rest]
<1>1. q \in DOMAIN tree /\ \E x \in DOMAIN children : children[x] = n
  BY DEF Tree, Linked
<1>2. name \in DOMAIN children /\ children[name] = n
  BY <1>1
<1>3. Unnamed(tree, n) = new
  BY DEF Unnamed
<1> HIDE DEF name
<1>4. LinkTo(tree, P, n, q, name)
  BY <1>1, <1>2, OnlyLink
<1>5. tree \in [DOMAIN tree -> NodeType]
  BY DEF Tree, Typed
<1>6. rest \in ChildMaps
  <2>1. tree[q] \in NodeType
    BY <1>1, <1>5
  <2>2. DOMAIN children \subseteq Names /\ children \in [DOMAIN children -> 1..MaxId]
    BY <2>1, NodeFields
  <2> HIDE DEF children
  <2>3. rest \in [DOMAIN children \ {name} -> 1..MaxId]
    BY <2>2
  <2> QED
    BY <2>2, <2>3 DEF ChildMaps
<1>7. ASSUME NEW i \in DOMAIN tree
      PROVE  /\ new[i] \in NodeType
             /\ new[i].data = tree[i].data
             /\ new[i].parent = tree[i].parent
             /\ i # q => new[i].children = tree[i].children
             /\ i = q => new[i].children = rest
  <2>1. tree[i] = [data |-> tree[i].data, parent |-> tree[i].parent, children |-> tree[i].children]
        /\ tree[i].data \in FileType /\ tree[i].parent \in Nat /\ tree[i].children \in ChildMaps
        /\ tree[i] \in NodeType
    BY <1>5 DEF NodeType, FileType
  <2>2. CASE i = q
    <3>1. new[i] = [tree[i] EXCEPT !.children = rest]
      BY <2>2
    <3> HIDE DEF rest, new
    <3>2. new[i] = [data |-> tree[i].data, parent |-> tree[i].parent, children |-> rest]
      BY <2>1, <3>1
    <3> QED
      BY <1>6, <2>1, <2>2, <3>2 DEF NodeType, FileType
  <2>3. CASE i # q
    BY <2>1, <2>3
  <2> QED
    BY <2>2, <2>3
<1>8. DOMAIN rest = DOMAIN children \ {name} /\ \A x \in DOMAIN rest : rest[x] = children[x]
  OBVIOUS
<1>9. DOMAIN new = DOMAIN tree /\ new = [i \in DOMAIN tree |-> new[i]]
  OBVIOUS
<1> HIDE DEF rest, new
<1>10. Unlinked(tree, new, q, name)
  BY <1>1, <1>7, <1>8, <1>9 DEF Unlinked
<1> QED
  BY <1>1, <1>2, <1>3, <1>4, <1>10

WithoutPath(P, n) == [i \in DOMAIN P \ {n} |-> P[i]]

(* A node without children that is removed.                                *)
LEMMA Removing ==
  ASSUME NEW tree, NEW P, Tree(tree, P), NEW n \in DOMAIN tree, n # RootId,
         DOMAIN tree[n].children = {}
  PROVE  Shrunk(tree, {n}, Without(Unnamed(tree, n), {n}), WithoutPath(P, n))
<1> DEFINE cut == Unnamed(tree, n)
           new == Without(cut, {n})
           Q == WithoutPath(P, n)
<1>0. PICK q \in DOMAIN tree : \E x \in DOMAIN tree[q].children :
        LinkTo(tree, P, n, q, x) /\ Unlinked(tree, cut, q, x)
  BY Unnaming
<1>1. PICK name \in DOMAIN tree[q].children :
        LinkTo(tree, P, n, q, name) /\ Unlinked(tree, cut, q, name)
  BY <1>0
<1> HIDE DEF cut
<1>2. /\ DOMAIN new = DOMAIN tree \ {n}
      /\ \A i \in DOMAIN new : new[i] = cut[i]
      /\ new \in [DOMAIN tree \ {n} -> NodeType]
  BY <1>1 DEF Without, Unlinked
<1>3. P \in [DOMAIN tree -> Seq(Names)] /\ P[RootId] = <<>>
  BY DEF Tree, PathsAgree
<1>4. /\ DOMAIN Q = DOMAIN tree \ {n}
      /\ \A i \in DOMAIN Q : Q[i] = P[i]
      /\ Q \in [DOMAIN tree \ {n} -> Seq(Names)]
  BY <1>3 DEF WithoutPath
<1> HIDE DEF new, Q
<1>5. ASSUME NEW i \in DOMAIN new, NEW x \in DOMAIN new[i].children
      PROVE  /\ x \in DOMAIN tree[i].children
             /\ new[i].children[x] = tree[i].children[x]
             /\ tree[i].children[x] \in DOMAIN new
             /\ tree[tree[i].children[x]].parent = i
  <2>1. i \in DOMAIN tree /\ new[i] = cut[i]
    BY <1>2
  <2>2. x \in DOMAIN tree[i].children /\ cut[i].children[x] = tree[i].children[x]
        /\ ~(i = q /\ x = name)
    BY <1>1, <2>1 DEF Unlinked
  <2>3. tree[i].children[x] \in DOMAIN tree /\ tree[tree[i].children[x]].parent = i
    BY <2>1, <2>2 DEF Tree, Linked
  <2>4. tree[i].children[x] # n
    BY <1>1, <2>1, <2>2 DEF LinkTo
  <2> QED
    BY <1>2, <2>1, <2>2, <2>3, <2>4
<1>6. \A i \in DOMAIN new : new[i].data = tree[i].data /\ new[i].parent = tree[i].parent
  BY <1>1, <1>2 DEF Unlinked
<1>7. Typed(new)
  BY <1>2 DEF Tree, Typed
<1>8. Linked(new)
  <2>1. RootId \in DOMAIN new /\ new[RootId].data.isDir
    BY <1>2, <1>6 DEF Tree, Linked
  <2>2. ASSUME NEW i \in DOMAIN new, ~new[i].data.isDir PROVE new[i].children = NoChildren
    <3>1. i \in DOMAIN tree /\ ~tree[i].data.isDir
      BY <2>2, <1>2, <1>6
    <3>2. i # q
      BY <3>1, <1>1 DEF LinkTo
    <3>3. new[i].children = tree[i].children
      BY <1>1, <1>2, <3>1, <3>2 DEF Unlinked
    <3> QED
      BY <3>1, <3>3 DEF Tree, Linked
  <2>3. ASSUME NEW i \in DOMAIN new, NEW x \in DOMAIN new[i].children
        PROVE  new[i].children[x] \in DOMAIN new /\ new[new[i].children[x]].parent = i
    BY <1>5, <1>6
  <2>4. ASSUME NEW i \in DOMAIN new, i # RootId
        PROVE  /\ new[i].parent \in DOMAIN new
               /\ \E x \in DOMAIN new[new[i].parent].children : new[new[i].parent].children[x] = i
    <3> DEFINE r == tree[i].parent
    <3>1. i \in DOMAIN tree /\ i # n /\ new[i].parent = r
      BY <1>2, <1>6
    <3>2. r \in DOMAIN tree /\ \E x \in DOMAIN tree[r].children : tree[r].children[x] = i
      BY <2>4, <3>1 DEF Tree, Linked
    <3> HIDE DEF r
    <3>3. PICK x \in DOMAIN tree[r].children : tree[r].children[x] = i
      BY <3>2
    <3>4. r # n
      BY <3>3
    <3>5. r \in DOMAIN new /\ new[r] = cut[r]
      BY <1>2, <3>2, <3>4
    <3>6. ~(r = q /\ x = name)
      BY <1>1, <3>1, <3>3 DEF LinkTo
    <3>7. x \in DOMAIN new[r].children
      BY <1>1, <3>2, <3>3, <3>5, <3>6 DEF Unlinked
    <3>8. new[r].children[x] = i
      BY <1>5, <3>3, <3>5, <3>7
    <3> QED
      BY <3>1, <3>5, <3>7, <3>8
  <2> QED
    BY <2>1, <2>2, <2>3, <2>4 DEF Linked
<1>9. PathsAgree(new, Q)
  <2>1. Q \in [DOMAIN new -> Seq(Names)] /\ Q[RootId] = <<>>
    BY <1>2, <1>3, <1>4 DEF Tree, Linked
  <2>2. ASSUME NEW i \in DOMAIN new, NEW x \in DOMAIN new[i].children
        PROVE  Q[new[i].children[x]] = Append(Q[i], x)
    <3>1. i \in DOMAIN tree /\ x \in DOMAIN tree[i].children
          /\ new[i].children[x] = tree[i].children[x] /\ tree[i].children[x] \in DOMAIN new
      BY <1>2, <1>5
    <3>2. P[tree[i].children[x]] = Append(P[i], x)
      BY <3>1 DEF Tree, PathsAgree
    <3> QED
      BY <1>2, <1>4, <3>1, <3>2
  <2> QED
    BY <2>1, <2>2 DEF PathsAgree
<1>10. Tree(new, Q)
  BY <1>7, <1>8, <1>9 DEF Tree
<1> QED
  BY <1>2, <1>6, <1>10 DEF Shrunk, new, Q, cut

(* New contents: those of a file can become the ones of a directory.       *)
LEMMA Refilling ==
  ASSUME NEW tree, NEW P, Tree(tree, P), NEW n \in DOMAIN tree, ~tree[n].data.isDir,
         NEW data \in FileType
  PROVE  Tree([tree EXCEPT ![n].data = data], P)
<1> DEFINE new == [tree EXCEPT ![n].data = data]
<1>1. tree \in [DOMAIN tree -> NodeType]
  BY DEF Tree, Typed
<1>2. ASSUME NEW i \in DOMAIN tree
      PROVE  /\ new[i] \in NodeType
             /\ i # n => new[i].data = tree[i].data
             /\ new[i].parent = tree[i].parent
             /\ new[i].children = tree[i].children
  <2>1. tree[i] = [data |-> tree[i].data, parent |-> tree[i].parent, children |-> tree[i].children]
        /\ tree[i].data \in FileType /\ tree[i].parent \in Nat /\ tree[i].children \in ChildMaps
        /\ tree[i] \in NodeType
    BY <1>1 DEF NodeType, FileType
  <2>2. CASE i = n
    <3>1. new[i] = [tree[i] EXCEPT !.data = data]
      BY <2>2
    <3> HIDE DEF new
    <3>2. new[i] = [data |-> data, parent |-> tree[i].parent, children |-> tree[i].children]
      BY <2>1, <3>1
    <3> QED
      BY <2>1, <2>2, <3>2 DEF NodeType, FileType
  <2>3. CASE i # n
    BY <2>1, <2>3
  <2> QED
    BY <2>2, <2>3
<1>3. DOMAIN new = DOMAIN tree /\ new = [i \in DOMAIN tree |-> new[i]]
  OBVIOUS
<1> HIDE DEF new
<1>4. n # RootId /\ tree[n].children = NoChildren
  BY DEF Tree, Linked
<1>5. Typed(new)
  BY <1>2, <1>3 DEF Tree, Typed
<1>6. Linked(new)
  <2>1. ASSUME NEW i \in DOMAIN new, ~new[i].data.isDir PROVE new[i].children = NoChildren
    BY <1>2, <1>3, <1>4, <2>1 DEF Tree, Linked
  <2>2. RootId \in DOMAIN new /\ new[RootId].data.isDir
    BY <1>2, <1>3, <1>4 DEF Tree, Linked
  <2>3. ASSUME NEW i \in DOMAIN new, NEW x \in DOMAIN new[i].children
        PROVE  new[i].children[x] \in DOMAIN new /\ new[new[i].children[x]].parent = i
    <3>1. i \in DOMAIN tree /\ x \in DOMAIN tree[i].children
          /\ new[i].children[x] = tree[i].children[x]
      BY <1>2, <1>3
    <3>2. tree[i].children[x] \in DOMAIN tree /\ tree[tree[i].children[x]].parent = i
      BY <3>1 DEF Tree, Linked
    <3> QED
      BY <1>2, <1>3, <3>1, <3>2
  <2>4. ASSUME NEW i \in DOMAIN new, i # RootId
        PROVE  /\ new[i].parent \in DOMAIN new
               /\ \E x \in DOMAIN new[new[i].parent].children : new[new[i].parent].children[x] = i
    <3>1. /\ tree[i].parent \in DOMAIN tree
          /\ \E x \in DOMAIN tree[tree[i].parent].children : tree[tree[i].parent].children[x] = i
      BY <1>3, <2>4 DEF Tree, Linked
    <3> QED
      BY <1>2, <1>3, <3>1
  <2> QED
    BY <2>1, <2>2, <2>3, <2>4 DEF Linked
<1>7. PathsAgree(new, P)
  <2>1. P \in [DOMAIN new -> Seq(Names)] /\ P[RootId] = <<>>
    BY <1>3 DEF Tree, PathsAgree
  <2>2. ASSUME NEW i \in DOMAIN new, NEW x \in DOMAIN new[i].children
        PROVE  P[new[i].children[x]] = Append(P[i], x)
    <3>1. i \in DOMAIN tree /\ new[i].children = tree[i].children
      BY <1>2, <1>3
    <3> QED
      BY <3>1 DEF Tree, PathsAgree
  <2> QED
    BY <2>1, <2>2 DEF PathsAgree
<1> QED
  BY <1>5, <1>6, <1>7 DEF Tree, new

(* Paths that move along with the directory they are in.                   *)
MovedPath(from, to, p) ==
  IF IsPrefix(from, p) THEN to \o SubSeq(p, Len(from) + 1, Len(p)) ELSE p

LEMMA PrefixOfChild ==
  ASSUME NEW from \in Seq(Names), NEW p \in Seq(Names), NEW name \in Names
  PROVE  /\ IsPrefix(from, p) => IsPrefix(from, Append(p, name))
         /\ IsPrefix(from, Append(p, name)) => IsPrefix(from, p) \/ from = Append(p, name)
         /\ IsPrefix(from, from)
         /\ from # <<>> => ~IsPrefix(from, <<>>)
         /\ IsPrefix(from, p) <=> Len(from) <= Len(p) /\ \A i \in 1..Len(from) : from[i] = p[i]
  BY DEF IsPrefix

LEMMA ChildSegments ==
  ASSUME NEW p \in Seq(Names), NEW name \in Names
  PROVE  /\ \A i \in 1..Len(p) : Append(p, name)[i] = p[i]
         /\ Append(p, name)[Len(p) + 1] = name
  OBVIOUS

LEMMA MovedChild ==
  ASSUME NEW from \in Seq(Names), NEW to \in Seq(Names), NEW p \in Seq(Names), NEW name \in Names,
         IsPrefix(from, p)
  PROVE  MovedPath(from, to, Append(p, name)) = Append(MovedPath(from, to, p), name)
<1> DEFINE rest == SubSeq(p, Len(from) + 1, Len(p))
           longer == SubSeq(Append(p, name), Len(from) + 1, Len(p) + 1)
<1>1. Len(from) <= Len(p) /\ Len(from) \in Nat /\ Len(p) \in Nat
  BY PrefixOfChild
<1>2. rest \in Seq(Names) /\ Len(rest) = Len(p) - Len(from)
      /\ \A i \in 1..Len(rest) : rest[i] = p[Len(from) + i]
  BY <1>1
<1>3. longer \in Seq(Names) /\ Len(longer) = Len(p) + 1 - Len(from)
      /\ \A i \in 1..Len(longer) : longer[i] = Append(p, name)[Len(from) + i]
  BY <1>1
<1> HIDE DEF rest, longer
<1>4. longer = Append(rest, name)
  <2>1. Append(rest, name) \in Seq(Names) /\ Len(Append(rest, name)) = Len(longer)
    BY <1>1, <1>2, <1>3
  <2>2. ASSUME NEW i \in 1..Len(longer) PROVE longer[i] = Append(rest, name)[i]
    <3>1. longer[i] = Append(p, name)[Len(from) + i]
      BY <1>3
    <3>2. Len(rest) \in Nat /\ i \in 1..Len(rest) + 1 /\ Len(rest) = Len(p) - Len(from)
      BY <1>1, <1>2, <1>3
    <3>3. CASE i \in 1..Len(rest)
      <4>1. Append(rest, name)[i] = rest[i]
        BY <1>2, <3>3, ChildSegments
      <4>2. Len(from) + i \in 1..Len(p)
        BY <1>1, <3>2, <3>3
      <4>3. Append(p, name)[Len(from) + i] = p[Len(from) + i]
        BY <4>2, ChildSegments
      <4> QED
        BY <1>2, <3>1, <3>3, <4>1, <4>3
    <3>4. CASE i = Len(rest) + 1
      <4>1. Append(rest, name)[i] = name
        BY <1>2, <3>4, ChildSegments
      <4>2. Len(from) + i = Len(p) + 1
        BY <1>1, <3>2, <3>4
      <4> QED
        BY <3>1, <4>1, <4>2, ChildSegments
    <3> QED
      BY <3>2, <3>3, <3>4
  <2> QED
    BY <1>3, <2>1, <2>2, SeqEqual
<1> USE DEF rest, longer
<1>5. MovedPath(from, to, p) = to \o rest
  BY DEF MovedPath
<1>6. MovedPath(from, to, Append(p, name)) = to \o longer
  BY PrefixOfChild, AppendedPath DEF MovedPath
<1> HIDE DEF rest, longer
<1>7. to \o Append(rest, name) = Append(to \o rest, name)
  BY <1>2
<1> QED
  BY <1>4, <1>5, <1>6, <1>7

LEMMA MovedIsPath ==
  ASSUME NEW from \in Seq(Names), NEW to \in Seq(Names), NEW p \in Seq(Names)
  PROVE  MovedPath(from, to, p) \in Seq(Names) /\ MovedPath(from, to, from) = to
<1>1. SubSeq(p, Len(from) + 1, Len(p)) \in Seq(Names)
  BY SubSeqProperties
<1>2. SubSeq(from, Len(from) + 1, Len(from)) = <<>>
  BY SubSeqEmpty
<1>3. to \o <<>> = to
  BY ConcatEmptySeq
<1> QED
  BY <1>1, <1>2, <1>3, PrefixOfChild DEF MovedPath

(* move_node: the node gets a new parent and name, which replaces the node *)
(* that has the name.                                                      *)
Replaced(tree, parent, name) ==
  {tree[parent].children[x] : x \in {name} \cap DOMAIN tree[parent].children}
MovedTree(tree, n, parent, name) ==
  [Without(Unnamed(tree, n), Replaced(tree, parent, name)) EXCEPT
     ![n].parent = parent, ![parent].children = Put(@, name, n)]
MovedPaths(tree, P, n, parent, name) ==
  [i \in DOMAIN tree \ Replaced(tree, parent, name) |->
     MovedPath(P[n], Append(P[parent], name), P[i])]

LEMMA Moving ==
  ASSUME NEW tree, NEW P, Tree(tree, P), NEW n \in DOMAIN tree, n # RootId,
         NEW parent \in DOMAIN tree, tree[parent].data.isDir, NEW name \in Names,
         ~IsPrefix(P[n], Append(P[parent], name)),
         name \in DOMAIN tree[parent].children =>
           DOMAIN tree[tree[parent].children[name]].children = {}
  PROVE  Shrunk(tree, Replaced(tree, parent, name), MovedTree(tree, n, parent, name),
                MovedPaths(tree, P, n, parent, name))
<1> DEFINE from == P[n]
           to == Append(P[parent], name)
           gone == Replaced(tree, parent, name)
           cut == Unnamed(tree, n)
           base == Without(cut, gone)
           new == MovedTree(tree, n, parent, name)
           Q == MovedPaths(tree, P, n, parent, name)
<1>1. /\ P \in [DOMAIN tree -> Seq(Names)] /\ P[RootId] = <<>>
      /\ from \in Seq(Names) /\ P[parent] \in Seq(Names)
      /\ to \in Seq(Names) /\ from # <<>>
  <2>1. P \in [DOMAIN tree -> Seq(Names)] /\ P[RootId] = <<>>
    BY DEF Tree, PathsAgree
  <2>2. RootId \in DOMAIN tree
    BY DEF Tree, Linked
  <2> QED
    BY <2>1, <2>2, AppendedPath, ChildOfParent
<1>2. PICK q \in DOMAIN tree : \E x \in DOMAIN tree[q].children :
        LinkTo(tree, P, n, q, x) /\ Unlinked(tree, cut, q, x)
  BY Unnaming
<1>3. PICK old \in DOMAIN tree[q].children :
        LinkTo(tree, P, n, q, old) /\ Unlinked(tree, cut, q, old)
  BY <1>2
<1>4. ~IsPrefix(from, P[parent]) /\ from # to /\ n # parent
  BY <1>1, PrefixOfChild
<1>5. ASSUME NEW g \in gone
      PROVE  /\ name \in DOMAIN tree[parent].children /\ g = tree[parent].children[name]
             /\ g \in DOMAIN tree /\ DOMAIN tree[g].children = {}
             /\ LinkTo(tree, P, g, parent, name) /\ g # n /\ g # parent /\ g # RootId
  <2>1. name \in DOMAIN tree[parent].children /\ g = tree[parent].children[name]
    BY <1>5 DEF Replaced
  <2>2. g \in DOMAIN tree /\ P[g] = to
    BY <2>1 DEF Tree, Linked, PathsAgree
  <2>3. g # n /\ g # RootId
    BY <1>1, <1>4, <2>2, AppendedPath
  <2>4. LinkTo(tree, P, g, parent, name)
    BY <2>1, <2>2, <2>3, OnlyLink
  <2> QED
    BY <2>1, <2>2, <2>3, <2>4 DEF LinkTo
<1>6. name \in DOMAIN tree[parent].children => tree[parent].children[name] \in gone
  BY DEF Replaced
<1> HIDE DEF from, to, gone
<1>7. /\ DOMAIN base = DOMAIN tree \ gone
      /\ \A i \in DOMAIN base : base[i] = cut[i]
      /\ base \in [DOMAIN tree \ gone -> NodeType]
  <2> HIDE DEF cut
  <2> QED
    BY <1>3 DEF Without, Unlinked
<1>8. n \in DOMAIN base /\ parent \in DOMAIN base /\ RootId \in DOMAIN base
  BY <1>5, <1>7 DEF Tree, Linked
<1>9. new = [base EXCEPT ![n].parent = parent, ![parent].children = Put(@, name, n)]
  BY DEF MovedTree, gone
<1> HIDE DEF cut, base, new
<1>10. DOMAIN new = DOMAIN base /\ new = [i \in DOMAIN base |-> new[i]]
  BY <1>9
<1>11. tree \in [DOMAIN tree -> NodeType] /\ DOMAIN tree \subseteq 1..MaxId /\ MaxId \in Nat
  BY WebDavAssumption DEF Tree, Typed
<1>12. ASSUME NEW i \in DOMAIN base
       PROVE  /\ new[i] \in NodeType
              /\ new[i].data = base[i].data
              /\ i # n => new[i].parent = base[i].parent
              /\ i = n => new[i].parent = parent
              /\ i # parent => new[i].children = base[i].children
              /\ i = parent => new[i].children = Put(base[i].children, name, n)
  <2>1. /\ base[i] = [data |-> base[i].data, parent |-> base[i].parent,
                      children |-> base[i].children]
        /\ base[i].data \in FileType /\ base[i].parent \in Nat /\ base[i].children \in ChildMaps
        /\ base[i] \in NodeType
    BY <1>7 DEF NodeType, FileType
  <2>2. CASE i = n
    <3>1. new[i] = [base[i] EXCEPT !.parent = parent]
      BY <1>4, <1>8, <1>9, <2>2
    <3>2. new[i] = [data |-> base[i].data, parent |-> parent, children |-> base[i].children]
      BY <2>1, <3>1
    <3>3. parent \in Nat
      BY <1>11
    <3> QED
      BY <1>4, <2>1, <2>2, <3>2, <3>3 DEF NodeType, FileType
  <2>3. CASE i = parent
    <3> DEFINE map == Put(base[i].children, name, n)
    <3>1. map \in ChildMaps
      BY <1>11, <2>1, PutChild
    <3>2. new[i] = [base[i] EXCEPT !.children = map]
      BY <1>4, <1>8, <1>9, <2>3
    <3> HIDE DEF map
    <3>3. new[i] = [data |-> base[i].data, parent |-> base[i].parent, children |-> map]
      BY <2>1, <3>2
    <3> QED
      BY <1>4, <2>1, <2>3, <3>1, <3>3 DEF map, NodeType, FileType
  <2>4. CASE i # n /\ i # parent
    BY <2>1, <1>9, <2>4
  <2> QED
    BY <2>2, <2>3, <2>4
<1>13. /\ DOMAIN new[parent].children = DOMAIN base[parent].children \cup {name}
       /\ new[parent].children[name] = n
       /\ \A x \in DOMAIN base[parent].children :
            x # name => new[parent].children[x] = base[parent].children[x]
  <2> DEFINE children == base[parent].children
  <2>1. new[parent].children = Put(children, name, n)
    BY <1>8, <1>12
  <2> HIDE DEF children
  <2>2. /\ DOMAIN Put(children, name, n) = DOMAIN children \cup {name}
        /\ Put(children, name, n)[name] = n
        /\ \A x \in DOMAIN children : x # name => Put(children, name, n)[x] = children[x]
    BY DEF Put
  <2> QED
    BY <2>1, <2>2 DEF children
(* Which links there are now. *)
<1>14. ASSUME NEW i \in DOMAIN new, NEW x \in DOMAIN new[i].children, ~(i = parent /\ x = name)
       PROVE  /\ x \in DOMAIN tree[i].children
              /\ new[i].children[x] = tree[i].children[x]
              /\ tree[i].children[x] \in DOMAIN new
              /\ tree[i].children[x] # n
  <2>1. i \in DOMAIN tree /\ i \in DOMAIN base /\ base[i] = cut[i]
    BY <1>7, <1>10
  <2>2. x \in DOMAIN base[i].children /\ new[i].children[x] = base[i].children[x]
    BY <1>12, <1>13, <1>14, <2>1
  <2>3. x \in DOMAIN tree[i].children /\ cut[i].children[x] = tree[i].children[x]
        /\ ~(i = q /\ x = old)
    BY <1>3, <2>1, <2>2 DEF Unlinked
  <2>4. tree[i].children[x] \in DOMAIN tree
    BY <2>1, <2>3 DEF Tree, Linked
  <2>5. tree[i].children[x] # n
    BY <1>3, <2>1, <2>3 DEF LinkTo
  <2>6. tree[i].children[x] \notin gone
    BY <1>5, <1>14, <2>1, <2>3 DEF LinkTo
  <2> QED
    BY <1>7, <1>10, <2>1, <2>2, <2>3, <2>4, <2>5, <2>6
<1>15. ASSUME NEW i \in DOMAIN new, NEW x \in DOMAIN tree[i].children,
              ~(i = q /\ x = old), ~(i = parent /\ x = name)
       PROVE  x \in DOMAIN new[i].children
  <2>1. i \in DOMAIN tree /\ i \in DOMAIN base /\ base[i] = cut[i]
    BY <1>7, <1>10
  <2>2. x \in DOMAIN base[i].children
    BY <1>3, <1>15, <2>1 DEF Unlinked
  <2> QED
    BY <1>12, <1>13, <2>1, <2>2
<1>16. ASSUME NEW i \in DOMAIN new
       PROVE  /\ i \in DOMAIN tree
              /\ new[i].data = tree[i].data
              /\ i # n => new[i].parent = tree[i].parent
              /\ i = n => new[i].parent = parent
  BY <1>3, <1>7, <1>10, <1>12 DEF Unlinked
<1>17. Typed(new)
  BY <1>7, <1>10, <1>11, <1>12 DEF Typed
<1>18. Linked(new)
  <2>1. RootId \in DOMAIN new /\ new[RootId].data.isDir
    BY <1>8, <1>10, <1>16 DEF Tree, Linked
  <2>2. ASSUME NEW i \in DOMAIN new, ~new[i].data.isDir PROVE new[i].children = NoChildren
    <3>1. i \in DOMAIN tree /\ ~tree[i].data.isDir
      BY <2>2, <1>16
    <3>2. i # q /\ i # parent
      BY <3>1, <1>3 DEF LinkTo
    <3>3. new[i].children = tree[i].children
      BY <1>3, <1>7, <1>10, <1>12, <3>1, <3>2 DEF Unlinked
    <3> QED
      BY <3>1, <3>3 DEF Tree, Linked
  <2>3. ASSUME NEW i \in DOMAIN new, NEW x \in DOMAIN new[i].children
        PROVE  new[i].children[x] \in DOMAIN new /\ new[new[i].children[x]].parent = i
    <3>1. CASE i = parent /\ x = name
      BY <1>8, <1>10, <1>13, <1>16, <3>1
    <3>2. CASE ~(i = parent /\ x = name)
      <4>1. x \in DOMAIN tree[i].children /\ i \in DOMAIN tree
            /\ new[i].children[x] = tree[i].children[x]
            /\ tree[i].children[x] \in DOMAIN new /\ tree[i].children[x] # n
        BY <1>14, <1>16, <3>2
      <4>2. tree[tree[i].children[x]].parent = i
        BY <4>1 DEF Tree, Linked
      <4> QED
        BY <1>16, <4>1, <4>2
    <3> QED
      BY <3>1, <3>2
  <2>4. ASSUME NEW i \in DOMAIN new, i # RootId
        PROVE  /\ new[i].parent \in DOMAIN new
               /\ \E x \in DOMAIN new[new[i].parent].children : new[new[i].parent].children[x] = i
    <3>1. CASE i = n
      BY <1>8, <1>10, <1>13, <1>16, <3>1
    <3>2. CASE i # n
      <4> DEFINE r == tree[i].parent
      <4>1. i \in DOMAIN tree /\ new[i].parent = r
        BY <1>16, <3>2
      <4>2. r \in DOMAIN tree /\ \E x \in DOMAIN tree[r].children : tree[r].children[x] = i
        BY <2>4, <4>1 DEF Tree, Linked
      <4> HIDE DEF r
      <4>3. PICK x \in DOMAIN tree[r].children : tree[r].children[x] = i
        BY <4>2
      <4>4. r \in DOMAIN new
        BY <1>5, <1>7, <1>10, <4>2, <4>3
      <4>5. ~(r = q /\ x = old)
        BY <1>3, <3>2, <4>3 DEF LinkTo
      <4>6. ~(r = parent /\ x = name)
        BY <1>6, <1>7, <1>10, <4>3
      <4>7. x \in DOMAIN new[r].children /\ new[r].children[x] = i
        BY <1>14, <1>15, <4>3, <4>4, <4>5, <4>6
      <4> QED
        BY <4>1, <4>4, <4>7
    <3> QED
      BY <3>1, <3>2
  <2> QED
    BY <2>1, <2>2, <2>3, <2>4 DEF Linked
<1>19. DOMAIN Q = DOMAIN new /\ \A i \in DOMAIN new : Q[i] = MovedPath(from, to, P[i])
  BY <1>7, <1>10 DEF MovedPaths, from, to, gone
<1>20. Q \in [DOMAIN new -> Seq(Names)]
  <2>1. Q = [i \in DOMAIN Q |-> Q[i]]
    BY DEF MovedPaths
  <2>2. ASSUME NEW i \in DOMAIN new PROVE Q[i] \in Seq(Names)
    <3>1. P[i] \in Seq(Names)
      BY <1>1, <1>16
    <3> QED
      BY <1>1, <1>19, <3>1, MovedIsPath
  <2> HIDE DEF Q
  <2> QED
    BY <1>19, <2>1, <2>2
<1> HIDE DEF Q
<1>21. PathsAgree(new, Q)
  <2>1. Q[RootId] = <<>>
    BY <1>1, <1>8, <1>10, <1>19, PrefixOfChild DEF MovedPath
  <2>2. ASSUME NEW i \in DOMAIN new, NEW x \in DOMAIN new[i].children
        PROVE  Q[new[i].children[x]] = Append(Q[i], x)
    <3>1. CASE i = parent /\ x = name
      <4>1. Q[parent] = P[parent]
        BY <1>4, <1>19, <3>1 DEF MovedPath
      <4>2. Q[n] = to
        BY <1>1, <1>8, <1>10, <1>19, MovedIsPath DEF from
      <4> QED
        BY <1>13, <3>1, <4>1, <4>2 DEF to
    <3>2. CASE ~(i = parent /\ x = name)
      <4> DEFINE j == tree[i].children[x]
      <4>1. x \in DOMAIN tree[i].children /\ i \in DOMAIN tree
            /\ new[i].children[x] = j /\ j \in DOMAIN new /\ j # n
        BY <1>14, <1>16, <3>2
      <4>2. P[j] = Append(P[i], x) /\ j \in DOMAIN tree
        BY <4>1 DEF Tree, Linked, PathsAgree
      <4> HIDE DEF j
      <4>3. P[i] \in Seq(Names) /\ x \in Names
        BY <1>1, <1>11, <4>1, NodeFields
      <4>4. Q[i] = MovedPath(from, to, P[i]) /\ Q[j] = MovedPath(from, to, Append(P[i], x))
        BY <1>19, <4>1, <4>2
      <4>5. CASE IsPrefix(from, P[i])
        BY <1>1, <4>1, <4>3, <4>4, <4>5, MovedChild
      <4>6. CASE ~IsPrefix(from, P[i])
        <5>1. from # P[j]
          BY <4>1, <4>2, PathsDiffer DEF from
        <5>2. ~IsPrefix(from, Append(P[i], x))
          BY <1>1, <4>2, <4>3, <4>6, <5>1, PrefixOfChild
        <5> QED
          BY <4>1, <4>4, <4>6, <5>2 DEF MovedPath
      <4> QED
        BY <4>5, <4>6
    <3> QED
      BY <3>1, <3>2
  <2> QED
    BY <1>20, <2>1, <2>2 DEF PathsAgree
<1>22. Tree(new, Q)
  BY <1>17, <1>18, <1>21 DEF Tree
<1>23. DOMAIN new = DOMAIN tree \ gone /\ \A i \in DOMAIN tree \ gone : new[i].data = tree[i].data
  BY <1>7, <1>10, <1>16
<1> QED
  BY <1>22, <1>23 DEF Shrunk, new, Q, gone

-------------------------------------------------------------------------------
(* What Placed finds: each node with its path.                             *)
LEMMA PathsShort ==
  ASSUME NEW tree, NEW P, Tree(tree, P), NEW i \in DOMAIN tree
  PROVE  Len(P[i]) \in 0..MaxId - 1
<1> DEFINE len == Len(P[i])
           T == {k \in Nat : k <= len => \E j \in DOMAIN tree : Len(P[j]) = len - k}
<1>1. P \in [DOMAIN tree -> Seq(Names)] /\ P[RootId] = <<>>
      /\ DOMAIN tree \subseteq 1..MaxId /\ MaxId \in Nat
  BY WebDavAssumption DEF Tree, PathsAgree, Typed
<1>2. len \in Nat
  BY <1>1
<1>3. 0 \in T
  BY <1>2
<1>4. ASSUME NEW n \in Nat, n < len, n \in T PROVE n + 1 \in T
  <2>1. PICK j \in DOMAIN tree : Len(P[j]) = len - n
    BY <1>2, <1>4
  <2>2. P[j] \in Seq(Names) /\ j # RootId
    BY <1>1, <1>2, <1>4, <2>1
  <2>3. PICK r \in DOMAIN tree, x \in Names : P[r] \in Seq(Names) /\ P[j] = Append(P[r], x)
    BY <2>2, ChildOfParent
  <2>4. Len(P[j]) = Len(P[r]) + 1 /\ Len(P[r]) \in Nat
    BY <2>3, AppendedPath
  <2>5. Len(P[r]) = len - (n + 1)
    BY <1>2, <2>1, <2>4
  <2> QED
    BY <2>3, <2>5
<1>5. T \in SUBSET Nat
  OBVIOUS
<1> HIDE DEF T, len
<1>6. \A n \in 0..len : n \in T
  BY <1>2, <1>3, <1>4, <1>5, Induction
<1>7. ASSUME NEW k \in 0..len PROVE \E j \in DOMAIN tree : Len(P[j]) = k
  <2>1. len - k \in 0..len /\ len - (len - k) = k
    BY <1>2
  <2>2. len - k \in T
    BY <1>6, <2>1
  <2> QED
    BY <2>1, <2>2 DEF T
<1> DEFINE D == {j \in DOMAIN tree : Len(P[j]) \in 0..len}
           f == [j \in D |-> Len(P[j])]
<1>8. f \in Surjection(D, 0..len)
  <2>1. f \in [D -> 0..len]
    OBVIOUS
  <2>2. ASSUME NEW k \in 0..len PROVE \E j \in D : f[j] = k
    BY <1>7
  <2> HIDE DEF D, f
  <2> QED
    BY <2>1, <2>2 DEF Surjection
<1>9. IsFiniteSet(D) /\ Cardinality(D) <= MaxId
  <2>1. IsFiniteSet(1..MaxId) /\ Cardinality(1..MaxId) = MaxId
    BY <1>1, FS_Interval
  <2>2. D \subseteq 1..MaxId
    BY <1>1
  <2>3. IsFiniteSet(D) /\ Cardinality(D) <= Cardinality(1..MaxId)
    BY <2>1, <2>2, FS_Subset
  <2> QED
    BY <2>1, <2>3
<1> HIDE DEF D, f
<1>10. IsFiniteSet(0..len) /\ Cardinality(0..len) <= Cardinality(D)
  BY <1>8, <1>9, FS_Surjection
<1>11. Cardinality(0..len) = len + 1
  BY <1>2, FS_Interval
<1>12. Cardinality(D) \in Nat
  BY <1>9, FS_CardinalityType
<1> QED
  BY <1>1, <1>2, <1>9, <1>10, <1>11, <1>12 DEF len

LEMMA PlacedPaths ==
  ASSUME NEW tree, NEW P, Tree(tree, P)
  PROVE  Placed(tree) = {<<P[i], i>> : i \in DOMAIN tree}
<1> DEFINE Below(L) == UNION {{<<Append(x[1], name), tree[x[2]].children[name]>> :
                                 name \in DOMAIN tree[x[2]].children} : x \in L}
           Level(g) == g = [n \in 0..MaxId - 1 |->
                              IF n = 0 THEN {<<<<>>, RootId>>} ELSE Below(g[n - 1])]
           Deep(n) == {<<P[i], i>> : i \in {j \in DOMAIN tree : Len(P[j]) = n}}
           real == [n \in 0..MaxId - 1 |-> Deep(n)]
           level == CHOOSE g : Level(g)
<1>1. P \in [DOMAIN tree -> Seq(Names)] /\ P[RootId] = <<>> /\ RootId \in DOMAIN tree
      /\ MaxId \in Nat \ {0}
  BY WebDavAssumption DEF Tree, PathsAgree, Linked
<1>2. Deep(0) = {<<<<>>, RootId>>}
  <2>1. <<<<>>, RootId>> \in Deep(0)
    BY <1>1
  <2>2. ASSUME NEW y \in Deep(0) PROVE y = <<<<>>, RootId>>
    <3>1. PICK i \in DOMAIN tree : y = <<P[i], i>> /\ Len(P[i]) = 0
      OBVIOUS
    <3>2. P[i] \in Seq(Names) /\ P[i] = <<>>
      BY <1>1, <3>1
    <3>3. i = RootId
      BY <3>2, ChildOfParent
    <3> QED
      BY <3>1, <3>2, <3>3
  <2> HIDE DEF Deep
  <2> QED
    BY <2>1, <2>2
<1>3. ASSUME NEW n \in Nat PROVE Deep(n + 1) = Below(Deep(n))
  <2>1. ASSUME NEW y \in Deep(n + 1) PROVE y \in Below(Deep(n))
    <3>1. PICK i \in DOMAIN tree : y = <<P[i], i>> /\ Len(P[i]) = n + 1
      OBVIOUS
    <3>2. i # RootId
      BY <1>1, <3>1
    <3> DEFINE r == tree[i].parent
    <3>4. PICK x \in DOMAIN tree[r].children :
            /\ r \in DOMAIN tree /\ x \in Names /\ tree[r].children[x] = i
            /\ P[r] \in Seq(Names) /\ P[i] = Append(P[r], x)
      BY <3>2, ChildOfParent
    <3> HIDE DEF r
    <3>5. Len(P[r]) = n
      BY <3>1, <3>4, AppendedPath
    <3> DEFINE z == <<P[r], r>>
    <3>6. z \in Deep(n) /\ z[1] = P[r] /\ z[2] = r
      BY <3>4, <3>5
    <3> DEFINE Children(e) == {<<Append(e[1], name), tree[e[2]].children[name]>> :
                                 name \in DOMAIN tree[e[2]].children}
    <3> HIDE DEF Deep, z
    <3>7. <<Append(z[1], x), tree[z[2]].children[x]>> \in Below(Deep(n))
      <4>1. x \in DOMAIN tree[z[2]].children
        BY <3>4, <3>6
      <4>2. <<Append(z[1], x), tree[z[2]].children[x]>> \in Children(z)
        BY <4>1
      <4>3. Below(Deep(n)) = UNION {Children(e) : e \in Deep(n)}
        OBVIOUS
      <4> HIDE DEF Children, Below
      <4> QED
        BY <3>6, <4>2, <4>3
    <3> QED
      BY <3>1, <3>4, <3>6, <3>7
  <2>2. ASSUME NEW y \in Below(Deep(n)) PROVE y \in Deep(n + 1)
    <3>1. PICK z \in Deep(n) : \E x \in DOMAIN tree[z[2]].children :
            y = <<Append(z[1], x), tree[z[2]].children[x]>>
      <4> HIDE DEF Deep
      <4> QED
        OBVIOUS
    <3>2. PICK r \in DOMAIN tree : z = <<P[r], r>> /\ Len(P[r]) = n
      BY <3>1
    <3>3. PICK x \in DOMAIN tree[r].children : y = <<Append(P[r], x), tree[r].children[x]>>
      BY <3>1, <3>2
    <3>4. tree[r].children[x] \in DOMAIN tree /\ P[tree[r].children[x]] = Append(P[r], x)
      BY <3>3 DEF Tree, Linked, PathsAgree
    <3>5. x \in Names /\ P[r] \in Seq(Names)
      BY <1>1, <3>3, NodeFields DEF Tree, Typed
    <3>6. Len(P[tree[r].children[x]]) = n + 1
      BY <3>2, <3>4, <3>5, AppendedPath
    <3> QED
      BY <3>3, <3>4, <3>6
  <2> HIDE DEF Deep, Below
  <2> QED
    BY <2>1, <2>2
<1> HIDE DEF Deep, Below
<1>4. Level(real)
  <2>1. ASSUME NEW n \in 0..MaxId - 1
        PROVE  real[n] = IF n = 0 THEN {<<<<>>, RootId>>} ELSE Below(real[n - 1])
    <3>1. CASE n = 0
      BY <1>1, <1>2, <3>1
    <3>2. CASE n # 0
      <4>1. n - 1 \in Nat /\ n - 1 \in 0..MaxId - 1 /\ (n - 1) + 1 = n
        BY <1>1, <3>2
      <4>2. Deep(n) = Below(Deep(n - 1))
        BY <1>3, <4>1
      <4> QED
        BY <3>2, <4>1, <4>2
    <3> QED
      BY <3>1, <3>2
  <2> QED
    BY <2>1
<1>5. Level(level)
  <2>1. \E g : Level(g)
    <3> HIDE DEF Level, real
    <3> QED
      BY <1>4
  <2> HIDE DEF Level
  <2> QED
    BY <2>1
<1> DEFINE T == {k \in Nat : k <= MaxId - 1 => level[k] = Deep(k)}
<1> HIDE DEF level
<1>6. 0 \in T
  BY <1>1, <1>2, <1>5
<1>7. ASSUME NEW n \in Nat, n < MaxId - 1, n \in T PROVE n + 1 \in T
  <2>1. n + 1 \in 0..MaxId - 1 /\ n + 1 # 0 /\ (n + 1) - 1 = n
    BY <1>1, <1>7
  <2>2. \A m \in 0..MaxId - 1 :
          level[m] = IF m = 0 THEN {<<<<>>, RootId>>} ELSE Below(level[m - 1])
    BY <1>5
  <2>3. level[n + 1] = Below(level[n])
    BY <2>1, <2>2
  <2> QED
    BY <1>1, <1>3, <1>7, <2>3
<1>8. T \in SUBSET Nat /\ MaxId - 1 \in Nat
  BY <1>1
<1> HIDE DEF T
<1>9. \A n \in 0..MaxId - 1 : n \in T
  BY <1>6, <1>7, <1>8, Induction
<1>10. \A n \in 0..MaxId - 1 : level[n] = Deep(n)
  BY <1>1, <1>9 DEF T
<1>11. Placed(tree) = UNION {level[n] : n \in 0..MaxId - 1}
  BY DEF Placed, level, Below
<1>12. ASSUME NEW i \in DOMAIN tree PROVE <<P[i], i>> \in Placed(tree)
  <2>1. Len(P[i]) \in 0..MaxId - 1
    BY PathsShort
  <2>2. <<P[i], i>> \in level[Len(P[i])]
    BY <1>10, <2>1 DEF Deep
  <2> QED
    BY <1>11, <2>1, <2>2
<1>13. ASSUME NEW y \in Placed(tree) PROVE y \in {<<P[i], i>> : i \in DOMAIN tree}
  <2>1. PICK n \in 0..MaxId - 1 : y \in level[n]
    BY <1>11
  <2> QED
    BY <1>10, <2>1 DEF Deep
<1> QED
  BY <1>12, <1>13

-------------------------------------------------------------------------------
(* The inductive invariant: there are paths that agree with the tree, and  *)
(* ids are used once, so that those of open files do not come back.        *)
HandlesBelow(next) == [node : 0..next - 1, pos : 0..MaxLen, append : BOOLEAN]

Typing ==
  /\ nodeId \in 2..MaxId + 1
  /\ DOMAIN nodes \subseteq 1..nodeId - 1
  /\ handles \in [Handles -> HandlesBelow(nodeId)]
  /\ \A h \in Handles : handles[h].node = NotFound => handles[h] = Closed

TreeInv == Typing /\ \E P : Tree(nodes, P)

LEMMA PathsAreSequences ==
  ASSUME NEW p \in Paths
  PROVE  p \in Seq(Names)
  BY WebDavAssumption DEF Paths

LEMMA DataValues ==
  /\ <<>> \in Data
  /\ \A d \in Data : d \in Seq(0..255) /\ Len(d) \in 0..MaxLen
  /\ \A n \in 0..MaxLen : [1..n -> 0..255] \subseteq Data
  /\ NewDir \in FileType
  /\ NewFile \in FileType
<1>1. \A n \in 0..MaxLen : [1..n -> 0..255] \subseteq Data
  BY DEF Data
<1>2. <<>> \in Data
  <2>1. 0 \in 0..MaxLen /\ <<>> \in [1..0 -> 0..255]
    BY WebDavAssumption
  <2> QED
    BY <2>1, <1>1
<1>3. ASSUME NEW d \in Data PROVE d \in Seq(0..255) /\ Len(d) \in 0..MaxLen
  <2>1. PICK n \in 0..MaxLen : d \in [1..n -> 0..255]
    BY DEF Data
  <2>2. n \in Nat
    BY WebDavAssumption
  <2> QED
    BY <2>1, <2>2
<1> QED
  BY <1>1, <1>2, <1>3 DEF NewDir, NewFile, FileType

LEMMA RootFound ==
  ASSUME NEW P, Tree(nodes, P)
  PROVE  Lookup(<<>>) = RootId
<1>1. RootId \in DOMAIN nodes /\ P[RootId] = <<>>
  BY DEF Tree, Linked, PathsAgree
<1>2. Lookup(P[RootId]) = RootId
  BY <1>1, LookupPath
<1> QED
  BY <1>1, <1>2

(* Where a new node goes: its directory is there and has no such name.     *)
LEMMA FreePlace ==
  ASSUME NEW P, Tree(nodes, P), NEW p \in Seq(Names), Lookup(p) = NotFound,
         IsNode(LookupParent(p))
  PROVE  p # <<>> /\ Last(p) \notin DOMAIN nodes[LookupParent(p)].children
<1>1. p # <<>>
  BY RootFound DEF RootId, NotFound
<1>2. ASSUME Last(p) \in DOMAIN nodes[LookupParent(p)].children PROVE FALSE
  <2>1. LookupParent(p) \in DOMAIN nodes
        /\ Lookup(p) = nodes[LookupParent(p)].children[Last(p)]
    BY <1>1, <1>2, ParentNode
  <2>2. Lookup(p) \in DOMAIN nodes
    BY <1>2, <2>1 DEF Tree, Linked
  <2> QED
    BY <2>2 DEF Tree, Typed, NotFound
<1> QED
  BY <1>1, <1>2

LEMMA CreatedTree ==
  ASSUME Typing, NEW P, Tree(nodes, P), NEW p \in Seq(Names), p # <<>>, IsNode(LookupParent(p)),
         Last(p) \notin DOMAIN nodes[LookupParent(p)].children, NEW data \in FileType,
         Created(LookupParent(p), Last(p), data)
  PROVE  /\ nodes' = WithNode(nodes, nodeId, LookupParent(p), Last(p), data)
         /\ Grown(nodes, nodeId, data, nodes', Put(P, nodeId, p))
         /\ nodeId \in 1..MaxId \ DOMAIN nodes
         /\ nodeId' = nodeId + 1
         /\ nodeId' \in 2..MaxId + 1
         /\ DOMAIN nodes' \subseteq 1..nodeId' - 1
<1> DEFINE q == LookupParent(p)
<1>1. nodes' = WithNode(nodes, nodeId, q, Last(p), data) /\ nodeId <= MaxId /\ nodeId' = nodeId + 1
  BY DEF Created, WithChild, WithNode, NextId
<1>2. nodeId \in 1..MaxId \ DOMAIN nodes /\ nodeId' \in 2..MaxId + 1 /\ nodeId \in Nat
  BY <1>1, WebDavAssumption DEF Typing
<1>3. /\ q \in DOMAIN nodes
      /\ nodes[q].data.isDir
      /\ Last(p) \in Names
      /\ p = Append(P[q], Last(p))
  BY ParentNode
<1>4. Last(p) \in Names \ DOMAIN nodes[q].children
  BY <1>3
<1> HIDE DEF q
<1>5. Grown(nodes, nodeId, data, WithNode(nodes, nodeId, q, Last(p), data),
            Put(P, nodeId, Append(P[q], Last(p))))
  BY <1>2, <1>3, <1>4, Adding
<1>6. Grown(nodes, nodeId, data, nodes', Put(P, nodeId, p))
  BY <1>1, <1>3, <1>5
<1>7. DOMAIN nodes' \subseteq 1..nodeId' - 1
  BY <1>1, <1>2, <1>6 DEF Grown, Typing
<1> QED
  BY <1>1, <1>2, <1>6, <1>7 DEF q

(* The node at a path whose parent is a directory is exactly there.        *)
LEMMA NodeAt ==
  ASSUME NEW P, Tree(nodes, P), NEW p \in Seq(Names), p # <<>>, IsNode(LookupParent(p)),
         IsNode(Lookup(p))
  PROVE  Lookup(p) \in DOMAIN nodes /\ P[Lookup(p)] = p /\ Lookup(p) # RootId
<1> DEFINE q == LookupParent(p)
<1>1. q \in DOMAIN nodes /\ p = Append(P[q], Last(p))
  BY ParentNode
<1>2. Last(p) \in DOMAIN nodes[q].children /\ Lookup(p) = nodes[q].children[Last(p)]
  BY ParentNode DEF IsNode
<1>3. Lookup(p) \in DOMAIN nodes /\ P[Lookup(p)] = Append(P[q], Last(p))
  BY <1>1, <1>2 DEF Tree, Linked, PathsAgree
<1>4. Lookup(p) # RootId
  BY <1>1, <1>3 DEF Tree, PathsAgree
<1> QED
  BY <1>1, <1>3, <1>4

LEMMA DeletedTree ==
  ASSUME NEW P, Tree(nodes, P), NEW p \in Seq(Names), Delete(p)
  PROVE  /\ Lookup(p) \in DOMAIN nodes
         /\ P[Lookup(p)] = p
         /\ DOMAIN nodes[Lookup(p)].children = {}
         /\ nodes' = Without(Unnamed(nodes, Lookup(p)), {Lookup(p)})
         /\ Shrunk(nodes, {Lookup(p)}, nodes', WithoutPath(P, Lookup(p)))
<1> DEFINE n == Lookup(p)
<1>1. /\ p # <<>> /\ IsNode(LookupParent(p)) /\ IsNode(n)
      /\ DOMAIN nodes[n].children = {}
      /\ nodes' = Without(Unnamed(nodes, n), {n})
  BY DEF Delete, Childless
<1>2. n \in DOMAIN nodes /\ P[n] = p /\ n # RootId
  BY <1>1, NodeAt
<1> HIDE DEF n
<1>3. Shrunk(nodes, {n}, nodes', WithoutPath(P, n))
  BY <1>1, <1>2, Removing
<1> QED
  BY <1>1, <1>2, <1>3 DEF n

LEMMA RenamedTree ==
  ASSUME NEW P, Tree(nodes, P), NEW from \in Existing, NEW to \in Seq(Names), Rename(from, to)
  PROVE  /\ from \in Seq(Names) /\ from # <<>> /\ to # <<>> /\ ~IsPrefix(from, to)
         /\ Lookup(from) \in DOMAIN nodes /\ P[Lookup(from)] = from
         /\ LookupParent(to) \in DOMAIN nodes /\ nodes[LookupParent(to)].data.isDir
         /\ Last(to) \in Names
         /\ to = Append(P[LookupParent(to)], Last(to))
         /\ Last(to) \in DOMAIN nodes[LookupParent(to)].children =>
              DOMAIN nodes[nodes[LookupParent(to)].children[Last(to)]].children = {}
         /\ nodes' = MovedTree(nodes, Lookup(from), LookupParent(to), Last(to))
         /\ Shrunk(nodes, Replaced(nodes, LookupParent(to), Last(to)), nodes',
                   MovedPaths(nodes, P, Lookup(from), LookupParent(to), Last(to)))
<1> DEFINE n == Lookup(from)
           q == LookupParent(to)
<1>1. from \in Seq(Names) /\ IsNode(n)
  BY PathsAreSequences DEF Existing
<1>2. /\ from # <<>> /\ to # <<>> /\ ~IsPrefix(from, to)
      /\ IsNode(LookupParent(from)) /\ IsNode(q)
      /\ Last(to) \in DOMAIN nodes[q].children =>
           DOMAIN nodes[nodes[q].children[Last(to)]].children = {}
  BY DEF Rename, MayMove, Childless
<1>3. nodes' = MovedTree(nodes, n, q, Last(to))
  BY DEF Rename, Moved, MovedTree, Replaced
<1>4. n \in DOMAIN nodes /\ P[n] = from /\ n # RootId
  BY <1>1, <1>2, NodeAt
<1>5. q \in DOMAIN nodes /\ nodes[q].data.isDir /\ Last(to) \in Names
      /\ to = Append(P[q], Last(to))
  BY <1>2, ParentNode
<1> HIDE DEF n, q
<1>6. Shrunk(nodes, Replaced(nodes, q, Last(to)), nodes', MovedPaths(nodes, P, n, q, Last(to)))
  BY <1>2, <1>3, <1>4, <1>5, Moving
<1> QED
  BY <1>1, <1>2, <1>3, <1>4, <1>5, <1>6 DEF n, q

LEMMA FileNode ==
  ASSUME NEW P, Tree(nodes, P), NEW n \in DOMAIN nodes, ~nodes[n].data.isDir
  PROVE  /\ nodes[n].data = [isDir |-> FALSE, data |-> nodes[n].data.data]
         /\ nodes[n].data.data \in Data
         /\ nodes[n].data \in FileType
         /\ \A d : [nodes EXCEPT ![n].data.data = d] =
                     [nodes EXCEPT ![n].data = [isDir |-> FALSE, data |-> d]]
<1>1. nodes[n] \in NodeType /\ nodes \in [DOMAIN nodes -> NodeType]
  BY DEF Tree, Typed
<1>2. nodes[n].data = [isDir |-> nodes[n].data.isDir, data |-> nodes[n].data.data]
      /\ nodes[n].data.isDir \in BOOLEAN /\ nodes[n].data.data \in Data
  BY <1>1, NodeFields
<1>3. nodes[n].data = [isDir |-> FALSE, data |-> nodes[n].data.data]
  BY <1>2
<1>4. ASSUME NEW d
      PROVE  [nodes EXCEPT ![n].data.data = d] =
               [nodes EXCEPT ![n].data = [isDir |-> FALSE, data |-> d]]
  <2>1. [nodes[n].data EXCEPT !.data = d] = [isDir |-> FALSE, data |-> d]
    <3> DEFINE r == nodes[n].data
    <3>1. r \in [isDir : BOOLEAN, data : Data] /\ r.isDir = FALSE
      BY <1>2
    <3> HIDE DEF r
    <3>2. [r EXCEPT !.data = d] = [isDir |-> r.isDir, data |-> d]
      BY <3>1
    <3> QED
      BY <3>1, <3>2 DEF r
  <2>2. [nodes EXCEPT ![n].data.data = d] =
          [nodes EXCEPT ![n].data = [nodes[n].data EXCEPT !.data = d]]
    OBVIOUS
  <2> QED
    BY <2>1, <2>2
<1> QED
  BY <1>2, <1>3, <1>4 DEF FileType

LEMMA OpenedTree ==
  ASSUME NEW P, Tree(nodes, P), NEW h \in Handles, NEW p \in Seq(Names),
         NEW truncate \in BOOLEAN, NEW append \in BOOLEAN, OpenExisting(h, p, truncate, append)
  PROVE  /\ Lookup(p) \in DOMAIN nodes
         /\ ~nodes[Lookup(p)].data.isDir
         /\ nodes' = nodes \/ nodes' = [nodes EXCEPT ![Lookup(p)].data = NewFile]
         /\ DOMAIN nodes' = DOMAIN nodes
         /\ Tree(nodes', P)
<1> DEFINE n == Lookup(p)
<1>1. /\ IsNode(n) /\ ~nodes[n].data.isDir
      /\ nodes' = IF truncate THEN [nodes EXCEPT ![n].data.data = <<>>] ELSE nodes
  BY DEF OpenExisting
<1>2. n \in DOMAIN nodes
  BY <1>1, LookupNode
<1> HIDE DEF n
<1>3. [nodes EXCEPT ![n].data.data = <<>>] = [nodes EXCEPT ![n].data = NewFile]
  BY <1>1, <1>2, FileNode DEF NewFile
<1>4. Tree([nodes EXCEPT ![n].data = NewFile], P)
  BY <1>1, <1>2, Refilling, DataValues
<1>5. nodes' = nodes \/ nodes' = [nodes EXCEPT ![n].data = NewFile]
  BY <1>1, <1>3
<1>6. DOMAIN nodes' = DOMAIN nodes
  BY <1>5
<1>7. Tree(nodes', P)
  BY <1>4, <1>5
<1> QED
  BY <1>1, <1>2, <1>5, <1>6, <1>7 DEF n

LEMMA CopiedTree ==
  ASSUME NEW P, Tree(nodes, P), NEW from \in Existing, NEW to \in Seq(Names), CopyOver(from, to)
  PROVE  /\ Lookup(from) \in DOMAIN nodes
         /\ Lookup(to) \in DOMAIN nodes
         /\ ~nodes[Lookup(to)].data.isDir
         /\ nodes' = [nodes EXCEPT ![Lookup(to)].data = nodes[Lookup(from)].data]
         /\ Tree(nodes', P)
<1> DEFINE n == Lookup(from)
           d == Lookup(to)
<1>1. /\ IsNode(d) /\ ~nodes[d].data.isDir
      /\ nodes' = [nodes EXCEPT ![d].data = nodes[n].data]
  BY DEF CopyOver
<1>2. d \in DOMAIN nodes
  BY <1>1, LookupNode
<1>3. n \in DOMAIN nodes
  BY PathsAreSequences, LookupNode DEF Existing
<1> HIDE DEF n, d
<1>4. nodes[n].data \in FileType
  BY <1>3 DEF Tree, Typed, NodeType, FileType
<1>5. Tree(nodes', P)
  BY <1>1, <1>2, <1>4, Refilling
<1> QED
  BY <1>1, <1>2, <1>3, <1>5 DEF n, d

Written(h, b) ==
  [i \in 1..Max({Len(FileData(h)), WritePosition(h) + 1}) |->
     IF i = WritePosition(h) + 1 THEN b
     ELSE IF i <= Len(FileData(h)) THEN FileData(h)[i] ELSE 0]

LEMMA MaxOfTwo ==
  ASSUME NEW a \in Nat, NEW b \in Nat
  PROVE  /\ Max({a, b}) \in {a, b}
         /\ a <= Max({a, b})
         /\ b <= Max({a, b})
         /\ Min({a, b}) \in {a, b}
         /\ Min({a, b}) <= a
         /\ Min({a, b}) <= b
<1>1. \E m \in {a, b} : \A y \in {a, b} : m >= y
  OBVIOUS
<1>2. \E m \in {a, b} : \A y \in {a, b} : m <= y
  OBVIOUS
<1>3. Max({a, b}) \in {a, b} /\ \A y \in {a, b} : Max({a, b}) >= y
  BY <1>1 DEF Max
<1>4. Min({a, b}) \in {a, b} /\ \A y \in {a, b} : Min({a, b}) <= y
  BY <1>2 DEF Min
<1> QED
  BY <1>3, <1>4

LEMMA WrittenTree ==
  ASSUME Typing, NEW P, Tree(nodes, P), NEW h \in Handles, NEW b \in Bytes, Write(h, b)
  PROVE  /\ handles[h].node \in DOMAIN nodes
         /\ ~nodes[handles[h].node].data.isDir
         /\ WritePosition(h) \in 0..MaxLen - 1
         /\ nodes' = [nodes EXCEPT ![handles[h].node].data =
                        [isDir |-> FALSE, data |-> Written(h, b)]]
         /\ Tree(nodes', P)
<1> DEFINE n == handles[h].node
           pos == WritePosition(h)
           data == FileData(h)
           written == Written(h, b)
<1>1. n \in DOMAIN nodes /\ ~nodes[n].data.isDir /\ pos < MaxLen
  BY DEF Write, HasFile
<1>2. nodes' = [nodes EXCEPT ![n].data.data = written]
  BY DEF Write, Written
<1>3. data \in Seq(0..255) /\ Len(data) \in 0..MaxLen
  BY <1>1, FileNode, DataValues DEF FileData
<1>4. handles[h] \in HandlesBelow(nodeId)
  BY DEF Typing
<1>5. pos \in 0..MaxLen - 1
  BY <1>1, <1>3, <1>4, WebDavAssumption DEF WritePosition, HandlesBelow
<1>6. Len(data) \in Nat /\ pos + 1 \in Nat
  BY <1>3, <1>5, WebDavAssumption
<1> DEFINE len == Max({Len(data), pos + 1})
<1>7. len \in {Len(data), pos + 1}
  BY <1>6, MaxOfTwo
<1>8. len \in 0..MaxLen
  BY <1>3, <1>5, <1>7, WebDavAssumption
<1>9. written = [i \in 1..len |-> IF i = pos + 1 THEN b
                                 ELSE IF i <= Len(data) THEN data[i] ELSE 0]
  BY DEF Written
<1> HIDE DEF n, pos, data, len, written
<1>10. b \in 0..255
  BY WebDavAssumption
<1>11. written \in [1..len -> 0..255]
  <2>1. ASSUME NEW i \in 1..len, i <= Len(data) PROVE data[i] \in 0..255
    <3>1. i \in 1..Len(data)
      BY <1>3, <1>8, <2>1, WebDavAssumption
    <3> QED
      BY <1>3, <3>1, ElementOfSeq
  <2>2. ASSUME NEW i \in 1..len PROVE written[i] \in 0..255
    <3>1. written[i] = IF i = pos + 1 THEN b ELSE IF i <= Len(data) THEN data[i] ELSE 0
      BY <1>9
    <3>2. CASE i = pos + 1
      BY <1>10, <3>1, <3>2
    <3>3. CASE i # pos + 1 /\ i <= Len(data)
      BY <2>1, <3>1, <3>3
    <3>4. CASE i # pos + 1 /\ ~(i <= Len(data))
      BY <3>1, <3>4
    <3> QED
      BY <3>2, <3>3, <3>4
  <2>3. written = [i \in 1..len |-> written[i]]
    BY <1>9
  <2> QED
    BY <2>2, <2>3
<1>12. written \in Data
  BY <1>8, <1>11, DataValues
<1>13. nodes' = [nodes EXCEPT ![n].data = [isDir |-> FALSE, data |-> written]]
  BY <1>1, <1>2, FileNode
<1>14. [isDir |-> FALSE, data |-> written] \in FileType
  BY <1>12 DEF FileType
<1>15. Tree(nodes', P)
  BY <1>1, <1>13, <1>14, Refilling
<1> QED
  BY <1>1, <1>5, <1>13, <1>15 DEF n, pos, written

LEMMA InitTree ==
  ASSUME Init
  PROVE  TreeInv /\ Tree(nodes, [i \in {RootId} |-> <<>>])
<1> DEFINE P == [i \in {RootId} |-> <<>>]
<1>1. DOMAIN nodes = {RootId} /\ nodes[RootId] = NewNode(NoParent, NewDir)
      /\ nodes = [i \in {RootId} |-> NewNode(NoParent, NewDir)]
  BY DEF Init
<1>2. NewNode(NoParent, NewDir) \in NodeType
  <2>1. NoChildren \in [{} -> 1..MaxId] /\ {} \in SUBSET Names
    BY DEF NoChildren
  <2>2. NoChildren \in ChildMaps
    BY <2>1 DEF ChildMaps
  <2>3. NewDir \in [isDir : BOOLEAN, data : Data]
    BY DataValues DEF FileType
  <2> QED
    BY <2>2, <2>3 DEF NewNode, NodeType, NoParent
<1>3. nodes[RootId].children = NoChildren /\ nodes[RootId].data.isDir
  BY <1>1 DEF NewNode, NewDir
<1>4. DOMAIN NoChildren = {}
  BY DEF NoChildren
<1>5. Typed(nodes)
  BY <1>1, <1>2, WebDavAssumption DEF Typed, RootId
<1>6. Linked(nodes)
  BY <1>1, <1>3, <1>4 DEF Linked
<1>7. PathsAgree(nodes, P)
  BY <1>1, <1>3, <1>4 DEF PathsAgree
<1>8. Typing
  <2>1. Closed \in HandlesBelow(nodeId) /\ nodeId = 2
    BY WebDavAssumption DEF Init, Closed, HandlesBelow, NotFound, RootId
  <2>2. handles = [h \in Handles |-> Closed]
    BY DEF Init
  <2>3. handles \in [Handles -> HandlesBelow(nodeId)]
    BY <2>1, <2>2
  <2>4. \A h \in Handles : handles[h] = Closed
    BY <2>2
  <2> QED
    BY <1>1, <2>1, <2>3, <2>4, WebDavAssumption DEF Typing, RootId
<1> QED
  BY <1>5, <1>6, <1>7, <1>8 DEF TreeInv, Tree

(* Ids of open files stay below the next id; an open one is not 0.         *)
LEMMA HandlesKept ==
  ASSUME Typing, nodeId' \in 2..MaxId + 1, nodeId <= nodeId', DOMAIN nodes' \subseteq 1..nodeId' - 1,
         UNCHANGED handles
  PROVE  Typing'
<1>1. nodeId \in Nat /\ nodeId' \in Nat
  BY WebDavAssumption DEF Typing
<1>2. HandlesBelow(nodeId) \subseteq HandlesBelow(nodeId')
  BY <1>1 DEF HandlesBelow
<1>3. handles' \in [Handles -> HandlesBelow(nodeId')]
  BY <1>2 DEF Typing
<1>4. \A h \in Handles : handles'[h].node = NotFound => handles'[h] = Closed
  BY DEF Typing
<1> QED
  BY <1>3, <1>4 DEF Typing

LEMMA HandleSet ==
  ASSUME Typing, nodeId' \in 2..MaxId + 1, nodeId <= nodeId', DOMAIN nodes' \subseteq 1..nodeId' - 1,
         NEW h \in Handles, NEW value, value \in HandlesBelow(nodeId'),
         value.node # NotFound \/ value = Closed, handles' = [handles EXCEPT ![h] = value]
  PROVE  Typing'
<1>1. nodeId \in Nat /\ nodeId' \in Nat
  BY WebDavAssumption DEF Typing
<1>2. HandlesBelow(nodeId) \subseteq HandlesBelow(nodeId')
  BY <1>1 DEF HandlesBelow
<1>3. handles' \in [Handles -> HandlesBelow(nodeId')]
  BY <1>2 DEF Typing
<1>4. ASSUME NEW g \in Handles, handles'[g].node = NotFound PROVE handles'[g] = Closed
  BY <1>4 DEF Typing
<1> QED
  BY <1>3, <1>4 DEF Typing

LEMMA PositionSet ==
  ASSUME Typing, nodeId' = nodeId, DOMAIN nodes' \subseteq DOMAIN nodes,
         NEW h \in Handles, handles[h] # Closed, NEW pos \in 0..MaxLen,
         handles' = [handles EXCEPT ![h].pos = pos]
  PROVE  Typing'
<1> DEFINE value == [handles[h] EXCEPT !.pos = pos]
<1>1. handles[h] \in HandlesBelow(nodeId) /\ handles[h].node # NotFound
  BY DEF Typing
<1>2. value \in HandlesBelow(nodeId) /\ value.node = handles[h].node
  BY <1>1 DEF HandlesBelow
<1>3. HandlesBelow(nodeId') = HandlesBelow(nodeId)
  BY DEF HandlesBelow
<1>4. handles' = [handles EXCEPT ![h] = value]
  OBVIOUS
<1>5. nodeId' \in 2..MaxId + 1 /\ nodeId <= nodeId' /\ DOMAIN nodes' \subseteq 1..nodeId' - 1
  BY WebDavAssumption DEF Typing
<1>6. value \in HandlesBelow(nodeId') /\ (value.node # NotFound \/ value = Closed)
  BY <1>1, <1>2, <1>3
<1> HIDE DEF value
<1> QED
  BY <1>1, <1>2, <1>3, <1>4, <1>5, <1>6, HandleSet, Zenon

LEMMA TreeInvStep ==
  ASSUME TreeInv, [Next]_vars
  PROVE  TreeInv'
<1>1. PICK P : Tree(nodes, P)
  BY DEF TreeInv
<1>2. Typing
  BY DEF TreeInv
<1>3. nodeId \in 2..MaxId + 1 /\ nodeId \in Nat /\ DOMAIN nodes \subseteq 1..nodeId - 1
  BY <1>2, WebDavAssumption DEF Typing
<1>4. ASSUME NEW p \in Paths, CreateDir(p) PROVE TreeInv'
  <2>1. p \in Seq(Names) /\ NewDir \in FileType
    BY PathsAreSequences, DataValues
  <2>2. /\ p # <<>> /\ IsNode(LookupParent(p))
        /\ Last(p) \notin DOMAIN nodes[LookupParent(p)].children
        /\ Created(LookupParent(p), Last(p), NewDir)
        /\ UNCHANGED handles
    BY <1>4 DEF CreateDir
  <2>3. /\ Tree(nodes', Put(P, nodeId, p)) /\ nodeId' = nodeId + 1 /\ nodeId' \in 2..MaxId + 1
        /\ DOMAIN nodes' \subseteq 1..nodeId' - 1
    BY <1>1, <1>2, <2>1, <2>2, CreatedTree DEF Grown
  <2>4. Typing'
    BY <1>2, <1>3, <2>2, <2>3, HandlesKept
  <2> QED
    BY <2>3, <2>4 DEF TreeInv
<1>5. ASSUME NEW p \in Paths, Delete(p) PROVE TreeInv'
  <2>1. p \in Seq(Names) /\ nodeId' = nodeId /\ UNCHANGED handles
    BY <1>5, PathsAreSequences DEF Delete
  <2>2. Tree(nodes', WithoutPath(P, Lookup(p))) /\ DOMAIN nodes' \subseteq DOMAIN nodes
    BY <1>1, <1>5, <2>1, DeletedTree DEF Shrunk
  <2>3. Typing'
    BY <1>2, <1>3, <2>1, <2>2, HandlesKept
  <2> QED
    BY <2>2, <2>3 DEF TreeInv
<1>6. ASSUME NEW from \in Existing, NEW to \in Paths, Rename(from, to) PROVE TreeInv'
  <2>1. to \in Seq(Names) /\ nodeId' = nodeId /\ UNCHANGED handles
    BY <1>6, PathsAreSequences DEF Rename
  <2>2. Tree(nodes', MovedPaths(nodes, P, Lookup(from), LookupParent(to), Last(to)))
        /\ DOMAIN nodes' \subseteq DOMAIN nodes
    BY <1>1, <1>6, <2>1, RenamedTree DEF Shrunk
  <2>3. Typing'
    BY <1>2, <1>3, <2>1, <2>2, HandlesKept
  <2> QED
    BY <2>2, <2>3 DEF TreeInv
<1>7. ASSUME NEW from \in Existing, NEW to \in Paths, CopyOver(from, to) PROVE TreeInv'
  <2>1. to \in Seq(Names) /\ nodeId' = nodeId /\ UNCHANGED handles
    BY <1>7, PathsAreSequences DEF CopyOver
  <2>2. Tree(nodes', P) /\ DOMAIN nodes' = DOMAIN nodes
    BY <1>1, <1>7, <2>1, CopiedTree
  <2>3. Typing'
    BY <1>2, <1>3, <2>1, <2>2, HandlesKept
  <2> QED
    BY <2>2, <2>3 DEF TreeInv
<1>8. ASSUME NEW from \in Existing, NEW to \in Paths, CopyNew(from, to) PROVE TreeInv'
  <2>1. to \in Seq(Names) /\ from \in Seq(Names)
    BY PathsAreSequences DEF Existing
  <2>2. /\ Lookup(to) = NotFound /\ IsNode(LookupParent(to))
        /\ Created(LookupParent(to), Last(to), nodes[Lookup(from)].data)
        /\ UNCHANGED handles
    BY <1>8 DEF CopyNew
  <2>3. nodes[Lookup(from)].data \in FileType
    <3>1. Lookup(from) \in DOMAIN nodes
      BY <1>1, <2>1, LookupNode DEF Existing
    <3> QED
      BY <1>1, <3>1 DEF Tree, Typed, NodeType, FileType
  <2>4. to # <<>> /\ Last(to) \notin DOMAIN nodes[LookupParent(to)].children
    BY <1>1, <2>1, <2>2, FreePlace
  <2>5. /\ Tree(nodes', Put(P, nodeId, to)) /\ nodeId' = nodeId + 1 /\ nodeId' \in 2..MaxId + 1
        /\ DOMAIN nodes' \subseteq 1..nodeId' - 1
    BY <1>1, <1>2, <2>1, <2>2, <2>3, <2>4, CreatedTree DEF Grown
  <2>6. Typing'
    BY <1>2, <1>3, <2>2, <2>5, HandlesKept
  <2> QED
    BY <2>5, <2>6 DEF TreeInv
<1>9. ASSUME NEW h \in Handles, NEW p \in Paths, NEW truncate \in BOOLEAN, NEW append \in BOOLEAN,
             OpenExisting(h, p, truncate, append)
      PROVE  TreeInv'
  <2> DEFINE value == [node |-> Lookup(p), pos |-> 0, append |-> append]
  <2>1. p \in Seq(Names) /\ nodeId' = nodeId /\ handles' = [handles EXCEPT ![h] = value]
    BY <1>9, PathsAreSequences DEF OpenExisting
  <2>2. Lookup(p) \in DOMAIN nodes /\ Tree(nodes', P) /\ DOMAIN nodes' = DOMAIN nodes
    BY <1>1, <1>9, <2>1, OpenedTree
  <2>3. Lookup(p) \in 1..nodeId' - 1
    BY <1>3, <2>1, <2>2
  <2>4. value \in HandlesBelow(nodeId') /\ value.node # NotFound
    BY <1>3, <2>1, <2>3, WebDavAssumption DEF HandlesBelow, NotFound
  <2> HIDE DEF value
  <2>5. Typing'
    <3>1. nodeId' \in 2..MaxId + 1 /\ nodeId <= nodeId' /\ DOMAIN nodes' \subseteq 1..nodeId' - 1
      BY <1>3, <2>1, <2>2
    <3> QED
      BY <1>2, <2>1, <2>4, <3>1, HandleSet, Zenon
  <2> QED
    BY <2>2, <2>5 DEF TreeInv
<1>10. ASSUME NEW h \in Handles, NEW p \in Paths, NEW append \in BOOLEAN, OpenNew(h, p, append)
       PROVE  TreeInv'
  <2> DEFINE value == [node |-> nodeId, pos |-> 0, append |-> append]
  <2>1. p \in Seq(Names) /\ NewFile \in FileType
    BY PathsAreSequences, DataValues
  <2>2. /\ Lookup(p) = NotFound /\ IsNode(LookupParent(p))
        /\ Created(LookupParent(p), Last(p), NewFile)
        /\ handles' = [handles EXCEPT ![h] = value]
    BY <1>10 DEF OpenNew, NextId
  <2>3. p # <<>> /\ Last(p) \notin DOMAIN nodes[LookupParent(p)].children
    BY <1>1, <2>1, <2>2, FreePlace
  <2>4. /\ Tree(nodes', Put(P, nodeId, p)) /\ nodeId' = nodeId + 1 /\ nodeId' \in 2..MaxId + 1
        /\ DOMAIN nodes' \subseteq 1..nodeId' - 1
    BY <1>1, <1>2, <2>1, <2>2, <2>3, CreatedTree DEF Grown
  <2>5. value \in HandlesBelow(nodeId') /\ value.node # NotFound
    BY <1>3, <2>4, WebDavAssumption DEF HandlesBelow, NotFound
  <2> HIDE DEF value
  <2>6. Typing'
    <3>1. nodeId <= nodeId'
      BY <1>3, <2>4
    <3> QED
      BY <1>2, <2>2, <2>4, <2>5, <3>1, HandleSet, Zenon
  <2> QED
    BY <2>4, <2>6 DEF TreeInv
<1>11. ASSUME NEW h \in Handles, Read(h, 1) PROVE TreeInv'
  <2> DEFINE len == Len(FileData(h))
             pos == handles[h].pos
             next == pos + Min({len, pos + 1}) - Min({len, pos})
  <2>1. HasFile(h) /\ handles' = [handles EXCEPT ![h].pos = next] /\ nodes' = nodes /\ nodeId' = nodeId
    BY <1>11 DEF Read
  <2>2. handles[h].node \in DOMAIN nodes /\ ~nodes[handles[h].node].data.isDir
    BY <2>1 DEF HasFile
  <2>3. len \in 0..MaxLen
    BY <1>1, <2>2, FileNode, DataValues DEF FileData
  <2>4. handles[h] \in HandlesBelow(nodeId)
    BY <1>2 DEF Typing
  <2>5. pos \in 0..MaxLen
    BY <2>4 DEF HandlesBelow
  <2>6. handles[h] # Closed
    BY <1>3, <2>2 DEF Closed, NotFound
  <2> HIDE DEF len, pos
  <2>7. len \in Nat /\ pos \in Nat /\ pos + 1 \in Nat /\ MaxLen \in Nat
    BY <2>3, <2>5, WebDavAssumption
  <2>8. /\ Min({len, pos + 1}) \in {len, pos + 1} /\ Min({len, pos + 1}) <= len
        /\ Min({len, pos + 1}) <= pos + 1
        /\ Min({len, pos}) \in {len, pos} /\ Min({len, pos}) <= len /\ Min({len, pos}) <= pos
    BY <2>7, MaxOfTwo
  <2>9. next \in 0..MaxLen
    BY <2>3, <2>5, <2>7, <2>8
  <2> HIDE DEF next
  <2>10. Typing'
    BY <1>2, <2>1, <2>6, <2>9, PositionSet
  <2> QED
    BY <1>1, <2>1, <2>10 DEF TreeInv
<1>12. ASSUME NEW h \in Handles, NEW b \in Bytes, Write(h, b) PROVE TreeInv'
  <2>1. handles' = [handles EXCEPT ![h].pos = WritePosition(h) + 1] /\ nodeId' = nodeId
    BY <1>12 DEF Write
  <2>2. /\ handles[h].node \in DOMAIN nodes
        /\ WritePosition(h) \in 0..MaxLen - 1
        /\ DOMAIN nodes' = DOMAIN nodes
        /\ Tree(nodes', P)
    BY <1>1, <1>2, <1>12, WrittenTree
  <2>3. handles[h] # Closed
    BY <1>3, <2>2 DEF Closed, NotFound
  <2>4. WritePosition(h) + 1 \in 0..MaxLen
    BY <2>2, WebDavAssumption
  <2>5. Typing'
    BY <1>2, <2>1, <2>2, <2>3, <2>4, PositionSet
  <2> QED
    BY <2>2, <2>5 DEF TreeInv
<1>13. ASSUME NEW h \in Handles, Close(h) PROVE TreeInv'
  <2>1. nodes' = nodes /\ nodeId' = nodeId /\ handles' = [handles EXCEPT ![h] = Closed]
    BY <1>13 DEF Close
  <2>2. Closed \in HandlesBelow(nodeId')
    BY <1>3, <2>1, WebDavAssumption DEF HandlesBelow, Closed, NotFound
  <2>3. Typing'
    <3>1. nodeId' \in 2..MaxId + 1 /\ nodeId <= nodeId' /\ DOMAIN nodes' \subseteq 1..nodeId' - 1
      BY <1>3, <2>1
    <3> QED
      BY <1>2, <2>1, <2>2, <3>1, HandleSet, Zenon
  <2> QED
    BY <1>1, <2>1, <2>3 DEF TreeInv
<1>14. ASSUME NEW h \in Handles, Seek(h) PROVE TreeInv'
  <2>1. nodes' = nodes /\ nodeId' = nodeId /\ handles[h] # Closed
    BY <1>14 DEF Seek
  <2>2. PICK pos \in 0..MaxLen : handles' = [handles EXCEPT ![h].pos = pos]
    BY <1>14 DEF Seek
  <2>3. Typing'
    BY <1>2, <2>1, <2>2, PositionSet
  <2> QED
    BY <1>1, <2>1, <2>3 DEF TreeInv
<1>15. ASSUME UNCHANGED vars PROVE TreeInv'
  <2>1. nodes' = nodes /\ nodeId' = nodeId /\ handles' = handles
    BY <1>15 DEF vars
  <2>2. Typing'
    BY <1>2, <2>1 DEF Typing
  <2>3. Tree(nodes', P)
    BY <1>1, <2>1
  <2> QED
    BY <2>2, <2>3 DEF TreeInv
<1> QED
  BY <1>4, <1>5, <1>6, <1>7, <1>8, <1>9, <1>10, <1>11, <1>12, <1>13, <1>14, <1>15 DEF Next

LEMMA TreeInvShape ==
  ASSUME TreeInv
  PROVE  TreeShape
<1>1. PICK P : Tree(nodes, P)
  BY DEF TreeInv
<1>2. TypeOK
  <2>1. ASSUME NEW i \in DOMAIN nodes
        PROVE  /\ nodes[i].data.isDir \in BOOLEAN
               /\ nodes[i].data.data \in Data
               /\ DOMAIN nodes[i].children \subseteq Names
    <3>1. nodes[i] \in NodeType
      BY <1>1 DEF Tree, Typed
    <3> QED
      BY <3>1, NodeFields
  <2>2. RootId \in DOMAIN nodes
    BY <1>1 DEF Tree, Linked
  <2> QED
    BY <2>1, <2>2 DEF TreeInv, Typing, TypeOK, HandlesBelow
<1>3. ASSUME NEW i \in DOMAIN nodes PROVE Cardinality({x \in Placed(nodes) : x[2] = i}) = 1
  <2>1. Placed(nodes) = {<<P[j], j>> : j \in DOMAIN nodes}
    BY <1>1, PlacedPaths
  <2>2. {x \in Placed(nodes) : x[2] = i} = {<<P[i], i>>}
    BY <2>1
  <2> QED
    BY <2>2, FS_Singleton
<1>4. Linked(nodes)
  BY <1>1 DEF Tree
<1> QED
  BY <1>2, <1>3, <1>4 DEF TreeShape, Linked

(* Each child has its parent's id and each node but the root has one name  *)
(* in its parent and is at one path, whatever requests created, moved,     *)
(* replaced and removed: the unwraps of tree.rs and do_open succeed and no *)
(* node is lost.                                                           *)
THEOREM TreeCorrect == Spec => []TreeShape
<1>1. Init => TreeInv
  BY InitTree
<1>2. TreeInv /\ [Next]_vars => TreeInv'
  BY TreeInvStep
<1>3. TreeInv => TreeShape
  BY TreeInvShape
<1> QED
  BY <1>1, <1>2, <1>3, PTL DEF Spec

-------------------------------------------------------------------------------
(* The view of the clients: each node's contents at its path, each open    *)
(* file at the path of its node.                                           *)
FilesAt(tree, P, F) ==
  /\ F = [p \in {P[i] : i \in DOMAIN tree} |-> F[p]]
  /\ \A i \in DOMAIN tree : F[P[i]] = tree[i].data

Seen(tree, P, f) ==
  [isOpen |-> f # Closed,
   path   |-> IF f.node \in DOMAIN tree THEN P[f.node] ELSE <<>>,
   gone   |-> f # Closed /\ f.node \notin DOMAIN tree,
   append |-> f.append]

OpenAt(tree, P, open, O) == O = [h \in Handles |-> Seen(tree, P, open[h])]

PathsTo(tree, f) == {x[1] : x \in {y \in Placed(tree) : y[2] = f.node}}

SeenIn(tree, f) ==
  [isOpen |-> f # Closed,
   path   |-> IF PathsTo(tree, f) = {} THEN <<>> ELSE CHOOSE p \in PathsTo(tree, f) : TRUE,
   gone   |-> f # Closed /\ PathsTo(tree, f) = {},
   append |-> f.append]

LEMMA SeenWhere ==
  ASSUME NEW tree, NEW P, Tree(tree, P), NEW f
  PROVE  SeenIn(tree, f) = Seen(tree, P, f)
<1> DEFINE n == f.node
<1>1. Placed(tree) = {<<P[i], i>> : i \in DOMAIN tree}
  BY PlacedPaths
<1>2. CASE n \in DOMAIN tree
  <2>1. {y \in Placed(tree) : y[2] = n} = {<<P[n], n>>}
    <3>1. <<P[n], n>> \in Placed(tree) /\ <<P[n], n>>[2] = n
      BY <1>1, <1>2
    <3>2. ASSUME NEW y \in Placed(tree), y[2] = n PROVE y = <<P[n], n>>
      <4>1. PICK i \in DOMAIN tree : y = <<P[i], i>>
        BY <1>1
      <4> QED
        BY <3>2, <4>1
    <3> HIDE DEF n
    <3> QED
      BY <3>1, <3>2
  <2>2. PathsTo(tree, f) = {x[1] : x \in {<<P[n], n>>}}
    BY <2>1 DEF PathsTo
  <2>3. PathsTo(tree, f) = {P[n]}
    BY <2>2
  <2>4. PathsTo(tree, f) # {} /\ (CHOOSE p \in PathsTo(tree, f) : TRUE) = P[n]
    BY <2>3
  <2>5. SeenIn(tree, f) = [isOpen |-> f # Closed, path |-> P[n], gone |-> FALSE, append |-> f.append]
    BY <2>4 DEF SeenIn
  <2>6. Seen(tree, P, f) = [isOpen |-> f # Closed, path |-> P[n], gone |-> FALSE, append |-> f.append]
    BY <1>2 DEF Seen
  <2> QED
    BY <2>5, <2>6
<1>3. CASE n \notin DOMAIN tree
  <2>1. ASSUME NEW y \in Placed(tree), y[2] = n PROVE FALSE
    <3>1. PICK i \in DOMAIN tree : y = <<P[i], i>>
      BY <1>1
    <3> QED
      BY <2>1, <3>1, <1>3
  <2>2. PathsTo(tree, f) = {}
    BY <2>1 DEF PathsTo
  <2>3. SeenIn(tree, f) = [isOpen |-> f # Closed, path |-> <<>>, gone |-> f # Closed, append |-> f.append]
    BY <2>2 DEF SeenIn
  <2>4. Seen(tree, P, f) = [isOpen |-> f # Closed, path |-> <<>>, gone |-> f # Closed,
                            append |-> f.append]
    BY <1>3 DEF Seen
  <2> QED
    BY <2>3, <2>4
<1> QED
  BY <1>2, <1>3

PlaceOf(tree, p) == CHOOSE x \in Placed(tree) : x[1] = p

LEMMA ViewIs ==
  ASSUME NEW tree, NEW P, Tree(tree, P), NEW open
  PROVE  /\ FilesAt(tree, P, View(tree, open).files)
         /\ OpenAt(tree, P, open, View(tree, open).opened)
<1> DEFINE D == {x[1] : x \in Placed(tree)}
           F == [p \in D |-> tree[PlaceOf(tree, p)[2]].data]
           O == [h \in Handles |-> SeenIn(tree, open[h])]
<1>1. Placed(tree) = {<<P[i], i>> : i \in DOMAIN tree}
  BY PlacedPaths
<1>2. View(tree, open) = [files |-> F, opened |-> O]
  BY DEF View, SeenIn, PathsTo, PlaceOf
<1>3. D = {P[i] : i \in DOMAIN tree}
  <2>1. ASSUME NEW i \in DOMAIN tree PROVE P[i] \in D
    <3>1. <<P[i], i>> \in Placed(tree) /\ <<P[i], i>>[1] = P[i]
      BY <1>1
    <3> QED
      BY <3>1
  <2>2. ASSUME NEW p \in D PROVE \E i \in DOMAIN tree : p = P[i]
    <3>1. PICK x \in Placed(tree) : p = x[1]
      OBVIOUS
    <3>2. PICK i \in DOMAIN tree : x = <<P[i], i>>
      BY <1>1
    <3> QED
      BY <3>1, <3>2
  <2> HIDE DEF D
  <2> QED
    BY <2>1, <2>2
<1> HIDE DEF D
<1>4. ASSUME NEW i \in DOMAIN tree PROVE F[P[i]] = tree[i].data
  <2> DEFINE place == PlaceOf(tree, P[i])
  <2>1. <<P[i], i>> \in Placed(tree) /\ <<P[i], i>>[1] = P[i]
    BY <1>1
  <2>2. place \in Placed(tree) /\ place[1] = P[i]
    BY <2>1 DEF PlaceOf
  <2>3. F[P[i]] = tree[place[2]].data
    BY <1>3
  <2> HIDE DEF place, F
  <2>4. PICK j \in DOMAIN tree : place = <<P[j], j>>
    BY <1>1, <2>2
  <2>5. P[j] = P[i] /\ place[2] = j
    BY <2>2, <2>4
  <2>6. j = i
    BY <2>5, PathsDiffer
  <2> QED
    BY <2>3, <2>5, <2>6
<1>5. FilesAt(tree, P, F)
  <2>1. F = [p \in {P[i] : i \in DOMAIN tree} |-> F[p]]
    BY <1>3
  <2> HIDE DEF F
  <2> QED
    BY <1>4, <2>1 DEF FilesAt
<1>6. OpenAt(tree, P, open, O)
  BY SeenWhere DEF OpenAt
<1>7. View(tree, open).files = F /\ View(tree, open).opened = O
  <2> HIDE DEF F, O
  <2> QED
    BY <1>2
<1> QED
  BY <1>5, <1>6, <1>7

(* A directory without children is a path that no other goes through.      *)
LEMMA NothingBelow ==
  ASSUME NEW tree, NEW P, Tree(tree, P), NEW n \in DOMAIN tree, DOMAIN tree[n].children = {},
         NEW j \in DOMAIN tree, IsPrefix(P[n], P[j])
  PROVE  j = n
<1> DEFINE T == {k \in Nat : \A i \in DOMAIN tree : Len(P[i]) = k /\ IsPrefix(P[n], P[i]) => i = n}
<1>1. P \in [DOMAIN tree -> Seq(Names)] /\ P[RootId] = <<>>
  BY DEF Tree, PathsAgree
<1>2. 0 \in T
  <2> SUFFICES ASSUME NEW i \in DOMAIN tree, Len(P[i]) = 0, IsPrefix(P[n], P[i]) PROVE i = n
    OBVIOUS
  <2>1. P[i] = <<>> /\ P[n] \in Seq(Names)
    BY <1>1
  <2>2. P[n] = <<>>
    BY <2>1, PrefixOfChild
  <2> QED
    BY <2>1, <2>2, PathsDiffer
<1>3. ASSUME NEW k \in Nat, k < Len(P[j]), k \in T PROVE k + 1 \in T
  <2> SUFFICES ASSUME NEW i \in DOMAIN tree, Len(P[i]) = k + 1, IsPrefix(P[n], P[i]), i # n
               PROVE  FALSE
    OBVIOUS
  <2> DEFINE r == tree[i].parent
  <2>1. i # RootId
    BY <1>1
  <2>2. PICK x \in DOMAIN tree[r].children :
          /\ r \in DOMAIN tree /\ x \in Names /\ P[r] \in Seq(Names) /\ P[i] = Append(P[r], x)
    BY <2>1, ChildOfParent
  <2> HIDE DEF r
  <2>3. Len(P[r]) = k
    BY <2>2, AppendedPath
  <2>4. P[n] # P[i]
    BY PathsDiffer
  <2>5. P[n] \in Seq(Names)
    BY <1>1
  <2>6. IsPrefix(P[n], P[r])
    BY <2>2, <2>4, <2>5, PrefixOfChild
  <2>7. r = n
    BY <1>3, <2>2, <2>3, <2>6
  <2> QED
    BY <2>2, <2>7
<1> HIDE DEF T
<1>4. T \in SUBSET Nat
  BY DEF T
<1>5. Len(P[j]) \in Nat
  BY <1>1
<1>6. \A k \in 0..Len(P[j]) : k \in T
  BY <1>2, <1>3, <1>4, <1>5, Induction
<1>7. Len(P[j]) \in T
  BY <1>5, <1>6
<1> QED
  BY <1>7 DEF T

(* Open files are where they were when what they refer to is.              *)
LEMMA SeenSame ==
  ASSUME NEW tree, NEW P, NEW new, NEW Q, NEW f, NEW g,
         f.node = g.node, f.append = g.append, (f = Closed) <=> (g = Closed),
         f.node \in DOMAIN tree <=> f.node \in DOMAIN new,
         f.node \in DOMAIN tree => P[f.node] = Q[f.node]
  PROVE  Seen(tree, P, f) = Seen(new, Q, g)
<1>1. CASE f.node \in DOMAIN tree
  <2>1. Seen(tree, P, f) = [isOpen |-> f # Closed, path |-> P[f.node], gone |-> FALSE,
                            append |-> f.append]
    BY <1>1 DEF Seen
  <2>2. Seen(new, Q, g) = [isOpen |-> f # Closed, path |-> P[f.node], gone |-> FALSE,
                           append |-> f.append]
    BY <1>1 DEF Seen
  <2> QED
    BY <2>1, <2>2
<1>2. CASE f.node \notin DOMAIN tree
  <2>1. Seen(tree, P, f) = [isOpen |-> f # Closed, path |-> <<>>, gone |-> f # Closed,
                            append |-> f.append]
    BY <1>2 DEF Seen
  <2>2. Seen(new, Q, g) = [isOpen |-> f # Closed, path |-> <<>>, gone |-> f # Closed,
                           append |-> f.append]
    BY <1>2 DEF Seen
  <2> QED
    BY <2>1, <2>2
<1> QED
  BY <1>1, <1>2

-------------------------------------------------------------------------------
(* The steps on the tree are steps on the paths.                           *)
Listed(tree, P, F) ==
  /\ DOMAIN F = {P[i] : i \in DOMAIN tree}
  /\ \A i \in DOMAIN tree : P[i] \in DOMAIN F /\ F[P[i]] = tree[i].data
  /\ F = [p \in DOMAIN F |-> F[p]]

LEMMA FilesAre ==
  ASSUME NEW tree, NEW P, NEW F, FilesAt(tree, P, F)
  PROVE  Listed(tree, P, F)
<1>1. F = [p \in {P[i] : i \in DOMAIN tree} |-> F[p]] /\ \A i \in DOMAIN tree : F[P[i]] = tree[i].data
  BY DEF FilesAt
<1>2. DOMAIN F = {P[i] : i \in DOMAIN tree}
  BY <1>1
<1> QED
  BY <1>1, <1>2 DEF Listed

(* The operators on sequences of the instance are the same.                *)
LEMMA SameOperators ==
  /\ \A p : Files!Front(p) = Front(p)
  /\ \A p, q : Files!IsPrefix(p, q) = IsPrefix(p, q)
  /\ \A p, q : Files!IsStrictPrefix(p, q) = (IsPrefix(p, q) /\ p # q)
  /\ \A S : Files!Max(S) = Max(S)
  BY DEF Files!Front, Front, Files!IsPrefix, IsPrefix, Files!IsStrictPrefix, Files!Max, Max

LEMMA FrontIsPath ==
  ASSUME NEW p \in Paths, p # <<>>
  PROVE  Front(p) \in Paths
<1>1. PICK n \in 0..MaxDepth : p \in [1..n -> Names]
  BY DEF Paths
<1>2. n \in Nat /\ Len(p) = n /\ p \in Seq(Names)
  BY <1>1, WebDavAssumption
<1>3. Len(p) \in Nat \ {0} /\ Front(p) \in Seq(Names) /\ Len(Front(p)) = Len(p) - 1
  BY <1>2, FrontLast
<1>4. n - 1 \in 0..MaxDepth /\ Front(p) \in [1..n - 1 -> Names]
  BY <1>2, <1>3, WebDavAssumption
<1> QED
  BY <1>4 DEF Paths

(* What a client finds where the lookup fails, and a place for a new file. *)
LEMMA NothingThere ==
  ASSUME NEW P, Tree(nodes, P), NEW F, FilesAt(nodes, P, F), NEW p, Lookup(p) = NotFound
  PROVE  p \notin DOMAIN F
<1>1. ASSUME p \in DOMAIN F PROVE FALSE
  <2>0. Listed(nodes, P, F)
    BY FilesAre
  <2>1. PICK i \in DOMAIN nodes : p = P[i]
    BY <1>1, <2>0 DEF Listed
  <2>2. Lookup(p) = i
    BY <2>1, LookupPath
  <2> QED
    BY <2>1, <2>2 DEF Tree, Typed, NotFound
<1> QED
  BY <1>1

LEMMA PlaceIsFree ==
  ASSUME NEW P, Tree(nodes, P), FilesAt(nodes, P, view.files), NEW p \in Seq(Names), p # <<>>,
         IsNode(LookupParent(p)), Last(p) \notin DOMAIN nodes[LookupParent(p)].children
  PROVE  Files!IsFree(p)
<1> DEFINE q == LookupParent(p)
<1>1. /\ q \in DOMAIN nodes /\ nodes[q].data.isDir /\ P[q] = Front(p)
      /\ Lookup(p) = NotFound
  BY ParentNode
<1>2. p \notin DOMAIN view.files
  BY <1>1, NothingThere
<1> HIDE DEF q
<1>3. Listed(nodes, P, view.files)
  BY FilesAre
<1>4. Front(p) \in DOMAIN view.files /\ view.files[Front(p)].isDir
  BY <1>1, <1>3 DEF Listed
<1> QED
  BY <1>2, <1>4, SameOperators DEF Files!IsFree, Files!Exists

LEMMA GrownFiles ==
  ASSUME NEW tree, NEW P, NEW id, id \notin DOMAIN tree, NEW p, NEW data, NEW new,
         Tree(tree, P), Grown(tree, id, data, new, Put(P, id, p)),
         NEW F, FilesAt(tree, P, F), NEW G, FilesAt(new, Put(P, id, p), G)
  PROVE  G = Put(F, p, data)
<1> DEFINE Q == Put(P, id, p)
<1>1. DOMAIN P = DOMAIN tree
  BY DEF Tree, PathsAgree
<1>2. Q[id] = p /\ \A i \in DOMAIN tree : Q[i] = P[i]
  BY <1>1 DEF Put
<1>3. /\ DOMAIN new = DOMAIN tree \cup {id} /\ new[id].data = data /\ Tree(new, Q)
      /\ \A i \in DOMAIN tree : new[i].data = tree[i].data
  BY DEF Grown
<1> HIDE DEF Q
<1>0. Listed(tree, P, F) /\ Listed(new, Q, G)
  BY FilesAre DEF Q
<1>4. /\ DOMAIN F = {P[i] : i \in DOMAIN tree}
      /\ \A i \in DOMAIN tree : F[P[i]] = tree[i].data
  BY <1>0 DEF Listed
<1>5. /\ DOMAIN G = {Q[i] : i \in DOMAIN new}
      /\ \A i \in DOMAIN new : G[Q[i]] = new[i].data
      /\ G = [q \in DOMAIN G |-> G[q]]
  BY <1>0 DEF Listed
<1>6. DOMAIN G = DOMAIN F \cup {p}
  BY <1>2, <1>3, <1>4, <1>5
<1>7. G[p] = data
  BY <1>2, <1>3, <1>5
<1>8. ASSUME NEW q \in DOMAIN F PROVE q # p /\ G[q] = F[q]
  <2>1. PICK i \in DOMAIN tree : q = P[i]
    BY <1>4
  <2>2. i # id /\ i \in DOMAIN new /\ id \in DOMAIN new
    BY <1>3, <2>1
  <2>3. Q[i] # Q[id]
    BY <1>3, <2>2, PathsDiffer
  <2> QED
    BY <1>2, <1>3, <1>4, <1>5, <2>1, <2>2, <2>3
<1> QED
  BY <1>5, <1>6, <1>7, <1>8 DEF Put

Refilled(F, p, data, G) == p \in DOMAIN F /\ G = [F EXCEPT ![p] = data]

LEMMA FilledFiles ==
  ASSUME NEW tree, NEW P, Tree(tree, P), NEW n \in DOMAIN tree, NEW data,
         NEW F, FilesAt(tree, P, F), NEW G, FilesAt([tree EXCEPT ![n].data = data], P, G)
  PROVE  Refilled(F, P[n], data, G)
<1> DEFINE new == [tree EXCEPT ![n].data = data]
<1>1. tree \in [DOMAIN tree -> NodeType]
  BY DEF Tree, Typed
<1>2. ASSUME NEW i \in DOMAIN tree
      PROVE  (i = n => new[i].data = data) /\ (i # n => new[i].data = tree[i].data)
  <2>1. tree[i] \in NodeType
    BY <1>1
  <2>2. tree[i] = [data |-> tree[i].data, parent |-> tree[i].parent, children |-> tree[i].children]
    BY <2>1, NodeFields
  <2> QED
    BY <1>1, <2>2
<1>3. DOMAIN new = DOMAIN tree
  BY <1>1
<1>0. Listed(tree, P, F) /\ Listed(new, P, G)
  BY FilesAre
<1>4. /\ DOMAIN F = {P[i] : i \in DOMAIN tree}
      /\ \A i \in DOMAIN tree : P[i] \in DOMAIN F /\ F[P[i]] = tree[i].data
      /\ F = [p \in DOMAIN F |-> F[p]]
  BY <1>0 DEF Listed
<1>5. /\ DOMAIN G = {P[i] : i \in DOMAIN new}
      /\ \A i \in DOMAIN new : G[P[i]] = new[i].data
      /\ G = [q \in DOMAIN G |-> G[q]]
  BY <1>0 DEF Listed
<1> HIDE DEF new
<1>6. DOMAIN G = DOMAIN F
  BY <1>3, <1>4, <1>5
<1>7. G[P[n]] = data
  BY <1>2, <1>3, <1>5
<1>8. ASSUME NEW q \in DOMAIN F, q # P[n] PROVE G[q] = F[q]
  BY <1>2, <1>3, <1>4, <1>5, <1>8
<1> QED
  BY <1>4, <1>5, <1>6, <1>7, <1>8 DEF Refilled

(* The clients' view of a tree with paths P, before and after a step.      *)
Viewed(P) ==
  /\ Tree(nodes, P)
  /\ FilesAt(nodes, P, view.files)
  /\ OpenAt(nodes, P, handles, view.opened)

ViewedNext(Q) ==
  /\ Tree(nodes', Q)
  /\ FilesAt(nodes', Q, view'.files)
  /\ OpenAt(nodes', Q, handles', view'.opened)

LEMMA ViewFollows ==
  ASSUME view' = View(nodes', handles'), NEW Q, Tree(nodes', Q)
  PROVE  ViewedNext(Q)
<1>1. FilesAt(nodes', Q, View(nodes', handles').files)
      /\ OpenAt(nodes', Q, handles', View(nodes', handles').opened)
  BY ViewIs
<1> QED
  BY <1>1 DEF ViewedNext

LEMMA SameHandles ==
  ASSUME NEW P, NEW Q, Viewed(P), ViewedNext(Q),
         \A h \in Handles : Seen(nodes, P, handles[h]) = Seen(nodes', Q, handles'[h])
  PROVE  view'.opened = view.opened
<1>1. view.opened = [h \in Handles |-> Seen(nodes, P, handles[h])]
      /\ view'.opened = [h \in Handles |-> Seen(nodes', Q, handles'[h])]
  BY DEF Viewed, ViewedNext, OpenAt
<1> QED
  BY <1>1, Zenon

LEMMA OneHandle ==
  ASSUME NEW P, NEW Q, Viewed(P), ViewedNext(Q), NEW h \in Handles, NEW value,
         Seen(nodes', Q, handles'[h]) = value,
         \A g \in Handles \ {h} : Seen(nodes, P, handles[g]) = Seen(nodes', Q, handles'[g])
  PROVE  view'.opened = [view.opened EXCEPT ![h] = value]
<1> DEFINE before(g) == Seen(nodes, P, handles[g])
           after(g) == Seen(nodes', Q, handles'[g])
<1>1. view.opened = [g \in Handles |-> before(g)]
      /\ view'.opened = [g \in Handles |-> after(g)]
  BY DEF Viewed, ViewedNext, OpenAt
<1>2. after(h) = value /\ \A g \in Handles \ {h} : before(g) = after(g)
  OBVIOUS
<1> HIDE DEF before, after
<1> QED
  BY <1>1, <1>2

LEMMA SeenGrown ==
  ASSUME Typing, NEW P, Tree(nodes, P), NEW data, NEW p,
         Grown(nodes, nodeId, data, nodes', Put(P, nodeId, p)), NEW h \in Handles
  PROVE  Seen(nodes, P, handles[h]) = Seen(nodes', Put(P, nodeId, p), handles[h])
<1> DEFINE Q == Put(P, nodeId, p)
           f == handles[h]
<1>1. DOMAIN nodes' = DOMAIN nodes \cup {nodeId} /\ DOMAIN P = DOMAIN nodes
  BY DEF Grown, Tree, PathsAgree
<1>2. f.node # nodeId
  <2>1. f \in HandlesBelow(nodeId) /\ nodeId \in Nat
    BY WebDavAssumption DEF Typing
  <2> QED
    BY <2>1 DEF HandlesBelow
<1>3. f.node \in DOMAIN nodes <=> f.node \in DOMAIN nodes'
  BY <1>1, <1>2
<1>4. f.node \in DOMAIN nodes => P[f.node] = Q[f.node]
  BY <1>1, <1>2 DEF Put
<1> HIDE DEF f, Q
<1>5. Seen(nodes, P, f) = Seen(nodes', Q, f)
  BY <1>3, <1>4, SeenSame
<1> QED
  BY <1>5 DEF f, Q

(* A new node is a new path.                                               *)
NewPath(P, p, data) ==
  /\ Files!IsFree(p)
  /\ view'.files = Files!Put(p, data)
  /\ ViewedNext(Put(P, nodeId, p))
  /\ nodeId \in DOMAIN nodes'
  /\ \A h \in Handles : Seen(nodes, P, handles[h]) = Seen(nodes', Put(P, nodeId, p), handles[h])

LEMMA CreatedPath ==
  ASSUME Typing, NEW P, Viewed(P), view' = View(nodes', handles'),
         NEW p \in Seq(Names), p # <<>>, IsNode(LookupParent(p)),
         Last(p) \notin DOMAIN nodes[LookupParent(p)].children, NEW data \in FileType,
         Created(LookupParent(p), Last(p), data)
  PROVE  NewPath(P, p, data)
<1> DEFINE Q == Put(P, nodeId, p)
<1>1. Tree(nodes, P) /\ FilesAt(nodes, P, view.files)
  BY DEF Viewed
<1>2. Grown(nodes, nodeId, data, nodes', Q) /\ nodeId \notin DOMAIN nodes
  BY <1>1, CreatedTree
<1>3. Files!IsFree(p)
  BY <1>1, PlaceIsFree
<1>4. Tree(nodes', Q) /\ nodeId \in DOMAIN nodes'
  BY <1>2 DEF Grown
<1>5. ViewedNext(Q)
  BY <1>4, ViewFollows
<1>6. FilesAt(nodes', Q, view'.files)
  BY <1>5 DEF ViewedNext
<1>7. view'.files = Put(view.files, p, data)
  BY <1>1, <1>2, <1>6, GrownFiles
<1>8. view'.files = Files!Put(p, data)
  BY <1>7 DEF Put, Files!Put
<1>9. \A h \in Handles : Seen(nodes, P, handles[h]) = Seen(nodes', Q, handles[h])
  BY <1>1, <1>2, SeenGrown
<1> QED
  BY <1>3, <1>4, <1>5, <1>8, <1>9 DEF NewPath

LEMMA CreateDirStep ==
  ASSUME Typing, NEW P, Viewed(P), view' = View(nodes', handles'),
         NEW p \in Paths, CreateDir(p)
  PROVE  Files!MakeDir(p)
<1>1. p \in Seq(Names) /\ NewDir \in FileType
  BY PathsAreSequences, DataValues
<1>2. /\ p # <<>> /\ IsNode(LookupParent(p))
      /\ Last(p) \notin DOMAIN nodes[LookupParent(p)].children
      /\ Created(LookupParent(p), Last(p), NewDir)
      /\ handles' = handles
  BY DEF CreateDir
<1>3. NewPath(P, p, NewDir)
  BY <1>1, <1>2, CreatedPath
<1>4. view'.opened = view.opened
  BY <1>2, <1>3, SameHandles DEF NewPath
<1> QED
  BY <1>3, <1>4 DEF NewPath, Files!MakeDir, Files!Directory, NewDir

LEMMA CopyNewStep ==
  ASSUME Typing, NEW P, Viewed(P), view' = View(nodes', handles'),
         NEW from \in Existing, NEW to \in Paths, CopyNew(from, to)
  PROVE  P[Lookup(from)] \in DOMAIN view.files /\ Files!Copy(P[Lookup(from)], to)
<1> DEFINE n == Lookup(from)
           data == nodes[n].data
<1>0. Tree(nodes, P) /\ FilesAt(nodes, P, view.files)
  BY DEF Viewed
<1>1. to \in Seq(Names) /\ from \in Seq(Names) /\ IsNode(n)
  BY PathsAreSequences DEF Existing
<1>2. /\ Lookup(to) = NotFound /\ IsNode(LookupParent(to))
      /\ Created(LookupParent(to), Last(to), data)
      /\ handles' = handles
  BY DEF CopyNew
<1>3. n \in DOMAIN nodes
  BY <1>0, <1>1, LookupNode
<1>4. data \in FileType
  BY <1>0, <1>3 DEF Tree, Typed, NodeType, FileType
<1>5. to # <<>> /\ Last(to) \notin DOMAIN nodes[LookupParent(to)].children
  BY <1>0, <1>1, <1>2, FreePlace
<1>6. NewPath(P, to, data)
  BY <1>1, <1>2, <1>4, <1>5, CreatedPath
<1>7. view'.opened = view.opened
  BY <1>2, <1>6, SameHandles DEF NewPath
<1> HIDE DEF n
<1>8. Listed(nodes, P, view.files)
  BY <1>0, FilesAre
<1>9. P[n] \in DOMAIN view.files /\ view.files[P[n]] = data
  BY <1>3, <1>8 DEF Listed
<1>10. Files!Copy(P[n], to)
  BY <1>6, <1>7, <1>9 DEF NewPath, Files!Copy
<1> QED
  BY <1>9, <1>10 DEF n

LEMMA OpenNewStep ==
  ASSUME Typing, NEW P, Viewed(P), view' = View(nodes', handles'),
         NEW h \in Handles, NEW p \in Paths, NEW append \in BOOLEAN, OpenNew(h, p, append)
  PROVE  Files!Open(h, p, append)
<1> DEFINE Q == Put(P, nodeId, p)
           value == [node |-> nodeId, pos |-> 0, append |-> append]
           seen == [isOpen |-> TRUE, path |-> p, gone |-> FALSE, append |-> append]
<1>0. Tree(nodes, P) /\ DOMAIN P = DOMAIN nodes
  BY DEF Viewed, Tree, PathsAgree
<1>1. p \in Seq(Names) /\ NewFile \in FileType
  BY PathsAreSequences, DataValues
<1>2. /\ Lookup(p) = NotFound /\ IsNode(LookupParent(p))
      /\ Created(LookupParent(p), Last(p), NewFile)
      /\ handles' = [handles EXCEPT ![h] = value]
  BY DEF OpenNew, NextId
<1>3. p # <<>> /\ Last(p) \notin DOMAIN nodes[LookupParent(p)].children
  BY <1>0, <1>1, <1>2, FreePlace
<1>4. NewPath(P, p, NewFile)
  BY <1>1, <1>2, <1>3, CreatedPath
<1>5. handles'[h] = value /\ \A g \in Handles \ {h} : handles'[g] = handles[g]
  BY <1>2 DEF Typing
<1>6. value # Closed /\ value.node = nodeId /\ value.append = append
  BY DEF Typing, Closed, NotFound
<1>7. Q[nodeId] = p
  BY DEF Put
<1> HIDE DEF value, Q
<1>8. Seen(nodes', Q, value) = seen
  BY <1>4, <1>6, <1>7 DEF Seen, NewPath
<1> HIDE DEF seen
<1>9. Seen(nodes', Q, handles'[h]) = seen
  BY <1>5, <1>8
<1>10. ViewedNext(Q)
  BY <1>4 DEF NewPath, Q
<1>11. \A g \in Handles \ {h} : Seen(nodes, P, handles[g]) = Seen(nodes', Q, handles'[g])
  BY <1>4, <1>5 DEF NewPath, Q
<1>12. view'.opened = [view.opened EXCEPT ![h] = seen]
  BY <1>9, <1>10, <1>11, OneHandle
<1>13. Files!IsFree(p) /\ view'.files = Files!Put(p, Files!EmptyFile)
  BY <1>4 DEF NewPath, Files!EmptyFile, NewFile
<1> QED
  BY <1>12, <1>13 DEF Files!Open, seen

(* Steps that leave the paths.                                             *)
LEMMA SameFiles ==
  ASSUME NEW tree, NEW P, NEW F, NEW G, FilesAt(tree, P, F), FilesAt(tree, P, G)
  PROVE  F = G
<1>1. Listed(tree, P, F) /\ Listed(tree, P, G)
  BY FilesAre
<1>2. DOMAIN F = DOMAIN G /\ F = [p \in DOMAIN F |-> F[p]] /\ G = [p \in DOMAIN G |-> G[p]]
  BY <1>1 DEF Listed
<1>3. ASSUME NEW p \in DOMAIN F PROVE F[p] = G[p]
  <2>1. PICK i \in DOMAIN tree : p = P[i]
    BY <1>1 DEF Listed
  <2> QED
    BY <1>1, <2>1 DEF Listed
<1> QED
  BY <1>2, <1>3

(* The contents of one file changed, and nothing else.                     *)
FilledAt(P, n, data) ==
  /\ ViewedNext(P)
  /\ DOMAIN nodes' = DOMAIN nodes
  /\ P[n] \in DOMAIN view.files
  /\ view.files[P[n]] = nodes[n].data
  /\ view'.files = [view.files EXCEPT ![P[n]] = data]

LEMMA OneFilled ==
  ASSUME NEW P, Viewed(P), view' = View(nodes', handles'), NEW n \in DOMAIN nodes, NEW data,
         nodes' = [nodes EXCEPT ![n].data = data], Tree(nodes', P)
  PROVE  FilledAt(P, n, data)
<1>1. Tree(nodes, P) /\ FilesAt(nodes, P, view.files)
  BY DEF Viewed
<1>2. ViewedNext(P)
  BY ViewFollows
<1>3. FilesAt([nodes EXCEPT ![n].data = data], P, view'.files)
  BY <1>2 DEF ViewedNext
<1>4. Refilled(view.files, P[n], data, view'.files)
  BY <1>1, <1>3, FilledFiles
<1>5. Listed(nodes, P, view.files)
  BY <1>1, FilesAre
<1>6. view.files[P[n]] = nodes[n].data
  BY <1>5 DEF Listed
<1>7. DOMAIN nodes' = DOMAIN nodes
  OBVIOUS
<1> QED
  BY <1>2, <1>4, <1>6, <1>7 DEF FilledAt, Refilled

LEMMA PositionUnseen ==
  ASSUME Typing, NEW P, Viewed(P), ViewedNext(P), DOMAIN nodes' = DOMAIN nodes,
         NEW h \in Handles, handles[h] # Closed, NEW pos,
         handles' = [handles EXCEPT ![h].pos = pos]
  PROVE  view'.opened = view.opened
<1>1. ASSUME NEW g \in Handles PROVE Seen(nodes, P, handles[g]) = Seen(nodes', P, handles'[g])
  <2>1. handles[g] \in HandlesBelow(nodeId) /\ handles[h].node # NotFound
    BY DEF Typing
  <2>2. /\ handles'[g].node = handles[g].node /\ handles'[g].append = handles[g].append
        /\ (handles[g] = Closed) <=> (handles'[g] = Closed)
    <3>1. CASE g # h
      BY <3>1 DEF Typing
    <3>2. CASE g = h
      <4>1. handles'[g] = [handles[g] EXCEPT !.pos = pos]
        BY <3>2 DEF Typing
      <4>2. handles'[g].node = handles[g].node /\ handles'[g].append = handles[g].append
        BY <2>1, <4>1 DEF HandlesBelow
      <4>3. handles[g] # Closed /\ handles'[g] # Closed
        BY <2>1, <3>2, <4>2 DEF Closed
      <4> QED
        BY <4>2, <4>3
    <3> QED
      BY <3>1, <3>2
  <2> DEFINE f == handles[g]
             f2 == handles'[g]
  <2>3. /\ f.node = f2.node /\ f.append = f2.append /\ ((f = Closed) <=> (f2 = Closed))
        /\ (f.node \in DOMAIN nodes) <=> (f.node \in DOMAIN nodes')
    BY <2>2
  <2> HIDE DEF f, f2
  <2>4. Seen(nodes, P, f) = Seen(nodes', P, f2)
    BY <2>3, SeenSame
  <2> QED
    BY <2>4 DEF f, f2
<1> QED
  BY <1>1, SameHandles

HandleAt(h, n, append) ==
  handles' = [handles EXCEPT ![h] = [node |-> n, pos |-> 0, append |-> append]]

OpenedAt(h, p, append) ==
  view'.opened = [view.opened EXCEPT ![h] =
                    [isOpen |-> TRUE, path |-> p, gone |-> FALSE, append |-> append]]

LEMMA FileOpened ==
  ASSUME Typing, NEW P, Viewed(P), ViewedNext(P), DOMAIN nodes' = DOMAIN nodes,
         NEW h \in Handles, NEW n \in DOMAIN nodes, NEW append \in BOOLEAN,
         HandleAt(h, n, append)
  PROVE  OpenedAt(h, P[n], append)
<1> DEFINE value == [node |-> n, pos |-> 0, append |-> append]
           seen == [isOpen |-> TRUE, path |-> P[n], gone |-> FALSE, append |-> append]
<1>1. handles'[h] = value /\ \A g \in Handles \ {h} : handles'[g] = handles[g]
  BY DEF Typing, HandleAt
<1>2. value # Closed /\ value.node = n /\ value.append = append
  BY WebDavAssumption DEF Typing, Closed, NotFound
<1> HIDE DEF value
<1>3. Seen(nodes', P, value) = seen
  BY <1>2 DEF Seen
<1>4. Seen(nodes', P, handles'[h]) = seen
  BY <1>1, <1>3
<1>5. \A g \in Handles \ {h} : Seen(nodes, P, handles[g]) = Seen(nodes', P, handles'[g])
  BY <1>1 DEF Seen
<1> HIDE DEF seen
<1>6. view'.opened = [view.opened EXCEPT ![h] = seen]
  BY <1>4, <1>5, OneHandle
<1> QED
  BY <1>6 DEF seen, OpenedAt

LEMMA OpenExistingStep ==
  ASSUME Typing, NEW P, Viewed(P), view' = View(nodes', handles'),
         NEW h \in Handles, NEW p \in Paths, NEW truncate \in BOOLEAN, NEW append \in BOOLEAN,
         OpenExisting(h, p, truncate, append)
  PROVE  P[Lookup(p)] \in Paths /\ Files!Open(h, P[Lookup(p)], append)
<1> DEFINE n == Lookup(p)
<1>0. Tree(nodes, P) /\ FilesAt(nodes, P, view.files) /\ p \in Seq(Names)
  BY PathsAreSequences DEF Viewed
<1>1. IsNode(n) /\ HandleAt(h, n, append)
  BY DEF OpenExisting, HandleAt
<1>2. /\ n \in DOMAIN nodes /\ ~nodes[n].data.isDir
      /\ nodes' = nodes \/ nodes' = [nodes EXCEPT ![n].data = NewFile]
      /\ DOMAIN nodes' = DOMAIN nodes
      /\ Tree(nodes', P)
  BY <1>0, OpenedTree
<1>3. P[n] = p \/ (p # <<>> /\ P[n] = Front(p))
  BY <1>0, <1>1, LookupNode
<1> HIDE DEF n
<1>4. P[n] \in Paths
  BY <1>3, FrontIsPath
<1>5. ViewedNext(P)
  BY <1>2, ViewFollows
<1>6. OpenedAt(h, P[n], append)
  BY <1>1, <1>2, <1>5, FileOpened
<1>7. Listed(nodes, P, view.files)
  BY <1>0, FilesAre
<1>8. Files!IsFile(P[n])
  BY <1>2, <1>7 DEF Listed, Files!IsFile, Files!Exists
<1>9. view'.files \in {view.files, [view.files EXCEPT ![P[n]] = Files!EmptyFile]}
  <2>1. CASE nodes' = nodes
    <3>1. FilesAt(nodes, P, view'.files)
      BY <1>5, <2>1 DEF ViewedNext
    <3>2. view'.files = view.files
      BY <1>0, <3>1, SameFiles
    <3> QED
      BY <3>2
  <2>2. CASE nodes' = [nodes EXCEPT ![n].data = NewFile]
    <3>1. FilledAt(P, n, NewFile)
      BY <1>2, <2>2, OneFilled
    <3> QED
      BY <3>1 DEF FilledAt, NewFile, Files!EmptyFile
  <2> QED
    BY <1>2, <2>1, <2>2
<1>10. Files!Open(h, P[n], append)
  BY <1>6, <1>8, <1>9 DEF Files!Open, OpenedAt
<1> QED
  BY <1>4, <1>10 DEF n

LEMMA CopyOverStep ==
  ASSUME Typing, NEW P, Viewed(P), view' = View(nodes', handles'),
         NEW from \in Existing, NEW to \in Paths, CopyOver(from, to)
  PROVE  /\ P[Lookup(from)] \in DOMAIN view.files
         /\ P[Lookup(to)] \in Paths
         /\ Files!Copy(P[Lookup(from)], P[Lookup(to)])
<1> DEFINE n == Lookup(from)
           d == Lookup(to)
<1>0. Tree(nodes, P) /\ FilesAt(nodes, P, view.files) /\ to \in Seq(Names)
  BY PathsAreSequences DEF Viewed
<1>1. IsNode(d) /\ handles' = handles
  BY DEF CopyOver
<1>2. /\ n \in DOMAIN nodes /\ d \in DOMAIN nodes /\ ~nodes[d].data.isDir
      /\ nodes' = [nodes EXCEPT ![d].data = nodes[n].data]
      /\ Tree(nodes', P)
  BY <1>0, CopiedTree
<1>3. P[d] = to \/ (to # <<>> /\ P[d] = Front(to))
  BY <1>0, <1>1, LookupNode
<1> HIDE DEF n, d
<1>4. P[d] \in Paths
  BY <1>3, FrontIsPath
<1>5. FilledAt(P, d, nodes[n].data)
  BY <1>2, OneFilled
<1>6. \A h \in Handles : Seen(nodes, P, handles[h]) = Seen(nodes', P, handles'[h])
  BY <1>1, <1>5 DEF Seen, FilledAt
<1>7. view'.opened = view.opened
  BY <1>5, <1>6, SameHandles DEF FilledAt
<1>8. Listed(nodes, P, view.files)
  BY <1>0, FilesAre
<1>9. P[n] \in DOMAIN view.files /\ view.files[P[n]] = nodes[n].data
      /\ view.files = [p \in DOMAIN view.files |-> view.files[p]]
  BY <1>2, <1>8 DEF Listed
<1>10. Files!IsFile(P[d])
  BY <1>2, <1>5 DEF FilledAt, Files!IsFile, Files!Exists
<1>11. view'.files = Files!Put(P[d], view.files[P[n]])
  BY <1>5, <1>9 DEF FilledAt, Files!Put
<1>12. Files!Copy(P[n], P[d])
  BY <1>7, <1>10, <1>11 DEF Files!Copy
<1> QED
  BY <1>4, <1>9, <1>12 DEF n, d

LEMMA WriteStep ==
  ASSUME Typing, NEW P, Viewed(P), view' = View(nodes', handles'),
         NEW h \in Handles, NEW b \in Bytes, Write(h, b)
  PROVE  WritePosition(h) \in 0..MaxLen /\ Files!Write(h, WritePosition(h), b)
<1> DEFINE n == handles[h].node
           pos == WritePosition(h)
           data == FileData(h)
           new == [isDir |-> FALSE, data |-> Written(h, b)]
           f == view.opened[h]
<1>0. Tree(nodes, P) /\ FilesAt(nodes, P, view.files)
  BY DEF Viewed
<1>1. /\ n \in DOMAIN nodes /\ ~nodes[n].data.isDir
      /\ pos \in 0..MaxLen - 1
      /\ nodes' = [nodes EXCEPT ![n].data = new]
      /\ Tree(nodes', P)
  BY <1>0, WrittenTree
<1>2. handles' = [handles EXCEPT ![h].pos = pos + 1]
  BY DEF Write
<1>3. handles[h] # Closed
  BY <1>0, <1>1 DEF Tree, Typed, Closed, NotFound
<1>4. f = Seen(nodes, P, handles[h])
  BY DEF Viewed, OpenAt
<1>5. f.isOpen /\ ~f.gone /\ f.path = P[n] /\ f.append = handles[h].append
  <2>1. f = [isOpen |-> TRUE, path |-> P[n], gone |-> FALSE, append |-> handles[h].append]
    BY <1>1, <1>3, <1>4 DEF Seen
  <2>2. f.append = handles[h].append
    <3> DEFINE a == handles[h].append
    <3>1. a \in BOOLEAN
      BY DEF Typing, HandlesBelow
    <3> HIDE DEF a, f
    <3>2. f.append = a
      BY <2>1, <3>1 DEF a
    <3> QED
      BY <3>2 DEF a
  <2>3. f.isOpen /\ ~f.gone /\ f.path = P[n]
    BY <2>1
  <2> QED
    BY <2>2, <2>3
<1>6. nodes[n].data = [isDir |-> FALSE, data |-> data] /\ data \in Data
  BY <1>0, <1>1, FileNode DEF FileData
<1>7. data \in Seq(0..255) /\ Len(data) \in Nat
  BY <1>6, DataValues
<1>8. f.append => pos = Len(data)
  BY <1>5 DEF WritePosition
<1>9. Files!Overlay(data, pos, <<b>>) = Written(h, b)
  <2>1. Len(<<b>>) = 1 /\ <<b>>[1] = b /\ pos \in Nat
    BY <1>1, WebDavAssumption
  <2>2. Max({Len(data), pos + 1}) \in Nat /\ Files!Max({Len(data), pos + 1}) = Max({Len(data), pos + 1})
    BY <1>7, <2>1, MaxOfTwo, SameOperators
  <2> DEFINE m == Max({Len(data), pos + 1})
  <2>3. Written(h, b) = [i \in 1..m |-> IF i = pos + 1 THEN b ELSE IF i <= Len(data) THEN data[i] ELSE 0]
    BY DEF Written
  <2>4. Files!Overlay(data, pos, <<b>>) =
          [i \in 1..m |-> IF i \in pos + 1..pos + 1 THEN <<b>>[i - pos]
                          ELSE IF i <= Len(data) THEN data[i] ELSE 0]
    BY <2>1, <2>2 DEF Files!Overlay
  <2> HIDE DEF m, pos, data
  <2>5. ASSUME NEW i \in 1..m
        PROVE  (IF i \in pos + 1..pos + 1 THEN <<b>>[i - pos]
                ELSE IF i <= Len(data) THEN data[i] ELSE 0) =
               (IF i = pos + 1 THEN b ELSE IF i <= Len(data) THEN data[i] ELSE 0)
    <3>1. i \in Int
      BY <2>2 DEF m
    <3> QED
      BY <2>1, <3>1
  <2> QED
    BY <2>3, <2>4, <2>5
<1> HIDE DEF n, pos, data, new, f
<1>10. FilledAt(P, n, new)
  BY <1>1, OneFilled
<1>11. view'.opened = view.opened
  BY <1>2, <1>3, <1>10, PositionUnseen DEF FilledAt
<1>12. Files!IsFile(f.path)
  BY <1>1, <1>5, <1>10 DEF FilledAt, Files!IsFile, Files!Exists
<1>13. view.files[f.path].data = data
  BY <1>5, <1>6, <1>10 DEF FilledAt
<1>14. view'.files = [view.files EXCEPT ![f.path].data = Files!Overlay(@, pos, <<b>>)]
  <2> DEFINE files == view.files
             over == Files!Overlay(data, pos, <<b>>)
  <2>1. files[f.path] = [isDir |-> FALSE, data |-> data] /\ f.path \in DOMAIN files
    BY <1>5, <1>6, <1>10 DEF FilledAt
  <2>2. new = [isDir |-> FALSE, data |-> over]
    BY <1>9 DEF new
  <2>3. view'.files = [files EXCEPT ![f.path] = new]
    BY <1>5, <1>10 DEF FilledAt
  <2>4. [files EXCEPT ![f.path].data = Files!Overlay(@, pos, <<b>>)] =
          [files EXCEPT ![f.path] = [files[f.path] EXCEPT !.data = over]]
    BY <1>13
  <2>5. [files[f.path] EXCEPT !.data = over] = [isDir |-> FALSE, data |-> over]
    <3> DEFINE r == files[f.path]
    <3>1. r \in FileType /\ r.isDir = FALSE
      BY <1>6, <2>1 DEF FileType
    <3> HIDE DEF r, over
    <3>2. [r EXCEPT !.data = over] = [isDir |-> r.isDir, data |-> over]
      BY <3>1 DEF FileType
    <3> QED
      BY <3>1, <3>2 DEF r
  <2> QED
    BY <2>2, <2>3, <2>4, <2>5
<1>15. Files!Write(h, pos, b)
  BY <1>5, <1>8, <1>11, <1>12, <1>13, <1>14 DEF Files!Write, f
<1>16. pos \in 0..MaxLen
  BY <1>1, WebDavAssumption
<1> QED
  BY <1>15, <1>16 DEF pos

LEMMA SameTree ==
  ASSUME NEW P, Viewed(P), view' = View(nodes', handles'), nodes' = nodes
  PROVE  ViewedNext(P) /\ view'.files = view.files
<1>1. Tree(nodes, P) /\ FilesAt(nodes, P, view.files)
  BY DEF Viewed
<1>2. ViewedNext(P)
  BY <1>1, ViewFollows
<1>3. FilesAt(nodes, P, view'.files)
  BY <1>2 DEF ViewedNext
<1> QED
  BY <1>1, <1>2, <1>3, SameFiles

LEMMA CloseStep ==
  ASSUME Typing, NEW P, Viewed(P), view' = View(nodes', handles'), NEW h \in Handles, Close(h)
  PROVE  Files!Close(h)
<1>1. nodes' = nodes /\ handles'[h] = Closed
      /\ \A g \in Handles \ {h} : handles'[g] = handles[g]
  BY DEF Close, Typing
<1>2. ViewedNext(P) /\ view'.files = view.files
  BY <1>1, SameTree
<1>3. Closed.node = NotFound /\ Closed.append = FALSE /\ NotFound \notin DOMAIN nodes'
  BY <1>1 DEF Viewed, Tree, Typed, Closed, NotFound
<1>4. Seen(nodes', P, handles'[h]) = Files!Closed
  <2>1. Seen(nodes', P, Closed) = [isOpen |-> FALSE, path |-> <<>>, gone |-> FALSE, append |-> FALSE]
    BY <1>3 DEF Seen
  <2> QED
    BY <1>1, <2>1 DEF Files!Closed
<1>5. \A g \in Handles \ {h} : Seen(nodes, P, handles[g]) = Seen(nodes', P, handles'[g])
  BY <1>1 DEF Seen
<1>6. view'.opened = [view.opened EXCEPT ![h] = Files!Closed]
  BY <1>2, <1>4, <1>5, OneHandle
<1> QED
  BY <1>2, <1>6 DEF Files!Close

LEMMA MovedPosition ==
  ASSUME Typing, NEW P, Viewed(P), view' = View(nodes', handles'), nodes' = nodes,
         NEW h \in Handles, handles[h] # Closed, NEW pos,
         handles' = [handles EXCEPT ![h].pos = pos]
  PROVE  view'.files = view.files /\ view'.opened = view.opened
<1>1. ViewedNext(P) /\ view'.files = view.files /\ DOMAIN nodes' = DOMAIN nodes
  BY SameTree
<1> QED
  BY <1>1, PositionUnseen

LEMMA ReadStep ==
  ASSUME Typing, NEW P, Viewed(P), view' = View(nodes', handles'), NEW h \in Handles, Read(h, 1)
  PROVE  view'.files = view.files /\ view'.opened = view.opened
<1>1. handles[h].node \in DOMAIN nodes /\ nodes' = nodes
      /\ \E pos : handles' = [handles EXCEPT ![h].pos = pos]
  BY DEF Read, HasFile
<1>2. handles[h] # Closed
  BY <1>1 DEF Viewed, Tree, Typed, Closed, NotFound
<1> QED
  BY <1>1, <1>2, MovedPosition

LEMMA SeekStep ==
  ASSUME Typing, NEW P, Viewed(P), view' = View(nodes', handles'), NEW h \in Handles, Seek(h)
  PROVE  view'.files = view.files /\ view'.opened = view.opened
<1>1. handles[h] # Closed /\ nodes' = nodes
      /\ \E pos : handles' = [handles EXCEPT ![h].pos = pos]
  BY DEF Seek
<1> QED
  BY <1>1, MovedPosition

(* Steps that remove nodes: the open files among them are gone.            *)
LEMMA SeenThere ==
  ASSUME NEW tree, NEW P, NEW f, f.node \in DOMAIN tree, f # Closed
  PROVE  Seen(tree, P, f) = [isOpen |-> TRUE, path |-> P[f.node], gone |-> FALSE, append |-> f.append]
  BY DEF Seen

LEMMA SeenGone ==
  ASSUME NEW tree, NEW P, NEW f, f.node \notin DOMAIN tree, f # Closed
  PROVE  Seen(tree, P, f) = [isOpen |-> TRUE, path |-> <<>>, gone |-> TRUE, append |-> f.append]
  BY DEF Seen

LEMMA SeenClosed ==
  ASSUME NEW tree, NEW P, Closed.node \notin DOMAIN tree
  PROVE  Seen(tree, P, Closed) =
           [isOpen |-> FALSE, path |-> <<>>, gone |-> FALSE, append |-> Closed.append]
  BY DEF Seen

LEMMA NotOpen ==
  ASSUME NEW P, Tree(nodes, P)
  PROVE  Closed.node \notin DOMAIN nodes
  BY DEF Tree, Typed, Closed, NotFound

SeenRecord(S, T, U, V) == [isOpen : S, path : T, gone : U, append : V]

GoneAt(o, gone, path) ==
  [o EXCEPT !.gone = gone, !.path = path] =
    [isOpen |-> o.isOpen, path |-> path, gone |-> gone, append |-> o.append]

MovedTo(o, path) ==
  [o EXCEPT !.path = path] =
    [isOpen |-> o.isOpen, path |-> path, gone |-> o.gone, append |-> o.append]

LEMMA RecordChanges ==
  ASSUME NEW S, NEW T, NEW U, NEW V, NEW o, o \in SeenRecord(S, T, U, V), NEW gone, NEW path
  PROVE  GoneAt(o, gone, path) /\ MovedTo(o, path)
<1> DEFINE r == [o EXCEPT !.gone = gone]
<1>1. r = [isOpen |-> o.isOpen, path |-> o.path, gone |-> gone, append |-> o.append]
  BY DEF SeenRecord
<1>2. /\ r \in [isOpen : S, path : T, gone : {gone}, append : V]
      /\ r.isOpen = o.isOpen /\ r.append = o.append /\ r.gone = gone
  BY <1>1 DEF SeenRecord
<1>3. [o EXCEPT !.gone = gone, !.path = path] = [r EXCEPT !.path = path]
  OBVIOUS
<1>4. MovedTo(o, path)
  BY DEF SeenRecord, MovedTo
<1> HIDE DEF r
<1>5. [r EXCEPT !.path = path] =
        [isOpen |-> r.isOpen, path |-> path, gone |-> r.gone, append |-> r.append]
  BY <1>2
<1> QED
  BY <1>2, <1>3, <1>4, <1>5 DEF GoneAt

IsAt(o, p, a) == o = [isOpen |-> TRUE, path |-> p, gone |-> FALSE, append |-> a]

GoneFromThere(o, a) ==
  [o EXCEPT !.gone = TRUE, !.path = <<>>] =
    [isOpen |-> TRUE, path |-> <<>>, gone |-> TRUE, append |-> a]

LEMMA OpenRecord ==
  ASSUME NEW o, NEW p, NEW a, IsAt(o, p, a), NEW q
  PROVE  GoneFromThere(o, a) /\ IsAt([o EXCEPT !.path = q], q, a)
<1>1. o \in SeenRecord({TRUE}, {p}, {FALSE}, {a})
  BY DEF SeenRecord, IsAt
<1>2. o.isOpen = TRUE /\ o.append = a /\ o.gone = FALSE
  BY DEF IsAt
<1> DEFINE true == TRUE
<1> HIDE DEF true
<1>3. GoneAt(o, true, <<>>) /\ MovedTo(o, q)
  BY <1>1, RecordChanges
<1>4. [o EXCEPT !.gone = TRUE, !.path = <<>>] =
        [isOpen |-> TRUE, path |-> <<>>, gone |-> TRUE, append |-> a]
  BY <1>2, <1>3, Zenon DEF true, GoneAt
<1>5. [o EXCEPT !.path = q] = [isOpen |-> TRUE, path |-> q, gone |-> FALSE, append |-> a]
  BY <1>2, <1>3, Zenon DEF MovedTo
<1> QED
  BY <1>4, <1>5, Zenon DEF GoneFromThere, IsAt

LEMMA GoneSeen ==
  ASSUME NEW P, Viewed(P), NEW p, NEW gone \in SUBSET DOMAIN nodes,
         \A i \in DOMAIN nodes : i \in gone <=> P[i] = p, NEW h \in Handles
  PROVE  Files!GoneFrom(p)[h] = Seen(Without(nodes, gone), P, handles[h])
<1> DEFINE f == handles[h]
           o == view.opened[h]
           kept == Without(nodes, gone)
<1>1. o = Seen(nodes, P, f)
  BY DEF Viewed, OpenAt
<1>2. Files!GoneFrom(p)[h] = IF o.isOpen /\ ~o.gone /\ o.path = p
                               THEN [o EXCEPT !.gone = TRUE, !.path = <<>>] ELSE o
  BY DEF Files!GoneFrom
<1>3. DOMAIN kept = DOMAIN nodes \ gone
  BY DEF Without
<1>4. Closed.node \notin DOMAIN nodes
  BY NotOpen DEF Viewed
<1> DEFINE after == Files!GoneFrom(p)[h]
<1> HIDE DEF f, o, kept, after
<1>5. CASE f.node \in DOMAIN kept
  <2>1. f # Closed /\ f.node \in DOMAIN nodes
    BY <1>3, <1>4, <1>5
  <2>2. o = [isOpen |-> TRUE, path |-> P[f.node], gone |-> FALSE, append |-> f.append]
    BY <1>1, <2>1, SeenThere
  <2>3. o.path # p
    BY <1>3, <1>5, <2>1, <2>2
  <2>4. after = o
    BY <1>2, <2>3 DEF after
  <2>5. Seen(kept, P, f) = [isOpen |-> TRUE, path |-> P[f.node], gone |-> FALSE, append |-> f.append]
    BY <1>5, <2>1, SeenThere
  <2> QED
    BY <2>2, <2>4, <2>5 DEF f, kept, after
<1>6. CASE f.node \in gone
  <2>1. f # Closed /\ f.node \in DOMAIN nodes /\ f.node \notin DOMAIN kept /\ P[f.node] = p
    BY <1>3, <1>4, <1>6
  <2>2. o = [isOpen |-> TRUE, path |-> p, gone |-> FALSE, append |-> f.append]
    BY <1>1, <2>1, SeenThere
  <2>3. after = [o EXCEPT !.gone = TRUE, !.path = <<>>]
    BY <1>2, <2>2 DEF after
  <2>4. [o EXCEPT !.gone = TRUE, !.path = <<>>] =
          [isOpen |-> TRUE, path |-> <<>>, gone |-> TRUE, append |-> f.append]
    <3>1. IsAt(o, p, f.append)
      BY <2>2 DEF IsAt
    <3>2. GoneFromThere(o, f.append)
      BY <3>1, OpenRecord
    <3> QED
      BY <3>2, Zenon DEF GoneFromThere
  <2>5. Seen(kept, P, f) = [isOpen |-> TRUE, path |-> <<>>, gone |-> TRUE, append |-> f.append]
    BY <2>1, SeenGone
  <2> QED
    BY <2>3, <2>4, <2>5 DEF f, kept, after
<1>7. CASE f.node \notin DOMAIN nodes /\ f # Closed
  <2>1. o = [isOpen |-> TRUE, path |-> <<>>, gone |-> TRUE, append |-> f.append]
    BY <1>1, <1>7, SeenGone
  <2>2. o.gone
    BY <2>1
  <2>3. after = o
    BY <1>2, <2>2 DEF after
  <2>4. f.node \notin DOMAIN kept
    BY <1>3, <1>7
  <2>5. Seen(kept, P, f) = [isOpen |-> TRUE, path |-> <<>>, gone |-> TRUE, append |-> f.append]
    BY <1>7, <2>4, SeenGone
  <2> QED
    BY <2>1, <2>3, <2>5 DEF f, kept, after
<1>8. CASE f = Closed
  <2>1. o = [isOpen |-> FALSE, path |-> <<>>, gone |-> FALSE, append |-> Closed.append]
    BY <1>1, <1>4, <1>8, SeenClosed
  <2>2. ~o.isOpen
    BY <2>1
  <2>3. after = o
    BY <1>2, <2>2 DEF after
  <2>4. Closed.node \notin DOMAIN kept
    BY <1>3, <1>4
  <2>5. Seen(kept, P, f) = [isOpen |-> FALSE, path |-> <<>>, gone |-> FALSE, append |-> Closed.append]
    BY <1>8, <2>4, SeenClosed
  <2> QED
    BY <2>1, <2>3, <2>5 DEF f, kept, after
<1> QED
  BY <1>3, <1>5, <1>6, <1>7, <1>8

LEMMA DeleteStep ==
  ASSUME Typing, NEW P, Viewed(P), view' = View(nodes', handles'), NEW p \in Paths, Delete(p)
  PROVE  p \in DOMAIN view.files /\ Files!Delete(p)
<1> DEFINE n == Lookup(p)
           Q == WithoutPath(P, n)
<1>0. Tree(nodes, P) /\ FilesAt(nodes, P, view.files) /\ p \in Seq(Names)
  BY PathsAreSequences DEF Viewed
<1>1. p # <<>> /\ handles' = handles
  BY DEF Delete
<1>2. /\ n \in DOMAIN nodes /\ P[n] = p /\ DOMAIN nodes[n].children = {}
      /\ Shrunk(nodes, {n}, nodes', Q)
  BY <1>0, DeletedTree
<1> HIDE DEF n
<1>3. /\ Tree(nodes', Q) /\ DOMAIN nodes' = DOMAIN nodes \ {n}
      /\ \A i \in DOMAIN nodes' : nodes'[i].data = nodes[i].data
  BY <1>2 DEF Shrunk
<1>4. DOMAIN P = DOMAIN nodes
  BY <1>0 DEF Tree, PathsAgree
<1>5. \A i \in DOMAIN nodes' : Q[i] = P[i]
  BY <1>3, <1>4 DEF WithoutPath
<1> HIDE DEF Q
<1>6. ViewedNext(Q)
  BY <1>3, ViewFollows
<1>7. Listed(nodes, P, view.files) /\ Listed(nodes', Q, view'.files)
  BY <1>0, <1>6, FilesAre DEF ViewedNext
<1>8. \A i \in DOMAIN nodes : i \in {n} <=> P[i] = p
  BY <1>0, <1>2, PathsDiffer
<1>9. p \in DOMAIN view.files
  BY <1>2, <1>7 DEF Listed
<1>10. Files!Childless(p)
  <2>1. ASSUME NEW q \in DOMAIN view.files, IsPrefix(p, q) PROVE p = q
    <3>1. PICK j \in DOMAIN nodes : q = P[j]
      BY <1>7 DEF Listed
    <3>2. j = n
      BY <1>0, <1>2, <2>1, <3>1, NothingBelow
    <3> QED
      BY <1>2, <3>1, <3>2
  <2> QED
    BY <2>1, SameOperators DEF Files!Childless
<1>11. view'.files = [q \in DOMAIN view.files \ {p} |-> view.files[q]]
  <2>1. DOMAIN view'.files = DOMAIN view.files \ {p}
    <3>1. ASSUME NEW q \in DOMAIN view'.files PROVE q \in DOMAIN view.files \ {p}
      <4>1. PICK i \in DOMAIN nodes' : q = Q[i]
        BY <1>7 DEF Listed
      <4>2. i \in DOMAIN nodes /\ q = P[i] /\ i # n
        BY <1>3, <1>5, <4>1
      <4> QED
        BY <1>7, <1>8, <4>2 DEF Listed
    <3>2. ASSUME NEW q \in DOMAIN view.files \ {p} PROVE q \in DOMAIN view'.files
      <4>1. PICK i \in DOMAIN nodes : q = P[i]
        BY <1>7 DEF Listed
      <4>2. i \in DOMAIN nodes' /\ q = Q[i]
        BY <1>2, <1>3, <1>5, <4>1
      <4> QED
        BY <1>7, <4>2 DEF Listed
    <3> QED
      BY <3>1, <3>2
  <2>2. ASSUME NEW q \in DOMAIN view'.files PROVE view'.files[q] = view.files[q]
    <3>1. PICK i \in DOMAIN nodes' : q = Q[i]
      BY <1>7 DEF Listed
    <3>2. i \in DOMAIN nodes /\ q = P[i]
      BY <1>3, <1>5, <3>1
    <3>3. view'.files[q] = nodes'[i].data
      BY <1>7, <3>1 DEF Listed
    <3>4. view.files[q] = nodes[i].data
      BY <1>7, <3>2 DEF Listed
    <3> QED
      BY <1>3, <3>1, <3>3, <3>4
  <2>3. view'.files = [q \in DOMAIN view'.files |-> view'.files[q]]
    BY <1>7 DEF Listed
  <2> QED
    BY <2>1, <2>2, <2>3
<1>12. view'.opened = Files!GoneFrom(p)
  <2>1. ASSUME NEW h \in Handles PROVE Seen(nodes', Q, handles'[h]) = Files!GoneFrom(p)[h]
    <3> DEFINE f == handles[h]
               kept == Without(nodes, {n})
    <3>1. Files!GoneFrom(p)[h] = Seen(kept, P, f)
      BY <1>2, <1>8, GoneSeen
    <3>2. DOMAIN kept = DOMAIN nodes'
      BY <1>3 DEF Without
    <3> HIDE DEF f, kept
    <3>3. Seen(kept, P, f) = Seen(nodes', Q, f)
      BY <1>5, <3>2, SeenSame
    <3> QED
      BY <1>1, <3>1, <3>3 DEF f
  <2>2. view'.opened = [h \in Handles |-> Seen(nodes', Q, handles'[h])]
    BY <1>6 DEF ViewedNext, OpenAt
  <2>3. Files!GoneFrom(p) = [h \in Handles |-> Files!GoneFrom(p)[h]]
    BY DEF Files!GoneFrom
  <2> QED
    BY <2>1, <2>2, <2>3, Zenon
<1>13. Files!Delete(p)
  BY <1>1, <1>10, <1>11, <1>12 DEF Files!Delete
<1> QED
  BY <1>9, <1>13

LEMMA ReplacedIs ==
  ASSUME NEW P, Tree(nodes, P), NEW p \in Seq(Names), p # <<>>, IsNode(LookupParent(p)),
         NEW i \in DOMAIN nodes
  PROVE  i \in Replaced(nodes, LookupParent(p), Last(p)) <=> P[i] = p
<1> DEFINE q == LookupParent(p)
<1>1. /\ q \in DOMAIN nodes /\ p = Append(P[q], Last(p))
      /\ Last(p) \in DOMAIN nodes[q].children => Lookup(p) = nodes[q].children[Last(p)]
      /\ Last(p) \notin DOMAIN nodes[q].children => Lookup(p) = NotFound
  BY ParentNode
<1> HIDE DEF q
<1>2. ASSUME i \in Replaced(nodes, q, Last(p)) PROVE P[i] = p
  <2>1. Last(p) \in DOMAIN nodes[q].children /\ i = nodes[q].children[Last(p)]
    BY <1>2 DEF Replaced
  <2> QED
    BY <1>1, <2>1 DEF Tree, PathsAgree
<1>3. ASSUME P[i] = p PROVE i \in Replaced(nodes, q, Last(p))
  <2>1. Lookup(p) = i
    BY <1>3, LookupPath
  <2>2. i # NotFound
    BY DEF Tree, Typed, NotFound
  <2> QED
    BY <1>1, <2>1, <2>2 DEF Replaced
<1> QED
  BY <1>2, <1>3 DEF q

(* Where open files are after a move: with the file that they are.         *)
MovedSeen(p, q, o) ==
  IF o.isOpen /\ ~o.gone THEN [o EXCEPT !.path = MovedPath(p, q, @)] ELSE o

MovedFiles(p, q) ==
  /\ p # <<>>
  /\ ~IsPrefix(p, q)
  /\ Files!IsFree(q) \/ (Files!Exists(q) /\ Files!Childless(q))
  /\ DOMAIN view'.files = {MovedPath(p, q, x) : x \in DOMAIN view.files \ {q}}
  /\ \A x \in DOMAIN view.files \ {q} : view'.files[MovedPath(p, q, x)] = view.files[x]
  /\ view'.opened = [h \in Handles |-> MovedSeen(p, q, Files!GoneFrom(q)[h])]

LEMMA MoveIs ==
  ASSUME NEW p, NEW q, MovedFiles(p, q)
  PROVE  Files!Move(p, q)
  BY DEF MovedFiles, MovedSeen, MovedPath, Files!Move, Files!IsPrefix, IsPrefix

LEMMA SeenMoved ==
  ASSUME NEW tree, NEW P, NEW new, NEW Q, NEW f, NEW from, NEW to,
         DOMAIN new = DOMAIN tree, Closed.node \notin DOMAIN tree,
         f.node \in DOMAIN tree => Q[f.node] = MovedPath(from, to, P[f.node])
  PROVE  MovedSeen(from, to, Seen(tree, P, f)) = Seen(new, Q, f)
<1> DEFINE o == Seen(tree, P, f)
           q == MovedPath(from, to, P[f.node])
<1>1. CASE f.node \in DOMAIN tree
  <2>1. f # Closed
    BY <1>1
  <2>2. o = [isOpen |-> TRUE, path |-> P[f.node], gone |-> FALSE, append |-> f.append]
    BY <1>1, <2>1, SeenThere
  <2>3. Seen(new, Q, f) = [isOpen |-> TRUE, path |-> Q[f.node], gone |-> FALSE, append |-> f.append]
    BY <1>1, <2>1, SeenThere
  <2> HIDE DEF o
  <2>4. o.isOpen /\ ~o.gone /\ o.path = P[f.node]
    BY <2>2
  <2>5. MovedSeen(from, to, o) = [o EXCEPT !.path = q]
    BY <2>4 DEF MovedSeen
  <2>6. IsAt(o, P[f.node], f.append)
    BY <2>2 DEF IsAt
  <2> HIDE DEF q
  <2>7. IsAt([o EXCEPT !.path = q], q, f.append)
    BY <2>6, OpenRecord
  <2>8. q = Q[f.node]
    BY <1>1 DEF q
  <2> QED
    BY <2>3, <2>5, <2>7, <2>8, Zenon DEF IsAt, o
<1>2. CASE f.node \notin DOMAIN tree /\ f # Closed
  <2>1. o = [isOpen |-> TRUE, path |-> <<>>, gone |-> TRUE, append |-> f.append]
    BY <1>2, SeenGone
  <2>2. Seen(new, Q, f) = [isOpen |-> TRUE, path |-> <<>>, gone |-> TRUE, append |-> f.append]
    BY <1>2, SeenGone
  <2> HIDE DEF o
  <2>3. o.gone
    BY <2>1
  <2>4. MovedSeen(from, to, o) = o
    BY <2>3 DEF MovedSeen
  <2> QED
    BY <2>1, <2>2, <2>4 DEF o
<1>3. CASE f = Closed
  <2>1. o = [isOpen |-> FALSE, path |-> <<>>, gone |-> FALSE, append |-> Closed.append]
    BY <1>3, SeenClosed
  <2>2. Seen(new, Q, f) = [isOpen |-> FALSE, path |-> <<>>, gone |-> FALSE, append |-> Closed.append]
    BY <1>3, SeenClosed
  <2> HIDE DEF o
  <2>3. ~o.isOpen
    BY <2>1
  <2>4. MovedSeen(from, to, o) = o
    BY <2>3 DEF MovedSeen
  <2> QED
    BY <2>1, <2>2, <2>4 DEF o
<1> QED
  BY <1>1, <1>2, <1>3

LEMMA RenameStep ==
  ASSUME Typing, NEW P, Viewed(P), view' = View(nodes', handles'),
         NEW from \in Existing, NEW to \in Paths, Rename(from, to)
  PROVE  from \in DOMAIN view.files /\ Files!Move(from, to)
<1> DEFINE n == Lookup(from)
           parent == LookupParent(to)
           name == Last(to)
           gone == Replaced(nodes, parent, name)
           Q == MovedPaths(nodes, P, n, parent, name)
           kept == Without(nodes, gone)
<1>0. Tree(nodes, P) /\ FilesAt(nodes, P, view.files) /\ to \in Seq(Names)
  BY PathsAreSequences DEF Viewed
<1>1. IsNode(parent) /\ handles' = handles
  BY DEF Rename
<1>2. /\ from \in Seq(Names) /\ from # <<>> /\ to # <<>> /\ ~IsPrefix(from, to)
      /\ n \in DOMAIN nodes /\ P[n] = from
      /\ parent \in DOMAIN nodes
      /\ to = Append(P[parent], name)
      /\ name \in DOMAIN nodes[parent].children => DOMAIN nodes[nodes[parent].children[name]].children = {}
      /\ Shrunk(nodes, gone, nodes', Q)
  BY <1>0, RenamedTree
<1>3. \A i \in DOMAIN nodes : i \in gone <=> P[i] = to
  BY <1>0, <1>1, <1>2, ReplacedIs
<1>4. gone \in SUBSET DOMAIN nodes
  BY <1>0, <1>2 DEF Replaced, Tree, Linked
<1>5. name \notin DOMAIN nodes[parent].children => Files!IsFree(to)
  BY <1>0, <1>1, <1>2, PlaceIsFree
<1>6. \A i \in DOMAIN nodes \ gone : Q[i] = MovedPath(from, to, P[i])
  BY <1>2 DEF MovedPaths
<1>7. name \in DOMAIN nodes[parent].children =>
        nodes[parent].children[name] \in gone
  BY DEF Replaced
<1> HIDE DEF n, parent, name, gone, Q
<1>8. /\ Tree(nodes', Q) /\ DOMAIN nodes' = DOMAIN nodes \ gone
      /\ \A i \in DOMAIN nodes' : nodes'[i].data = nodes[i].data
  BY <1>2 DEF Shrunk
<1>9. ViewedNext(Q)
  BY <1>8, ViewFollows
<1>10. Listed(nodes, P, view.files) /\ Listed(nodes', Q, view'.files)
  BY <1>0, <1>9, FilesAre DEF ViewedNext
<1>11. from \in DOMAIN view.files
  BY <1>2, <1>10 DEF Listed
<1>12. Files!IsFree(to) \/ (Files!Exists(to) /\ Files!Childless(to))
  <2>1. CASE name \notin DOMAIN nodes[parent].children
    BY <1>5, <2>1
  <2>2. CASE name \in DOMAIN nodes[parent].children
    <3> DEFINE r == nodes[parent].children[name]
    <3>1. r \in DOMAIN nodes /\ P[r] = to /\ DOMAIN nodes[r].children = {}
      BY <1>2, <1>3, <1>4, <1>7, <2>2
    <3> HIDE DEF r
    <3>2. Files!Exists(to)
      BY <1>10, <3>1 DEF Listed, Files!Exists
    <3>3. ASSUME NEW q \in DOMAIN view.files, IsPrefix(to, q) PROVE to = q
      <4>1. PICK j \in DOMAIN nodes : q = P[j]
        BY <1>10 DEF Listed
      <4>2. j = r
        BY <1>0, <3>1, <3>3, <4>1, NothingBelow
      <4> QED
        BY <3>1, <4>1, <4>2
    <3>4. Files!Childless(to)
      BY <3>3, SameOperators DEF Files!Childless
    <3> QED
      BY <3>2, <3>4
  <2> QED
    BY <2>1, <2>2
<1>13. ASSUME NEW i \in DOMAIN nodes'
       PROVE  /\ P[i] \in DOMAIN view.files \ {to}
              /\ Q[i] = MovedPath(from, to, P[i])
              /\ view'.files[Q[i]] = view.files[P[i]]
  <2>1. i \in DOMAIN nodes /\ i \notin gone
    BY <1>8
  <2>2. P[i] \in DOMAIN view.files /\ view.files[P[i]] = nodes[i].data
    BY <1>10, <2>1 DEF Listed
  <2>3. view'.files[Q[i]] = nodes'[i].data
    BY <1>10 DEF Listed
  <2> QED
    BY <1>3, <1>6, <1>8, <2>1, <2>2, <2>3
<1>14. ASSUME NEW x \in DOMAIN view.files \ {to} PROVE \E i \in DOMAIN nodes' : x = P[i]
  <2>1. PICK i \in DOMAIN nodes : x = P[i]
    BY <1>10 DEF Listed
  <2>2. i \in DOMAIN nodes'
    BY <1>3, <1>8, <2>1
  <2> QED
    BY <2>1, <2>2
<1>15. DOMAIN view'.files = {MovedPath(from, to, x) : x \in DOMAIN view.files \ {to}}
  <2>1. DOMAIN view'.files = {Q[i] : i \in DOMAIN nodes'}
    BY <1>10 DEF Listed
  <2>2. ASSUME NEW q \in DOMAIN view'.files
        PROVE  \E x \in DOMAIN view.files \ {to} : q = MovedPath(from, to, x)
    BY <1>13, <2>1
  <2>3. ASSUME NEW x \in DOMAIN view.files \ {to} PROVE MovedPath(from, to, x) \in DOMAIN view'.files
    BY <1>13, <1>14, <2>1
  <2> QED
    BY <2>2, <2>3
<1>16. \A x \in DOMAIN view.files \ {to} : view'.files[MovedPath(from, to, x)] = view.files[x]
  BY <1>13, <1>14
<1>17. view'.opened = [h \in Handles |-> MovedSeen(from, to, Files!GoneFrom(to)[h])]
  <2>1. ASSUME NEW h \in Handles
        PROVE  Seen(nodes', Q, handles'[h]) = MovedSeen(from, to, Files!GoneFrom(to)[h])
    <3> DEFINE f == handles[h]
    <3>1. Files!GoneFrom(to)[h] = Seen(kept, P, f)
      BY <1>3, <1>4, GoneSeen
    <3>2. DOMAIN kept = DOMAIN nodes' /\ Closed.node \notin DOMAIN kept
      BY <1>0, <1>8, NotOpen DEF Without
    <3>3. f.node \in DOMAIN kept => Q[f.node] = MovedPath(from, to, P[f.node])
      BY <1>13, <3>2
    <3> HIDE DEF f, kept
    <3>4. MovedSeen(from, to, Seen(kept, P, f)) = Seen(nodes', Q, f)
      BY <3>2, <3>3, SeenMoved
    <3> QED
      BY <1>1, <3>1, <3>4 DEF f
  <2>2. view'.opened = [h \in Handles |-> Seen(nodes', Q, handles'[h])]
    BY <1>9 DEF ViewedNext, OpenAt
  <2> QED
    BY <2>1, <2>2, Zenon
<1>18. MovedFiles(from, to)
  BY <1>2, <1>12, <1>15, <1>16, <1>17 DEF MovedFiles
<1> QED
  BY <1>11, <1>18, MoveIs

LEMMA PathsInit ==
  ASSUME ViewInit
  PROVE  Files!Init
<1> DEFINE P == [i \in {RootId} |-> <<>>]
<1>1. Tree(nodes, P) /\ Init /\ view = View(nodes, handles)
  BY InitTree DEF ViewInit
<1> HIDE DEF P
<1>2. FilesAt(nodes, P, view.files) /\ OpenAt(nodes, P, handles, view.opened)
  BY <1>1, ViewIs
<1> USE DEF P
<1>3. DOMAIN nodes = {RootId} /\ nodes[RootId].data = NewDir /\ P[RootId] = <<>>
  BY <1>1 DEF Init, NewNode
<1> HIDE DEF P
<1>4. Listed(nodes, P, view.files)
  BY <1>2, FilesAre
<1>5. DOMAIN view.files = {<<>>} /\ view.files[<<>>] = NewDir
      /\ view.files = [p \in DOMAIN view.files |-> view.files[p]]
  BY <1>3, <1>4 DEF Listed
<1>6. view.files = [p \in {<<>>} |-> Files!Directory]
  BY <1>5 DEF Files!Directory, NewDir
<1>7. ASSUME NEW h \in Handles PROVE Seen(nodes, P, handles[h]) = Files!Closed
  <2>1. handles[h] = Closed /\ Closed.node \notin DOMAIN nodes
    BY <1>1, NotOpen DEF Init
  <2>2. Seen(nodes, P, Closed) =
          [isOpen |-> FALSE, path |-> <<>>, gone |-> FALSE, append |-> Closed.append]
    BY <2>1, SeenClosed
  <2> QED
    BY <2>1, <2>2 DEF Files!Closed, Closed
<1>8. view.opened = [h \in Handles |-> Files!Closed]
  BY <1>2, <1>7, Zenon DEF OpenAt
<1> QED
  BY <1>6, <1>8 DEF Files!Init

LEMMA PathsStep ==
  ASSUME TreeInv, view = View(nodes, handles), [ViewNext]_<<vars, view>>
  PROVE  [Files!Next]_(Files!vars)
<1>1. PICK P : Tree(nodes, P)
  BY DEF TreeInv
<1>2. Typing
  BY DEF TreeInv
<1>3. Viewed(P)
  BY <1>1, ViewIs DEF Viewed
<1>4. CASE UNCHANGED <<vars, view>>
  BY <1>4 DEF Files!vars
<1>5. CASE ViewNext
  <2>0. Next /\ view' = View(nodes', handles')
    BY <1>5 DEF ViewNext
  <2>1. ASSUME NEW p \in Paths, CreateDir(p) PROVE Files!Next
    BY <1>2, <1>3, <2>0, <2>1, CreateDirStep DEF Files!Next
  <2>2. ASSUME NEW p \in Paths, Delete(p) PROVE Files!Next
    BY <1>2, <1>3, <2>0, <2>2, DeleteStep DEF Files!Next
  <2>3. ASSUME NEW from \in Existing, NEW to \in Paths, Rename(from, to) PROVE Files!Next
    BY <1>2, <1>3, <2>0, <2>3, RenameStep DEF Files!Next
  <2>4. ASSUME NEW from \in Existing, NEW to \in Paths, CopyOver(from, to) PROVE Files!Next
    BY <1>2, <1>3, <2>0, <2>4, CopyOverStep DEF Files!Next
  <2>5. ASSUME NEW from \in Existing, NEW to \in Paths, CopyNew(from, to) PROVE Files!Next
    BY <1>2, <1>3, <2>0, <2>5, CopyNewStep DEF Files!Next
  <2>6. ASSUME NEW h \in Handles, NEW p \in Paths, NEW truncate \in BOOLEAN, NEW append \in BOOLEAN,
               OpenExisting(h, p, truncate, append)
        PROVE  Files!Next
    BY <1>2, <1>3, <2>0, <2>6, OpenExistingStep DEF Files!Next
  <2>7. ASSUME NEW h \in Handles, NEW p \in Paths, NEW append \in BOOLEAN, OpenNew(h, p, append)
        PROVE  Files!Next
    BY <1>2, <1>3, <2>0, <2>7, OpenNewStep DEF Files!Next
  <2>8. ASSUME NEW h \in Handles, NEW b \in Bytes, Write(h, b) PROVE Files!Next
    BY <1>2, <1>3, <2>0, <2>8, WriteStep DEF Files!Next
  <2>9. ASSUME NEW h \in Handles, Close(h) PROVE Files!Next
    BY <1>2, <1>3, <2>0, <2>9, CloseStep DEF Files!Next
  <2>10. ASSUME NEW h \in Handles, Read(h, 1) \/ Seek(h) PROVE UNCHANGED Files!vars
    BY <1>2, <1>3, <2>0, <2>10, ReadStep, SeekStep DEF Files!vars
  <2> QED
    BY <2>0, <2>1, <2>2, <2>3, <2>4, <2>5, <2>6, <2>7, <2>8, <2>9, <2>10 DEF Next
<1> QED
  BY <1>4, <1>5

(* The tree of ids is a file system of paths: each request is one step of  *)
(* PathFiles or changes nothing that a client sees.  A rename takes the    *)
(* paths below and the open files along, a handle keeps the file that it   *)
(* opened, and the handle of a removed or replaced file finds none.        *)
THEOREM PathsImplemented == ViewSpec => ImplementsPaths
<1> DEFINE Inv == TreeInv /\ view = View(nodes, handles)
<1>1. ViewInit => Inv
  BY InitTree DEF ViewInit
<1>2. Inv /\ [ViewNext]_<<vars, view>> => Inv'
  <2> SUFFICES ASSUME Inv, [ViewNext]_<<vars, view>> PROVE Inv'
    OBVIOUS
  <2>1. [Next]_vars /\ view' = View(nodes', handles')
    <3>1. CASE ViewNext
      BY <3>1 DEF ViewNext
    <3>2. CASE UNCHANGED <<vars, view>>
      BY <3>2 DEF vars
    <3> QED
      BY <3>1, <3>2
  <2>2. TreeInv'
    BY <2>1, TreeInvStep
  <2> QED
    BY <2>1, <2>2
<1>3. ViewInit => Files!Init
  BY PathsInit
<1>4. Inv /\ [ViewNext]_<<vars, view>> => [Files!Next]_(Files!vars)
  BY PathsStep
<1> HIDE DEF Inv
<1> QED
  BY <1>1, <1>2, <1>3, <1>4, PTL DEF ViewSpec, ImplementsPaths, Files!Spec
===============================================================================
