---------------------------- MODULE FsCursorProofs ----------------------------
(***************************************************************************)
(* Proofs about FsIndex and FsCursor, for listings, names and folders of   *)
(* any number: what the builder makes of a listing, what a cursor keeps    *)
(* besides its position, and that a path is found from anywhere.           *)
(***************************************************************************)
EXTENDS FsCursor, FiniteSetTheorems, SequenceTheorems, WellFoundedInduction, TLAPS

-------------------------------------------------------------------------------
(* Induction: of the numbers with a property one is the least.             *)
LEMMA LeastNumber ==
  ASSUME NEW T \in SUBSET Nat, T # {}
  PROVE  \E m \in T : \A k \in T : m <= k
<1> DEFINE UpTo(m) == 0..m
           Tops == {UpTo(m) : m \in T}
<1>1. Tops \subseteq FiniteSubsetsOf(Nat)
  <2> SUFFICES ASSUME NEW m \in T PROVE UpTo(m) \in FiniteSubsetsOf(Nat)
    OBVIOUS
  <2>1. IsFiniteSet(0..m)
    BY FS_Interval
  <2> QED
    BY <2>1 DEF FiniteSubsetsOf
<1>2. Tops # {}
  OBVIOUS
<1>3. IsWellFoundedOn(StrictSubsetOrdering(Nat), FiniteSubsetsOf(Nat))
  BY FS_StrictSubsetOrderingWellFounded
<1> HIDE DEF Tops
<1>4. PICK top \in Tops : \A other \in Tops : <<other, top>> \notin StrictSubsetOrdering(Nat)
  BY <1>1, <1>2, <1>3, WFMin
<1>5. PICK m \in T : top = UpTo(m)
  BY <1>4 DEF Tops
<1>6. ASSUME NEW k \in T, k < m PROVE FALSE
  <2>1. UpTo(k) \in Tops
    BY DEF Tops
  <2>2. /\ UpTo(k) \in SUBSET Nat /\ UpTo(m) \in SUBSET Nat
        /\ UpTo(k) \subseteq UpTo(m) /\ UpTo(k) # UpTo(m)
    BY <1>6
  <2>3. <<UpTo(k), top>> \in StrictSubsetOrdering(Nat)
    BY <2>2, <1>5 DEF StrictSubsetOrdering
  <2> QED
    BY <2>1, <2>3, <1>4
<1> QED
  BY <1>5, <1>6

(* What holds for 0 and, with n, for n + 1 holds up to any bound.          *)
LEMMA Induction ==
  ASSUME NEW max \in Nat, NEW T \in SUBSET Nat, 0 \in T,
         \A n \in Nat : n < max /\ n \in T => n + 1 \in T
  PROVE  \A n \in 0..max : n \in T
<1> DEFINE Rest == {n \in 0..max : n \notin T}
<1> SUFFICES ASSUME Rest # {} PROVE FALSE
  OBVIOUS
<1>1. PICK m \in Rest : \A k \in Rest : m <= k
  <2>1. Rest \in SUBSET Nat
    OBVIOUS
  <2> HIDE DEF Rest
  <2> QED
    BY <2>1, LeastNumber
<1>2. m # 0
  BY <1>1
<1>3. m - 1 \in Nat /\ m - 1 < max /\ m - 1 \notin Rest
  BY <1>1, <1>2
<1>4. m - 1 \in T
  BY <1>3
<1>5. (m - 1) + 1 \in T
  BY <1>3, <1>4
<1> QED
  BY <1>1, <1>5

-------------------------------------------------------------------------------
(* Sequences: all but the last, the last, and prefixes.                    *)
LEMMA FrontLast ==
  ASSUME NEW S, NEW p \in Seq(S), p # <<>>
  PROVE  /\ Len(p) \in Nat \ {0}
         /\ Front(p) \in Seq(S)
         /\ Len(Front(p)) = Len(p) - 1
         /\ \A i \in 1..Len(p) - 1 : Front(p)[i] = p[i]
         /\ Last(p) \in S
         /\ Last(p) = p[Len(p)]
         /\ p = Append(Front(p), Last(p))
<1>1. Len(p) \in Nat \ {0}
  OBVIOUS
<1>2. /\ Front(p) \in Seq(S)
      /\ Len(Front(p)) = Len(p) - 1
      /\ \A i \in 1..Len(p) - 1 : Front(p)[i] = p[i]
  <2>1. \A i \in 1..Len(p) - 1 : p[i] \in S
    BY <1>1
  <2>2. /\ Front(p) \in Seq(S)
        /\ Len(Front(p)) = IF 1 <= Len(p) - 1 THEN Len(p) - 1 - 1 + 1 ELSE 0
        /\ \A i \in 1..Len(p) - 1 - 1 + 1 : Front(p)[i] = p[1 + i - 1]
    BY <2>1, <1>1, SubSeqProperties, 1 \in Int, Len(p) - 1 \in Int DEF Front
  <2> DEFINE n == Len(p)
             front == Front(p)
  <2>3. n \in Nat \ {0} /\ Len(front) = (IF 1 <= n - 1 THEN n - 1 - 1 + 1 ELSE 0)
    BY <2>2, <1>1
  <2>4. \A i \in 1..n - 1 : front[i] = p[i]
    <3> SUFFICES ASSUME NEW i \in 1..n - 1 PROVE front[i] = p[i]
      OBVIOUS
    <3>1. i \in 1..n - 1 - 1 + 1 /\ 1 + i - 1 = i
      BY <1>1
    <3> QED
      BY <2>2, <3>1
  <2> HIDE DEF n, front
  <2>5. Len(front) = n - 1
    BY <2>3
  <2> QED
    BY <2>2, <2>4, <2>5 DEF n, front
<1>3. Last(p) \in S /\ Last(p) = p[Len(p)]
  BY <1>1 DEF Last
<1>4. p = Append(Front(p), Last(p))
  BY <1>1, <1>2, <1>3
<1> QED
  BY <1>1, <1>2, <1>3, <1>4

LEMMA Appended ==
  ASSUME NEW S, NEW p \in Seq(S), NEW e \in S
  PROVE  /\ Append(p, e) \in Seq(S)
         /\ Append(p, e) # <<>>
         /\ Front(Append(p, e)) = p
         /\ Last(Append(p, e)) = e
         /\ Len(Append(p, e)) = Len(p) + 1
         /\ \A i \in 1..Len(p) : Append(p, e)[i] = p[i]
         /\ Append(p, e)[Len(p) + 1] = e
  BY DEF Front, Last
-------------------------------------------------------------------------------
(* Of some of the numbers up to a bound one is the greatest.               *)
LEMMA GreatestNumber ==
  ASSUME NEW max \in Nat, NEW T \in SUBSET (0..max), T # {}
  PROVE  Max(T) \in T /\ \A k \in T : k <= Max(T)
<1> DEFINE U == {max - k : k \in T}
<1>1. U \in SUBSET Nat /\ U # {}
  <2>1. \A k \in T : max - k \in Nat
    OBVIOUS
  <2>2. PICK k \in T : TRUE
    OBVIOUS
  <2> QED
    BY <2>1, <2>2
<1> HIDE DEF U
<1>2. PICK u \in U : \A k \in U : u <= k
  BY <1>1, LeastNumber
<1>3. max - u \in T /\ \A k \in T : k <= max - u
  <2>1. PICK m \in T : u = max - m
    BY <1>2 DEF U
  <2>2. ASSUME NEW k \in T PROVE k <= m
    <3>1. max - k \in U
      BY DEF U
    <3>2. max - m <= max - k /\ k \in 0..max /\ m \in 0..max
      BY <1>2, <2>1, <3>1
    <3> QED
      BY <3>2
  <2>3. max - u = m
    BY <2>1
  <2> QED
    BY <2>2, <2>3
<1>4. \E x \in T : \A y \in T : x >= y
  BY <1>3
<1>5. Max(T) \in T /\ \A y \in T : Max(T) >= y
  BY <1>4 DEF Max
<1> QED
  BY <1>5

LEMMA SmallestNumber ==
  ASSUME NEW T \in SUBSET Nat, T # {}
  PROVE  Min(T) \in T /\ \A k \in T : Min(T) <= k
<1>1. \E x \in T : \A y \in T : x <= y
  BY LeastNumber
<1> QED
  BY <1>1 DEF Min

-------------------------------------------------------------------------------
(* The sort only moves the children.                                       *)

(* The place that each child has before and after the sort.                *)
Before(s, i) == {j \in DOMAIN s : \/ Precedes(s[j], s[i])
                                  \/ ~Precedes(s[i], s[j]) /\ j < i}

LEMMA BeforeOrder ==
  ASSUME NEW s \in Seq(Child)
  PROVE  /\ \A i \in DOMAIN s : i \notin Before(s, i)
         /\ \A i, j \in DOMAIN s : i # j => i \in Before(s, j) \/ j \in Before(s, i)
         /\ \A i, j \in DOMAIN s : i \in Before(s, j) => Before(s, i) \subseteq Before(s, j)
<1> DEFINE D(i) == s[i].isDir
           R(i) == Rank[s[i].name]
           P(i, j) == (D(i) /\ ~D(j)) \/ (D(i) = D(j) /\ R(i) < R(j))
<1>1. ASSUME NEW i \in DOMAIN s PROVE D(i) \in BOOLEAN /\ R(i) \in Nat /\ i \in Nat
  <2>1. s[i] \in Child
    OBVIOUS
  <2>2. s[i].isDir \in BOOLEAN /\ s[i].name \in Names
    BY <2>1 DEF Child
  <2> QED
    BY <2>2, IndexAssumption
<1>2. ASSUME NEW i \in DOMAIN s, NEW j \in DOMAIN s
      PROVE  i \in Before(s, j) <=> P(i, j) \/ (~P(j, i) /\ i < j)
  BY DEF Before, Precedes
<1> HIDE DEF D, R
<1>3. \A i \in DOMAIN s : i \notin Before(s, i)
  BY <1>1, <1>2
<1>4. \A i, j \in DOMAIN s : i # j => i \in Before(s, j) \/ j \in Before(s, i)
  BY <1>1, <1>2
<1>5. ASSUME NEW i \in DOMAIN s, NEW j \in DOMAIN s, i \in Before(s, j),
             NEW k \in Before(s, i)
      PROVE  k \in Before(s, j)
  <2>1. k \in DOMAIN s
    BY DEF Before
  <2>2. /\ P(i, j) \/ (~P(j, i) /\ i < j)
        /\ P(k, i) \/ (~P(i, k) /\ k < i)
    BY <1>2, <1>5, <2>1
  <2>3. P(k, j) \/ (~P(j, k) /\ k < j)
    BY <1>1, <2>1, <2>2
  <2> QED
    BY <1>2, <2>1, <2>3
<1> QED
  BY <1>3, <1>4, <1>5

(* How many children come before one is a place that no other one has.     *)
LEMMA SortedMoves ==
  ASSUME NEW s \in Seq(Child)
  PROVE  /\ Sorted(s) \in Seq(Child)
         /\ Len(Sorted(s)) = Len(s)
         /\ \A k \in 1..Len(s) : \E i \in 1..Len(s) : Sorted(s)[k] = s[i]
         /\ \A i \in 1..Len(s) : \E k \in 1..Len(s) : Sorted(s)[k] = s[i]
<1> DEFINE n == Len(s)
           I == 1..n
           place == [i \in I |-> Cardinality(Before(s, i)) + 1]
<1>1. n \in Nat /\ DOMAIN s = I
  OBVIOUS
<1>2. IsFiniteSet(I) /\ Cardinality(I) = n
  BY <1>1, FS_Interval
<1>3. ASSUME NEW i \in I
      PROVE  /\ Before(s, i) \subseteq I /\ IsFiniteSet(Before(s, i))
             /\ Cardinality(Before(s, i)) \in Nat
             /\ Cardinality(Before(s, i)) < n
  <2>1. Before(s, i) \subseteq I /\ i \notin Before(s, i)
    BY <1>1, BeforeOrder DEF Before
  <2>2. /\ IsFiniteSet(Before(s, i)) /\ Cardinality(Before(s, i)) <= n
        /\ (n = Cardinality(Before(s, i)) => I = Before(s, i))
    BY <2>1, <1>2, FS_Subset
  <2>3. Cardinality(Before(s, i)) \in Nat
    BY <2>2, FS_CardinalityType
  <2> QED
    BY <2>1, <2>2, <2>3, <1>1
<1>4. place \in [I -> I]
  BY <1>1, <1>3
<1>5. ASSUME NEW i \in I, NEW j \in I, i \in Before(s, j)
      PROVE  Cardinality(Before(s, i)) < Cardinality(Before(s, j))
  <2>1. Before(s, i) \subseteq Before(s, j) /\ i \notin Before(s, i)
    BY <1>1, <1>5, BeforeOrder
  <2>2. /\ Cardinality(Before(s, i)) <= Cardinality(Before(s, j))
        /\ (Cardinality(Before(s, j)) = Cardinality(Before(s, i)) => Before(s, j) = Before(s, i))
    BY <2>1, <1>3, FS_Subset
  <2> QED
    BY <2>1, <2>2, <1>3, <1>5
<1>6. \A i, j \in I : place[i] = place[j] => i = j
  <2> SUFFICES ASSUME NEW i \in I, NEW j \in I, i # j PROVE place[i] # place[j]
    OBVIOUS
  <2>1. Cardinality(Before(s, i)) # Cardinality(Before(s, j))
    BY <1>1, <1>3, <1>5, BeforeOrder
  <2> QED
    BY <2>1, <1>3
<1> HIDE DEF place
<1>7. place \in Injection(I, I)
  BY <1>4, <1>6 DEF Injection, IsInjective
<1>8. place \in Surjection(I, I)
  BY <1>2, <1>7, FS_Injection
<1>9. \A k \in I : \E i \in I : place[i] = k
  BY <1>8 DEF Surjection
<1> DEFINE from(k) == CHOOSE i \in DOMAIN s : Cardinality(Before(s, i)) = k - 1
<1>10. Sorted(s) = [k \in DOMAIN s |-> s[from(k)]]
  BY DEF Sorted, Before
<1>11. ASSUME NEW i \in I, NEW k \in I
       PROVE  place[i] = k <=> Cardinality(Before(s, i)) = k - 1
  BY <1>1, <1>3 DEF place
<1>12. ASSUME NEW k \in I PROVE from(k) \in I /\ place[from(k)] = k
  <2>1. PICK i \in I : place[i] = k
    BY <1>9
  <2>2. \E j \in DOMAIN s : Cardinality(Before(s, j)) = k - 1
    BY <2>1, <1>1, <1>11
  <2>3. from(k) \in I /\ Cardinality(Before(s, from(k))) = k - 1
    BY <2>2, <1>1
  <2> HIDE DEF from
  <2> QED
    BY <2>3, <1>11
<1>13. ASSUME NEW i \in I PROVE place[i] \in I /\ from(place[i]) = i
  <2>1. place[i] \in I
    BY <1>4
  <2>2. from(place[i]) \in I /\ place[from(place[i])] = place[i]
    BY <2>1, <1>12
  <2> HIDE DEF from
  <2> QED
    BY <2>1, <2>2, <1>6
<1> HIDE DEF from
<1>14. Sorted(s) \in Seq(Child) /\ Len(Sorted(s)) = n
  <2>1. \A k \in I : s[from(k)] \in Child
    BY <1>1, <1>12
  <2>2. Sorted(s) \in [1..n -> Child]
    BY <2>1, <1>1, <1>10
  <2> QED
    BY <2>2, <1>1
<1>15. \A k \in I : Sorted(s)[k] = s[from(k)]
  BY <1>1, <1>10
<1>16. \A k \in I : \E i \in I : Sorted(s)[k] = s[i]
  BY <1>12, <1>15
<1>17. \A i \in I : \E k \in I : Sorted(s)[k] = s[i]
  <2> SUFFICES ASSUME NEW i \in I PROVE \E k \in I : Sorted(s)[k] = s[i]
    OBVIOUS
  <2>1. Sorted(s)[place[i]] = s[i]
    BY <1>13, <1>15
  <2> QED
    BY <2>1, <1>13
<1> HIDE DEF n
<1> QED
  BY <1>14, <1>16, <1>17 DEF n
-------------------------------------------------------------------------------
(* Folders that are being read, and what becomes of their records.         *)
Folder == [name : Names \cup {"root"}, info : Info, children : Seq(Child)]
Entry == [info : Info, children : Seq(Child)]

LEMMA FolderFields ==
  ASSUME NEW f \in Folder
  PROVE  /\ f.name \in Names \cup {"root"}
         /\ f.info \in Info
         /\ f.children \in Seq(Child)
         /\ f.info.isDir \in BOOLEAN /\ f.info.size \in Nat
         /\ f.info.files \in Nat /\ f.info.folders \in Nat
         /\ f = [name |-> f.name, info |-> f.info, children |-> f.children]
BY DEF Folder, Info

LEMMA EntryFields ==
  ASSUME NEW e \in Entry
  PROVE  /\ e.info \in Info
         /\ e.children \in Seq(Child)
         /\ e.info.isDir \in BOOLEAN /\ e.info.size \in Nat
BY DEF Entry, Info

(* The fields of a record of the listing.                                  *)
LEMMA RecordFields ==
  ASSUME NEW S, NEW r \in Records(S)
  PROVE  /\ r.path \in S /\ r.isDir \in BOOLEAN /\ r.size \in Nat
         /\ r.files \in Nat /\ r.folders \in Nat
         /\ InfoOf(r) \in Info /\ InfoOf(r).isDir = r.isDir
<1> DEFINE Dirs == [path : S, isDir : {TRUE}, size : Sizes, files : Counts, folders : Counts]
           Files == [path : S, isDir : {FALSE}, size : Sizes, files : {0}, folders : {0}]
<1>1. r \in Dirs \/ r \in Files
  BY DEF Records
<1>2. Sizes \subseteq Nat /\ Counts \subseteq Nat
  BY IndexAssumption
<1>3. ASSUME r \in Dirs
      PROVE  /\ r.path \in S /\ r.isDir \in BOOLEAN /\ r.size \in Nat
             /\ r.files \in Nat /\ r.folders \in Nat
  <2>1. /\ r.path \in S /\ r.isDir \in BOOLEAN /\ r.size \in Sizes
        /\ r.files \in Counts /\ r.folders \in Counts
    BY <1>3
  <2> HIDE DEF Dirs, Files
  <2> QED
    BY <2>1, <1>2
<1>4. ASSUME r \in Files
      PROVE  /\ r.path \in S /\ r.isDir \in BOOLEAN /\ r.size \in Nat
             /\ r.files \in Nat /\ r.folders \in Nat
  <2>1. /\ r.path \in S /\ r.isDir \in BOOLEAN /\ r.size \in Sizes
        /\ r.files = 0 /\ r.folders = 0
    BY <1>4
  <2> HIDE DEF Dirs, Files
  <2>2. r.size \in Nat
    BY <2>1, <1>2
  <2>3. r.isDir \in BOOLEAN
    BY <2>1
  <2> QED
    BY <2>1, <2>2, <2>3, SMT
<1> HIDE DEF Dirs, Files
<1>5. /\ r.path \in S /\ r.isDir \in BOOLEAN /\ r.size \in Nat
      /\ r.files \in Nat /\ r.folders \in Nat
  BY <1>1, <1>3, <1>4
<1>6. InfoOf(r) \in Info /\ InfoOf(r).isDir = r.isDir
  BY <1>5 DEF InfoOf, Info
<1> QED
  BY <1>5, <1>6

(* A folder with one more child is the same folder otherwise.              *)
LEMMA EnlargedInfo ==
  ASSUME NEW i \in Info, NEW by, by.size \in Nat
  PROVE  Enlarged(i, by) \in Info /\ Enlarged(i, by).isDir = i.isDir
BY DEF Enlarged, Info

LEMMA WithChildFields ==
  ASSUME NEW f \in Folder, NEW by, by.size \in Nat, NEW child \in Child
  PROVE  /\ WithChild(f, by, child) \in Folder
         /\ WithChild(f, by, child).name = f.name
         /\ WithChild(f, by, child).children = Append(f.children, child)
         /\ WithChild(f, by, child).info.isDir = f.info.isDir
<1> PICK name, info, children :
      /\ f = [name |-> name, info |-> info, children |-> children]
      /\ name = f.name /\ info = f.info /\ children = f.children
  BY FolderFields
<1>1. info \in Info /\ children \in Seq(Child) /\ name \in Names \cup {"root"}
  BY FolderFields
<1>2. PICK enlarged : enlarged = Enlarged(info, by)
  OBVIOUS
<1>3. enlarged \in Info /\ enlarged.isDir = info.isDir
  BY <1>1, <1>2, EnlargedInfo
<1>4. PICK more : more = Append(children, child)
  OBVIOUS
<1>5. more \in Seq(Child)
  BY <1>1, <1>4
<1>6. WithChild(f, by, child) = [f EXCEPT !.info = enlarged, !.children = more]
  BY <1>2, <1>4 DEF WithChild
<1>7. WithChild(f, by, child) = [name |-> name, info |-> enlarged, children |-> more]
  BY <1>6
<1>8. [name |-> name, info |-> enlarged, children |-> more] \in Folder
  BY <1>1, <1>3, <1>5 DEF Folder
<1> QED
  BY <1>3, <1>4, <1>7, <1>8

(* Folders that differ in counts and sizes only.                           *)
LEMMA CountedFolders ==
  ASSUME parents \in Seq(Folder), NEW r
  PROVE  /\ Counted(r) \in Seq(Folder)
         /\ Len(Counted(r)) = Len(parents)
         /\ \A i \in 1..Len(parents) :
              /\ Counted(r)[i].name = parents[i].name
              /\ Counted(r)[i].children = parents[i].children
              /\ Counted(r)[i].info.isDir = parents[i].info.isDir
<1> DEFINE one(i) == IF r.isDir THEN [parents[i] EXCEPT !.info.folders = @ + 1]
                     ELSE [parents[i] EXCEPT !.info.files = @ + 1]
<1>1. DOMAIN parents = 1..Len(parents) /\ Len(parents) \in Nat
  OBVIOUS
<1>2. ASSUME NEW i \in 1..Len(parents)
      PROVE  /\ one(i) \in Folder
             /\ one(i).name = parents[i].name
             /\ one(i).children = parents[i].children
             /\ one(i).info.isDir = parents[i].info.isDir
  <2>1. parents[i] \in Folder
    BY <1>1
  <2>2. PICK f : f = parents[i] /\ f \in Folder
    BY <2>1
  <2>3. PICK name, info, children :
          /\ f = [name |-> name, info |-> info, children |-> children]
          /\ name \in Names \cup {"root"} /\ info \in Info /\ children \in Seq(Child)
    BY <2>2, FolderFields
  <2>4. /\ [info EXCEPT !.folders = @ + 1] \in Info
        /\ [info EXCEPT !.files = @ + 1] \in Info
        /\ [info EXCEPT !.folders = @ + 1].isDir = info.isDir
        /\ [info EXCEPT !.files = @ + 1].isDir = info.isDir
    BY <2>3 DEF Info
  <2>6. PICK dirs, files :
          dirs = [info EXCEPT !.folders = @ + 1] /\ files = [info EXCEPT !.files = @ + 1]
    OBVIOUS
  <2>5. /\ [f EXCEPT !.info.folders = @ + 1] =
             [name |-> name, info |-> [info EXCEPT !.folders = @ + 1], children |-> children]
        /\ [f EXCEPT !.info.files = @ + 1] =
             [name |-> name, info |-> [info EXCEPT !.files = @ + 1], children |-> children]
    BY <2>3
  <2>7. /\ [name |-> name, info |-> dirs, children |-> children] \in Folder
        /\ [name |-> name, info |-> files, children |-> children] \in Folder
    BY <2>3, <2>4, <2>6 DEF Folder
  <2>8. one(i) = [name |-> name, info |-> dirs, children |-> children]
        \/ one(i) = [name |-> name, info |-> files, children |-> children]
    BY <2>2, <2>5, <2>6
  <2> HIDE DEF one
  <2>9. PICK new : /\ one(i) = [name |-> name, info |-> new, children |-> children]
                   /\ new.isDir = info.isDir
                   /\ [name |-> name, info |-> new, children |-> children] \in Folder
    BY <2>4, <2>6, <2>7, <2>8
  <2>10. /\ one(i) \in Folder /\ one(i).name = name /\ one(i).children = children
         /\ one(i).info.isDir = info.isDir
    BY <2>9
  <2>11. f.name = name /\ f.children = children /\ f.info = info
    BY <2>3
  <2> QED
    BY <2>2, <2>10, <2>11
<1>3. CASE ~options.recount
  <2>1. Counted(r) = parents
    BY <1>3 DEF Counted
  <2> QED
    BY <2>1
<1>4. CASE options.recount
  <2>1. Counted(r) = [i \in 1..Len(parents) |-> one(i)]
    BY <1>1, <1>4 DEF Counted
  <2> HIDE DEF one
  <2>2. Counted(r) \in [1..Len(parents) -> Folder]
    BY <1>2, <2>1
  <2>3. \A i \in 1..Len(parents) : Counted(r)[i] = one(i)
    BY <2>1
  <2>4. Counted(r) \in Seq(Folder) /\ Len(Counted(r)) = Len(parents)
    BY <1>1, <2>2
  <2> QED
    BY <1>2, <2>3, <2>4
<1> QED
  BY <1>3, <1>4

(* The last folder replaced by another.                                    *)
LEMMA LastFolderReplaced ==
  ASSUME NEW s \in Seq(Folder), s # <<>>, NEW f \in Folder
  PROVE  /\ [s EXCEPT ![Len(s)] = f] \in Seq(Folder)
         /\ Len([s EXCEPT ![Len(s)] = f]) = Len(s)
         /\ [s EXCEPT ![Len(s)] = f][Len(s)] = f
         /\ \A i \in 1..Len(s) - 1 : [s EXCEPT ![Len(s)] = f][i] = s[i]
  OBVIOUS
-------------------------------------------------------------------------------
(* The shape of the index while it is built: P gives each metadata record  *)
(* the path of its entry.                                                  *)
PathTo(f, i) == [k \in 1..i - 1 |-> f[k + 1].name]
FolderNames(f) == \A i \in 2..Len(f) : f[i].name \in Names

(* The children of the folder with this path have metadata of that kind.   *)
AttachedChild(es, P, path, c) ==
  /\ c.meta \in 1..Len(es)
  /\ P[c.meta] = Append(path, c.name)
  /\ es[c.meta].info.isDir = c.isDir

Attached(es, P, path, children) ==
  \A k \in 1..Len(children) : AttachedChild(es, P, path, children[k])

HasChild(children, m) == \E k \in 1..Len(children) : children[k].meta = m

FoldersAttached(f, es, P) ==
  \A i \in 1..Len(f) : f[i].info.isDir /\ Attached(es, P, PathTo(f, i), f[i].children)

EntriesAttached(es, P) ==
  \A m \in 1..Len(es) :
    /\ Attached(es, P, P[m], es[m].children)
    /\ ~es[m].info.isDir => es[m].children = <<>>

(* No two have the same path.                                              *)
OnePath(f, P) ==
  /\ \A m, k \in 1..Len(P) : P[m] = P[k] => m = k
  /\ \A m \in 1..Len(P), i \in 1..Len(f) : P[m] # PathTo(f, i)

InSome(f, es, m) ==
  \/ \E j \in 1..Len(es) : HasChild(es[j].children, m)
  \/ \E i \in 1..Len(f) : HasChild(f[i].children, m)

(* All but the root, and one that is about to be, are in some folder.      *)
Owned(f, es, P, new) == \A m \in 1..Len(es) : m = new \/ P[m] = <<>> \/ InSome(f, es, m)

Shape(f, es, P, new) ==
  /\ f \in Seq(Folder) /\ es \in Seq(Entry) /\ P \in Seq(Seq(Names)) /\ Len(P) = Len(es)
  /\ FolderNames(f)
  /\ FoldersAttached(f, es, P)
  /\ EntriesAttached(es, P)
  /\ OnePath(f, P)
  /\ Owned(f, es, P, new)

LEMMA PathToType ==
  ASSUME NEW f \in Seq(Folder), FolderNames(f), NEW i \in 1..Len(f)
  PROVE  /\ PathTo(f, i) \in Seq(Names) /\ Len(PathTo(f, i)) = i - 1
         /\ \A k \in 1..i - 1 : PathTo(f, i)[k] = f[k + 1].name
<1>1. \A k \in 1..i - 1 : f[k + 1].name \in Names
  BY DEF FolderNames
<1>2. PathTo(f, i) \in [1..i - 1 -> Names] /\ i - 1 \in Nat
  BY <1>1 DEF PathTo
<1>3. PathTo(f, i) \in Seq(Names) /\ Len(PathTo(f, i)) = i - 1
  BY <1>2
<1> QED
  BY <1>3 DEF PathTo

(* What matters of a folder.                                               *)
SameFolder(a, b) == a.name = b.name /\ a.children = b.children /\ a.info.isDir = b.info.isDir

LEMMA SamePathTo ==
  ASSUME NEW f \in Seq(Folder), NEW g \in Seq(Folder), NEW i \in 1..Len(f),
         \A k \in 2..i : g[k].name = f[k].name
  PROVE  PathTo(g, i) = PathTo(f, i)
<1>1. \A k \in 1..i - 1 : g[k + 1].name = f[k + 1].name
  OBVIOUS
<1> QED
  BY <1>1 DEF PathTo

LEMMA SameShape ==
  ASSUME NEW f, NEW es, NEW P, NEW new, Shape(f, es, P, new),
         NEW g \in Seq(Folder), Len(g) = Len(f),
         \A i \in 1..Len(f) : SameFolder(g[i], f[i])
  PROVE  Shape(g, es, P, new)
<1> USE DEF Shape
<1>1. FolderNames(g)
  BY DEF FolderNames, SameFolder
<1>2. ASSUME NEW i \in 1..Len(f) PROVE PathTo(g, i) = PathTo(f, i)
  <2>1. \A k \in 2..i : g[k].name = f[k].name
    BY DEF SameFolder
  <2> QED
    BY <2>1, SamePathTo
<1>3. FoldersAttached(g, es, P)
  BY <1>2 DEF FoldersAttached, SameFolder
<1>4. OnePath(g, P)
  BY <1>2 DEF OnePath
<1>5. Owned(g, es, P, new)
  BY DEF Owned, InSome, SameFolder
<1> QED
  BY <1>1, <1>3, <1>4, <1>5

(* The last folder gets the new entry as a child.                          *)
LEMMA Adopted ==
  ASSUME NEW f, NEW es, NEW P, NEW new \in 1..Len(es), Shape(f, es, P, new), f # <<>>,
         NEW g \in Folder, NEW child \in Child,
         g.name = f[Len(f)].name, g.info.isDir = f[Len(f)].info.isDir,
         g.children = Append(f[Len(f)].children, child),
         child.meta = new, AttachedChild(es, P, PathTo(f, Len(f)), child)
  PROVE  Shape([f EXCEPT ![Len(f)] = g], es, P, Unset)
<1> DEFINE h == [f EXCEPT ![Len(f)] = g]
<1>1. f \in Seq(Folder)
  BY DEF Shape
<1>2. /\ h \in Seq(Folder) /\ Len(h) = Len(f) /\ h[Len(f)] = g
      /\ \A i \in 1..Len(f) - 1 : h[i] = f[i]
  BY <1>1, LastFolderReplaced
<1> HIDE DEF h
<1>3. Len(f) \in Nat /\ Len(f) # 0
  BY <1>1
<1>4. ASSUME NEW i \in 1..Len(f)
      PROVE  h[i].name = f[i].name /\ h[i].info.isDir = f[i].info.isDir
  BY <1>2, <1>3
<1>5. FolderNames(h)
  <2>1. \A i \in 2..Len(f) : f[i].name \in Names
    BY DEF FolderNames, Shape
  <2>2. \A i \in 2..Len(f) : i \in 1..Len(f)
    BY <1>3
  <2> QED
    BY <1>2, <1>4, <2>1, <2>2 DEF FolderNames
<1>6. ASSUME NEW i \in 1..Len(f) PROVE PathTo(h, i) = PathTo(f, i)
  <2>1. \A k \in 2..i : h[k].name = f[k].name
    BY <1>4
  <2> QED
    BY <1>1, <1>2, <2>1, SamePathTo
<1>7. FoldersAttached(h, es, P)
  <2> SUFFICES ASSUME NEW i \in 1..Len(f)
               PROVE  h[i].info.isDir /\ Attached(es, P, PathTo(f, i), h[i].children)
    BY <1>2, <1>6 DEF FoldersAttached
  <2>1. f[i].info.isDir /\ Attached(es, P, PathTo(f, i), f[i].children)
    BY DEF Shape, FoldersAttached
  <2>2. CASE i # Len(f)
    BY <1>2, <1>3, <2>1, <2>2
  <2>3. CASE i = Len(f)
    <3>1. f[i] \in Folder
      BY <1>1
    <3>2. f[i].children \in Seq(Child)
      BY <3>1, FolderFields
    <3>3. PICK cs : cs = f[i].children /\ cs \in Seq(Child)
      BY <3>2
    <3>4. h[i].children = Append(cs, child)
      BY <1>2, <2>3, <3>3
    <3>5. \A k \in 1..Len(cs) : AttachedChild(es, P, PathTo(f, i), cs[k])
      BY <2>1, <3>3 DEF Attached
    <3>6. ASSUME NEW k \in 1..Len(Append(cs, child))
          PROVE  AttachedChild(es, P, PathTo(f, i), Append(cs, child)[k])
      <4>1. CASE k \in 1..Len(cs)
        BY <3>3, <3>5, <4>1
      <4>2. CASE k = Len(cs) + 1
        BY <3>3, <4>2, <2>3
      <4> QED
        BY <3>3, <4>1, <4>2
    <3> QED
      BY <1>4, <2>1, <3>4, <3>6 DEF Attached
  <2> QED
    BY <2>2, <2>3
<1>8. OnePath(h, P)
  BY <1>2, <1>6 DEF OnePath, Shape
<1>9. Owned(h, es, P, Unset)
  <2> SUFFICES ASSUME NEW m \in 1..Len(es), P[m] # <<>>
               PROVE  InSome(h, es, m)
    BY DEF Owned
  <2>1. f[Len(f)] \in Folder
    BY <1>1, <1>3
  <2>2. f[Len(f)].children \in Seq(Child)
    BY <2>1, FolderFields
  <2>3. PICK cs : cs = f[Len(f)].children /\ cs \in Seq(Child)
    BY <2>2
  <2>4. h[Len(f)].children = Append(cs, child)
    BY <1>2, <2>3
  <2>5. CASE m = new
    <3>1. HasChild(Append(cs, child), m)
      <4>1. Len(cs) + 1 \in 1..Len(Append(cs, child)) /\ Append(cs, child)[Len(cs) + 1] = child
        BY <2>3
      <4> QED
        BY <4>1, <2>5 DEF HasChild
    <3>2. HasChild(h[Len(f)].children, m)
      BY <2>4, <3>1, Zenon
    <3>3. Len(f) \in 1..Len(h)
      BY <1>2, <1>3
    <3> QED
      BY <3>2, <3>3, Zenon DEF InSome
  <2>6. CASE m # new
    <3>1. InSome(f, es, m)
      BY <2>6 DEF Shape, Owned
    <3>2. CASE \E j \in 1..Len(es) : HasChild(es[j].children, m)
      BY <3>2 DEF InSome
    <3>3. ASSUME NEW i \in 1..Len(f), HasChild(f[i].children, m) PROVE InSome(h, es, m)
      <4>1. CASE i # Len(f)
        <5>1. h[i] = f[i]
          BY <1>2, <1>3, <4>1
        <5> QED
          BY <1>2, <3>3, <5>1 DEF InSome
      <4>2. CASE i = Len(f)
        <5>1. PICK k \in 1..Len(cs) : cs[k].meta = m
          BY <2>3, <3>3, <4>2 DEF HasChild
        <5>2. k \in 1..Len(Append(cs, child)) /\ Append(cs, child)[k] = cs[k]
          BY <2>3
        <5>3. HasChild(Append(cs, child), m)
          BY <5>1, <5>2 DEF HasChild
        <5>4. HasChild(h[Len(f)].children, m)
          BY <2>4, <5>3, Zenon
        <5>5. Len(f) \in 1..Len(h)
          BY <1>2, <1>3
        <5> QED
          BY <5>4, <5>5, Zenon DEF InSome
      <4> QED
        BY <4>1, <4>2
    <3> QED
      BY <3>1, <3>2, <3>3 DEF InSome
  <2> QED
    BY <2>5, <2>6
<1> QED
  BY <1>2, <1>5, <1>7, <1>8, <1>9 DEF Shape, h

LEMMA StillAttached ==
  ASSUME NEW es \in Seq(Entry), NEW P \in Seq(Seq(Names)), Len(P) = Len(es),
         NEW e \in Entry, NEW q \in Seq(Names), NEW path, NEW cs, Attached(es, P, path, cs)
  PROVE  Attached(Append(es, e), Append(P, q), path, cs)
<1>1. ASSUME NEW m \in 1..Len(es) PROVE Append(es, e)[m] = es[m] /\ Append(P, q)[m] = P[m]
  OBVIOUS
<1>2. Len(Append(es, e)) = Len(es) + 1 /\ Len(es) \in Nat
  OBVIOUS
<1> SUFFICES ASSUME NEW k \in 1..Len(cs)
             PROVE  AttachedChild(Append(es, e), Append(P, q), path, cs[k])
  BY DEF Attached
<1>3. AttachedChild(es, P, path, cs[k])
  BY DEF Attached
<1>4. PICK c : c = cs[k]
  OBVIOUS
<1>5. c.meta \in 1..Len(es) /\ P[c.meta] = Append(path, c.name) /\ es[c.meta].info.isDir = c.isDir
  BY <1>3, <1>4 DEF AttachedChild
<1>6. c.meta \in 1..Len(Append(es, e))
  BY <1>2, <1>5
<1>7. Append(es, e)[c.meta] = es[c.meta] /\ Append(P, q)[c.meta] = P[c.meta]
  BY <1>1, <1>5
<1>8. AttachedChild(Append(es, e), Append(P, q), path, c)
  BY <1>5, <1>6, <1>7 DEF AttachedChild
<1> QED
  BY <1>4, <1>8

(* A new entry, for a file or for the last of the folders.                 *)
LEMMA Stored ==
  ASSUME NEW f, NEW es, NEW P, Shape(f, es, P, Unset),
         NEW g \in Seq(Folder), Len(g) <= Len(f), \A i \in 1..Len(g) : g[i] = f[i],
         NEW e \in Entry, NEW q \in Seq(Names),
         Attached(es, P, q, e.children), ~e.info.isDir => e.children = <<>>,
         \A m \in 1..Len(es) : P[m] # q,
         \A i \in 1..Len(g) : PathTo(g, i) # q,
         \A m \in 1..Len(es) : InSome(f, es, m) => InSome(g, Append(es, e), m)
  PROVE  Shape(g, Append(es, e), Append(P, q), Len(es) + 1)
<1> DEFINE es2 == Append(es, e)
           P2 == Append(P, q)
<1>1. es \in Seq(Entry) /\ P \in Seq(Seq(Names)) /\ Len(P) = Len(es) /\ f \in Seq(Folder)
  BY DEF Shape
<1>2. /\ es2 \in Seq(Entry) /\ P2 \in Seq(Seq(Names))
      /\ Len(es2) = Len(es) + 1 /\ Len(P2) = Len(es) + 1 /\ Len(es) \in Nat
      /\ Len(f) \in Nat /\ Len(g) \in Nat
  BY <1>1
<1>3. /\ \A m \in 1..Len(es) : es2[m] = es[m] /\ P2[m] = P[m]
      /\ es2[Len(es) + 1] = e /\ P2[Len(es) + 1] = q
  BY <1>1
<1>4. FolderNames(g)
  <2>1. \A i \in 2..Len(f) : f[i].name \in Names
    BY DEF Shape, FolderNames
  <2>2. \A i \in 2..Len(g) : i \in 2..Len(f) /\ i \in 1..Len(g)
    BY <1>2
  <2> QED
    BY <2>1, <2>2 DEF FolderNames
<1>5. ASSUME NEW i \in 1..Len(g) PROVE i \in 1..Len(f) /\ PathTo(g, i) = PathTo(f, i)
  <2>1. i \in 1..Len(f)
    BY <1>2
  <2>2. \A k \in 2..i : k \in 1..Len(g)
    BY <1>2
  <2>3. \A k \in 2..i : g[k].name = f[k].name
    BY <2>2
  <2> QED
    BY <1>1, <2>1, <2>3, SamePathTo
<1>6. FoldersAttached(g, es2, P2)
  <2> SUFFICES ASSUME NEW i \in 1..Len(g)
               PROVE  g[i].info.isDir /\ Attached(es2, P2, PathTo(g, i), g[i].children)
    BY DEF FoldersAttached
  <2>1. g[i] = f[i] /\ PathTo(g, i) = PathTo(f, i) /\ i \in 1..Len(f)
    BY <1>5
  <2>2. f[i].info.isDir /\ Attached(es, P, PathTo(f, i), f[i].children)
    BY <2>1 DEF Shape, FoldersAttached
  <2>3. Attached(es2, P2, PathTo(f, i), f[i].children)
    BY <1>1, <2>2, StillAttached
  <2> QED
    BY <2>1, <2>2, <2>3
<1>7. EntriesAttached(es2, P2)
  <2> SUFFICES ASSUME NEW m \in 1..Len(es2)
               PROVE  /\ Attached(es2, P2, P2[m], es2[m].children)
                      /\ ~es2[m].info.isDir => es2[m].children = <<>>
    BY DEF EntriesAttached
  <2>1. CASE m \in 1..Len(es)
    <3>1. /\ Attached(es, P, P[m], es[m].children)
          /\ ~es[m].info.isDir => es[m].children = <<>>
      BY <2>1 DEF Shape, EntriesAttached
    <3>2. Attached(es2, P2, P[m], es[m].children)
      BY <1>1, <3>1, StillAttached
    <3> HIDE DEF es2, P2
    <3>3. es2[m] = es[m] /\ P2[m] = P[m]
      BY <1>3, <2>1
    <3> QED
      BY <3>1, <3>2, <3>3
  <2>2. CASE m = Len(es) + 1
    <3>1. Attached(es2, P2, q, e.children)
      BY <1>1, StillAttached
    <3> HIDE DEF es2, P2
    <3>2. es2[m] = e /\ P2[m] = q
      BY <1>3, <2>2
    <3> QED
      BY <3>1, <3>2
  <2> QED
    BY <1>2, <2>1, <2>2
<1> HIDE DEF es2, P2
<1>8. OnePath(g, P2)
  <2>1. /\ \A m, k \in 1..Len(es) : P[m] = P[k] => m = k
        /\ \A m \in 1..Len(es), i \in 1..Len(f) : P[m] # PathTo(f, i)
    BY <1>1 DEF Shape, OnePath
  <2>2. \A m \in 1..Len(P2) : m \in 1..Len(es) \/ m = Len(es) + 1
    BY <1>2
  <2>3. \A m, k \in 1..Len(P2) : P2[m] = P2[k] => m = k
    BY <1>3, <2>1, <2>2
  <2>4. ASSUME NEW m \in 1..Len(P2), NEW i \in 1..Len(g) PROVE P2[m] # PathTo(g, i)
    <3>1. CASE m \in 1..Len(es)
      <4>1. P2[m] = P[m] /\ P[m] # PathTo(f, i)
        BY <1>3, <1>5, <2>1, <3>1
      <4> QED
        BY <1>5, <4>1
    <3>2. CASE m = Len(es) + 1
      <4>1. P2[m] = q /\ PathTo(g, i) # q
        BY <1>3, <3>2
      <4> QED
        BY <4>1
    <3> QED
      BY <2>2, <3>1, <3>2
  <2> QED
    BY <2>3, <2>4 DEF OnePath
<1>9. Owned(g, es2, P2, Len(es) + 1)
  <2> SUFFICES ASSUME NEW m \in 1..Len(es2), m # Len(es) + 1, P2[m] # <<>>
               PROVE  InSome(g, es2, m)
    BY DEF Owned
  <2>1. m \in 1..Len(es) /\ m # Unset
    BY <1>2 DEF Unset
  <2>2. P[m] # <<>>
    BY <1>3, <2>1
  <2>3. InSome(f, es, m)
    BY <2>1, <2>2 DEF Shape, Owned
  <2> QED
    BY <2>1, <2>3 DEF es2
<1>10. Shape(g, es2, P2, Len(es) + 1)
  BY <1>2, <1>4, <1>6, <1>7, <1>8, <1>9 DEF Shape
<1> QED
  BY <1>10 DEF es2, P2

(* The last folder is finished.                                            *)
LEMMA FolderStored ==
  ASSUME NEW f, NEW es, NEW P, Shape(f, es, P, Unset), f # <<>>,
         NEW e \in Entry, e.info = f[Len(f)].info,
         \A k \in 1..Len(e.children) :
           \E i \in 1..Len(f[Len(f)].children) : e.children[k] = f[Len(f)].children[i],
         \A i \in 1..Len(f[Len(f)].children) :
           \E k \in 1..Len(e.children) : e.children[k] = f[Len(f)].children[i]
  PROVE  Shape(Front(f), Append(es, e), Append(P, PathTo(f, Len(f))), Len(es) + 1)
<1> DEFINE n == Len(f)
           g == Front(f)
           q == PathTo(f, n)
<1>1. es \in Seq(Entry) /\ P \in Seq(Seq(Names)) /\ Len(P) = Len(es) /\ f \in Seq(Folder)
  BY DEF Shape
<1>2. n \in Nat \ {0} /\ g \in Seq(Folder) /\ Len(g) = n - 1 /\ \A i \in 1..n - 1 : g[i] = f[i]
  BY <1>1, FrontLast
<1> HIDE DEF n, g
<1>3. n \in 1..Len(f)
  BY <1>2 DEF n
<1>4. q \in Seq(Names) /\ Len(q) = n - 1
  BY <1>1, <1>3, PathToType DEF Shape
<1>5. f[n].info.isDir /\ Attached(es, P, q, f[n].children)
  BY <1>3 DEF Shape, FoldersAttached
<1>6. Attached(es, P, q, e.children)
  BY <1>5 DEF Attached, n
<1>7. \A m \in 1..Len(es) : P[m] # q
  BY <1>1, <1>3 DEF Shape, OnePath
<1>8. \A i \in 1..Len(g) : PathTo(g, i) # q
  <2> SUFFICES ASSUME NEW i \in 1..Len(g) PROVE PathTo(g, i) # q
    OBVIOUS
  <2>1. FolderNames(g)
    <3>1. \A k \in 2..Len(f) : f[k].name \in Names
      BY DEF Shape, FolderNames
    <3>2. \A k \in 2..Len(g) : k \in 2..Len(f) /\ k \in 1..n - 1
      BY <1>2 DEF n
    <3> QED
      BY <1>2, <3>1, <3>2 DEF FolderNames
  <2>2. Len(PathTo(g, i)) = i - 1
    BY <1>2, <2>1, PathToType
  <2> HIDE DEF q
  <2> QED
    BY <1>2, <1>4, <2>2
<1> HIDE DEF q
<1>9. ASSUME NEW m \in 1..Len(es), InSome(f, es, m) PROVE InSome(g, Append(es, e), m)
  <2>1. /\ \A j \in 1..Len(es) : j \in 1..Len(Append(es, e)) /\ Append(es, e)[j] = es[j]
        /\ Len(es) + 1 \in 1..Len(Append(es, e)) /\ Append(es, e)[Len(es) + 1] = e
    BY <1>1
  <2>2. ASSUME NEW j \in 1..Len(es), HasChild(es[j].children, m)
        PROVE  InSome(g, Append(es, e), m)
    BY <2>1, <2>2, Zenon DEF InSome
  <2>3. ASSUME NEW i \in 1..Len(f), HasChild(f[i].children, m)
        PROVE  InSome(g, Append(es, e), m)
    <3>1. CASE i = n
      <4>1. PICK k \in 1..Len(f[n].children) : f[n].children[k].meta = m
        BY <2>3, <3>1 DEF HasChild
      <4>2. PICK j \in 1..Len(e.children) : e.children[j] = f[n].children[k]
        BY DEF n
      <4>3. e.children[j].meta = m
        BY <4>1, <4>2
      <4>4. HasChild(e.children, m)
        BY <4>3 DEF HasChild
      <4> QED
        BY <2>1, <4>4, Zenon DEF InSome
    <3>2. CASE i # n
      <4>1. i \in 1..Len(g) /\ g[i] = f[i]
        BY <1>2, <3>2 DEF n
      <4> QED
        BY <2>3, <4>1, Zenon DEF InSome
    <3> QED
      BY <3>1, <3>2
  <2> QED
    BY <1>9, <2>2, <2>3 DEF InSome
<1>10. e.info.isDir
  BY <1>5 DEF n
<1>11. Len(g) <= Len(f) /\ \A i \in 1..Len(g) : g[i] = f[i]
  BY <1>2 DEF n
<1>12. Shape(g, Append(es, e), Append(P, q), Len(es) + 1)
  BY <1>2, <1>4, <1>6, <1>7, <1>8, <1>9, <1>10, <1>11, Stored
<1> QED
  BY <1>12 DEF g, q, n

(* A file in the last folder.                                              *)
LEMMA FileStored ==
  ASSUME NEW f, NEW es, NEW P, Shape(f, es, P, Unset),
         NEW e \in Entry, e.children = <<>>, NEW q \in Seq(Names),
         \A m \in 1..Len(es) : P[m] # q,
         \A i \in 1..Len(f) : PathTo(f, i) # q
  PROVE  Shape(f, Append(es, e), Append(P, q), Len(es) + 1)
<1>1. es \in Seq(Entry) /\ f \in Seq(Folder)
  BY DEF Shape
<1>2. Attached(es, P, q, e.children)
  BY DEF Attached
<1>3. ASSUME NEW m \in 1..Len(es), InSome(f, es, m) PROVE InSome(f, Append(es, e), m)
  <2>1. \A j \in 1..Len(es) : j \in 1..Len(Append(es, e)) /\ Append(es, e)[j] = es[j]
    BY <1>1
  <2> QED
    BY <1>3, <2>1, Zenon DEF InSome
<1>4. Len(f) <= Len(f)
  BY <1>1
<1> QED
  BY <1>1, <1>2, <1>3, <1>4, Stored

(* A folder that is opened.                                                *)
LEMMA FolderOpened ==
  ASSUME NEW f, NEW es, NEW P, Shape(f, es, P, Unset), f # <<>>,
         NEW g \in Folder, g.name \in Names, g.children = <<>>, g.info.isDir,
         \A m \in 1..Len(es) : P[m] # PathTo(Append(f, g), Len(f) + 1)
  PROVE  Shape(Append(f, g), es, P, Unset)
<1> DEFINE h == Append(f, g)
           n == Len(f)
<1>1. f \in Seq(Folder) /\ Len(P) = Len(es)
  BY DEF Shape
<1>2. /\ h \in Seq(Folder) /\ Len(h) = n + 1 /\ n \in Nat \ {0}
      /\ \A i \in 1..n : h[i] = f[i] /\ h[n + 1] = g
  BY <1>1
<1> HIDE DEF h, n
<1>3. FolderNames(h)
  <2>1. \A k \in 2..Len(f) : f[k].name \in Names
    BY DEF Shape, FolderNames
  <2>2. \A k \in 2..Len(h) : k = n + 1 \/ (k \in 2..Len(f) /\ k \in 1..n)
    BY <1>2 DEF n
  <2>3. h[n + 1] = g
    BY <1>2
  <2> QED
    BY <1>2, <2>1, <2>2, <2>3 DEF FolderNames
<1>4. ASSUME NEW i \in 1..n PROVE PathTo(h, i) = PathTo(f, i)
  <2>1. \A k \in 2..i : h[k].name = f[k].name
    BY <1>2
  <2> QED
    BY <1>1, <1>2, <2>1, SamePathTo DEF n
<1>5. FoldersAttached(h, es, P)
  <2> SUFFICES ASSUME NEW i \in 1..Len(h)
               PROVE  h[i].info.isDir /\ Attached(es, P, PathTo(h, i), h[i].children)
    BY DEF FoldersAttached
  <2>1. CASE i \in 1..n
    <3>1. f[i].info.isDir /\ Attached(es, P, PathTo(f, i), f[i].children)
      BY <2>1 DEF Shape, FoldersAttached, n
    <3> QED
      BY <1>2, <1>4, <2>1, <3>1
  <2>2. CASE i = n + 1
    <3>1. h[i] = g
      BY <1>2, <2>2
    <3>2. Attached(es, P, PathTo(h, i), <<>>)
      BY DEF Attached
    <3> QED
      BY <3>1, <3>2
  <2> QED
    BY <1>2, <2>1, <2>2
<1>6. OnePath(h, P)
  <2>1. /\ \A m, k \in 1..Len(P) : P[m] = P[k] => m = k
        /\ \A m \in 1..Len(P), i \in 1..n : P[m] # PathTo(f, i)
    BY DEF Shape, OnePath, n
  <2>2. \A m \in 1..Len(P) : P[m] # PathTo(h, n + 1)
    BY <1>1 DEF h, n
  <2>3. \A i \in 1..Len(h) : i \in 1..n \/ i = n + 1
    BY <1>2
  <2> QED
    BY <1>4, <2>1, <2>2, <2>3 DEF OnePath
<1>7. Owned(h, es, P, Unset)
  <2> SUFFICES ASSUME NEW m \in 1..Len(es), InSome(f, es, m) PROVE InSome(h, es, m)
    BY DEF Owned, Shape
  <2>1. \A i \in 1..Len(f) : i \in 1..Len(h) /\ h[i] = f[i]
    BY <1>2 DEF n
  <2> QED
    BY <2>1, Zenon DEF InSome
<1>8. Shape(h, es, P, Unset)
  BY <1>2, <1>3, <1>5, <1>6, <1>7 DEF Shape
<1> QED
  BY <1>8 DEF h
-------------------------------------------------------------------------------
(* The records of the listing and what the index has of them.              *)
Listed(l, p, isDir) == \E k \in 1..Len(l) : l[k].path = p /\ l[k].isDir = isDir

HasPlace(f, P, p) ==
  \/ \E m \in 1..Len(P) : P[m] = p
  \/ \E i \in 1..Len(f) : PathTo(f, i) = p

(* All that the index has was listed, and what was listed has a place.     *)
Recorded(f, es, P, l, waiting) ==
  /\ \A m \in 1..Len(es) : Listed(l, P[m], es[m].info.isDir)
  /\ \A i \in 1..Len(f) : Listed(l, PathTo(f, i), TRUE)
  /\ \A k \in 1..Len(l) : l[k].path \in waiting \/ HasPlace(f, P, l[k].path)

Waiting == IF pc = "adding" THEN {item.path} ELSE {}

ItemWaits(P) ==
  /\ item \in Records(Paths)
  /\ InOpenFolders(item.path)
  /\ Listed(listing, item.path, item.isDir)
  /\ ~HasPlace(parents, P, item.path)

RootStored(P) ==
  /\ rootMeta \in 1..Len(entries)
  /\ P[rootMeta] = <<>>
  /\ entries[rootMeta].info.isDir

Indexed(P) ==
  /\ Shape(parents, entries, P, Unset)
  /\ Recorded(parents, entries, P, listing, Waiting)
  /\ pc = "adding" => ItemWaits(P)
  /\ parents = <<>> => RootStored(P)

BuildInv ==
  /\ IndexTypeOK
  /\ pc = "built" => parents = <<>>
  /\ \E P : Indexed(P)

LEMMA PathIs ==
  ASSUME NEW p \in Paths
  PROVE  p \in Seq(Names) /\ p # <<>> /\ Len(p) \in 1..MaxDepth
<1>1. PICK n \in 1..MaxDepth : p \in [1..n -> Names]
  BY DEF Paths
<1>2. n \in Nat \ {0}
  BY IndexAssumption, <1>1
<1> QED
  BY <1>1, <1>2

LEMMA ListedMore ==
  ASSUME NEW S, NEW l \in Seq(S), NEW r \in S
  PROVE  /\ \A p, isDir : Listed(l, p, isDir) => Listed(Append(l, r), p, isDir)
         /\ Listed(Append(l, r), r.path, r.isDir)
<1>1. /\ \A k \in 1..Len(l) : k \in 1..Len(Append(l, r)) /\ Append(l, r)[k] = l[k]
      /\ Len(l) + 1 \in 1..Len(Append(l, r)) /\ Append(l, r)[Len(l) + 1] = r
  OBVIOUS
<1> QED
  BY <1>1, Zenon DEF Listed

LEMMA PlaceIsListed ==
  ASSUME NEW f, NEW es, NEW P, NEW l, NEW waiting, Recorded(f, es, P, l, waiting),
         Len(P) = Len(es), NEW p, HasPlace(f, P, p)
  PROVE  \E isDir : Listed(l, p, isDir)
BY DEF HasPlace, Recorded

LEMMA InitBuildInv == Init => BuildInv
<1> SUFFICES ASSUME Init PROVE BuildInv
  OBVIOUS
<1>1. PICK r \in Records({<<>>}) :
        r.isDir /\ listing = <<r>> /\ parents = <<RootFolder(options, r)>>
  BY DEF Init
<1>2. /\ options \in Options /\ entries = <<>> /\ rootMeta = Unset
      /\ item = NoItem /\ pc = "reading"
  BY DEF Init
<1>3. r.path = <<>> /\ r.size \in Nat /\ r.files \in Nat /\ r.folders \in Nat
  <2>1. r.path \in {<<>>} /\ r.size \in Nat /\ r.files \in Nat /\ r.folders \in Nat
    BY RecordFields
  <2> QED
    BY <2>1
<1> PICK f : f = RootFolder(options, r)
  OBVIOUS
<1>4. f \in Folder /\ f.info.isDir /\ f.children = <<>>
  <2> PICK info : info = [isDir   |-> TRUE,
                          size    |-> IF options.recalculate THEN 0 ELSE r.size,
                          files   |-> IF options.recount THEN 0 ELSE r.files,
                          folders |-> IF options.recount THEN 0 ELSE r.folders]
    OBVIOUS
  <2>1. info \in Info /\ info.isDir
    BY <1>3 DEF Info
  <2>2. f = [name |-> "root", info |-> info, children |-> <<>>]
    BY DEF RootFolder
  <2>3. <<>> \in Seq(Child) /\ "root" \in Names \cup {"root"}
    OBVIOUS
  <2>4. [name |-> "root", info |-> info, children |-> <<>>] \in Folder
    BY <2>1, <2>3 DEF Folder
  <2> QED
    BY <2>1, <2>2, <2>4
<1>5. parents = <<f>> /\ Len(parents) = 1 /\ parents[1] = f /\ parents \in Seq(Folder)
  BY <1>1, <1>4
<1>6. PathTo(parents, 1) = <<>>
  BY DEF PathTo
<1> DEFINE P == <<>>
<1>7. P \in Seq(Seq(Names)) /\ Len(P) = 0 /\ Len(entries) = 0 /\ entries \in Seq(Entry)
  BY <1>2
<1> HIDE DEF P
<1>8. Shape(parents, entries, P, Unset)
  <2>1. FolderNames(parents)
    BY <1>5 DEF FolderNames
  <2>2. FoldersAttached(parents, entries, P)
    BY <1>4, <1>5 DEF FoldersAttached, Attached
  <2>3. EntriesAttached(entries, P) /\ Owned(parents, entries, P, Unset) /\ OnePath(parents, P)
    BY <1>7 DEF EntriesAttached, Owned, OnePath
  <2> QED
    BY <1>5, <1>7, <2>1, <2>2, <2>3 DEF Shape
<1>9. Recorded(parents, entries, P, listing, Waiting)
  <2>1. Len(listing) = 1 /\ listing[1] = r
    BY <1>1
  <2>2. Listed(listing, <<>>, TRUE)
    BY <1>1, <1>3, <2>1 DEF Listed
  <2>3. HasPlace(parents, P, <<>>)
    BY <1>5, <1>6 DEF HasPlace
  <2>4. \A i \in 1..Len(parents) : i = 1
    BY <1>5
  <2>5. \A k \in 1..Len(listing) : listing[k].path = <<>>
    BY <1>3, <2>1
  <2>6. \A i \in 1..Len(parents) : PathTo(parents, i) = <<>>
    BY <1>6, <2>4
  <2>7. \A m \in 1..Len(entries) : Listed(listing, P[m], entries[m].info.isDir)
    BY <1>7
  <2> QED
    BY <2>2, <2>3, <2>5, <2>6, <2>7, Zenon DEF Recorded
<1>10. \E Q : Indexed(Q)
  <2>1. Indexed(P)
    BY <1>2, <1>5, <1>8, <1>9 DEF Indexed
  <2> QED
    BY <2>1
<1>11. r \in Records(Paths \cup {<<>>})
  <2>1. {<<>>} \subseteq Paths \cup {<<>>}
    OBVIOUS
  <2> QED
    BY <2>1 DEF Records
<1>12. IndexTypeOK
  <2>1. listing \in Seq(Records(Paths \cup {<<>>}))
    BY <1>1, <1>11
  <2> QED
    BY <1>2, <1>5, <1>7, <2>1 DEF IndexTypeOK, Folder, Entry, Unset
<1> QED
  BY <1>2, <1>10, <1>12 DEF BuildInv

LEMMA TypeIs ==
  ASSUME IndexTypeOK
  PROVE  /\ options \in Options /\ rootMeta \in Nat
         /\ parents \in Seq(Folder) /\ entries \in Seq(Entry)
         /\ listing \in Seq(Records(Paths \cup {<<>>}))
BY DEF IndexTypeOK, Folder, Entry

LEMMA Taken ==
  ASSUME BuildInv, NEW r \in Records(Paths), Read(r), NEW P, Indexed(P)
  PROVE  BuildInv' /\ Indexed(P)'
<1>1. Indexed(P)
  OBVIOUS
<1>2. /\ InOpenFolders(r.path) /\ listing' = Append(listing, r) /\ item' = r
      /\ pc = "reading" /\ pc' = "adding"
      /\ UNCHANGED <<options, parents, entries, rootMeta>>
  BY DEF Read, Take
<1>3. \A i \in DOMAIN listing : listing[i].path # r.path
  BY DEF Read, Listable
<1> PICK S : S = Records(Paths \cup {<<>>})
  OBVIOUS
<1>4. listing \in Seq(S) /\ r \in S
  <2>1. r \in S
    <3>1. Paths \subseteq Paths \cup {<<>>}
      OBVIOUS
    <3> QED
      BY <3>1 DEF Records
  <2> QED
    BY <2>1, TypeIs DEF BuildInv
<1>5. /\ listing' \in Seq(S) /\ Len(listing') = Len(listing) + 1 /\ Len(listing) \in Nat
      /\ listing'[Len(listing) + 1] = r
      /\ \A k \in 1..Len(listing) : listing'[k] = listing[k]
  BY <1>2, <1>4
<1>6. IndexTypeOK'
  BY <1>2, <1>5 DEF IndexTypeOK, BuildInv
<1>7. /\ \A p, isDir : Listed(listing, p, isDir) => Listed(listing', p, isDir)
      /\ Listed(listing', r.path, r.isDir)
  BY <1>2, <1>4, ListedMore
<1>8. Len(P) = Len(entries)
  BY <1>1 DEF Indexed, Shape
<1>9. ~HasPlace(parents, P, r.path)
  <2> SUFFICES ASSUME HasPlace(parents, P, r.path) PROVE FALSE
    OBVIOUS
  <2>1. PICK isDir : Listed(listing, r.path, isDir)
    BY <1>1, <1>8, PlaceIsListed DEF Indexed
  <2> QED
    BY <1>3, <1>4, <2>1 DEF Listed
<1>10. Recorded(parents, entries, P, listing', {r.path})
  <2>1. Recorded(parents, entries, P, listing, Waiting) /\ Waiting = {}
    BY <1>1, <1>2 DEF Indexed, Waiting
  <2>2. \A k \in 1..Len(listing') : k \in 1..Len(listing) \/ listing'[k] = r
    BY <1>5
  <2> QED
    BY <1>5, <1>7, <2>1, <2>2 DEF Recorded
<1>11. Waiting' = {r.path}
  BY <1>2 DEF Waiting
<1>12. ItemWaits(P)'
  BY <1>2, <1>7, <1>9 DEF ItemWaits, InOpenFolders
<1>13. Indexed(P)'
  BY <1>1, <1>2, <1>10, <1>11, <1>12 DEF Indexed, RootStored
<1> QED
  BY <1>2, <1>6, <1>13 DEF BuildInv

(* A path keeps its place when the last folder becomes an entry.           *)
LEMMA PlaceStored ==
  ASSUME NEW f \in Seq(Folder), f # <<>>, NEW g \in Seq(Folder), Len(g) = Len(f) - 1,
         \A i \in 1..Len(g) : PathTo(g, i) = PathTo(f, i),
         NEW P \in Seq(Seq(Names)), PathTo(f, Len(f)) \in Seq(Names), NEW p
  PROVE  HasPlace(g, Append(P, PathTo(f, Len(f))), p) <=> HasPlace(f, P, p)
<1> DEFINE n == Len(f)
           q == PathTo(f, n)
           Q == Append(P, q)
<1>1. n \in Nat \ {0} /\ Len(g) = n - 1
  OBVIOUS
<1>2. /\ \A m \in 1..Len(P) : m \in 1..Len(Q) /\ Q[m] = P[m]
      /\ Len(P) + 1 \in 1..Len(Q) /\ Q[Len(P) + 1] = q
      /\ \A m \in 1..Len(Q) : m \in 1..Len(P) \/ m = Len(P) + 1
  OBVIOUS
<1> HIDE DEF Q
<1>3. \A i \in 1..Len(f) : i \in 1..Len(g) \/ i = n
  BY <1>1
<1>4. \A i \in 1..Len(g) : i \in 1..Len(f)
  BY <1>1
<1>5. n \in 1..Len(f)
  BY <1>1
<1>6. ASSUME HasPlace(g, Q, p) PROVE HasPlace(f, P, p)
  BY <1>2, <1>4, <1>5, <1>6 DEF HasPlace
<1>7. ASSUME HasPlace(f, P, p) PROVE HasPlace(g, Q, p)
  BY <1>2, <1>3, <1>7 DEF HasPlace
<1> QED
  BY <1>6, <1>7 DEF Q

LEMMA FolderFinished ==
  ASSUME BuildInv, FinishFolder, NEW P, Indexed(P)
  PROVE  /\ BuildInv'
         /\ \E Q : Q = Append(P, PathTo(parents, Len(parents))) /\ Indexed(Q)'
<1>1. Indexed(P)
  OBVIOUS
<1>2. /\ Shape(parents, entries, P, Unset) /\ parents \in Seq(Folder) /\ entries \in Seq(Entry)
      /\ P \in Seq(Seq(Names)) /\ Len(P) = Len(entries) /\ FolderNames(parents)
  BY <1>1 DEF Indexed, Shape
<1>3. IndexTypeOK
  BY DEF BuildInv
<1>n. PICK n : n = Len(parents)
  OBVIOUS
<1>4. /\ pc \in {"adding", "finishing"} /\ n > Kept
      /\ UNCHANGED <<options, listing, item, pc>>
  BY <1>n DEF FinishFolder
<1>5. Kept \in Nat /\ (pc = "adding" => Kept = Len(item.path) /\ Kept # 0)
  <2>1. CASE pc = "adding"
    <3>1. item \in Records(Paths)
      BY <1>1, <2>1 DEF Indexed, ItemWaits
    <3>2. item.path \in Paths
      BY <3>1, RecordFields
    <3> QED
      BY <2>1, <3>2, PathIs DEF Kept
  <2>2. CASE pc # "adding"
    BY <2>2 DEF Kept
  <2> QED
    BY <2>1, <2>2
<1>6. n \in Nat \ {0} /\ parents # <<>>
  BY <1>2, <1>4, <1>5, <1>n
<1>folder. PICK folder : folder = Last(parents)
  OBVIOUS
<1>outer. PICK outer : outer = Front(parents)
  OBVIOUS
<1>7. /\ outer \in Seq(Folder) /\ Len(outer) = n - 1 /\ \A i \in 1..n - 1 : outer[i] = parents[i]
      /\ folder = parents[n] /\ folder \in Folder
  BY <1>2, <1>6, <1>n, <1>folder, <1>outer, FrontLast
<1>children. PICK children :
      children = IF options.resort THEN Sorted(folder.children) ELSE folder.children
  OBVIOUS
<1>8. folder.children \in Seq(Child) /\ folder.info \in Info /\ folder.info.size \in Nat
      /\ folder.name \in Names \cup {"root"}
  BY <1>7, FolderFields
<1>cs. PICK cs : cs = folder.children
  OBVIOUS
<1>9. /\ children \in Seq(Child)
      /\ \A k \in 1..Len(children) : \E i \in 1..Len(cs) : children[k] = cs[i]
      /\ \A i \in 1..Len(cs) : \E k \in 1..Len(children) : children[k] = cs[i]
  <2>1. CASE options.resort
    <3>1. children = Sorted(cs) /\ cs \in Seq(Child)
      BY <1>8, <1>children, <1>cs, <2>1
    <3>2. /\ Sorted(cs) \in Seq(Child)
          /\ Len(Sorted(cs)) = Len(cs)
          /\ \A k \in 1..Len(cs) : \E i \in 1..Len(cs) : Sorted(cs)[k] = cs[i]
          /\ \A i \in 1..Len(cs) : \E k \in 1..Len(cs) : Sorted(cs)[k] = cs[i]
      BY <3>1, SortedMoves
    <3> QED
      BY <3>1, <3>2
  <2>2. CASE ~options.resort
    <3>1. children = cs /\ cs \in Seq(Child)
      BY <1>8, <1>children, <1>cs, <2>2
    <3> QED
      BY <3>1
  <2> QED
    BY <2>1, <2>2
<1>e. PICK e : e = [info |-> folder.info, children |-> children]
  OBVIOUS
<1>10. e \in Entry /\ e.info = folder.info /\ e.children = children
  BY <1>8, <1>9, <1>e DEF Entry
<1>es. PICK es : es = Append(entries, e)
  OBVIOUS
<1>11. entries' = es
  BY <1>folder, <1>children, <1>e, <1>es DEF FinishFolder
<1>new. PICK new : new = Len(entries) + 1
  OBVIOUS
<1>12. new \in Nat \ {0} /\ Len(es) = new /\ es \in Seq(Entry) /\ es[new] = e
  BY <1>2, <1>10, <1>es, <1>new
<1>q. PICK q : q = PathTo(parents, n)
  OBVIOUS
<1>13. q \in Seq(Names) /\ Len(q) = n - 1 /\ \A k \in 1..n - 1 : q[k] = parents[k + 1].name
  <2>1. n \in 1..Len(parents)
    BY <1>6, <1>n
  <2> QED
    BY <1>2, <1>q, <2>1, PathToType
<1>Q. PICK Q : Q = Append(P, q)
  OBVIOUS
<1>14. Q \in Seq(Seq(Names)) /\ Len(Q) = new /\ Q[new] = q /\ \A m \in 1..Len(P) : Q[m] = P[m]
  BY <1>2, <1>13, <1>new, <1>Q
<1>15. Shape(outer, es, Q, new)
  <2>1. e.info = parents[Len(parents)].info /\ cs = parents[Len(parents)].children
    BY <1>7, <1>10, <1>n, <1>cs
  <2>2. /\ \A k \in 1..Len(e.children) :
             \E i \in 1..Len(parents[Len(parents)].children) :
               e.children[k] = parents[Len(parents)].children[i]
        /\ \A i \in 1..Len(parents[Len(parents)].children) :
             \E k \in 1..Len(e.children) : e.children[k] = parents[Len(parents)].children[i]
    BY <1>9, <1>10, <2>1
  <2>3. Shape(Front(parents), Append(entries, e), Append(P, PathTo(parents, Len(parents))),
              Len(entries) + 1)
    BY <1>2, <1>6, <1>10, <2>1, <2>2, FolderStored
  <2> QED
    BY <2>3, <1>n, <1>outer, <1>es, <1>new, <1>q, <1>Q
<1>16. folder.info.isDir
  <2>1. n \in 1..Len(parents)
    BY <1>6, <1>n
  <2> QED
    BY <1>2, <1>7, <2>1 DEF Shape, FoldersAttached
<1>17. ASSUME NEW i \in 1..n - 1 PROVE PathTo(outer, i) = PathTo(parents, i)
  <2>1. \A k \in 2..i : outer[k].name = parents[k].name
    BY <1>6, <1>7
  <2>2. i \in 1..Len(parents)
    BY <1>6, <1>n
  <2> QED
    BY <1>2, <1>7, <2>1, <2>2, SamePathTo
<1>18. \A p : HasPlace(outer, Q, p) <=> HasPlace(parents, P, p)
  <2> SUFFICES ASSUME NEW p PROVE HasPlace(outer, Q, p) <=> HasPlace(parents, P, p)
    OBVIOUS
  <2>1. \A i \in 1..Len(outer) : PathTo(outer, i) = PathTo(parents, i)
    BY <1>7, <1>17
  <2> QED
    BY <1>2, <1>6, <1>7, <1>13, <1>n, <1>q, <1>Q, <2>1, PlaceStored
<1>19. Recorded(outer, es, Q, listing, Waiting)
  <2>1. Recorded(parents, entries, P, listing, Waiting)
    BY <1>1 DEF Indexed
  <2>2. \A m \in 1..Len(es) : Listed(listing, Q[m], es[m].info.isDir)
    <3> SUFFICES ASSUME NEW m \in 1..Len(es) PROVE Listed(listing, Q[m], es[m].info.isDir)
      OBVIOUS
    <3>1. CASE m \in 1..Len(entries)
      <4>1. Q[m] = P[m] /\ es[m] = entries[m]
        BY <1>2, <1>10, <1>14, <1>es, <3>1
      <4> QED
        BY <2>1, <3>1, <4>1 DEF Recorded
    <3>2. CASE m = new
      <4>1. Q[m] = q /\ es[m].info.isDir = folder.info.isDir
        BY <1>10, <1>12, <1>14, <3>2
      <4>2. folder.info.isDir = TRUE
        <5>1. folder.info.isDir \in BOOLEAN
          BY <1>7, FolderFields
        <5> QED
          BY <1>16, <5>1
      <4>3. n \in 1..Len(parents)
        BY <1>6, <1>n
      <4>4. Listed(listing, q, TRUE)
        BY <1>q, <2>1, <4>3 DEF Recorded
      <4> QED
        BY <4>1, <4>2, <4>4
    <3> QED
      BY <1>2, <1>12, <1>new, <3>1, <3>2
  <2>3. \A i \in 1..Len(outer) : Listed(listing, PathTo(outer, i), TRUE)
    <3>1. \A i \in 1..Len(outer) : i \in 1..Len(parents) /\ PathTo(outer, i) = PathTo(parents, i)
      BY <1>6, <1>7, <1>17, <1>n
    <3> QED
      BY <2>1, <3>1 DEF Recorded
  <2> QED
    BY <1>18, <2>1, <2>2, <2>3 DEF Recorded
<1>20. CASE outer = <<>>
  <2>1. n = 1
    BY <1>6, <1>7, <1>20
  <2>2. q = <<>>
    BY <1>13, <2>1
  <2>3. parents' = outer /\ rootMeta' = new
    BY <1>11, <1>12, <1>20, <1>outer DEF FinishFolder
  <2>4. Shape(outer, es, Q, Unset)
    <3>1. Owned(outer, es, Q, Unset)
      BY <1>14, <1>15, <2>2 DEF Owned, Shape
    <3> QED
      BY <1>15, <3>1 DEF Shape
  <2>5. pc = "finishing"
    BY <1>4, <1>5, <2>1
  <2>6. RootStored(Q)'
    BY <1>11, <1>12, <1>10, <1>14, <1>16, <2>2, <2>3 DEF RootStored
  <2>7. Waiting = Waiting'
    BY <1>4 DEF Waiting
  <2>8. Indexed(Q)'
    BY <1>4, <1>11, <1>19, <2>3, <2>4, <2>5, <2>6, <2>7 DEF Indexed
  <2>9. IndexTypeOK'
    BY <1>3, <1>4, <1>7, <1>11, <1>12, <2>3 DEF IndexTypeOK, Folder, Entry
  <2>10. BuildInv'
    BY <1>4, <2>5, <2>8, <2>9 DEF BuildInv
  <2> QED
    BY <1>n, <1>q, <1>Q, <2>8, <2>10
<1>21. CASE outer # <<>>
  <2>child. PICK child : child = ChildAt(folder.name, TRUE, new)
    OBVIOUS
  <2>1. n \in Nat /\ n - 1 \in Nat \ {0} /\ Len(outer) = n - 1
    BY <1>6, <1>7, <1>21
  <2>2. folder.name \in Names
    <3>1. n \in 2..Len(parents)
      BY <1>n, <2>1
    <3> QED
      BY <1>2, <1>7, <3>1 DEF FolderNames
  <2>3. /\ child \in Child /\ child.meta = new /\ child.isDir = TRUE
        /\ child.name = folder.name
    BY <1>12, <2>2, <2>child DEF ChildAt, Child, Unset
  <2>last. PICK last : last = outer[n - 1]
    OBVIOUS
  <2>4. last \in Folder /\ last = outer[Len(outer)]
    BY <1>7, <2>1, <2>last
  <2>g. PICK g : g = WithChild(last, folder.info, child)
    OBVIOUS
  <2>5. /\ g \in Folder /\ g.name = last.name /\ g.children = Append(last.children, child)
        /\ g.info.isDir = last.info.isDir
    <3>1. PICK by : by = folder.info
      OBVIOUS
    <3>2. by.size \in Nat
      BY <1>8, <3>1
    <3>3. /\ WithChild(last, by, child) \in Folder
          /\ WithChild(last, by, child).name = last.name
          /\ WithChild(last, by, child).children = Append(last.children, child)
          /\ WithChild(last, by, child).info.isDir = last.info.isDir
      BY <2>3, <2>4, <3>2, WithChildFields
    <3> QED
      BY <2>g, <3>1, <3>3
  <2>f. PICK f : f = [outer EXCEPT ![Len(outer)] = g]
    OBVIOUS
  <2>6. parents' = f /\ rootMeta' = rootMeta
    <3>1. parents' = [outer EXCEPT ![Len(outer)] = WithChild(@, folder.info, child)]
          /\ rootMeta' = rootMeta
      BY <1>11, <1>12, <1>21, <1>folder, <1>outer, <2>child DEF FinishFolder, WithChild
    <3>2. WithChild(outer[Len(outer)], folder.info, child) = g
      BY <2>4, <2>g
    <3> QED
      BY <2>f, <3>1, <3>2
  <2>7. PathTo(outer, Len(outer)) = PathTo(parents, n - 1)
    BY <1>17, <2>1
  <2>8. q = Append(PathTo(parents, n - 1), folder.name)
    <3>1. n - 1 \in 1..Len(parents)
      BY <1>n, <2>1
    <3>2. /\ PathTo(parents, n - 1) \in Seq(Names) /\ Len(PathTo(parents, n - 1)) = n - 2
          /\ \A k \in 1..n - 2 : PathTo(parents, n - 1)[k] = parents[k + 1].name
      <4>1. /\ PathTo(parents, n - 1) \in Seq(Names) /\ Len(PathTo(parents, n - 1)) = n - 1 - 1
            /\ \A k \in 1..n - 1 - 1 : PathTo(parents, n - 1)[k] = parents[k + 1].name
        BY <1>2, <3>1, PathToType
      <4>2. n - 1 - 1 = n - 2
        BY <2>1
      <4> QED
        BY <4>1, <4>2
    <3>p. PICK p : p = PathTo(parents, n - 1)
      OBVIOUS
    <3>3. Append(p, folder.name) \in Seq(Names) /\ Len(Append(p, folder.name)) = n - 1
          /\ \A k \in 1..n - 2 : Append(p, folder.name)[k] = parents[k + 1].name
          /\ Append(p, folder.name)[n - 1] = folder.name
      BY <2>1, <2>2, <3>2, <3>p
    <3>4. \A k \in 1..n - 1 : Append(p, folder.name)[k] = q[k]
      BY <1>7, <1>13, <2>1, <3>3
    <3>5. q = Append(p, folder.name)
      <4> PICK s : s = Append(p, folder.name)
        OBVIOUS
      <4>1. s \in Seq(Names) /\ q \in Seq(Names) /\ Len(s) = Len(q)
            /\ \A k \in 1..Len(q) : s[k] = q[k]
        BY <1>13, <3>3, <3>4
      <4>2. s = q
        BY <4>1
      <4> QED
        BY <4>2
    <3> QED
      BY <3>5, <3>p
  <2>9. AttachedChild(es, Q, PathTo(outer, Len(outer)), child)
    <3>1. es[new].info.isDir = TRUE
      <4>1. folder.info.isDir \in BOOLEAN
        BY <1>7, FolderFields
      <4> QED
        BY <1>10, <1>12, <1>16, <4>1
    <3>2. Q[new] = Append(PathTo(outer, Len(outer)), child.name)
      BY <1>14, <2>3, <2>7, <2>8
    <3>3. new \in 1..Len(es)
      BY <1>12
    <3> QED
      BY <2>3, <3>1, <3>2, <3>3 DEF AttachedChild
  <2>10. Shape(f, es, Q, Unset)
    <3>1. new \in 1..Len(es)
      BY <1>12
    <3> QED
      BY <1>15, <1>21, <2>3, <2>4, <2>5, <2>9, <2>f, <3>1, Adopted
  <2>11. /\ f \in Seq(Folder) /\ Len(f) = n - 1 /\ f[n - 1] = g
         /\ \A i \in 1..n - 2 : f[i] = outer[i]
    BY <1>7, <1>21, <2>1, <2>5, <2>f, LastFolderReplaced
  <2>12. \A i \in 1..n - 1 : f[i].name = outer[i].name
    BY <2>1, <2>4, <2>5, <2>11, <2>last
  <2>13. ASSUME NEW i \in 1..Len(outer) PROVE PathTo(f, i) = PathTo(outer, i)
    <3>1. \A k \in 2..i : f[k].name = outer[k].name
      BY <2>1, <2>12
    <3> QED
      BY <1>7, <2>11, <3>1, SamePathTo
  <2>14. \A p : HasPlace(f, Q, p) <=> HasPlace(outer, Q, p)
    BY <2>1, <2>11, <2>13 DEF HasPlace
  <2>15. Recorded(f, es, Q, listing, Waiting)
    BY <1>19, <2>1, <2>11, <2>13, <2>14 DEF Recorded
  <2>16. Waiting' = Waiting
    BY <1>4 DEF Waiting
  <2>17. pc = "adding" => ItemWaits(Q)'
    <3> SUFFICES ASSUME pc = "adding" PROVE ItemWaits(Q)'
      OBVIOUS
    <3>1. ItemWaits(P)
      BY <1>1 DEF Indexed
    <3>2. Kept = Len(item.path) /\ Kept \in Nat /\ Kept # 0
      BY <1>5
    <3>k. PICK k : k = Len(item.path)
      OBVIOUS
    <3>3. k <= n - 1 /\ k \in Nat \ {0}
      BY <1>4, <1>6, <3>2, <3>k
    <3>4. \A i \in 1..k - 1 : item.path[i] = parents[i + 1].name
      BY <3>1, <3>k DEF ItemWaits, InOpenFolders
    <3>5. \A i \in 1..k - 1 : f[i + 1].name = parents[i + 1].name
      <4> SUFFICES ASSUME NEW i \in 1..k - 1 PROVE f[i + 1].name = parents[i + 1].name
        OBVIOUS
      <4>1. i + 1 \in 1..n - 1
        BY <1>6, <3>3
      <4> QED
        BY <1>7, <2>12, <4>1
    <3>6. InOpenFolders(item.path)'
      BY <1>4, <2>6, <2>11, <3>3, <3>4, <3>5, <3>k DEF InOpenFolders
    <3>7. ~HasPlace(f, Q, item.path)
      BY <1>18, <2>14, <3>1 DEF ItemWaits
    <3> QED
      BY <1>4, <2>6, <3>1, <3>6, <3>7 DEF ItemWaits
  <2>18. parents' # <<>>
    BY <2>1, <2>6, <2>11
  <2>19. Indexed(Q)'
    BY <1>4, <1>11, <2>6, <2>10, <2>15, <2>16, <2>17, <2>18 DEF Indexed
  <2>20. IndexTypeOK'
    BY <1>3, <1>4, <1>11, <1>12, <2>6, <2>11 DEF IndexTypeOK, Folder, Entry
  <2>21. BuildInv'
    BY <1>4, <2>19, <2>20 DEF BuildInv
  <2> QED
    BY <1>n, <1>q, <1>Q, <2>19, <2>21
<1> QED
  BY <1>20, <1>21

(* The entry that is added gets the path of the item.                      *)
LEMMA ItemsFolder ==
  ASSUME NEW P, Indexed(P), pc = "adding", Len(parents) = Kept
  PROVE  /\ item \in Records(Paths) /\ item.path \in Seq(Names) /\ item.path # <<>>
         /\ Len(parents) \in Nat \ {0} /\ Len(item.path) = Len(parents)
         /\ PathTo(parents, Len(parents)) = Front(item.path)
         /\ Last(item.path) \in Names
         /\ item.path = Append(PathTo(parents, Len(parents)), Last(item.path))
<1>1. item \in Records(Paths) /\ InOpenFolders(item.path)
  BY DEF Indexed, ItemWaits
<1>2. item.path \in Paths
  BY <1>1, RecordFields
<1>3. item.path \in Seq(Names) /\ item.path # <<>>
  BY <1>2, PathIs
<1>p. PICK p : p = item.path
  OBVIOUS
<1>n. PICK n : n = Len(parents)
  OBVIOUS
<1>4. p \in Seq(Names) /\ p # <<>> /\ n = Len(p) /\ n \in Nat \ {0}
  BY <1>3, <1>p, <1>n DEF Kept
<1>5. /\ Front(p) \in Seq(Names) /\ Len(Front(p)) = n - 1 /\ \A i \in 1..n - 1 : Front(p)[i] = p[i]
      /\ Last(p) \in Names /\ p = Append(Front(p), Last(p))
  BY <1>4, FrontLast
<1>6. PathTo(parents, n) = Front(p)
  <2>1. parents \in Seq(Folder) /\ FolderNames(parents)
    BY DEF Indexed, Shape
  <2>2. n \in 1..Len(parents)
    BY <1>4, <1>n
  <2>3. /\ PathTo(parents, n) \in Seq(Names) /\ Len(PathTo(parents, n)) = n - 1
        /\ \A k \in 1..n - 1 : PathTo(parents, n)[k] = parents[k + 1].name
    BY <2>1, <2>2, PathToType
  <2>4. \A k \in 1..n - 1 : p[k] = parents[k + 1].name
    BY <1>1, <1>4, <1>p DEF InOpenFolders
  <2>a. PICK a : a = PathTo(parents, n)
    OBVIOUS
  <2>b. PICK b : b = Front(p)
    OBVIOUS
  <2>5. /\ a \in Seq(Names) /\ b \in Seq(Names) /\ Len(a) = n - 1 /\ Len(b) = n - 1
        /\ \A k \in 1..n - 1 : a[k] = b[k]
    BY <1>5, <2>3, <2>4, <2>a, <2>b
  <2>6. a = b
    BY <2>5
  <2> QED
    BY <2>6, <2>a, <2>b
<1> QED
  BY <1>1, <1>3, <1>4, <1>5, <1>6, <1>p, <1>n

(* Counting changes nothing of the shape.                                  *)
LEMMA CountedShape ==
  ASSUME NEW P, Indexed(P), NEW r
  PROVE  /\ Shape(Counted(r), entries, P, Unset)
         /\ Len(Counted(r)) = Len(parents)
         /\ \A i \in 1..Len(parents) : PathTo(Counted(r), i) = PathTo(parents, i)
<1>f. PICK f : f = Counted(r)
  OBVIOUS
<1>1. Shape(parents, entries, P, Unset) /\ parents \in Seq(Folder)
  BY DEF Indexed, Shape
<1>2. /\ f \in Seq(Folder) /\ Len(f) = Len(parents)
      /\ \A i \in 1..Len(parents) : SameFolder(f[i], parents[i])
  BY <1>1, <1>f, CountedFolders DEF SameFolder
<1>3. Shape(f, entries, P, Unset)
  BY <1>1, <1>2, SameShape
<1>4. ASSUME NEW i \in 1..Len(parents) PROVE PathTo(f, i) = PathTo(parents, i)
  <2>1. \A k \in 2..i : f[k].name = parents[k].name
    BY <1>1, <1>2 DEF SameFolder
  <2> QED
    BY <1>1, <1>2, <2>1, SamePathTo
<1> QED
  BY <1>2, <1>3, <1>4, <1>f

LEMMA FolderAdded ==
  ASSUME BuildInv, AddFolder, NEW P, Indexed(P)
  PROVE  BuildInv' /\ Indexed(P)'
<1>1. Indexed(P)
  OBVIOUS
<1>2. /\ pc = "adding" /\ Len(parents) = Kept /\ item.isDir
      /\ pc' = "reading" /\ item' = NoItem
      /\ UNCHANGED <<options, listing, entries, rootMeta>>
  BY DEF AddFolder
<1>3. IndexTypeOK
  BY DEF BuildInv
<1>n. PICK n : n = Len(parents)
  OBVIOUS
<1>p. PICK p : p = item.path
  OBVIOUS
<1>4. /\ item \in Records(Paths) /\ p \in Seq(Names) /\ p # <<>>
      /\ n \in Nat \ {0} /\ Len(p) = n /\ Last(p) \in Names
      /\ p = Append(PathTo(parents, n), Last(p))
  BY <1>1, <1>2, <1>n, <1>p, ItemsFolder
<1>5. ItemWaits(P)
  BY <1>1, <1>2 DEF Indexed
<1>f. PICK f : f = Counted(item)
  OBVIOUS
<1>6. /\ Shape(f, entries, P, Unset) /\ Len(f) = n
      /\ \A i \in 1..n : PathTo(f, i) = PathTo(parents, i)
  BY <1>1, <1>n, <1>f, CountedShape
<1>7. /\ f \in Seq(Folder) /\ f # <<>> /\ FolderNames(f)
      /\ P \in Seq(Seq(Names)) /\ Len(P) = Len(entries)
  <2>1. f \in Seq(Folder) /\ FolderNames(f) /\ P \in Seq(Seq(Names)) /\ Len(P) = Len(entries)
    BY <1>6 DEF Shape
  <2> QED
    BY <1>4, <1>6, <2>1
<1>info. PICK info : info = WithoutSize(WithoutCounts(InfoOf(item)))
  OBVIOUS
<1>8. info \in Info /\ info.isDir
  <2>1. InfoOf(item) \in Info /\ InfoOf(item).isDir
    BY <1>2, <1>4, RecordFields
  <2>i. PICK i : i = InfoOf(item)
    OBVIOUS
  <2>2. WithoutCounts(i) \in Info /\ WithoutCounts(i).isDir
    BY <2>1, <2>i DEF WithoutCounts, Info
  <2>j. PICK j : j = WithoutCounts(i)
    OBVIOUS
  <2>3. WithoutSize(j) \in Info /\ WithoutSize(j).isDir
    BY <2>2, <2>j DEF WithoutSize, Info
  <2> QED
    BY <2>3, <2>i, <2>j, <1>info
<1>g. PICK g : g = [name |-> Last(p), info |-> info, children |-> <<>>]
  OBVIOUS
<1>9. g \in Folder /\ g.name = Last(p) /\ g.children = <<>> /\ g.info = info
  <2>1. <<>> \in Seq(Child) /\ Last(p) \in Names \cup {"root"}
    BY <1>4
  <2> QED
    BY <1>8, <1>g, <2>1 DEF Folder
<1>h. PICK h : h = Append(f, g)
  OBVIOUS
<1>10. parents' = h
  BY <1>f, <1>info, <1>g, <1>h, <1>p DEF AddFolder
<1>11. /\ h \in Seq(Folder) /\ Len(h) = n + 1 /\ h[n + 1] = g /\ \A i \in 1..n : h[i] = f[i]
  BY <1>6, <1>7, <1>9, <1>h
<1>12. ASSUME NEW i \in 1..n PROVE PathTo(h, i) = PathTo(parents, i)
  <2>1. \A k \in 2..i : h[k].name = f[k].name
    BY <1>4, <1>11
  <2>2. PathTo(h, i) = PathTo(f, i)
    BY <1>6, <1>7, <1>11, <2>1, SamePathTo
  <2> QED
    BY <1>6, <2>2
<1>13. PathTo(h, n + 1) = p
  <2>1. FolderNames(h)
    <3>1. \A k \in 2..Len(f) : f[k].name \in Names
      BY <1>7 DEF FolderNames
    <3>2. \A k \in 2..Len(h) : k = n + 1 \/ (k \in 2..Len(f) /\ k \in 1..n)
      BY <1>4, <1>6, <1>11
    <3> QED
      BY <1>4, <1>9, <1>11, <3>1, <3>2 DEF FolderNames
  <2>2. n + 1 \in 1..Len(h)
    BY <1>4, <1>11
  <2>3. /\ PathTo(h, n + 1) \in Seq(Names) /\ Len(PathTo(h, n + 1)) = n
        /\ \A k \in 1..n : PathTo(h, n + 1)[k] = h[k + 1].name
    <3>m. PICK m : m = n + 1
      OBVIOUS
    <3>1. h \in Seq(Folder) /\ m \in 1..Len(h)
      BY <1>11, <2>2, <3>m
    <3>2. /\ PathTo(h, m) \in Seq(Names) /\ Len(PathTo(h, m)) = m - 1
          /\ \A k \in 1..m - 1 : PathTo(h, m)[k] = h[k + 1].name
      BY <2>1, <3>1, PathToType
    <3>3. m - 1 = n
      BY <1>4, <3>m
    <3> QED
      BY <3>2, <3>3, <3>m
  <2>4. n \in 1..Len(f)
    BY <1>4, <1>6
  <2>5. /\ PathTo(f, n) \in Seq(Names) /\ Len(PathTo(f, n)) = n - 1
        /\ \A k \in 1..n - 1 : PathTo(f, n)[k] = f[k + 1].name
    BY <1>7, <2>4, PathToType
  <2>q. PICK q : q = PathTo(f, n)
    OBVIOUS
  <2>l. PICK l : l = Last(p)
    OBVIOUS
  <2>6. /\ p = Append(q, l) /\ q \in Seq(Names) /\ Len(q) = n - 1
        /\ \A k \in 1..n - 1 : q[k] = f[k + 1].name
    <3>1. PathTo(parents, n) = q
      BY <1>4, <1>6, <2>q
    <3>2. p = Append(PathTo(parents, n), Last(p))
      BY <1>4
    <3>3. p = Append(q, l)
      BY <3>1, <3>2, <2>l, Zenon
    <3> QED
      BY <2>5, <2>q, <3>3
  <2>7. ASSUME NEW k \in 1..n PROVE p[k] = h[k + 1].name
    <3>1. CASE k = n
      <4>1. p[n] = l
        BY <1>4, <2>6
      <4> QED
        BY <1>9, <1>11, <2>l, <3>1, <4>1
    <3>2. CASE k # n
      <4>1. k \in 1..n - 1 /\ k + 1 \in 1..n
        BY <1>4, <3>2
      <4>2. p[k] = q[k]
        BY <1>4, <2>6, <4>1
      <4> QED
        BY <1>11, <2>6, <4>1, <4>2
    <3> QED
      BY <3>1, <3>2
  <2>a. PICK a : a = PathTo(h, n + 1)
    OBVIOUS
  <2>8. a \in Seq(Names) /\ Len(a) = Len(p) /\ \A k \in 1..Len(p) : a[k] = p[k]
    BY <1>4, <2>3, <2>7, <2>a
  <2>9. a = p
    BY <1>4, <2>8
  <2> QED
    BY <2>9, <2>a
<1>14. Shape(h, entries, P, Unset)
  <2>1. \A m \in 1..Len(entries) : P[m] # PathTo(Append(f, g), Len(f) + 1)
    <3>1. PathTo(Append(f, g), Len(f) + 1) = p
      BY <1>6, <1>13, <1>h
    <3> QED
      BY <1>5, <1>7, <1>p, <3>1 DEF ItemWaits, HasPlace
  <2> QED
    BY <1>4, <1>6, <1>7, <1>8, <1>9, <1>h, <2>1, FolderOpened
<1>15. Recorded(h, entries, P, listing, {})
  <2>1. Recorded(parents, entries, P, listing, {p})
    BY <1>1, <1>2, <1>p DEF Indexed, Waiting
  <2>2. \A i \in 1..Len(h) : i \in 1..n \/ i = n + 1
    BY <1>4, <1>11
  <2>3. Listed(listing, p, TRUE)
    BY <1>2, <1>5, <1>p, <1>4, RecordFields DEF ItemWaits
  <2>4. \A i \in 1..Len(h) : Listed(listing, PathTo(h, i), TRUE)
    <3>1. \A i \in 1..n : i \in 1..Len(parents)
      BY <1>n
    <3> QED
      BY <1>12, <1>13, <2>1, <2>2, <2>3, <3>1 DEF Recorded
  <2>5. ASSUME NEW x, HasPlace(parents, P, x) \/ x = p PROVE HasPlace(h, P, x)
    <3>1. CASE \E m \in 1..Len(P) : P[m] = x
      BY <3>1 DEF HasPlace
    <3>2. ASSUME NEW i \in 1..Len(parents), PathTo(parents, i) = x PROVE HasPlace(h, P, x)
      <4>1. i \in 1..Len(h) /\ PathTo(h, i) = x
        BY <1>4, <1>11, <1>12, <1>n, <3>2
      <4> QED
        BY <4>1 DEF HasPlace
    <3>3. CASE x = p
      <4>1. n + 1 \in 1..Len(h) /\ PathTo(h, n + 1) = x
        BY <1>4, <1>11, <1>13, <3>3
      <4> QED
        BY <4>1 DEF HasPlace
    <3> QED
      BY <2>5, <3>1, <3>2, <3>3 DEF HasPlace
  <2>6. \A k \in 1..Len(listing) : HasPlace(h, P, listing[k].path)
    BY <2>1, <2>5 DEF Recorded
  <2> QED
    BY <2>1, <2>4, <2>6 DEF Recorded
<1>16. Waiting' = {}
  BY <1>2 DEF Waiting
<1>17. parents' # <<>>
  BY <1>4, <1>10, <1>11
<1>18. Indexed(P)'
  BY <1>2, <1>10, <1>14, <1>15, <1>16, <1>17 DEF Indexed
<1>19. IndexTypeOK'
  BY <1>2, <1>3, <1>10, <1>11 DEF IndexTypeOK, Folder
<1> QED
  BY <1>2, <1>18, <1>19 DEF BuildInv

LEMMA FileAdded ==
  ASSUME BuildInv, AddFile, NEW P, Indexed(P)
  PROVE  /\ BuildInv'
         /\ \E Q : Q = Append(P, item.path) /\ Indexed(Q)'
<1>1. Indexed(P)
  OBVIOUS
<1>2. /\ pc = "adding" /\ Len(parents) = Kept /\ ~item.isDir
      /\ pc' = "reading" /\ item' = NoItem
      /\ UNCHANGED <<options, listing, rootMeta>>
  BY DEF AddFile
<1>3. IndexTypeOK
  BY DEF BuildInv
<1>n. PICK n : n = Len(parents)
  OBVIOUS
<1>p. PICK p : p = item.path
  OBVIOUS
<1>4. /\ item \in Records(Paths) /\ p \in Seq(Names)
      /\ n \in Nat \ {0} /\ Last(p) \in Names
      /\ p = Append(PathTo(parents, n), Last(p))
  BY <1>1, <1>2, <1>n, <1>p, ItemsFolder
<1>5. ItemWaits(P) /\ Recorded(parents, entries, P, listing, {p})
  BY <1>1, <1>2, <1>p DEF Indexed, Waiting
<1>f. PICK f : f = Counted(item)
  OBVIOUS
<1>6. /\ Shape(f, entries, P, Unset) /\ Len(f) = n
      /\ \A i \in 1..n : PathTo(f, i) = PathTo(parents, i)
  BY <1>1, <1>n, <1>f, CountedShape
<1>7. /\ f \in Seq(Folder) /\ f # <<>>
      /\ P \in Seq(Seq(Names)) /\ Len(P) = Len(entries) /\ entries \in Seq(Entry)
  <2>1. /\ f \in Seq(Folder)
        /\ P \in Seq(Seq(Names)) /\ Len(P) = Len(entries) /\ entries \in Seq(Entry)
    BY <1>6 DEF Shape
  <2> QED
    BY <1>4, <1>6, <2>1
<1>i. PICK i : i = InfoOf(item)
  OBVIOUS
<1>8. i \in Info /\ i.isDir = item.isDir /\ item.isDir = FALSE /\ item.size \in Nat
  BY <1>2, <1>4, <1>i, RecordFields
<1>e. PICK e : e = [info |-> i, children |-> <<>>]
  OBVIOUS
<1>9. e \in Entry /\ e.info = i /\ e.children = <<>>
  <2>1. <<>> \in Seq(Child)
    OBVIOUS
  <2> QED
    BY <1>8, <1>e, <2>1 DEF Entry
<1>es. PICK es : es = Append(entries, e)
  OBVIOUS
<1>Q. PICK Q : Q = Append(P, p)
  OBVIOUS
<1>new. PICK new : new = Len(entries) + 1
  OBVIOUS
<1>10. /\ entries' = es /\ es \in Seq(Entry) /\ Len(es) = new /\ es[new] = e
       /\ \A m \in 1..Len(entries) : es[m] = entries[m]
       /\ new \in Nat \ {0}
  <2>1. entries' = es
    BY <1>i, <1>e, <1>es DEF AddFile
  <2> QED
    BY <1>7, <1>9, <1>es, <1>new, <2>1
<1>11. /\ Q \in Seq(Seq(Names)) /\ Len(Q) = new /\ Q[new] = p
       /\ \A m \in 1..Len(P) : Q[m] = P[m]
  <2>1. p \in Seq(Names) /\ P \in Seq(Seq(Names))
    BY <1>4, <1>7
  <2>2. /\ Q \in Seq(Seq(Names)) /\ Len(Q) = Len(P) + 1 /\ Q[Len(P) + 1] = p
        /\ \A m \in 1..Len(P) : Q[m] = P[m]
    BY <2>1, <1>Q, Appended
  <2> QED
    BY <2>2, <1>7, <1>new
<1>12. Shape(f, es, Q, new)
  <2>1. ~HasPlace(parents, P, p)
    BY <1>5, <1>p DEF ItemWaits
  <2>2. \A m \in 1..Len(entries) : P[m] # p
    BY <1>7, <2>1 DEF HasPlace
  <2>3. \A k \in 1..Len(f) : PathTo(f, k) # p
    BY <1>6, <1>n, <2>1 DEF HasPlace
  <2>4. Shape(f, Append(entries, e), Append(P, p), Len(entries) + 1)
    BY <1>4, <1>6, <1>9, <2>2, <2>3, FileStored
  <2> QED
    BY <2>4, <1>es, <1>Q, <1>new
<1>child. PICK child : child = ChildAt(Last(p), FALSE, new)
  OBVIOUS
<1>13. child \in Child /\ child.meta = new /\ child.isDir = FALSE /\ child.name = Last(p)
  BY <1>4, <1>10, <1>child DEF ChildAt, Child, Unset
<1>last. PICK last : last = f[n]
  OBVIOUS
<1>14. last \in Folder /\ last = f[Len(f)]
  BY <1>4, <1>6, <1>7, <1>last
<1>g. PICK g : g = WithChild(last, item, child)
  OBVIOUS
<1>15. /\ g \in Folder /\ g.name = last.name /\ g.children = Append(last.children, child)
       /\ g.info.isDir = last.info.isDir
  BY <1>8, <1>13, <1>14, <1>g, WithChildFields
<1>h. PICK h : h = [f EXCEPT ![Len(f)] = g]
  OBVIOUS
<1>16. parents' = h
  <2>1. parents' = [f EXCEPT ![Len(parents)] = WithChild(@, item, child)]
    <3>1. Len(entries') = new
      BY <1>10
    <3> QED
      BY <1>f, <1>p, <1>child, <3>1 DEF AddFile
  <2>2. WithChild(f[Len(parents)], item, child) = g
    BY <1>last, <1>n, <1>g
  <2>3. Len(parents) = Len(f)
    BY <1>6, <1>n
  <2> QED
    BY <1>h, <2>1, <2>2, <2>3
<1>17. AttachedChild(es, Q, PathTo(f, Len(f)), child)
  <2>1. PathTo(f, Len(f)) = PathTo(parents, n)
    BY <1>4, <1>6
  <2>2. Q[new] = Append(PathTo(parents, n), child.name)
    <3>1. p = Append(PathTo(parents, n), Last(p))
      BY <1>4
    <3>2. Q[new] = p /\ child.name = Last(p)
      BY <1>11, <1>13
    <3> QED
      BY <3>1, <3>2, Zenon
  <2>3. new \in 1..Len(es) /\ es[new].info.isDir = FALSE
    BY <1>8, <1>9, <1>10
  <2> QED
    BY <1>13, <2>1, <2>2, <2>3 DEF AttachedChild
<1>18. Shape(h, es, Q, Unset)
  <2>1. new \in 1..Len(es)
    BY <1>10
  <2> QED
    BY <1>7, <1>12, <1>13, <1>14, <1>15, <1>17, <1>h, <2>1, Adopted
<1>19. /\ h \in Seq(Folder) /\ Len(h) = n /\ h[n] = g
       /\ \A k \in 1..n - 1 : h[k] = f[k]
  BY <1>6, <1>7, <1>15, <1>h, LastFolderReplaced
<1>20. ASSUME NEW k \in 1..n PROVE PathTo(h, k) = PathTo(parents, k)
  <2>1. \A j \in 1..n : h[j].name = f[j].name
    BY <1>4, <1>15, <1>19, <1>last
  <2>2. \A j \in 2..k : h[j].name = f[j].name
    BY <1>4, <2>1
  <2>3. PathTo(h, k) = PathTo(f, k)
    BY <1>6, <1>7, <1>19, <2>2, SamePathTo
  <2> QED
    BY <1>6, <2>3
<1>21. \A x : HasPlace(parents, P, x) \/ x = p => HasPlace(h, Q, x)
  <2>1. \A m \in 1..Len(P) : m \in 1..Len(Q) /\ Q[m] = P[m]
    BY <1>7, <1>11, <1>new
  <2>2. new \in 1..Len(Q) /\ Q[new] = p
    BY <1>10, <1>11
  <2>3. \A k \in 1..Len(parents) : k \in 1..Len(h) /\ PathTo(h, k) = PathTo(parents, k)
    BY <1>19, <1>20, <1>n
  <2> QED
    BY <2>1, <2>2, <2>3 DEF HasPlace
<1>22. Recorded(h, es, Q, listing, {})
  <2>1. \A k \in 1..Len(h) : Listed(listing, PathTo(h, k), TRUE)
    <3>1. \A k \in 1..Len(h) : k \in 1..Len(parents) /\ PathTo(h, k) = PathTo(parents, k)
      BY <1>19, <1>20, <1>n
    <3> QED
      BY <1>5, <3>1 DEF Recorded
  <2>2. ASSUME NEW m \in 1..Len(es) PROVE Listed(listing, Q[m], es[m].info.isDir)
    <3>1. CASE m \in 1..Len(entries)
      <4>1. Q[m] = P[m] /\ es[m] = entries[m]
        BY <1>7, <1>10, <1>11, <3>1
      <4> QED
        BY <1>5, <3>1, <4>1 DEF Recorded
    <3>2. CASE m = new
      <4>1. Q[m] = p /\ es[m].info.isDir = item.isDir
        BY <1>8, <1>9, <1>10, <1>11, <3>2
      <4> QED
        BY <1>5, <1>p, <4>1 DEF ItemWaits
    <3> QED
      BY <1>7, <1>10, <1>new, <3>1, <3>2
  <2>3. \A k \in 1..Len(listing) : HasPlace(h, Q, listing[k].path)
    BY <1>5, <1>21 DEF Recorded
  <2> QED
    BY <2>1, <2>2, <2>3 DEF Recorded
<1>23. Waiting' = {}
  BY <1>2 DEF Waiting
<1>24. parents' # <<>>
  BY <1>4, <1>16, <1>19
<1>25. Indexed(Q)'
  BY <1>2, <1>10, <1>16, <1>18, <1>22, <1>23, <1>24 DEF Indexed
<1>26. IndexTypeOK'
  BY <1>2, <1>3, <1>10, <1>16, <1>19 DEF IndexTypeOK, Folder, Entry
<1>27. BuildInv'
  BY <1>2, <1>25, <1>26 DEF BuildInv
<1> QED
  BY <1>p, <1>Q, <1>25, <1>27

(* Reading ends, and what was read is finished.                            *)
LEMMA PhaseKeeps ==
  ASSUME BuildInv, pc # "adding", pc' \in {"finishing", "panicked", "built"},
         pc' = "built" => parents = <<>>,
         UNCHANGED <<options, listing, parents, entries, rootMeta, item>>
  PROVE  BuildInv'
<1>1. PICK P : Indexed(P)
  BY DEF BuildInv
<1>2. IndexTypeOK'
  BY DEF IndexTypeOK, BuildInv
<1>3. Waiting' = Waiting
  BY DEF Waiting
<1>4. Indexed(P)'
  BY <1>1, <1>3 DEF Indexed, RootStored
<1> QED
  BY <1>2, <1>4 DEF BuildInv

LEMMA BuildKept == BuildInv /\ [BuildNext]_indexVars => BuildInv'
<1> SUFFICES ASSUME BuildInv, [BuildNext]_indexVars PROVE BuildInv'
  OBVIOUS
<1>i. \E P : Indexed(P)
  BY DEF BuildInv
<1>1. ASSUME NEW r \in Records(Paths), Read(r) PROVE BuildInv'
  BY <1>1, <1>i, Taken
<1>2. ASSUME NEW r \in Records(Paths), Panic(r) PROVE BuildInv'
  BY <1>2, PhaseKeeps DEF Panic, Refuse
<1>3. CASE EndOfRecords
  BY <1>3, PhaseKeeps DEF EndOfRecords
<1>4. CASE FinishFolder
  BY <1>4, <1>i, FolderFinished
<1>5. CASE AddFolder
  BY <1>5, <1>i, FolderAdded
<1>6. CASE AddFile
  BY <1>6, <1>i, FileAdded
<1>7. CASE Built
  BY <1>7, PhaseKeeps DEF Built
<1>8. CASE UNCHANGED indexVars
  <2>1. PICK P : Indexed(P)
    BY DEF BuildInv
  <2>2. Indexed(P)'
    BY <1>8, <2>1 DEF Indexed, RootStored, ItemWaits, InOpenFolders, Waiting, indexVars
  <2>3. IndexTypeOK' /\ (pc' = "built" => parents' = <<>>)
    BY <1>8 DEF BuildInv, IndexTypeOK, indexVars
  <2> QED
    BY <2>2, <2>3 DEF BuildInv
<1> QED
  BY <1>1, <1>2, <1>3, <1>4, <1>5, <1>6, <1>7, <1>8 DEF BuildNext
-------------------------------------------------------------------------------
(* Parts of sequences.                                                     *)
LEMMA CutSeq ==
  ASSUME NEW S, NEW s \in Seq(S), NEW m \in 0..Len(s)
  PROVE  /\ SubSeq(s, 1, m) \in Seq(S) /\ Len(SubSeq(s, 1, m)) = m
         /\ \A k \in 1..m : SubSeq(s, 1, m)[k] = s[k]
OBVIOUS

LEMMA WholeSeq ==
  ASSUME NEW S, NEW s \in Seq(S)
  PROVE  SubSeq(s, 1, Len(s)) = s
OBVIOUS

LEMMA PartSeq ==
  ASSUME NEW S, NEW s \in Seq(S), NEW i \in Nat, NEW j \in Nat, i <= j, j <= Len(s)
  PROVE  /\ SubSeq(s, i + 1, j) \in Seq(S) /\ Len(SubSeq(s, i + 1, j)) = j - i
         /\ \A k \in 1..j - i : SubSeq(s, i + 1, j)[k] = s[i + k]
OBVIOUS

(* The same part of two sequences that are equal there.                    *)
LEMMA SamePart ==
  ASSUME NEW S, NEW s \in Seq(S), NEW t \in Seq(S), NEW i \in Nat, NEW j \in Nat,
         i <= j, j <= Len(s), j <= Len(t), \A k \in i + 1..j : s[k] = t[k]
  PROVE  SubSeq(s, i + 1, j) = SubSeq(t, i + 1, j)
<1>a. PICK a : a = SubSeq(s, i + 1, j)
  OBVIOUS
<1>b. PICK b : b = SubSeq(t, i + 1, j)
  OBVIOUS
<1>1. a \in Seq(S) /\ Len(a) = j - i /\ \A k \in 1..j - i : a[k] = s[i + k]
  BY <1>a, PartSeq
<1>2. b \in Seq(S) /\ Len(b) = j - i /\ \A k \in 1..j - i : b[k] = t[i + k]
  BY <1>b, PartSeq
<1>3. \A k \in 1..j - i : i + k \in i + 1..j
  OBVIOUS
<1>4. a = b
  BY <1>1, <1>2, <1>3
<1> QED
  BY <1>4, <1>a, <1>b

LEMMA JoinedSeq ==
  ASSUME NEW S, NEW s \in Seq(S), NEW t \in Seq(S)
  PROVE  /\ s \o t \in Seq(S) /\ Len(s \o t) = Len(s) + Len(t)
         /\ \A k \in 1..Len(s) : (s \o t)[k] = s[k]
         /\ \A k \in 1..Len(t) : (s \o t)[Len(s) + k] = t[k]
         /\ SubSeq(s \o t, Len(s) + 1, Len(s \o t)) = t
<1>1. /\ s \o t \in Seq(S) /\ Len(s \o t) = Len(s) + Len(t)
      /\ \A k \in 1..Len(s) : (s \o t)[k] = s[k]
      /\ \A k \in 1..Len(t) : (s \o t)[Len(s) + k] = t[k]
  OBVIOUS
<1>u. PICK u : u = s \o t
  OBVIOUS
<1>2. SubSeq(u, Len(s) + 1, Len(u)) = t
  <2>a. PICK a : a = SubSeq(u, Len(s) + 1, Len(u))
    OBVIOUS
  <2>1. u \in Seq(S) /\ Len(u) = Len(s) + Len(t) /\ Len(s) \in Nat /\ Len(t) \in Nat
    BY <1>1, <1>u
  <2>2. Len(u) - Len(s) = Len(t) /\ Len(s) <= Len(u) /\ Len(u) \in Nat
    BY <2>1
  <2>3. a \in Seq(S) /\ Len(a) = Len(t) /\ \A k \in 1..Len(t) : a[k] = u[Len(s) + k]
    BY <2>1, <2>2, <2>a, PartSeq
  <2>4. \A k \in 1..Len(t) : a[k] = t[k]
    BY <1>1, <1>u, <2>3
  <2>5. a = t
    BY <2>3, <2>4
  <2> QED
    BY <2>5, <2>a
<1> QED
  BY <1>1, <1>2, <1>u

-------------------------------------------------------------------------------
(* A cursor that is somewhere in a finished index.                         *)
Ids == [folder : Nat, child : Nat]
Above == [id : Ids, next : Nat, cacheStart : Nat, pathLen : Nat]
CursorType == [parents : Seq(Above), cached : Seq(Ids), current : Ids, path : Seq(Names)]

Walkable(P) ==
  /\ entries \in Seq(Entry) /\ P \in Seq(Seq(Names)) /\ Len(P) = Len(entries)
  /\ EntriesAttached(entries, P)
  /\ RootStored(P)

(* The name of a child of the folder with this metadata.                   *)
IsChild(e, f) ==
  /\ e \in Ids
  /\ e.folder = f
  /\ e.child \in 1..Len(entries[f].children)

(* The folders that the cursor is in, from the root on.                    *)
InTrail(id, i, p, P) ==
  /\ Meta(id) \in 1..Len(entries)
  /\ IsFolder(id)
  /\ Len(P[Meta(id)]) = i - 1
  /\ \A k \in 1..i - 1 : P[Meta(id)][k] = p[k]

Trail(a, p, P) ==
  /\ a # <<>> /\ a[1].id = Root
  /\ \A i \in 1..Len(a) : InTrail(a[i].id, i, p, P) /\ a[i].pathLen = i - 1
  /\ \A i \in 2..Len(a) : IsChild(a[i].id, Meta(a[i - 1].id))

(* The parts of the cache.                                                 *)
PartEnd(a, b, i) == IF i = Len(a) THEN Len(b) ELSE a[i + 1].cacheStart

Cached(a, b) ==
  /\ a[1].cacheStart = 0
  /\ \A i, j \in 1..Len(a) : i <= j => a[i].cacheStart <= a[j].cacheStart
  /\ a[Len(a)].cacheStart <= Len(b)
  /\ \A i \in 1..Len(a) :
       SubSeq(b, a[i].cacheStart + 1, PartEnd(a, b, i)) \in {<<>>, Children(a[i].id)}

(* The last folder is selected, or a file in it.                           *)
AtFolder(a, e, p) == e = a[Len(a)].id /\ Len(p) = Len(a) - 1
AtFile(a, e, p) ==
  /\ IsChild(e, Meta(a[Len(a)].id)) /\ ~IsFolder(e)
  /\ Len(p) = Len(a) /\ p[Len(a)] = FileName(e)

At(a, b, e, p, P) ==
  /\ a \in Seq(Above) /\ b \in Seq(Ids) /\ e \in Ids /\ p \in Seq(Names)
  /\ Trail(a, p, P)
  /\ Cached(a, b)
  /\ AtFolder(a, e, p) \/ AtFile(a, e, p)

Positioned(c, P) == c \in CursorType /\ At(c.parents, c.cached, c.current, c.path, P)

LEMMA ChildFields ==
  ASSUME NEW P, Walkable(P), NEW f \in 1..Len(entries), NEW e, IsChild(e, f)
  PROVE  /\ Meta(e) \in 1..Len(entries) /\ FileName(e) \in Names
         /\ P[Meta(e)] = Append(P[f], FileName(e)) /\ P[f] \in Seq(Names)
         /\ IsFolder(e) \in BOOLEAN
         /\ e # Root /\ e # NoEntry /\ e = [folder |-> f, child |-> e.child]
         /\ Meta(e) = entries[f].children[e.child].meta
<1>1. entries \in Seq(Entry) /\ P \in Seq(Seq(Names)) /\ Len(P) = Len(entries)
  BY DEF Walkable
<1>2. entries[f] \in Entry
  BY <1>1
<1>cs. PICK cs : cs = entries[f].children
  OBVIOUS
<1>k. PICK k : k = e.child
  OBVIOUS
<1>3. cs \in Seq(Child) /\ k \in 1..Len(cs)
  BY <1>2, <1>cs, <1>k, EntryFields DEF IsChild
<1>4. e \in Ids /\ e.folder = f /\ e = [folder |-> f, child |-> k] /\ f # 0
  <2>1. e \in Ids /\ e.folder = f
    BY DEF IsChild
  <2>2. e = [folder |-> e.folder, child |-> e.child]
    BY <2>1 DEF Ids
  <2>3. f # 0
    OBVIOUS
  <2> QED
    BY <2>1, <2>2, <2>3, <1>k
<1>5. e # Root /\ e # NoEntry
  <2>1. Root.folder = 0 /\ NoEntry.folder = 0
    BY DEF Root, NoEntry
  <2> QED
    BY <1>4, <2>1
<1>6. cs[k] \in Child
  BY <1>3
<1>7. cs[k].meta \in Nat /\ cs[k].name \in Names
  BY <1>6 DEF Child
<1>8. Meta(e) = cs[k].meta /\ FileName(e) = cs[k].name
  BY <1>4, <1>5, <1>cs, <1>k DEF Meta, FileName
<1>9. AttachedChild(entries, P, P[f], cs[k])
  BY <1>3, <1>cs DEF Walkable, EntriesAttached, Attached
<1>10. /\ Meta(e) \in 1..Len(entries)
       /\ P[Meta(e)] = Append(P[f], FileName(e))
       /\ entries[Meta(e)].info.isDir = cs[k].isDir
  BY <1>8, <1>9 DEF AttachedChild
<1>11. IsFolder(e) \in BOOLEAN
  BY <1>6, <1>10 DEF IsFolder, Child
<1>12. P[f] \in Seq(Names)
  BY <1>1
<1> QED
  BY <1>4, <1>5, <1>7, <1>8, <1>10, <1>11, <1>12, <1>cs, <1>k

LEMMA ChildrenAre ==
  ASSUME NEW P, Walkable(P), NEW e, Meta(e) \in 1..Len(entries)
  PROVE  /\ Children(e) \in Seq(Ids) /\ Len(Children(e)) = Len(entries[Meta(e)].children)
         /\ \A k \in 1..Len(Children(e)) :
              /\ Children(e)[k] = [folder |-> Meta(e), child |-> k]
              /\ IsChild(Children(e)[k], Meta(e))
<1>f. PICK f : f = Meta(e)
  OBVIOUS
<1>1. f \in 1..Len(entries) /\ f \in Nat /\ entries[f] \in Entry
  BY <1>f DEF Walkable
<1>cs. PICK cs : cs = entries[f].children
  OBVIOUS
<1>2. cs \in Seq(Child)
  BY <1>1, <1>cs, EntryFields
<1>n. PICK n : n = Len(cs)
  OBVIOUS
<1>3. n \in Nat /\ DOMAIN cs = 1..n
  BY <1>2, <1>n
<1>4. Children(e) = [i \in 1..n |-> [folder |-> f, child |-> i]]
  BY <1>3, <1>f, <1>cs DEF Children
<1>5. \A i \in 1..n : [folder |-> f, child |-> i] \in Ids
  BY <1>1, <1>3 DEF Ids
<1>ch. PICK ch : ch = Children(e)
  OBVIOUS
<1>6. ch \in [1..n -> Ids] /\ \A i \in 1..n : ch[i] = [folder |-> f, child |-> i]
  BY <1>4, <1>5, <1>ch
<1>7. ch \in Seq(Ids) /\ Len(ch) = n
  BY <1>3, <1>6
<1>8. ASSUME NEW k \in 1..n PROVE IsChild(ch[k], f)
  <2>1. ch[k] = [folder |-> f, child |-> k] /\ ch[k] \in Ids
    BY <1>5, <1>6
  <2>2. ch[k].folder = f /\ ch[k].child = k
    BY <2>1
  <2>3. k \in 1..Len(entries[f].children)
    BY <1>n, <1>cs
  <2> QED
    BY <2>1, <2>2, <2>3 DEF IsChild
<1>9. /\ ch \in Seq(Ids) /\ Len(ch) = Len(entries[f].children)
      /\ \A k \in 1..Len(ch) : ch[k] = [folder |-> f, child |-> k] /\ IsChild(ch[k], f)
  BY <1>6, <1>7, <1>8, <1>n, <1>cs
<1> QED
  BY <1>9, <1>ch, <1>f, Zenon

LEMMA CursorFields ==
  ASSUME NEW c \in CursorType
  PROVE  /\ c.parents \in Seq(Above) /\ c.cached \in Seq(Ids)
         /\ c.current \in Ids /\ c.path \in Seq(Names)
         /\ c = [parents |-> c.parents, cached |-> c.cached,
                 current |-> c.current, path |-> c.path]
BY DEF CursorType

LEMMA AboveFields ==
  ASSUME NEW a \in Seq(Above), NEW i \in 1..Len(a)
  PROVE  /\ a[i].id \in Ids /\ a[i].next \in Nat
         /\ a[i].cacheStart \in Nat /\ a[i].pathLen \in Nat
<1>1. a[i] \in Above
  OBVIOUS
<1> QED
  BY <1>1 DEF Above

(* Back to a folder that the cursor is in: the names, and the cache.       *)
LEMMA TrailCut ==
  ASSUME NEW P, NEW a \in Seq(Above), NEW p \in Seq(Names), Trail(a, p, P),
         NEW m \in 1..Len(a), m - 1 <= Len(p)
  PROVE  Trail(SubSeq(a, 1, m), SubSeq(p, 1, m - 1), P)
<1>a. PICK s : s = SubSeq(a, 1, m)
  OBVIOUS
<1>p. PICK q : q = SubSeq(p, 1, m - 1)
  OBVIOUS
<1>1. Len(s) = m /\ \A i \in 1..m : s[i] = a[i]
  <2>1. m \in 0..Len(a)
    OBVIOUS
  <2> QED
    BY <2>1, <1>a, CutSeq
<1>2. Len(q) = m - 1 /\ \A k \in 1..m - 1 : q[k] = p[k]
  <2>1. m - 1 \in 0..Len(p)
    OBVIOUS
  <2> QED
    BY <2>1, <1>p, CutSeq
<1>3. s # <<>> /\ s[1].id = Root
  BY <1>1 DEF Trail
<1>4. ASSUME NEW i \in 1..Len(s) PROVE InTrail(s[i].id, i, q, P) /\ s[i].pathLen = i - 1
  <2>1. s[i] = a[i] /\ i \in 1..Len(a) /\ i <= m
    BY <1>1
  <2>2. InTrail(a[i].id, i, p, P) /\ a[i].pathLen = i - 1
    BY <2>1 DEF Trail
  <2>3. \A k \in 1..i - 1 : k \in 1..m - 1
    BY <2>1
  <2>4. \A k \in 1..i - 1 : q[k] = p[k]
    BY <1>2, <2>3
  <2> QED
    BY <2>1, <2>2, <2>4 DEF InTrail
<1>5. ASSUME NEW i \in 2..Len(s) PROVE IsChild(s[i].id, Meta(s[i - 1].id))
  <2>1. s[i] = a[i] /\ s[i - 1] = a[i - 1] /\ i \in 2..Len(a)
    BY <1>1
  <2>2. IsChild(a[i].id, Meta(a[i - 1].id))
    BY <2>1 DEF Trail
  <2> QED
    BY <2>1, <2>2
<1>6. Trail(s, q, P)
  BY <1>3, <1>4, <1>5 DEF Trail
<1> QED
  BY <1>6, <1>a, <1>p

LEMMA PartEndIs ==
  ASSUME NEW a \in Seq(Above), NEW b \in Seq(Ids), a # <<>>, Cached(a, b),
         NEW i \in 1..Len(a)
  PROVE  /\ PartEnd(a, b, i) \in Nat /\ a[i].cacheStart \in Nat
         /\ a[i].cacheStart <= PartEnd(a, b, i) /\ PartEnd(a, b, i) <= Len(b)
<1>n. PICK n : n = Len(a)
  OBVIOUS
<1>1. n \in Nat /\ n \in 1..Len(a) /\ i \in 1..n
  BY <1>n
<1>2. a[i].cacheStart \in Nat /\ a[n].cacheStart \in Nat
  BY <1>1, AboveFields
<1>3. a[n].cacheStart <= Len(b) /\ a[i].cacheStart <= a[n].cacheStart /\ Len(b) \in Nat
  BY <1>1, <1>n DEF Cached
<1>4. CASE i = n
  <2>1. PartEnd(a, b, i) = Len(b)
    BY <1>4, <1>n DEF PartEnd
  <2> QED
    BY <2>1, <1>2, <1>3
<1>5. CASE i # n
  <2>1. PartEnd(a, b, i) = a[i + 1].cacheStart /\ i + 1 \in 1..Len(a) /\ i <= i + 1 /\ i + 1 <= n
    BY <1>1, <1>5, <1>n DEF PartEnd
  <2>2. a[i + 1].cacheStart \in Nat
    BY <2>1, AboveFields
  <2>3. a[i].cacheStart <= a[i + 1].cacheStart /\ a[i + 1].cacheStart <= a[n].cacheStart
    BY <2>1, <1>1 DEF Cached
  <2> QED
    BY <2>1, <2>2, <2>3, <1>2, <1>3
<1> QED
  BY <1>4, <1>5

LEMMA CachedCut ==
  ASSUME NEW a \in Seq(Above), NEW b \in Seq(Ids), a # <<>>, Cached(a, b),
         NEW m \in 1..Len(a)
  PROVE  Cached(SubSeq(a, 1, m), SubSeq(b, 1, PartEnd(a, b, m)))
<1>e. PICK e : e = PartEnd(a, b, m)
  OBVIOUS
<1>1. e \in 0..Len(b) /\ e \in Nat
  BY <1>e, PartEndIs
<1>a. PICK s : s = SubSeq(a, 1, m)
  OBVIOUS
<1>b. PICK t : t = SubSeq(b, 1, e)
  OBVIOUS
<1>2. s \in Seq(Above) /\ Len(s) = m /\ \A i \in 1..m : s[i] = a[i]
  <2>1. m \in 0..Len(a)
    OBVIOUS
  <2> QED
    BY <2>1, <1>a, CutSeq
<1>3. t \in Seq(Ids) /\ Len(t) = e /\ \A k \in 1..e : t[k] = b[k]
  BY <1>1, <1>b, CutSeq
<1>4. s[1].cacheStart = 0
  BY <1>2 DEF Cached
<1>5. ASSUME NEW i \in 1..Len(s), NEW j \in 1..Len(s), i <= j
      PROVE  s[i].cacheStart <= s[j].cacheStart
  <2>1. i \in 1..Len(a) /\ j \in 1..Len(a) /\ s[i] = a[i] /\ s[j] = a[j]
    BY <1>2
  <2> QED
    BY <2>1, <1>5 DEF Cached
<1>6. s[Len(s)].cacheStart <= Len(t)
  <2>1. s[Len(s)] = a[m]
    BY <1>2
  <2> QED
    BY <2>1, <1>3, <1>e, PartEndIs
<1>7. ASSUME NEW i \in 1..Len(s)
      PROVE  SubSeq(t, s[i].cacheStart + 1, PartEnd(s, t, i)) \in {<<>>, Children(s[i].id)}
  <2>1. i \in 1..Len(a) /\ s[i] = a[i] /\ i \in 1..m
    BY <1>2
  <2>2. PartEnd(s, t, i) = PartEnd(a, b, i)
    <3>1. CASE i = m
      BY <3>1, <1>2, <1>3, <1>e DEF PartEnd
    <3>2. CASE i # m
      <4>1. i + 1 \in 1..m /\ i # Len(a)
        BY <2>1, <3>2
      <4> QED
        BY <3>2, <4>1, <1>2 DEF PartEnd
    <3> QED
      BY <3>1, <3>2
  <2>f. PICK f : f = PartEnd(a, b, i)
    OBVIOUS
  <2>g. PICK g : g = a[i].cacheStart
    OBVIOUS
  <2>3. f \in Nat /\ g \in Nat /\ g <= f
    BY <2>1, <2>f, <2>g, PartEndIs
  <2>4. f <= e
    <3>1. CASE i = m
      BY <3>1, <2>3, <2>f, <1>e
    <3>2. CASE i # m
      <4>1. f = a[i + 1].cacheStart /\ i + 1 \in 1..Len(a) /\ i + 1 <= m
        BY <2>1, <3>2, <2>f DEF PartEnd
      <4>2. a[i + 1].cacheStart <= a[m].cacheStart
        BY <4>1 DEF Cached
      <4>3. a[m].cacheStart <= e /\ a[m].cacheStart \in Nat
        BY <1>e, PartEndIs
      <4> QED
        BY <4>1, <4>2, <4>3, <2>3, <1>1
    <3> QED
      BY <3>1, <3>2
  <2>5. f <= Len(t) /\ f <= Len(b)
    BY <1>1, <1>3, <2>3, <2>4
  <2>6. \A k \in g + 1..f : t[k] = b[k]
    BY <1>1, <1>3, <2>3, <2>4
  <2>7. SubSeq(t, g + 1, f) = SubSeq(b, g + 1, f)
    BY <1>3, <2>3, <2>5, <2>6, SamePart
  <2>8. SubSeq(b, g + 1, f) \in {<<>>, Children(a[i].id)}
    BY <2>1, <2>f, <2>g DEF Cached
  <2> QED
    BY <2>1, <2>2, <2>7, <2>8, <2>f, <2>g
<1>8. Cached(s, t)
  BY <1>4, <1>5, <1>6, <1>7 DEF Cached
<1> QED
  BY <1>8, <1>a, <1>b, <1>e

(* The selected folder has the names of the path after the root's.         *)
LEMMA Depth ==
  ASSUME NEW P, NEW a, NEW b, NEW e, NEW p, At(a, b, e, p, P)
  PROVE  /\ Len(a) \in Nat \ {0} /\ Len(p) \in Nat
         /\ Len(p) = Len(a) - 1 \/ Len(p) = Len(a)
         /\ a # <<>>
<1>1. a \in Seq(Above) /\ p \in Seq(Names) /\ a # <<>>
  BY DEF At, Trail
<1>2. Len(p) = Len(a) - 1 \/ Len(p) = Len(a)
  BY DEF At, AtFolder, AtFile
<1>3. Len(a) \in Nat \ {0} /\ Len(p) \in Nat
  BY <1>1
<1> QED
  BY <1>1, <1>2, <1>3

LEMMA RaisedAt ==
  ASSUME NEW P, NEW a, NEW b, NEW e, NEW p, At(a, b, e, p, P), NEW m \in 1..Len(a)
  PROVE  At(SubSeq(a, 1, m), SubSeq(b, 1, PartEnd(a, b, m)), a[m].id, SubSeq(p, 1, m - 1), P)
<1>1. /\ a \in Seq(Above) /\ b \in Seq(Ids) /\ p \in Seq(Names)
      /\ Trail(a, p, P) /\ Cached(a, b)
  BY DEF At
<1>2. m \in 0..Len(a) /\ m - 1 \in 0..Len(p) /\ m - 1 <= Len(p) /\ a # <<>>
  BY Depth
<1>3. /\ SubSeq(a, 1, m) \in Seq(Above) /\ Len(SubSeq(a, 1, m)) = m
      /\ SubSeq(a, 1, m)[m] = a[m]
  <2>1. m \in 1..m
    OBVIOUS
  <2> QED
    BY <1>1, <1>2, <2>1, CutSeq
<1>4. SubSeq(b, 1, PartEnd(a, b, m)) \in Seq(Ids)
  <2>1. PartEnd(a, b, m) \in 0..Len(b)
    BY <1>1, <1>2, PartEndIs
  <2> QED
    BY <1>1, <2>1, CutSeq
<1>5. SubSeq(p, 1, m - 1) \in Seq(Names) /\ Len(SubSeq(p, 1, m - 1)) = m - 1
  BY <1>1, <1>2, CutSeq
<1>6. a[m].id \in Ids
  BY <1>1, AboveFields
<1>7. Trail(SubSeq(a, 1, m), SubSeq(p, 1, m - 1), P)
  BY <1>1, <1>2, TrailCut
<1>8. Cached(SubSeq(a, 1, m), SubSeq(b, 1, PartEnd(a, b, m)))
  BY <1>1, <1>2, CachedCut
<1>9. AtFolder(SubSeq(a, 1, m), a[m].id, SubSeq(p, 1, m - 1))
  BY <1>3, <1>5, Zenon DEF AtFolder
<1> QED
  BY <1>3, <1>4, <1>5, <1>6, <1>7, <1>8, <1>9, Zenon DEF At

(* go_to_parent_at_index and what clears up before it.                     *)
LEMMA Raised ==
  ASSUME NEW P, NEW c, Positioned(c, P), NEW m \in 1..Len(c.parents)
  PROVE  /\ Positioned(SelectFolder(Closed(c, m)), P)
         /\ Len(SelectFolder(Closed(c, m)).parents) = m
         /\ \A i \in 1..m : SelectFolder(Closed(c, m)).parents[i] = c.parents[i]
         /\ SelectFolder(Closed(c, m)).current = c.parents[m].id
         /\ SelectFolder(Closed(c, m)).path = SubSeq(c.path, 1, m - 1)
<1>1. PICK a, b, e, p : /\ c = [parents |-> a, cached |-> b, current |-> e, path |-> p]
                        /\ a = c.parents /\ b = c.cached /\ e = c.current /\ p = c.path
  BY CursorFields DEF Positioned
<1>2. At(a, b, e, p, P) /\ m \in 1..Len(a)
  BY <1>1 DEF Positioned
<1>3. a \in Seq(Above) /\ b \in Seq(Ids) /\ p \in Seq(Names) /\ Trail(a, p, P) /\ a # <<>>
  BY <1>2, Depth DEF At
<1>s. PICK s : s = SubSeq(a, 1, m)
  OBVIOUS
<1>t. PICK t : t = SubSeq(b, 1, PartEnd(a, b, m))
  OBVIOUS
<1>4. s \in Seq(Above) /\ Len(s) = m /\ \A i \in 1..m : s[i] = a[i]
  <2>1. m \in 0..Len(a)
    BY <1>2
  <2> QED
    BY <2>1, <1>3, <1>s, CutSeq
<1>5. Closed(c, m) = [parents |-> s, cached |-> t, current |-> e, path |-> p]
  <2>1. CASE m < Len(a)
    <3>1. PartEnd(a, b, m) = a[m + 1].cacheStart
      BY <2>1 DEF PartEnd
    <3>2. t = SubSeq(b, 1, a[m + 1].cacheStart)
      BY <3>1, <1>t
    <3>3. Closed(c, m) = [c EXCEPT !.cached = SubSeq(@, 1, c.parents[m + 1].cacheStart),
                                   !.parents = SubSeq(@, 1, m)]
      BY <2>1, <1>1 DEF Closed
    <3>4. Closed(c, m) = [parents |-> SubSeq(a, 1, m),
                          cached |-> SubSeq(b, 1, a[m + 1].cacheStart), current |-> e, path |-> p]
      BY <3>3, <1>1
    <3> QED
      BY <3>2, <3>4, <1>s
  <2>2. CASE ~(m < Len(a))
    <3>1. m = Len(a)
      BY <2>2, <1>2, <1>3
    <3>2. s = a
      BY <3>1, <1>3, <1>s, WholeSeq
    <3>3. PartEnd(a, b, m) = Len(b)
      BY <3>1 DEF PartEnd
    <3>4. t = b
      BY <3>3, <1>3, <1>t, WholeSeq
    <3>5. Closed(c, m) = c
      BY <2>2, <1>1 DEF Closed
    <3> QED
      BY <3>2, <3>4, <3>5, <1>1
  <2> QED
    BY <2>1, <2>2
<1>6. s # <<>> /\ Last(s) = s[m] /\ s[m] = a[m] /\ a[m].pathLen = m - 1
  <2>1. s # <<>>
    BY <1>4
  <2>2. Last(s) = s[m]
    BY <1>4 DEF Last
  <2>3. a[m].pathLen = m - 1 /\ s[m] = a[m]
    BY <1>2, <1>3, <1>4 DEF Trail
  <2> QED
    BY <2>1, <2>2, <2>3
<1>c. PICK d : d = Closed(c, m)
  OBVIOUS
<1>7. SelectFolder(d) = [d EXCEPT !.current = Last(d.parents).id,
                                  !.path = SubSeq(@, 1, Last(d.parents).pathLen)]
  BY <1>5, <1>6, <1>c DEF SelectFolder
<1>q. PICK q : q = SubSeq(p, 1, m - 1)
  OBVIOUS
<1>i. PICK id : id = a[m].id
  OBVIOUS
<1>8. SelectFolder(d) = [parents |-> s, cached |-> t, current |-> id, path |-> q]
  <2>1. d = [parents |-> s, cached |-> t, current |-> e, path |-> p]
    BY <1>5, <1>c
  <2>2. SelectFolder(d) = [parents |-> s, cached |-> t, current |-> Last(s).id,
                           path |-> SubSeq(p, 1, Last(s).pathLen)]
    BY <1>7, <2>1
  <2>3. Last(s).id = id /\ Last(s).pathLen = m - 1
    BY <1>6, <1>i
  <2> QED
    BY <2>2, <2>3, <1>q
<1>9. At(s, t, id, q, P)
  BY <1>2, <1>s, <1>t, <1>i, <1>q, RaisedAt
<1>10. [parents |-> s, cached |-> t, current |-> id, path |-> q] \in CursorType
  BY <1>9 DEF At, CursorType
<1>11. Positioned([parents |-> s, cached |-> t, current |-> id, path |-> q], P)
  BY <1>9, <1>10 DEF Positioned
<1>12. c.parents = a /\ c.path = p
  BY <1>1
<1> QED
  BY <1>4, <1>8, <1>11, <1>12, <1>c, <1>i, <1>q

(* What the cursor keeps of a folder but the next child.                   *)
SameAbove(s, a) ==
  /\ s \in Seq(Above) /\ Len(s) = Len(a)
  /\ \A i \in 1..Len(a) :
       s[i].id = a[i].id /\ s[i].cacheStart = a[i].cacheStart /\ s[i].pathLen = a[i].pathLen

LEMMA SameAt ==
  ASSUME NEW P, NEW a, NEW b, NEW e, NEW p, At(a, b, e, p, P), NEW s, SameAbove(s, a)
  PROVE  At(s, b, e, p, P)
<1>1. /\ a \in Seq(Above) /\ b \in Seq(Ids) /\ e \in Ids /\ p \in Seq(Names)
      /\ Trail(a, p, P) /\ Cached(a, b)
      /\ Len(a) \in Nat \ {0}
  BY Depth DEF At
<1>2. /\ s \in Seq(Above) /\ Len(s) = Len(a)
      /\ \A i \in 1..Len(a) :
           s[i].id = a[i].id /\ s[i].cacheStart = a[i].cacheStart /\ s[i].pathLen = a[i].pathLen
  BY DEF SameAbove
<1>3. 1 \in 1..Len(a) /\ Len(a) \in 1..Len(a) /\ s # <<>>
  BY <1>1, <1>2
<1>4. Trail(s, p, P)
  <2>1. s[1].id = Root
    BY <1>1, <1>2, <1>3 DEF Trail
  <2>2. \A i \in 1..Len(s) : InTrail(s[i].id, i, p, P) /\ s[i].pathLen = i - 1
    BY <1>1, <1>2 DEF Trail
  <2>3. ASSUME NEW i \in 2..Len(s) PROVE IsChild(s[i].id, Meta(s[i - 1].id))
    <3>1. i \in 1..Len(a) /\ i - 1 \in 1..Len(a) /\ i \in 2..Len(a)
      BY <1>2
    <3>2. IsChild(a[i].id, Meta(a[i - 1].id))
      BY <1>1, <3>1 DEF Trail
    <3> QED
      BY <1>2, <3>1, <3>2
  <2> QED
    BY <1>3, <2>1, <2>2, <2>3 DEF Trail
<1>5. Cached(s, b)
  <2>1. ASSUME NEW i \in 1..Len(a) PROVE PartEnd(s, b, i) = PartEnd(a, b, i)
    <3>1. i # Len(a) => i + 1 \in 1..Len(a)
      BY <1>1
    <3> QED
      BY <1>2, <3>1 DEF PartEnd
  <2>2. s[1].cacheStart = 0 /\ s[Len(s)].cacheStart <= Len(b)
    BY <1>1, <1>2, <1>3 DEF Cached
  <2>3. \A i, j \in 1..Len(s) : i <= j => s[i].cacheStart <= s[j].cacheStart
    BY <1>1, <1>2 DEF Cached
  <2>4. ASSUME NEW i \in 1..Len(s)
        PROVE  SubSeq(b, s[i].cacheStart + 1, PartEnd(s, b, i)) \in {<<>>, Children(s[i].id)}
    <3>1. i \in 1..Len(a) /\ s[i].id = a[i].id /\ s[i].cacheStart = a[i].cacheStart
      BY <1>2
    <3>2. SubSeq(b, a[i].cacheStart + 1, PartEnd(a, b, i)) \in {<<>>, Children(a[i].id)}
      BY <1>1, <3>1 DEF Cached
    <3> QED
      BY <3>1, <3>2, <2>1
  <2> QED
    BY <2>2, <2>3, <2>4 DEF Cached
<1>6. AtFolder(s, e, p) \/ AtFile(s, e, p)
  <2>1. s[Len(s)].id = a[Len(a)].id /\ Len(s) = Len(a)
    BY <1>2, <1>3
  <2> QED
    BY <2>1 DEF At, AtFolder, AtFile
<1> QED
  BY <1>1, <1>2, <1>4, <1>5, <1>6 DEF At

LEMMA NextChanged ==
  ASSUME NEW P, NEW c, Positioned(c, P), NEW m \in 1..Len(c.parents)
  PROVE  LET d == [c EXCEPT !.parents[m].next = @ + 1] IN
         /\ Positioned(d, P)
         /\ Len(d.parents) = Len(c.parents)
         /\ \A i \in 1..Len(c.parents) : d.parents[i].id = c.parents[i].id
         /\ d.current = c.current /\ d.path = c.path
<1>1. PICK a, b, e, p : /\ c = [parents |-> a, cached |-> b, current |-> e, path |-> p]
                        /\ a = c.parents /\ b = c.cached /\ e = c.current /\ p = c.path
  BY CursorFields DEF Positioned
<1>2. At(a, b, e, p, P) /\ m \in 1..Len(a) /\ a \in Seq(Above)
  BY <1>1 DEF Positioned, At
<1>x. PICK x : x = [a[m] EXCEPT !.next = @ + 1]
  OBVIOUS
<1>3. x \in Above /\ x.id = a[m].id /\ x.cacheStart = a[m].cacheStart /\ x.pathLen = a[m].pathLen
  <2>1. a[m] \in Above
    BY <1>2
  <2> QED
    BY <2>1, <1>x DEF Above
<1>s. PICK s : s = [a EXCEPT ![m] = x]
  OBVIOUS
<1>4. s \in Seq(Above) /\ Len(s) = Len(a) /\ s[m] = x
      /\ \A i \in 1..Len(a) : i # m => s[i] = a[i]
  BY <1>2, <1>3, <1>s
<1>5. SameAbove(s, a)
  BY <1>3, <1>4 DEF SameAbove
<1>6. [c EXCEPT !.parents[m].next = @ + 1] =
        [parents |-> s, cached |-> b, current |-> e, path |-> p]
  <2>1. c.parents = a
    BY <1>1
  <2>2. [c EXCEPT !.parents[m].next = @ + 1] =
          [c EXCEPT !.parents = [a EXCEPT ![m] = [a[m] EXCEPT !.next = a[m].next + 1]]]
    BY <2>1
  <2>3. [c EXCEPT !.parents[m].next = @ + 1] = [c EXCEPT !.parents = s]
    BY <2>2, <1>x, <1>s
  <2>4. [c EXCEPT !.parents = s] = [parents |-> s, cached |-> b, current |-> e, path |-> p]
    BY <1>1
  <2> QED
    BY <2>3, <2>4
<1>7. At(s, b, e, p, P)
  BY <1>2, <1>5, SameAt
<1>8. [parents |-> s, cached |-> b, current |-> e, path |-> p] \in CursorType
  BY <1>7 DEF At, CursorType
<1>9. Positioned([parents |-> s, cached |-> b, current |-> e, path |-> p], P)
  BY <1>7, <1>8 DEF Positioned
<1>10. Len(s) = Len(a) /\ \A i \in 1..Len(a) : s[i].id = a[i].id
  BY <1>5 DEF SameAbove
<1>11. c.parents = a /\ c.current = e /\ c.path = p
  BY <1>1
<1> QED
  BY <1>6, <1>9, <1>10, <1>11

(* The path of the selected entry.                                         *)
LEMMA SeqsEqual ==
  ASSUME NEW S, NEW x \in Seq(S), NEW y \in Seq(S), Len(x) = Len(y),
         \A k \in 1..Len(y) : x[k] = y[k]
  PROVE  x = y
OBVIOUS

LEMMA FolderPlace ==
  ASSUME NEW P, Walkable(P), NEW a, NEW b, NEW e, NEW p, At(a, b, e, p, P), AtFolder(a, e, p)
  PROVE  /\ Meta(e) \in 1..Len(entries) /\ IsFolder(e)
         /\ P[Meta(e)] = p
         /\ e = a[Len(a)].id
<1>1. /\ a \in Seq(Above) /\ p \in Seq(Names) /\ Trail(a, p, P)
      /\ Len(a) \in Nat \ {0} /\ Len(a) \in 1..Len(a)
  BY Depth DEF At
<1>2. e = a[Len(a)].id /\ Len(p) = Len(a) - 1
  BY DEF AtFolder
<1>3. InTrail(e, Len(a), p, P)
  BY <1>1, <1>2 DEF Trail
<1>m. PICK m : m = Meta(e)
  OBVIOUS
<1>4. /\ m \in 1..Len(entries) /\ IsFolder(e) /\ Len(P[m]) = Len(a) - 1
      /\ \A k \in 1..Len(a) - 1 : P[m][k] = p[k]
  BY <1>3, <1>m DEF InTrail
<1>5. P[m] \in Seq(Names)
  BY <1>4 DEF Walkable
<1>q. PICK q : q = P[m]
  OBVIOUS
<1>6. q = p
  <2>1. q \in Seq(Names) /\ Len(q) = Len(p)
    BY <1>2, <1>4, <1>5, <1>q
  <2>2. \A k \in 1..Len(p) : q[k] = p[k]
    BY <1>2, <1>4, <1>q
  <2> QED
    BY <2>1, <2>2, <1>1, SeqsEqual
<1> QED
  BY <1>2, <1>4, <1>6, <1>m, <1>q

LEMMA TrailMore ==
  ASSUME NEW P, NEW a \in Seq(Above), NEW p \in Seq(Names), Trail(a, p, P),
         Len(p) = Len(a) - 1, NEW name \in Names
  PROVE  Trail(a, Append(p, name), P)
<1>q. PICK q : q = Append(p, name)
  OBVIOUS
<1>1. \A k \in 1..Len(p) : q[k] = p[k]
  BY <1>q
<1>2. ASSUME NEW i \in 1..Len(a) PROVE InTrail(a[i].id, i, q, P)
  <2>1. InTrail(a[i].id, i, p, P)
    BY DEF Trail
  <2>2. \A k \in 1..i - 1 : k \in 1..Len(p)
    OBVIOUS
  <2>3. \A k \in 1..i - 1 : q[k] = p[k]
    BY <1>1, <2>2
  <2> QED
    BY <2>1, <2>3 DEF InTrail
<1>3. Trail(a, q, P)
  BY <1>2 DEF Trail
<1> QED
  BY <1>3, <1>q

LEMMA ChildAtFolder ==
  ASSUME NEW P, Walkable(P), NEW a, NEW b, NEW e, NEW p, At(a, b, e, p, P), AtFolder(a, e, p),
         NEW new, IsChild(new, Meta(e)), IsFolder(new),
         NEW x, x = [id |-> new, next |-> 1, cacheStart |-> Len(b), pathLen |-> Len(p) + 1]
  PROVE  At(Append(a, x), b, new, Append(p, FileName(new)), P)
<1>1. /\ a \in Seq(Above) /\ b \in Seq(Ids) /\ p \in Seq(Names)
      /\ Trail(a, p, P) /\ Cached(a, b)
      /\ Len(a) \in Nat \ {0} /\ a # <<>>
  BY Depth DEF At
<1>2. Len(p) = Len(a) - 1 /\ e = a[Len(a)].id
  BY DEF AtFolder
<1>f. PICK f : f = Meta(e)
  OBVIOUS
<1>3. f \in 1..Len(entries) /\ P[f] = p
  BY FolderPlace, <1>f
<1>g. PICK name : name = FileName(new)
  OBVIOUS
<1>4. IsChild(new, f)
  BY <1>f
<1>5. /\ Meta(new) \in 1..Len(entries) /\ name \in Names
      /\ P[Meta(new)] = Append(P[f], name)
  BY <1>3, <1>4, <1>g, ChildFields
<1>6. new \in Ids
  BY DEF IsChild
<1>7. x \in Above /\ x.id = new /\ x.cacheStart = Len(b) /\ x.pathLen = Len(a)
  <2>1. Len(b) \in Nat /\ Len(p) + 1 \in Nat /\ Len(p) + 1 = Len(a) /\ 1 \in Nat
    BY <1>1, <1>2
  <2> QED
    BY <2>1, <1>6 DEF Above
<1>s. PICK s : s = Append(a, x)
  OBVIOUS
<1>q. PICK q : q = Append(p, name)
  OBVIOUS
<1>8. /\ s \in Seq(Above) /\ Len(s) = Len(a) + 1 /\ s[Len(a) + 1] = x
      /\ \A i \in 1..Len(a) : s[i] = a[i]
  BY <1>1, <1>7, <1>s
<1>9. /\ q \in Seq(Names) /\ Len(q) = Len(a)
  BY <1>1, <1>2, <1>5, <1>q
<1>10. Trail(a, q, P)
  BY <1>1, <1>2, <1>5, <1>q, TrailMore
<1>11. Trail(s, q, P)
  <2>1. s # <<>> /\ s[1].id = Root
    <3>1. 1 \in 1..Len(a)
      BY <1>1
    <3>2. s[1] = a[1] /\ s # <<>>
      BY <3>1, <1>8
    <3> QED
      BY <3>2, <1>10 DEF Trail
  <2>2. InTrail(new, Len(a) + 1, q, P)
    <3>1. P[Meta(new)] = q
      BY <1>3, <1>5, <1>q
    <3> QED
      BY <3>1, <1>5, <1>9, <1>1 DEF InTrail
  <2>3. ASSUME NEW i \in 1..Len(s) PROVE InTrail(s[i].id, i, q, P) /\ s[i].pathLen = i - 1
    <3>1. CASE i = Len(a) + 1
      BY <3>1, <2>2, <1>1, <1>7, <1>8
    <3>2. CASE i # Len(a) + 1
      <4>1. i \in 1..Len(a) /\ s[i] = a[i]
        BY <3>2, <1>1, <1>8
      <4> QED
        BY <4>1, <1>10 DEF Trail
    <3> QED
      BY <3>1, <3>2
  <2>4. ASSUME NEW i \in 2..Len(s) PROVE IsChild(s[i].id, Meta(s[i - 1].id))
    <3>1. CASE i = Len(a) + 1
      <4>1. i - 1 = Len(a) /\ Len(a) \in 1..Len(a)
        BY <3>1, <1>1
      <4>2. s[Len(a)] = a[Len(a)]
        BY <4>1, <1>8
      <4>3. s[i] = x
        BY <3>1, <1>8
      <4>4. s[i - 1] = a[Len(a)]
        BY <4>1, <4>2
      <4> QED
        BY <4>3, <4>4, <1>2, <1>4, <1>7, <1>f
    <3>2. CASE i # Len(a) + 1
      <4>1. i \in 2..Len(a) /\ s[i] = a[i] /\ s[i - 1] = a[i - 1]
        BY <3>2, <1>1, <1>8
      <4>2. IsChild(a[i].id, Meta(a[i - 1].id))
        BY <4>1, <1>1 DEF Trail
      <4> QED
        BY <4>1, <4>2
    <3> QED
      BY <3>1, <3>2
  <2> QED
    BY <2>1, <2>3, <2>4 DEF Trail
<1>12. Cached(s, b)
  <2>1. \A i \in 1..Len(a) : a[i].cacheStart \in Nat /\ a[i].cacheStart <= Len(b)
    <3> SUFFICES ASSUME NEW i \in 1..Len(a)
                 PROVE  a[i].cacheStart \in Nat /\ a[i].cacheStart <= Len(b)
      OBVIOUS
    <3>1. /\ PartEnd(a, b, i) \in Nat /\ a[i].cacheStart \in Nat
          /\ a[i].cacheStart <= PartEnd(a, b, i) /\ PartEnd(a, b, i) <= Len(b)
      BY <1>1, PartEndIs
    <3>2. Len(b) \in Nat
      BY <1>1
    <3> QED
      BY <3>1, <3>2
  <2>2. s[1].cacheStart = 0 /\ s[Len(s)].cacheStart <= Len(b)
    <3>1. s[1] = a[1] /\ s[Len(s)] = x /\ Len(b) \in Nat
      BY <1>1, <1>8
    <3> QED
      BY <3>1, <1>1, <1>7 DEF Cached
  <2>3. ASSUME NEW i \in 1..Len(s), NEW j \in 1..Len(s), i <= j
        PROVE  s[i].cacheStart <= s[j].cacheStart
    <3>1. CASE j \in 1..Len(a)
      <4>1. i \in 1..Len(a) /\ s[i] = a[i] /\ s[j] = a[j]
        BY <3>1, <2>3, <1>8
      <4> QED
        BY <4>1, <3>1, <2>3, <1>1 DEF Cached
    <3>2. CASE j = Len(a) + 1
      <4>1. s[j].cacheStart = Len(b) /\ Len(b) \in Nat
        BY <3>2, <1>1, <1>7, <1>8
      <4>2. s[i].cacheStart <= Len(b)
        BY <2>1, <4>1, <1>1, <1>7, <1>8
      <4> QED
        BY <4>1, <4>2
    <3> QED
      BY <3>1, <3>2, <1>1, <1>8
  <2>4. ASSUME NEW i \in 1..Len(s)
        PROVE  SubSeq(b, s[i].cacheStart + 1, PartEnd(s, b, i)) \in {<<>>, Children(s[i].id)}
    <3>1. CASE i = Len(a) + 1
      <4>1. PartEnd(s, b, i) = Len(b) /\ s[i].cacheStart = Len(b) /\ Len(b) \in Nat
        BY <3>1, <1>1, <1>7, <1>8 DEF PartEnd
      <4>2. SubSeq(b, Len(b) + 1, Len(b)) = <<>>
        BY <1>1
      <4> QED
        BY <4>1, <4>2
    <3>2. CASE i # Len(a) + 1
      <4>1. i \in 1..Len(a) /\ s[i] = a[i]
        BY <3>2, <1>1, <1>8
      <4>2. PartEnd(s, b, i) = PartEnd(a, b, i)
        <5>1. CASE i = Len(a)
          <6>1. PartEnd(s, b, i) = s[i + 1].cacheStart /\ s[i + 1] = x
            BY <5>1, <1>1, <1>8 DEF PartEnd
          <6> QED
            BY <6>1, <5>1, <1>7 DEF PartEnd
        <5>2. CASE i # Len(a)
          <6>1. i + 1 \in 1..Len(a) /\ s[i + 1] = a[i + 1] /\ i # Len(s)
            BY <5>2, <4>1, <1>1, <1>8
          <6> QED
            BY <6>1, <5>2 DEF PartEnd
        <5> QED
          BY <5>1, <5>2
      <4>3. SubSeq(b, a[i].cacheStart + 1, PartEnd(a, b, i)) \in {<<>>, Children(a[i].id)}
        BY <4>1, <1>1 DEF Cached
      <4> QED
        BY <4>1, <4>2, <4>3
    <3> QED
      BY <3>1, <3>2
  <2> QED
    BY <2>2, <2>3, <2>4 DEF Cached
<1>13. AtFolder(s, new, q)
  <2>1. s[Len(s)] = x /\ Len(q) = Len(s) - 1
    BY <1>1, <1>8, <1>9
  <2> QED
    BY <2>1, <1>7 DEF AtFolder
<1>14. At(s, b, new, q, P)
  BY <1>1, <1>6, <1>8, <1>9, <1>11, <1>12, <1>13 DEF At
<1> QED
  BY <1>14, <1>s, <1>q, <1>g

LEMMA SelectedFolder ==
  ASSUME NEW P, Walkable(P), NEW c, Positioned(c, P)
  PROVE  /\ c.parents # <<>> /\ Last(c.parents) = c.parents[Len(c.parents)]
         /\ Len(c.parents) \in Nat \ {0}
         /\ InFolder(c) <=> AtFolder(c.parents, c.current, c.path)
         /\ InFolder(c) <=> IsFolder(c.current)
         /\ InFolder(c) => /\ c.current = c.parents[Len(c.parents)].id
                           /\ Len(c.path) = Len(c.parents) - 1
<1>1. PICK a, b, e, p : a = c.parents /\ b = c.cached /\ e = c.current /\ p = c.path
  OBVIOUS
<1>2. At(a, b, e, p, P)
  BY <1>1 DEF Positioned
<1>3. Len(a) \in Nat \ {0} /\ a # <<>> /\ Last(a) = a[Len(a)]
  BY <1>2, Depth DEF Last
<1>4. AtFolder(a, e, p) => IsFolder(e) /\ e = a[Len(a)].id /\ Len(p) = Len(a) - 1
  BY <1>2, FolderPlace DEF AtFolder
<1>5. AtFile(a, e, p) => ~IsFolder(e)
  BY DEF AtFile
<1>6. IsFolder(a[Len(a)].id)
  <2>1. Len(a) \in 1..Len(a)
    BY <1>3
  <2> QED
    BY <1>2, <2>1 DEF At, Trail, InTrail
<1>7. AtFolder(a, e, p) \/ AtFile(a, e, p)
  BY <1>2 DEF At
<1>8. (e = a[Len(a)].id) <=> AtFolder(a, e, p)
  BY <1>4, <1>5, <1>6, <1>7
<1>9. InFolder(c) <=> e = a[Len(a)].id
  BY <1>1, <1>3 DEF InFolder
<1> QED
  BY <1>1, <1>3, <1>4, <1>5, <1>7, <1>8, <1>9

(* select_child.                                                           *)
LEMMA ChildSelected ==
  ASSUME NEW P, Walkable(P), NEW c, Positioned(c, P), InFolder(c),
         NEW new, IsChild(new, Meta(c.current))
  PROVE  /\ Positioned(SelectChild(c, new), P)
         /\ SelectChild(c, new).path = Append(c.path, FileName(new))
         /\ SelectChild(c, new).current = new
<1>1. PICK a, b, e, p : /\ c = [parents |-> a, cached |-> b, current |-> e, path |-> p]
                        /\ a = c.parents /\ b = c.cached /\ e = c.current /\ p = c.path
  BY CursorFields DEF Positioned
<1>2. At(a, b, e, p, P) /\ AtFolder(a, e, p) /\ IsChild(new, Meta(e))
  BY <1>1, SelectedFolder DEF Positioned
<1>3. /\ a \in Seq(Above) /\ b \in Seq(Ids) /\ p \in Seq(Names)
      /\ Trail(a, p, P) /\ Cached(a, b) /\ new \in Ids
  BY <1>2 DEF At, IsChild
<1>4. Meta(e) \in 1..Len(entries) /\ P[Meta(e)] = p /\ e = a[Len(a)].id /\ Len(p) = Len(a) - 1
  BY <1>2, FolderPlace DEF AtFolder
<1>5. FileName(new) \in Names /\ IsFolder(new) \in BOOLEAN
  BY <1>2, <1>4, ChildFields
<1>q. PICK q : q = Append(p, FileName(new))
  OBVIOUS
<1>6. q \in Seq(Names) /\ Len(q) = Len(p) + 1 /\ q[Len(q)] = FileName(new) /\ Len(p) \in Nat
  BY <1>3, <1>5, <1>q
<1>x. PICK x : x = [id |-> new, next |-> 1, cacheStart |-> Len(b), pathLen |-> Len(q)]
  OBVIOUS
<1>s. PICK s : s = IF IsFolder(new) THEN Append(a, x) ELSE a
  OBVIOUS
<1>7. SelectChild(c, new) = [parents |-> s, cached |-> b, current |-> new, path |-> q]
  <2>1. SelectChild(c, new) =
          [c EXCEPT !.current = new, !.path = q,
                    !.parents = IF IsFolder(new) THEN Append(@, x) ELSE @]
    BY <1>1, <1>q, <1>x DEF SelectChild
  <2> QED
    BY <2>1, <1>1, <1>s
<1>8. At(s, b, new, q, P)
  <2>1. CASE IsFolder(new)
    <3>1. x = [id |-> new, next |-> 1, cacheStart |-> Len(b), pathLen |-> Len(p) + 1]
      BY <1>6, <1>x
    <3>2. At(Append(a, x), b, new, Append(p, FileName(new)), P)
      BY <3>1, <2>1, <1>2, ChildAtFolder
    <3> QED
      BY <3>2, <2>1, <1>s, <1>q
  <2>2. CASE ~IsFolder(new)
    <3>1. Trail(a, q, P)
      BY <1>3, <1>4, <1>5, <1>q, TrailMore
    <3>2. AtFile(a, new, q)
      <4>1. IsChild(new, Meta(a[Len(a)].id))
        BY <1>2, <1>4
      <4>2. Len(q) = Len(a)
        BY <1>3, <1>4, <1>6
      <4> QED
        BY <2>2, <4>1, <4>2, <1>6 DEF AtFile
    <3> QED
      BY <3>1, <3>2, <2>2, <1>3, <1>6, <1>s DEF At
  <2> QED
    BY <2>1, <2>2
<1>9. [parents |-> s, cached |-> b, current |-> new, path |-> q] \in CursorType
  BY <1>8 DEF At, CursorType
<1>10. Positioned([parents |-> s, cached |-> b, current |-> new, path |-> q], P)
  BY <1>8, <1>9 DEF Positioned
<1>11. c.path = p
  BY <1>1
<1> QED
  BY <1>7, <1>10, <1>11, <1>q

(* current_folder_children.                                                *)
LEMMA CacheIs ==
  ASSUME NEW a \in Seq(Above), NEW b \in Seq(Ids), a # <<>>, Cached(a, b),
         NEW g, g = a[Len(a)].cacheStart, NEW ch, ch = Children(a[Len(a)].id), ch \in Seq(Ids)
  PROVE  /\ Len(b) = g => Cached(a, b \o ch) /\ SubSeq(b \o ch, g + 1, Len(b \o ch)) = ch
         /\ Len(b) # g => SubSeq(b, g + 1, Len(b)) = ch
<1>n. PICK n : n = Len(a)
  OBVIOUS
<1>1. n \in Nat \ {0} /\ n \in 1..Len(a) /\ Len(b) \in Nat
  BY <1>n
<1>2. PartEnd(a, b, n) = Len(b)
  BY <1>n DEF PartEnd
<1>3. g \in Nat /\ g <= Len(b)
  BY <1>1, <1>2, <1>n, PartEndIs
<1>4. SubSeq(b, g + 1, Len(b)) \in {<<>>, ch}
  <2>1. SubSeq(b, a[n].cacheStart + 1, PartEnd(a, b, n)) \in {<<>>, Children(a[n].id)}
    BY <1>1 DEF Cached
  <2> QED
    BY <2>1, <1>2, <1>n
<1>5. ASSUME Len(b) # g PROVE SubSeq(b, g + 1, Len(b)) = ch
  <2>1. Len(SubSeq(b, g + 1, Len(b))) = Len(b) - g
    BY <1>1, <1>3, PartSeq
  <2>2. Len(b) - g # 0
    BY <1>1, <1>3, <1>5
  <2>3. SubSeq(b, g + 1, Len(b)) # <<>>
    BY <2>1, <2>2
  <2> QED
    BY <2>3, <1>4
<1>6. ASSUME Len(b) = g PROVE Cached(a, b \o ch) /\ SubSeq(b \o ch, g + 1, Len(b \o ch)) = ch
  <2>t. PICK t : t = b \o ch
    OBVIOUS
  <2>1. /\ t \in Seq(Ids) /\ Len(t) = Len(b) + Len(ch) /\ Len(ch) \in Nat
        /\ \A k \in 1..Len(b) : t[k] = b[k]
        /\ SubSeq(t, Len(b) + 1, Len(t)) = ch
    BY <2>t, JoinedSeq
  <2>2. a[1].cacheStart = 0 /\ a[Len(a)].cacheStart <= Len(t)
        /\ \A i, j \in 1..Len(a) : i <= j => a[i].cacheStart <= a[j].cacheStart
    <3>1. a[Len(a)].cacheStart <= Len(t)
      BY <2>1, <1>1, <1>3
    <3> QED
      BY <3>1 DEF Cached
  <2>3. ASSUME NEW i \in 1..Len(a)
        PROVE  SubSeq(t, a[i].cacheStart + 1, PartEnd(a, t, i)) \in {<<>>, Children(a[i].id)}
    <3>1. CASE i = n
      <4>1. PartEnd(a, t, i) = Len(t) /\ a[i].cacheStart = Len(b) /\ ch = Children(a[i].id)
        BY <3>1, <1>6, <1>n DEF PartEnd
      <4> QED
        BY <4>1, <2>1
    <3>2. CASE i # n
      <4>e. PICK e : e = PartEnd(a, b, i)
        OBVIOUS
      <4>h. PICK h : h = a[i].cacheStart
        OBVIOUS
      <4>1. PartEnd(a, t, i) = e
        BY <3>2, <1>n, <4>e DEF PartEnd
      <4>p. /\ PartEnd(a, b, i) \in Nat /\ a[i].cacheStart \in Nat
            /\ a[i].cacheStart <= PartEnd(a, b, i) /\ PartEnd(a, b, i) <= Len(b)
        BY PartEndIs
      <4>2. e \in Nat /\ h \in Nat /\ h <= e /\ e <= Len(b)
        BY <4>p, <4>e, <4>h
      <4>l. e <= Len(t)
        BY <4>2, <2>1, <1>1
      <4>k. \A k \in h + 1..e : k \in 1..Len(b)
        BY <4>2, <1>1
      <4>3. e <= Len(t) /\ \A k \in h + 1..e : t[k] = b[k]
        BY <4>l, <4>k, <2>1
      <4>4. SubSeq(t, h + 1, e) = SubSeq(b, h + 1, e)
        BY <4>2, <4>3, <2>1, SamePart
      <4>5. SubSeq(b, h + 1, e) \in {<<>>, Children(a[i].id)}
        BY <4>e, <4>h DEF Cached
      <4> QED
        BY <4>1, <4>4, <4>5, <4>h
    <3> QED
      BY <3>1, <3>2
  <2>4. Cached(a, t)
    BY <2>2, <2>3 DEF Cached
  <2> QED
    BY <2>1, <2>4, <2>t, <1>6
<1> QED
  BY <1>5, <1>6

LEMMA CacheFilled ==
  ASSUME NEW P, Walkable(P), NEW c, Positioned(c, P)
  PROVE  /\ Positioned(WithCache(c), P)
         /\ WithCache(c).parents = c.parents
         /\ WithCache(c).current = c.current
         /\ WithCache(c).path = c.path
         /\ FolderChildren(c) = IF InFolder(c) THEN Children(c.current) ELSE <<>>
<1>1. PICK a, b, e, p : /\ c = [parents |-> a, cached |-> b, current |-> e, path |-> p]
                        /\ a = c.parents /\ b = c.cached /\ e = c.current /\ p = c.path
  BY CursorFields DEF Positioned
<1>2. /\ At(a, b, e, p, P) /\ a \in Seq(Above) /\ b \in Seq(Ids) /\ Cached(a, b)
      /\ e \in Ids /\ p \in Seq(Names) /\ Trail(a, p, P)
  BY <1>1 DEF Positioned, At
<1>3. a # <<>> /\ Last(a) = a[Len(a)] /\ Len(a) \in Nat \ {0}
  BY <1>1, SelectedFolder
<1>4. CASE ~InFolder(c)
  <2>1. WithCache(c) = c /\ FolderChildren(c) = <<>>
    BY <1>4 DEF WithCache, FolderChildren
  <2> QED
    BY <2>1, <1>4
<1>5. CASE InFolder(c)
  <2>1. AtFolder(a, e, p) /\ e = a[Len(a)].id
    BY <1>1, <1>5, SelectedFolder
  <2>ch. PICK ch : ch = Children(e)
    OBVIOUS
  <2>2. ch \in Seq(Ids) /\ ch = Children(a[Len(a)].id)
    <3>1. Meta(e) \in 1..Len(entries)
      BY <1>2, <2>1, FolderPlace
    <3> QED
      BY <3>1, <2>1, <2>ch, ChildrenAre
  <2>g. PICK g : g = a[Len(a)].cacheStart
    OBVIOUS
  <2>h. a \in Seq(Above) /\ b \in Seq(Ids) /\ a # <<>> /\ Cached(a, b)
    BY <1>2, <1>3
  <2>3. /\ Len(b) = g => Cached(a, b \o ch) /\ SubSeq(b \o ch, g + 1, Len(b \o ch)) = ch
        /\ Len(b) # g => SubSeq(b, g + 1, Len(b)) = ch
    BY <2>h, <2>2, <2>g, CacheIs
  <2>t. PICK t : t = IF Len(b) = g THEN b \o ch ELSE b
    OBVIOUS
  <2>4. t \in Seq(Ids) /\ Cached(a, t) /\ SubSeq(t, g + 1, Len(t)) = ch
    <3>1. b \o ch \in Seq(Ids)
      BY <1>2, <2>2
    <3> QED
      BY <3>1, <2>3, <2>t, <1>2
  <2>5. WithCache(c) = [parents |-> a, cached |-> t, current |-> e, path |-> p]
    <3>1. c.parents = a /\ Last(c.parents).cacheStart = g /\ c.cached = b /\ c.current = e
      BY <1>1, <1>3, <2>g
    <3>2. CASE Len(b) = g
      <4>1. WithCache(c) = [c EXCEPT !.cached = b \o ch]
        BY <3>1, <3>2, <1>5, <2>ch DEF WithCache
      <4> QED
        BY <4>1, <3>2, <2>t, <1>1
    <3>3. CASE Len(b) # g
      <4>1. WithCache(c) = c
        BY <3>1, <3>3 DEF WithCache
      <4> QED
        BY <4>1, <3>3, <2>t, <1>1
    <3> QED
      BY <3>2, <3>3
  <2>6. At(a, t, e, p, P)
    BY <1>2, <2>1, <2>4 DEF At
  <2>7. [parents |-> a, cached |-> t, current |-> e, path |-> p] \in CursorType
    BY <2>6 DEF At, CursorType
  <2>8. Positioned([parents |-> a, cached |-> t, current |-> e, path |-> p], P)
    BY <2>6, <2>7 DEF Positioned
  <2>d. PICK d : d = WithCache(c)
    OBVIOUS
  <2>9. d.parents = a /\ d.cached = t /\ d.current = e /\ d.path = p
    BY <2>5, <2>d
  <2>10. FolderChildren(c) = ch
    <3>1. FolderChildren(c) = SubSeq(d.cached, Last(d.parents).cacheStart + 1, Len(d.cached))
      BY <1>5, <2>d DEF FolderChildren
    <3>2. Last(d.parents).cacheStart = g
      BY <2>9, <1>3, <2>g
    <3> QED
      BY <3>1, <3>2, <2>9, <2>4
  <2>11. c.parents = a /\ c.current = e /\ c.path = p
    BY <1>1
  <2> QED
    BY <2>5, <2>8, <2>9, <2>10, <2>11, <2>ch, <2>d, <1>5
<1> QED
  BY <1>4, <1>5

-------------------------------------------------------------------------------
(* The moves.                                                              *)
Somewhere(c, P) == c = Cleared \/ Positioned(c, P)

LEMMA ClearedFields ==
  /\ Cleared.parents = <<>> /\ Cleared.cached = <<>> /\ Cleared.current = NoEntry
  /\ Cleared.path = <<>> /\ ~InFolder(Cleared)
  /\ WithCache(Cleared) = Cleared /\ FolderChildren(Cleared) = <<>>
<1>1. /\ Cleared.parents = <<>> /\ Cleared.cached = <<>> /\ Cleared.current = NoEntry
      /\ Cleared.path = <<>>
  BY DEF Cleared
<1>2. ~InFolder(Cleared)
  BY <1>1 DEF InFolder
<1> QED
  BY <1>1, <1>2 DEF WithCache, FolderChildren

LEMMA SomewhereNotCleared ==
  ASSUME NEW P, Walkable(P), NEW c, Somewhere(c, P)
  PROVE  /\ (c.parents = <<>>) <=> (c = Cleared)
         /\ (c.current = NoEntry) <=> (c = Cleared)
<1>1. CASE c = Cleared
  BY <1>1, ClearedFields
<1>2. CASE Positioned(c, P)
  <2>1. c.parents # <<>>
    BY <1>2, SelectedFolder
  <2>2. c # Cleared
    BY <2>1, ClearedFields
  <2>3. PICK a, b, e, p : a = c.parents /\ b = c.cached /\ e = c.current /\ p = c.path
    OBVIOUS
  <2>4. At(a, b, e, p, P)
    BY <1>2, <2>3 DEF Positioned
  <2>n. PICK n : n = Len(a)
    OBVIOUS
  <2>5. n \in Nat \ {0} /\ n \in 1..Len(a)
    BY <2>4, <2>n, Depth
  <2>6. Root # NoEntry
    BY DEF Root, NoEntry
  <2>7. \A f \in 1..Len(entries) : \A new : IsChild(new, f) => new # NoEntry
    BY ChildFields
  <2>8. Meta(a[n].id) \in 1..Len(entries)
    BY <2>4, <2>5 DEF At, Trail, InTrail
  <2>9. CASE AtFile(a, e, p)
    <3>1. IsChild(e, Meta(a[n].id))
      BY <2>9, <2>n DEF AtFile
    <3> QED
      BY <3>1, <2>1, <2>2, <2>3, <2>7, <2>8
  <2>10. CASE AtFolder(a, e, p)
    <3>1. e = a[n].id
      BY <2>10, <2>n DEF AtFolder
    <3>2. CASE n = 1
      BY <3>1, <3>2, <2>1, <2>2, <2>3, <2>4, <2>6 DEF At, Trail
    <3>3. CASE n # 1
      <4>1. n \in 2..Len(a) /\ n - 1 \in 1..Len(a)
        BY <2>5, <3>3
      <4>2. IsChild(e, Meta(a[n - 1].id)) /\ Meta(a[n - 1].id) \in 1..Len(entries)
        BY <4>1, <3>1, <2>4 DEF At, Trail, InTrail
      <4> QED
        BY <4>2, <2>1, <2>2, <2>3, <2>7
    <3> QED
      BY <3>2, <3>3
  <2> QED
    BY <2>4, <2>9, <2>10 DEF At
<1> QED
  BY <1>1, <1>2 DEF Somewhere

LEMMA AdvanceMoves ==
  ASSUME NEW P, Walkable(P), NEW c, Somewhere(c, P)
  PROVE  Somewhere(Advance(c), P)
<1> DEFINE Unfinished == {i \in DOMAIN c.parents :
                            c.parents[i].next \in DOMAIN Children(c.parents[i].id)}
<1>1. CASE Unfinished = {}
  BY <1>1 DEF Advance, Somewhere
<1>2. CASE Unfinished # {}
  <2>1. Positioned(c, P)
    <3>1. ASSUME c = Cleared PROVE FALSE
      <4>1. DOMAIN c.parents = {}
        BY <3>1, ClearedFields
      <4> QED
        BY <4>1, <1>2
    <3> QED
      BY <3>1 DEF Somewhere
  <2>a. PICK a : a = c.parents
    OBVIOUS
  <2>2. a \in Seq(Above) /\ DOMAIN a = 1..Len(a) /\ Len(a) \in Nat
    BY <2>1, <2>a DEF Positioned, At
  <2>n. PICK n : n = Max(Unfinished)
    OBVIOUS
  <2>3. n \in Unfinished
    <3>1. Unfinished \in SUBSET (0..Len(a))
      BY <2>2, <2>a
    <3> HIDE DEF Unfinished
    <3> QED
      BY <3>1, <2>2, <2>n, <1>2, GreatestNumber
  <2>4. n \in 1..Len(c.parents) /\ a[n].next \in DOMAIN Children(a[n].id)
    BY <2>2, <2>3, <2>a
  <2>in. PICK in : in = SelectFolder(Closed(c, n))
    OBVIOUS
  <2>5. /\ Positioned(in, P) /\ Len(in.parents) = n
        /\ in.parents[n] = a[n] /\ in.current = a[n].id
    BY <2>1, <2>4, <2>in, <2>a, Raised
  <2>out. PICK out : out = [in EXCEPT !.parents[n].next = @ + 1]
    OBVIOUS
  <2>6. n \in 1..Len(in.parents)
    BY <2>2, <2>4, <2>5, <2>a
  <2>c. /\ Positioned(out, P)
        /\ Len(out.parents) = Len(in.parents)
        /\ \A i \in 1..Len(in.parents) : out.parents[i].id = in.parents[i].id
        /\ out.current = in.current
    <3>1. Positioned(in, P)
      BY <2>5
    <3> QED
      BY <3>1, <2>6, <2>out, NextChanged
  <2>7. /\ Positioned(out, P) /\ Len(out.parents) = n
        /\ out.parents[n].id = a[n].id /\ out.current = a[n].id
    BY <2>5, <2>6, <2>c
  <2>8. InFolder(out)
    <3>1. out.parents # <<>> /\ Last(out.parents) = out.parents[n]
      BY <2>7, SelectedFolder
    <3> QED
      BY <3>1, <2>7 DEF InFolder
  <2>9. Meta(out.current) \in 1..Len(entries)
    BY <2>7, <2>8, SelectedFolder, FolderPlace DEF Positioned
  <2>new. PICK new : new = Children(in.current)[in.parents[n].next]
    OBVIOUS
  <2>10. IsChild(new, Meta(out.current))
    <3>1. new = Children(a[n].id)[a[n].next]
      BY <2>5, <2>new
    <3>2. Children(a[n].id) \in Seq(Ids)
          /\ \A k \in 1..Len(Children(a[n].id)) : IsChild(Children(a[n].id)[k], Meta(a[n].id))
      BY <2>7, <2>9, ChildrenAre
    <3>3. a[n].next \in 1..Len(Children(a[n].id))
      BY <2>4, <3>2
    <3> QED
      BY <3>1, <3>2, <3>3, <2>7
  <2>11. Positioned(SelectChild(out, new), P)
    BY <2>7, <2>8, <2>10, ChildSelected
  <2>12. Advance(c) = SelectChild(out, new)
    BY <1>2, <2>in, <2>n, <2>new, <2>out DEF Advance
  <2> QED
    BY <2>11, <2>12 DEF Somewhere
<1> QED
  BY <1>1, <1>2

LEMMA SelectByNameMoves ==
  ASSUME NEW P, Walkable(P), NEW c, Somewhere(c, P), NEW name
  PROVE  LET children == FolderChildren(c)
             match(i) == Fold[FileName(children[i])] = Fold[name] IN
         /\ Somewhere(SelectByName(c, name).cursor, P)
         /\ SelectByName(c, name).found <=> \E i \in 1..Len(children) : match(i)
         /\ SelectByName(c, name).found \in BOOLEAN
         /\ SelectByName(c, name).found =>
              /\ Positioned(c, P) /\ Positioned(SelectByName(c, name).cursor, P)
              /\ \E i \in 1..Len(children) :
                   match(i) /\ SelectByName(c, name).cursor.path
                                 = Append(c.path, FileName(children[i]))
<1> DEFINE children == FolderChildren(c)
           Match(i) == Fold[FileName(children[i])] = Fold[name]
           Matching == {i \in DOMAIN children : Match(i)}
<1>r. PICK r : r = SelectByName(c, name)
  OBVIOUS
<1>1. children \in Seq(Ids) /\ DOMAIN children = 1..Len(children) /\ Len(children) \in Nat
  <2>1. CASE c = Cleared
    <3>1. children = <<>>
      BY <2>1, ClearedFields
    <3> HIDE DEF children
    <3> QED
      BY <3>1
  <2>2. CASE Positioned(c, P)
    <3>1. children = IF InFolder(c) THEN Children(c.current) ELSE <<>>
      BY <2>2, CacheFilled
    <3>2. InFolder(c) => Meta(c.current) \in 1..Len(entries)
      BY <2>2, SelectedFolder, FolderPlace DEF Positioned
    <3>3. InFolder(c) => Children(c.current) \in Seq(Ids)
      BY <3>2, ChildrenAre
    <3> HIDE DEF children
    <3>4. children \in Seq(Ids)
      BY <3>1, <3>3
    <3> QED
      BY <3>4
  <2> QED
    BY <2>1, <2>2 DEF Somewhere
<1>2. CASE Matching = {}
  <2>1. r = [found |-> FALSE, cursor |-> WithCache(c)]
    BY <1>2, <1>r DEF SelectByName
  <2>2. r.found = FALSE /\ r.cursor = WithCache(c)
    BY <2>1
  <2>3. Somewhere(WithCache(c), P)
    BY CacheFilled, ClearedFields DEF Somewhere
  <2>4. ~ \E i \in 1..Len(children) : Match(i)
    BY <1>1, <1>2
  <2> HIDE DEF children, Match, Matching
  <2>5. Somewhere(r.cursor, P) /\ ~r.found /\ r.found \in BOOLEAN
    BY <2>2, <2>3
  <2> QED
    BY <2>4, <2>5, <1>r DEF children, Match
<1>3. CASE Matching # {}
  <2>1. Positioned(c, P)
    <3>1. ASSUME c = Cleared PROVE FALSE
      <4>1. children = <<>>
        BY <3>1, ClearedFields
      <4>2. DOMAIN children = {}
        BY <4>1
      <4> QED
        BY <4>2, <1>3
    <3> QED
      BY <3>1 DEF Somewhere
  <2>k. PICK k : k = Min(Matching)
    OBVIOUS
  <2>2. k \in Matching
    <3>1. Matching \in SUBSET Nat
      BY <1>1
    <3> HIDE DEF Matching
    <3> QED
      BY <3>1, <2>k, <1>3, SmallestNumber
  <2>3. k \in 1..Len(children) /\ Match(k)
    BY <2>2, <1>1
  <2>4. children = IF InFolder(c) THEN Children(c.current) ELSE <<>>
    BY <2>1, CacheFilled
  <2>5. InFolder(c) /\ children = Children(c.current)
    <3> HIDE DEF children, Match, Matching
    <3>1. children # <<>>
      BY <2>3
    <3> QED
      BY <3>1, <2>4
  <2>6. Meta(c.current) \in 1..Len(entries)
    BY <2>1, <2>5, SelectedFolder, FolderPlace DEF Positioned
  <2>new. PICK new : new = children[k]
    OBVIOUS
  <2>7. IsChild(new, Meta(c.current))
    BY <2>3, <2>5, <2>6, <2>new, ChildrenAre
  <2>d. PICK d : d = WithCache(c)
    OBVIOUS
  <2>8. Positioned(d, P) /\ d.current = c.current /\ d.path = c.path /\ d.parents = c.parents
    BY <2>1, <2>d, CacheFilled
  <2>9. InFolder(d)
    BY <2>5, <2>8 DEF InFolder
  <2>10. /\ Positioned(SelectChild(d, new), P)
         /\ SelectChild(d, new).path = Append(d.path, FileName(new))
    BY <2>7, <2>8, <2>9, ChildSelected
  <2>11. r = [found |-> TRUE, cursor |-> SelectChild(d, new)]
    BY <1>3, <1>r, <2>d, <2>k, <2>new DEF SelectByName
  <2>12. r.found = TRUE /\ r.cursor = SelectChild(d, new)
    BY <2>11
  <2>13. r.cursor.path = Append(c.path, FileName(children[k]))
    BY <2>8, <2>10, <2>12, <2>new
  <2>14. Positioned(r.cursor, P) /\ Somewhere(r.cursor, P)
    BY <2>10, <2>12 DEF Somewhere
  <2> HIDE DEF children, Match, Matching
  <2>15. r.found /\ r.found \in BOOLEAN
    BY <2>12
  <2>16. \E i \in 1..Len(children) :
           Match(i) /\ r.cursor.path = Append(c.path, FileName(children[i]))
    BY <2>3, <2>13
  <2> QED
    BY <2>1, <2>14, <2>15, <2>16, <1>r, Zenon DEF children, Match
<1> QED
  BY <1>2, <1>3

LEMMA WholeFolder ==
  ASSUME NEW P, NEW c, Positioned(c, P)
  PROVE  /\ Closed(c, Len(c.parents)) = c
         /\ Len(c.parents) \in 1..Len(c.parents)
<1>1. Len(c.parents) \in Nat \ {0}
  BY Depth DEF Positioned
<1> QED
  BY <1>1 DEF Closed

LEMMA GoToParentMoves ==
  ASSUME NEW P, Walkable(P), NEW c, Somewhere(c, P), NEW n \in Nat \ {0}
  PROVE  Somewhere(GoToParent(c, n), P)
<1>1. CASE n < Len(c.parents)
  <2>1. Positioned(c, P)
    <3>1. Len(Cleared.parents) = 0
      BY ClearedFields
    <3> QED
      BY <3>1, <1>1 DEF Somewhere
  <2>2. n \in 1..Len(c.parents)
    BY <2>1, <1>1, WholeFolder
  <2>3. Positioned(SelectFolder(Closed(c, n)), P)
    BY <2>1, <2>2, Raised
  <2> QED
    BY <2>3, <1>1 DEF GoToParent, Somewhere
<1>2. CASE ~(n < Len(c.parents))
  BY <1>2 DEF GoToParent
<1> QED
  BY <1>1, <1>2

-------------------------------------------------------------------------------
(* go_to_path.                                                             *)
LEMMA TrailNames ==
  ASSUME NEW P, Walkable(P), NEW c, Positioned(c, P), NEW i \in 2..Len(c.parents)
  PROVE  FileName(c.parents[i].id) = c.path[i - 1] /\ i - 1 \in 1..Len(c.path)
<1>1. PICK a, p : a = c.parents /\ p = c.path
  OBVIOUS
<1>2. /\ a \in Seq(Above) /\ p \in Seq(Names) /\ Trail(a, p, P) /\ i \in 2..Len(a)
      /\ Len(p) = Len(a) - 1 \/ Len(p) = Len(a)
  <2>1. At(a, c.cached, c.current, p, P)
    BY <1>1 DEF Positioned
  <2>2. Len(p) = Len(a) - 1 \/ Len(p) = Len(a)
    BY <2>1, Depth
  <2> QED
    BY <2>1, <2>2, <1>1 DEF At
<1>3. i \in 1..Len(a) /\ i - 1 \in 1..Len(a) /\ i - 1 \in Nat \ {0}
  BY <1>2
<1>e. PICK e : e = a[i].id
  OBVIOUS
<1>f. PICK f : f = Meta(a[i - 1].id)
  OBVIOUS
<1>4. IsChild(e, f) /\ f \in 1..Len(entries) /\ Len(P[f]) = i - 2
  <2>1. InTrail(a[i - 1].id, i - 1, p, P)
    BY <1>2, <1>3 DEF Trail
  <2>2. Len(P[f]) = (i - 1) - 1 /\ f \in 1..Len(entries)
    BY <2>1, <1>f DEF InTrail
  <2> QED
    BY <1>2, <1>e, <1>f, <2>2 DEF Trail
<1>5. P[Meta(e)] = Append(P[f], FileName(e)) /\ P[f] \in Seq(Names) /\ FileName(e) \in Names
  BY <1>4, ChildFields
<1>6. P[Meta(e)][i - 1] = FileName(e)
  <2>1. PICK q : q = P[f]
    OBVIOUS
  <2>2. Append(q, FileName(e))[Len(q) + 1] = FileName(e)
    BY <1>5, <2>1, Appended
  <2>3. Len(q) + 1 = i - 1
    BY <1>2, <1>4, <2>1
  <2> QED
    BY <2>1, <2>2, <2>3, <1>5
<1>7. InTrail(e, i, p, P)
  BY <1>2, <1>3, <1>e DEF Trail
<1>8. P[Meta(e)][i - 1] = p[i - 1]
  BY <1>3, <1>7 DEF InTrail
<1>9. i - 1 \in 1..Len(p)
  BY <1>2, <1>3
<1> QED
  BY <1>1, <1>6, <1>8, <1>9, <1>e

LEMMA OpenFoldersAre ==
  ASSUME NEW P, NEW c, Positioned(c, P), NEW p \in Seq(Wanted)
  PROVE  /\ OpenFolders(c, p) \in 0..Len(p)
         /\ OpenFolders(c, p) + 1 \in 1..Len(c.parents)
         /\ \A i \in 1..OpenFolders(c, p) : Fold[p[i]] = Fold[FileName(c.parents[i + 1].id)]
<1>1. Len(p) \in Nat /\ Len(c.parents) - 1 \in Nat /\ Len(c.parents) \in Nat
  BY Depth DEF Positioned
<1>m. PICK most : most = Min({Len(p), Len(c.parents) - 1})
  OBVIOUS
<1>2. most \in Nat /\ most <= Len(p) /\ most <= Len(c.parents) - 1
  <2>s. PICK S : S = {Len(p), Len(c.parents) - 1}
    OBVIOUS
  <2>1. S \in SUBSET Nat /\ S # {}
    BY <1>1, <2>s
  <2>2. Min(S) \in S /\ \A k \in S : Min(S) <= k
    BY <2>1, SmallestNumber
  <2>3. most \in S /\ most <= Len(p) /\ most <= Len(c.parents) - 1
    BY <2>2, <2>s, <1>m
  <2> QED
    BY <2>1, <2>3
<1> DEFINE Same(i) == Fold[p[i]] = Fold[FileName(c.parents[i + 1].id)]
           T == {n \in 0..most : \A i \in 1..n : Same(i)}
<1>3. OpenFolders(c, p) = Max(T)
  BY <1>m DEF OpenFolders
<1> HIDE DEF Same
<1>4. T \in SUBSET (0..most) /\ 0 \in T
  BY <1>2
<1> HIDE DEF T
<1>5. Max(T) \in T
  BY <1>2, <1>4, GreatestNumber
<1>6. Max(T) \in 0..most /\ \A i \in 1..Max(T) : Same(i)
  BY <1>5 DEF T
<1>n. PICK n : n = Max(T)
  OBVIOUS
<1>7. n \in 0..Len(p) /\ n + 1 \in 1..Len(c.parents) /\ \A i \in 1..n : Same(i)
  BY <1>1, <1>2, <1>6, <1>n
<1> QED
  BY <1>3, <1>7, <1>n DEF Same

(* The deepest folder in common.                                           *)
LEMMA StartsFrom ==
  ASSUME NEW P, Walkable(P), NEW c, Positioned(c, P), NEW n \in Nat, n + 1 \in 1..Len(c.parents)
  PROVE  LET d == GoToParent(SelectFolder(c), n + 1) IN
         /\ Positioned(d, P)
         /\ Len(d.path) = n
         /\ \A k \in 1..n : d.path[k] = c.path[k]
<1>l. PICK l : l = Len(c.parents)
  OBVIOUS
<1>1. Closed(c, l) = c /\ l \in 1..Len(c.parents) /\ l \in Nat \ {0}
  BY <1>l, WholeFolder
<1>d. PICK d : d = SelectFolder(c)
  OBVIOUS
<1>2. Positioned(d, P) /\ Len(d.parents) = l /\ d.path = SubSeq(c.path, 1, l - 1)
  <2>1. /\ Positioned(SelectFolder(Closed(c, l)), P)
        /\ Len(SelectFolder(Closed(c, l)).parents) = l
        /\ SelectFolder(Closed(c, l)).path = SubSeq(c.path, 1, l - 1)
    BY <1>1, Raised
  <2> QED
    BY <2>1, <1>1, <1>d
<1>3. c.path \in Seq(Names) /\ l - 1 \in 0..Len(c.path)
  <2>1. Len(c.path) = l - 1 \/ Len(c.path) = l
    BY <1>l, Depth DEF Positioned
  <2>2. c.path \in Seq(Names)
    BY CursorFields DEF Positioned
  <2> QED
    BY <2>1, <2>2, <1>1
<1>4. d.path \in Seq(Names) /\ Len(d.path) = l - 1 /\ \A k \in 1..l - 1 : d.path[k] = c.path[k]
  BY <1>2, <1>3, CutSeq
<1>5. CASE n + 1 < l
  <2>e. PICK e : e = SelectFolder(Closed(d, n + 1))
    OBVIOUS
  <2>1. Positioned(e, P) /\ e.path = SubSeq(d.path, 1, n)
    <3>1. n + 1 \in 1..Len(d.parents) /\ (n + 1) - 1 = n
      BY <1>2, <1>5
    <3> QED
      BY <3>1, <2>e, <1>2, Raised
  <2>2. n \in 0..Len(d.path)
    BY <1>4, <1>5, <1>1
  <2>3. Len(e.path) = n /\ \A k \in 1..n : e.path[k] = d.path[k]
    BY <2>1, <2>2, <1>4, CutSeq
  <2>4. \A k \in 1..n : e.path[k] = c.path[k]
    BY <2>2, <2>3, <1>4
  <2>5. GoToParent(d, n + 1) = e
    BY <1>2, <1>5, <2>e DEF GoToParent
  <2> QED
    BY <2>1, <2>3, <2>4, <2>5, <1>d
<1>6. CASE ~(n + 1 < l)
  <2>1. n = l - 1
    BY <1>6, <1>l
  <2>2. GoToParent(d, n + 1) = d
    BY <1>2, <1>6 DEF GoToParent
  <2> QED
    BY <2>1, <2>2, <1>2, <1>4, <1>d
<1> QED
  BY <1>5, <1>6

(* The cursors after each name of the path.                                *)
GoStep(g, name) == IF g.found THEN SelectByName(g.cursor, name) ELSE g
Going(go, start, p, n) ==
  go = [i \in n..Len(p) |->
          IF i = n THEN start
          ELSE IF go[i - 1].found THEN SelectByName(go[i - 1].cursor, p[i]) ELSE go[i - 1]]

LEMMA GoingExists ==
  ASSUME NEW start, NEW p \in Seq(Wanted), NEW n \in 0..Len(p)
  PROVE  \E go : Going(go, start, p, n)
<1> DEFINE Part(w, k) == w = [i \in n..n + k |->
                                IF i = n THEN start ELSE GoStep(w[i - 1], p[i])]
           T == {k \in Nat : \E w : Part(w, k)}
<1>1. 0 \in T
  <2> DEFINE first == [i \in n..n + 0 |-> start]
  <2>1. Part(first, 0)
    OBVIOUS
  <2> QED
    BY <2>1
<1>2. ASSUME NEW k \in Nat, k \in T PROVE k + 1 \in T
  <2>1. PICK w : Part(w, k)
    BY <1>2
  <2> DEFINE new == [i \in n..n + (k + 1) |->
                       IF i = n + (k + 1) THEN GoStep(w[n + k], p[n + (k + 1)]) ELSE w[i]]
  <2>2. ASSUME NEW i \in n..n + (k + 1)
        PROVE  new[i] = IF i = n THEN start ELSE GoStep(new[i - 1], p[i])
    <3>1. CASE i = n + (k + 1)
      <4>1. i # n /\ i - 1 = n + k /\ i - 1 \in n..n + (k + 1) /\ i - 1 # n + (k + 1)
        BY <3>1
      <4> QED
        BY <3>1, <4>1
    <3>2. CASE i # n + (k + 1)
      <4>1. w[i] = IF i = n THEN start ELSE GoStep(w[i - 1], p[i])
        BY <2>1, <3>2
      <4>2. i # n => i - 1 \in n..n + (k + 1) /\ i - 1 # n + (k + 1)
        BY <3>2
      <4> QED
        BY <4>1, <4>2, <3>2
    <3> QED
      BY <3>1, <3>2
  <2>3. Part(new, k + 1)
    BY <2>2
  <2> HIDE DEF new, Part
  <2>4. \E v : Part(v, k + 1)
    BY <2>3
  <2> QED
    BY <2>4 DEF T
<1> HIDE DEF T
<1>l. PICK l : l = Len(p) - n
  OBVIOUS
<1>3. l \in Nat /\ n + l = Len(p)
  BY <1>l
<1>4. \A k \in 0..l : k \in T
  <2>1. T \in SUBSET Nat
    BY DEF T
  <2> QED
    BY <1>1, <1>2, <1>3, <2>1, Induction
<1>5. l \in T
  BY <1>3, <1>4
<1>6. PICK w : Part(w, l)
  BY <1>5 DEF T
<1>7. Going(w, start, p, n)
  BY <1>3, <1>6 DEF Going, GoStep
<1> QED
  BY <1>7

LEMMA GoToPathIs ==
  ASSUME NEW P, Walkable(P), NEW c, Positioned(c, P), NEW p \in Seq(Wanted)
  PROVE  LET n == OpenFolders(c, p) IN
         \E go : /\ GoToPath(c, p) = go[Len(p)]
                 /\ go[n] = [found |-> TRUE, cursor |-> GoToParent(SelectFolder(c), n + 1)]
                 /\ \A i \in n + 1..Len(p) : go[i] = GoStep(go[i - 1], p[i])
<1>n. PICK n : n = OpenFolders(c, p)
  OBVIOUS
<1>1. n \in 0..Len(p) /\ c.parents # <<>>
  BY <1>n, OpenFoldersAre, SelectedFolder
<1>s. PICK start : start = [found |-> TRUE, cursor |-> GoToParent(SelectFolder(c), n + 1)]
  OBVIOUS
<1> DEFINE go == CHOOSE f : Going(f, start, p, n)
<1>2. Going(go, start, p, n)
  BY <1>1, GoingExists
<1>3. GoToPath(c, p) = go[Len(p)]
  BY <1>1, <1>n, <1>s DEF GoToPath, Going
<1> HIDE DEF go
<1>4. n \in n..Len(p) /\ \A i \in n + 1..Len(p) : i \in n..Len(p) /\ i # n
  BY <1>1
<1>5. go[n] = start /\ \A i \in n + 1..Len(p) : go[i] = GoStep(go[i - 1], p[i])
  BY <1>2, <1>4 DEF Going, GoStep
<1> QED
  BY <1>3, <1>5, <1>n, <1>s

LEMMA WantedPathIs ==
  ASSUME NEW p \in WantedPaths
  PROVE  p \in Seq(Wanted) /\ Len(p) \in Nat /\ DOMAIN p = 1..Len(p)
<1>1. PICK n \in 0..MaxDepth : p \in [1..n -> Wanted]
  BY DEF WantedPaths
<1>2. n \in Nat
  BY IndexAssumption, <1>1
<1> QED
  BY <1>1, <1>2

(* What holds at the start and after each name holds at the end.           *)
LEMMA AlongThePath ==
  ASSUME NEW p \in Seq(Wanted), NEW n \in 0..Len(p), NEW T \in SUBSET Nat, n \in T,
         \A i \in n + 1..Len(p) : i - 1 \in T => i \in T
  PROVE  Len(p) \in T
<1> DEFINE S == {k \in Nat : n + k \in T}
<1>l. PICK l : l = Len(p) - n
  OBVIOUS
<1>1. l \in Nat /\ n + l = Len(p) /\ n \in Nat
  BY <1>l
<1>2. 0 \in S /\ S \in SUBSET Nat
  BY <1>1
<1>3. ASSUME NEW k \in Nat, k < l, k \in S PROVE k + 1 \in S
  <2>1. n + (k + 1) \in n + 1..Len(p) /\ (n + (k + 1)) - 1 = n + k
    BY <1>1, <1>3
  <2> QED
    BY <2>1, <1>3
<1> HIDE DEF S
<1>4. \A k \in 0..l : k \in S
  BY <1>1, <1>2, <1>3, Induction
<1>5. l \in S
  BY <1>1, <1>4
<1> QED
  BY <1>1, <1>5 DEF S

FoundAt(g, P) == Somewhere(g.cursor, P) /\ (g.found => Positioned(g.cursor, P))

LEMMA GoToPathMoves ==
  ASSUME NEW P, Walkable(P), NEW c, Somewhere(c, P), NEW p \in WantedPaths
  PROVE  /\ Somewhere(GoToPath(c, p).cursor, P)
         /\ GoToPath(c, p).found => Positioned(GoToPath(c, p).cursor, P)
<1>1. CASE c = Cleared
  <2>1. GoToPath(c, p) = [found |-> FALSE, cursor |-> c]
    BY <1>1, ClearedFields DEF GoToPath
  <2> QED
    BY <2>1
<1>2. CASE Positioned(c, P)
  <2>n. PICK n : n = OpenFolders(c, p)
    OBVIOUS
  <2>1. p \in Seq(Wanted) /\ n \in 0..Len(p) /\ n + 1 \in 1..Len(c.parents) /\ n \in Nat
    BY <1>2, <2>n, WantedPathIs, OpenFoldersAre
  <2>2. PICK go :
          /\ GoToPath(c, p) = go[Len(p)]
          /\ go[n] = [found |-> TRUE, cursor |-> GoToParent(SelectFolder(c), n + 1)]
          /\ \A i \in n + 1..Len(p) : go[i] = GoStep(go[i - 1], p[i])
    BY <1>2, <2>1, <2>n, GoToPathIs
  <2> DEFINE T == {i \in Nat : FoundAt(go[i], P)}
  <2>3. n \in T
    <3>1. Positioned(GoToParent(SelectFolder(c), n + 1), P)
      BY <1>2, <2>1, StartsFrom
    <3>2. go[n].cursor = GoToParent(SelectFolder(c), n + 1)
      BY <2>2
    <3> QED
      BY <3>1, <3>2, <2>1 DEF Somewhere, FoundAt
  <2>4. ASSUME NEW i \in n + 1..Len(p), i - 1 \in T PROVE i \in T
    <3>g. PICK g : g = go[i - 1]
      OBVIOUS
    <3>1. go[i] = IF g.found THEN SelectByName(g.cursor, p[i]) ELSE g
      BY <2>2, <3>g DEF GoStep
    <3>2. FoundAt(g, P) /\ Somewhere(g.cursor, P)
      BY <2>4, <3>g DEF FoundAt
    <3>s. PICK s : s = SelectByName(g.cursor, p[i])
      OBVIOUS
    <3>3. FoundAt(s, P)
      BY <3>2, <3>s, SelectByNameMoves DEF FoundAt
    <3>4. go[i] = s \/ go[i] = g
      BY <3>1, <3>s
    <3>5. FoundAt(go[i], P) /\ i \in Nat
      BY <3>2, <3>3, <3>4, <2>1
    <3> QED
      BY <3>5
  <2> HIDE DEF T
  <2>5. T \in SUBSET Nat
    BY DEF T
  <2>6. Len(p) \in T
    BY <2>1, <2>3, <2>4, <2>5, AlongThePath
  <2>7. FoundAt(go[Len(p)], P)
    BY <2>6 DEF T
  <2>8. FoundAt(GoToPath(c, p), P)
    BY <2>2, <2>7
  <2> QED
    BY <2>8 DEF FoundAt
<1> QED
  BY <1>1, <1>2 DEF Somewhere

-------------------------------------------------------------------------------
(* What is found: places and their paths up to case.                       *)
FoldsTo(q, p, i) == Len(q) = i /\ \A k \in 1..i : Fold[q[k]] = Fold[p[k]]

Complete(P) ==
  /\ Walkable(P)
  /\ \A m, k \in 1..Len(P) : P[m] = P[k] => m = k
  /\ \A m \in 1..Len(P) :
       P[m] = <<>> \/ \E j \in 1..Len(entries) : HasChild(entries[j].children, m)

NoTwins(P) == \A m, k \in 1..Len(P) : FoldsTo(P[m], P[k], Len(P[k])) => P[m] = P[k]

LEMMA FolderOf ==
  ASSUME NEW P, Complete(P), NEW m \in 1..Len(P), P[m] # <<>>
  PROVE  \E j \in 1..Len(entries), k \in Nat :
           /\ k \in 1..Len(entries[j].children)
           /\ P[m] = Append(P[j], FileName([folder |-> j, child |-> k]))
           /\ entries[j].info.isDir
           /\ IsChild([folder |-> j, child |-> k], j)
<1>1. Walkable(P) /\ Len(P) = Len(entries) /\ entries \in Seq(Entry)
  BY DEF Complete, Walkable
<1>2. PICK j \in 1..Len(entries) : HasChild(entries[j].children, m)
  BY DEF Complete
<1>3. PICK k \in 1..Len(entries[j].children) : entries[j].children[k].meta = m
  BY <1>2 DEF HasChild
<1>cs. PICK cs : cs = entries[j].children
  OBVIOUS
<1>4. cs \in Seq(Child)
  <2>1. entries[j] \in Entry
    BY <1>1
  <2> QED
    BY <2>1, <1>cs, EntryFields
<1>5. k \in 1..Len(cs) /\ k \in Nat /\ j \in Nat /\ cs # <<>>
  BY <1>3, <1>4, <1>cs
<1>e. PICK e : e = [folder |-> j, child |-> k]
  OBVIOUS
<1>6. e \in Ids /\ e.folder = j /\ e.child = k
  BY <1>5, <1>e DEF Ids
<1>7. IsChild(e, j)
  BY <1>5, <1>6, <1>cs DEF IsChild
<1>8. P[Meta(e)] = Append(P[j], FileName(e)) /\ Meta(e) = entries[j].children[e.child].meta
  BY <1>1, <1>7, ChildFields
<1>9. Meta(e) = m
  BY <1>3, <1>6, <1>8
<1>10. entries[j].info.isDir
  <2>1. ~entries[j].info.isDir => entries[j].children = <<>>
    BY <1>1 DEF Walkable, EntriesAttached
  <2> QED
    BY <2>1, <1>5, <1>cs
<1> QED
  BY <1>5, <1>7, <1>8, <1>9, <1>10, <1>cs, <1>e

(* The search is at the place that the names lead to, if there is one.     *)
GoAt(g, p, i, P) ==
  /\ g.found \in BOOLEAN
  /\ Somewhere(g.cursor, P)
  /\ g.found <=> \E m \in 1..Len(P) : FoldsTo(P[m], p, i)
  /\ g.found => Positioned(g.cursor, P) /\ FoldsTo(g.cursor.path, p, i)

LEMMA PlaceOfCursor ==
  ASSUME NEW P, Walkable(P), NEW c, Positioned(c, P)
  PROVE  Meta(c.current) \in 1..Len(P) /\ P[Meta(c.current)] = c.path
<1>1. PICK a, b, e, p : a = c.parents /\ b = c.cached /\ e = c.current /\ p = c.path
  OBVIOUS
<1>2. /\ At(a, b, e, p, P) /\ Len(P) = Len(entries) /\ Len(a) \in Nat \ {0}
      /\ a \in Seq(Above) /\ p \in Seq(Names)
  <2>1. At(a, b, e, p, P)
    BY <1>1 DEF Positioned
  <2> QED
    BY <2>1, Depth DEF Walkable, At
<1>3. CASE AtFolder(a, e, p)
  <2>1. Meta(e) \in 1..Len(entries) /\ P[Meta(e)] = p
    BY <1>2, <1>3, FolderPlace
  <2> QED
    BY <2>1, <1>1, <1>2
<1>4. CASE AtFile(a, e, p)
  <2>n. PICK n : n = Len(a)
    OBVIOUS
  <2>f. PICK f : f = Meta(a[n].id)
    OBVIOUS
  <2>1. n \in 1..Len(a) /\ n \in Nat \ {0} /\ IsChild(e, f) /\ Len(p) = n /\ p[n] = FileName(e)
    BY <1>2, <1>4, <2>n, <2>f DEF AtFile
  <2>2. f \in 1..Len(entries) /\ Len(P[f]) = n - 1 /\ \A k \in 1..n - 1 : P[f][k] = p[k]
    BY <1>2, <2>1, <2>f DEF At, Trail, InTrail
  <2>3. /\ Meta(e) \in 1..Len(entries) /\ P[Meta(e)] = Append(P[f], FileName(e))
        /\ P[f] \in Seq(Names) /\ FileName(e) \in Names
    BY <2>1, <2>2, ChildFields
  <2>q. PICK q : q = P[f]
    OBVIOUS
  <2>r. PICK r : r = Append(q, FileName(e))
    OBVIOUS
  <2>4. r \in Seq(Names) /\ Len(r) = n /\ r[n] = p[n] /\ \A k \in 1..n - 1 : r[k] = p[k]
    BY <2>1, <2>2, <2>3, <2>q, <2>r
  <2>5. r = p
    <3>1. \A k \in 1..n : r[k] = p[k]
      BY <2>1, <2>4
    <3> QED
      BY <3>1, <2>1, <2>4, <1>2
  <2> QED
    BY <2>3, <2>5, <2>q, <2>r, <1>1, <1>2
<1> QED
  BY <1>2, <1>3, <1>4 DEF At

LEMMA FoldsWithLast ==
  ASSUME NEW q \in Seq(Names), NEW name \in Names, NEW p, NEW i \in Nat \ {0}
  PROVE  FoldsTo(Append(q, name), p, i) <=> FoldsTo(q, p, i - 1) /\ Fold[name] = Fold[p[i]]
<1>r. PICK r : r = Append(q, name)
  OBVIOUS
<1>1. /\ r \in Seq(Names) /\ Len(r) = Len(q) + 1 /\ Len(q) \in Nat
      /\ \A k \in 1..Len(q) : r[k] = q[k]
      /\ r[Len(q) + 1] = name
  BY <1>r
<1>2. ASSUME FoldsTo(r, p, i) PROVE FoldsTo(q, p, i - 1) /\ Fold[name] = Fold[p[i]]
  <2>1. Len(q) = i - 1 /\ \A k \in 1..i : Fold[r[k]] = Fold[p[k]]
    BY <1>1, <1>2 DEF FoldsTo
  <2>2. i \in 1..i /\ r[i] = name
    BY <1>1, <2>1
  <2>3. ASSUME NEW k \in 1..i - 1 PROVE Fold[q[k]] = Fold[p[k]]
    <3>1. k \in 1..i /\ r[k] = q[k]
      BY <1>1, <2>1
    <3> QED
      BY <2>1, <3>1
  <2> QED
    BY <2>1, <2>2, <2>3 DEF FoldsTo
<1>3. ASSUME FoldsTo(q, p, i - 1), Fold[name] = Fold[p[i]] PROVE FoldsTo(r, p, i)
  <2>1. Len(q) = i - 1 /\ Len(r) = i /\ \A k \in 1..i - 1 : Fold[q[k]] = Fold[p[k]]
    BY <1>1, <1>3 DEF FoldsTo
  <2>2. ASSUME NEW k \in 1..i PROVE Fold[r[k]] = Fold[p[k]]
    <3>1. CASE k = i
      BY <3>1, <1>1, <1>3, <2>1
    <3>2. CASE k # i
      <4>1. k \in 1..i - 1 /\ r[k] = q[k]
        BY <3>2, <1>1, <2>1
      <4> QED
        BY <4>1, <2>1
    <3> QED
      BY <3>1, <3>2
  <2> QED
    BY <2>1, <2>2 DEF FoldsTo
<1> QED
  BY <1>2, <1>3, <1>r

LEMMA GoStepFinds ==
  ASSUME NEW P, Complete(P), NoTwins(P), NEW p, NEW i \in Nat \ {0}, NEW g, GoAt(g, p, i - 1, P)
  PROVE  GoAt(GoStep(g, p[i]), p, i, P)
<1>1. Walkable(P) /\ P \in Seq(Seq(Names)) /\ Len(P) = Len(entries)
  BY DEF Complete, Walkable
<1>2. ASSUME NEW m \in 1..Len(P), FoldsTo(P[m], p, i)
      PROVE  \E j \in 1..Len(entries), k \in Nat :
               /\ k \in 1..Len(entries[j].children)
               /\ entries[j].info.isDir
               /\ FoldsTo(P[j], p, i - 1)
               /\ Fold[FileName([folder |-> j, child |-> k])] = Fold[p[i]]
  <2>1. P[m] # <<>>
    <3>1. Len(P[m]) = i
      BY <1>2 DEF FoldsTo
    <3> QED
      BY <3>1
  <2>2. PICK j \in 1..Len(entries), k \in Nat :
          /\ k \in 1..Len(entries[j].children)
          /\ P[m] = Append(P[j], FileName([folder |-> j, child |-> k]))
          /\ entries[j].info.isDir
          /\ IsChild([folder |-> j, child |-> k], j)
    BY <1>2, <2>1, FolderOf
  <2>n. PICK name : name = FileName([folder |-> j, child |-> k])
    OBVIOUS
  <2>q. PICK q : q = P[j]
    OBVIOUS
  <2>3. name \in Names /\ q \in Seq(Names)
    BY <1>1, <2>2, <2>n, <2>q, ChildFields
  <2>4. FoldsTo(Append(q, name), p, i)
    BY <1>2, <2>2, <2>n, <2>q
  <2>5. FoldsTo(q, p, i - 1) /\ Fold[name] = Fold[p[i]]
    BY <2>3, <2>4, FoldsWithLast
  <2> QED
    BY <2>2, <2>5, <2>n, <2>q
<1>3. g.found \in BOOLEAN /\ Somewhere(g.cursor, P)
  BY DEF GoAt
<1>4. CASE ~g.found
  <2>1. GoStep(g, p[i]) = g
    BY <1>4 DEF GoStep
  <2>2. ~ \E m \in 1..Len(P) : FoldsTo(P[m], p, i - 1)
    BY <1>4 DEF GoAt
  <2>3. ~ \E m \in 1..Len(P) : FoldsTo(P[m], p, i)
    BY <2>2, <1>1, <1>2
  <2> QED
    BY <2>1, <2>3, <1>3, <1>4 DEF GoAt
<1>5. CASE g.found
  <2>d. PICK d : d = g.cursor
    OBVIOUS
  <2>r. PICK r : r = SelectByName(d, p[i])
    OBVIOUS
  <2>1. GoStep(g, p[i]) = r
    BY <1>5, <2>d, <2>r DEF GoStep
  <2>2. Positioned(d, P) /\ Somewhere(d, P) /\ FoldsTo(d.path, p, i - 1)
    BY <1>5, <2>d DEF GoAt
  <2>ch. PICK ch : ch = FolderChildren(d)
    OBVIOUS
  <2>3. /\ Somewhere(r.cursor, P) /\ r.found \in BOOLEAN
        /\ r.found <=> \E k \in 1..Len(ch) : Fold[FileName(ch[k])] = Fold[p[i]]
        /\ r.found => /\ Positioned(r.cursor, P)
                      /\ \E k \in 1..Len(ch) :
                           /\ Fold[FileName(ch[k])] = Fold[p[i]]
                           /\ r.cursor.path = Append(d.path, FileName(ch[k]))
    <3>n. PICK name : name = p[i]
      OBVIOUS
    <3>1. LET children == FolderChildren(d)
              match(k) == Fold[FileName(children[k])] = Fold[name] IN
          /\ Somewhere(SelectByName(d, name).cursor, P)
          /\ SelectByName(d, name).found <=> \E k \in 1..Len(children) : match(k)
          /\ SelectByName(d, name).found \in BOOLEAN
          /\ SelectByName(d, name).found =>
               /\ Positioned(d, P) /\ Positioned(SelectByName(d, name).cursor, P)
               /\ \E k \in 1..Len(children) :
                    match(k) /\ SelectByName(d, name).cursor.path
                                  = Append(d.path, FileName(children[k]))
      <4>1. Walkable(P) /\ Somewhere(d, P)
        BY <1>1, <2>2
      <4> QED
        BY <4>1, SelectByNameMoves
    <3> QED
      BY <3>1, <3>n, <2>r, <2>ch
  <2>4. ch = IF InFolder(d) THEN Children(d.current) ELSE <<>>
    BY <1>1, <2>2, <2>ch, CacheFilled
  <2>m. PICK here : here = Meta(d.current)
    OBVIOUS
  <2>5. here \in 1..Len(P) /\ P[here] = d.path /\ d.path \in Seq(Names)
    BY <1>1, <2>2, <2>m, PlaceOfCursor
  <2>6. /\ Children(d.current) \in Seq(Ids)
        /\ Len(Children(d.current)) = Len(entries[here].children)
        /\ \A k \in 1..Len(Children(d.current)) :
             /\ Children(d.current)[k] = [folder |-> here, child |-> k]
             /\ IsChild(Children(d.current)[k], here)
    BY <1>1, <2>5, <2>m, ChildrenAre
  <2>7. ASSUME r.found PROVE FoldsTo(r.cursor.path, p, i)
    <3>1. PICK k \in 1..Len(ch) : /\ Fold[FileName(ch[k])] = Fold[p[i]]
                                  /\ r.cursor.path = Append(d.path, FileName(ch[k]))
      BY <2>3, <2>7
    <3>2. ch = Children(d.current)
      <4>1. ch # <<>>
        BY <3>1
      <4> QED
        BY <4>1, <2>4
    <3>3. IsChild(ch[k], here)
      BY <2>6, <3>1, <3>2
    <3>n. PICK name : name = FileName(ch[k])
      OBVIOUS
    <3>4. name \in Names
      BY <3>3, <3>n, <1>1, <2>5, ChildFields
    <3>5. FoldsTo(Append(d.path, name), p, i)
      BY <3>1, <3>4, <3>n, <2>2, <2>5, FoldsWithLast
    <3> QED
      BY <3>1, <3>5, <3>n
  <2>8. ASSUME r.found PROVE \E m \in 1..Len(P) : FoldsTo(P[m], p, i)
    <3>1. /\ Meta(r.cursor.current) \in 1..Len(P)
          /\ P[Meta(r.cursor.current)] = r.cursor.path
      BY <1>1, <2>3, <2>8, PlaceOfCursor
    <3> QED
      BY <3>1, <2>7, <2>8
  <2>9. ASSUME NEW m \in 1..Len(P), FoldsTo(P[m], p, i) PROVE r.found
    <3>1. PICK j \in 1..Len(entries), k \in Nat :
            /\ k \in 1..Len(entries[j].children)
            /\ entries[j].info.isDir
            /\ FoldsTo(P[j], p, i - 1)
            /\ Fold[FileName([folder |-> j, child |-> k])] = Fold[p[i]]
      BY <1>2, <2>9
    <3>2. j = here
      <4>1. FoldsTo(P[j], P[here], Len(P[here]))
        BY <2>2, <2>5, <3>1 DEF FoldsTo
      <4>2. P[j] = P[here]
        BY <4>1, <1>1, <2>5 DEF NoTwins
      <4> QED
        BY <4>2, <1>1, <2>5 DEF Complete
    <3>3. InFolder(d)
      <4>1. IsFolder(d.current)
        BY <3>1, <3>2, <2>m DEF IsFolder
      <4> QED
        BY <4>1, <1>1, <2>2, SelectedFolder
    <3>4. ch = Children(d.current)
      BY <3>3, <2>4
    <3>5. k \in 1..Len(ch) /\ ch[k] = [folder |-> j, child |-> k]
      BY <3>1, <3>2, <3>4, <2>6
    <3> QED
      BY <3>1, <3>5, <2>3
  <2> QED
    BY <2>1, <2>3, <2>7, <2>8, <2>9 DEF GoAt
<1> QED
  BY <1>3, <1>4, <1>5

LEMMA GoToPathFinds ==
  ASSUME NEW P, Complete(P), NoTwins(P), NEW c, Positioned(c, P), NEW p \in WantedPaths
  PROVE  GoAt(GoToPath(c, p), p, Len(p), P)
<1>n. PICK n : n = OpenFolders(c, p)
  OBVIOUS
<1>1. Walkable(P)
  BY DEF Complete
<1>2. /\ p \in Seq(Wanted) /\ n \in 0..Len(p) /\ n + 1 \in 1..Len(c.parents) /\ n \in Nat
      /\ \A i \in 1..n : Fold[p[i]] = Fold[FileName(c.parents[i + 1].id)]
      /\ Len(c.parents) \in Nat
  BY <1>n, WantedPathIs, OpenFoldersAre
<1>3. PICK go :
        /\ GoToPath(c, p) = go[Len(p)]
        /\ go[n] = [found |-> TRUE, cursor |-> GoToParent(SelectFolder(c), n + 1)]
        /\ \A i \in n + 1..Len(p) : go[i] = GoStep(go[i - 1], p[i])
  BY <1>1, <1>2, <1>n, GoToPathIs
<1> DEFINE T == {i \in Nat : GoAt(go[i], p, i, P)}
<1>4. n \in T
  <2>d. PICK d : d = GoToParent(SelectFolder(c), n + 1)
    OBVIOUS
  <2>1. Positioned(d, P) /\ Len(d.path) = n /\ \A k \in 1..n : d.path[k] = c.path[k]
    BY <1>1, <1>2, <2>d, StartsFrom
  <2>2. go[n].found = TRUE /\ go[n].cursor = d
    BY <1>3, <2>d
  <2>3. ASSUME NEW k \in 1..n PROVE Fold[d.path[k]] = Fold[p[k]]
    <3>1. k + 1 \in 2..Len(c.parents) /\ (k + 1) - 1 = k
      BY <1>2
    <3>2. FileName(c.parents[k + 1].id) = c.path[k]
      BY <3>1, <1>1, TrailNames
    <3> QED
      BY <3>2, <1>2, <2>1
  <2>4. FoldsTo(d.path, p, n)
    BY <2>1, <2>3 DEF FoldsTo
  <2>5. \E m \in 1..Len(P) : FoldsTo(P[m], p, n)
    <3>1. Meta(d.current) \in 1..Len(P) /\ P[Meta(d.current)] = d.path
      BY <1>1, <2>1, PlaceOfCursor
    <3> QED
      BY <3>1, <2>4
  <2>6. GoAt(go[n], p, n, P)
    BY <2>1, <2>2, <2>4, <2>5 DEF GoAt, Somewhere
  <2> QED
    BY <2>6, <1>2
<1>5. ASSUME NEW i \in n + 1..Len(p), i - 1 \in T PROVE i \in T
  <2>1. i \in Nat \ {0} /\ GoAt(go[i - 1], p, i - 1, P)
    BY <1>2, <1>5
  <2>2. GoAt(GoStep(go[i - 1], p[i]), p, i, P)
    BY <2>1, GoStepFinds
  <2> QED
    BY <2>1, <2>2, <1>3
<1> HIDE DEF T
<1>6. T \in SUBSET Nat
  BY DEF T
<1>7. Len(p) \in T
  BY <1>2, <1>4, <1>5, <1>6, AlongThePath
<1> QED
  BY <1>3, <1>7 DEF T

-------------------------------------------------------------------------------
(* The inductive invariant: the cursor is in the index that was built.     *)
Users == {"none", "csv", "qdirstat", "qdirstat at /", "navigation"}
InPlace(P) == \E c : c = cursor /\ (c = Cleared \/ (pc = "built" /\ Positioned(c, P)))

CursorInv ==
  /\ IndexTypeOK
  /\ pc = "built" => parents = <<>>
  /\ user \in Users
  /\ nextFile \in Nat
  /\ user # "none" => pc = "built"
  /\ \E P : Indexed(P) /\ InPlace(P)

LEMMA BuiltIndex ==
  ASSUME NEW P, Indexed(P), parents = <<>>
  PROVE  Walkable(P) /\ Complete(P)
<1>1. Shape(parents, entries, P, Unset) /\ RootStored(P)
  BY DEF Indexed
<1>2. Walkable(P)
  BY <1>1 DEF Shape, Walkable
<1>3. /\ Len(P) = Len(entries) /\ Len(P) \in Nat
      /\ \A m, k \in 1..Len(P) : P[m] = P[k] => m = k
      /\ Owned(parents, entries, P, Unset)
  <2>1. P \in Seq(Seq(Names)) /\ Len(P) = Len(entries)
    BY <1>2 DEF Walkable
  <2> QED
    BY <1>1, <2>1 DEF Shape, OnePath
<1>4. ASSUME NEW m \in 1..Len(P), P[m] # <<>>
      PROVE  \E j \in 1..Len(entries) : HasChild(entries[j].children, m)
  <2>1. m # Unset /\ m \in 1..Len(entries)
    BY <1>3 DEF Unset
  <2>2. InSome(parents, entries, m)
    BY <1>3, <1>4, <2>1 DEF Owned
  <2>3. 1..Len(parents) = {}
    <3>1. Len(parents) = 0
      OBVIOUS
    <3> QED
      BY <3>1
  <2> QED
    BY <2>2, <2>3, Zenon DEF InSome
<1> QED
  BY <1>2, <1>3, <1>4 DEF Complete

LEMMA RootSelected ==
  ASSUME NEW P, Walkable(P)
  PROVE  Positioned(AtRoot, P)
<1>x. PICK x : x = [id |-> Root, next |-> 1, cacheStart |-> 0, pathLen |-> 0]
  OBVIOUS
<1>1. AtRoot = [parents |-> <<x>>, cached |-> <<>>, current |-> Root, path |-> <<>>]
  <2>1. Cleared = [parents |-> <<>>, cached |-> <<>>, current |-> NoEntry, path |-> <<>>]
    BY DEF Cleared
  <2>2. AtRoot = [Cleared EXCEPT !.current = Root, !.parents = <<x>>]
    BY <1>x DEF AtRoot
  <2> QED
    BY <2>1, <2>2
<1>2. Root \in Ids /\ x \in Above /\ x.id = Root /\ x.cacheStart = 0 /\ x.pathLen = 0
  <2>1. Root \in Ids
    BY DEF Root, Ids
  <2> QED
    BY <2>1, <1>x DEF Above
<1>a. PICK a : a = <<x>>
  OBVIOUS
<1>b. PICK b : b = <<>> /\ b \in Seq(Ids)
  <2>1. <<>> \in Seq(Ids)
    OBVIOUS
  <2> QED
    BY <2>1
<1>p. PICK p : p = <<>> /\ p \in Seq(Names)
  <2>1. <<>> \in Seq(Names)
    OBVIOUS
  <2> QED
    BY <2>1
<1>3. a \in Seq(Above) /\ Len(a) = 1 /\ a[1] = x /\ a # <<>>
  BY <1>2, <1>a
<1>4. Trail(a, p, P)
  <2>1. InTrail(Root, 1, p, P)
    <3>1. /\ Meta(Root) \in 1..Len(entries) /\ IsFolder(Root) /\ P[Meta(Root)] = <<>>
      BY DEF Walkable, RootStored, Meta, IsFolder
    <3>2. Len(P[Meta(Root)]) = 1 - 1
      BY <3>1
    <3> QED
      BY <3>1, <3>2 DEF InTrail
  <2> QED
    BY <2>1, <1>2, <1>3 DEF Trail
<1>5. Cached(a, b)
  <2>1. Len(b) = 0 /\ SubSeq(b, 1, 0) = <<>>
    BY <1>b
  <2>2. PartEnd(a, b, 1) = 0
    BY <2>1, <1>3 DEF PartEnd
  <2>3. \A i \in 1..Len(a) : i = 1
    BY <1>3
  <2>4. SubSeq(b, a[1].cacheStart + 1, PartEnd(a, b, 1)) = <<>>
    BY <2>1, <2>2, <1>2, <1>3
  <2> QED
    BY <2>1, <2>3, <2>4, <1>2, <1>3 DEF Cached
<1>6. AtFolder(a, Root, p)
  BY <1>2, <1>3, <1>p DEF AtFolder
<1>7. At(a, b, Root, p, P)
  BY <1>2, <1>3, <1>4, <1>5, <1>6, <1>b, <1>p DEF At
<1>8. AtRoot = [parents |-> a, cached |-> b, current |-> Root, path |-> p]
  BY <1>1, <1>a, <1>b, <1>p
<1>9. [parents |-> a, cached |-> b, current |-> Root, path |-> p] \in CursorType
  BY <1>7 DEF At, CursorType
<1>10. Positioned([parents |-> a, cached |-> b, current |-> Root, path |-> p], P)
  BY <1>7, <1>9 DEF Positioned
<1> QED
  BY <1>8, <1>10

LEMMA CacheMoves ==
  ASSUME NEW P, Walkable(P), NEW c, Somewhere(c, P)
  PROVE  Somewhere(WithCache(c), P)
BY CacheFilled, ClearedFields DEF Somewhere

LEMMA InitCursorInv == CursorInit => CursorInv
<1> SUFFICES ASSUME CursorInit PROVE CursorInv
  OBVIOUS
<1>1. /\ Init /\ cursor = Cleared /\ user = "none" /\ nextFile = 0
  BY DEF CursorInit, Unset
<1>2. BuildInv
  BY <1>1, InitBuildInv
<1> QED
  BY <1>1, <1>2 DEF BuildInv, CursorInv, InPlace, Users

(* A place stays one as long as the index does not change.                 *)
LEMMA PositionedKept ==
  ASSUME entries' = entries, rootMeta' = rootMeta, NEW P, NEW c, Positioned(c, P)
  PROVE  Positioned(c, P)'
<1>1. \A e : Meta(e)' = Meta(e) /\ FileName(e)' = FileName(e)
  BY DEF Meta, FileName
<1>2. \A e : IsFolder(e)' = IsFolder(e) /\ Children(e)' = Children(e)
  BY <1>1 DEF IsFolder, Children
<1>3. \A e, f : IsChild(e, f)' <=> IsChild(e, f)
  BY DEF IsChild
<1>4. \A id, i, p : InTrail(id, i, p, P)' <=> InTrail(id, i, p, P)
  BY <1>1, <1>2 DEF InTrail
<1>5. \A a, p : Trail(a, p, P) => Trail(a, p, P)'
  BY <1>1, <1>3, <1>4 DEF Trail
<1>6. \A a, b : Cached(a, b) => Cached(a, b)'
  BY <1>2 DEF Cached
<1>7. \A a, e, p : AtFile(a, e, p) => AtFile(a, e, p)'
  BY <1>1, <1>2, <1>3 DEF AtFile
<1>8. \A a, b, e, p : At(a, b, e, p, P) => At(a, b, e, p, P)'
  BY <1>5, <1>6, <1>7 DEF At
<1>9. PICK a, b, e, p : /\ c.parents = a /\ c.cached = b /\ c.current = e /\ c.path = p
                         /\ At(a, b, e, p, P)
  BY DEF Positioned
<1>10. At(a, b, e, p, P)'
  BY <1>8, <1>9
<1> QED
  BY <1>9, <1>10 DEF Positioned

(* A step of what uses the cursor.                                         *)
LEMMA CursorStays ==
  ASSUME CursorInv, UNCHANGED indexVars, pc = "built", user' \in Users, nextFile' \in Nat,
         \A P : Walkable(P) /\ Somewhere(cursor, P) => Somewhere(cursor', P)
  PROVE  CursorInv'
<1>1. PICK P : Indexed(P) /\ InPlace(P)
  BY DEF CursorInv
<1>2. IndexTypeOK' /\ (pc' = "built" => parents' = <<>>) /\ pc' = "built"
  BY DEF CursorInv, IndexTypeOK, indexVars
<1>3. Indexed(P)'
  BY <1>1 DEF Indexed, RootStored, ItemWaits, InOpenFolders, Waiting, indexVars
<1>4. Walkable(P)
  BY <1>1, BuiltIndex DEF CursorInv
<1>5. Somewhere(cursor', P)
  BY <1>1, <1>4 DEF InPlace, Somewhere
<1>6. InPlace(P)'
  <2>1. ASSUME NEW c, Positioned(c, P) PROVE Positioned(c, P)'
    BY <2>1, PositionedKept DEF indexVars
  <2>2. PICK c : c = cursor'
    OBVIOUS
  <2>3. c = Cleared \/ Positioned(c, P)'
    BY <2>1, <2>2, <1>5 DEF Somewhere
  <2> QED
    BY <2>2, <2>3, <1>2 DEF InPlace
<1> QED
  BY <1>2, <1>3, <1>6 DEF CursorInv

LEMMA CursorInvKept == CursorInv /\ [Next]_vars => CursorInv'
<1> SUFFICES ASSUME CursorInv, [Next]_vars PROVE CursorInv'
  OBVIOUS
<1>b. BuildInv
  BY DEF CursorInv, BuildInv
<1>1. ASSUME BuildNext, UNCHANGED cursorVars PROVE CursorInv'
  <2>1. pc # "built"
    BY <1>1 DEF BuildNext, Read, Panic, Take, Refuse, EndOfRecords, FinishFolder, AddFolder,
                AddFile, Built
  <2>2. cursor = Cleared /\ cursor' = cursor /\ user' = user /\ nextFile' = nextFile
        /\ user = "none"
    BY <1>1, <2>1 DEF CursorInv, InPlace, cursorVars
  <2>3. BuildInv'
    BY <1>1, <1>b, BuildKept
  <2>4. cursor' = Cleared /\ user' \in Users /\ nextFile' \in Nat /\ user' = "none"
    BY <2>2 DEF CursorInv
  <2>5. PICK P : Indexed(P)'
    BY <2>3 DEF BuildInv
  <2>6. InPlace(P)'
    BY <2>4 DEF InPlace, Cleared
  <2>7. IndexTypeOK' /\ (pc' = "built" => parents' = <<>>)
    BY <2>3 DEF BuildInv
  <2> QED
    BY <2>4, <2>5, <2>6, <2>7 DEF CursorInv
<1>2. ASSUME UNCHANGED indexVars, SetRoot PROVE CursorInv'
  <2>1. pc = "built" /\ cursor' = AtRoot /\ user' \in Users /\ nextFile' \in Nat
    BY <1>2 DEF SetRoot, Users, CursorInv
  <2> QED
    BY <1>2, <2>1, RootSelected, CursorStays DEF Somewhere
<1>3. ASSUME UNCHANGED indexVars, Navigate PROVE CursorInv'
  <2>1. pc = "built" /\ user' \in Users /\ nextFile' \in Nat
    BY <1>3 DEF Navigate, CursorInv
  <2>2. ASSUME NEW P, Walkable(P), Somewhere(cursor, P) PROVE Somewhere(cursor', P)
    <3>1. CASE cursor' = Advance(cursor)
      BY <3>1, <2>2, AdvanceMoves
    <3>2. CASE cursor' = WithCache(cursor)
      BY <3>2, <2>2, CacheMoves
    <3>3. ASSUME NEW n \in Wanted, cursor' = SelectByName(cursor, n).cursor
          PROVE  Somewhere(cursor', P)
      <4>1. Somewhere(SelectByName(cursor, n).cursor, P)
        BY <2>2, SelectByNameMoves
      <4> QED
        BY <3>3, <4>1
    <3>4. ASSUME NEW n \in 1..MaxDepth, cursor' = GoToParent(cursor, n)
          PROVE  Somewhere(cursor', P)
      <4>1. n \in Nat \ {0}
        BY IndexAssumption
      <4> QED
        BY <3>4, <4>1, <2>2, GoToParentMoves
    <3>5. ASSUME NEW p \in WantedPaths, cursor' = GoToPath(cursor, p).cursor
          PROVE  Somewhere(cursor', P)
      BY <3>5, <2>2, GoToPathMoves
    <3> QED
      BY <3>1, <3>2, <3>3, <3>4, <3>5, <1>3 DEF Navigate
  <2> QED
    BY <1>3, <2>1, <2>2, CursorStays
<1>4. ASSUME UNCHANGED indexVars, CsvNext PROVE CursorInv'
  <2>1. pc = "built" /\ cursor' = Advance(cursor) /\ user' \in Users /\ nextFile' \in Nat
    BY <1>4 DEF CsvNext, CursorInv
  <2> QED
    BY <1>4, <2>1, AdvanceMoves, CursorStays
<1>5. ASSUME UNCHANGED indexVars, QDirStatFile PROVE CursorInv'
  <2>1. pc = "built" /\ cursor' = WithCache(cursor) /\ user' \in Users /\ nextFile' \in Nat
    <3>1. user \in Users /\ user # "none" /\ nextFile \in Nat /\ pc = "built"
      BY <1>5 DEF QDirStatFile, CursorInv, IsQDirStat
    <3>2. user' = user /\ nextFile' = nextFile + 1 /\ cursor' = WithCache(cursor)
      BY <1>5 DEF QDirStatFile
    <3> QED
      BY <3>1, <3>2
  <2> QED
    BY <1>5, <2>1, CacheMoves, CursorStays
<1>6. ASSUME UNCHANGED indexVars, QDirStatFolder PROVE CursorInv'
  <2>n. PICK next : next = IF nextFile = Unset THEN cursor ELSE Advance(WithCache(cursor))
    OBVIOUS
  <2>1. /\ pc = "built" /\ user' \in Users /\ nextFile' \in {1, 0}
        /\ cursor' = next \/ cursor' = Advance(next)
    BY <1>6, <2>n DEF QDirStatFolder, CursorInv, IsQDirStat, Unset
  <2>2. ASSUME NEW P, Walkable(P), Somewhere(cursor, P) PROVE Somewhere(cursor', P)
    <3>1. Somewhere(Advance(WithCache(cursor)), P)
      <4>1. Somewhere(WithCache(cursor), P)
        BY <2>2, CacheMoves
      <4> QED
        BY <4>1, <2>2, AdvanceMoves
    <3>2. Somewhere(next, P)
      BY <3>1, <2>2, <2>n
    <3>3. Somewhere(Advance(next), P)
      BY <3>2, <2>2, AdvanceMoves
    <3> QED
      BY <3>2, <3>3, <2>1
  <2>3. nextFile' \in Nat
    BY <2>1
  <2> QED
    BY <1>6, <2>1, <2>2, <2>3, CursorStays
<1>7. ASSUME UNCHANGED vars PROVE CursorInv'
  <2>1. UNCHANGED indexVars /\ UNCHANGED cursorVars
    BY <1>7 DEF vars
  <2>2. CASE pc = "built"
    <3>1. cursor' = cursor /\ user' \in Users /\ nextFile' \in Nat
      BY <2>1 DEF cursorVars, CursorInv
    <3> QED
      BY <2>1, <2>2, <3>1, CursorStays
  <2>3. CASE pc # "built"
    <3>1. cursor = Cleared /\ cursor' = Cleared /\ user' \in Users /\ nextFile' \in Nat
          /\ user' = "none"
      BY <2>1, <2>3 DEF CursorInv, InPlace, cursorVars
    <3>2. BuildInv'
      BY <2>1, <1>b, BuildKept
    <3>3. PICK P : Indexed(P)'
      BY <3>2 DEF BuildInv
    <3>4. InPlace(P)'
      BY <3>1 DEF InPlace, Cleared
    <3> QED
      BY <3>1, <3>2, <3>3, <3>4 DEF CursorInv, BuildInv
  <2> QED
    BY <2>2, <2>3
<1> QED
  BY <1>1, <1>2, <1>3, <1>4, <1>5, <1>6, <1>7 DEF Next, CursorNext

LEMMA CursorInvHolds == Spec => []CursorInv
<1>1. Spec => []CursorInv
  BY InitCursorInv, CursorInvKept, PTL DEF Spec
<1> QED
  BY <1>1

(* What is at a place was listed.                                          *)
LEMMA PlaceListed ==
  ASSUME CursorInv, NEW P, Indexed(P), pc = "built"
  PROVE  /\ \A m \in 1..Len(P) :
              /\ P[m] \in Paths \cup {<<>>}
              /\ \E r \in Range(listing) : r.path = P[m] /\ r.isDir = entries[m].info.isDir
         /\ \A r \in Range(listing) : \E m \in 1..Len(P) : P[m] = r.path
         /\ Len(P) = Len(entries)
<1>1. parents = <<>> /\ Waiting = {} /\ Recorded(parents, entries, P, listing, Waiting)
  BY DEF CursorInv, Indexed, Waiting
<1>2. Walkable(P) /\ Len(P) = Len(entries)
  BY <1>1, BuiltIndex DEF Walkable
<1>3. listing \in Seq(Records(Paths \cup {<<>>})) /\ DOMAIN listing = 1..Len(listing)
  BY DEF CursorInv, IndexTypeOK
<1>4. ASSUME NEW m \in 1..Len(P)
      PROVE  /\ P[m] \in Paths \cup {<<>>}
             /\ \E r \in Range(listing) : r.path = P[m] /\ r.isDir = entries[m].info.isDir
  <2>1. PICK k \in 1..Len(listing) : listing[k].path = P[m]
                                     /\ listing[k].isDir = entries[m].info.isDir
    BY <1>1, <1>2, <1>4 DEF Recorded, Listed
  <2>2. listing[k] \in Records(Paths \cup {<<>>}) /\ listing[k] \in Range(listing)
    BY <1>3 DEF Range
  <2>3. listing[k].path \in Paths \cup {<<>>}
    BY <2>2, RecordFields
  <2> QED
    BY <2>1, <2>2, <2>3
<1>5. ASSUME NEW r \in Range(listing) PROVE \E m \in 1..Len(P) : P[m] = r.path
  <2>1. PICK k \in 1..Len(listing) : r = listing[k]
    BY <1>3, <1>5 DEF Range
  <2>2. HasPlace(parents, P, r.path)
    BY <1>1, <2>1 DEF Recorded
  <2>3. 1..Len(parents) = {}
    <3>1. Len(parents) = 0
      BY <1>1
    <3> QED
      BY <3>1
  <2> QED
    BY <2>2, <2>3, Zenon DEF HasPlace
<1> QED
  BY <1>2, <1>4, <1>5

LEMMA ConsistentIfInPlace == CursorInv => CursorConsistent
<1> SUFFICES ASSUME CursorInv PROVE CursorConsistent
  OBVIOUS
<1>1. PICK P : Indexed(P) /\ InPlace(P)
  BY DEF CursorInv
<1>2. CASE cursor = Cleared
  <2>1. /\ cursor.parents = <<>> /\ cursor.cached = <<>> /\ cursor.current = NoEntry
        /\ cursor.path = <<>>
    BY <1>2, ClearedFields
  <2>2. TypeOK
    BY <1>2, <2>1 DEF TypeOK, CursorInv, Users
  <2>3. CacheMatchesFolders
    <3>1. DOMAIN cursor.parents = {}
      BY <2>1
    <3> QED
      BY <2>1, <3>1 DEF CacheMatchesFolders
  <2>4. PathMatchesEntry
    BY <2>1 DEF PathMatchesEntry
  <2> QED
    BY <2>2, <2>3, <2>4 DEF CursorConsistent
<1>3. CASE pc = "built" /\ Positioned(cursor, P)
  <2>1. Walkable(P)
    BY <1>1, <1>3, BuiltIndex DEF CursorInv
  <2>2. PICK a, b, e, p : /\ cursor = [parents |-> a, cached |-> b, current |-> e, path |-> p]
                          /\ a = cursor.parents /\ b = cursor.cached
                          /\ e = cursor.current /\ p = cursor.path
    BY <1>3, CursorFields DEF Positioned
  <2>3. /\ At(a, b, e, p, P) /\ a \in Seq(Above) /\ p \in Seq(Names) /\ Cached(a, b)
        /\ AtFolder(a, e, p) \/ AtFile(a, e, p)
    BY <1>3, <2>2 DEF Positioned, At
  <2>n. PICK n : n = Len(a)
    OBVIOUS
  <2>4. n \in Nat \ {0} /\ DOMAIN a = 1..n /\ a # <<>>
    BY <2>3, <2>n, Depth
  <2>m. PICK m : m = Meta(e)
    OBVIOUS
  <2>5. m \in 1..Len(P) /\ P[m] = p
    BY <1>3, <2>1, <2>2, <2>m, PlaceOfCursor
  <2>6. /\ p \in Paths \cup {<<>>}
        /\ \E r \in Range(listing) : r.path = p /\ r.isDir = IsFolder(e)
    BY <1>1, <1>3, <2>5, <2>m, PlaceListed DEF IsFolder
  <2>7. TypeOK
    <3>1. DOMAIN cursor = {"parents", "cached", "current", "path"}
      BY <2>2
    <3>2. DOMAIN Cleared = {"parents", "cached", "current", "path"}
      BY DEF Cleared
    <3> QED
      BY <3>1, <3>2, <2>2, <2>6 DEF TypeOK, CursorInv, Users
  <2>8. CacheMatchesFolders
    <3>1. \A i \in 1..n :
            SubSeq(b, a[i].cacheStart + 1, IF i = n THEN Len(b) ELSE a[i + 1].cacheStart)
              \in {<<>>, Children(a[i].id)}
      BY <2>3, <2>n DEF Cached, PartEnd
    <3>2. a[1].cacheStart = 0
      BY <2>3 DEF Cached
    <3>3. cursor.parents = a /\ cursor.cached = b /\ Len(cursor.parents) = n
      BY <2>2, <2>n
    <3> QED
      BY <3>1, <3>2, <3>3, <2>4 DEF CacheMatchesFolders
  <2>9. PathMatchesEntry
    <3> DEFINE names == [i \in 1..n - 1 |-> FileName(a[i + 1].id)]
    <3>1. ASSUME NEW i \in 1..n - 1 PROVE FileName(a[i + 1].id) = p[i] /\ i \in 1..Len(p)
      <4>1. i + 1 \in 2..Len(cursor.parents) /\ (i + 1) - 1 = i
        BY <2>2, <2>4, <2>n
      <4> QED
        BY <4>1, <1>3, <2>1, <2>2, TrailNames
    <3>2. names = [i \in 1..n - 1 |-> p[i]] /\ \A i \in 1..n - 1 : p[i] \in Names
      BY <3>1, <2>3
    <3>q. PICK q : q = names
      OBVIOUS
    <3> HIDE DEF names
    <3>3. q \in Seq(Names) /\ Len(q) = n - 1 /\ \A i \in 1..n - 1 : q[i] = p[i]
      <4>1. q = [i \in 1..n - 1 |-> p[i]] /\ n - 1 \in Nat
        BY <3>2, <3>q, <2>4
      <4>2. q \in [1..n - 1 -> Names]
        BY <4>1, <3>2
      <4> QED
        BY <4>1, <4>2
    <3>4. InFolder(cursor) => p = q
      <4>1. InFolder(cursor) => Len(p) = n - 1
        BY <1>3, <2>1, <2>2, <2>n, SelectedFolder
      <4> QED
        BY <4>1, <3>3, <2>3
    <3>5. ~InFolder(cursor) => p = Append(q, FileName(e))
      <4> SUFFICES ASSUME ~InFolder(cursor) PROVE p = Append(q, FileName(e))
        OBVIOUS
      <4>1. AtFile(a, e, p)
        BY <1>3, <2>1, <2>2, <2>3, SelectedFolder
      <4>2. Len(p) = n /\ p[n] = FileName(e)
        BY <4>1, <2>n DEF AtFile
      <4>t. PICK t : t = Append(q, FileName(e))
        OBVIOUS
      <4>3. p[n] \in Names
        BY <4>2, <2>3, <2>4
      <4>4. t \in Seq(Names) /\ Len(t) = n /\ t[n] = p[n] /\ \A i \in 1..n - 1 : t[i] = p[i]
        BY <4>2, <4>3, <4>t, <3>3, <2>4
      <4>5. \A i \in 1..n : t[i] = p[i]
        BY <4>4, <2>4
      <4>6. t = p
        BY <4>2, <4>4, <4>5, <2>3
      <4> QED
        BY <4>6, <4>t
    <3>6. cursor.path = IF InFolder(cursor) THEN q ELSE Append(q, FileName(cursor.current))
      BY <3>4, <3>5, <2>2
    <3>7. q = [i \in 1..Len(cursor.parents) - 1 |-> FileName(cursor.parents[i + 1].id)]
      BY <3>q, <2>2, <2>n DEF names
    <3>8. \E r \in Range(listing) : r.path = cursor.path /\ r.isDir = IsFolder(cursor.current)
      BY <2>2, <2>6
    <3> QED
      BY <3>6, <3>7, <3>8 DEF PathMatchesEntry
  <2> QED
    BY <2>7, <2>8, <2>9 DEF CursorConsistent
<1> QED
  BY <1>1, <1>2, <1>3 DEF InPlace

(* Whatever the moves, what a cursor keeps besides its position never      *)
(* contradicts it: cached_children has for each folder that the cursor is  *)
(* in nothing or all of the children, and full_path is the path that the   *)
(* selected entry had in the listing.                                      *)
THEOREM CursorCorrect == Spec => []CursorConsistent
<1>1. CursorInv => CursorConsistent
  BY ConsistentIfInPlace
<1> QED
  BY <1>1, CursorInvHolds, PTL

(* A path is found, from wherever the cursor is, if and only if the        *)
(* listing has it up to case, and then its entry is selected.              *)
LEMMA FoundIfListed == CursorInv => GoToPathFindsEntry
<1> DEFINE folded(p) == [i \in DOMAIN p |-> Fold[p[i]]]
           twins == \E r, s \in Range(listing) : r.path # s.path /\ folded(r.path) = folded(s.path)
<1> SUFFICES ASSUME CursorInv, user = "navigation", cursor.parents # <<>>, ~twins,
                    NEW p \in WantedPaths
             PROVE  LET found == {r \in Range(listing) : folded(r.path) = folded(p)}
                        result == GoToPath(cursor, p) IN
                    /\ result.found <=> found # {}
                    /\ \A r \in found : result.cursor.path = r.path
  BY DEF GoToPathFindsEntry
<1>1. PICK P : Indexed(P) /\ InPlace(P)
  BY DEF CursorInv
<1>2. pc = "built" /\ parents = <<>>
  BY DEF CursorInv
<1>3. Complete(P) /\ Walkable(P)
  BY <1>1, <1>2, BuiltIndex
<1>4. Positioned(cursor, P)
  BY <1>1, ClearedFields DEF InPlace
<1>5. /\ \A m \in 1..Len(P) : \E r \in Range(listing) : r.path = P[m]
      /\ \A r \in Range(listing) : \E m \in 1..Len(P) : P[m] = r.path
  BY <1>1, <1>2, PlaceListed
<1>6. \A m \in 1..Len(P) : P[m] \in Seq(Names)
  BY <1>3 DEF Walkable
<1>7. p \in Seq(Wanted) /\ Len(p) \in Nat /\ DOMAIN p = 1..Len(p)
  BY WantedPathIs
<1>8. ASSUME NEW S, NEW q \in Seq(Names), NEW t \in Seq(S)
      PROVE  folded(q) = folded(t) <=> FoldsTo(q, t, Len(t))
  <2>1. DOMAIN q = 1..Len(q) /\ DOMAIN t = 1..Len(t) /\ Len(q) \in Nat /\ Len(t) \in Nat
    OBVIOUS
  <2>f. PICK f, g : f = folded(q) /\ g = folded(t)
    OBVIOUS
  <2>2. /\ f = [i \in 1..Len(q) |-> Fold[q[i]]] /\ g = [i \in 1..Len(t) |-> Fold[t[i]]]
    BY <2>1, <2>f
  <2>3. ASSUME f = g PROVE FoldsTo(q, t, Len(t))
    <3>1. DOMAIN f = 1..Len(q) /\ DOMAIN g = 1..Len(t)
      BY <2>2
    <3>2. 1..Len(q) = 1..Len(t)
      BY <3>1, <2>3
    <3>3. Len(q) = Len(t)
      <4>a. PICK a, b : a = Len(q) /\ b = Len(t)
        OBVIOUS
      <4>1. a \in Nat /\ b \in Nat /\ 1..a = 1..b
        BY <3>2, <2>1, <4>a
      <4>2. (a # 0 => a \in 1..b) /\ (b # 0 => b \in 1..a)
        <5>1. (a # 0 => a \in 1..a) /\ (b # 0 => b \in 1..b)
          BY <4>1
        <5> QED
          BY <4>1, <5>1, Zenon
      <4>3. a = b
        BY <4>1, <4>2
      <4> QED
        BY <4>3, <4>a
    <3>4. ASSUME NEW i \in 1..Len(t) PROVE Fold[q[i]] = Fold[t[i]]
      <4>1. f[i] = Fold[q[i]] /\ g[i] = Fold[t[i]]
        BY <2>2, <3>2
      <4> QED
        BY <4>1, <2>3
    <3> QED
      BY <3>3, <3>4 DEF FoldsTo
  <2>4. ASSUME FoldsTo(q, t, Len(t)) PROVE f = g
    <3>1. Len(q) = Len(t) /\ \A i \in 1..Len(t) : Fold[q[i]] = Fold[t[i]]
      BY <2>4 DEF FoldsTo
    <3> QED
      BY <3>1, <2>2
  <2> QED
    BY <2>3, <2>4, <2>f
<1> HIDE DEF folded
<1>9. NoTwins(P)
  <2> SUFFICES ASSUME NEW m \in 1..Len(P), NEW k \in 1..Len(P), FoldsTo(P[m], P[k], Len(P[k]))
               PROVE  P[m] = P[k]
    BY DEF NoTwins
  <2>1. folded(P[m]) = folded(P[k])
    BY <1>6, <1>8
  <2>2. PICK r \in Range(listing) : r.path = P[m]
    BY <1>5
  <2>3. PICK s \in Range(listing) : s.path = P[k]
    BY <1>5
  <2> QED
    BY <2>1, <2>2, <2>3
<1>r. PICK result : result = GoToPath(cursor, p)
  OBVIOUS
<1>10. GoAt(result, p, Len(p), P)
  BY <1>3, <1>4, <1>9, <1>r, GoToPathFinds
<1>11. ASSUME NEW r \in Range(listing)
       PROVE  \E m \in 1..Len(P) : /\ P[m] = r.path
                                   /\ folded(r.path) = folded(p) <=> FoldsTo(P[m], p, Len(p))
  <2>1. PICK m \in 1..Len(P) : P[m] = r.path
    BY <1>5
  <2>q. PICK q : q = P[m]
    OBVIOUS
  <2>2. q \in Seq(Names)
    BY <1>6, <2>q
  <2>3. folded(q) = folded(p) <=> FoldsTo(q, p, Len(p))
    BY <1>7, <1>8, <2>2
  <2> QED
    BY <2>1, <2>3, <2>q
<1>12. ASSUME result.found PROVE \E r \in Range(listing) : folded(r.path) = folded(p)
  <2>1. PICK m \in 1..Len(P) : FoldsTo(P[m], p, Len(p))
    BY <1>10, <1>12 DEF GoAt
  <2>2. PICK r \in Range(listing) : r.path = P[m]
    BY <1>5
  <2>q. PICK q : q = P[m]
    OBVIOUS
  <2>3. q \in Seq(Names) /\ FoldsTo(q, p, Len(p)) /\ r.path = q
    BY <1>6, <2>1, <2>2, <2>q
  <2>4. folded(q) = folded(p)
    BY <1>7, <1>8, <2>3
  <2> QED
    BY <2>3, <2>4
<1>13. ASSUME NEW r \in Range(listing), folded(r.path) = folded(p)
       PROVE  result.found /\ result.cursor.path = r.path
  <2>1. PICK m \in 1..Len(P) : P[m] = r.path /\ FoldsTo(P[m], p, Len(p))
    BY <1>11, <1>13
  <2>2. result.found /\ Positioned(result.cursor, P) /\ FoldsTo(result.cursor.path, p, Len(p))
    BY <1>10, <2>1 DEF GoAt
  <2>k. PICK k : k = Meta(result.cursor.current)
    OBVIOUS
  <2>3. k \in 1..Len(P) /\ P[k] = result.cursor.path
    BY <1>3, <2>2, <2>k, PlaceOfCursor
  <2>4. FoldsTo(P[k], P[m], Len(P[m]))
    BY <2>1, <2>2, <2>3 DEF FoldsTo
  <2>5. P[k] = P[m]
    BY <1>9, <2>1, <2>3, <2>4 DEF NoTwins
  <2> QED
    BY <2>1, <2>2, <2>3, <2>5
<1> QED
  BY <1>12, <1>13, <1>r

(* go_to_path starts from wherever the cursor is, in an index of any size: *)
(* it finds a path if and only if the listing has it, up to case, and      *)
(* selects that entry, as long as case tells no two names of a folder      *)
(* apart.                                                                  *)
THEOREM PathsFound == Spec => []GoToPathFindsEntry
<1>1. CursorInv => GoToPathFindsEntry
  BY FoundIfListed
<1> QED
  BY <1>1, CursorInvHolds, PTL
-------------------------------------------------------------------------------
(* Where the children come from after the sort: none comes twice.          *)
LEMMA SortedFrom ==
  ASSUME NEW s \in Seq(Child)
  PROVE  \E from \in [1..Len(s) -> 1..Len(s)] :
           /\ \A k, l \in 1..Len(s) : from[k] = from[l] => k = l
           /\ \A k \in 1..Len(s) : Sorted(s)[k] = s[from[k]]
           /\ \A k, l \in 1..Len(s) : k < l => ~Precedes(s[from[l]], s[from[k]])
<1> DEFINE n == Len(s)
           I == 1..n
           place == [i \in I |-> Cardinality(Before(s, i)) + 1]
           from == [k \in I |-> CHOOSE i \in DOMAIN s : Cardinality(Before(s, i)) = k - 1]
<1>1. n \in Nat /\ DOMAIN s = I
  OBVIOUS
<1>2. IsFiniteSet(I) /\ Cardinality(I) = n
  BY <1>1, FS_Interval
<1>3. ASSUME NEW i \in I
      PROVE  /\ IsFiniteSet(Before(s, i)) /\ Cardinality(Before(s, i)) \in Nat
             /\ Cardinality(Before(s, i)) < n
  <2>1. Before(s, i) \subseteq I /\ i \notin Before(s, i)
    BY <1>1, BeforeOrder DEF Before
  <2>2. /\ IsFiniteSet(Before(s, i)) /\ Cardinality(Before(s, i)) <= n
        /\ (n = Cardinality(Before(s, i)) => I = Before(s, i))
    BY <2>1, <1>2, FS_Subset
  <2>3. Cardinality(Before(s, i)) \in Nat
    BY <2>2, FS_CardinalityType
  <2> QED
    BY <2>1, <2>2, <2>3, <1>1
<1>4. ASSUME NEW i \in I, NEW j \in I, i \in Before(s, j)
      PROVE  Cardinality(Before(s, i)) < Cardinality(Before(s, j))
  <2>1. Before(s, i) \subseteq Before(s, j) /\ i \notin Before(s, i)
    BY <1>1, <1>4, BeforeOrder
  <2>2. /\ Cardinality(Before(s, i)) <= Cardinality(Before(s, j))
        /\ (Cardinality(Before(s, j)) = Cardinality(Before(s, i)) => Before(s, j) = Before(s, i))
    BY <2>1, <1>3, FS_Subset
  <2> QED
    BY <2>1, <2>2, <1>3, <1>4
<1>5. place \in [I -> I] /\ \A i, j \in I : place[i] = place[j] => i = j
  <2>1. place \in [I -> I]
    BY <1>1, <1>3
  <2>2. ASSUME NEW i \in I, NEW j \in I, i # j PROVE place[i] # place[j]
    <3>1. Cardinality(Before(s, i)) # Cardinality(Before(s, j))
      BY <2>2, <1>1, <1>3, <1>4, BeforeOrder
    <3> QED
      BY <3>1, <1>3
  <2> HIDE DEF place
  <2> QED
    BY <2>1, <2>2
<1>6. \A k \in I : \E i \in I : Cardinality(Before(s, i)) = k - 1
  <2> HIDE DEF place
  <2>1. place \in Injection(I, I)
    BY <1>5 DEF Injection, IsInjective
  <2>2. place \in Surjection(I, I)
    BY <1>2, <2>1, FS_Injection
  <2>3. \A k \in I : \E i \in I : place[i] = k
    BY <2>2 DEF Surjection
  <2>4. \A i \in I : Cardinality(Before(s, i)) = place[i] - 1
    BY <1>3 DEF place
  <2> QED
    BY <2>3, <2>4
<1>7. ASSUME NEW k \in I PROVE from[k] \in I /\ Cardinality(Before(s, from[k])) = k - 1
  <2>1. \E i \in DOMAIN s : Cardinality(Before(s, i)) = k - 1
    BY <1>1, <1>6
  <2> DEFINE i == CHOOSE i \in DOMAIN s : Cardinality(Before(s, i)) = k - 1
  <2>2. i \in I /\ Cardinality(Before(s, i)) = k - 1
    BY <2>1, <1>1
  <2>3. from[k] = i
    OBVIOUS
  <2> HIDE DEF i, from
  <2> QED
    BY <2>2, <2>3
<1>8. Sorted(s) = [k \in I |-> s[from[k]]]
  <2>1. Sorted(s) = [k \in DOMAIN s |->
                       s[CHOOSE i \in DOMAIN s : Cardinality(Before(s, i)) = k - 1]]
    BY DEF Sorted, Before
  <2> QED
    BY <2>1, <1>1
<1>9. from \in [I -> I]
  <2>1. DOMAIN from = I /\ from = [k \in DOMAIN from |-> from[k]]
    OBVIOUS
  <2> HIDE DEF from
  <2> QED
    BY <2>1, <1>7
<1> HIDE DEF from, place
<1>10. \A k, l \in I : from[k] = from[l] => k = l
  <2> SUFFICES ASSUME NEW k \in I, NEW l \in I, from[k] = from[l] PROVE k = l
    OBVIOUS
  <2>1. k - 1 = l - 1
    BY <1>7
  <2> QED
    BY <2>1
<1>11. ASSUME NEW k \in I, NEW l \in I, k < l PROVE ~Precedes(s[from[l]], s[from[k]])
  <2>1. from[l] \notin Before(s, from[k])
    <3> SUFFICES ASSUME from[l] \in Before(s, from[k]) PROVE FALSE
      OBVIOUS
    <3>1. Cardinality(Before(s, from[l])) < Cardinality(Before(s, from[k]))
      BY <1>4, <1>7
    <3>2. l - 1 < k - 1
      BY <3>1, <1>7
    <3> QED
      BY <3>2, <1>11
  <2>2. from[l] \in DOMAIN s
    BY <1>1, <1>7
  <2> QED
    BY <2>1, <2>2 DEF Before
<1>12. \A k \in I : Sorted(s)[k] = s[from[k]]
  BY <1>8
<1> HIDE DEF n
<1> QED
  BY <1>9, <1>10, <1>11, <1>12 DEF n

(* No folder has two children with the same metadata.                      *)
Unrepeated(cs) == \A i, j \in 1..Len(cs) : cs[i].meta = cs[j].meta => i = j

OnceInv ==
  /\ \A m \in 1..Len(entries) : Unrepeated(entries[m].children)
  /\ \A i \in 1..Len(parents) : Unrepeated(parents[i].children)

LEMMA SortedUnrepeated ==
  ASSUME NEW s \in Seq(Child), Unrepeated(s)
  PROVE  Unrepeated(Sorted(s))
<1>1. PICK from \in [1..Len(s) -> 1..Len(s)] :
        /\ \A k, l \in 1..Len(s) : from[k] = from[l] => k = l
        /\ \A k \in 1..Len(s) : Sorted(s)[k] = s[from[k]]
  BY SortedFrom
<1>2. Len(Sorted(s)) = Len(s)
  BY SortedMoves
<1> SUFFICES ASSUME NEW k \in 1..Len(s), NEW l \in 1..Len(s),
                    Sorted(s)[k].meta = Sorted(s)[l].meta
             PROVE  k = l
  BY <1>2 DEF Unrepeated
<1>3. from[k] \in 1..Len(s) /\ from[l] \in 1..Len(s)
  BY <1>1
<1>4. s[from[k]].meta = s[from[l]].meta
  BY <1>1
<1>5. from[k] = from[l]
  BY <1>3, <1>4 DEF Unrepeated
<1> QED
  BY <1>1, <1>5

LEMMA OneMore ==
  ASSUME NEW cs \in Seq(Child), Unrepeated(cs), NEW c \in Child,
         \A k \in 1..Len(cs) : cs[k].meta # c.meta
  PROVE  Unrepeated(Append(cs, c))
<1>1. /\ Len(Append(cs, c)) = Len(cs) + 1 /\ Append(cs, c)[Len(cs) + 1] = c
      /\ \A k \in 1..Len(cs) : Append(cs, c)[k] = cs[k]
      /\ \A k \in 1..Len(cs) + 1 : k \in 1..Len(cs) \/ k = Len(cs) + 1
  BY Appended
<1> QED
  BY <1>1 DEF Unrepeated
-------------------------------------------------------------------------------
(* What the steps that change the folders and the buffer do.               *)
LEMMA FinishStep ==
  ASSUME BuildInv, FinishFolder
  PROVE  LET n == Len(parents)
             f == parents[n]
             children == IF options.resort THEN Sorted(f.children) ELSE f.children IN
         /\ n \in Nat \ {0} /\ n > Kept /\ pc \in {"adding", "finishing"}
         /\ parents \in Seq(Folder) /\ entries \in Seq(Entry) /\ f \in Folder
         /\ children \in Seq(Child)
         /\ entries' = Append(entries, [info |-> f.info, children |-> children])
         /\ [info |-> f.info, children |-> children] \in Entry
         /\ parents' \in Seq(Folder) /\ Len(parents') = n - 1
         /\ \A i \in 1..n - 2 : parents'[i] = parents[i]
         /\ n # 1 => /\ rootMeta' = rootMeta
                     /\ ChildAt(f.name, TRUE, Len(entries) + 1) \in Child
                     /\ parents'[n - 1] = WithChild(parents[n - 1], f.info,
                                            ChildAt(f.name, TRUE, Len(entries) + 1))
         /\ n = 1 => rootMeta' = Len(entries) + 1 /\ pc = "finishing"
         /\ UNCHANGED <<options, listing, item, pc>>
<1>1. PICK P : Indexed(P)
  BY DEF BuildInv
<1>2. parents \in Seq(Folder) /\ entries \in Seq(Entry) /\ FolderNames(parents)
  BY <1>1 DEF Indexed, Shape
<1>n. PICK n : n = Len(parents)
  OBVIOUS
<1>3. pc \in {"adding", "finishing"} /\ n > Kept /\ UNCHANGED <<options, listing, item, pc>>
  BY <1>n DEF FinishFolder
<1>4. Kept \in Nat /\ (pc = "adding" => Kept # 0)
  <2>1. CASE pc = "adding"
    <3>1. item \in Records(Paths)
      BY <1>1, <2>1 DEF Indexed, ItemWaits
    <3>2. item.path \in Paths
      BY <3>1, RecordFields
    <3> QED
      BY <2>1, <3>2, PathIs DEF Kept
  <2>2. CASE pc # "adding"
    BY <2>2 DEF Kept
  <2> QED
    BY <2>1, <2>2
<1>5. n \in Nat \ {0} /\ parents # <<>>
  BY <1>2, <1>3, <1>4, <1>n
<1>f. PICK f : f = Last(parents)
  OBVIOUS
<1>o. PICK outer : outer = Front(parents)
  OBVIOUS
<1>6. /\ outer \in Seq(Folder) /\ Len(outer) = n - 1 /\ \A i \in 1..n - 1 : outer[i] = parents[i]
      /\ f = parents[n] /\ f \in Folder
  BY <1>2, <1>5, <1>n, <1>f, <1>o, FrontLast
<1>c. PICK children : children = IF options.resort THEN Sorted(f.children) ELSE f.children
  OBVIOUS
<1>7. f.children \in Seq(Child) /\ f.info \in Info /\ f.name \in Names \cup {"root"}
      /\ f.info.size \in Nat
  BY <1>6, FolderFields
<1>8. children \in Seq(Child)
  BY <1>7, <1>c, SortedMoves
<1>e. PICK e : e = [info |-> f.info, children |-> children]
  OBVIOUS
<1>9. e \in Entry
  BY <1>7, <1>8, <1>e DEF Entry
<1>10. entries' = Append(entries, e)
  BY <1>f, <1>c, <1>e DEF FinishFolder
<1>11. Len(entries') = Len(entries) + 1 /\ Len(entries) \in Nat
  BY <1>2, <1>9, <1>10
<1>12. n = 1 => /\ parents' \in Seq(Folder) /\ Len(parents') = n - 1
                /\ \A i \in 1..n - 2 : parents'[i] = parents[i]
                /\ rootMeta' = Len(entries) + 1 /\ pc = "finishing"
  <2> SUFFICES ASSUME n = 1
               PROVE  /\ parents' \in Seq(Folder) /\ Len(parents') = n - 1
                      /\ \A i \in 1..n - 2 : parents'[i] = parents[i]
                      /\ rootMeta' = Len(entries) + 1 /\ pc = "finishing"
    OBVIOUS
  <2>1. outer = <<>>
    BY <1>6
  <2>2. parents' = outer /\ rootMeta' = Len(entries')
    BY <2>1, <1>o DEF FinishFolder
  <2>3. pc = "finishing"
    BY <1>3, <1>4
  <2>4. /\ parents' \in Seq(Folder) /\ Len(parents') = n - 1
        /\ \A i \in 1..n - 2 : parents'[i] = parents[i]
        /\ rootMeta' = Len(entries) + 1
    BY <2>2, <1>6, <1>11
  <2> QED
    BY <2>3, <2>4
<1>13. n # 1 => /\ parents' \in Seq(Folder) /\ Len(parents') = n - 1
                /\ \A i \in 1..n - 2 : parents'[i] = parents[i]
                /\ rootMeta' = rootMeta
                /\ ChildAt(f.name, TRUE, Len(entries) + 1) \in Child
                /\ parents'[n - 1] = WithChild(parents[n - 1], f.info,
                                       ChildAt(f.name, TRUE, Len(entries) + 1))
  <2> SUFFICES ASSUME n # 1
               PROVE  /\ parents' \in Seq(Folder) /\ Len(parents') = n - 1
                      /\ \A i \in 1..n - 2 : parents'[i] = parents[i]
                      /\ rootMeta' = rootMeta
                      /\ ChildAt(f.name, TRUE, Len(entries) + 1) \in Child
                      /\ parents'[n - 1] = WithChild(parents[n - 1], f.info,
                                             ChildAt(f.name, TRUE, Len(entries) + 1))
    OBVIOUS
  <2>1. outer # <<>> /\ n - 1 \in Nat \ {0} /\ Len(outer) = n - 1
    BY <1>5, <1>6
  <2>ch. PICK child : child = ChildAt(f.name, TRUE, Len(entries) + 1)
    OBVIOUS
  <2>2. child \in Child
    <3>1. f.name \in Names
      <4>1. n \in 2..Len(parents)
        BY <1>5, <1>n
      <4> QED
        BY <1>2, <1>6, <4>1 DEF FolderNames
    <3> QED
      BY <3>1, <1>11, <2>ch DEF ChildAt, Child, Unset
  <2>3. /\ parents' = [outer EXCEPT ![Len(outer)] = WithChild(@, f.info, child)]
        /\ rootMeta' = rootMeta
    BY <2>1, <2>ch, <1>11, <1>o, <1>f DEF FinishFolder
  <2>l. PICK last : last = outer[Len(outer)]
    OBVIOUS
  <2>4. last \in Folder /\ last = parents[n - 1]
    BY <1>6, <2>1, <2>l
  <2>g. PICK g : g = WithChild(last, f.info, child)
    OBVIOUS
  <2>5. g \in Folder
    <3>i. PICK by : by = f.info
      OBVIOUS
    <3>1. WithChild(last, by, child) \in Folder
      BY <1>7, <2>2, <2>4, <3>i, WithChildFields
    <3> QED
      BY <3>1, <3>i, <2>g
  <2>6. parents' = [outer EXCEPT ![Len(outer)] = g]
    BY <2>3, <2>l, <2>g
  <2>h. PICK h : h = [outer EXCEPT ![Len(outer)] = g]
    OBVIOUS
  <2>7. /\ h \in Seq(Folder) /\ Len(h) = n - 1 /\ h[n - 1] = g
        /\ \A i \in 1..n - 2 : h[i] = outer[i]
    <3>1. /\ h \in Seq(Folder) /\ Len(h) = Len(outer) /\ h[Len(outer)] = g
          /\ \A i \in 1..Len(outer) - 1 : h[i] = outer[i]
      BY <1>6, <2>1, <2>5, <2>h, LastFolderReplaced
    <3>2. \A i \in 1..n - 2 : i \in 1..Len(outer) - 1
      BY <1>5, <2>1
    <3> QED
      BY <2>1, <3>1, <3>2
  <2>8. \A i \in 1..n - 2 : h[i] = parents[i]
    <3>1. \A i \in 1..n - 2 : i \in 1..n - 1
      BY <1>5
    <3> QED
      BY <1>6, <2>7, <3>1
  <2>9. h[n - 1] = WithChild(parents[n - 1], f.info, child) /\ parents' = h
    BY <2>4, <2>6, <2>7, <2>g, <2>h
  <2> QED
    BY <2>2, <2>3, <2>7, <2>8, <2>9, <2>ch
<1>14. /\ parents' \in Seq(Folder) /\ Len(parents') = n - 1
       /\ \A i \in 1..n - 2 : parents'[i] = parents[i]
       /\ n # 1 => /\ rootMeta' = rootMeta
                   /\ ChildAt(f.name, TRUE, Len(entries) + 1) \in Child
                   /\ parents'[n - 1] = WithChild(parents[n - 1], f.info,
                                          ChildAt(f.name, TRUE, Len(entries) + 1))
       /\ n = 1 => rootMeta' = Len(entries) + 1 /\ pc = "finishing"
  BY <1>12, <1>13
<1> QED
  BY <1>2, <1>3, <1>5, <1>6, <1>8, <1>9, <1>10, <1>14, <1>n, <1>c, <1>e

LEMMA AddFolderStep ==
  ASSUME BuildInv, AddFolder
  PROVE  LET n == Len(parents)
             new == [name |-> Last(item.path), info |-> WithoutSize(WithoutCounts(InfoOf(item))),
                     children |-> <<>>] IN
         /\ n \in Nat \ {0} /\ n = Len(item.path) /\ pc = "adding" /\ item.isDir
         /\ parents \in Seq(Folder) /\ entries \in Seq(Entry) /\ new \in Folder
         /\ parents' \in Seq(Folder) /\ Len(parents') = n + 1
         /\ \A i \in 1..n : parents'[i] = Counted(item)[i]
         /\ parents'[n + 1] = new
         /\ Counted(item) \in Seq(Folder) /\ Len(Counted(item)) = n
         /\ \A i \in 1..n : /\ Counted(item)[i].name = parents[i].name
                            /\ Counted(item)[i].children = parents[i].children
         /\ UNCHANGED <<options, listing, entries, rootMeta>>
         /\ pc' = "reading" /\ item' = NoItem
<1>1. PICK P : Indexed(P)
  BY DEF BuildInv
<1>2. parents \in Seq(Folder) /\ entries \in Seq(Entry)
  BY <1>1 DEF Indexed, Shape
<1>3. /\ pc = "adding" /\ Len(parents) = Kept /\ item.isDir
      /\ UNCHANGED <<options, listing, entries, rootMeta>> /\ pc' = "reading" /\ item' = NoItem
  BY DEF AddFolder
<1>4. /\ item \in Records(Paths) /\ Len(parents) \in Nat \ {0} /\ Len(item.path) = Len(parents)
      /\ Last(item.path) \in Names
  BY <1>1, <1>3, ItemsFolder
<1>n. PICK n : n = Len(parents)
  OBVIOUS
<1>c. PICK f : f = Counted(item)
  OBVIOUS
<1>5. /\ f \in Seq(Folder) /\ Len(f) = n
      /\ \A i \in 1..n : f[i].name = parents[i].name /\ f[i].children = parents[i].children
  BY <1>2, <1>c, <1>n, CountedFolders
<1>i. PICK i : i = InfoOf(item)
  OBVIOUS
<1>6. i \in Info
  BY <1>4, <1>i, RecordFields
<1>j. PICK j : j = WithoutCounts(i)
  OBVIOUS
<1>7. j \in Info
  BY <1>6, <1>j DEF WithoutCounts, Info
<1>k. PICK k : k = WithoutSize(j)
  OBVIOUS
<1>8. k \in Info
  BY <1>7, <1>k DEF WithoutSize, Info
<1>w. PICK new : new = [name |-> Last(item.path), info |-> k, children |-> <<>>]
  OBVIOUS
<1>9. new \in Folder
  <2>1. <<>> \in Seq(Child)
    OBVIOUS
  <2> QED
    BY <1>4, <1>8, <1>w, <2>1 DEF Folder
<1>10. parents' = Append(f, new)
  BY <1>c, <1>i, <1>j, <1>k, <1>w DEF AddFolder
<1>11. /\ parents' \in Seq(Folder) /\ Len(parents') = n + 1 /\ parents'[n + 1] = new
       /\ \A m \in 1..n : parents'[m] = f[m]
  BY <1>5, <1>9, <1>10, Appended
<1> QED
  BY <1>2, <1>3, <1>4, <1>5, <1>9, <1>11, <1>n, <1>c, <1>i, <1>j, <1>k, <1>w

LEMMA AddFileStep ==
  ASSUME BuildInv, AddFile
  PROVE  LET n == Len(parents)
             child == ChildAt(Last(item.path), FALSE, Len(entries) + 1) IN
         /\ n \in Nat \ {0} /\ n = Len(item.path) /\ pc = "adding" /\ ~item.isDir
         /\ parents \in Seq(Folder) /\ entries \in Seq(Entry)
         /\ entries' = Append(entries, [info |-> InfoOf(item), children |-> <<>>])
         /\ [info |-> InfoOf(item), children |-> <<>>] \in Entry
         /\ child \in Child
         /\ parents' \in Seq(Folder) /\ Len(parents') = n
         /\ \A i \in 1..n - 1 : parents'[i] = Counted(item)[i]
         /\ parents'[n] = WithChild(Counted(item)[n], item, child)
         /\ Counted(item) \in Seq(Folder) /\ Len(Counted(item)) = n
         /\ \A i \in 1..n : /\ Counted(item)[i].name = parents[i].name
                            /\ Counted(item)[i].children = parents[i].children
         /\ UNCHANGED <<options, listing, rootMeta>>
         /\ pc' = "reading" /\ item' = NoItem
<1>1. PICK P : Indexed(P)
  BY DEF BuildInv
<1>2. parents \in Seq(Folder) /\ entries \in Seq(Entry)
  BY <1>1 DEF Indexed, Shape
<1>3. /\ pc = "adding" /\ Len(parents) = Kept /\ ~item.isDir
      /\ UNCHANGED <<options, listing, rootMeta>> /\ pc' = "reading" /\ item' = NoItem
  BY DEF AddFile
<1>4. /\ item \in Records(Paths) /\ Len(parents) \in Nat \ {0} /\ Len(item.path) = Len(parents)
      /\ Last(item.path) \in Names
  BY <1>1, <1>3, ItemsFolder
<1>n. PICK n : n = Len(parents)
  OBVIOUS
<1>c. PICK f : f = Counted(item)
  OBVIOUS
<1>5. /\ f \in Seq(Folder) /\ Len(f) = n /\ f # <<>>
      /\ \A i \in 1..n : f[i].name = parents[i].name /\ f[i].children = parents[i].children
  <2>1. /\ f \in Seq(Folder) /\ Len(f) = n
        /\ \A i \in 1..n : f[i].name = parents[i].name /\ f[i].children = parents[i].children
    BY <1>2, <1>c, <1>n, CountedFolders
  <2> QED
    BY <2>1, <1>4, <1>n
<1>i. PICK i : i = InfoOf(item)
  OBVIOUS
<1>6. i \in Info /\ item.size \in Nat
  BY <1>4, <1>i, RecordFields
<1>e. PICK e : e = [info |-> i, children |-> <<>>]
  OBVIOUS
<1>7. e \in Entry
  <2>1. <<>> \in Seq(Child)
    OBVIOUS
  <2> QED
    BY <1>6, <1>e, <2>1 DEF Entry
<1>8. entries' = Append(entries, e) /\ Len(entries') = Len(entries) + 1 /\ Len(entries) \in Nat
  <2>1. entries' = Append(entries, e)
    BY <1>i, <1>e DEF AddFile
  <2> QED
    BY <2>1, <1>2, <1>7
<1>ch. PICK child : child = ChildAt(Last(item.path), FALSE, Len(entries) + 1)
  OBVIOUS
<1>9. child \in Child
  BY <1>4, <1>8, <1>ch DEF ChildAt, Child, Unset
<1>10. parents' = [f EXCEPT ![n] = WithChild(@, item, child)]
  BY <1>8, <1>c, <1>ch, <1>n DEF AddFile
<1>l. PICK last : last = f[n]
  OBVIOUS
<1>11. last \in Folder
  BY <1>4, <1>5, <1>l, <1>n
<1>g. PICK g : g = WithChild(last, item, child)
  OBVIOUS
<1>12. g \in Folder
  BY <1>6, <1>9, <1>11, <1>g, WithChildFields
<1>13. parents' = [f EXCEPT ![Len(f)] = g]
  BY <1>5, <1>10, <1>l, <1>g
<1>14. /\ parents' \in Seq(Folder) /\ Len(parents') = n /\ parents'[n] = g
       /\ \A m \in 1..n - 1 : parents'[m] = f[m]
  BY <1>5, <1>12, <1>13, LastFolderReplaced
<1> QED
  BY <1>2, <1>3, <1>4, <1>5, <1>7, <1>8, <1>9, <1>14, <1>n, <1>c, <1>i, <1>e, <1>ch, <1>l, <1>g
LEMMA InitOnce == Init => OnceInv
<1> SUFFICES ASSUME Init PROVE OnceInv
  OBVIOUS
<1>1. PICK r \in Records({<<>>}) : parents = <<RootFolder(options, r)>>
  BY DEF Init
<1>2. entries = <<>>
  BY DEF Init
<1>f. PICK f : f = RootFolder(options, r)
  OBVIOUS
<1>3. f.children = <<>>
  BY <1>f DEF RootFolder
<1>4. Len(parents) = 1 /\ parents[1] = f
  BY <1>1, <1>f
<1> QED
  BY <1>2, <1>3, <1>4 DEF OnceInv, Unrepeated

(* The metadata of the children that there are is stored already.          *)
LEMMA ChildrenStored ==
  ASSUME BuildInv
  PROVE  /\ \A i \in 1..Len(parents) :
              /\ parents[i].children \in Seq(Child)
              /\ \A k \in 1..Len(parents[i].children) :
                   parents[i].children[k].meta \in 1..Len(entries)
         /\ entries \in Seq(Entry) /\ parents \in Seq(Folder)
<1>1. PICK P : Indexed(P)
  BY DEF BuildInv
<1>2. parents \in Seq(Folder) /\ entries \in Seq(Entry) /\ FoldersAttached(parents, entries, P)
  BY <1>1 DEF Indexed, Shape
<1>3. ASSUME NEW i \in 1..Len(parents)
      PROVE  /\ parents[i].children \in Seq(Child)
             /\ \A k \in 1..Len(parents[i].children) :
                  parents[i].children[k].meta \in 1..Len(entries)
  <2>1. parents[i] \in Folder
    BY <1>2
  <2>2. parents[i].children \in Seq(Child)
    BY <2>1, FolderFields
  <2> QED
    BY <2>2, <1>2 DEF FoldersAttached, Attached, AttachedChild
<1> QED
  BY <1>2, <1>3

LEMMA OnceKept ==
  ASSUME BuildInv, OnceInv, [BuildNext]_indexVars
  PROVE  OnceInv'
<1>1. ASSUME UNCHANGED <<parents, entries>> PROVE OnceInv'
  BY <1>1 DEF OnceInv
<1>2. CASE FinishFolder
  <2>n. PICK n : n = Len(parents)
    OBVIOUS
  <2>f. PICK f : f = parents[n]
    OBVIOUS
  <2>c. PICK children : children = IF options.resort THEN Sorted(f.children) ELSE f.children
    OBVIOUS
  <2>h. PICK child : child = ChildAt(f.name, TRUE, Len(entries) + 1)
    OBVIOUS
  <2>e. PICK e : e = [info |-> f.info, children |-> children]
    OBVIOUS
  <2>1. /\ n \in Nat \ {0} /\ parents \in Seq(Folder) /\ entries \in Seq(Entry) /\ f \in Folder
        /\ children \in Seq(Child)
        /\ entries' = Append(entries, e) /\ e \in Entry
        /\ Len(parents') = n - 1 /\ parents' \in Seq(Folder)
        /\ \A i \in 1..n - 2 : parents'[i] = parents[i]
        /\ n # 1 => /\ child \in Child
                    /\ parents'[n - 1] = WithChild(parents[n - 1], f.info, child)
    BY <1>2, <2>n, <2>f, <2>c, <2>h, <2>e, FinishStep
  <2>2. f.children \in Seq(Child) /\ Unrepeated(f.children) /\ f.info.size \in Nat
    <3>1. n \in 1..Len(parents)
      BY <2>1, <2>n
    <3> QED
      BY <2>1, <2>f, <3>1, FolderFields DEF OnceInv
  <2>3. Unrepeated(children)
    BY <2>2, <2>c, SortedUnrepeated
  <2>4. ASSUME NEW m \in 1..Len(entries') PROVE Unrepeated(entries'[m].children)
    <3>1. CASE m \in 1..Len(entries)
      <4>1. entries'[m] = entries[m]
        BY <2>1, <3>1
      <4> QED
        BY <3>1, <4>1 DEF OnceInv
    <3>2. CASE m = Len(entries) + 1
      <4>1. entries'[m] = e
        BY <2>1, <3>2
      <4>2. e.children = children
        BY <2>e
      <4> QED
        BY <4>1, <4>2, <2>3
    <3> QED
      BY <2>1, <3>1, <3>2
  <2>5. ASSUME NEW i \in 1..Len(parents') PROVE Unrepeated(parents'[i].children)
    <3>0. Len(parents') = n - 1 /\ n \in Nat \ {0} /\ n = Len(parents)
      BY <2>1, <2>n
    <3>1. i \in 1..Len(parents) /\ n # 1
      BY <3>0
    <3>2. Unrepeated(parents[i].children)
      BY <3>1 DEF OnceInv
    <3>3. CASE i # n - 1
      <4>1. i \in 1..n - 2
        BY <2>1, <3>3
      <4> QED
        BY <2>1, <3>2, <4>1
    <3>4. CASE i = n - 1
      <4>l. PICK last : last = parents[i]
        OBVIOUS
      <4>1. last \in Folder
        BY <2>1, <3>1, <4>l
      <4>i. PICK by : by = f.info
        OBVIOUS
      <4>2. WithChild(last, by, child).children = Append(last.children, child)
        BY <2>1, <2>2, <3>1, <4>1, <4>i, WithChildFields
      <4>3. child.meta = Len(entries) + 1
        BY <2>h DEF ChildAt
      <4>4. last.children \in Seq(Child)
            /\ \A k \in 1..Len(last.children) : last.children[k].meta \in 1..Len(entries)
        BY <3>1, <4>l, ChildrenStored
      <4>5. \A k \in 1..Len(last.children) : last.children[k].meta # child.meta
        BY <2>1, <4>3, <4>4
      <4>6. Unrepeated(Append(last.children, child))
        BY <2>1, <3>1, <3>2, <4>4, <4>5, <4>l, OneMore
      <4> QED
        BY <2>1, <3>1, <3>4, <4>2, <4>6, <4>l, <4>i
    <3> QED
      BY <3>3, <3>4
  <2> QED
    BY <2>4, <2>5 DEF OnceInv
<1>3. CASE AddFolder
  <2>1. /\ Len(parents') = Len(parents) + 1 /\ Len(parents) \in Nat
        /\ \A i \in 1..Len(parents) : parents'[i].children = parents[i].children
        /\ parents'[Len(parents) + 1].children = <<>>
        /\ entries' = entries
    BY <1>3, AddFolderStep
  <2>2. Unrepeated(<<>>)
    BY DEF Unrepeated
  <2> QED
    BY <2>1, <2>2 DEF OnceInv
<1>4. CASE AddFile
  <2>n. PICK n : n = Len(parents)
    OBVIOUS
  <2>h. PICK child : child = ChildAt(Last(item.path), FALSE, Len(entries) + 1)
    OBVIOUS
  <2>e. PICK e : e = [info |-> InfoOf(item), children |-> <<>>]
    OBVIOUS
  <2>f. PICK f : f = Counted(item)
    OBVIOUS
  <2>1. /\ n \in Nat \ {0} /\ parents \in Seq(Folder) /\ entries \in Seq(Entry)
        /\ entries' = Append(entries, e) /\ e \in Entry /\ child \in Child
        /\ Len(parents') = n /\ f \in Seq(Folder) /\ Len(f) = n
        /\ \A i \in 1..n - 1 : parents'[i] = f[i]
        /\ parents'[n] = WithChild(f[n], item, child)
        /\ \A i \in 1..n : f[i].children = parents[i].children
    BY <1>4, <2>n, <2>h, <2>e, <2>f, AddFileStep
  <2>2. item.size \in Nat
    <3>1. PICK P : Indexed(P)
      BY DEF BuildInv
    <3>2. item \in Records(Paths)
      BY <1>4, <3>1 DEF Indexed, ItemWaits, AddFile
    <3> QED
      BY <3>2, RecordFields
  <2>3. ASSUME NEW m \in 1..Len(entries') PROVE Unrepeated(entries'[m].children)
    <3>1. CASE m \in 1..Len(entries)
      <4>1. entries'[m] = entries[m]
        BY <2>1, <3>1
      <4> QED
        BY <3>1, <4>1 DEF OnceInv
    <3>2. CASE m = Len(entries) + 1
      <4>1. entries'[m] = e
        BY <2>1, <3>2
      <4>2. e.children = <<>>
        BY <2>e
      <4> QED
        BY <4>1, <4>2 DEF Unrepeated
    <3> QED
      BY <2>1, <3>1, <3>2
  <2>4. ASSUME NEW i \in 1..n PROVE Unrepeated(parents'[i].children)
    <3>2. Unrepeated(parents[i].children)
      BY <2>n DEF OnceInv
    <3>3. CASE i # n
      <4>1. i \in 1..n - 1
        BY <2>1, <3>3
      <4> QED
        BY <2>1, <3>2, <4>1
    <3>4. CASE i = n
      <4>l. PICK last : last = f[n]
        OBVIOUS
      <4>1. last \in Folder /\ last.children = parents[i].children
        BY <2>1, <3>4, <4>l
      <4>2. WithChild(last, item, child).children = Append(last.children, child)
        BY <2>1, <2>2, <4>1, WithChildFields
      <4>3. child.meta = Len(entries) + 1
        BY <2>h DEF ChildAt
      <4>4. last.children \in Seq(Child)
            /\ \A k \in 1..Len(last.children) : last.children[k].meta \in 1..Len(entries)
        BY <2>n, <4>1, ChildrenStored
      <4>5. \A k \in 1..Len(last.children) : last.children[k].meta # child.meta
        BY <2>1, <4>3, <4>4
      <4>6. Unrepeated(Append(last.children, child))
        BY <2>1, <3>2, <4>1, <4>4, <4>5, OneMore
      <4> QED
        BY <2>1, <3>4, <4>2, <4>6, <4>l
    <3> QED
      BY <3>3, <3>4
  <2> QED
    BY <2>1, <2>3, <2>4 DEF OnceInv
<1>5. ASSUME NEW r \in Records(Paths), Read(r) \/ Panic(r) PROVE OnceInv'
  BY <1>5, <1>1 DEF Read, Panic, Take, Refuse
<1>6. CASE EndOfRecords \/ Built
  BY <1>6, <1>1 DEF EndOfRecords, Built
<1>7. CASE UNCHANGED indexVars
  BY <1>7, <1>1 DEF indexVars
<1> QED
  BY <1>2, <1>3, <1>4, <1>5, <1>6, <1>7 DEF BuildNext
-------------------------------------------------------------------------------
(* A walk through an index, from some of whose folders entries may have    *)
(* been left out: U has the metadata of the entries that are still to come.*)
LeftChild == [name : Names, isDir : BOOLEAN, meta : Nat]
LeftEntry == [info : Info, children : Seq(LeftChild)]
Width(m) == Len(entries[m].children)
Cell(m, k) == entries[m].children[k].meta

Pruned(P) ==
  /\ entries \in Seq(LeftEntry) /\ P \in Seq(Seq(Names)) /\ Len(P) = Len(entries)
  /\ \A m, k \in 1..Len(P) : P[m] = P[k] => m = k
  /\ \A m \in 1..Len(entries) : \A k \in 1..Width(m) :
       Cell(m, k) = Unset \/ AttachedChild(entries, P, P[m], entries[m].children[k])
  /\ \A m \in 1..Len(entries) : \A i, k \in 1..Width(m) :
       Cell(m, i) = Cell(m, k) => Cell(m, i) = Unset \/ i = k
  /\ RootStored(P)

(* With an entry all that is in it is still to come.                       *)
ClosedDown(U) ==
  /\ U \subseteq 1..Len(entries)
  /\ \A m \in U : \A k \in 1..Width(m) : Cell(m, k) \in U

Tidy(a, b) ==
  /\ \A i, j \in 1..Len(a) : i <= j => a[i].cacheStart <= a[j].cacheStart
  /\ \A i \in 1..Len(a) : a[i].cacheStart <= Len(b)

(* The children from the next on are to come, the last before it is the    *)
(* folder that the cursor is in.                                           *)
Pending(a, U) ==
  \A i \in 1..Len(a) :
    /\ Meta(a[i].id) \notin U
    /\ a[i].next \in 1..Width(Meta(a[i].id)) + 1
    /\ \A k \in a[i].next..Width(Meta(a[i].id)) : Cell(Meta(a[i].id), k) \in U

Followed(a) == \A i \in 2..Len(a) : a[i].id.child = a[i - 1].next - 1

Fresh(a, e, p, U) ==
  \/ AtFolder(a, e, p) /\ a[Len(a)].next = 1
  \/ /\ AtFile(a, e, p) /\ e.child = a[Len(a)].next - 1
     /\ Meta(e) \in 1..Len(entries) \ U

OnWalk(c, P, U) ==
  /\ c \in CursorType
  /\ Trail(c.parents, c.path, P)
  /\ Tidy(c.parents, c.cached)
  /\ Pending(c.parents, U)
  /\ Followed(c.parents)
  /\ Fresh(c.parents, c.current, c.path, U)

LEMMA LeftFields ==
  ASSUME NEW P, Pruned(P), NEW m \in 1..Len(entries)
  PROVE  /\ entries[m].info \in Info /\ entries[m].info.isDir \in BOOLEAN
         /\ entries[m].children \in Seq(LeftChild) /\ Width(m) \in Nat
         /\ P[m] \in Seq(Names)
         /\ \A k \in 1..Width(m) : /\ entries[m].children[k] \in LeftChild
                                   /\ entries[m].children[k].name \in Names
                                   /\ Cell(m, k) \in Nat
<1>1. entries[m] \in LeftEntry /\ P[m] \in Seq(Names)
  BY DEF Pruned
<1>2. entries[m].info \in Info /\ entries[m].children \in Seq(LeftChild)
  BY <1>1 DEF LeftEntry
<1>3. entries[m].info.isDir \in BOOLEAN
  BY <1>2 DEF Info
<1>cs. PICK cs : cs = entries[m].children
  OBVIOUS
<1>4. Len(cs) \in Nat /\ \A k \in 1..Len(cs) : cs[k] \in LeftChild
  BY <1>2, <1>cs
<1>5. \A k \in 1..Len(cs) : cs[k].name \in Names /\ cs[k].meta \in Nat
  BY <1>4 DEF LeftChild
<1> QED
  BY <1>1, <1>2, <1>3, <1>4, <1>5, <1>cs DEF Width, Cell

(* A child that is not left out.                                           *)
LEMMA CellIs ==
  ASSUME NEW P, Pruned(P), NEW m \in 1..Len(entries), NEW k \in 1..Width(m), Cell(m, k) # Unset,
         NEW e, e = [folder |-> m, child |-> k]
  PROVE  /\ e \in Ids /\ IsChild(e, m) /\ e # Root /\ e # NoEntry
         /\ Meta(e) = Cell(m, k) /\ Cell(m, k) \in 1..Len(entries)
         /\ FileName(e) = entries[m].children[k].name /\ FileName(e) \in Names
         /\ P[Meta(e)] = Append(P[m], FileName(e)) /\ P[m] \in Seq(Names)
         /\ Len(P[Cell(m, k)]) = Len(P[m]) + 1
         /\ IsFolder(e) \in BOOLEAN
<1>1. /\ Width(m) \in Nat /\ P[m] \in Seq(Names) /\ entries[m].children[k].name \in Names
      /\ entries[m].children[k] \in LeftChild
  BY LeftFields
<1>2. m # 0 /\ m \in Nat /\ k \in Nat
  BY <1>1
<1>3. e \in Ids /\ e.folder = m /\ e.child = k
  BY <1>2 DEF Ids
<1>4. e # Root /\ e # NoEntry
  <2>1. Root.folder = 0 /\ NoEntry.folder = 0
    BY DEF Root, NoEntry
  <2> QED
    BY <1>2, <1>3, <2>1
<1>5. Meta(e) = Cell(m, k) /\ FileName(e) = entries[m].children[k].name
  BY <1>3, <1>4 DEF Meta, FileName, Cell
<1>6. AttachedChild(entries, P, P[m], entries[m].children[k])
  BY DEF Pruned
<1>7. /\ Cell(m, k) \in 1..Len(entries)
      /\ P[Cell(m, k)] = Append(P[m], entries[m].children[k].name)
      /\ entries[Cell(m, k)].info.isDir = entries[m].children[k].isDir
  BY <1>6 DEF AttachedChild, Cell
<1>8. IsFolder(e) \in BOOLEAN
  BY <1>1, <1>5, <1>7 DEF IsFolder, LeftChild
<1>9. IsChild(e, m)
  BY <1>3 DEF IsChild, Width
<1>10. Len(P[Cell(m, k)]) = Len(P[m]) + 1
  BY <1>1, <1>7
<1> QED
  BY <1>1, <1>3, <1>4, <1>5, <1>7, <1>8, <1>9, <1>10

LEMMA CellPath ==
  ASSUME NEW P, Pruned(P), NEW m \in 1..Len(entries), NEW k \in 1..Width(m), Cell(m, k) # Unset,
         NEW e, e = [folder |-> m, child |-> k]
  PROVE  P[Meta(e)] = Append(P[m], FileName(e))
BY CellIs

(* An entry is in one place.                                               *)
LEMMA OneParent ==
  ASSUME NEW P, Pruned(P), NEW m \in 1..Len(entries), NEW n \in 1..Len(entries),
         NEW i \in 1..Width(m), NEW k \in 1..Width(n), Cell(m, i) = Cell(n, k), Cell(m, i) # Unset
  PROVE  m = n /\ i = k
<1>e. PICK e : e = [folder |-> m, child |-> i]
  OBVIOUS
<1>f. PICK f : f = [folder |-> n, child |-> k]
  OBVIOUS
<1>1. /\ Meta(e) = Cell(m, i) /\ FileName(e) \in Names
      /\ P[Meta(e)] = Append(P[m], FileName(e)) /\ P[m] \in Seq(Names)
  <2>1. Meta(e) = Cell(m, i)
    BY <1>e, CellIs
  <2>2. FileName(e) \in Names
    BY <1>e, CellIs
  <2>3. P[Meta(e)] = Append(P[m], FileName(e))
    BY <1>e, CellPath
  <2>4. P[m] \in Seq(Names)
    BY LeftFields
  <2> QED
    BY <2>1, <2>2, <2>3, <2>4
<1>2. /\ Meta(f) = Cell(n, k) /\ FileName(f) \in Names
      /\ P[Meta(f)] = Append(P[n], FileName(f)) /\ P[n] \in Seq(Names)
  <2>0. Cell(n, k) # Unset
    OBVIOUS
  <2>1. Meta(f) = Cell(n, k)
    BY <1>f, <2>0, CellIs
  <2>2. FileName(f) \in Names
    BY <1>f, <2>0, CellIs
  <2>3. P[Meta(f)] = Append(P[n], FileName(f))
    BY <1>f, <2>0, CellPath
  <2>4. P[n] \in Seq(Names)
    BY LeftFields
  <2> QED
    BY <2>1, <2>2, <2>3, <2>4
<1>3. P[m] = P[n]
  <2>1. Append(P[m], FileName(e)) = Append(P[n], FileName(f))
    BY <1>1, <1>2
  <2>2. Front(Append(P[m], FileName(e))) = P[m] /\ Front(Append(P[n], FileName(f))) = P[n]
    BY <1>1, <1>2, Appended
  <2> QED
    BY <2>1, <2>2
<1>4. m = n
  BY <1>3 DEF Pruned
<1>5. i = k
  BY <1>4 DEF Pruned
<1> QED
  BY <1>4, <1>5
(* The last folder with another child.                                     *)
GoesOn(a, j) ==
  /\ j \in 1..Len(a) /\ a[j].next \in 1..Width(Meta(a[j].id))
  /\ \A i \in 1..Len(a) : DOMAIN entries[Meta(a[i].id)].children = 1..Width(Meta(a[i].id))
  /\ \A i \in j + 1..Len(a) : a[i].next \notin 1..Width(Meta(a[i].id))

(* Where next_entry goes: the folders stay open up to the j-th.            *)
Advanced(a, b, p, j, new, d) ==
  \E s \in Seq(Above), t \in Seq(Ids) : \E q :
    /\ Len(s) = j
    /\ \A i \in 1..j : /\ s[i].id = a[i].id /\ s[i].pathLen = a[i].pathLen
                       /\ s[i].cacheStart = a[i].cacheStart
    /\ \A i \in 1..j - 1 : s[i].next = a[i].next
    /\ s[j].next = a[j].next + 1
    /\ \A i \in 1..j : a[i].cacheStart <= Len(t)
    /\ b = <<>> => t = <<>>
    /\ q = Append(SubSeq(p, 1, j - 1), FileName(new))
    /\ d = [parents |-> IF IsFolder(new)
                          THEN Append(s, [id |-> new, next |-> 1,
                                 cacheStart |-> Len(t), pathLen |-> Len(q)])
                          ELSE s,
            cached |-> t, current |-> new, path |-> q]

(* next_entry, when the cursor is in a folder with another child.          *)
LEMMA AdvanceIs ==
  ASSUME NEW P, NEW a \in Seq(Above), NEW b \in Seq(Ids), NEW e \in Ids, NEW p \in Seq(Names),
         NEW c, c = [parents |-> a, cached |-> b, current |-> e, path |-> p],
         Trail(a, p, P), Tidy(a, b), NEW j \in 1..Len(a), GoesOn(a, j),
         NEW new, new = [folder |-> Meta(a[j].id), child |-> a[j].next]
  PROVE  Advanced(a, b, p, j, new, Advance(c))
<1> DEFINE Unfinished == {i \in DOMAIN c.parents :
                            c.parents[i].next \in DOMAIN Children(c.parents[i].id)}
<1>1. Len(a) \in Nat /\ DOMAIN a = 1..Len(a) /\ j \in Nat \ {0} /\ c.parents = a
  OBVIOUS
<1>2. \A i \in 1..Len(a) : DOMAIN Children(a[i].id) = 1..Width(Meta(a[i].id))
  BY DEF Children, GoesOn
<1>3. Unfinished = {i \in 1..Len(a) : a[i].next \in 1..Width(Meta(a[i].id))}
  BY <1>1, <1>2
<1>4. j \in Unfinished /\ \A i \in Unfinished : i <= j
  <2>1. ASSUME NEW i \in Unfinished PROVE i <= j
    <3>1. i \in 1..Len(a) /\ a[i].next \in 1..Width(Meta(a[i].id))
      BY <1>3
    <3>2. i \notin j + 1..Len(a)
      BY <3>1 DEF GoesOn
    <3> QED
      BY <1>1, <3>1, <3>2
  <2>2. j \in Unfinished
    BY <1>3 DEF GoesOn
  <2> QED
    BY <2>1, <2>2
<1>5. Max(Unfinished) = j
  <2>1. Unfinished \in SUBSET (0..Len(a))
    BY <1>1, <1>3
  <2> HIDE DEF Unfinished
  <2>2. Max(Unfinished) \in Unfinished /\ \A k \in Unfinished : k <= Max(Unfinished)
    BY <1>1, <1>4, <2>1, GreatestNumber
  <2>m. PICK m : m = Max(Unfinished)
    OBVIOUS
  <2>3. m \in 0..Len(a)
    BY <2>1, <2>2, <2>m
  <2>4. m <= j /\ j <= m
    BY <1>4, <2>2, <2>m
  <2>5. m = j
    BY <1>1, <2>3, <2>4
  <2> QED
    BY <2>5, <2>m
<1>r. PICK r : r = SubSeq(a, 1, j)
  OBVIOUS
<1>6. r \in Seq(Above) /\ Len(r) = j /\ \A i \in 1..j : r[i] = a[i]
  BY <1>1, <1>r, CutSeq
<1>t. PICK t : t = IF j < Len(a) THEN SubSeq(b, 1, a[j + 1].cacheStart) ELSE b
  OBVIOUS
<1>7. t \in Seq(Ids) /\ (\A i \in 1..j : a[i].cacheStart <= Len(t)) /\ (b = <<>> => t = <<>>)
  <2>1. CASE j < Len(a)
    <3>1. j + 1 \in 1..Len(a)
      BY <1>1, <2>1
    <3>2. a[j + 1].cacheStart \in Nat /\ a[j + 1].cacheStart <= Len(b)
      BY <3>1, AboveFields DEF Tidy
    <3>3. t \in Seq(Ids) /\ Len(t) = a[j + 1].cacheStart
      BY <1>t, <2>1, <3>2, CutSeq
    <3>4. \A i \in 1..j : a[i].cacheStart <= a[j + 1].cacheStart
      <4>1. \A i \in 1..j : i \in 1..Len(a) /\ i <= j + 1
        BY <1>1
      <4> QED
        BY <3>1, <4>1 DEF Tidy
    <3>5. ASSUME b = <<>> PROVE t = <<>>
      <4>1. a[j + 1].cacheStart = 0
        BY <3>2, <3>5
      <4> QED
        BY <3>3, <4>1
    <3> QED
      BY <3>3, <3>4, <3>5
  <2>2. CASE ~(j < Len(a))
    <3>1. t = b
      BY <1>t, <2>2
    <3>2. \A i \in 1..j : i \in 1..Len(a)
      BY <1>1
    <3> QED
      BY <3>1, <3>2 DEF Tidy
  <2> QED
    BY <2>1, <2>2
<1>8. Closed(c, j) = [parents |-> r, cached |-> t, current |-> e, path |-> p]
  <2>1. CASE j < Len(a)
    <3>1. Closed(c, j) = [c EXCEPT !.cached = SubSeq(@, 1, c.parents[j + 1].cacheStart),
                                   !.parents = SubSeq(@, 1, j)]
      BY <2>1, <1>1 DEF Closed
    <3>2. Closed(c, j) = [parents |-> SubSeq(a, 1, j), cached |-> SubSeq(b, 1, a[j + 1].cacheStart),
                          current |-> e, path |-> p]
      BY <3>1
    <3> QED
      BY <3>2, <2>1, <1>r, <1>t
  <2>2. CASE ~(j < Len(a))
    <3>1. j = Len(a)
      <4>1. j \in 1..Len(a) /\ Len(a) \in Nat /\ ~(j < Len(a))
        BY <2>2, <1>1
      <4> QED
        BY <4>1
    <3>2. r = a
      BY <3>1, <1>r, WholeSeq
    <3>3. Closed(c, j) = c
      BY <2>2, <1>1 DEF Closed
    <3> QED
      BY <3>2, <3>3, <2>2, <1>t
  <2> QED
    BY <2>1, <2>2
<1>9. r # <<>> /\ Last(r) = a[j] /\ a[j].pathLen = j - 1
  <2>1. r # <<>> /\ Last(r) = r[j] /\ r[j] = a[j]
    BY <1>1, <1>6 DEF Last
  <2>2. a[j].pathLen = j - 1
    BY DEF Trail
  <2> QED
    BY <2>1, <2>2
<1>o. PICK o : o = SubSeq(p, 1, j - 1)
  OBVIOUS
<1>i. PICK id : id = a[j].id
  OBVIOUS
<1>d. PICK d : d = Closed(c, j)
  OBVIOUS
<1>10. SelectFolder(d) = [parents |-> r, cached |-> t, current |-> id, path |-> o]
  <2>1. d = [parents |-> r, cached |-> t, current |-> e, path |-> p]
    BY <1>8, <1>d
  <2>2. SelectFolder(d) = [d EXCEPT !.current = Last(d.parents).id,
                                    !.path = SubSeq(@, 1, Last(d.parents).pathLen)]
    BY <2>1, <1>9 DEF SelectFolder
  <2>3. SelectFolder(d) = [parents |-> r, cached |-> t, current |-> Last(r).id,
                           path |-> SubSeq(p, 1, Last(r).pathLen)]
    BY <2>1, <2>2
  <2>4. Last(r).id = id /\ Last(r).pathLen = j - 1
    BY <1>9, <1>i
  <2> QED
    BY <2>3, <2>4, <1>o
<1>x. PICK x : x = [a[j] EXCEPT !.next = @ + 1]
  OBVIOUS
<1>11. /\ x \in Above /\ x.id = a[j].id /\ x.pathLen = a[j].pathLen
       /\ x.cacheStart = a[j].cacheStart /\ x.next = a[j].next + 1
  <2>y. PICK y : y = a[j]
    OBVIOUS
  <2>1. y \in Above
    BY <2>y
  <2>2. /\ y.next \in Nat /\ y.id \in Ids /\ y.pathLen \in Nat /\ y.cacheStart \in Nat
        /\ y = [id |-> y.id, next |-> y.next, cacheStart |-> y.cacheStart, pathLen |-> y.pathLen]
    BY <2>1 DEF Above
  <2>3. x = [id |-> y.id, next |-> y.next + 1, cacheStart |-> y.cacheStart, pathLen |-> y.pathLen]
    BY <2>2, <2>y, <1>x
  <2>4. x \in Above
    <3>1. PICK u, v, w, z : /\ u = y.id /\ v = y.next + 1 /\ w = y.cacheStart /\ z = y.pathLen
      OBVIOUS
    <3>2. u \in Ids /\ v \in Nat /\ w \in Nat /\ z \in Nat
      BY <3>1, <2>2
    <3>3. x = [id |-> u, next |-> v, cacheStart |-> w, pathLen |-> z]
      BY <3>1, <2>3
    <3> QED
      BY <3>2, <3>3 DEF Above
  <2> QED
    BY <2>3, <2>4, <2>y
<1>s. PICK s : s = [r EXCEPT ![j] = x]
  OBVIOUS
<1>12. s \in Seq(Above) /\ Len(s) = j /\ s[j] = x /\ \A i \in 1..j - 1 : s[i] = a[i]
  BY <1>1, <1>6, <1>11, <1>s
<1>in. PICK in : in = SelectFolder(d)
  OBVIOUS
<1>13. /\ in.parents[j].next = a[j].next /\ in.current = id
       /\ [in EXCEPT !.parents[j].next = @ + 1] =
            [parents |-> s, cached |-> t, current |-> id, path |-> o]
  <2>1. in = [parents |-> r, cached |-> t, current |-> id, path |-> o]
    BY <1>10, <1>in
  <2>2. [in EXCEPT !.parents[j].next = @ + 1] = [parents |-> s, cached |-> t, current |-> id, path |-> o]
    <3>1. in.parents = r /\ r[j] = a[j]
      BY <1>1, <1>6, <2>1
    <3>2. [in EXCEPT !.parents[j].next = @ + 1] =
            [in EXCEPT !.parents = [r EXCEPT ![j] = [r[j] EXCEPT !.next = r[j].next + 1]]]
      BY <3>1
    <3>3. [in EXCEPT !.parents[j].next = @ + 1] = [in EXCEPT !.parents = s]
      BY <3>1, <3>2, <1>x, <1>s
    <3>4. [in EXCEPT !.parents = s] = [parents |-> s, cached |-> t, current |-> id, path |-> o]
      BY <2>1
    <3> QED
      BY <3>3, <3>4
  <2>4. r[j] = a[j]
    BY <1>1, <1>6
  <2> HIDE DEF Unfinished
  <2> QED
    BY <2>1, <2>2, <2>4
<1>14. Children(id)[a[j].next] = new
  <2>1. a[j].next \in DOMAIN entries[Meta(a[j].id)].children
    BY DEF GoesOn
  <2> QED
    BY <2>1, <1>i DEF Children
<1>q. PICK q : q = Append(o, FileName(new))
  OBVIOUS
<1>out. PICK out : out = [parents |-> s, cached |-> t, current |-> id, path |-> o]
  OBVIOUS
<1>15. Advance(c) = SelectChild(out, new)
  <2>1. Unfinished # {}
    BY <1>4
  <2>2. Advance(c) = SelectChild([in EXCEPT !.parents[j].next = @ + 1],
                                 Children(in.current)[in.parents[j].next])
    BY <2>1, <1>5, <1>in, <1>d DEF Advance
  <2> QED
    BY <2>2, <1>13, <1>14, <1>out
<1>16. SelectChild(out, new) =
         [parents |-> IF IsFolder(new)
                        THEN Append(s, [id |-> new, next |-> 1,
                               cacheStart |-> Len(t), pathLen |-> Len(q)])
                        ELSE s,
          cached |-> t, current |-> new, path |-> q]
  <2>1. SelectChild(out, new) =
          [out EXCEPT !.current = new, !.path = q,
             !.parents = IF IsFolder(new)
                           THEN Append(@, [id |-> new, next |-> 1,
                                  cacheStart |-> Len(out.cached), pathLen |-> Len(q)])
                           ELSE @]
    BY <1>out, <1>q DEF SelectChild
  <2> QED
    BY <2>1, <1>out
<1>17. /\ \A i \in 1..j : /\ s[i].id = a[i].id /\ s[i].pathLen = a[i].pathLen
                          /\ s[i].cacheStart = a[i].cacheStart
       /\ \A i \in 1..j - 1 : s[i].next = a[i].next
       /\ s[j].next = a[j].next + 1
  <2>1. \A i \in 1..j : i = j \/ i \in 1..j - 1
    BY <1>1
  <2> QED
    BY <2>1, <1>11, <1>12
<1>18. /\ Len(s) = j
       /\ \A i \in 1..j : /\ s[i].id = a[i].id /\ s[i].pathLen = a[i].pathLen
                          /\ s[i].cacheStart = a[i].cacheStart
       /\ \A i \in 1..j - 1 : s[i].next = a[i].next
       /\ s[j].next = a[j].next + 1
       /\ \A i \in 1..j : a[i].cacheStart <= Len(t)
       /\ b = <<>> => t = <<>>
       /\ q = Append(SubSeq(p, 1, j - 1), FileName(new))
       /\ Advance(c) = [parents |-> IF IsFolder(new)
                                      THEN Append(s, [id |-> new, next |-> 1,
                                             cacheStart |-> Len(t), pathLen |-> Len(q)])
                                      ELSE s,
                        cached |-> t, current |-> new, path |-> q]
  BY <1>7, <1>12, <1>15, <1>16, <1>17, <1>q, <1>o
<1>19. s \in Seq(Above) /\ t \in Seq(Ids)
  BY <1>7, <1>12
<1> HIDE DEF Unfinished
<1> SUFFICES \E x1 \in Seq(Above), x2 \in Seq(Ids) : \E x3 :
      /\ Len(x1) = j
      /\ \A i \in 1..j : /\ x1[i].id = a[i].id /\ x1[i].pathLen = a[i].pathLen
                         /\ x1[i].cacheStart = a[i].cacheStart
      /\ \A i \in 1..j - 1 : x1[i].next = a[i].next
      /\ x1[j].next = a[j].next + 1
      /\ \A i \in 1..j : a[i].cacheStart <= Len(x2)
      /\ b = <<>> => x2 = <<>>
      /\ x3 = Append(SubSeq(p, 1, j - 1), FileName(new))
      /\ Advance(c) = [parents |-> IF IsFolder(new)
                                     THEN Append(x1, [id |-> new, next |-> 1,
                                            cacheStart |-> Len(x2), pathLen |-> Len(x3)])
                                     ELSE x1,
                       cached |-> x2, current |-> new, path |-> x3]
  BY Zenon DEF Advanced
<1> USE <1>19
<1> WITNESS s \in Seq(Above), t \in Seq(Ids)
<1> WITNESS q
<1> QED
  BY <1>18
-------------------------------------------------------------------------------
LEMMA TrailAlong ==
  ASSUME NEW P, NEW a \in Seq(Above), NEW p, Trail(a, p, P), NEW j \in 1..Len(a),
         NEW s \in Seq(Above), Len(s) = j,
         \A i \in 1..j : s[i].id = a[i].id /\ s[i].pathLen = a[i].pathLen,
         NEW q, \A k \in 1..j - 1 : q[k] = p[k]
  PROVE  Trail(s, q, P)
<1>1. s # <<>> /\ s[1].id = Root
  <2>1. 1 \in 1..j
    OBVIOUS
  <2> QED
    BY <2>1 DEF Trail
<1>2. ASSUME NEW i \in 1..Len(s) PROVE InTrail(s[i].id, i, q, P) /\ s[i].pathLen = i - 1
  <2>1. i \in 1..j /\ i \in 1..Len(a)
    OBVIOUS
  <2>2. InTrail(a[i].id, i, p, P) /\ a[i].pathLen = i - 1
    BY <2>1 DEF Trail
  <2>3. \A k \in 1..i - 1 : k \in 1..j - 1
    BY <2>1
  <2>4. \A k \in 1..i - 1 : q[k] = p[k]
    BY <2>3
  <2> QED
    BY <2>1, <2>2, <2>4 DEF InTrail
<1>3. ASSUME NEW i \in 2..Len(s) PROVE IsChild(s[i].id, Meta(s[i - 1].id))
  <2>1. i \in 1..j /\ i - 1 \in 1..j /\ i \in 2..Len(a)
    OBVIOUS
  <2>2. IsChild(a[i].id, Meta(a[i - 1].id))
    BY <2>1 DEF Trail
  <2>3. s[i].id = a[i].id /\ s[i - 1].id = a[i - 1].id
    BY <2>1
  <2> QED
    BY <2>2, <2>3
<1> QED
  BY <1>1, <1>2, <1>3 DEF Trail

LEMMA TrailInto ==
  ASSUME NEW P, NEW s \in Seq(Above), NEW q, Trail(s, q, P), NEW j \in Nat \ {0}, Len(s) = j,
         NEW x \in Above, x.pathLen = j, IsChild(x.id, Meta(s[j].id)), InTrail(x.id, j + 1, q, P)
  PROVE  Trail(Append(s, x), q, P)
<1>r. PICK r : r = Append(s, x)
  OBVIOUS
<1>1. Len(r) = j + 1 /\ r[j + 1] = x /\ \A i \in 1..j : r[i] = s[i]
  BY <1>r
<1>2. r # <<>> /\ r[1].id = Root
  <2>1. 1 \in 1..j
    OBVIOUS
  <2> QED
    BY <2>1, <1>1 DEF Trail
<1>3. ASSUME NEW i \in 1..Len(r) PROVE InTrail(r[i].id, i, q, P) /\ r[i].pathLen = i - 1
  <2>1. CASE i = j + 1
    BY <2>1, <1>1
  <2>2. CASE i # j + 1
    <3>1. i \in 1..Len(s) /\ r[i] = s[i]
      BY <2>2, <1>1
    <3> QED
      BY <3>1 DEF Trail
  <2> QED
    BY <2>1, <2>2
<1>4. ASSUME NEW i \in 2..Len(r) PROVE IsChild(r[i].id, Meta(r[i - 1].id))
  <2>1. CASE i = j + 1
    <3>1. i - 1 = j /\ j \in 1..j
      BY <2>1
    <3>2. r[i] = x /\ r[i - 1] = s[j]
      BY <2>1, <3>1, <1>1
    <3> QED
      BY <3>2
  <2>2. CASE i # j + 1
    <3>1. i \in 2..Len(s) /\ r[i] = s[i] /\ r[i - 1] = s[i - 1]
      BY <2>2, <1>1
    <3>2. IsChild(s[i].id, Meta(s[i - 1].id))
      BY <3>1 DEF Trail
    <3> QED
      BY <3>1, <3>2
  <2> QED
    BY <2>1, <2>2
<1>5. Trail(r, q, P)
  BY <1>2, <1>3, <1>4 DEF Trail
<1> QED
  BY <1>5, <1>r

(* How the walk has gone on.                                               *)
Finished(a, j) == \A i \in j + 1..Len(a) : a[i].next = Width(Meta(a[i].id)) + 1

NextId(a, j) == [folder |-> Meta(a[j].id), child |-> a[j].next]

Moved(c, d, j, P, U) ==
  LET new == NextId(c.parents, j) IN
  /\ Finished(c.parents, j)
  /\ IsChild(new, Meta(c.parents[j].id))
  /\ Meta(new) \in U
  /\ d.current = new
  /\ Len(d.path) = j
  /\ Len(d.parents) >= j
  /\ \A i \in 1..j : d.parents[i].id = c.parents[i].id
  /\ OnWalk(d, P, U \ {Meta(new)})
  /\ ClosedDown(U \ {Meta(new)})

LEMMA WalkFields ==
  ASSUME NEW c, NEW P, NEW U, OnWalk(c, P, U)
  PROVE  \E a \in Seq(Above), b \in Seq(Ids), e \in Ids, p \in Seq(Names) :
           /\ c = [parents |-> a, cached |-> b, current |-> e, path |-> p]
           /\ a = c.parents /\ b = c.cached /\ e = c.current /\ p = c.path
           /\ Trail(a, p, P) /\ Tidy(a, b) /\ Pending(a, U) /\ Followed(a)
           /\ Fresh(a, e, p, U)
           /\ Len(a) \in Nat \ {0} /\ (Len(p) = Len(a) \/ Len(p) = Len(a) - 1)
<1>1. c \in CursorType
  BY DEF OnWalk
<1>2. PICK a, b, e, p : a = c.parents /\ b = c.cached /\ e = c.current /\ p = c.path
  OBVIOUS
<1>3. /\ a \in Seq(Above) /\ b \in Seq(Ids) /\ e \in Ids /\ p \in Seq(Names)
      /\ c = [parents |-> a, cached |-> b, current |-> e, path |-> p]
  BY <1>1, <1>2, CursorFields
<1>4. /\ Trail(a, p, P) /\ Tidy(a, b) /\ Pending(a, U) /\ Followed(a)
      /\ Fresh(a, e, p, U)
  BY <1>2 DEF OnWalk
<1>5. Len(a) \in Nat \ {0}
  BY <1>3, <1>4 DEF Trail
<1>6. Len(p) = Len(a) \/ Len(p) = Len(a) - 1
  BY <1>4 DEF Fresh, AtFile, AtFolder
<1> QED
  BY <1>2, <1>3, <1>4, <1>5, <1>6

LEMMA NoMore ==
  ASSUME NEW P, Pruned(P), NEW a \in Seq(Above), NEW p, Trail(a, p, P), NEW U, Pending(a, U),
         NEW j \in 0..Len(a),
         \A i \in j + 1..Len(a) : a[i].next \notin 1..Width(Meta(a[i].id))
  PROVE  Finished(a, j)
<1> SUFFICES ASSUME NEW i \in j + 1..Len(a) PROVE a[i].next = Width(Meta(a[i].id)) + 1
  BY DEF Finished
<1>1. i \in 1..Len(a)
  OBVIOUS
<1>2. Meta(a[i].id) \in 1..Len(entries)
  BY <1>1 DEF Trail, InTrail
<1>3. Width(Meta(a[i].id)) \in Nat
  BY <1>2, LeftFields
<1>4. a[i].next \in 1..Width(Meta(a[i].id)) + 1
  BY <1>1 DEF Pending
<1> QED
  BY <1>3, <1>4

(* What the next entry is.                                                 *)
LEMMA NextIs ==
  ASSUME NEW P, Pruned(P), NEW U, ClosedDown(U), NEW a \in Seq(Above), NEW p, Trail(a, p, P),
         Pending(a, U), NEW j \in 1..Len(a), a[j].next \in 1..Width(Meta(a[j].id))
  PROVE  LET new == NextId(a, j) IN
         /\ new \in Ids /\ IsChild(new, Meta(a[j].id)) /\ new.child = a[j].next
         /\ Meta(new) \in U /\ Meta(new) = Cell(Meta(a[j].id), a[j].next)
         /\ FileName(new) \in Names /\ IsFolder(new) \in BOOLEAN
         /\ P[Meta(new)] = Append(P[Meta(a[j].id)], FileName(new))
<1>m. PICK m : m = Meta(a[j].id)
  OBVIOUS
<1>k. PICK k : k = a[j].next
  OBVIOUS
<1>n. PICK new : new = [folder |-> m, child |-> k]
  OBVIOUS
<1>1. m \in 1..Len(entries)
  BY <1>m DEF Trail, InTrail
<1>2. k \in 1..Width(m) /\ Width(m) \in Nat
  BY <1>1, <1>k, <1>m, LeftFields
<1>3. Cell(m, k) \in U
  <2>1. k \in k..Width(m)
    BY <1>2
  <2> QED
    BY <2>1, <1>k, <1>m DEF Pending
<1>4. Cell(m, k) # Unset
  BY <1>3 DEF ClosedDown, Unset
<1>5. new \in Ids /\ IsChild(new, m) /\ Meta(new) = Cell(m, k)
  BY <1>1, <1>2, <1>4, <1>n, CellIs
<1>6. FileName(new) \in Names
  BY <1>1, <1>2, <1>4, <1>n, CellIs
<1>7. IsFolder(new) \in BOOLEAN
  BY <1>1, <1>2, <1>4, <1>n, CellIs
<1>8. P[Meta(new)] = Append(P[m], FileName(new))
  BY <1>1, <1>2, <1>4, <1>n, CellPath
<1>9. new = NextId(a, j) /\ new.child = k
  BY <1>n, <1>m, <1>k DEF NextId
<1> QED
  BY <1>3, <1>5, <1>6, <1>7, <1>8, <1>9, <1>m, <1>k

(* It is no longer to come.                                                *)
LEMMA StillDown ==
  ASSUME NEW P, Pruned(P), NEW U, ClosedDown(U), NEW m \in 1..Len(entries), m \notin U,
         NEW k \in 1..Width(m), Cell(m, k) \in U
  PROVE  ClosedDown(U \ {Cell(m, k)})
<1> SUFFICES ASSUME NEW n \in U \ {Cell(m, k)}, NEW i \in 1..Width(n)
             PROVE  Cell(n, i) \in U \ {Cell(m, k)}
  BY DEF ClosedDown
<1>1. n \in 1..Len(entries) /\ n # m /\ Cell(n, i) \in U /\ Cell(n, i) # Unset
  BY DEF ClosedDown, Unset
<1>2. Cell(n, i) # Cell(m, k)
  BY <1>1, OneParent
<1> QED
  BY <1>1, <1>2

LEMMA StillPending ==
  ASSUME NEW P, Pruned(P), NEW U, ClosedDown(U), NEW a \in Seq(Above), NEW p, Trail(a, p, P),
         Pending(a, U), NEW j \in 1..Len(a), a[j].next \in 1..Width(Meta(a[j].id)),
         NEW s \in Seq(Above), Len(s) = j, \A i \in 1..j : s[i].id = a[i].id,
         \A i \in 1..j - 1 : s[i].next = a[i].next, s[j].next = a[j].next + 1
  PROVE  Pending(s, U \ {Meta(NextId(a, j))})
<1>m. PICK m : m = Meta(a[j].id)
  OBVIOUS
<1>x. PICK x : x = Meta(NextId(a, j))
  OBVIOUS
<1>1. x = Cell(m, a[j].next) /\ x \in U
  BY <1>m, <1>x, NextIs
<1>2. m \in 1..Len(entries) /\ Len(P[m]) = j - 1 /\ Width(m) \in Nat
  <2>1. m \in 1..Len(entries) /\ Len(P[m]) = j - 1
    BY <1>m DEF Trail, InTrail
  <2> QED
    BY <2>1, LeftFields
<1>3. x # Unset
  BY <1>1 DEF ClosedDown, Unset
<1> SUFFICES ASSUME NEW i \in 1..Len(s)
             PROVE  LET n == Meta(s[i].id) IN
                    /\ n \notin U \ {x}
                    /\ s[i].next \in 1..Width(n) + 1
                    /\ \A k \in s[i].next..Width(n) : Cell(n, k) \in U \ {x}
  BY <1>x DEF Pending
<1>n. PICK n : n = Meta(a[i].id)
  OBVIOUS
<1>4. i \in 1..Len(a) /\ i \in 1..j /\ s[i].id = a[i].id
  OBVIOUS
<1>5. n \in 1..Len(entries) /\ Len(P[n]) = i - 1 /\ Width(n) \in Nat
  <2>1. n \in 1..Len(entries) /\ Len(P[n]) = i - 1
    BY <1>4, <1>n DEF Trail, InTrail
  <2> QED
    BY <2>1, LeftFields
<1>6. /\ n \notin U /\ a[i].next \in 1..Width(n) + 1
      /\ \A k \in a[i].next..Width(n) : Cell(n, k) \in U
  BY <1>4, <1>n DEF Pending
<1>7. CASE i = j
  <2>1. s[i].next = a[i].next + 1 /\ n = m
    BY <1>7, <1>n, <1>m
  <2>2. s[i].next \in 1..Width(n) + 1
    BY <2>1, <1>2, <1>7, <1>m
  <2>3. ASSUME NEW k \in s[i].next..Width(n) PROVE Cell(n, k) \in U \ {x}
    <3>1. k \in a[i].next..Width(n) /\ k # a[i].next /\ k \in 1..Width(m) /\ a[i].next \in 1..Width(m)
      BY <2>1, <2>3, <1>2, <1>6, <1>7, <1>m
    <3>2. Cell(n, k) \in U
      BY <3>1, <1>6
    <3>3. Cell(n, k) # x
      BY <3>1, <2>1, <1>1, <1>2, <1>3, <1>7 DEF Pruned
    <3> QED
      BY <3>2, <3>3
  <2> QED
    BY <2>2, <2>3, <1>4, <1>6, <1>n
<1>8. CASE i # j
  <2>1. s[i].next = a[i].next
    BY <1>8, <1>4
  <2>2. n # m
    BY <1>2, <1>5, <1>8
  <2>3. ASSUME NEW k \in s[i].next..Width(n) PROVE Cell(n, k) \in U \ {x}
    <3>1. k \in a[i].next..Width(n) /\ k \in 1..Width(n) /\ a[j].next \in 1..Width(m)
      BY <2>1, <2>3, <1>5, <1>6, <1>m
    <3>2. Cell(n, k) \in U
      BY <3>1, <1>6
    <3>3. Cell(n, k) # x
      BY <3>1, <2>2, <1>1, <1>2, <1>3, <1>5, OneParent
    <3> QED
      BY <3>2, <3>3
  <2> QED
    BY <2>1, <2>3, <1>4, <1>6, <1>n
<1> QED
  BY <1>7, <1>8

LEMMA StillFollowed ==
  ASSUME NEW a \in Seq(Above), Followed(a), NEW j \in 1..Len(a),
         NEW s, Len(s) = j, \A i \in 1..j : s[i].id = a[i].id,
         \A i \in 1..j - 1 : s[i].next = a[i].next
  PROVE  Followed(s)
<1> SUFFICES ASSUME NEW i \in 2..Len(s) PROVE s[i].id.child = s[i - 1].next - 1
  BY DEF Followed
<1>1. i \in 2..Len(a) /\ i \in 1..j /\ i - 1 \in 1..j - 1
  OBVIOUS
<1>2. a[i].id.child = a[i - 1].next - 1
  BY <1>1 DEF Followed
<1> QED
  BY <1>1, <1>2

(* Into a folder that is new.                                              *)
LEMMA IntoFolder ==
  ASSUME NEW P, Pruned(P), NEW U, ClosedDown(U), NEW s \in Seq(Above), NEW j \in Nat \ {0},
         Len(s) = j, NEW t \in Seq(Ids), Tidy(s, t), Pending(s, U), Followed(s),
         NEW x \in Above, Meta(x.id) \in 1..Len(entries), Meta(x.id) \notin U, x.next = 1,
         x.cacheStart = Len(t),
         \A k \in 1..Width(Meta(x.id)) : Cell(Meta(x.id), k) \in U,
         x.id.child = s[j].next - 1
  PROVE  Tidy(Append(s, x), t) /\ Pending(Append(s, x), U) /\ Followed(Append(s, x))
<1>r. PICK r : r = Append(s, x)
  OBVIOUS
<1>1. Len(r) = j + 1 /\ r[j + 1] = x /\ \A i \in 1..j : r[i] = s[i]
  BY <1>r
<1>2. Tidy(r, t)
  <2>1. \A i \in 1..j : s[i].cacheStart <= Len(t) /\ s[i].cacheStart \in Nat
    BY AboveFields DEF Tidy
  <2>2. ASSUME NEW i \in 1..Len(r) PROVE r[i].cacheStart <= Len(t)
    BY <1>1, <2>1
  <2>3. ASSUME NEW i \in 1..Len(r), NEW k \in 1..Len(r), i <= k
        PROVE  r[i].cacheStart <= r[k].cacheStart
    <3>1. CASE k = j + 1
      BY <3>1, <1>1, <2>2
    <3>2. CASE k # j + 1
      <4>1. k \in 1..j /\ i \in 1..j
        BY <3>2, <2>3, <1>1
      <4> QED
        BY <4>1, <2>3, <1>1 DEF Tidy
    <3> QED
      BY <3>1, <3>2
  <2> QED
    BY <2>2, <2>3 DEF Tidy
<1>3. Pending(r, U)
  <2> SUFFICES ASSUME NEW i \in 1..Len(r)
               PROVE  /\ Meta(r[i].id) \notin U
                      /\ r[i].next \in 1..Width(Meta(r[i].id)) + 1
                      /\ \A k \in r[i].next..Width(Meta(r[i].id)) : Cell(Meta(r[i].id), k) \in U
    BY DEF Pending
  <2>1. CASE i = j + 1
    <3>1. r[i] = x
      BY <2>1, <1>1
    <3>2. Width(Meta(x.id)) \in Nat
      BY LeftFields
    <3> QED
      BY <3>1, <3>2
  <2>2. CASE i # j + 1
    <3>1. i \in 1..Len(s) /\ r[i] = s[i]
      BY <2>2, <1>1
    <3> QED
      BY <3>1 DEF Pending
  <2> QED
    BY <2>1, <2>2
<1>4. Followed(r)
  <2> SUFFICES ASSUME NEW i \in 2..Len(r) PROVE r[i].id.child = r[i - 1].next - 1
    BY DEF Followed
  <2>1. CASE i = j + 1
    <3>1. i - 1 = j /\ j \in 1..j
      BY <2>1
    <3>2. r[i] = x /\ r[i - 1] = s[j]
      BY <2>1, <3>1, <1>1
    <3> QED
      BY <3>2
  <2>2. CASE i # j + 1
    <3>1. i \in 2..Len(s) /\ r[i] = s[i] /\ r[i - 1] = s[i - 1]
      BY <2>2, <1>1
    <3> QED
      BY <3>1 DEF Followed
  <2> QED
    BY <2>1, <2>2
<1> QED
  BY <1>2, <1>3, <1>4, <1>r

(* The walk goes on to an entry that was to come, or has been everywhere.  *)
LEMMA NextStepOrEnd ==
  ASSUME NEW P, Pruned(P), NEW U, ClosedDown(U), NEW c, OnWalk(c, P, U)
  PROVE  \/ Advance(c) = Cleared /\ Finished(c.parents, 0)
         \/ \E j \in 1..Len(c.parents) : Moved(c, Advance(c), j, P, U)
<1>1. PICK a \in Seq(Above), b \in Seq(Ids), e \in Ids, p \in Seq(Names) :
        /\ c = [parents |-> a, cached |-> b, current |-> e, path |-> p]
        /\ a = c.parents /\ b = c.cached /\ e = c.current /\ p = c.path
        /\ Trail(a, p, P) /\ Tidy(a, b) /\ Pending(a, U) /\ Followed(a)
        /\ Fresh(a, e, p, U)
        /\ Len(a) \in Nat \ {0} /\ (Len(p) = Len(a) \/ Len(p) = Len(a) - 1)
  BY WalkFields
<1> DEFINE T == {i \in 1..Len(a) : a[i].next \in 1..Width(Meta(a[i].id))}
<1>2. ASSUME NEW i \in 1..Len(a)
      PROVE  /\ Meta(a[i].id) \in 1..Len(entries) /\ Width(Meta(a[i].id)) \in Nat
             /\ DOMAIN entries[Meta(a[i].id)].children = 1..Width(Meta(a[i].id))
             /\ Len(P[Meta(a[i].id)]) = i - 1
             /\ \A k \in 1..i - 1 : P[Meta(a[i].id)][k] = p[k]
  <2>m. PICK m : m = Meta(a[i].id)
    OBVIOUS
  <2>1. m \in 1..Len(entries) /\ Len(P[m]) = i - 1 /\ \A k \in 1..i - 1 : P[m][k] = p[k]
    BY <1>1, <2>m DEF Trail, InTrail
  <2>2. entries[m].children \in Seq(LeftChild) /\ Width(m) \in Nat
    BY <2>1, LeftFields
  <2>3. DOMAIN entries[m].children = 1..Width(m)
    BY <2>2 DEF Width
  <2> QED
    BY <2>1, <2>2, <2>3, <2>m
<1>3. CASE T = {}
  <2>1. DOMAIN c.parents = 1..Len(a) /\ c.parents = a
    BY <1>1
  <2>2. \A i \in 1..Len(a) : DOMAIN Children(a[i].id) = 1..Width(Meta(a[i].id))
    BY <1>2 DEF Children
  <2>3. {i \in DOMAIN c.parents : c.parents[i].next \in DOMAIN Children(c.parents[i].id)} = {}
    BY <2>1, <2>2, <1>3
  <2>4. Advance(c) = Cleared
    BY <2>3 DEF Advance
  <2>5. Finished(a, 0)
    <3>1. \A i \in 0 + 1..Len(a) : a[i].next \notin 1..Width(Meta(a[i].id))
      BY <1>3
    <3>2. 0 \in 0..Len(a)
      BY <1>1
    <3> HIDE DEF T
    <3> QED
      BY <1>1, <3>1, <3>2, NoMore
  <2> HIDE DEF T
  <2> QED
    BY <1>1, <2>4, <2>5
<1>4. CASE T # {}
  <2>j. PICK j : j = Max(T)
    OBVIOUS
  <2>1. j \in T /\ \A i \in T : i <= j
    <3>1. T \in SUBSET (0..Len(a)) /\ Len(a) \in Nat
      BY <1>1
    <3> HIDE DEF T
    <3> QED
      BY <3>1, <2>j, <1>4, GreatestNumber
  <2>2. j \in 1..Len(a) /\ a[j].next \in 1..Width(Meta(a[j].id))
    BY <2>1
  <2>3. \A i \in j + 1..Len(a) : a[i].next \notin 1..Width(Meta(a[i].id))
    <3> SUFFICES ASSUME NEW i \in j + 1..Len(a), a[i].next \in 1..Width(Meta(a[i].id))
                 PROVE  FALSE
      OBVIOUS
    <3>1. i \in 1..Len(a) /\ ~(i <= j) /\ i \in Nat /\ j \in Nat
      BY <2>2, <1>1
    <3> QED
      BY <3>1, <2>1
  <2> HIDE DEF T
  <2>4. GoesOn(a, j)
    BY <2>2, <2>3, <1>2 DEF GoesOn
  <2>m. PICK m : m = Meta(a[j].id)
    OBVIOUS
  <2>n. PICK new : new = NextId(a, j)
    OBVIOUS
  <2>w. PICK mn : mn = Meta(new)
    OBVIOUS
  <2>f. PICK name : name = FileName(new)
    OBVIOUS
  <2>k. PICK pm : pm = P[m]
    OBVIOUS
  <2>5. /\ new \in Ids /\ IsChild(new, m) /\ new.child = a[j].next
        /\ mn \in U /\ mn = Cell(m, a[j].next)
        /\ name \in Names /\ IsFolder(new) \in BOOLEAN
        /\ P[mn] = Append(pm, name)
    BY <2>2, <2>m, <2>n, <2>w, <2>f, <2>k, <1>1, NextIs
  <2>6. m \in 1..Len(entries) /\ Len(pm) = j - 1 /\ (\A k \in 1..j - 1 : pm[k] = p[k])
        /\ m \notin U /\ pm \in Seq(Names) /\ Width(m) \in Nat
    <3>1. m \in 1..Len(entries) /\ Len(pm) = j - 1 /\ \A k \in 1..j - 1 : pm[k] = p[k]
      BY <2>2, <2>m, <2>k, <1>2
    <3>2. m \notin U
      BY <2>2, <2>m, <1>1 DEF Pending
    <3> QED
      BY <3>1, <3>2, <2>k, LeftFields
  <2>V. PICK V : V = U \ {mn}
    OBVIOUS
  <2>7. ClosedDown(V)
    <3>1. a[j].next \in 1..Width(m)
      BY <2>2, <2>m
    <3> QED
      BY <3>1, <2>5, <2>6, <2>V, StillDown
  <2>8. mn \in 1..Len(entries)
    BY <2>5 DEF ClosedDown
  <2>9. new = [folder |-> Meta(a[j].id), child |-> a[j].next]
    BY <2>n DEF NextId
  <2>10. Advanced(a, b, p, j, new, Advance(c))
    <3>1. c = [parents |-> a, cached |-> b, current |-> e, path |-> p] /\ Trail(a, p, P) /\ Tidy(a, b)
      BY <1>1
    <3> QED
      BY <3>1, <2>2, <2>4, <2>9, AdvanceIs
  <2>st. PICK s \in Seq(Above), t \in Seq(Ids) : \E q :
           /\ Len(s) = j
           /\ \A i \in 1..j : /\ s[i].id = a[i].id /\ s[i].pathLen = a[i].pathLen
                              /\ s[i].cacheStart = a[i].cacheStart
           /\ \A i \in 1..j - 1 : s[i].next = a[i].next
           /\ s[j].next = a[j].next + 1
           /\ \A i \in 1..j : a[i].cacheStart <= Len(t)
           /\ q = Append(SubSeq(p, 1, j - 1), name)
           /\ Advance(c) = [parents |-> IF IsFolder(new)
                                          THEN Append(s, [id |-> new, next |-> 1,
                                                 cacheStart |-> Len(t), pathLen |-> Len(q)])
                                          ELSE s,
                            cached |-> t, current |-> new, path |-> q]
    BY <2>10, <2>f, Zenon DEF Advanced
  <2>11. PICK q :
           /\ Len(s) = j
           /\ \A i \in 1..j : /\ s[i].id = a[i].id /\ s[i].pathLen = a[i].pathLen
                              /\ s[i].cacheStart = a[i].cacheStart
           /\ \A i \in 1..j - 1 : s[i].next = a[i].next
           /\ s[j].next = a[j].next + 1
           /\ \A i \in 1..j : a[i].cacheStart <= Len(t)
           /\ q = Append(SubSeq(p, 1, j - 1), name)
           /\ Advance(c) = [parents |-> IF IsFolder(new)
                                          THEN Append(s, [id |-> new, next |-> 1,
                                                 cacheStart |-> Len(t), pathLen |-> Len(q)])
                                          ELSE s,
                            cached |-> t, current |-> new, path |-> q]
    BY <2>st, Zenon
  <2>12. /\ q \in Seq(Names) /\ Len(q) = j /\ q[j] = name /\ j \in Nat \ {0}
         /\ \A k \in 1..j - 1 : q[k] = p[k]
    <3>1. j - 1 \in 0..Len(p) /\ j \in Nat \ {0}
      BY <2>2, <1>1
    <3>o. PICK o : o = SubSeq(p, 1, j - 1)
      OBVIOUS
    <3>2. o \in Seq(Names) /\ Len(o) = j - 1 /\ \A k \in 1..j - 1 : o[k] = p[k]
      BY <3>1, <3>o, CutSeq
    <3>3. q = Append(o, name)
      BY <2>11, <3>o
    <3> QED
      BY <3>1, <3>2, <3>3, <2>5
  <2>13. Trail(s, q, P)
    <3>1. Len(s) = j /\ \A i \in 1..j : s[i].id = a[i].id /\ s[i].pathLen = a[i].pathLen
      BY <2>11
    <3>2. Trail(a, p, P)
      BY <1>1
    <3>3. \A k \in 1..j - 1 : q[k] = p[k]
      BY <2>12
    <3> QED
      BY <3>1, <3>2, <3>3, <2>2, TrailAlong
  <2>14. Pending(s, V)
    BY <1>1, <2>2, <2>11, <2>n, <2>w, <2>V, StillPending
  <2>15. Followed(s)
    BY <1>1, <2>2, <2>11, StillFollowed
  <2>16. Tidy(s, t)
    <3>1. \A i \in 1..j : i \in 1..Len(a)
      BY <2>2, <1>1
    <3> QED
      BY <3>1, <1>1, <2>11 DEF Tidy
  <2>17. s[j].id = a[j].id /\ Meta(s[j].id) = m /\ s[j].next = a[j].next + 1 /\ s[j].next - 1 = a[j].next
    <3>1. j \in 1..j /\ a[j].next \in Nat
      BY <2>12, <2>2, AboveFields
    <3> QED
      BY <3>1, <2>11, <2>m
  <2>18. Finished(a, j)
    BY <1>1, <2>2, <2>3, NoMore
  <2>d. PICK d : d = Advance(c)
    OBVIOUS
  <2>19. CASE IsFolder(new)
    <3>x. PICK x : x = [id |-> new, next |-> 1, cacheStart |-> Len(t), pathLen |-> j]
      OBVIOUS
    <3>1. /\ x \in Above /\ x.id = new /\ x.next = 1 /\ x.cacheStart = Len(t) /\ x.pathLen = j
      <4>1. Len(t) \in Nat /\ 1 \in Nat /\ j \in Nat
        BY <2>12
      <4> QED
        BY <4>1, <3>x, <2>5 DEF Above
    <3>r. PICK r : r = Append(s, x)
      OBVIOUS
    <3>2. /\ r \in Seq(Above) /\ Len(r) = j + 1 /\ r[j + 1] = x
          /\ \A i \in 1..j : r[i] = s[i]
      BY <3>1, <3>r, <2>11, <2>12
    <3>3. d = [parents |-> r, cached |-> t, current |-> new, path |-> q]
      BY <2>11, <2>12, <2>d, <2>19, <3>x, <3>r
    <3>4. InTrail(new, j + 1, q, P)
      <4>1. Len(P[mn]) = j /\ \A k \in 1..j : P[mn][k] = q[k]
        <5>z. PICK z : z = P[mn]
          OBVIOUS
        <5>1. z = Append(pm, name) /\ pm \in Seq(Names) /\ Len(pm) = j - 1
          BY <5>z, <2>5, <2>6
        <5>2. Len(z) = j /\ z[j] = name /\ \A k \in 1..j - 1 : z[k] = pm[k]
          BY <5>1, <2>12
        <5>3. \A k \in 1..j : k = j \/ k \in 1..j - 1
          BY <2>12
        <5>4. \A k \in 1..j : z[k] = q[k]
          BY <5>2, <5>3, <2>6, <2>12
        <5> QED
          BY <5>2, <5>4, <5>z
      <4> QED
        BY <4>1, <2>8, <2>12, <2>19, <2>w DEF InTrail
    <3>5. Trail(r, q, P)
      BY <2>11, <2>12, <2>13, <3>1, <3>4, <3>r, <2>5, <2>17, TrailInto
    <3>6. Tidy(r, t) /\ Pending(r, V) /\ Followed(r)
      <4>1. mn \notin V
        BY <2>V
      <4>2. \A k \in 1..Width(mn) : Cell(mn, k) \in V
        <5> SUFFICES ASSUME NEW k \in 1..Width(mn) PROVE Cell(mn, k) \in V
          OBVIOUS
        <5>1. Cell(mn, k) \in U /\ Cell(mn, k) # Unset
          BY <2>5 DEF ClosedDown, Unset
        <5>2. Len(P[Cell(mn, k)]) = Len(P[mn]) + 1
          <6>1. PICK ee : ee = [folder |-> mn, child |-> k]
            OBVIOUS
          <6> QED
            BY <6>1, <5>1, <2>8, CellIs
        <5>3. Len(P[mn]) \in Nat
          BY <2>8, LeftFields
        <5>4. Cell(mn, k) # mn
          BY <5>2, <5>3
        <5> QED
          BY <5>1, <5>4, <2>V
      <4>3. x.id.child = s[j].next - 1 /\ Meta(x.id) = mn
        BY <3>1, <2>5, <2>17, <2>w
      <4>4. Tidy(Append(s, x), t) /\ Pending(Append(s, x), V) /\ Followed(Append(s, x))
        BY <2>7, <2>8, <2>11, <2>12, <2>14, <2>15, <2>16, <3>1, <4>1, <4>2, <4>3, IntoFolder
      <4> QED
        BY <4>4, <3>r
    <3>7. Fresh(r, new, q, V)
      <4>1. new = r[Len(r)].id /\ Len(q) = Len(r) - 1 /\ r[Len(r)].next = 1
        BY <3>1, <3>2, <2>12
      <4> QED
        BY <4>1 DEF Fresh, AtFolder
    <3>8. d \in CursorType
      BY <3>2, <3>3, <2>5, <2>12 DEF CursorType
    <3>9. d.parents = r /\ d.cached = t /\ d.current = new /\ d.path = q
      BY <3>3
    <3>10. OnWalk(d, P, V)
      BY <3>5, <3>6, <3>7, <3>8, <3>9 DEF OnWalk
    <3>11. \A i \in 1..j : r[i].id = a[i].id
      BY <3>2, <2>11
    <3>12. Moved(c, d, j, P, U)
      <4>1. NextId(c.parents, j) = new /\ Meta(new) = mn /\ Len(r) >= j
        BY <2>n, <2>w, <1>1, <3>2, <2>12
      <4> QED
        BY <4>1, <1>1, <2>5, <2>7, <2>12, <2>18, <2>V, <2>m, <3>9, <3>10, <3>11 DEF Moved
    <3> QED
      BY <3>12, <2>d, <2>2, <1>1
  <2>20. CASE ~IsFolder(new)
    <3>3. d = [parents |-> s, cached |-> t, current |-> new, path |-> q]
      BY <2>11, <2>d, <2>20
    <3>7. Fresh(s, new, q, V)
      <4>1. IsChild(new, Meta(s[Len(s)].id)) /\ Len(q) = Len(s) /\ q[Len(s)] = FileName(new)
        BY <2>5, <2>11, <2>12, <2>17, <2>f
      <4>2. new.child = s[Len(s)].next - 1 /\ Meta(new) \in 1..Len(entries) \ V
        BY <2>5, <2>8, <2>11, <2>17, <2>w, <2>V
      <4> QED
        BY <4>1, <4>2, <2>20 DEF Fresh, AtFile
    <3>8. d \in CursorType
      BY <3>3, <2>5, <2>12 DEF CursorType
    <3>9. d.parents = s /\ d.cached = t /\ d.current = new /\ d.path = q
      BY <3>3
    <3>10. OnWalk(d, P, V)
      BY <2>13, <2>14, <2>15, <2>16, <3>7, <3>8, <3>9 DEF OnWalk
    <3>12. Moved(c, d, j, P, U)
      <4>1. NextId(c.parents, j) = new /\ Meta(new) = mn /\ Len(s) >= j
        BY <2>n, <2>w, <1>1, <2>11, <2>12
      <4> QED
        BY <4>1, <1>1, <2>5, <2>7, <2>11, <2>12, <2>18, <2>V, <2>m, <3>9, <3>10 DEF Moved
    <3> QED
      BY <3>12, <2>d, <2>2, <1>1
  <2> QED
    BY <2>19, <2>20
<1> QED
  BY <1>3, <1>4
-------------------------------------------------------------------------------
(* The walk begins at the root of an index that has just been built.       *)
LEMMA NextStep ==
  ASSUME NEW P, Pruned(P), NEW U, ClosedDown(U), NEW c, OnWalk(c, P, U)
  PROVE  \/ Advance(c) = Cleared
         \/ \E j \in 1..Len(c.parents) : Moved(c, Advance(c), j, P, U)
BY NextStepOrEnd

LEMMA EntryLeft == ASSUME NEW x \in Entry PROVE x \in LeftEntry
<1>1. x.info \in Info /\ x.children \in Seq(Child)
  BY EntryFields
<1>cs. PICK cs : cs = x.children
  OBVIOUS
<1>2. Len(cs) \in Nat /\ \A k \in 1..Len(cs) : cs[k] \in Child
  BY <1>1, <1>cs
<1>3. Child \subseteq LeftChild
  BY DEF Child, LeftChild
<1>4. cs \in Seq(LeftChild)
  BY <1>1, <1>2, <1>3, <1>cs
<1>5. x = [info |-> x.info, children |-> x.children]
  BY DEF Entry
<1> QED
  BY <1>1, <1>4, <1>5, <1>cs DEF LeftEntry

LEMMA WalkOf ==
  ASSUME BuildInv, OnceInv, pc = "built", NEW P, Indexed(P)
  PROVE  /\ Walkable(P) /\ Pruned(P)
         /\ rootMeta \in 1..Len(entries) /\ entries[rootMeta].info.isDir
         /\ P[rootMeta] = <<>>
         /\ \A m \in 1..Len(P) : P[m] \in Paths \cup {<<>>}
         /\ ClosedDown(1..Len(entries) \ {rootMeta})
         /\ OnWalk(AtRoot, P, 1..Len(entries) \ {rootMeta})
<1>1. Indexed(P)
  OBVIOUS
<1>2. Walkable(P)
  BY <1>1, BuiltIndex DEF BuildInv
<1>3. /\ entries \in Seq(Entry) /\ P \in Seq(Seq(Names)) /\ Len(P) = Len(entries)
      /\ Len(entries) \in Nat
      /\ EntriesAttached(entries, P) /\ RootStored(P)
  BY <1>2 DEF Walkable
<1>4. \A m, k \in 1..Len(P) : P[m] = P[k] => m = k
  BY <1>1 DEF Indexed, Shape, OnePath
<1>5. entries \in Seq(LeftEntry)
  <2>1. \A m \in 1..Len(entries) : entries[m] \in LeftEntry
    BY <1>3, EntryLeft
  <2>es. PICK es : es = entries
    OBVIOUS
  <2>2. es \in Seq(Entry) /\ \A m \in 1..Len(es) : es[m] \in LeftEntry
    BY <2>1, <1>3, <2>es
  <2>3. es \in [1..Len(es) -> LeftEntry] /\ Len(es) \in Nat
    BY <2>2
  <2> QED
    BY <2>3, <2>es
<1>6. ASSUME NEW m \in 1..Len(entries), NEW k \in 1..Width(m)
      PROVE  AttachedChild(entries, P, P[m], entries[m].children[k])
  BY <1>3 DEF EntriesAttached, Attached, Width
<1>7. ASSUME NEW m \in 1..Len(entries), NEW i \in 1..Width(m), NEW k \in 1..Width(m),
             Cell(m, i) = Cell(m, k)
      PROVE  i = k
  BY <1>7 DEF OnceInv, Unrepeated, Width, Cell
<1>8. Pruned(P)
  BY <1>3, <1>4, <1>5, <1>6, <1>7 DEF Pruned
<1>9. rootMeta \in 1..Len(entries) /\ P[rootMeta] = <<>> /\ entries[rootMeta].info.isDir
  BY <1>3 DEF RootStored
<1>U. PICK U : U = 1..Len(entries) \ {rootMeta}
  OBVIOUS
<1>10. ASSUME NEW m \in 1..Len(entries), NEW k \in 1..Width(m) PROVE Cell(m, k) \in U
  <2>1. AttachedChild(entries, P, P[m], entries[m].children[k])
    BY <1>6
  <2>2. Cell(m, k) \in 1..Len(entries) /\ P[Cell(m, k)] = Append(P[m], entries[m].children[k].name)
    BY <2>1 DEF AttachedChild, Cell
  <2>3. P[m] \in Seq(Names)
    BY <1>3
  <2>4. P[Cell(m, k)] # <<>>
    BY <2>2, <2>3
  <2> QED
    BY <2>2, <2>4, <1>9, <1>U
<1>11. ClosedDown(U)
  BY <1>10, <1>U DEF ClosedDown
<1>x. PICK x : x = [id |-> Root, next |-> 1, cacheStart |-> 0, pathLen |-> 0]
  OBVIOUS
<1>12. /\ AtRoot.parents = <<x>> /\ AtRoot.cached = <<>> /\ AtRoot.current = Root
       /\ AtRoot.path = <<>>
  BY <1>x DEF AtRoot, Cleared
<1>a. PICK a : a = <<x>>
  OBVIOUS
<1>p. PICK p : p = AtRoot.path
  OBVIOUS
<1>b. PICK b : b = AtRoot.cached
  OBVIOUS
<1>13. Positioned(AtRoot, P)
  BY <1>2, RootSelected
<1>14. AtRoot \in CursorType /\ Trail(a, p, P)
  BY <1>13, <1>12, <1>a, <1>p DEF Positioned, At
<1>15. Len(a) = 1 /\ a[1] = x /\ x.id = Root /\ x.next = 1 /\ x.cacheStart = 0
       /\ \A i \in 1..Len(a) : i = 1
  BY <1>a, <1>x
<1>16. Tidy(a, b)
  <2>1. Len(b) = 0
    BY <1>12, <1>b
  <2> QED
    BY <2>1, <1>15 DEF Tidy
<1>17. Pending(a, U)
  <2>1. Meta(Root) = rootMeta /\ rootMeta \notin U
    BY <1>U DEF Meta
  <2>2. Width(rootMeta) \in Nat
    BY <1>8, <1>9, LeftFields
  <2>3. \A k \in 1..Width(rootMeta) : Cell(rootMeta, k) \in U
    BY <1>9, <1>10
  <2> QED
    BY <2>1, <2>2, <2>3, <1>15 DEF Pending
<1>18. Followed(a)
  BY <1>15 DEF Followed
<1>19. Fresh(a, Root, p, U)
  <2>1. Len(p) = 0
    BY <1>12, <1>p
  <2> QED
    BY <2>1, <1>15 DEF Fresh, AtFolder
<1>20. OnWalk(AtRoot, P, U)
  BY <1>12, <1>14, <1>16, <1>17, <1>18, <1>19, <1>a, <1>b, <1>p DEF OnWalk
<1>21. ASSUME NEW m \in 1..Len(P) PROVE P[m] \in Paths \cup {<<>>}
  <2>1. Recorded(parents, entries, P, listing, Waiting)
    BY <1>1 DEF Indexed
  <2>2. Listed(listing, P[m], entries[m].info.isDir)
    BY <2>1, <1>3 DEF Recorded
  <2>3. PICK k \in 1..Len(listing) : listing[k].path = P[m]
    BY <2>2 DEF Listed
  <2>4. listing \in Seq(Records(Paths \cup {<<>>}))
    BY DEF BuildInv, IndexTypeOK
  <2>5. listing[k] \in Records(Paths \cup {<<>>})
    BY <2>4
  <2>6. listing[k].path \in Paths \cup {<<>>}
    BY <2>5, RecordFields
  <2> QED
    BY <2>3, <2>6
<1> QED
  BY <1>2, <1>8, <1>9, <1>11, <1>20, <1>21, <1>U

LEMMA WalkStarts ==
  ASSUME BuildInv, OnceInv, pc = "built"
  PROVE  \E P : /\ Walkable(P) /\ Pruned(P)
                /\ rootMeta \in 1..Len(entries) /\ entries[rootMeta].info.isDir
                /\ P[rootMeta] = <<>>
                /\ \A m \in 1..Len(P) : P[m] \in Paths \cup {<<>>}
                /\ ClosedDown(1..Len(entries) \ {rootMeta})
                /\ OnWalk(AtRoot, P, 1..Len(entries) \ {rootMeta})
<1>1. PICK P : Indexed(P)
  BY DEF BuildInv
<1> QED
  BY <1>1, WalkOf

(* Where the cursor is.                                                    *)
LEMMA PlaceOnWalk ==
  ASSUME NEW P, Pruned(P), NEW U, NEW c, OnWalk(c, P, U)
  PROVE  /\ Meta(c.current) \in 1..Len(entries) /\ P[Meta(c.current)] = c.path
         /\ IsFolder(c.current) <=> Len(c.path) = Len(c.parents) - 1
         /\ Len(c.parents) \in Nat \ {0} /\ c.current # NoEntry
         /\ IsFolder(c.current) => c.current = c.parents[Len(c.parents)].id
         /\ ~IsFolder(c.current) => /\ Len(c.path) = Len(c.parents)
                                    /\ c.current.child = c.parents[Len(c.parents)].next - 1
                                    /\ IsChild(c.current, Meta(c.parents[Len(c.parents)].id))
         /\ Meta(c.current) \notin U
<1>1. PICK a \in Seq(Above), b \in Seq(Ids), e \in Ids, p \in Seq(Names) :
        /\ c = [parents |-> a, cached |-> b, current |-> e, path |-> p]
        /\ a = c.parents /\ b = c.cached /\ e = c.current /\ p = c.path
        /\ Trail(a, p, P) /\ Tidy(a, b) /\ Pending(a, U) /\ Followed(a)
        /\ Fresh(a, e, p, U)
        /\ Len(a) \in Nat \ {0} /\ (Len(p) = Len(a) \/ Len(p) = Len(a) - 1)
  BY WalkFields
<1>n. PICK n : n = Len(a)
  OBVIOUS
<1>f. PICK f : f = Meta(a[n].id)
  OBVIOUS
<1>2. /\ n \in 1..Len(a) /\ n \in Nat \ {0} /\ f \in 1..Len(entries) /\ IsFolder(a[n].id)
      /\ Len(P[f]) = n - 1 /\ (\A k \in 1..n - 1 : P[f][k] = p[k]) /\ f \notin U
  <2>1. n \in 1..Len(a) /\ n \in Nat \ {0}
    BY <1>1, <1>n
  <2>2. InTrail(a[n].id, n, p, P)
    BY <2>1, <1>1 DEF Trail
  <2>3. f \notin U
    BY <2>1, <1>1, <1>f DEF Pending
  <2> QED
    BY <2>1, <2>2, <2>3, <1>f DEF InTrail
<1>q. PICK q : q = P[f]
  OBVIOUS
<1>3. q \in Seq(Names)
  BY <1>2, <1>q, LeftFields
<1>4. CASE AtFolder(a, e, p)
  <2>1. e = a[n].id /\ Len(p) = n - 1
    BY <1>4, <1>n DEF AtFolder
  <2>2. q = p
    <3>1. Len(q) = Len(p) /\ \A k \in 1..Len(p) : q[k] = p[k]
      BY <2>1, <1>2, <1>q
    <3> QED
      BY <3>1, <1>3, SeqsEqual
  <2>3. e # NoEntry
    <3>1. CASE n = 1
      <4>1. e = Root
        BY <2>1, <3>1, <1>1 DEF Trail
      <4> QED
        BY <4>1 DEF Root, NoEntry
    <3>2. CASE n # 1
      <4>1. n \in 2..Len(a) /\ n - 1 \in 1..Len(a)
        BY <1>2, <3>2
      <4>2. IsChild(e, Meta(a[n - 1].id)) /\ Meta(a[n - 1].id) \in 1..Len(entries)
        BY <4>1, <2>1, <1>1 DEF Trail, InTrail
      <4>3. e.folder # 0
        BY <4>2 DEF IsChild
      <4> QED
        BY <4>3 DEF NoEntry
    <3> QED
      BY <3>1, <3>2
  <2> QED
    BY <2>1, <2>2, <2>3, <1>1, <1>2, <1>n, <1>f, <1>q
<1>5. CASE /\ AtFile(a, e, p) /\ e.child = a[Len(a)].next - 1
           /\ Meta(e) \in 1..Len(entries) \ U
  <2>1. /\ IsChild(e, f) /\ ~IsFolder(e) /\ Len(p) = n /\ p[n] = FileName(e)
        /\ e.child = a[n].next - 1 /\ Meta(e) \in 1..Len(entries) /\ Meta(e) \notin U
    BY <1>5, <1>n, <1>f DEF AtFile
  <2>k. PICK k : k = e.child
    OBVIOUS
  <2>2. e = [folder |-> f, child |-> k] /\ k \in 1..Width(f) /\ e.folder = f
    BY <2>1, <2>k DEF IsChild, Ids, Width
  <2>3. Cell(f, k) = Meta(e)
    <3>1. e # Root
      <4>1. Root.folder = 0
        BY DEF Root
      <4> QED
        BY <4>1, <2>2, <1>2
    <3> QED
      BY <3>1, <2>2, <2>k DEF Meta, Cell
  <2>4. Cell(f, k) # Unset
    BY <2>1, <2>3 DEF Unset
  <2>5. P[Meta(e)] = Append(q, FileName(e))
    BY <2>2, <2>4, <1>2, <1>q, CellPath
  <2>6. FileName(e) \in Names /\ e # NoEntry
    BY <2>2, <2>4, <1>2, CellIs
  <2>r. PICK r : r = Append(q, FileName(e))
    OBVIOUS
  <2>7. r \in Seq(Names) /\ Len(r) = n /\ r[n] = p[n] /\ \A i \in 1..n - 1 : r[i] = p[i]
    <3>1. Len(q) = n - 1 /\ \A i \in 1..n - 1 : q[i] = p[i]
      BY <1>2, <1>q
    <3>2. r \in Seq(Names) /\ Len(r) = Len(q) + 1 /\ r[Len(q) + 1] = FileName(e)
          /\ \A i \in 1..Len(q) : r[i] = q[i]
      BY <2>6, <2>r, <1>3, Appended
    <3> QED
      BY <3>1, <3>2, <2>1, <1>2
  <2>8. r = p
    <3>1. \A i \in 1..n : r[i] = p[i]
      BY <2>7, <1>2
    <3>2. Len(r) = Len(p)
      BY <2>1, <2>7
    <3> QED
      BY <3>1, <3>2, <2>1, <2>7, SeqsEqual
  <2>9. P[Meta(e)] = p
    BY <2>5, <2>8, <2>r
  <2>10. Len(a) # Len(a) - 1
    BY <1>1
  <2> QED
    BY <2>1, <2>6, <2>9, <2>10, <1>1, <1>n, <1>f
<1> QED
  BY <1>1, <1>4, <1>5 DEF Fresh

(* The index changes in place: an entry is left out or gets new metadata.  *)
OneLeftOut(x) ==
  /\ entries' \in Seq(LeftEntry) /\ Len(entries') = Len(entries) /\ rootMeta' = rootMeta
  /\ \A m \in 1..Len(entries) :
       /\ entries'[m].info.isDir = entries[m].info.isDir
       /\ Len(entries'[m].children) = Len(entries[m].children)
       /\ \A k \in 1..Len(entries[m].children) :
            /\ entries'[m].children[k].name = entries[m].children[k].name
            /\ entries'[m].children[k].isDir = entries[m].children[k].isDir
            /\ \/ entries'[m].children[k].meta = entries[m].children[k].meta
               \/ /\ x = [folder |-> m, child |-> k]
                  /\ entries'[m].children[k].meta = Unset

NotToCome(x, U) ==
  \A m \in 1..Len(entries) : \A k \in 1..Width(m) :
    x = [folder |-> m, child |-> k] => Cell(m, k) \notin U

LEMMA CellKept ==
  ASSUME NEW x, OneLeftOut(x), NEW m \in 1..Len(entries)
  PROVE  /\ Width(m)' = Width(m) /\ m \in 1..Len(entries')
         /\ \A k \in 1..Width(m) :
              \/ Cell(m, k)' = Cell(m, k)
              \/ x = [folder |-> m, child |-> k] /\ Cell(m, k)' = Unset
<1>1. Len(entries'[m].children) = Len(entries[m].children) /\ m \in 1..Len(entries')
  BY DEF OneLeftOut
<1>2. Width(m)' = Width(m)
  BY <1>1 DEF Width
<1>3. ASSUME NEW k \in 1..Width(m)
      PROVE  \/ Cell(m, k)' = Cell(m, k)
             \/ x = [folder |-> m, child |-> k] /\ Cell(m, k)' = Unset
  <2>1. k \in 1..Len(entries[m].children)
    BY DEF Width
  <2>2. \/ entries'[m].children[k].meta = entries[m].children[k].meta
        \/ x = [folder |-> m, child |-> k] /\ entries'[m].children[k].meta = Unset
    BY <2>1 DEF OneLeftOut
  <2> QED
    BY <2>2 DEF Cell
<1> QED
  BY <1>1, <1>2, <1>3

LEMMA PrunedKept ==
  ASSUME NEW P, Pruned(P), NEW x, OneLeftOut(x)
  PROVE  Pruned(P)'
<1>1. /\ entries' \in Seq(LeftEntry) /\ P \in Seq(Seq(Names)) /\ Len(P) = Len(entries')
      /\ Len(entries') = Len(entries)
      /\ \A m, k \in 1..Len(P) : P[m] = P[k] => m = k
  BY DEF Pruned, OneLeftOut
<1>2. ASSUME NEW m \in 1..Len(entries), NEW k \in 1..Width(m)'
      PROVE  \/ Cell(m, k)' = Unset
             \/ AttachedChild(entries', P, P[m], entries'[m].children[k])
  <2>1. k \in 1..Width(m)
    BY CellKept
  <2>2. CASE Cell(m, k)' = Unset
    BY <2>2
  <2>3. CASE Cell(m, k)' # Unset
    <3>1. Cell(m, k)' = Cell(m, k) /\ Cell(m, k) # Unset
      BY <2>1, <2>3, CellKept
    <3>2. AttachedChild(entries, P, P[m], entries[m].children[k])
      BY <2>1, <3>1 DEF Pruned
    <3>3. /\ entries'[m].children[k].name = entries[m].children[k].name
          /\ entries'[m].children[k].isDir = entries[m].children[k].isDir
      BY <2>1 DEF OneLeftOut, Width
    <3>4. entries'[m].children[k].meta = entries[m].children[k].meta
      BY <3>1 DEF Cell
    <3>5. entries[m].children[k].meta \in 1..Len(entries)
      BY <3>2 DEF AttachedChild
    <3>6. entries'[entries[m].children[k].meta].info.isDir =
            entries[entries[m].children[k].meta].info.isDir
      BY <3>5 DEF OneLeftOut
    <3> QED
      BY <3>2, <3>3, <3>4, <3>5, <3>6, <1>1 DEF AttachedChild
  <2> QED
    BY <2>2, <2>3
<1>3. ASSUME NEW m \in 1..Len(entries), NEW i \in 1..Width(m)', NEW k \in 1..Width(m)',
             Cell(m, i)' = Cell(m, k)', Cell(m, i)' # Unset
      PROVE  i = k
  <2>1. i \in 1..Width(m) /\ k \in 1..Width(m)
    BY CellKept
  <2>2. Cell(m, i)' = Cell(m, i) /\ Cell(m, k)' = Cell(m, k)
    BY <2>1, <1>3, CellKept
  <2>3. Cell(m, i) = Cell(m, k) /\ Cell(m, i) # Unset
    BY <2>2, <1>3
  <2> QED
    BY <2>1, <2>3 DEF Pruned
<1>4. RootStored(P)'
  <2>1. rootMeta \in 1..Len(entries) /\ P[rootMeta] = <<>> /\ entries[rootMeta].info.isDir
    BY DEF Pruned, RootStored
  <2>2. rootMeta' = rootMeta /\ entries'[rootMeta].info.isDir = entries[rootMeta].info.isDir
    BY <2>1 DEF OneLeftOut
  <2> QED
    BY <2>1, <2>2, <1>1 DEF RootStored
<1> QED
  BY <1>1, <1>2, <1>3, <1>4 DEF Pruned

LEMMA ClosedDownKept ==
  ASSUME NEW U, ClosedDown(U), NEW x, OneLeftOut(x), NotToCome(x, U)
  PROVE  ClosedDown(U)'
<1>1. U \subseteq 1..Len(entries')
  BY DEF ClosedDown, OneLeftOut
<1>2. ASSUME NEW m \in U, NEW k \in 1..Width(m)' PROVE Cell(m, k)' \in U
  <2>1. m \in 1..Len(entries)
    BY DEF ClosedDown
  <2>2. k \in 1..Width(m)
    BY <2>1, CellKept
  <2>3. Cell(m, k) \in U
    BY <2>2 DEF ClosedDown
  <2>4. x # [folder |-> m, child |-> k]
    BY <2>1, <2>2, <2>3 DEF NotToCome
  <2> QED
    BY <2>1, <2>2, <2>3, <2>4, CellKept
<1> QED
  BY <1>1, <1>2 DEF ClosedDown

LEMMA ChildKept ==
  ASSUME NEW x, OneLeftOut(x), NEW f \in 1..Len(entries), NEW e, IsChild(e, f), e # x
  PROVE  /\ Meta(e)' = Meta(e) /\ FileName(e)' = FileName(e) /\ IsChild(e, f)'
         /\ Meta(e) \in 1..Len(entries) => IsFolder(e)' = IsFolder(e)
<1>1. e \in Ids /\ e.folder = f /\ e.child \in 1..Len(entries[f].children)
  BY DEF IsChild
<1>k. PICK k : k = e.child
  OBVIOUS
<1>2. e = [folder |-> f, child |-> k]
  BY <1>1, <1>k DEF Ids
<1>3. e # Root
  <2>1. Root.folder = 0
    BY DEF Root
  <2> QED
    BY <2>1, <1>1
<1>4. /\ entries'[f].children[k].meta = entries[f].children[k].meta
      /\ entries'[f].children[k].name = entries[f].children[k].name
      /\ Len(entries'[f].children) = Len(entries[f].children)
  BY <1>1, <1>2, <1>k DEF OneLeftOut
<1>5. Meta(e)' = Meta(e)
  BY <1>1, <1>3, <1>4, <1>k DEF Meta
<1>6. FileName(e)' = FileName(e)
  BY <1>1, <1>4, <1>k DEF FileName
<1>7. IsChild(e, f)'
  BY <1>1, <1>4, <1>k DEF IsChild
<1>8. ASSUME Meta(e) \in 1..Len(entries) PROVE IsFolder(e)' = IsFolder(e)
  BY <1>5, <1>8 DEF IsFolder, OneLeftOut
<1> QED
  BY <1>5, <1>6, <1>7, <1>8

LEMMA TrailKept ==
  ASSUME NEW x, OneLeftOut(x), NEW P, NEW a \in Seq(Above), NEW p, Trail(a, p, P), x # Root,
         \A i \in 1..Len(a) : a[i].id # x
  PROVE  /\ Trail(a, p, P)'
         /\ \A i \in 1..Len(a) : Meta(a[i].id)' = Meta(a[i].id)
<1>1. ASSUME NEW i \in 1..Len(a)
      PROVE  /\ Meta(a[i].id)' = Meta(a[i].id) /\ IsFolder(a[i].id)' = IsFolder(a[i].id)
             /\ Meta(a[i].id) \in 1..Len(entries)
             /\ i \in 2..Len(a) => IsChild(a[i].id, Meta(a[i - 1].id))'
  <2>1. Meta(a[i].id) \in 1..Len(entries)
    BY DEF Trail, InTrail
  <2>2. CASE i = 1
    <3>1. a[i].id = Root
      BY <2>2 DEF Trail
    <3>2. Meta(Root)' = Meta(Root)
      BY DEF Meta, OneLeftOut
    <3>3. IsFolder(Root)' = IsFolder(Root)
      BY <3>1, <3>2, <2>1 DEF IsFolder, OneLeftOut
    <3> QED
      BY <2>1, <2>2, <3>1, <3>2, <3>3
  <2>3. CASE i # 1
    <3>1. i \in 2..Len(a) /\ i - 1 \in 1..Len(a)
      BY <2>3
    <3>f. PICK f : f = Meta(a[i - 1].id)
      OBVIOUS
    <3>2. f \in 1..Len(entries) /\ IsChild(a[i].id, f)
      BY <3>1, <3>f DEF Trail, InTrail
    <3>3. /\ Meta(a[i].id)' = Meta(a[i].id) /\ IsChild(a[i].id, f)'
          /\ IsFolder(a[i].id)' = IsFolder(a[i].id)
      BY <3>2, <2>1, ChildKept
    <3>4. Meta(a[i - 1].id)' = f
      <4>1. CASE i - 1 = 1
        <5>1. a[i - 1].id = Root
          BY <4>1 DEF Trail
        <5> QED
          BY <5>1, <3>f DEF Meta, OneLeftOut
      <4>2. CASE i - 1 # 1
        <5>1. i - 1 \in 2..Len(a) /\ i - 2 \in 1..Len(a) /\ (i - 1) - 1 = i - 2
          BY <3>1, <4>2
        <5>2. Meta(a[i - 2].id) \in 1..Len(entries) /\ IsChild(a[i - 1].id, Meta(a[i - 2].id))
          BY <5>1 DEF Trail, InTrail
        <5>3. a[i - 1].id # x
          BY <3>1
        <5> QED
          BY <5>2, <5>3, <3>f, ChildKept
      <4> QED
        BY <4>1, <4>2
    <3>5. IsChild(a[i].id, Meta(a[i - 1].id))'
      BY <3>3, <3>4 DEF IsChild
    <3> QED
      BY <2>1, <3>3, <3>5
  <2> QED
    BY <2>2, <2>3
<1>2. ASSUME NEW i \in 1..Len(a) PROVE InTrail(a[i].id, i, p, P)' /\ a[i].pathLen = i - 1
  <2>1. InTrail(a[i].id, i, p, P) /\ a[i].pathLen = i - 1
    BY DEF Trail
  <2>2. Len(entries') = Len(entries)
    BY DEF OneLeftOut
  <2> QED
    BY <2>1, <2>2, <1>1 DEF InTrail
<1>3. a # <<>> /\ a[1].id = Root
  BY DEF Trail
<1>4. Root' = Root
  BY DEF Root
<1> QED
  BY <1>1, <1>2, <1>3, <1>4 DEF Trail

LEMMA OnWalkKept ==
  ASSUME NEW x, OneLeftOut(x), NEW P, NEW U, NotToCome(x, U), NEW c, OnWalk(c, P, U),
         x # Root, c.current # x, \A i \in 1..Len(c.parents) : c.parents[i].id # x
  PROVE  OnWalk(c, P, U)'
<1>1. PICK a \in Seq(Above), b \in Seq(Ids), e \in Ids, p \in Seq(Names) :
        /\ c = [parents |-> a, cached |-> b, current |-> e, path |-> p]
        /\ a = c.parents /\ b = c.cached /\ e = c.current /\ p = c.path
        /\ Trail(a, p, P) /\ Tidy(a, b) /\ Pending(a, U) /\ Followed(a)
        /\ Fresh(a, e, p, U)
        /\ Len(a) \in Nat \ {0} /\ (Len(p) = Len(a) \/ Len(p) = Len(a) - 1)
  BY WalkFields
<1>2. Trail(a, p, P)' /\ \A i \in 1..Len(a) : Meta(a[i].id)' = Meta(a[i].id)
  BY <1>1, TrailKept
<1>3. Pending(a, U)'
  <2> SUFFICES ASSUME NEW i \in 1..Len(a)
               PROVE  (/\ Meta(a[i].id) \notin U
                       /\ a[i].next \in 1..Width(Meta(a[i].id)) + 1
                       /\ \A k \in a[i].next..Width(Meta(a[i].id)) :
                            Cell(Meta(a[i].id), k) \in U)'
    BY DEF Pending
  <2>m. PICK m : m = Meta(a[i].id)
    OBVIOUS
  <2>1. m \in 1..Len(entries)
    BY <1>1, <2>m DEF Trail, InTrail
  <2>2. /\ m \notin U /\ a[i].next \in 1..Width(m) + 1
        /\ \A k \in a[i].next..Width(m) : Cell(m, k) \in U
    BY <1>1, <2>m DEF Pending
  <2>3. Meta(a[i].id)' = m
    BY <1>2, <2>m
  <2>4. Width(m)' = Width(m)
    BY <2>1, CellKept
  <2>5. ASSUME NEW k \in a[i].next..Width(m) PROVE Cell(m, k)' \in U
    <3>1. k \in 1..Width(m) /\ Cell(m, k) \in U
      <4>1. a[i].next \in Nat \ {0} /\ Len(entries[m].children) = Width(m)
        BY <2>2 DEF Width
      <4>2. k \in 1..Width(m)
        BY <4>1
      <4> QED
        BY <4>2, <2>2
    <3>2. x # [folder |-> m, child |-> k]
      BY <2>1, <3>1 DEF NotToCome
    <3> QED
      BY <2>1, <3>1, <3>2, CellKept
  <2> QED
    BY <2>2, <2>3, <2>4, <2>5 DEF Width, Cell
<1>n. PICK n : n = Len(a)
  OBVIOUS
<1>f. PICK f : f = Meta(a[n].id)
  OBVIOUS
<1>4. n \in 1..Len(a) /\ f \in 1..Len(entries)
  <2>1. n \in 1..Len(a)
    BY <1>1, <1>n
  <2> QED
    BY <2>1, <1>1, <1>f DEF Trail, InTrail
<1>5. Fresh(a, e, p, U)'
  <2>1. CASE AtFolder(a, e, p) /\ a[Len(a)].next = 1
    <3>1. AtFolder(a, e, p)'
      BY <2>1 DEF AtFolder
    <3> QED
      BY <2>1, <3>1 DEF Fresh
  <2>2. CASE /\ AtFile(a, e, p) /\ e.child = a[Len(a)].next - 1
             /\ Meta(e) \in 1..Len(entries) \ U
    <3>1. IsChild(e, f) /\ ~IsFolder(e) /\ Len(p) = n /\ p[n] = FileName(e)
      BY <2>2, <1>n, <1>f DEF AtFile
    <3>2. /\ Meta(e)' = Meta(e) /\ FileName(e)' = FileName(e) /\ IsChild(e, f)'
          /\ IsFolder(e)' = IsFolder(e)
      BY <3>1, <2>2, <1>1, <1>4, ChildKept
    <3>3. Meta(a[n].id)' = f
      BY <1>2, <1>4, <1>f
    <3>4. IsChild(e, Meta(a[n].id))'
      BY <3>2, <3>3 DEF IsChild
    <3>5. AtFile(a, e, p)'
      BY <3>1, <3>2, <3>4, <1>n DEF AtFile
    <3>6. Meta(e)' \in 1..Len(entries') \ U
      BY <3>2, <2>2 DEF OneLeftOut
    <3> QED
      BY <3>5, <3>6, <2>2 DEF Fresh
  <2> QED
    BY <2>1, <2>2, <1>1 DEF Fresh
<1>6. Tidy(a, b)' /\ Followed(a)' /\ c \in CursorType'
  <2>1. c \in CursorType'
    BY DEF OnWalk, CursorType, Above, Ids
  <2> QED
    BY <2>1, <1>1 DEF Tidy, Followed
<1> QED
  BY <1>1, <1>2, <1>3, <1>5, <1>6 DEF OnWalk
===============================================================================
