--------------------------- MODULE FsOutputProofs ----------------------------
(***************************************************************************)
(* What the two iterators write that use a cursor, for every listing and   *)
(* all options: the CSV of an index gives back the listing that the index  *)
(* was built from (CsvCorrect), and the QDirStat cache has a line for each *)
(* folder and file of it (QDirStatCorrect).                                *)
(*                                                                         *)
(* First come facts about the listing, then what the index keeps of it     *)
(* (Faithful: sizes, order, and the counts and sums of the folders), then  *)
(* the order of a walk through the index, and last the output.             *)
(***************************************************************************)
EXTENDS FsCursorProofs

LEMMA SameSeq ==
  ASSUME NEW S, NEW s \in Seq(S), NEW t \in Seq(S), Len(s) = Len(t),
         \A i \in 1..Len(s) : s[i] = t[i]
  PROVE  s = t
OBVIOUS

(* A path that is above another one, on the way to it.                     *)
Under(p, q) == Len(p) < Len(q) /\ \A i \in 1..Len(p) : p[i] = q[i]

LEMMA UnderIsBelow ==
  ASSUME NEW p \in Seq(Names), NEW q \in Seq(Names)
  PROVE  Below(p, q) <=> Under(p, q)
<1>1. Len(p) \in Nat /\ Len(q) \in Nat
  OBVIOUS
<1>2. CASE Len(p) <= Len(q)
  <2>a. PICK a : a = SubSeq(p, 1, Len(p))
    OBVIOUS
  <2>b. PICK b : b = SubSeq(q, 1, Len(p))
    OBVIOUS
  <2>1. a = p
    BY <2>a, WholeSeq
  <2>2. b \in Seq(Names) /\ Len(b) = Len(p) /\ \A k \in 1..Len(p) : b[k] = q[k]
    <3>1. Len(p) \in 0..Len(q)
      BY <1>1, <1>2
    <3> QED
      BY <2>b, <3>1, CutSeq
  <2>3. Below(p, q) <=> (p = b /\ p # q)
    BY <1>2, <2>1, <2>a, <2>b DEF Below, IsStrictPrefix, IsPrefix
  <2>4. p = b <=> \A k \in 1..Len(p) : p[k] = q[k]
    <3>1. (\A k \in 1..Len(p) : p[k] = q[k]) => p = b
      BY <2>2
    <3> QED
      BY <2>2, <3>1
  <2>5. ASSUME p = b, p # q PROVE Len(p) < Len(q)
    <3> SUFFICES ASSUME Len(p) = Len(q) PROVE FALSE
      BY <1>1, <1>2
    <3>1. \A k \in 1..Len(p) : p[k] = q[k]
      BY <2>4, <2>5
    <3>2. p = q
      BY <3>1
    <3> QED
      BY <2>5, <3>2
  <2>6. Len(p) < Len(q) => p # q
    BY <1>1
  <2> QED
    BY <2>3, <2>4, <2>5, <2>6 DEF Under
<1>3. CASE ~(Len(p) <= Len(q))
  BY <1>1, <1>3 DEF Below, IsStrictPrefix, IsPrefix, Under
<1> QED
  BY <1>2, <1>3

(* Listings come folder by folder: above each path are paths that came     *)
(* before, and everything in between is in their folders too.              *)
InOrder(l) ==
  /\ \A i, j \in 1..Len(l) : l[i].path = l[j].path => i = j
  /\ \A k \in 1..Len(l) : \A p \in Seq(Names) :
       Under(p, l[k].path) => \E j \in 1..k - 1 : l[j].path = p
  /\ \A i, j, k \in 1..Len(l) :
       i < j /\ j < k /\ Under(l[i].path, l[k].path) => Under(l[i].path, l[j].path)

(* All that has come since one of the first n folders is in it.            *)
Ongoing(f, n, l) ==
  \A i \in 1..n : \A x \in 1..Len(l) :
    l[x].path = PathTo(f, i) => \A y \in x + 1..Len(l) : Under(l[x].path, l[y].path)

PathsNamed(l) == \A k \in 1..Len(l) : l[k].path \in Seq(Names)

LEMMA NextInOrder ==
  ASSUME NEW S, NEW l \in Seq(S), NEW r \in S, PathsNamed(l), InOrder(l),
         NEW f \in Seq(Folder), FolderNames(f), Ongoing(f, Len(f), l),
         \A i \in 1..Len(f) : \E k \in 1..Len(l) : l[k].path = PathTo(f, i),
         r.path \in Seq(Names), Len(r.path) <= Len(f),
         \A i \in 1..Len(r.path) - 1 : r.path[i] = f[i + 1].name,
         \A k \in 1..Len(l) : l[k].path # r.path
  PROVE  /\ InOrder(Append(l, r)) /\ Ongoing(f, Len(r.path), Append(l, r))
<1>n. PICK n : n = Len(l)
  OBVIOUS
<1>m. PICK m : m = Append(l, r)
  OBVIOUS
<1>q. PICK q : q = r.path
  OBVIOUS
<1>1. /\ n \in Nat /\ Len(m) = n + 1 /\ m[n + 1] = r /\ \A k \in 1..n : m[k] = l[k]
      /\ Len(q) \in Nat /\ Len(f) \in Nat /\ q \in Seq(Names)
  BY <1>m, <1>n, <1>q
<1>p. PICK path : path = [k \in 1..n + 1 |-> m[k].path]
  OBVIOUS
<1>2. /\ \A k \in 1..n : path[k] = l[k].path /\ path[k] # q /\ path[k] \in Seq(Names)
      /\ path[n + 1] = q
      /\ \A k \in 1..n + 1 : path[k] = m[k].path /\ path[k] \in Seq(Names)
  <2>1. /\ \A k \in 1..n + 1 : path[k] = m[k].path
        /\ \A k \in 1..n : k \in 1..n + 1
        /\ n + 1 \in 1..n + 1
    BY <1>1, <1>p
  <2>2. \A k \in 1..n : l[k].path # q /\ l[k].path \in Seq(Names)
    BY <1>n, <1>q DEF PathsNamed
  <2>3. \A k \in 1..n + 1 : k \in 1..n \/ k = n + 1
    BY <1>1
  <2>4. path[n + 1] = q
    BY <1>1, <1>q, <2>1
  <2>5. \A k \in 1..n : path[k] = l[k].path
    BY <1>1, <2>1
  <2> QED
    BY <1>1, <2>1, <2>2, <2>3, <2>4, <2>5
<1>3. ASSUME NEW i \in 1..Len(q)
      PROVE  /\ i \in 1..Len(f) /\ PathTo(f, i) \in Seq(Names) /\ Len(PathTo(f, i)) = i - 1
             /\ Under(PathTo(f, i), q)
  <2>1. i \in 1..Len(f)
    BY <1>1, <1>q
  <2>2. /\ PathTo(f, i) \in Seq(Names) /\ Len(PathTo(f, i)) = i - 1
        /\ \A k \in 1..i - 1 : PathTo(f, i)[k] = f[k + 1].name
    BY <2>1, PathToType
  <2>3. \A k \in 1..i - 1 : q[k] = f[k + 1].name
    BY <1>1, <1>q
  <2> QED
    BY <1>1, <2>1, <2>2, <2>3 DEF Under
<1>4. ASSUME NEW p \in Seq(Names), Under(p, q)
      PROVE  \E i \in 1..Len(q) : i \in 1..Len(f) /\ p = PathTo(f, i)
  <2>i. PICK i : i = Len(p) + 1
    OBVIOUS
  <2>1. i \in 1..Len(q) /\ i - 1 = Len(p)
    BY <1>1, <1>4, <2>i DEF Under
  <2>2. i \in 1..Len(f) /\ PathTo(f, i) \in Seq(Names) /\ Len(PathTo(f, i)) = Len(p)
    BY <1>3, <2>1
  <2>3. \A k \in 1..Len(p) : PathTo(f, i)[k] = p[k]
    <3>1. Under(PathTo(f, i), q)
      BY <1>3, <2>1
    <3> QED
      BY <1>4, <2>2, <3>1 DEF Under
  <2>t. PICK t : t = PathTo(f, i)
    OBVIOUS
  <2>4. t = p
    BY <2>2, <2>3, <2>t, SameSeq
  <2> QED
    BY <2>1, <2>2, <2>4, <2>t
<1>5. ASSUME NEW i \in 1..n + 1, NEW j \in 1..n + 1, path[i] = path[j] PROVE i = j
  <2>1. \A x, y \in 1..n : path[x] = path[y] => x = y
    BY <1>2, <1>n DEF InOrder
  <2>2. \A x \in 1..n + 1 : x \in 1..n \/ x = n + 1
    BY <1>1
  <2> QED
    BY <1>2, <1>5, <2>1, <2>2
<1>6. ASSUME NEW k \in 1..n + 1, NEW p \in Seq(Names), Under(p, path[k])
      PROVE  \E j \in 1..k - 1 : path[j] = p
  <2>1. CASE k = n + 1
    <3>1. PICK i \in 1..Len(f) : p = PathTo(f, i)
      BY <1>2, <1>4, <1>6, <2>1
    <3>2. PICK j \in 1..n : l[j].path = p
      BY <1>n, <3>1
    <3>3. j \in 1..k - 1
      BY <1>1, <2>1
    <3> QED
      BY <1>2, <3>2, <3>3
  <2>2. CASE k \in 1..n
    <3>1. PICK j \in 1..k - 1 : l[j].path = p
      BY <1>2, <1>6, <1>n, <2>2 DEF InOrder
    <3>2. j \in 1..n
      BY <1>1, <2>2
    <3> QED
      BY <1>2, <3>1, <3>2
  <2> QED
    BY <1>1, <2>1, <2>2
<1>7. ASSUME NEW i \in 1..n + 1, NEW j \in 1..n + 1, NEW k \in 1..n + 1, i < j, j < k,
             Under(path[i], path[k])
      PROVE  Under(path[i], path[j])
  <2>1. i \in 1..n /\ j \in 1..n
    BY <1>1, <1>7
  <2>2. CASE k = n + 1
    <3>1. PICK x \in 1..Len(f) : path[i] = PathTo(f, x)
      BY <1>2, <1>4, <1>7, <2>2
    <3>2. j \in i + 1..n
      BY <1>1, <1>7, <2>1
    <3>3. Under(l[i].path, l[j].path)
      BY <1>2, <1>n, <2>1, <3>1, <3>2 DEF Ongoing
    <3> QED
      BY <1>2, <2>1, <3>3
  <2>3. CASE k \in 1..n
    <3>1. Under(l[i].path, l[j].path)
      BY <1>2, <1>7, <1>n, <2>1, <2>3 DEF InOrder
    <3> QED
      BY <1>2, <2>1, <3>1
  <2> QED
    BY <1>1, <2>2, <2>3
<1>8. InOrder(m)
  BY <1>1, <1>2, <1>5, <1>6, <1>7 DEF InOrder
<1>9. ASSUME NEW i \in 1..Len(q), NEW x \in 1..n + 1, path[x] = PathTo(f, i),
             NEW y \in x + 1..n + 1
      PROVE  Under(path[x], path[y])
  <2>1. i \in 1..Len(f) /\ Len(PathTo(f, i)) = i - 1 /\ Under(PathTo(f, i), q)
    BY <1>3
  <2>2. PathTo(f, i) # q
    BY <1>1, <2>1
  <2>3. x \in 1..n
    BY <1>1, <1>2, <1>9, <2>2
  <2>4. CASE y = n + 1
    BY <1>2, <1>9, <2>1, <2>4
  <2>5. CASE y \in x + 1..n
    <3>1. Under(l[x].path, l[y].path)
      BY <1>2, <1>9, <1>n, <2>1, <2>3, <2>5 DEF Ongoing
    <3>2. y \in 1..n
      BY <1>1, <2>3, <2>5
    <3> QED
      BY <1>2, <2>3, <3>1, <3>2
  <2> QED
    BY <1>1, <2>3, <2>4, <2>5
<1>10. Ongoing(f, Len(q), m)
  <2> SUFFICES ASSUME NEW i \in 1..Len(q), NEW x \in 1..n + 1, m[x].path = PathTo(f, i),
                      NEW y \in x + 1..n + 1
               PROVE  Under(m[x].path, m[y].path)
    BY <1>1 DEF Ongoing
  <2>1. y \in 1..n + 1
    BY <1>1
  <2> QED
    BY <1>2, <1>9, <2>1
<1> QED
  BY <1>8, <1>10, <1>m, <1>q

(* What was listed so far.                                                 *)
StillOpen ==
  IF pc = "adding" THEN Len(item.path) ELSE IF pc = "reading" THEN Len(parents) ELSE 0

ListingInv ==
  /\ \E f, l, n : /\ f = parents /\ l = listing /\ n = StillOpen
                  /\ InOrder(l) /\ Ongoing(f, n, l)
  /\ pc = "adding" => Len(listing) # 0 /\ listing[Len(listing)] = item

LEMMA ListingFields ==
  ASSUME IndexTypeOK
  PROVE  /\ listing \in Seq(Records(Paths \cup {<<>>})) /\ PathsNamed(listing)
         /\ \A k \in 1..Len(listing) : listing[k].isDir \in BOOLEAN /\ listing[k].size \in Nat
<1>1. listing \in Seq(Records(Paths \cup {<<>>}))
  BY TypeIs
<1>2. ASSUME NEW k \in 1..Len(listing)
      PROVE  /\ listing[k].path \in Seq(Names) /\ listing[k].isDir \in BOOLEAN
             /\ listing[k].size \in Nat
  <2>1. listing[k] \in Records(Paths \cup {<<>>})
    BY <1>1
  <2>2. /\ listing[k].path \in Paths \cup {<<>>}
        /\ listing[k].isDir \in BOOLEAN /\ listing[k].size \in Nat
    BY <2>1, RecordFields
  <2>3. <<>> \in Seq(Names)
    OBVIOUS
  <2>4. listing[k].path \in Seq(Names)
    BY <2>2, <2>3, PathIs
  <2> QED
    BY <2>2, <2>4
<1> QED
  BY <1>1, <1>2 DEF PathsNamed

(* Folders that stay open under the same names.                            *)
LEMMA OngoingKept ==
  ASSUME NEW f \in Seq(Folder), NEW g \in Seq(Folder), NEW n \in Nat, n <= Len(f), n <= Len(g),
         \A i \in 1..n : g[i].name = f[i].name, NEW l, Ongoing(f, n, l)
  PROVE  Ongoing(g, n, l)
<1>1. ASSUME NEW i \in 1..n PROVE PathTo(g, i) = PathTo(f, i)
  <2>1. i \in 1..Len(f) /\ \A k \in 2..i : g[k].name = f[k].name
    OBVIOUS
  <2> QED
    BY <2>1, SamePathTo
<1> QED
  BY <1>1 DEF Ongoing

LEMMA InitListing == Init => ListingInv
<1> SUFFICES ASSUME Init PROVE ListingInv
  OBVIOUS
<1>1. PICK r \in Records({<<>>}) : listing = <<r>> /\ parents = <<RootFolder(options, r)>>
  BY DEF Init
<1>l. PICK l : l = listing
  OBVIOUS
<1>f. PICK f : f = parents
  OBVIOUS
<1>n. PICK n : n = StillOpen
  OBVIOUS
<1>2. r.path = <<>>
  BY RecordFields
<1>3. Len(l) = 1 /\ l[1].path = <<>>
  BY <1>1, <1>l, <1>2
<1>4. InOrder(l)
  <2>1. \A p \in Seq(Names) : ~Under(p, <<>>)
    BY DEF Under
  <2> QED
    BY <1>3, <2>1 DEF InOrder
<1>5. Ongoing(f, n, l)
  BY <1>3 DEF Ongoing
<1>6. pc # "adding"
  BY DEF Init
<1> QED
  BY <1>4, <1>5, <1>6, <1>f, <1>l, <1>n DEF ListingInv

LEMMA TakenListing ==
  ASSUME BuildInv, ListingInv, NEW r \in Records(Paths), Read(r)
  PROVE  ListingInv'
<1>1. PICK P : Indexed(P)
  BY DEF BuildInv
<1>2. /\ InOpenFolders(r.path) /\ listing' = Append(listing, r) /\ item' = r
      /\ pc = "reading" /\ pc' = "adding" /\ parents' = parents
  BY DEF Read, Take
<1>3. \A i \in DOMAIN listing : listing[i].path # r.path
  BY DEF Read, Listable
<1>f. PICK f : f = parents
  OBVIOUS
<1>l. PICK l : l = listing
  OBVIOUS
<1> PICK S : S = Records(Paths \cup {<<>>})
  OBVIOUS
<1>4. l \in Seq(S) /\ r \in S /\ PathsNamed(l) /\ r.path \in Seq(Names)
  <2>1. r \in S
    <3>1. Paths \subseteq Paths \cup {<<>>}
      OBVIOUS
    <3> QED
      BY <3>1 DEF Records
  <2>2. IndexTypeOK
    BY DEF BuildInv
  <2>3. r.path \in Seq(Names)
    BY RecordFields, PathIs
  <2> QED
    BY <1>l, <2>1, <2>2, <2>3, ListingFields
<1>5. f \in Seq(Folder) /\ FolderNames(f)
  BY <1>1, <1>f DEF Indexed, Shape
<1>6. \A i \in 1..Len(f) : \E k \in 1..Len(l) : l[k].path = PathTo(f, i)
  BY <1>1, <1>f, <1>l DEF Indexed, Recorded, Listed
<1>7. InOrder(l) /\ Ongoing(f, Len(f), l)
  BY <1>2, <1>f, <1>l DEF ListingInv, StillOpen
<1>8. Len(r.path) <= Len(f) /\ \A i \in 1..Len(r.path) - 1 : r.path[i] = f[i + 1].name
  BY <1>2, <1>f DEF InOpenFolders
<1>9. \A k \in 1..Len(l) : l[k].path # r.path
  BY <1>3, <1>4, <1>l
<1>m. PICK m : m = Append(l, r)
  OBVIOUS
<1>10. InOrder(m) /\ Ongoing(f, Len(r.path), m)
  BY <1>4, <1>5, <1>6, <1>7, <1>8, <1>9, <1>m, NextInOrder
<1>k. PICK k : k = Len(r.path)
  OBVIOUS
<1>11. f = parents' /\ m = listing' /\ k = StillOpen'
  BY <1>2, <1>f, <1>l, <1>m, <1>k DEF StillOpen
<1>12. Len(listing') # 0 /\ listing'[Len(listing')] = item'
  BY <1>2, <1>4, <1>l
<1> QED
  BY <1>10, <1>11, <1>12, <1>k DEF ListingInv

LEMMA FinishedListing ==
  ASSUME BuildInv, ListingInv, FinishFolder
  PROVE  ListingInv'
<1>n. PICK n : n = Len(parents)
  OBVIOUS
<1>k. PICK k : k = StillOpen
  OBVIOUS
<1>f. PICK f : f = parents
  OBVIOUS
<1>g. PICK g : g = parents'
  OBVIOUS
<1>l. PICK l : l = listing
  OBVIOUS
<1>1. /\ n \in Nat \ {0} /\ n > Kept /\ pc \in {"adding", "finishing"}
      /\ parents \in Seq(Folder)
      /\ parents' \in Seq(Folder) /\ Len(parents') = n - 1
      /\ \A i \in 1..n - 2 : parents'[i] = parents[i]
      /\ n # 1 => \E e \in Nat : parents'[n - 1] = WithChild(parents[n - 1], parents[n].info,
                                            ChildAt(parents[n].name, TRUE, e))
      /\ UNCHANGED <<options, listing, item, pc>>
  <2>1. entries \in Seq(Entry) /\ Len(entries) + 1 \in Nat
    BY FinishStep
  <2> QED
    BY <1>n, <2>1, FinishStep
<1>2. k = Kept /\ k' = k
  BY <1>1, <1>k DEF StillOpen, Kept
<1>3. k \in Nat
  <2>1. PICK P : Indexed(P)
    BY DEF BuildInv
  <2>2. pc = "adding" => item.path \in Seq(Names)
    BY <2>1, RecordFields, PathIs DEF Indexed, ItemWaits
  <2> QED
    BY <1>2, <2>2 DEF Kept
<1>4. \A i \in 1..n - 1 : g[i].name = f[i].name
  <2>1. ASSUME n # 1 PROVE g[n - 1].name = f[n - 1].name
    <3>1. PICK e \in Nat : g[n - 1] = WithChild(f[n - 1], f[n].info, ChildAt(f[n].name, TRUE, e))
      BY <1>1, <1>f, <1>g, <2>1
    <3>2. f[n - 1] \in Folder
      BY <1>1, <1>f, <1>n, <2>1
    <3> QED
      BY <3>1, <3>2 DEF WithChild, Folder
  <2>2. \A i \in 1..n - 1 : i \in 1..n - 2 \/ (i = n - 1 /\ n # 1)
    BY <1>1
  <2> QED
    BY <1>1, <1>f, <1>g, <2>1, <2>2
<1>5. InOrder(l) /\ Ongoing(f, k, l)
  BY <1>f, <1>k, <1>l DEF ListingInv
<1>6. Ongoing(g, k, l)
  <2>1. k <= n - 1 /\ k <= Len(f) /\ k <= Len(g) /\ f \in Seq(Folder) /\ g \in Seq(Folder)
    BY <1>1, <1>2, <1>3, <1>f, <1>g, <1>n
  <2>2. \A i \in 1..k : g[i].name = f[i].name
    BY <1>1, <1>3, <1>4, <2>1
  <2> QED
    BY <1>3, <1>5, <2>1, <2>2, OngoingKept
<1>7. g = parents' /\ l = listing' /\ k = StillOpen'
  BY <1>1, <1>g, <1>k, <1>l DEF StillOpen
<1>8. pc' = "adding" => Len(listing') # 0 /\ listing'[Len(listing')] = item'
  BY <1>1 DEF ListingInv
<1> QED
  BY <1>5, <1>6, <1>7, <1>8 DEF ListingInv

LEMMA FolderListed ==
  ASSUME BuildInv, ListingInv, AddFolder
  PROVE  ListingInv'
<1>n. PICK n : n = Len(parents)
  OBVIOUS
<1>f. PICK f : f = parents
  OBVIOUS
<1>g. PICK g : g = parents'
  OBVIOUS
<1>l. PICK l : l = listing
  OBVIOUS
<1>p. PICK p : p = item.path
  OBVIOUS
<1>0. PICK P : Indexed(P)
  BY DEF BuildInv
<1>1. /\ n \in Nat \ {0} /\ n = Len(item.path) /\ pc = "adding"
      /\ parents \in Seq(Folder) /\ parents' \in Seq(Folder) /\ Len(parents') = n + 1
      /\ \A i \in 1..n : parents'[i].name = parents[i].name
      /\ parents'[n + 1].name = Last(item.path)
      /\ UNCHANGED listing /\ pc' = "reading"
  <2>c. PICK c : c = Counted(item)
    OBVIOUS
  <2>1. /\ n \in Nat \ {0} /\ n = Len(item.path) /\ pc = "adding"
        /\ parents \in Seq(Folder) /\ parents' \in Seq(Folder) /\ Len(parents') = n + 1
        /\ \A i \in 1..n : parents'[i] = c[i]
        /\ \A i \in 1..n : c[i].name = parents[i].name
        /\ UNCHANGED listing /\ pc' = "reading"
    BY <1>n, <2>c, AddFolderStep
  <2>2. \E info : parents'[n + 1] = [name |-> Last(item.path), info |-> info, children |-> <<>>]
    BY <1>n, AddFolderStep
  <2>3. parents'[n + 1].name = Last(item.path)
    BY <2>2
  <2>4. \A i \in 1..n : parents'[i].name = parents[i].name
    BY <2>1
  <2> QED
    BY <2>1, <2>3, <2>4
<1>2. /\ p \in Seq(Names) /\ Len(p) = n /\ Last(p) \in Names
      /\ p = Append(PathTo(f, n), Last(p))
  <2>1. Len(parents) = Kept
    BY DEF AddFolder
  <2> QED
    BY <1>0, <1>1, <1>f, <1>n, <1>p, <2>1, ItemsFolder
<1>3. InOrder(l) /\ Ongoing(f, n, l) /\ l[Len(l)].path = p /\ Len(l) # 0
  BY <1>1, <1>f, <1>l, <1>p DEF ListingInv, StillOpen
<1>4. Ongoing(g, n, l)
  <2>1. /\ f \in Seq(Folder) /\ g \in Seq(Folder) /\ n \in Nat /\ n <= Len(f) /\ n <= Len(g)
        /\ \A i \in 1..n : g[i].name = f[i].name
    BY <1>1, <1>f, <1>g, <1>n
  <2> QED
    BY <1>3, <2>1, OngoingKept
<1>5. PathTo(g, n + 1) = p
  <2>1. FolderNames(f) /\ n \in 1..Len(f) /\ f \in Seq(Folder)
    BY <1>0, <1>1, <1>f, <1>n DEF Indexed, Shape
  <2>2. /\ PathTo(f, n) \in Seq(Names) /\ Len(PathTo(f, n)) = n - 1
        /\ \A k \in 1..n - 1 : PathTo(f, n)[k] = f[k + 1].name
    BY <2>1, PathToType
  <2>3. p[n] = Last(p) /\ \A k \in 1..n - 1 : p[k] = f[k + 1].name
    BY <1>2, <2>2
  <2>4. \A k \in 1..n : p[k] = g[k + 1].name
    <3>1. ASSUME NEW k \in 1..n PROVE p[k] = g[k + 1].name
      <4>1. CASE k = n
        BY <1>1, <1>g, <1>p, <2>3, <4>1
      <4>2. CASE k # n
        <5>1. k \in 1..n - 1 /\ k + 1 \in 1..n
          BY <1>1, <4>2
        <5> QED
          BY <1>1, <1>f, <1>g, <2>3, <5>1
      <4> QED
        BY <4>1, <4>2
    <3> QED
      BY <3>1
  <2>5. p = [k \in 1..n |-> g[k + 1].name]
    BY <1>2, <2>4
  <2>m. PICK m : m = n + 1
    OBVIOUS
  <2>6. m - 1 = n
    BY <1>1, <2>m
  <2>7. PathTo(g, m) = p
    BY <2>5, <2>6 DEF PathTo
  <2> QED
    BY <2>7, <2>m
<1>6. Ongoing(g, n + 1, l)
  <2> SUFFICES ASSUME NEW i \in 1..n + 1, NEW x \in 1..Len(l), l[x].path = PathTo(g, i),
                      NEW y \in x + 1..Len(l)
               PROVE  Under(l[x].path, l[y].path)
    BY DEF Ongoing
  <2>1. CASE i \in 1..n
    BY <1>4, <2>1 DEF Ongoing
  <2>2. CASE i = n + 1
    <3>1. Len(l) \in 1..Len(l)
      OBVIOUS
    <3>2. x = Len(l)
      BY <1>3, <1>5, <2>2, <3>1 DEF InOrder
    <3> QED
      BY <3>2
  <2> QED
    BY <1>1, <2>1, <2>2
<1>7. g = parents' /\ l = listing' /\ n + 1 = StillOpen'
  BY <1>1, <1>g, <1>l DEF StillOpen
<1> QED
  BY <1>1, <1>3, <1>6, <1>7 DEF ListingInv

LEMMA FileListed ==
  ASSUME BuildInv, ListingInv, AddFile
  PROVE  ListingInv'
<1>n. PICK n : n = Len(parents)
  OBVIOUS
<1>f. PICK f : f = parents
  OBVIOUS
<1>g. PICK g : g = parents'
  OBVIOUS
<1>l. PICK l : l = listing
  OBVIOUS
<1>1. /\ n \in Nat \ {0} /\ n = Len(item.path) /\ pc = "adding"
      /\ parents \in Seq(Folder) /\ parents' \in Seq(Folder) /\ Len(parents') = n
      /\ UNCHANGED listing /\ pc' = "reading"
  <2>1. UNCHANGED listing /\ pc' = "reading"
    BY DEF AddFile
  <2> QED
    BY <1>n, <2>1, AddFileStep
<1>2. \A i \in 1..n : g[i].name = f[i].name
  <2>c. PICK c : c = Counted(item)
    OBVIOUS
  <2>1. /\ c \in Seq(Folder) /\ Len(c) = n /\ \A i \in 1..n : c[i].name = f[i].name
        /\ \A i \in 1..n - 1 : g[i] = c[i]
        /\ \E child : g[n] = WithChild(c[n], item, child)
    BY <1>f, <1>g, <1>n, <2>c, AddFileStep
  <2>2. c[n] \in Folder
    BY <1>1, <2>1
  <2>3. g[n].name = c[n].name
    BY <2>1, <2>2 DEF WithChild, Folder
  <2>4. \A i \in 1..n : i \in 1..n - 1 \/ i = n
    BY <1>1
  <2> QED
    BY <2>1, <2>3, <2>4
<1>3. InOrder(l) /\ Ongoing(f, n, l)
  BY <1>1, <1>f, <1>l DEF ListingInv, StillOpen
<1>4. Ongoing(g, n, l)
  BY <1>1, <1>2, <1>3, <1>f, <1>g, <1>n, OngoingKept
<1>5. g = parents' /\ l = listing' /\ n = StillOpen'
  BY <1>1, <1>g, <1>l DEF StillOpen
<1> QED
  BY <1>1, <1>3, <1>4, <1>5 DEF ListingInv

LEMMA ListingKept ==
  ASSUME BuildInv, ListingInv, [BuildNext]_indexVars
  PROVE  ListingInv'
<1>1. ASSUME NEW r \in Records(Paths), Read(r) PROVE ListingInv'
  BY <1>1, TakenListing
<1>2. ASSUME pc' \in {"finishing", "panicked", "built"}, UNCHANGED <<listing, parents, item>>
      PROVE  ListingInv'
  <2>1. PICK f, l : f = parents /\ l = listing /\ InOrder(l)
    BY DEF ListingInv
  <2>2. f = parents' /\ l = listing' /\ 0 = StillOpen'
    BY <1>2, <2>1 DEF StillOpen
  <2>3. Ongoing(f, 0, l)
    BY DEF Ongoing
  <2> QED
    BY <1>2, <2>1, <2>2, <2>3 DEF ListingInv
<1>3. ASSUME NEW r \in Records(Paths), Panic(r) PROVE ListingInv'
  BY <1>2, <1>3 DEF Panic, Refuse
<1>4. CASE EndOfRecords \/ Built
  BY <1>2, <1>4 DEF EndOfRecords, Built
<1>5. CASE UNCHANGED indexVars
  BY <1>5 DEF ListingInv, StillOpen, indexVars
<1> QED
  BY <1>1, <1>3, <1>4, <1>5, FinishedListing, FolderListed, FileListed DEF BuildNext

-------------------------------------------------------------------------------
(* The steps of the builder: f, es and P are the open folders, the index   *)
(* and its paths before the step, g, fs and Q after it.                    *)
ShapeFields(f, es, P) ==
  /\ f \in Seq(Folder) /\ es \in Seq(Entry) /\ P \in Seq(Seq(Names)) /\ Len(P) = Len(es)
  /\ FolderNames(f)

OneStored(es, fs, P, Q, e, p) ==
  /\ Len(fs) = Len(es) + 1 /\ Len(Q) = Len(P) + 1
  /\ \A m \in 1..Len(es) : fs[m] = es[m] /\ Q[m] = P[m]
  /\ fs[Len(es) + 1] = e /\ Q[Len(es) + 1] = p

Finishes(o, f, es, P, g, fs, Q) ==
  LET n == Len(f)
      last == f[n] IN
  /\ n \in Nat \ {0} /\ ShapeFields(f, es, P) /\ ShapeFields(g, fs, Q) /\ Len(g) = n - 1
  /\ \A i \in 1..n - 2 : g[i] = f[i]
  /\ \A i \in 1..n - 1 : PathTo(g, i) = PathTo(f, i) /\ g[i].info.files = f[i].info.files
                         /\ g[i].info.folders = f[i].info.folders
  /\ \E e : /\ OneStored(es, fs, P, Q, e, PathTo(f, n)) /\ e.info = last.info
            /\ e.children = IF o.resort THEN Sorted(last.children) ELSE last.children
  /\ n # 1 =>
       /\ \E child \in Child : /\ child.meta = Len(es) + 1
                               /\ g[n - 1].children = Append(f[n - 1].children, child)
       /\ o.recalculate => g[n - 1].info.size = f[n - 1].info.size + last.info.size

(* Each of the open folders counts the entry that is added. *)
CountedIn(o, f, g, r) ==
  \A i \in 1..Len(f) :
    /\ PathTo(g, i) = PathTo(f, i)
    /\ o.recount => /\ g[i].info.files = f[i].info.files + (IF r.isDir THEN 0 ELSE 1)
                    /\ g[i].info.folders = f[i].info.folders + (IF r.isDir THEN 1 ELSE 0)

Opens(o, f, es, P, g, r) ==
  LET n == Len(f) IN
  /\ n \in Nat \ {0} /\ ShapeFields(f, es, P) /\ g \in Seq(Folder) /\ Len(g) = n + 1
  /\ r.isDir /\ r.path = PathTo(g, n + 1) /\ CountedIn(o, f, g, r)
  /\ \A i \in 1..n : g[i].children = f[i].children /\ g[i].info.size = f[i].info.size
  /\ g[n + 1].children = <<>> /\ g[n + 1].info.files = 0 /\ g[n + 1].info.folders = 0
  /\ o.recalculate => g[n + 1].info.size = 0

Puts(o, f, es, P, g, fs, Q, r) ==
  LET n == Len(f) IN
  /\ n \in Nat \ {0} /\ ShapeFields(f, es, P) /\ ShapeFields(g, fs, Q) /\ Len(g) = n
  /\ ~r.isDir /\ CountedIn(o, f, g, r)
  /\ OneStored(es, fs, P, Q, [info |-> InfoOf(r), children |-> <<>>], r.path)
  /\ \A i \in 1..n - 1 : g[i].children = f[i].children /\ g[i].info.size = f[i].info.size
  /\ \E child \in Child : /\ child.meta = Len(es) + 1
                          /\ g[n].children = Append(f[n].children, child)
  /\ o.recalculate => g[n].info.size = f[n].info.size + r.size

LEMMA CountedFields ==
  ASSUME parents \in Seq(Folder), NEW r \in Records(Paths), NEW i \in 1..Len(parents)
  PROVE  LET c == Counted(r)[i] IN
         /\ Counted(r)[i] \in Folder
         /\ c.name = parents[i].name /\ c.children = parents[i].children
         /\ c.info.isDir = parents[i].info.isDir
         /\ c.info.size = parents[i].info.size
         /\ options.recount =>
              /\ c.info.files = parents[i].info.files + (IF r.isDir THEN 0 ELSE 1)
              /\ c.info.folders = parents[i].info.folders + (IF r.isDir THEN 1 ELSE 0)
<1>f. PICK f : f = parents[i]
  OBVIOUS
<1>1. f \in Folder
  BY <1>f
<1>2. /\ f = [name |-> f.name, info |-> f.info, children |-> f.children]
      /\ f.info \in Info /\ f.info.files \in Nat /\ f.info.folders \in Nat
  BY <1>1, FolderFields
<1>i. PICK j : j = f.info
  OBVIOUS
<1>3. j = [isDir |-> j.isDir, size |-> j.size, files |-> j.files, folders |-> j.folders]
      /\ j.isDir \in BOOLEAN /\ j.size \in Nat /\ j.files \in Nat /\ j.folders \in Nat
  BY <1>2, <1>i DEF Info
<1>4. r.isDir \in BOOLEAN
  BY RecordFields
<1>5. CASE ~options.recount
  BY <1>1, <1>5, <1>f DEF Counted
<1>6. CASE options.recount /\ r.isDir
  <2>k. PICK k : k = [j EXCEPT !.folders = @ + 1]
    OBVIOUS
  <2>1. /\ k \in Info /\ k.isDir = j.isDir /\ k.size = j.size /\ k.files = j.files
        /\ k.folders = j.folders + 1
    BY <1>3, <2>k DEF Info
  <2>g. PICK g : g = [f EXCEPT !.info = k]
    OBVIOUS
  <2>2. Counted(r)[i] = g
    <3>1. Counted(r)[i] = [parents[i] EXCEPT !.info.folders = @ + 1]
      <4>1. r.isDir = TRUE
        BY <1>4, <1>6
      <4>2. DOMAIN parents = 1..Len(parents)
        OBVIOUS
      <4> QED
        BY <1>6, <4>1, <4>2 DEF Counted
    <3>2. [f EXCEPT !.info.folders = @ + 1] = g
      BY <1>i, <2>k, <2>g
    <3> QED
      BY <1>f, <3>1, <3>2
  <2>3. g \in Folder /\ g.name = f.name /\ g.children = f.children /\ g.info = k
    BY <1>1, <2>1, <2>g DEF Folder
  <2>4. j.files + 0 = j.files
    BY <1>3
  <2> QED
    BY <1>6, <1>f, <1>i, <2>1, <2>2, <2>3, <2>4
<1>7. CASE options.recount /\ ~r.isDir
  <2>k. PICK k : k = [j EXCEPT !.files = @ + 1]
    OBVIOUS
  <2>1. /\ k \in Info /\ k.isDir = j.isDir /\ k.size = j.size /\ k.folders = j.folders
        /\ k.files = j.files + 1
    BY <1>3, <2>k DEF Info
  <2>g. PICK g : g = [f EXCEPT !.info = k]
    OBVIOUS
  <2>2. Counted(r)[i] = g
    <3>1. Counted(r)[i] = [parents[i] EXCEPT !.info.files = @ + 1]
      BY <1>7 DEF Counted
    <3>2. [f EXCEPT !.info.files = @ + 1] = g
      BY <1>i, <2>k, <2>g
    <3> QED
      BY <1>f, <3>1, <3>2
  <2>3. g \in Folder /\ g.name = f.name /\ g.children = f.children /\ g.info = k
    BY <1>1, <2>1, <2>g DEF Folder
  <2>4. j.folders + 0 = j.folders
    BY <1>3
  <2> QED
    BY <1>7, <1>f, <1>i, <2>1, <2>2, <2>3, <2>4
<1> QED
  BY <1>4, <1>5, <1>6, <1>7

LEMMA OneStoredIs ==
  ASSUME NEW es \in Seq(Entry), NEW P \in Seq(Seq(Names)), Len(P) = Len(es),
         NEW e \in Entry, NEW p \in Seq(Names)
  PROVE  OneStored(es, Append(es, e), P, Append(P, p), e, p)
<1>fs. PICK fs : fs = Append(es, e)
  OBVIOUS
<1>Q. PICK Q : Q = Append(P, p)
  OBVIOUS
<1>1. Len(fs) = Len(es) + 1 /\ fs[Len(es) + 1] = e /\ \A m \in 1..Len(es) : fs[m] = es[m]
  BY <1>fs
<1>2. Len(Q) = Len(P) + 1 /\ Q[Len(P) + 1] = p /\ \A m \in 1..Len(P) : Q[m] = P[m]
  BY <1>Q
<1> QED
  BY <1>1, <1>2, <1>fs, <1>Q DEF OneStored

LEMMA FinishIs ==
  ASSUME BuildInv, FinishFolder, NEW P, Indexed(P)
  PROVE  \E Q : /\ Indexed(Q)'
                /\ Finishes(options, parents, entries, P, parents', entries', Q)
<1>1. PICK Q : Q = Append(P, PathTo(parents, Len(parents))) /\ Indexed(Q)'
  BY FolderFinished
<1>o. PICK o : o = options
  OBVIOUS
<1>f. PICK f : f = parents
  OBVIOUS
<1>g. PICK g : g = parents'
  OBVIOUS
<1>es. PICK es : es = entries
  OBVIOUS
<1>fs. PICK fs : fs = entries'
  OBVIOUS
<1>n. PICK n : n = Len(f)
  OBVIOUS
<1>2. ShapeFields(f, es, P) /\ ShapeFields(g, fs, Q)
  <2>1. ShapeFields(f, es, P)
    BY <1>f, <1>es DEF Indexed, Shape, ShapeFields
  <2>2. Shape(g, fs, Q, Unset)
    BY <1>1, <1>g, <1>fs DEF Indexed
  <2> QED
    BY <2>1, <2>2 DEF Shape, ShapeFields
<1>c. PICK children : children = IF o.resort THEN Sorted(f[n].children) ELSE f[n].children
  OBVIOUS
<1>e. PICK e : e = [info |-> f[n].info, children |-> children]
  OBVIOUS
<1>3. /\ n \in Nat \ {0} /\ fs = Append(es, e) /\ e \in Entry /\ Len(g) = n - 1
      /\ \A i \in 1..n - 2 : g[i] = f[i]
  BY <1>o, <1>f, <1>g, <1>es, <1>fs, <1>n, <1>c, <1>e, FinishStep
<1>child. PICK child : child = ChildAt(f[n].name, TRUE, Len(es) + 1)
  OBVIOUS
<1>4. n # 1 => child \in Child /\ g[n - 1] = WithChild(f[n - 1], f[n].info, child)
  BY <1>f, <1>g, <1>es, <1>n, <1>child, FinishStep
<1>5. e.info = f[n].info /\ e.children = children
  BY <1>e
<1>6. PathTo(f, n) \in Seq(Names)
  BY <1>2, <1>3, <1>n, PathToType DEF ShapeFields
<1>7. OneStored(es, fs, P, Q, e, PathTo(f, n))
  BY <1>1, <1>2, <1>3, <1>6, <1>f, <1>n, OneStoredIs DEF ShapeFields
<1>8. ASSUME n # 1
      PROVE  /\ child.meta = Len(es) + 1
             /\ g[n - 1].children = Append(f[n - 1].children, child)
             /\ g[n - 1].name = f[n - 1].name
             /\ g[n - 1].info.files = f[n - 1].info.files
             /\ g[n - 1].info.folders = f[n - 1].info.folders
             /\ o.recalculate => g[n - 1].info.size = f[n - 1].info.size + f[n].info.size
  <2>1. f[n - 1] \in Folder /\ f[n] \in Folder
    BY <1>2, <1>3, <1>8, <1>n DEF ShapeFields
  <2>a. PICK a : a = f[n - 1]
    OBVIOUS
  <2>i. PICK i : i = Enlarged(a.info, f[n].info)
    OBVIOUS
  <2>2. g[n - 1] = [[a EXCEPT !.info = i] EXCEPT !.children = Append(a.children, child)]
    <3>1. a \in Folder
      BY <2>1, <2>a
    <3> QED
      BY <1>4, <1>8, <2>a, <2>i, <3>1 DEF WithChild, Folder
  <2>3. /\ g[n - 1].children = Append(a.children, child) /\ g[n - 1].name = a.name
        /\ g[n - 1].info = i
    <3>1. a \in Folder
      BY <2>1, <2>a
    <3> QED
      BY <2>2, <3>1 DEF Folder
  <2>4. a.info \in Info
    BY <2>1, <2>a, FolderFields
  <2>5. /\ i.files = a.info.files /\ i.folders = a.info.folders
        /\ o.recalculate => i.size = a.info.size + f[n].info.size
    BY <2>4, <2>i, <1>o DEF Enlarged, Info
  <2>6. child.meta = Len(es) + 1
    BY <1>child DEF ChildAt
  <2> QED
    BY <2>3, <2>5, <2>6, <2>a
<1>9. ASSUME NEW i \in 1..n - 1
      PROVE  /\ PathTo(g, i) = PathTo(f, i) /\ g[i].info.files = f[i].info.files
             /\ g[i].info.folders = f[i].info.folders
  <2>1. ASSUME NEW j \in 1..n - 1
        PROVE  /\ g[j].name = f[j].name /\ g[j].info.files = f[j].info.files
               /\ g[j].info.folders = f[j].info.folders
    <3>1. CASE j \in 1..n - 2
      BY <1>3, <3>1
    <3>2. CASE j = n - 1 /\ n # 1
      BY <1>8, <3>2
    <3> QED
      BY <1>3, <3>1, <3>2
  <2>2. /\ f \in Seq(Folder) /\ g \in Seq(Folder) /\ i \in 1..Len(f)
        /\ \A k \in 2..i : g[k].name = f[k].name
    <3>1. f \in Seq(Folder) /\ g \in Seq(Folder)
      BY <1>2 DEF ShapeFields
    <3>2. i \in 1..Len(f)
      BY <1>3, <1>n
    <3>3. \A k \in 2..i : k \in 1..n - 1
      BY <1>3
    <3> QED
      BY <2>1, <3>1, <3>2, <3>3
  <2>3. PathTo(g, i) = PathTo(f, i)
    BY <2>2, SamePathTo
  <2> QED
    BY <2>1, <2>3
<1>10. Finishes(o, f, es, P, g, fs, Q)
  BY <1>2, <1>3, <1>4, <1>5, <1>7, <1>8, <1>9, <1>c, <1>n DEF Finishes
<1> QED
  BY <1>1, <1>10, <1>o, <1>f, <1>g, <1>es, <1>fs

LEMMA CountedInIs ==
  ASSUME NEW P, Indexed(P), NEW r \in Records(Paths), NEW g \in Seq(Folder),
         Len(g) >= Len(parents),
         \A i \in 1..Len(parents) : /\ g[i].name = Counted(r)[i].name
                                    /\ g[i].info.files = Counted(r)[i].info.files
                                    /\ g[i].info.folders = Counted(r)[i].info.folders
  PROVE  CountedIn(options, parents, g, r)
<1>1. parents \in Seq(Folder)
  BY DEF Indexed, Shape
<1>2. ASSUME NEW i \in 1..Len(parents) PROVE PathTo(g, i) = PathTo(parents, i)
  <2>1. \A k \in 2..i : k \in 1..Len(parents)
    BY <1>1
  <2>2. \A k \in 2..i : g[k].name = parents[k].name
    BY <1>1, <2>1, CountedFields
  <2> QED
    BY <1>1, <2>2, SamePathTo
<1>3. ASSUME NEW i \in 1..Len(parents), options.recount
      PROVE  /\ g[i].info.files = parents[i].info.files + (IF r.isDir THEN 0 ELSE 1)
             /\ g[i].info.folders = parents[i].info.folders + (IF r.isDir THEN 1 ELSE 0)
  <2>c. PICK c : c = Counted(r)[i]
    OBVIOUS
  <2>1. /\ c.info.files = parents[i].info.files + (IF r.isDir THEN 0 ELSE 1)
        /\ c.info.folders = parents[i].info.folders + (IF r.isDir THEN 1 ELSE 0)
    BY <1>1, <1>3, <2>c, CountedFields
  <2>2. g[i].info.files = c.info.files /\ g[i].info.folders = c.info.folders
    BY <2>c
  <2> QED
    BY <2>1, <2>2
<1> QED
  BY <1>2, <1>3 DEF CountedIn

LEMMA OpenIs ==
  ASSUME BuildInv, AddFolder, NEW P, Indexed(P)
  PROVE  Opens(options, parents, entries, P, parents', item)
<1>o. PICK o : o = options
  OBVIOUS
<1>f. PICK f : f = parents
  OBVIOUS
<1>g. PICK g : g = parents'
  OBVIOUS
<1>es. PICK es : es = entries
  OBVIOUS
<1>r. PICK r : r = item
  OBVIOUS
<1>c. PICK c : c = Counted(r)
  OBVIOUS
<1>n. PICK n : n = Len(f)
  OBVIOUS
<1>new. PICK new : new = [name |-> Last(r.path), info |-> WithoutSize(WithoutCounts(InfoOf(r))),
                         children |-> <<>>]
  OBVIOUS
<1>1. ShapeFields(f, es, P)
  BY <1>f, <1>es DEF Indexed, Shape, ShapeFields
<1>2. /\ n \in Nat \ {0} /\ n = Len(r.path) /\ pc = "adding" /\ r.isDir
      /\ f \in Seq(Folder) /\ g \in Seq(Folder) /\ Len(g) = n + 1
      /\ \A i \in 1..n : g[i] = c[i]
      /\ g[n + 1] = new
      /\ UNCHANGED <<options, listing, entries, rootMeta>>
  BY <1>f, <1>g, <1>n, <1>r, <1>c, <1>new, AddFolderStep
<1>3. /\ r \in Records(Paths) /\ r.path \in Seq(Names) /\ Len(r.path) = n
      /\ r.path = Append(PathTo(f, n), Last(r.path)) /\ Last(r.path) \in Names
  <2>1. Len(parents) = Kept
    BY DEF AddFolder
  <2> QED
    BY <1>2, <1>f, <1>n, <1>r, <2>1, ItemsFolder
<1>4. ASSUME NEW i \in 1..n
      PROVE  /\ g[i].name = f[i].name /\ g[i].children = f[i].children
             /\ g[i].info.size = f[i].info.size
  <2>1. /\ c[i].name = f[i].name /\ c[i].children = f[i].children
        /\ c[i].info.size = f[i].info.size
    BY <1>2, <1>3, <1>f, <1>c, <1>n, CountedFields
  <2> QED
    BY <1>2, <2>1
<1>5. CountedIn(o, f, g, r)
  <2>1. Len(g) >= Len(parents) /\ \A i \in 1..Len(parents) : g[i] = Counted(r)[i]
    BY <1>2, <1>c, <1>f, <1>n
  <2> QED
    BY <1>2, <1>3, <1>o, <1>f, <2>1, CountedInIs
<1>6. /\ g[n + 1].children = <<>> /\ g[n + 1].name = Last(r.path)
      /\ g[n + 1].info.files = 0 /\ g[n + 1].info.folders = 0
      /\ o.recalculate => g[n + 1].info.size = 0
  <2>i. PICK i : i = InfoOf(r)
    OBVIOUS
  <2>j. PICK j : j = WithoutCounts(i)
    OBVIOUS
  <2>k. PICK k : k = WithoutSize(j)
    OBVIOUS
  <2>1. i \in Info /\ i.isDir
    BY <1>2, <1>3, <2>i, RecordFields
  <2>2. j \in Info /\ j.isDir /\ j.files = 0 /\ j.folders = 0
    BY <2>1, <2>j DEF WithoutCounts, Info
  <2>3. /\ k.files = 0 /\ k.folders = 0
        /\ o.recalculate => k.size = 0
    BY <2>2, <2>k, <1>o DEF WithoutSize, Info
  <2>4. new.info = k /\ new.children = <<>> /\ new.name = Last(r.path)
    BY <1>new, <2>i, <2>j, <2>k
  <2> QED
    BY <1>2, <2>3, <2>4
<1>7. r.path = PathTo(g, n + 1)
  <2>1. FolderNames(f) /\ n \in 1..Len(f) /\ f \in Seq(Folder)
    BY <1>1, <1>2, <1>n DEF ShapeFields
  <2>p. PICK p : p = r.path
    OBVIOUS
  <2>2. /\ PathTo(f, n) \in Seq(Names) /\ Len(PathTo(f, n)) = n - 1
        /\ \A k \in 1..n - 1 : PathTo(f, n)[k] = f[k + 1].name
    BY <2>1, PathToType
  <2>3. p[n] = Last(p) /\ \A k \in 1..n - 1 : p[k] = f[k + 1].name
    <3>t. PICK t : t = PathTo(f, n)
      OBVIOUS
    <3>x. PICK x : x = Last(p)
      OBVIOUS
    <3>1. p = Append(t, x) /\ t \in Seq(Names) /\ Len(t) = n - 1 /\ x \in Names
      BY <1>3, <2>p, <2>2, <3>t, <3>x
    <3>2. p[n] = x /\ \A k \in 1..n - 1 : p[k] = t[k]
      BY <1>2, <3>1
    <3> QED
      BY <2>2, <3>2, <3>t, <3>x
  <2>4. ASSUME NEW k \in 1..n PROVE p[k] = g[k + 1].name
    <3>1. CASE k = n
      BY <1>6, <2>p, <2>3, <3>1
    <3>2. CASE k # n
      <4>1. k \in 1..n - 1 /\ k + 1 \in 1..n
        BY <1>2, <3>2
      <4> QED
        BY <1>4, <2>3, <4>1
    <3> QED
      BY <3>1, <3>2
  <2>5. p = [k \in 1..n |-> g[k + 1].name]
    <3>1. p \in Seq(Names) /\ Len(p) = n
      BY <1>2, <1>3, <2>p
    <3> QED
      BY <2>4, <3>1
  <2>m. PICK m : m = n + 1
    OBVIOUS
  <2>6. m - 1 = n
    BY <1>2, <2>m
  <2>7. PathTo(g, m) = p
    BY <2>5, <2>6 DEF PathTo
  <2> QED
    BY <2>7, <2>m, <2>p
<1>8. Opens(o, f, es, P, g, r)
  BY <1>1, <1>2, <1>4, <1>5, <1>6, <1>7, <1>n DEF Opens
<1> QED
  BY <1>8, <1>o, <1>f, <1>g, <1>es, <1>r

LEMMA PutIs ==
  ASSUME BuildInv, AddFile, NEW P, Indexed(P)
  PROVE  \E Q : /\ Indexed(Q)'
                /\ Puts(options, parents, entries, P, parents', entries', Q, item)
<1>1. PICK Q : Q = Append(P, item.path) /\ Indexed(Q)'
  BY FileAdded
<1>o. PICK o : o = options
  OBVIOUS
<1>f. PICK f : f = parents
  OBVIOUS
<1>g. PICK g : g = parents'
  OBVIOUS
<1>es. PICK es : es = entries
  OBVIOUS
<1>fs. PICK fs : fs = entries'
  OBVIOUS
<1>r. PICK r : r = item
  OBVIOUS
<1>c. PICK c : c = Counted(r)
  OBVIOUS
<1>n. PICK n : n = Len(f)
  OBVIOUS
<1>e. PICK e : e = [info |-> InfoOf(r), children |-> <<>>]
  OBVIOUS
<1>child. PICK child : child = ChildAt(Last(r.path), FALSE, Len(es) + 1)
  OBVIOUS
<1>2. ShapeFields(f, es, P) /\ ShapeFields(g, fs, Q)
  <2>1. ShapeFields(f, es, P)
    BY <1>f, <1>es DEF Indexed, Shape, ShapeFields
  <2>2. Shape(g, fs, Q, Unset)
    BY <1>1, <1>g, <1>fs DEF Indexed
  <2> QED
    BY <2>1, <2>2 DEF Shape, ShapeFields
<1>3. /\ n \in Nat \ {0} /\ n = Len(r.path) /\ pc = "adding" /\ ~r.isDir
      /\ fs = Append(es, e) /\ e \in Entry /\ child \in Child /\ Len(g) = n
  BY <1>f, <1>g, <1>es, <1>fs, <1>n, <1>r, <1>e, <1>child, AddFileStep
<1>4. /\ \A i \in 1..n - 1 : g[i] = c[i]
      /\ g[n] = WithChild(c[n], r, child)
      /\ c \in Seq(Folder) /\ Len(c) = n
  BY <1>f, <1>g, <1>es, <1>n, <1>r, <1>c, <1>child, AddFileStep
<1>5. /\ r \in Records(Paths) /\ r.path \in Seq(Names)
  <2>1. Len(parents) = Kept
    BY DEF AddFile
  <2> QED
    BY <1>3, <1>r, <2>1, ItemsFolder
<1>6. ASSUME NEW i \in 1..n
      PROVE  /\ c[i].name = f[i].name /\ c[i].children = f[i].children
             /\ c[i].info.size = f[i].info.size
  <2>1. f \in Seq(Folder)
    BY <1>2 DEF ShapeFields
  <2> QED
    BY <1>5, <1>f, <1>c, <1>n, <2>1, CountedFields
<1>7. /\ g[n].children = Append(c[n].children, child) /\ g[n].name = c[n].name
      /\ g[n].info.files = c[n].info.files /\ g[n].info.folders = c[n].info.folders
      /\ o.recalculate => g[n].info.size = c[n].info.size + r.size
  <2>a. PICK a : a = c[n]
    OBVIOUS
  <2>i. PICK i : i = Enlarged(a.info, r)
    OBVIOUS
  <2>1. a \in Folder
    BY <1>3, <1>4, <2>a
  <2>2. g[n] = [[a EXCEPT !.info = i] EXCEPT !.children = Append(a.children, child)]
    BY <1>4, <2>a, <2>i, <2>1 DEF WithChild, Folder
  <2>3. /\ g[n].children = Append(a.children, child) /\ g[n].name = a.name
        /\ g[n].info = i
    BY <2>1, <2>2 DEF Folder
  <2>4. a.info \in Info
    BY <2>1, FolderFields
  <2>5. /\ i.files = a.info.files /\ i.folders = a.info.folders
        /\ o.recalculate => i.size = a.info.size + r.size
    BY <2>4, <2>i, <1>o DEF Enlarged, Info
  <2> QED
    BY <2>3, <2>5, <2>a
<1>8. CountedIn(o, f, g, r)
  <2>1. \A i \in 1..n : i \in 1..n - 1 \/ i = n
    BY <1>3
  <2>2. \A i \in 1..n : /\ g[i].name = c[i].name /\ g[i].info.files = c[i].info.files
                        /\ g[i].info.folders = c[i].info.folders
    BY <1>4, <1>7, <2>1
  <2>3. g \in Seq(Folder)
    BY <1>2 DEF ShapeFields
  <2>4. Len(g) >= Len(parents)
    BY <1>3, <1>f, <1>n
  <2> QED
    BY <1>5, <1>c, <1>f, <1>n, <1>o, <2>2, <2>3, <2>4, CountedInIs
<1>9. OneStored(es, fs, P, Q, e, r.path)
  BY <1>1, <1>2, <1>3, <1>5, <1>r, OneStoredIs DEF ShapeFields
<1>10. \A i \in 1..n - 1 : g[i].children = f[i].children /\ g[i].info.size = f[i].info.size
  <2>1. \A i \in 1..n - 1 : i \in 1..n
    BY <1>3
  <2> QED
    BY <1>4, <1>6, <2>1
<1>11. /\ child.meta = Len(es) + 1 /\ g[n].children = Append(f[n].children, child)
       /\ o.recalculate => g[n].info.size = f[n].info.size + r.size
  <2>1. child.meta = Len(es) + 1
    BY <1>child DEF ChildAt
  <2>2. n \in 1..n
    BY <1>3
  <2> QED
    BY <1>6, <1>7, <2>1, <2>2
<1>12. Puts(o, f, es, P, g, fs, Q, r)
  BY <1>2, <1>3, <1>8, <1>9, <1>10, <1>11, <1>e, <1>n DEF Puts
<1> QED
  BY <1>1, <1>12, <1>o, <1>f, <1>g, <1>es, <1>fs, <1>r

-------------------------------------------------------------------------------
(* What the index keeps of the listing: the size of each file,             *)
FilesSized(es, P, l) ==
  \A m \in 1..Len(es) : ~es[m].info.isDir =>
    \E k \in 1..Len(l) : /\ l[k].path = P[m] /\ ~l[k].isDir
                         /\ l[k].size = es[m].info.size

(* and an order of the children, the one asked for or that of the listing. *)
ComesBefore(p, q, l) ==
  \A x, y \in 1..Len(l) : l[x].path = p /\ l[y].path = q => x < y
AsListed(cs, P, l) ==
  \A j, k \in 1..Len(cs) : j < k => ComesBefore(P[cs[j].meta], P[cs[k].meta], l)
AsSorted(cs) ==
  \A j, k \in 1..Len(cs) : j < k => ~Precedes(cs[k], cs[j])

ChildrenIn(es, cs) == cs \in Seq(Child) /\ \A k \in 1..Len(cs) : cs[k].meta \in 1..Len(es)
AllStored(f, es) ==
  /\ \A i \in 1..Len(f) : ChildrenIn(es, f[i].children)
  /\ \A m \in 1..Len(es) : ChildrenIn(es, es[m].children)

Arranged(o, f, es, P, l) ==
  IF o.resort THEN \A m \in 1..Len(es) : AsSorted(es[m].children)
  ELSE /\ \A m \in 1..Len(es) : AsListed(es[m].children, P, l)
       /\ \A i \in 1..Len(f) : AsListed(f[i].children, P, l)
       /\ \A i \in 1..Len(f) - 1 : \A j \in 1..Len(f[i].children) :
            ComesBefore(P[f[i].children[j].meta], PathTo(f, i + 1), l)

LEMMA ChildrenAreStored ==
  ASSUME NEW f, NEW es, NEW P, NEW new, Shape(f, es, P, new)
  PROVE  AllStored(f, es)
<1>1. ASSUME NEW i \in 1..Len(f) PROVE ChildrenIn(es, f[i].children)
  <2>1. f[i] \in Folder
    BY DEF Shape
  <2>2. f[i].children \in Seq(Child)
    BY <2>1, FolderFields
  <2>3. Attached(es, P, PathTo(f, i), f[i].children)
    BY DEF Shape, FoldersAttached
  <2> QED
    BY <2>2, <2>3 DEF Attached, AttachedChild, ChildrenIn
<1>2. ASSUME NEW m \in 1..Len(es) PROVE ChildrenIn(es, es[m].children)
  <2>1. es[m] \in Entry
    BY DEF Shape
  <2>2. es[m].children \in Seq(Child)
    BY <2>1, EntryFields
  <2>3. Attached(es, P, P[m], es[m].children)
    BY DEF Shape, EntriesAttached
  <2> QED
    BY <2>2, <2>3 DEF Attached, AttachedChild, ChildrenIn
<1> QED
  BY <1>1, <1>2 DEF AllStored

LEMMA SortedIsSorted ==
  ASSUME NEW s \in Seq(Child)
  PROVE  AsSorted(Sorted(s))
<1>1. PICK from \in [1..Len(s) -> 1..Len(s)] :
        /\ \A k \in 1..Len(s) : Sorted(s)[k] = s[from[k]]
        /\ \A k, l \in 1..Len(s) : k < l => ~Precedes(s[from[l]], s[from[k]])
  BY SortedFrom
<1>2. Len(Sorted(s)) = Len(s)
  BY SortedMoves
<1> QED
  BY <1>1, <1>2 DEF AsSorted

(* Paths that were listed before stay in their order.                      *)
LEMMA StillBefore ==
  ASSUME NEW S, NEW l \in Seq(S), NEW r \in S, NEW p, NEW q, p # r.path, q # r.path,
         ComesBefore(p, q, l)
  PROVE  ComesBefore(p, q, Append(l, r))
<1>m. PICK m : m = Append(l, r)
  OBVIOUS
<1>1. Len(m) = Len(l) + 1 /\ m[Len(l) + 1] = r /\ \A k \in 1..Len(l) : m[k] = l[k]
      /\ Len(l) \in Nat
  BY <1>m
<1> SUFFICES ASSUME NEW x \in 1..Len(m), NEW y \in 1..Len(m), m[x].path = p, m[y].path = q
             PROVE  x < y
  BY <1>m DEF ComesBefore
<1>2. x \in 1..Len(l) /\ y \in 1..Len(l)
  BY <1>1
<1> QED
  BY <1>1, <1>2 DEF ComesBefore

(* The last that was listed comes after the others.                        *)
LEMMA LastListed ==
  ASSUME NEW l, InOrder(l), Len(l) \in Nat, NEW p, p # l[Len(l)].path
  PROVE  ComesBefore(p, l[Len(l)].path, l)
<1> SUFFICES ASSUME NEW x \in 1..Len(l), NEW y \in 1..Len(l), l[x].path = p,
                    l[y].path = l[Len(l)].path
             PROVE  x < y
  BY DEF ComesBefore
<1>1. y = Len(l)
  <2>1. Len(l) \in 1..Len(l)
    OBVIOUS
  <2> QED
    BY <2>1 DEF InOrder
<1>2. x # Len(l)
  OBVIOUS
<1> QED
  BY <1>1, <1>2

LEMMA OneMoreAsListed ==
  ASSUME NEW es, NEW P, NEW Q, NEW l, NEW cs, ChildrenIn(es, cs), AsListed(cs, P, l),
         NEW n, \A m \in 1..Len(es) : Q[m] = P[m],
         NEW child \in Child, child.meta = n,
         \A j \in 1..Len(cs) : ComesBefore(P[cs[j].meta], Q[n], l)
  PROVE  AsListed(Append(cs, child), Q, l)
<1>ds. PICK ds : ds = Append(cs, child)
  OBVIOUS
<1>1. /\ Len(ds) = Len(cs) + 1 /\ ds[Len(cs) + 1] = child /\ Len(cs) \in Nat
      /\ \A k \in 1..Len(cs) : ds[k] = cs[k]
  BY <1>ds DEF ChildrenIn
<1> SUFFICES ASSUME NEW j \in 1..Len(ds), NEW k \in 1..Len(ds), j < k
             PROVE  ComesBefore(Q[ds[j].meta], Q[ds[k].meta], l)
  BY <1>ds DEF AsListed
<1>2. j \in 1..Len(cs)
  BY <1>1
<1>3. ds[j] = cs[j] /\ Q[ds[j].meta] = P[cs[j].meta]
  BY <1>1, <1>2 DEF ChildrenIn
<1>4. CASE k = Len(cs) + 1
  BY <1>1, <1>2, <1>3, <1>4
<1>5. CASE k \in 1..Len(cs)
  <2>1. ds[k] = cs[k] /\ Q[ds[k].meta] = P[cs[k].meta]
    BY <1>1, <1>5 DEF ChildrenIn
  <2> QED
    BY <1>2, <1>3, <1>5, <2>1 DEF AsListed
<1> QED
  BY <1>1, <1>4, <1>5

LEMMA StillAsListed ==
  ASSUME NEW es, NEW P, NEW Q, NEW l, NEW cs, ChildrenIn(es, cs), AsListed(cs, P, l),
         \A m \in 1..Len(es) : Q[m] = P[m]
  PROVE  AsListed(cs, Q, l)
BY DEF ChildrenIn, AsListed

LEMMA FinishArranges ==
  ASSUME NEW o, NEW f, NEW es, NEW P, NEW g, NEW fs, NEW Q, NEW l,
         Finishes(o, f, es, P, g, fs, Q), AllStored(f, es), Arranged(o, f, es, P, l)
  PROVE  Arranged(o, g, fs, Q, l)
<1>n. PICK n : n = Len(f)
  OBVIOUS
<1>w. PICK w : w = Len(es)
  OBVIOUS
<1>1. /\ n \in Nat \ {0} /\ Len(g) = n - 1 /\ Len(fs) = w + 1 /\ w \in Nat
      /\ \A i \in 1..n - 2 : g[i] = f[i]
      /\ \A i \in 1..n - 1 : PathTo(g, i) = PathTo(f, i)
      /\ \A m \in 1..w : fs[m] = es[m] /\ Q[m] = P[m]
      /\ Q[w + 1] = PathTo(f, n)
      /\ fs[w + 1].children = IF o.resort THEN Sorted(f[n].children) ELSE f[n].children
  BY <1>n, <1>w DEF Finishes, OneStored, ShapeFields
<1>2. ChildrenIn(es, f[n].children)
  BY <1>1, <1>n DEF AllStored
<1>3. CASE o.resort
  <2>1. AsSorted(fs[w + 1].children)
    BY <1>1, <1>2, <1>3, SortedIsSorted DEF ChildrenIn
  <2>2. \A m \in 1..w : AsSorted(fs[m].children)
    BY <1>1, <1>3, <1>w DEF Arranged
  <2>3. \A m \in 1..Len(fs) : m \in 1..w \/ m = w + 1
    BY <1>1
  <2> QED
    BY <1>3, <2>1, <2>2, <2>3 DEF Arranged
<1>4. CASE ~o.resort
  <2>1. /\ \A m \in 1..w : AsListed(es[m].children, P, l)
        /\ \A i \in 1..n : AsListed(f[i].children, P, l)
        /\ \A i \in 1..n - 1 : \A j \in 1..Len(f[i].children) :
             ComesBefore(P[f[i].children[j].meta], PathTo(f, i + 1), l)
    BY <1>4, <1>n, <1>w DEF Arranged
  <2>2. ASSUME NEW m \in 1..Len(fs) PROVE AsListed(fs[m].children, Q, l)
    <3>1. CASE m \in 1..w
      <4>1. ChildrenIn(es, es[m].children)
        BY <1>w, <3>1 DEF AllStored
      <4> QED
        BY <1>1, <1>w, <2>1, <3>1, <4>1, StillAsListed
    <3>2. CASE m = w + 1
      <4>1. fs[m].children = f[n].children /\ n \in 1..n
        BY <1>1, <1>4, <3>2
      <4> QED
        BY <1>1, <1>2, <1>w, <2>1, <4>1, StillAsListed
    <3> QED
      BY <1>1, <3>1, <3>2
  <2>3. ASSUME NEW i \in 1..n - 2
        PROVE  /\ AsListed(g[i].children, Q, l)
               /\ \A j \in 1..Len(g[i].children) :
                    ComesBefore(Q[g[i].children[j].meta], PathTo(g, i + 1), l)
    <3>1. i \in 1..n /\ i \in 1..n - 1 /\ i + 1 \in 1..n - 1
      BY <1>1
    <3>2. ChildrenIn(es, f[i].children) /\ g[i] = f[i] /\ PathTo(g, i + 1) = PathTo(f, i + 1)
      BY <1>1, <1>n, <3>1 DEF AllStored
    <3>3. AsListed(g[i].children, Q, l)
      BY <1>1, <1>w, <2>1, <3>1, <3>2, StillAsListed
    <3>4. ASSUME NEW j \in 1..Len(g[i].children)
          PROVE  ComesBefore(Q[g[i].children[j].meta], PathTo(g, i + 1), l)
      <4>1. Q[g[i].children[j].meta] = P[f[i].children[j].meta]
        BY <1>1, <1>w, <3>2 DEF ChildrenIn
      <4> QED
        BY <2>1, <3>1, <3>2, <4>1
    <3> QED
      BY <3>3, <3>4
  <2>4. ASSUME n # 1 PROVE AsListed(g[n - 1].children, Q, l)
    <3>1. PICK child \in Child : /\ child.meta = w + 1
                                 /\ g[n - 1].children = Append(f[n - 1].children, child)
      BY <1>n, <1>w, <2>4 DEF Finishes
    <3>2. n - 1 \in 1..n /\ n - 1 \in 1..n - 1 /\ n - 1 + 1 = n
      BY <1>1, <2>4
    <3>3. ChildrenIn(es, f[n - 1].children) /\ AsListed(f[n - 1].children, P, l)
      BY <1>n, <2>1, <3>2 DEF AllStored
    <3>4. \A j \in 1..Len(f[n - 1].children) :
            ComesBefore(P[f[n - 1].children[j].meta], Q[w + 1], l)
      BY <1>1, <2>1, <3>2
    <3>cs. PICK cs : cs = f[n - 1].children
      OBVIOUS
    <3>new. PICK new : new = w + 1
      OBVIOUS
    <3>5. /\ ChildrenIn(es, cs) /\ AsListed(cs, P, l) /\ child.meta = new
          /\ \A m \in 1..Len(es) : Q[m] = P[m]
          /\ \A j \in 1..Len(cs) : ComesBefore(P[cs[j].meta], Q[new], l)
      BY <1>1, <1>w, <3>1, <3>3, <3>4, <3>cs, <3>new
    <3>6. AsListed(Append(cs, child), Q, l)
      BY <3>5, OneMoreAsListed
    <3> QED
      BY <3>1, <3>6, <3>cs
  <2>5. \A i \in 1..Len(g) : i \in 1..n - 2 \/ (i = n - 1 /\ n # 1)
    BY <1>1
  <2>6. \A i \in 1..Len(g) - 1 : i \in 1..n - 2
    BY <1>1
  <2> QED
    BY <1>4, <2>2, <2>3, <2>4, <2>5, <2>6 DEF Arranged
<1> QED
  BY <1>3, <1>4

(* No entry and no open folder has the path of the item yet.               *)
NewPath(p, f, es, P) ==
  /\ \A m \in 1..Len(es) : P[m] # p
  /\ \A i \in 1..Len(f) : PathTo(f, i) # p

LEMMA OpenArranges ==
  ASSUME NEW o, NEW f, NEW es, NEW P, NEW g, NEW r, NEW l,
         Opens(o, f, es, P, g, r), AllStored(f, es), Arranged(o, f, es, P, l),
         InOrder(l), Len(l) \in Nat, l[Len(l)] = r, NewPath(r.path, f, es, P)
  PROVE  Arranged(o, g, es, P, l)
<1>n. PICK n : n = Len(f)
  OBVIOUS
<1>1. /\ n \in Nat \ {0} /\ Len(g) = n + 1 /\ r.path = PathTo(g, n + 1)
      /\ \A i \in 1..n : PathTo(g, i) = PathTo(f, i) /\ g[i].children = f[i].children
      /\ g[n + 1].children = <<>>
  BY <1>n DEF Opens, CountedIn
<1>2. CASE o.resort
  BY <1>2 DEF Arranged
<1>3. CASE ~o.resort
  <2>1. /\ \A m \in 1..Len(es) : AsListed(es[m].children, P, l)
        /\ \A i \in 1..n : AsListed(f[i].children, P, l)
        /\ \A i \in 1..n - 1 : \A j \in 1..Len(f[i].children) :
             ComesBefore(P[f[i].children[j].meta], PathTo(f, i + 1), l)
    BY <1>3, <1>n DEF Arranged
  <2>2. AsListed(g[n + 1].children, P, l)
    BY <1>1 DEF AsListed
  <2>3. ASSUME NEW j \in 1..Len(g[n].children)
        PROVE  ComesBefore(P[g[n].children[j].meta], PathTo(g, n + 1), l)
    <3>1. n \in 1..n /\ g[n].children = f[n].children
      BY <1>1
    <3>2. f[n].children[j].meta \in 1..Len(es)
      BY <1>n, <3>1 DEF AllStored, ChildrenIn
    <3>3. P[g[n].children[j].meta] # r.path
      BY <3>1, <3>2 DEF NewPath
    <3> QED
      BY <1>1, <3>3, LastListed
  <2>4. ASSUME NEW i \in 1..n - 1, NEW j \in 1..Len(g[i].children)
        PROVE  ComesBefore(P[g[i].children[j].meta], PathTo(g, i + 1), l)
    <3>1. i \in 1..n /\ i + 1 \in 1..n
      BY <1>1
    <3> QED
      BY <1>1, <2>1, <3>1
  <2>5. \A i \in 1..Len(g) : i \in 1..n \/ i = n + 1
    BY <1>1
  <2>6. \A i \in 1..Len(g) - 1 : i \in 1..n - 1 \/ i = n
    BY <1>1
  <2>7. \A i \in 1..Len(g) : AsListed(g[i].children, P, l)
    BY <1>1, <2>1, <2>2, <2>5
  <2>8. \A i \in 1..Len(g) - 1 : \A j \in 1..Len(g[i].children) :
             ComesBefore(P[g[i].children[j].meta], PathTo(g, i + 1), l)
    BY <2>3, <2>4, <2>6
  <2> QED
    BY <1>3, <2>1, <2>7, <2>8 DEF Arranged
<1> QED
  BY <1>2, <1>3

LEMMA PutArranges ==
  ASSUME NEW o, NEW f, NEW es, NEW P, NEW g, NEW fs, NEW Q, NEW r, NEW l,
         Puts(o, f, es, P, g, fs, Q, r), AllStored(f, es), Arranged(o, f, es, P, l),
         InOrder(l), Len(l) \in Nat, l[Len(l)] = r, NewPath(r.path, f, es, P)
  PROVE  Arranged(o, g, fs, Q, l)
<1>n. PICK n : n = Len(f)
  OBVIOUS
<1>w. PICK w : w = Len(es)
  OBVIOUS
<1>e. PICK e : e = [info |-> InfoOf(r), children |-> <<>>]
  OBVIOUS
<1>1. /\ n \in Nat \ {0} /\ Len(g) = n /\ Len(fs) = w + 1 /\ w \in Nat
      /\ \A i \in 1..n : PathTo(g, i) = PathTo(f, i)
      /\ \A i \in 1..n - 1 : g[i].children = f[i].children
      /\ \A m \in 1..w : fs[m] = es[m] /\ Q[m] = P[m]
      /\ Q[w + 1] = r.path /\ fs[w + 1] = e
  BY <1>e, <1>n, <1>w DEF Puts, OneStored, ShapeFields, CountedIn
<1>2. Len(fs[w + 1].children) = 0
  BY <1>1, <1>e
<1>0. \A m \in 1..Len(fs) : m \in 1..w \/ m = w + 1
  BY <1>1
<1>3. CASE o.resort
  <2>1. AsSorted(fs[w + 1].children)
    BY <1>2 DEF AsSorted
  <2>2. \A m \in 1..w : AsSorted(fs[m].children)
    BY <1>1, <1>3, <1>w DEF Arranged
  <2> QED
    BY <1>0, <1>3, <2>1, <2>2 DEF Arranged
<1>4. CASE ~o.resort
  <2>1. /\ \A m \in 1..w : AsListed(es[m].children, P, l)
        /\ \A i \in 1..n : AsListed(f[i].children, P, l)
        /\ \A i \in 1..n - 1 : \A j \in 1..Len(f[i].children) :
             ComesBefore(P[f[i].children[j].meta], PathTo(f, i + 1), l)
    BY <1>4, <1>n, <1>w DEF Arranged
  <2>2. ASSUME NEW m \in 1..Len(fs) PROVE AsListed(fs[m].children, Q, l)
    <3>1. CASE m \in 1..w
      <4>1. ChildrenIn(es, es[m].children)
        BY <1>w, <3>1 DEF AllStored
      <4> QED
        BY <1>1, <1>w, <2>1, <3>1, <4>1, StillAsListed
    <3>2. CASE m = w + 1
      BY <1>2, <3>2 DEF AsListed
    <3> QED
      BY <1>1, <3>1, <3>2
  <2>3. ASSUME NEW i \in 1..n - 1
        PROVE  /\ AsListed(g[i].children, Q, l)
               /\ \A j \in 1..Len(g[i].children) :
                    ComesBefore(Q[g[i].children[j].meta], PathTo(g, i + 1), l)
    <3>1. i \in 1..n /\ i + 1 \in 1..n
      BY <1>1
    <3>2. /\ ChildrenIn(es, f[i].children) /\ g[i].children = f[i].children
          /\ PathTo(g, i + 1) = PathTo(f, i + 1)
      BY <1>1, <1>n, <3>1 DEF AllStored
    <3>3. AsListed(g[i].children, Q, l)
      BY <1>1, <1>w, <2>1, <3>1, <3>2, StillAsListed
    <3>4. ASSUME NEW j \in 1..Len(g[i].children)
          PROVE  ComesBefore(Q[g[i].children[j].meta], PathTo(g, i + 1), l)
      <4>1. Q[g[i].children[j].meta] = P[f[i].children[j].meta]
        BY <1>1, <1>w, <3>2 DEF ChildrenIn
      <4> QED
        BY <2>1, <3>1, <3>2, <4>1
    <3> QED
      BY <3>3, <3>4
  <2>4. AsListed(g[n].children, Q, l)
    <3>1. PICK child \in Child : /\ child.meta = w + 1
                                 /\ g[n].children = Append(f[n].children, child)
      BY <1>n, <1>w DEF Puts
    <3>cs. PICK cs : cs = f[n].children
      OBVIOUS
    <3>new. PICK new : new = w + 1
      OBVIOUS
    <3>2. ChildrenIn(es, cs) /\ AsListed(cs, P, l) /\ child.meta = new
          /\ \A m \in 1..Len(es) : Q[m] = P[m]
      BY <1>1, <1>n, <1>w, <2>1, <3>1, <3>cs, <3>new DEF AllStored
    <3>3. ASSUME NEW j \in 1..Len(cs) PROVE ComesBefore(P[cs[j].meta], Q[new], l)
      <4>1. cs[j].meta \in 1..Len(es)
        BY <3>2 DEF ChildrenIn
      <4>2. P[cs[j].meta] # r.path
        BY <4>1 DEF NewPath
      <4>3. Q[new] = r.path
        BY <1>1, <3>new
      <4> QED
        BY <4>2, <4>3, LastListed
    <3>4. AsListed(Append(cs, child), Q, l)
      BY <3>2, <3>3, OneMoreAsListed
    <3> QED
      BY <3>1, <3>4, <3>cs
  <2>5. \A i \in 1..Len(g) : i \in 1..n - 1 \/ i = n
    BY <1>1
  <2> QED
    BY <1>1, <1>4, <2>2, <2>3, <2>4, <2>5 DEF Arranged
<1> QED
  BY <1>3, <1>4

LEMMA TakeArranges ==
  ASSUME NEW o, NEW f, NEW es, NEW P, NEW S, NEW l \in Seq(S), NEW r \in S, Len(f) \in Nat,
         AllStored(f, es), Arranged(o, f, es, P, l), NewPath(r.path, f, es, P)
  PROVE  Arranged(o, f, es, P, Append(l, r))
<1>m. PICK m : m = Append(l, r)
  OBVIOUS
<1>1. CASE o.resort
  BY <1>1 DEF Arranged
<1>2. CASE ~o.resort
  <2>1. ASSUME NEW cs, ChildrenIn(es, cs), AsListed(cs, P, l) PROVE AsListed(cs, P, m)
    <3> SUFFICES ASSUME NEW j \in 1..Len(cs), NEW k \in 1..Len(cs), j < k
                 PROVE  ComesBefore(P[cs[j].meta], P[cs[k].meta], m)
      BY DEF AsListed
    <3>1. cs[j].meta \in 1..Len(es) /\ cs[k].meta \in 1..Len(es)
      BY <2>1 DEF ChildrenIn
    <3>2. P[cs[j].meta] # r.path /\ P[cs[k].meta] # r.path
      BY <3>1 DEF NewPath
    <3>3. ComesBefore(P[cs[j].meta], P[cs[k].meta], l)
      BY <2>1 DEF AsListed
    <3> QED
      BY <1>m, <3>2, <3>3, StillBefore
  <2>2. \A i \in 1..Len(es) : AsListed(es[i].children, P, m)
    BY <1>2, <2>1 DEF Arranged, AllStored
  <2>3. \A i \in 1..Len(f) : AsListed(f[i].children, P, m)
    BY <1>2, <2>1 DEF Arranged, AllStored
  <2>4. ASSUME NEW i \in 1..Len(f) - 1, NEW j \in 1..Len(f[i].children)
        PROVE  ComesBefore(P[f[i].children[j].meta], PathTo(f, i + 1), m)
    <3>1. i \in 1..Len(f) /\ i + 1 \in 1..Len(f)
      OBVIOUS
    <3>2. f[i].children[j].meta \in 1..Len(es)
      BY <3>1 DEF AllStored, ChildrenIn
    <3>3. P[f[i].children[j].meta] # r.path /\ PathTo(f, i + 1) # r.path
      BY <3>1, <3>2 DEF NewPath
    <3>4. ComesBefore(P[f[i].children[j].meta], PathTo(f, i + 1), l)
      BY <1>2 DEF Arranged
    <3> QED
      BY <1>m, <3>3, <3>4, StillBefore
  <2> QED
    BY <1>2, <1>m, <2>2, <2>3, <2>4 DEF Arranged
<1> QED
  BY <1>1, <1>2

-------------------------------------------------------------------------------
(* A sum of natural numbers is one.                                        *)
SumOf(c, S) == MapThenSumSet(LAMBDA i : c[i], S)
Chosen(s) == CHOOSE x \in s : TRUE
SumStep(g, c, s) == IF s = {} THEN 0 ELSE c[Chosen(s)] + g[s \ {Chosen(s)}]
IsSum(g, c, S) == g = [s \in SUBSET S |-> SumStep(g, c, s)]
SumUpTo(g, c, S, n) ==
  /\ g = [s \in SUBSET S |-> g[s]]
  /\ \A s \in SUBSET S : Cardinality(s) <= n => g[s] = SumStep(g, c, s)

LEMMA SumIs == ASSUME NEW c, NEW S PROVE SumOf(c, S) = (CHOOSE g : IsSum(g, c, S))[S]
BY DEF SumOf, MapThenSumSet, MapThenFoldSet, IsSum, SumStep, Chosen

LEMMA OneLess ==
  ASSUME NEW S, IsFiniteSet(S), NEW s \in SUBSET S, s # {}
  PROVE  /\ Chosen(s) \in s /\ s \ {Chosen(s)} \in SUBSET S
         /\ Cardinality(s \ {Chosen(s)}) = Cardinality(s) - 1
         /\ Cardinality(s) \in Nat
<1>1. Chosen(s) \in s
  BY DEF Chosen
<1>2. IsFiniteSet(s)
  BY FS_Subset
<1>3. Cardinality(s \ {Chosen(s)}) = Cardinality(s) - 1
  BY <1>1, <1>2, FS_RemoveElement
<1>4. Cardinality(s) \in Nat
  BY <1>2, FS_CardinalityType
<1> QED
  BY <1>1, <1>3, <1>4

LEMMA SumOneMore ==
  ASSUME NEW S, IsFiniteSet(S), NEW c, NEW n \in Nat, NEW g, SumUpTo(g, c, S, n)
  PROVE  \E f : SumUpTo(f, c, S, n + 1)
<1>f. PICK f : f = [s \in SUBSET S |-> SumStep(g, c, s)]
  OBVIOUS
<1>1. DOMAIN f = SUBSET S /\ \A s \in SUBSET S : f[s] = SumStep(g, c, s)
  BY <1>f
<1>2. ASSUME NEW s \in SUBSET S, Cardinality(s) <= n + 1
      PROVE  f[s] = SumStep(f, c, s)
  <2>1. CASE s = {}
    BY <1>1, <2>1 DEF SumStep
  <2>2. CASE s # {}
    <3>r. PICK r : r = s \ {Chosen(s)}
      OBVIOUS
    <3>1. r \in SUBSET S /\ Cardinality(r) = Cardinality(s) - 1 /\ Cardinality(s) \in Nat
      BY <3>r, <2>2, OneLess
    <3>2. Cardinality(r) <= n
      BY <3>1, <1>2
    <3>3. g[r] = SumStep(g, c, r) /\ f[r] = SumStep(g, c, r)
      BY <3>1, <3>2, <1>1 DEF SumUpTo
    <3>4. SumStep(g, c, s) = c[Chosen(s)] + g[r] /\ SumStep(f, c, s) = c[Chosen(s)] + f[r]
      BY <2>2, <3>r DEF SumStep
    <3> QED
      BY <3>3, <3>4, <1>1
  <2> QED
    BY <2>1, <2>2
<1>3. f = [s \in SUBSET S |-> f[s]]
  BY <1>f
<1>4. SumUpTo(f, c, S, n + 1)
  BY <1>2, <1>3 DEF SumUpTo
<1> QED
  BY <1>4

LEMMA SumExists ==
  ASSUME NEW S, IsFiniteSet(S), NEW c
  PROVE  \E g : IsSum(g, c, S)
<1> DEFINE T == {n \in Nat : \E g : SumUpTo(g, c, S, n)}
<1>1. 0 \in T
  <2>g. PICK g : g = [s \in SUBSET S |-> 0]
    OBVIOUS
  <2>1. ASSUME NEW s \in SUBSET S, Cardinality(s) <= 0 PROVE g[s] = SumStep(g, c, s)
    <3>1. s = {}
      <4>1. CASE s # {}
        <5>1. Cardinality(s \ {Chosen(s)}) = Cardinality(s) - 1 /\ s \ {Chosen(s)} \in SUBSET S
              /\ Cardinality(s) \in Nat
          BY <4>1, OneLess
        <5>2. Cardinality(s \ {Chosen(s)}) \in Nat
          BY <5>1, FS_Subset, FS_CardinalityType
        <5> QED
          BY <5>1, <5>2, <2>1
      <4> QED
        BY <4>1
    <3> QED
      BY <3>1, <2>g DEF SumStep
  <2>2. g = [s \in SUBSET S |-> g[s]]
    BY <2>g
  <2>3. SumUpTo(g, c, S, 0)
    BY <2>1, <2>2 DEF SumUpTo
  <2> QED
    BY <2>3
<1>2. ASSUME NEW n \in Nat, n \in T PROVE n + 1 \in T
  BY <1>2, SumOneMore
<1>3. Cardinality(S) \in Nat
  BY FS_CardinalityType
<1>4. Cardinality(S) \in T
  <2>1. T \in SUBSET Nat
    OBVIOUS
  <2> HIDE DEF T
  <2>2. \A n \in 0..Cardinality(S) : n \in T
    BY <1>1, <1>2, <1>3, <2>1, Induction
  <2> QED
    BY <1>3, <2>2
<1>5. PICK g : SumUpTo(g, c, S, Cardinality(S))
  BY <1>4
<1>6. ASSUME NEW s \in SUBSET S PROVE g[s] = SumStep(g, c, s)
  <2>1. Cardinality(s) <= Cardinality(S)
    BY FS_Subset
  <2> QED
    BY <1>5, <2>1 DEF SumUpTo
<1>7. IsSum(g, c, S)
  <2>1. g = [s \in SUBSET S |-> g[s]]
    BY <1>5 DEF SumUpTo
  <2> QED
    BY <1>6, <2>1 DEF IsSum
<1> QED
  BY <1>7

LEMMA SumIsNumber ==
  ASSUME NEW S, IsFiniteSet(S), NEW c, \A i \in S : c[i] \in Nat
  PROVE  SumOf(c, S) \in Nat
<1>1. PICK g : IsSum(g, c, S) /\ SumOf(c, S) = g[S]
  <2>1. \E g : IsSum(g, c, S)
    BY SumExists
  <2>2. IsSum((CHOOSE g : IsSum(g, c, S)), c, S)
    BY <2>1
  <2> QED
    BY <2>2, SumIs
<1>2. \A s \in SUBSET S : g[s] = SumStep(g, c, s)
  BY <1>1 DEF IsSum
<1> DEFINE T == {n \in Nat : \A s \in SUBSET S : Cardinality(s) <= n => g[s] \in Nat}
<1>3. ASSUME NEW n \in Nat, n \in T, NEW s \in SUBSET S, Cardinality(s) <= n + 1
      PROVE  g[s] \in Nat
  <2>1. CASE s = {}
    <3>1. SumStep(g, c, s) = 0
      BY <2>1 DEF SumStep
    <3>2. g[s] = SumStep(g, c, s)
      BY <1>2
    <3> QED
      BY <3>1, <3>2
  <2>2. CASE s # {}
    <3>r. PICK r : r = s \ {Chosen(s)}
      OBVIOUS
    <3>1. r \in SUBSET S /\ Cardinality(r) = Cardinality(s) - 1 /\ Cardinality(s) \in Nat
          /\ Chosen(s) \in S
      BY <3>r, <2>2, OneLess
    <3>2. g[r] \in Nat
      BY <3>1, <2>2, <1>3
    <3>3. g[s] = c[Chosen(s)] + g[r]
      BY <2>2, <3>r, <1>2 DEF SumStep
    <3> QED
      BY <3>1, <3>2, <3>3
  <2> QED
    BY <2>1, <2>2
<1>4. 0 \in T
  <2>1. ASSUME NEW s \in SUBSET S, Cardinality(s) <= 0 PROVE g[s] \in Nat
    <3>1. s = {}
      <4>1. CASE s # {}
        <5>1. Cardinality(s \ {Chosen(s)}) = Cardinality(s) - 1 /\ s \ {Chosen(s)} \in SUBSET S
              /\ Cardinality(s) \in Nat
          BY <4>1, OneLess
        <5>2. Cardinality(s \ {Chosen(s)}) \in Nat
          BY <5>1, FS_Subset, FS_CardinalityType
        <5> QED
          BY <5>1, <5>2, <2>1
      <4> QED
        BY <4>1
    <3>2. SumStep(g, c, s) = 0
      BY <3>1 DEF SumStep
    <3>3. g[s] = SumStep(g, c, s)
      BY <1>2
    <3> QED
      BY <3>2, <3>3
  <2> QED
    BY <2>1
<1>5. ASSUME NEW n \in Nat, n \in T PROVE n + 1 \in T
  BY <1>3, <1>5
<1>6. Cardinality(S) \in Nat
  BY FS_CardinalityType
<1>7. Cardinality(S) \in T
  <2>1. T \in SUBSET Nat
    OBVIOUS
  <2> HIDE DEF T
  <2>2. \A n \in 0..Cardinality(S) : n \in T
    BY <1>4, <1>5, <1>6, <2>1, Induction
  <2> QED
    BY <1>6, <2>2
<1> QED
  BY <1>1, <1>6, <1>7

(* The sums of two functions that agree are the same.                      *)
LEMMA SumAgrees ==
  ASSUME NEW S, NEW c, NEW d, \A i \in S : c[i] = d[i]
  PROVE  SumOf(c, S) = SumOf(d, S)
<1>1. ASSUME NEW g PROVE IsSum(g, c, S) <=> IsSum(g, d, S)
  <2>1. ASSUME NEW s \in SUBSET S PROVE SumStep(g, c, s) = SumStep(g, d, s)
    <3>1. s # {} => Chosen(s) \in S
      BY DEF Chosen
    <3> QED
      BY <3>1 DEF SumStep
  <2> QED
    BY <2>1 DEF IsSum
<1>2. (CHOOSE g : IsSum(g, c, S)) = (CHOOSE g : IsSum(g, d, S))
  BY <1>1
<1> QED
  BY <1>2, SumIs

LEMMA SumIsThere ==
  ASSUME NEW S, IsFiniteSet(S), NEW c
  PROVE  \E g : /\ \A s \in SUBSET S : g[s] = SumStep(g, c, s)
                /\ SumOf(c, S) = g[S]
<1>1. \E g : IsSum(g, c, S)
  BY SumExists
<1>g. PICK g : g = CHOOSE h : IsSum(h, c, S)
  OBVIOUS
<1>2. IsSum(g, c, S)
  BY <1>1, <1>g
<1>3. \A s \in SUBSET S : g[s] = SumStep(g, c, s)
  BY <1>2 DEF IsSum
<1>4. SumOf(c, S) = g[S]
  BY <1>g, SumIs
<1> QED
  BY <1>3, <1>4

(* The sum over a part of a set is found on the way.                       *)
LEMMA SumOfPart ==
  ASSUME NEW S, IsFiniteSet(S), NEW c, NEW g, \A s \in SUBSET S : g[s] = SumStep(g, c, s),
         NEW s \in SUBSET S
  PROVE  g[s] = SumOf(c, s)
<1>0. IsFiniteSet(s)
  BY FS_Subset
<1>1. PICK h : /\ \A t \in SUBSET s : h[t] = SumStep(h, c, t)
               /\ SumOf(c, s) = h[s]
  BY <1>0, SumIsThere
<1> DEFINE T == {n \in Nat : \A t \in SUBSET s : Cardinality(t) <= n => g[t] = h[t]}
<1>2. ASSUME NEW n \in Nat, NEW t \in SUBSET s, Cardinality(t) <= n,
             t # {} => g[t \ {Chosen(t)}] = h[t \ {Chosen(t)}]
      PROVE  g[t] = h[t]
  <2>1. g[t] = SumStep(g, c, t) /\ h[t] = SumStep(h, c, t)
    BY <1>1
  <2> QED
    BY <1>2, <2>1 DEF SumStep
<1>3. 0 \in T
  <2>1. ASSUME NEW t \in SUBSET s, Cardinality(t) <= 0 PROVE t = {}
    <3>1. IsFiniteSet(t)
      BY <1>0, FS_Subset
    <3>2. Cardinality(t) \in Nat
      BY <3>1, FS_CardinalityType
    <3>3. Cardinality(t) = 0
      BY <2>1, <3>2
    <3> QED
      BY <3>1, <3>3, FS_EmptySet
  <2> QED
    BY <1>2, <2>1
<1>4. ASSUME NEW n \in Nat, n \in T PROVE n + 1 \in T
  <2>1. ASSUME NEW t \in SUBSET s, Cardinality(t) <= n + 1 PROVE g[t] = h[t]
    <3>1. ASSUME t # {} PROVE g[t \ {Chosen(t)}] = h[t \ {Chosen(t)}]
      <4>1. /\ t \ {Chosen(t)} \in SUBSET s
            /\ Cardinality(t \ {Chosen(t)}) = Cardinality(t) - 1 /\ Cardinality(t) \in Nat
        BY <1>0, <3>1, OneLess
      <4>2. Cardinality(t \ {Chosen(t)}) <= n
        BY <2>1, <4>1
      <4> QED
        BY <1>4, <4>1, <4>2
    <3> QED
      BY <1>2, <2>1, <3>1
  <2> QED
    BY <2>1
<1>5. Cardinality(s) \in Nat
  BY <1>0, FS_CardinalityType
<1>6. Cardinality(s) \in T
  <2>1. T \in SUBSET Nat
    OBVIOUS
  <2> HIDE DEF T
  <2>2. \A n \in 0..Cardinality(s) : n \in T
    BY <1>3, <1>4, <1>5, <2>1, Induction
  <2> QED
    BY <1>5, <2>2
<1>7. g[s] = h[s]
  BY <1>5, <1>6
<1> QED
  BY <1>1, <1>7

LEMMA SumTable ==
  ASSUME NEW S, IsFiniteSet(S), NEW c
  PROVE  \E g : \A s \in SUBSET S : g[s] = SumStep(g, c, s) /\ g[s] = SumOf(c, s)
<1>0. \E g : /\ \A s \in SUBSET S : g[s] = SumStep(g, c, s)
             /\ SumOf(c, S) = g[S]
  BY SumIsThere
<1>1. PICK g : \A s \in SUBSET S : g[s] = SumStep(g, c, s)
  BY <1>0
<1>2. ASSUME NEW s \in SUBSET S PROVE g[s] = SumOf(c, s)
  <2> HIDE DEF SumStep
  <2>1. \A s_1 \in SUBSET S : g[s_1] = SumStep(g, c, s_1)
    BY <1>1
  <2> QED
    BY <2>1, SumOfPart
<1> QED
  BY <1>1, <1>2

(* Any element can be the first that is added.                             *)
LEMMA SumAdds ==
  ASSUME NEW S, IsFiniteSet(S), NEW c, \A i \in S : c[i] \in Nat, NEW x \in S
  PROVE  SumOf(c, S) = c[x] + SumOf(c, S \ {x})
<1>1. PICK g : \A s \in SUBSET S : g[s] = SumStep(g, c, s) /\ g[s] = SumOf(c, s)
  BY SumTable
<1>2. ASSUME NEW s \in SUBSET S PROVE g[s] \in Nat
  <2>1. g[s] = SumOf(c, s) /\ IsFiniteSet(s)
    BY <1>1, FS_Subset
  <2> QED
    BY <2>1, SumIsNumber
<1>3. ASSUME NEW s \in SUBSET S, s # {} PROVE g[s] = c[Chosen(s)] + g[s \ {Chosen(s)}]
  BY <1>1, <1>3 DEF SumStep
<1> DEFINE T == {n \in Nat : \A s \in SUBSET S : \A y \in s :
                   Cardinality(s) <= n => g[s] = c[y] + g[s \ {y}]}
<1>4. 0 \in T
  <2>1. ASSUME NEW s \in SUBSET S, NEW y \in s PROVE ~(Cardinality(s) <= 0)
    <3>1. IsFiniteSet(s) /\ IsFiniteSet(s \ {y})
      BY FS_Subset
    <3>2. Cardinality(s \ {y}) = Cardinality(s) - 1 /\ Cardinality(s \ {y}) \in Nat
          /\ Cardinality(s) \in Nat
      BY <3>1, FS_RemoveElement, FS_CardinalityType
    <3> QED
      BY <3>2
  <2> QED
    BY <2>1
<1>5. ASSUME NEW n \in Nat, n \in T PROVE n + 1 \in T
  <2>1. ASSUME NEW s \in SUBSET S, NEW y \in s, Cardinality(s) <= n + 1
        PROVE  g[s] = c[y] + g[s \ {y}]
    <3>z. PICK z : z = Chosen(s)
      OBVIOUS
    <3>1. z \in s
      BY <3>z DEF Chosen
    <3>2. g[s] = c[z] + g[s \ {z}]
      BY <1>3, <3>z, <2>1
    <3>3. CASE y = z
      BY <3>2, <3>3
    <3>4. CASE y # z
      <4>1. IsFiniteSet(s)
        BY FS_Subset
      <4>2. /\ Cardinality(s \ {z}) = Cardinality(s) - 1 /\ Cardinality(s \ {y}) = Cardinality(s) - 1
            /\ Cardinality(s) \in Nat
        BY <2>1, <3>1, <4>1, FS_RemoveElement, FS_CardinalityType
      <4>3. Cardinality(s \ {z}) <= n /\ Cardinality(s \ {y}) <= n
        BY <2>1, <4>2
      <4>4. s \ {z} \in SUBSET S /\ s \ {y} \in SUBSET S /\ y \in s \ {z} /\ z \in s \ {y}
        BY <3>1, <3>4
      <4>5. \A t \in SUBSET S : \A x_1 \in t :
              Cardinality(t) <= n => g[t] = c[x_1] + g[t \ {x_1}]
        BY <1>5
      <4> HIDE DEF T
      <4>6. /\ g[s \ {z}] = c[y] + g[(s \ {z}) \ {y}]
            /\ g[s \ {y}] = c[z] + g[(s \ {y}) \ {z}]
        BY <4>3, <4>4, <4>5
      <4>7. (s \ {z}) \ {y} = (s \ {y}) \ {z}
        OBVIOUS
      <4>u. PICK u : u = g[(s \ {y}) \ {z}]
        OBVIOUS
      <4>8. u \in Nat /\ c[y] \in Nat /\ c[z] \in Nat
        BY <1>2, <3>1, <4>u
      <4>9. g[s] = c[z] + (c[y] + u) /\ g[s \ {y}] = c[z] + u
        BY <3>2, <4>6, <4>7, <4>u
      <4> QED
        BY <4>8, <4>9
    <3> QED
      BY <3>3, <3>4
  <2> QED
    BY <2>1
<1>6. Cardinality(S) \in Nat
  BY FS_CardinalityType
<1>7. Cardinality(S) \in T
  <2>1. T \in SUBSET Nat
    OBVIOUS
  <2> HIDE DEF T
  <2>2. \A n \in 0..Cardinality(S) : n \in T
    BY <1>4, <1>5, <1>6, <2>1, Induction
  <2> QED
    BY <1>6, <2>2
<1>8. g[S] = c[x] + g[S \ {x}]
  BY <1>6, <1>7
<1>9. g[S \ {x}] = SumOf(c, S \ {x}) /\ g[S] = SumOf(c, S)
  BY <1>1
<1> QED
  BY <1>8, <1>9

LEMMA EmptySum == ASSUME NEW c PROVE SumOf(c, {}) = 0
<1>1. IsFiniteSet({})
  BY FS_EmptySet
<1>2. PICK g : /\ \A s \in SUBSET {} : g[s] = SumStep(g, c, s)
               /\ SumOf(c, {}) = g[{}]
  BY <1>1, SumIsThere
<1>3. g[{}] = SumStep(g, c, {})
  BY <1>2
<1> QED
  BY <1>2, <1>3 DEF SumStep

(* The sum over two sets that have nothing in common.                      *)
LEMMA SumJoins ==
  ASSUME NEW A, NEW B, IsFiniteSet(A), IsFiniteSet(B), \A i \in A : i \notin B,
         NEW c, \A i \in A \cup B : c[i] \in Nat
  PROVE  SumOf(c, A \cup B) = SumOf(c, A) + SumOf(c, B)
<1> DEFINE T == {n \in Nat : \A s \in SUBSET B : Cardinality(s) <= n =>
                   SumOf(c, A \cup s) = SumOf(c, A) + SumOf(c, s)}
<1>0. SumOf(c, A) \in Nat
  BY SumIsNumber
<1>1. ASSUME NEW s \in SUBSET B, s = {} PROVE SumOf(c, A \cup s) = SumOf(c, A) + SumOf(c, s)
  <2>1. A \cup s = A
    BY <1>1
  <2> QED
    BY <1>0, <1>1, <2>1, EmptySum
<1>2. 0 \in T
  <2>1. ASSUME NEW s \in SUBSET B, Cardinality(s) <= 0 PROVE s = {}
    <3>1. IsFiniteSet(s)
      BY FS_Subset
    <3>2. Cardinality(s) \in Nat
      BY <3>1, FS_CardinalityType
    <3>3. Cardinality(s) = 0
      BY <2>1, <3>2
    <3> QED
      BY <3>1, <3>3, FS_EmptySet
  <2> QED
    BY <1>1, <2>1
<1>3. ASSUME NEW n \in Nat, n \in T PROVE n + 1 \in T
  <2>1. ASSUME NEW s \in SUBSET B, s # {}, Cardinality(s) <= n + 1
        PROVE  SumOf(c, A \cup s) = SumOf(c, A) + SumOf(c, s)
    <3>1. PICK x : x \in s
      BY <2>1
    <3>r. PICK r : r = s \ {x}
      OBVIOUS
    <3>2. IsFiniteSet(s) /\ IsFiniteSet(A \cup s) /\ IsFiniteSet(r)
      BY <3>r, FS_Subset, FS_Union
    <3>3. Cardinality(r) = Cardinality(s) - 1 /\ Cardinality(s) \in Nat
      BY <3>1, <3>2, <3>r, FS_RemoveElement, FS_CardinalityType
    <3>4. Cardinality(r) <= n /\ r \in SUBSET B
      BY <2>1, <3>3, <3>r
    <3>5. SumOf(c, A \cup r) = SumOf(c, A) + SumOf(c, r)
      BY <1>3, <3>4
    <3>6. (A \cup s) \ {x} = A \cup r /\ x \in A \cup s
      BY <3>1, <3>r
    <3>7. /\ SumOf(c, A \cup s) = c[x] + SumOf(c, A \cup r)
          /\ SumOf(c, s) = c[x] + SumOf(c, r)
      BY <3>1, <3>2, <3>6, <3>r, SumAdds
    <3>8. SumOf(c, r) \in Nat /\ c[x] \in Nat
      BY <3>1, <3>2, <3>4, SumIsNumber
    <3> QED
      BY <1>0, <3>5, <3>7, <3>8
  <2> QED
    BY <1>1, <2>1
<1>4. Cardinality(B) \in Nat
  BY FS_CardinalityType
<1>5. Cardinality(B) \in T
  <2>1. T \in SUBSET Nat
    OBVIOUS
  <2> HIDE DEF T
  <2>2. \A n \in 0..Cardinality(B) : n \in T
    BY <1>2, <1>3, <1>4, <2>1, Induction
  <2> QED
    BY <1>4, <2>2
<1> QED
  BY <1>4, <1>5

-------------------------------------------------------------------------------
(* The sizes of records.                                                   *)
SizeSum(T) == MapThenSumSet(LAMBDA s : s.size, T)
SizeStep(g, s) == IF s = {} THEN 0 ELSE Chosen(s).size + g[s \ {Chosen(s)}]

LEMMA SizeSumIs ==
  ASSUME NEW T
  PROVE  SizeSum(T) = (CHOOSE g : g = [s \in SUBSET T |-> SizeStep(g, s)])[T]
BY DEF SizeSum, MapThenSumSet, MapThenFoldSet, SizeStep, Chosen

LEMMA SizeSumIsSum ==
  ASSUME NEW S, NEW T \in SUBSET S
  PROVE  SizeSum(T) = SumOf([s \in S |-> s.size], T)
<1>c. PICK c : c = [s \in S |-> s.size]
  OBVIOUS
<1>1. ASSUME NEW g PROVE IsSum(g, c, T) <=> g = [s \in SUBSET T |-> SizeStep(g, s)]
  <2>1. ASSUME NEW s \in SUBSET T PROVE SumStep(g, c, s) = SizeStep(g, s)
    <3>1. s # {} => Chosen(s) \in S
      BY DEF Chosen
    <3>2. s # {} => c[Chosen(s)] = Chosen(s).size
      BY <3>1, <1>c
    <3> QED
      BY <3>2 DEF SumStep, SizeStep
  <2> QED
    BY <2>1 DEF IsSum
<1>2. (CHOOSE g : IsSum(g, c, T)) = (CHOOSE g : g = [s \in SUBSET T |-> SizeStep(g, s)])
  BY <1>1
<1>3. SumOf(c, T) = SizeSum(T)
  BY <1>2, SumIs, SizeSumIs
<1> QED
  BY <1>3, <1>c

LEMMA NoSizes == SizeSum({}) = 0
BY EmptySum, SizeSumIsSum

LEMMA OneMoreSize ==
  ASSUME NEW T, IsFiniteSet(T), NEW x, x \notin T, \A s \in T \cup {x} : s.size \in Nat
  PROVE  SizeSum(T \cup {x}) = SizeSum(T) + x.size
<1>s. PICK S : S = T \cup {x}
  OBVIOUS
<1>c. PICK c : c = [s \in S |-> s.size]
  OBVIOUS
<1>1. /\ IsFiniteSet(S) /\ x \in S /\ c[x] = x.size
      /\ (\A i \in S : c[i] \in Nat)
      /\ T = S \ {x} /\ T \in SUBSET S
  BY <1>s, <1>c, FS_AddElement
<1>2. SumOf(c, S) = c[x] + SumOf(c, T)
  <2>1. /\ IsFiniteSet(S) /\ x \in S
        /\ \A i \in S : c[i] \in Nat
    BY <1>1
  <2>2. SumOf(c, S) = c[x] + SumOf(c, S \ {x})
    BY <2>1, SumAdds
  <2>3. S \ {x} = T
    BY <1>1
  <2> QED
    BY <2>2, <2>3
<1>3. SizeSum(T) = SumOf(c, T) /\ SizeSum(S) = SumOf(c, S)
  BY <1>1, <1>c, SizeSumIsSum
<1>4. SumOf(c, T) \in Nat /\ c[x] \in Nat
  <2>1. \A i \in T : c[i] \in Nat
    BY <1>1
  <2>2. SumOf(c, T) \in Nat
    BY <2>1, SumIsNumber
  <2> QED
    BY <1>1, <2>2
<1>5. SizeSum(S) = SizeSum(T) + x.size
  BY <1>1, <1>2, <1>3, <1>4
<1> QED
  BY <1>5, <1>s

LEMMA SizesJoin ==
  ASSUME NEW A, IsFiniteSet(A), NEW B \in SUBSET A, \A s \in A : s.size \in Nat
  PROVE  SizeSum(A \ B) + SizeSum(B) = SizeSum(A)
<1>c. PICK c : c = [s \in A |-> s.size]
  OBVIOUS
<1>d. PICK D : D = A \ B
  OBVIOUS
<1>1. /\ IsFiniteSet(B) /\ IsFiniteSet(D) /\ D \in SUBSET A /\ D \cup B = A
      /\ \A i \in D : i \notin B
  BY <1>d, FS_Subset
<1>2. \A i \in D \cup B : c[i] \in Nat
  BY <1>1, <1>c
<1>3. SumOf(c, D \cup B) = SumOf(c, D) + SumOf(c, B)
  BY <1>1, <1>2, SumJoins
<1>4. SizeSum(D) = SumOf(c, D) /\ SizeSum(B) = SumOf(c, B) /\ SizeSum(A) = SumOf(c, A)
  BY <1>1, <1>c, SizeSumIsSum
<1> QED
  BY <1>1, <1>3, <1>4, <1>d

-------------------------------------------------------------------------------
(* What the folders of the index count and add up: R are the records whose *)
(* entries are in the index.                                               *)
FilesIn(R, p) == {s \in R : Under(p, s.path) /\ ~s.isDir}
FoldersIn(R, p) == {s \in R : Under(p, s.path) /\ s.isDir}

CountsAll(i, R, p) ==
  i.files = Cardinality(FilesIn(R, p)) /\ i.folders = Cardinality(FoldersIn(R, p))

Tallied(o, f, es, P, R) ==
  o.recount =>
    /\ \A i \in 1..Len(f) : CountsAll(f[i].info, R, PathTo(f, i))
    /\ \A m \in 1..Len(es) : es[m].info.isDir => CountsAll(es[m].info, R, P[m])

(* The files in the next open folder are not added to an open folder yet.  *)
Apart(R, f, i) ==
  FilesIn(R, PathTo(f, i)) \ (IF i < Len(f) THEN FilesIn(R, PathTo(f, i + 1)) ELSE {})

Summed(o, f, es, P, R) ==
  o.recalculate =>
    /\ \A i \in 1..Len(f) : f[i].info.size = SizeSum(Apart(R, f, i))
    /\ \A m \in 1..Len(es) : es[m].info.isDir =>
         es[m].info.size = SizeSum(FilesIn(R, P[m]))

SomeRecords(R) ==
  IsFiniteSet(R) /\ \A s \in R : s.isDir \in BOOLEAN /\ s.size \in Nat /\ s.path \in Seq(Names)

LEMMA InFinite ==
  ASSUME NEW R, SomeRecords(R), NEW p
  PROVE  /\ IsFiniteSet(FilesIn(R, p)) /\ IsFiniteSet(FoldersIn(R, p))
         /\ FilesIn(R, p) \in SUBSET R /\ FoldersIn(R, p) \in SUBSET R
<1>1. FilesIn(R, p) \in SUBSET R /\ FoldersIn(R, p) \in SUBSET R
  BY DEF FilesIn, FoldersIn
<1>2. IsFiniteSet(R)
  BY DEF SomeRecords
<1> QED
  BY <1>1, <1>2, FS_Subset

(* A record that is added is in the folders that are on the way to it.     *)
LEMMA OneMoreFolder ==
  ASSUME NEW R, SomeRecords(R), NEW r, r \notin R, NEW p, Under(p, r.path), r.isDir
  PROVE  /\ FilesIn(R \cup {r}, p) = FilesIn(R, p)
         /\ Cardinality(FoldersIn(R \cup {r}, p)) = Cardinality(FoldersIn(R, p)) + 1
<1>b. PICK B : B = FoldersIn(R, p)
  OBVIOUS
<1>1. IsFiniteSet(B) /\ r \notin B
  BY <1>b, InFinite DEF FoldersIn
<1>2. Cardinality(B \cup {r}) = Cardinality(B) + 1
  BY <1>1, FS_AddElement
<1>3. FilesIn(R \cup {r}, p) = FilesIn(R, p)
  BY DEF FilesIn
<1>4. FoldersIn(R \cup {r}, p) = B \cup {r}
  BY <1>b DEF FoldersIn
<1> QED
  BY <1>2, <1>3, <1>4, <1>b

LEMMA OneMoreFile ==
  ASSUME NEW R, SomeRecords(R), NEW r, r \notin R, NEW p, Under(p, r.path), ~r.isDir
  PROVE  /\ FoldersIn(R \cup {r}, p) = FoldersIn(R, p)
         /\ FilesIn(R \cup {r}, p) = FilesIn(R, p) \cup {r}
         /\ Cardinality(FilesIn(R \cup {r}, p)) = Cardinality(FilesIn(R, p)) + 1
<1>b. PICK B : B = FilesIn(R, p)
  OBVIOUS
<1>1. IsFiniteSet(B) /\ r \notin B
  BY <1>b, InFinite DEF FilesIn
<1>2. Cardinality(B \cup {r}) = Cardinality(B) + 1
  BY <1>1, FS_AddElement
<1>3. FoldersIn(R \cup {r}, p) = FoldersIn(R, p)
  BY DEF FoldersIn
<1>4. FilesIn(R \cup {r}, p) = B \cup {r}
  BY <1>b DEF FilesIn
<1> QED
  BY <1>2, <1>3, <1>4, <1>b

LEMMA NoneMore ==
  ASSUME NEW R, NEW r, NEW p, ~Under(p, r.path)
  PROVE  /\ FilesIn(R \cup {r}, p) = FilesIn(R, p)
         /\ FoldersIn(R \cup {r}, p) = FoldersIn(R, p)
<1>1. FilesIn(R \cup {r}, p) = FilesIn(R, p)
  BY DEF FilesIn
<1>2. FoldersIn(R \cup {r}, p) = FoldersIn(R, p)
  BY DEF FoldersIn
<1> QED
  BY <1>1, <1>2

LEMMA FinishTallies ==
  ASSUME NEW o, NEW f, NEW es, NEW P, NEW g, NEW fs, NEW Q, NEW R,
         Finishes(o, f, es, P, g, fs, Q), Tallied(o, f, es, P, R)
  PROVE  Tallied(o, g, fs, Q, R)
<1> SUFFICES ASSUME o.recount PROVE Tallied(o, g, fs, Q, R)
  BY DEF Tallied
<1>n. PICK n : n = Len(f)
  OBVIOUS
<1>w. PICK w : w = Len(es)
  OBVIOUS
<1>1. /\ n \in Nat \ {0} /\ Len(g) = n - 1
      /\ \A i \in 1..n - 1 : /\ PathTo(g, i) = PathTo(f, i)
                             /\ g[i].info.files = f[i].info.files
                             /\ g[i].info.folders = f[i].info.folders
  BY <1>n DEF Finishes
<1>2. PICK e : OneStored(es, fs, P, Q, e, PathTo(f, n)) /\ e.info = f[n].info
  BY <1>n DEF Finishes
<1>3. /\ w \in Nat /\ Len(fs) = w + 1 /\ fs[w + 1] = e /\ Q[w + 1] = PathTo(f, n)
      /\ \A m \in 1..w : fs[m] = es[m] /\ Q[m] = P[m]
  BY <1>2, <1>w DEF OneStored, Finishes, ShapeFields
<1>4. /\ \A i \in 1..n : CountsAll(f[i].info, R, PathTo(f, i))
      /\ \A m \in 1..w : es[m].info.isDir => CountsAll(es[m].info, R, P[m])
  BY <1>n, <1>w DEF Tallied
<1>5. \A i \in 1..Len(g) : CountsAll(g[i].info, R, PathTo(g, i))
  BY <1>1, <1>4 DEF CountsAll
<1>6. ASSUME NEW m \in 1..Len(fs), fs[m].info.isDir PROVE CountsAll(fs[m].info, R, Q[m])
  <2>1. CASE m = w + 1
    <3>1. n \in 1..n
      BY <1>1
    <3>2. fs[m].info = f[n].info /\ Q[m] = PathTo(f, n)
      BY <1>2, <1>3, <2>1
    <3> QED
      BY <1>4, <3>1, <3>2
  <2>2. CASE m # w + 1
    <3>1. m \in 1..w
      BY <1>3, <2>2
    <3> QED
      BY <1>3, <1>4, <1>6, <3>1
  <2> QED
    BY <2>1, <2>2
<1> QED
  BY <1>5, <1>6 DEF Tallied

(* The item is in the open folders, and nothing is in it yet.              *)
Arrives(f, P, R, r) ==
  /\ SomeRecords(R) /\ r \notin R /\ r.isDir \in BOOLEAN /\ r.size \in Nat
  /\ \A i \in 1..Len(f) : Under(PathTo(f, i), r.path)
  /\ \A m \in 1..Len(P) : ~Under(P[m], r.path)
  /\ \A s \in R : ~Under(r.path, s.path)

LEMMA NothingIn ==
  ASSUME NEW f, NEW P, NEW R, NEW r, Arrives(f, P, R, r), r.path \in Seq(Names)
  PROVE  FilesIn(R \cup {r}, r.path) = {} /\ FoldersIn(R \cup {r}, r.path) = {}
<1>1. ~Under(r.path, r.path)
  BY DEF Under
<1> QED
  BY <1>1 DEF Arrives, FilesIn, FoldersIn

LEMMA OthersCount ==
  ASSUME NEW f, NEW P, NEW R, NEW r, Arrives(f, P, R, r), NEW o, NEW g, CountedIn(o, f, g, r),
         o.recount, NEW i \in 1..Len(f), CountsAll(f[i].info, R, PathTo(f, i))
  PROVE  CountsAll(g[i].info, R \cup {r}, PathTo(g, i))
<1>p. PICK p : p = PathTo(f, i)
  OBVIOUS
<1>1. /\ PathTo(g, i) = p
      /\ g[i].info.files = f[i].info.files + (IF r.isDir THEN 0 ELSE 1)
      /\ g[i].info.folders = f[i].info.folders + (IF r.isDir THEN 1 ELSE 0)
  BY <1>p DEF CountedIn
<1>2. Under(p, r.path) /\ r \notin R /\ SomeRecords(R) /\ r.isDir \in BOOLEAN
  BY <1>p DEF Arrives
<1>a. PICK a : a = Cardinality(FilesIn(R, p))
  OBVIOUS
<1>b. PICK b : b = Cardinality(FoldersIn(R, p))
  OBVIOUS
<1>3. a \in Nat /\ b \in Nat
  BY <1>a, <1>b, <1>2, InFinite, FS_CardinalityType
<1>4. f[i].info.files = a /\ f[i].info.folders = b
  BY <1>a, <1>b, <1>p DEF CountsAll
<1>5. CASE r.isDir
  <2>1. /\ Cardinality(FilesIn(R \cup {r}, p)) = a
        /\ Cardinality(FoldersIn(R \cup {r}, p)) = b + 1
    <3>1. FilesIn(R \cup {r}, p) = FilesIn(R, p)
      BY <1>2, <1>5, OneMoreFolder
    <3>2. Cardinality(FoldersIn(R \cup {r}, p)) = Cardinality(FoldersIn(R, p)) + 1
      BY <1>2, <1>5, OneMoreFolder
    <3> QED
      BY <3>1, <3>2, <1>a, <1>b
  <2>2. g[i].info.files = a /\ g[i].info.folders = b + 1
    BY <1>1, <1>3, <1>4, <1>5
  <2> QED
    BY <1>1, <2>1, <2>2 DEF CountsAll
<1>6. CASE ~r.isDir
  <2>1. /\ Cardinality(FilesIn(R \cup {r}, p)) = a + 1
        /\ Cardinality(FoldersIn(R \cup {r}, p)) = b
    <3>1. FoldersIn(R \cup {r}, p) = FoldersIn(R, p)
      BY <1>2, <1>6, OneMoreFile
    <3>0. SomeRecords(R) /\ r \notin R /\ Under(p, r.path) /\ ~r.isDir
      BY <1>2, <1>6
    <3>2. Cardinality(FilesIn(R \cup {r}, p)) = Cardinality(FilesIn(R, p)) + 1
      BY <3>0, OneMoreFile, Zenon
    <3> QED
      BY <3>1, <3>2, <1>a, <1>b
  <2>2. g[i].info.files = a + 1 /\ g[i].info.folders = b
    BY <1>1, <1>3, <1>4, <1>6
  <2> QED
    BY <1>1, <2>1, <2>2 DEF CountsAll
<1> QED
  BY <1>5, <1>6

LEMMA StoredCount ==
  ASSUME NEW f, NEW P, NEW R, NEW r, Arrives(f, P, R, r), NEW m \in 1..Len(P)
  PROVE  /\ \A i : CountsAll(i, R, P[m]) <=> CountsAll(i, R \cup {r}, P[m])
         /\ FilesIn(R \cup {r}, P[m]) = FilesIn(R, P[m])
<1>1. ~Under(P[m], r.path) /\ r \notin R /\ SomeRecords(R) /\ r.isDir \in BOOLEAN
  BY DEF Arrives
<1>2. /\ FilesIn(R \cup {r}, P[m]) = FilesIn(R, P[m])
      /\ FoldersIn(R \cup {r}, P[m]) = FoldersIn(R, P[m])
  BY <1>1, NoneMore
<1> QED
  BY <1>2 DEF CountsAll

LEMMA OpenTallies ==
  ASSUME NEW o, NEW f, NEW es, NEW P, NEW g, NEW r, NEW R, Opens(o, f, es, P, g, r),
         Tallied(o, f, es, P, R), Arrives(f, P, R, r), r.path \in Seq(Names)
  PROVE  Tallied(o, g, es, P, R \cup {r})
<1> SUFFICES ASSUME o.recount PROVE Tallied(o, g, es, P, R \cup {r})
  BY DEF Tallied
<1>n. PICK n : n = Len(f)
  OBVIOUS
<1>1. /\ n \in Nat \ {0} /\ Len(g) = n + 1 /\ Len(P) = Len(es) /\ CountedIn(o, f, g, r)
      /\ r.path = PathTo(g, n + 1) /\ g[n + 1].info.files = 0 /\ g[n + 1].info.folders = 0
  BY <1>n DEF Opens, ShapeFields
<1>2. ASSUME NEW i \in 1..n PROVE CountsAll(g[i].info, R \cup {r}, PathTo(g, i))
  <2>1. CountsAll(f[i].info, R, PathTo(f, i))
    BY <1>n DEF Tallied
  <2> QED
    BY <1>1, <1>n, <2>1, OthersCount
<1>3. CountsAll(g[n + 1].info, R \cup {r}, PathTo(g, n + 1))
  BY <1>1, NothingIn, FS_EmptySet DEF CountsAll
<1>4. ASSUME NEW m \in 1..Len(es), es[m].info.isDir PROVE CountsAll(es[m].info, R \cup {r}, P[m])
  BY <1>1, <1>4, StoredCount DEF Tallied
<1>5. ASSUME NEW i \in 1..Len(g) PROVE CountsAll(g[i].info, R \cup {r}, PathTo(g, i))
  <2>1. i = n + 1 \/ i \in 1..n
    BY <1>1
  <2> QED
    BY <1>2, <1>3, <2>1
<1> QED
  BY <1>4, <1>5 DEF Tallied

LEMMA PutTallies ==
  ASSUME NEW o, NEW f, NEW es, NEW P, NEW g, NEW fs, NEW Q, NEW r, NEW R,
         Puts(o, f, es, P, g, fs, Q, r), Tallied(o, f, es, P, R), Arrives(f, P, R, r)
  PROVE  Tallied(o, g, fs, Q, R \cup {r})
<1> SUFFICES ASSUME o.recount PROVE Tallied(o, g, fs, Q, R \cup {r})
  BY DEF Tallied
<1>n. PICK n : n = Len(f)
  OBVIOUS
<1>w. PICK w : w = Len(es)
  OBVIOUS
<1>e. PICK e : e = [info |-> InfoOf(r), children |-> <<>>]
  OBVIOUS
<1>1. /\ n \in Nat \ {0} /\ Len(g) = n /\ Len(P) = w /\ CountedIn(o, f, g, r) /\ ~r.isDir
      /\ w \in Nat /\ OneStored(es, fs, P, Q, e, r.path)
  BY <1>n, <1>w, <1>e DEF Puts, ShapeFields
<1>2. ASSUME NEW i \in 1..n PROVE CountsAll(g[i].info, R \cup {r}, PathTo(g, i))
  <2>1. CountsAll(f[i].info, R, PathTo(f, i))
    BY <1>n DEF Tallied
  <2> QED
    BY <1>1, <1>n, <2>1, OthersCount
<1>3. /\ Len(fs) = w + 1 /\ fs[w + 1] = e
      /\ \A m \in 1..w : fs[m] = es[m] /\ Q[m] = P[m]
  BY <1>1, <1>w DEF OneStored
<1>4. ~e.info.isDir
  BY <1>1, <1>e DEF InfoOf
<1>5. ASSUME NEW m \in 1..Len(fs), fs[m].info.isDir PROVE CountsAll(fs[m].info, R \cup {r}, Q[m])
  <2>1. m \in 1..w /\ fs[m] = es[m] /\ Q[m] = P[m]
    BY <1>1, <1>3, <1>4, <1>5
  <2>2. CountsAll(es[m].info, R, P[m])
    BY <1>5, <1>w, <2>1 DEF Tallied
  <2> QED
    BY <1>1, <2>1, <2>2, StoredCount
<1> QED
  BY <1>1, <1>2, <1>5 DEF Tallied

LEMMA PathsUnder ==
  ASSUME NEW f \in Seq(Folder), NEW i \in 1..Len(f), NEW j \in 1..Len(f), i < j
  PROVE  Under(PathTo(f, i), PathTo(f, j))
<1>1. i \in Nat \ {0} /\ j \in Nat \ {0} /\ i - 1 \in Nat /\ j - 1 \in Nat
  OBVIOUS
<1>p. PICK p : p = PathTo(f, i)
  OBVIOUS
<1>q. PICK q : q = PathTo(f, j)
  OBVIOUS
<1>2. Len(p) = i - 1 /\ \A k \in 1..i - 1 : p[k] = f[k + 1].name
  BY <1>1, <1>p DEF PathTo
<1>3. Len(q) = j - 1 /\ \A k \in 1..j - 1 : q[k] = f[k + 1].name
  BY <1>1, <1>q DEF PathTo
<1> QED
  BY <1>1, <1>2, <1>3, <1>p, <1>q DEF Under

LEMMA UnderUnder ==
  ASSUME NEW p \in Seq(Names), NEW q \in Seq(Names), NEW r \in Seq(Names), Under(p, q), Under(q, r)
  PROVE  Under(p, r)
BY DEF Under

(* The files in the last open folder are in the folder that has it.        *)
LEMMA FilesBelow ==
  ASSUME NEW R, SomeRecords(R), NEW p \in Seq(Names), NEW q \in Seq(Names), Under(p, q)
  PROVE  FilesIn(R, q) \in SUBSET FilesIn(R, p)
<1>1. ASSUME NEW s \in R, Under(q, s.path) PROVE Under(p, s.path)
  BY <1>1, UnderUnder DEF SomeRecords
<1> QED
  BY <1>1 DEF FilesIn

LEMMA SizesBelow ==
  ASSUME NEW R, SomeRecords(R), NEW p \in Seq(Names), NEW q \in Seq(Names), Under(p, q)
  PROVE  SizeSum(FilesIn(R, p) \ FilesIn(R, q)) + SizeSum(FilesIn(R, q)) = SizeSum(FilesIn(R, p))
<1>a. PICK A : A = FilesIn(R, p)
  OBVIOUS
<1>b. PICK B : B = FilesIn(R, q)
  OBVIOUS
<1>1. IsFiniteSet(A) /\ A \in SUBSET R
  BY <1>a, InFinite
<1>2. B \in SUBSET A
  BY <1>a, <1>b, FilesBelow
<1>3. \A s \in A : s.size \in Nat
  BY <1>1 DEF SomeRecords
<1>4. SizeSum(A \ B) + SizeSum(B) = SizeSum(A)
  BY <1>1, <1>2, <1>3, SizesJoin
<1> QED
  BY <1>4, <1>a, <1>b

LEMMA FinishSums ==
  ASSUME NEW o, NEW f, NEW es, NEW P, NEW g, NEW fs, NEW Q, NEW R, SomeRecords(R),
         Finishes(o, f, es, P, g, fs, Q), Summed(o, f, es, P, R)
  PROVE  Summed(o, g, fs, Q, R)
<1> SUFFICES ASSUME o.recalculate PROVE Summed(o, g, fs, Q, R)
  BY DEF Summed
<1>n. PICK n : n = Len(f)
  OBVIOUS
<1>w. PICK w : w = Len(es)
  OBVIOUS
<1>1. /\ n \in Nat \ {0} /\ Len(g) = n - 1 /\ f \in Seq(Folder) /\ FolderNames(f)
      /\ \A i \in 1..n - 2 : g[i] = f[i]
      /\ \A i \in 1..n - 1 : PathTo(g, i) = PathTo(f, i)
      /\ n # 1 => g[n - 1].info.size = f[n - 1].info.size + f[n].info.size
  BY <1>n DEF Finishes, ShapeFields
<1>2. PICK e : OneStored(es, fs, P, Q, e, PathTo(f, n)) /\ e.info = f[n].info
  BY <1>n DEF Finishes
<1>3. /\ w \in Nat /\ Len(fs) = w + 1 /\ fs[w + 1] = e /\ Q[w + 1] = PathTo(f, n)
      /\ \A m \in 1..w : fs[m] = es[m] /\ Q[m] = P[m]
  BY <1>2, <1>w DEF OneStored, Finishes, ShapeFields
<1>4. \A i \in 1..n : f[i].info.size = SizeSum(Apart(R, f, i))
  BY <1>n DEF Summed
<1>5. \A m \in 1..w : es[m].info.isDir => es[m].info.size = SizeSum(FilesIn(R, P[m]))
  BY <1>w DEF Summed
<1>6. f[n].info.size = SizeSum(FilesIn(R, PathTo(f, n)))
  <2>1. n \in 1..n /\ ~(n < Len(f))
    BY <1>1, <1>n
  <2>2. Apart(R, f, n) = FilesIn(R, PathTo(f, n))
    BY <2>1 DEF Apart
  <2> QED
    BY <1>4, <2>1, <2>2
<1>7. ASSUME NEW i \in 1..n - 2 PROVE g[i].info.size = SizeSum(Apart(R, g, i))
  <2>1. i \in 1..n /\ i \in 1..n - 1 /\ i + 1 \in 1..n - 1 /\ i < Len(g) /\ i < Len(f)
    BY <1>1, <1>n
  <2>2. PathTo(g, i) = PathTo(f, i) /\ PathTo(g, i + 1) = PathTo(f, i + 1)
    BY <1>1, <2>1
  <2>3. Apart(R, g, i) = Apart(R, f, i)
    BY <2>1, <2>2 DEF Apart
  <2> QED
    BY <1>1, <1>4, <2>1, <2>3
<1>8. ASSUME n # 1 PROVE g[n - 1].info.size = SizeSum(Apart(R, g, n - 1))
  <2>p. PICK p : p = PathTo(f, n - 1)
    OBVIOUS
  <2>q. PICK q : q = PathTo(f, n)
    OBVIOUS
  <2>1. /\ n - 1 \in 1..n /\ n \in 1..n /\ n - 1 \in 1..n - 1 /\ n - 1 < n
        /\ ~(n - 1 < Len(g)) /\ n - 1 < Len(f) /\ (n - 1) + 1 = n
    BY <1>1, <1>8, <1>n
  <2>2. p \in Seq(Names) /\ q \in Seq(Names) /\ Under(p, q)
    BY <1>1, <1>n, <2>1, <2>p, <2>q, PathToType, PathsUnder
  <2>3. Apart(R, g, n - 1) = FilesIn(R, p)
    BY <1>1, <2>1, <2>p DEF Apart
  <2>4. Apart(R, f, n - 1) = FilesIn(R, p) \ FilesIn(R, q)
    BY <2>1, <2>p, <2>q DEF Apart
  <2>5. f[n - 1].info.size = SizeSum(FilesIn(R, p) \ FilesIn(R, q))
    BY <1>4, <2>1, <2>4
  <2>6. g[n - 1].info.size = f[n - 1].info.size + f[n].info.size
    BY <1>1, <1>8
  <2>7. f[n].info.size = SizeSum(FilesIn(R, q))
    BY <1>6, <2>q
  <2>8. SizeSum(FilesIn(R, p) \ FilesIn(R, q)) + SizeSum(FilesIn(R, q)) = SizeSum(FilesIn(R, p))
    BY <2>2, SizesBelow
  <2> QED
    BY <2>3, <2>5, <2>6, <2>7, <2>8
<1>9. ASSUME NEW i \in 1..Len(g) PROVE g[i].info.size = SizeSum(Apart(R, g, i))
  <2>1. i \in 1..n - 2 \/ (i = n - 1 /\ n # 1)
    BY <1>1
  <2> QED
    BY <1>7, <1>8, <2>1
<1>10. ASSUME NEW m \in 1..Len(fs), fs[m].info.isDir
       PROVE  fs[m].info.size = SizeSum(FilesIn(R, Q[m]))
  <2>1. CASE m = w + 1
    <3>1. fs[m].info = f[n].info /\ Q[m] = PathTo(f, n)
      BY <1>2, <1>3, <2>1
    <3> QED
      BY <1>6, <3>1
  <2>2. CASE m # w + 1
    <3>1. m \in 1..w
      BY <1>3, <2>2
    <3> QED
      BY <1>3, <1>5, <1>10, <3>1
  <2> QED
    BY <2>1, <2>2
<1> QED
  BY <1>9, <1>10 DEF Summed

LEMMA OpenSums ==
  ASSUME NEW o, NEW f, NEW es, NEW P, NEW g, NEW r, NEW R, Opens(o, f, es, P, g, r),
         Summed(o, f, es, P, R), Arrives(f, P, R, r), r.path \in Seq(Names)
  PROVE  Summed(o, g, es, P, R \cup {r})
<1> SUFFICES ASSUME o.recalculate PROVE Summed(o, g, es, P, R \cup {r})
  BY DEF Summed
<1>n. PICK n : n = Len(f)
  OBVIOUS
<1>1. /\ n \in Nat \ {0} /\ Len(g) = n + 1 /\ Len(P) = Len(es) /\ CountedIn(o, f, g, r)
      /\ r.path = PathTo(g, n + 1) /\ g[n + 1].info.size = 0 /\ r.isDir = TRUE
  BY <1>n DEF Opens, ShapeFields, Arrives
<1>2. ASSUME NEW i \in 1..n PROVE /\ g[i].info.size = f[i].info.size
                                  /\ PathTo(g, i) = PathTo(f, i)
  BY <1>n DEF Opens, CountedIn
<1>3. ASSUME NEW p PROVE FilesIn(R \cup {r}, p) = FilesIn(R, p)
  BY <1>1 DEF FilesIn
<1>4. FilesIn(R \cup {r}, PathTo(g, n + 1)) = {}
  BY <1>1, NothingIn
<1>5. ASSUME NEW i \in 1..n PROVE Apart(R \cup {r}, g, i) = Apart(R, f, i)
  <2>0. PathTo(g, i) = PathTo(f, i) /\ i < Len(g)
    BY <1>1, <1>2
  <2>1. CASE i < n
    <3>1. i + 1 \in 1..n
      BY <1>1, <2>1
    <3>2. PathTo(g, i + 1) = PathTo(f, i + 1)
      BY <1>2, <3>1
    <3> QED
      BY <1>3, <1>n, <2>0, <2>1, <3>2 DEF Apart
  <2>2. CASE i = n
    <3>1. Apart(R \cup {r}, g, i) = FilesIn(R, PathTo(f, i))
      BY <1>3, <1>4, <2>0, <2>2 DEF Apart
    <3>2. ~(i < Len(f))
      BY <1>1, <1>n, <2>2
    <3> QED
      BY <3>1, <3>2 DEF Apart
  <2> QED
    BY <1>1, <2>1, <2>2
<1>6. ASSUME NEW i \in 1..Len(g) PROVE g[i].info.size = SizeSum(Apart(R \cup {r}, g, i))
  <2>1. CASE i = n + 1
    <3>1. ~(i < Len(g))
      BY <1>1, <2>1
    <3>2. Apart(R \cup {r}, g, i) = {}
      BY <1>4, <2>1, <3>1 DEF Apart
    <3> QED
      BY <1>1, <2>1, <3>2, NoSizes
  <2>2. CASE i \in 1..n
    <3>1. f[i].info.size = SizeSum(Apart(R, f, i))
      BY <1>n, <2>2 DEF Summed
    <3> QED
      BY <1>2, <1>5, <2>2, <3>1
  <2> QED
    BY <1>1, <2>1, <2>2
<1>7. ASSUME NEW m \in 1..Len(es), es[m].info.isDir
      PROVE  es[m].info.size = SizeSum(FilesIn(R \cup {r}, P[m]))
  BY <1>3, <1>7 DEF Summed
<1> QED
  BY <1>6, <1>7 DEF Summed

LEMMA PutSums ==
  ASSUME NEW o, NEW f, NEW es, NEW P, NEW g, NEW fs, NEW Q, NEW r, NEW R,
         Puts(o, f, es, P, g, fs, Q, r), Summed(o, f, es, P, R), Arrives(f, P, R, r)
  PROVE  Summed(o, g, fs, Q, R \cup {r})
<1> SUFFICES ASSUME o.recalculate PROVE Summed(o, g, fs, Q, R \cup {r})
  BY DEF Summed
<1>n. PICK n : n = Len(f)
  OBVIOUS
<1>w. PICK w : w = Len(es)
  OBVIOUS
<1>e. PICK e : e = [info |-> InfoOf(r), children |-> <<>>]
  OBVIOUS
<1>1. /\ n \in Nat \ {0} /\ Len(g) = n /\ Len(P) = w /\ CountedIn(o, f, g, r) /\ ~r.isDir
      /\ w \in Nat /\ OneStored(es, fs, P, Q, e, r.path)
      /\ \A i \in 1..n - 1 : g[i].info.size = f[i].info.size
      /\ g[n].info.size = f[n].info.size + r.size
  BY <1>n, <1>w, <1>e DEF Puts, ShapeFields
<1>2. ASSUME NEW i \in 1..n PROVE PathTo(g, i) = PathTo(f, i) /\ Under(PathTo(f, i), r.path)
  BY <1>1, <1>n DEF CountedIn, Arrives
<1>3. ASSUME NEW p, Under(p, r.path) PROVE FilesIn(R \cup {r}, p) = FilesIn(R, p) \cup {r}
  BY <1>1, <1>3 DEF FilesIn
<1>4. \A i \in 1..n : f[i].info.size = SizeSum(Apart(R, f, i))
  BY <1>n DEF Summed
<1>5. ASSUME NEW i \in 1..n - 1 PROVE g[i].info.size = SizeSum(Apart(R \cup {r}, g, i))
  <2>1. i \in 1..n /\ i + 1 \in 1..n /\ i < Len(g) /\ i < Len(f)
    BY <1>1, <1>n
  <2>p. PICK p : p = PathTo(f, i)
    OBVIOUS
  <2>q. PICK q : q = PathTo(f, i + 1)
    OBVIOUS
  <2>2. /\ PathTo(g, i) = p /\ Under(p, r.path)
        /\ PathTo(g, i + 1) = q /\ Under(q, r.path)
    BY <1>2, <2>1, <2>p, <2>q
  <2>3. r \notin FilesIn(R, p)
    BY DEF FilesIn, Arrives
  <2>4. (FilesIn(R, p) \cup {r}) \ (FilesIn(R, q) \cup {r}) = FilesIn(R, p) \ FilesIn(R, q)
    BY <2>3
  <2>5. Apart(R \cup {r}, g, i) = FilesIn(R \cup {r}, p) \ FilesIn(R \cup {r}, q)
    BY <2>1, <2>2 DEF Apart
  <2>6. Apart(R, f, i) = FilesIn(R, p) \ FilesIn(R, q)
    BY <2>1, <2>p, <2>q DEF Apart
  <2>7. Apart(R \cup {r}, g, i) = Apart(R, f, i)
    BY <1>3, <2>2, <2>4, <2>5, <2>6
  <2> QED
    BY <1>1, <1>4, <2>1, <2>7
<1>6. g[n].info.size = SizeSum(Apart(R \cup {r}, g, n))
  <2>1. n \in 1..n /\ ~(n < Len(g)) /\ ~(n < Len(f))
    BY <1>1, <1>n
  <2>p. PICK p : p = PathTo(f, n)
    OBVIOUS
  <2>t. PICK T : T = FilesIn(R, p)
    OBVIOUS
  <2>2. PathTo(g, n) = p /\ Under(p, r.path)
    BY <1>2, <2>1, <2>p
  <2>3. Apart(R \cup {r}, g, n) = T \cup {r}
    BY <1>3, <2>1, <2>2, <2>t DEF Apart
  <2>4. Apart(R, f, n) = T
    BY <2>1, <2>p, <2>t DEF Apart
  <2>5. /\ IsFiniteSet(T) /\ r \notin T
        /\ \A s \in T \cup {r} : s.size \in Nat
    <3>1. SomeRecords(R) /\ r \notin R /\ r.size \in Nat
      BY DEF Arrives
    <3>2. IsFiniteSet(T) /\ T \in SUBSET R
      BY <2>t, <3>1, InFinite
    <3> QED
      BY <3>1, <3>2 DEF SomeRecords
  <2>6. SizeSum(T \cup {r}) = SizeSum(T) + r.size
    BY <2>5, OneMoreSize
  <2>7. f[n].info.size = SizeSum(T)
    BY <1>4, <2>1, <2>4
  <2> QED
    BY <1>1, <2>3, <2>6, <2>7
<1>7. ASSUME NEW i \in 1..Len(g) PROVE g[i].info.size = SizeSum(Apart(R \cup {r}, g, i))
  <2>1. i \in 1..n - 1 \/ i = n
    BY <1>1
  <2> QED
    BY <1>5, <1>6, <2>1
<1>8. /\ Len(fs) = w + 1 /\ fs[w + 1] = e
      /\ \A m \in 1..w : fs[m] = es[m] /\ Q[m] = P[m]
  BY <1>1, <1>w DEF OneStored
<1>9. ~e.info.isDir
  BY <1>1, <1>e DEF InfoOf
<1>10. ASSUME NEW m \in 1..Len(fs), fs[m].info.isDir
       PROVE  fs[m].info.size = SizeSum(FilesIn(R \cup {r}, Q[m]))
  <2>1. m \in 1..w /\ fs[m] = es[m] /\ Q[m] = P[m]
    BY <1>1, <1>8, <1>9, <1>10
  <2>2. es[m].info.size = SizeSum(FilesIn(R, P[m]))
    BY <1>10, <1>w, <2>1 DEF Summed
  <2>3. m \in 1..Len(P)
    BY <1>1, <2>1
  <2>4. FilesIn(R \cup {r}, P[m]) = FilesIn(R, P[m])
    BY <2>3, NoneMore DEF Arrives
  <2> QED
    BY <2>1, <2>2, <2>4
<1> QED
  BY <1>7, <1>10 DEF Summed

-------------------------------------------------------------------------------
LEMMA FinishSizes ==
  ASSUME NEW o, NEW f, NEW es, NEW P, NEW g, NEW fs, NEW Q, NEW l,
         Finishes(o, f, es, P, g, fs, Q), f[Len(f)].info.isDir, FilesSized(es, P, l)
  PROVE  FilesSized(fs, Q, l)
<1>w. PICK w : w = Len(es)
  OBVIOUS
<1>1. PICK e : OneStored(es, fs, P, Q, e, PathTo(f, Len(f))) /\ e.info = f[Len(f)].info
  BY DEF Finishes
<1>2. /\ w \in Nat /\ Len(fs) = w + 1 /\ fs[w + 1] = e
      /\ \A m \in 1..w : fs[m] = es[m] /\ Q[m] = P[m]
  BY <1>1, <1>w DEF OneStored, Finishes, ShapeFields
<1>3. ASSUME NEW m \in 1..Len(fs), ~fs[m].info.isDir
      PROVE  m \in 1..w /\ fs[m] = es[m] /\ Q[m] = P[m]
  BY <1>1, <1>2, <1>3
<1> QED
  BY <1>3, <1>w DEF FilesSized

LEMMA PutSizes ==
  ASSUME NEW o, NEW f, NEW es, NEW P, NEW g, NEW fs, NEW Q, NEW r, NEW l,
         Puts(o, f, es, P, g, fs, Q, r), FilesSized(es, P, l),
         Len(l) \in Nat \ {0}, l[Len(l)] = r
  PROVE  FilesSized(fs, Q, l)
<1>w. PICK w : w = Len(es)
  OBVIOUS
<1>e. PICK e : e = [info |-> InfoOf(r), children |-> <<>>]
  OBVIOUS
<1>1. OneStored(es, fs, P, Q, e, r.path) /\ w \in Nat /\ ~r.isDir
  BY <1>e, <1>w DEF Puts, ShapeFields
<1>2. /\ Len(fs) = w + 1 /\ fs[w + 1] = e /\ Q[w + 1] = r.path
      /\ \A m \in 1..w : fs[m] = es[m] /\ Q[m] = P[m]
  BY <1>1, <1>w DEF OneStored
<1>3. e.info.size = r.size
  BY <1>e DEF InfoOf
<1>4. ASSUME NEW m \in 1..Len(fs), ~fs[m].info.isDir
      PROVE  \E k \in 1..Len(l) : l[k].path = Q[m] /\ ~l[k].isDir /\ l[k].size = fs[m].info.size
  <2>1. CASE m = w + 1
    <3>1. Len(l) \in 1..Len(l)
      OBVIOUS
    <3> QED
      BY <1>1, <1>2, <1>3, <2>1, <3>1
  <2>2. CASE m # w + 1
    <3>1. m \in 1..w /\ fs[m] = es[m] /\ Q[m] = P[m]
      BY <1>1, <1>2, <2>2
    <3> QED
      BY <1>4, <1>w, <3>1 DEF FilesSized
  <2> QED
    BY <2>1, <2>2
<1> QED
  BY <1>4 DEF FilesSized

LEMMA TakeSizes ==
  ASSUME NEW es, NEW P, NEW S, NEW l \in Seq(S), NEW r \in S, FilesSized(es, P, l)
  PROVE  FilesSized(es, P, Append(l, r))
<1>m. PICK n : n = Append(l, r)
  OBVIOUS
<1>1. \A k \in 1..Len(l) : k \in 1..Len(n) /\ n[k] = l[k]
  BY <1>m
<1>2. FilesSized(es, P, n)
  BY <1>1 DEF FilesSized
<1> QED
  BY <1>2, <1>m

-------------------------------------------------------------------------------
(* What is in the index of what was listed.                                *)
Members(l) == {l[k] : k \in 1..Len(l)}
Seen == Members(listing) \ (IF pc = "adding" THEN {item} ELSE {})

Faithful(o, f, es, P, l, R) ==
  /\ FilesSized(es, P, l)
  /\ Arranged(o, f, es, P, l)
  /\ Tallied(o, f, es, P, R)
  /\ Summed(o, f, es, P, R)

FaithfulIndex(P) ==
  \E o, f, es, l, R :
    /\ o = options /\ f = parents /\ es = entries /\ l = listing /\ R = Seen
    /\ Faithful(o, f, es, P, l, R)

IndexInv ==
  /\ BuildInv
  /\ ListingInv
  /\ \E P : Indexed(P) /\ FaithfulIndex(P)

LEMMA MembersFinite ==
  ASSUME NEW S, NEW l \in Seq(S)
  PROVE  IsFiniteSet(Members(l))
<1>f. PICK f : f = [k \in 1..Len(l) |-> l[k]]
  OBVIOUS
<1>1. f \in Surjection(1..Len(l), Members(l))
  BY <1>f DEF Surjection, Members
<1>2. IsFiniteSet(1..Len(l))
  BY FS_Interval
<1> QED
  BY <1>1, <1>2, FS_Surjection

LEMMA SeenRecords ==
  ASSUME IndexTypeOK, NEW R, R \in SUBSET Members(listing)
  PROVE  SomeRecords(R)
<1>l. PICK l : l = listing
  OBVIOUS
<1>1. IsFiniteSet(Members(l))
  BY <1>l, ListingFields, MembersFinite
<1>2. IsFiniteSet(R)
  BY <1>1, <1>l, FS_Subset
<1>3. ASSUME NEW s \in R PROVE s.isDir \in BOOLEAN /\ s.size \in Nat /\ s.path \in Seq(Names)
  <2>1. PICK k \in 1..Len(l) : s = l[k]
    BY <1>l DEF Members
  <2>2. l[k].path \in Seq(Names) /\ l[k].isDir \in BOOLEAN /\ l[k].size \in Nat
    BY <1>l, ListingFields DEF PathsNamed
  <2> QED
    BY <2>1, <2>2
<1> QED
  BY <1>2, <1>3 DEF SomeRecords

LEMMA ItemArrives ==
  ASSUME BuildInv, ListingInv, pc = "adding", Len(parents) = Kept, NEW P, Indexed(P)
  PROVE  /\ Arrives(parents, P, Seen, item) /\ Seen \cup {item} = Members(listing)
         /\ item.path \in Seq(Names) /\ NewPath(item.path, parents, entries, P)
         /\ InOrder(listing) /\ listing[Len(listing)] = item /\ Len(listing) \in Nat \ {0}
<1>f. PICK f : f = parents
  OBVIOUS
<1>l. PICK l : l = listing
  OBVIOUS
<1>r. PICK r : r = item
  OBVIOUS
<1>R. PICK R : R = Seen
  OBVIOUS
<1>q. PICK q : q = r.path
  OBVIOUS
<1>1. /\ InOrder(l) /\ l[Len(l)] = r /\ Len(l) # 0
  BY <1>l, <1>r DEF ListingInv
<1>2. /\ f \in Seq(Folder) /\ FolderNames(f) /\ P \in Seq(Seq(Names)) /\ OnePath(f, P)
      /\ r \in Records(Paths) /\ Len(f) = Len(q)
      /\ \A i \in 1..Len(q) - 1 : q[i] = f[i + 1].name
      /\ Len(P) = Len(entries) /\ ~HasPlace(f, P, q)
  BY <1>f, <1>r, <1>q DEF Indexed, Shape, ItemWaits, Kept, InOpenFolders
<1>3. /\ IndexTypeOK /\ Len(l) \in Nat \ {0} /\ PathsNamed(l) /\ q \in Seq(Names)
      /\ r.isDir \in BOOLEAN /\ r.size \in Nat
  <2>1. IndexTypeOK
    BY DEF BuildInv
  <2>2. l \in Seq(Records(Paths \cup {<<>>})) /\ PathsNamed(l)
        /\ \A k \in 1..Len(l) : l[k].isDir \in BOOLEAN /\ l[k].size \in Nat
    BY <1>l, <2>1, ListingFields
  <2>3. Len(l) \in 1..Len(l)
    BY <1>1, <2>2
  <2> QED
    BY <1>1, <1>q, <2>1, <2>2, <2>3 DEF PathsNamed
<1>4. R = Members(l) \ {r} /\ r \in Members(l)
  BY <1>1, <1>3, <1>R, <1>l, <1>r DEF Seen, Members
<1>5. SomeRecords(R)
  BY <1>3, <1>4, <1>l, SeenRecords
<1>6. ASSUME NEW i \in 1..Len(f) PROVE Under(PathTo(f, i), q)
  <2>p. PICK p : p = PathTo(f, i)
    OBVIOUS
  <2>1. /\ Len(p) = i - 1
        /\ \A k \in 1..i - 1 : p[k] = f[k + 1].name
    BY <2>p, <1>2 DEF PathTo
  <2>2. \A k \in 1..i - 1 : k \in 1..Len(q) - 1
    BY <1>2
  <2> QED
    BY <1>2, <2>1, <2>2, <2>p DEF Under
<1>7. ASSUME NEW m \in 1..Len(P) PROVE ~Under(P[m], q)
  <2> SUFFICES ASSUME Under(P[m], q) PROVE FALSE
    OBVIOUS
  <2>p. PICK p : p = P[m]
    OBVIOUS
  <2>1. /\ p \in Seq(Names) /\ Len(p) \in Nat /\ Len(p) < Len(q)
        /\ \A k \in 1..Len(p) : p[k] = q[k]
    BY <1>2, <2>p DEF Under
  <2>i. PICK i : i = Len(p) + 1
    OBVIOUS
  <2>2. i \in 1..Len(f) /\ \A k \in 1..Len(p) : q[k] = f[k + 1].name
    BY <1>2, <2>1, <2>i
  <2>a. PICK a : a = PathTo(f, i)
    OBVIOUS
  <2>3. a \in Seq(Names) /\ Len(a) = Len(p) /\ \A k \in 1..Len(p) : a[k] = f[k + 1].name
    BY <1>2, <2>1, <2>2, <2>i, <2>a, PathToType DEF PathTo
  <2>4. a = p
    <3>1. \A k \in 1..Len(p) : a[k] = p[k]
      BY <2>1, <2>2, <2>3
    <3> QED
      BY <2>1, <2>3, <3>1, SameSeq
  <2> QED
    BY <1>2, <2>2, <2>4, <2>a, <2>p DEF OnePath
<1>8. ASSUME NEW s \in R PROVE ~Under(q, s.path)
  <2> SUFFICES ASSUME Under(q, s.path) PROVE FALSE
    OBVIOUS
  <2>1. PICK k \in 1..Len(l) : s = l[k] /\ s # r
    BY <1>4 DEF Members
  <2>2. PICK j \in 1..k - 1 : l[j].path = q
    BY <1>1, <1>3, <2>1 DEF InOrder
  <2>3. j \in 1..Len(l) /\ Len(l) \in 1..Len(l) /\ l[Len(l)].path = q
    BY <1>1, <1>3, <1>q, <2>2
  <2>4. j = Len(l)
    BY <1>1, <2>2, <2>3 DEF InOrder
  <2> QED
    BY <1>3, <2>1, <2>2, <2>4
<1>9. Arrives(f, P, R, r)
  BY <1>3, <1>4, <1>5, <1>6, <1>7, <1>8, <1>q DEF Arrives
<1>10. NewPath(q, f, entries, P)
  BY <1>2 DEF NewPath, HasPlace
<1>11. R \cup {r} = Members(l)
  BY <1>4
<1> QED
  BY <1>1, <1>3, <1>9, <1>10, <1>11, <1>f, <1>l, <1>r, <1>R, <1>q

(* Each step keeps what is in the index faithful.                          *)
LEMMA FaithfulIs ==
  ASSUME NEW P, FaithfulIndex(P)
  PROVE  Faithful(options, parents, entries, P, listing, Seen)
BY DEF FaithfulIndex

LEMMA InitFaithful ==
  ASSUME Init, NEW P
  PROVE  FaithfulIndex(P)
<1>f. PICK f : f = parents
  OBVIOUS
<1>l. PICK l : l = listing
  OBVIOUS
<1>o. PICK o : o = options
  OBVIOUS
<1>R. PICK R : R = Seen
  OBVIOUS
<1>1. PICK r \in Records({<<>>}) : listing = <<r>> /\ parents = <<RootFolder(options, r)>>
  BY DEF Init
<1>2. l = <<r>> /\ f = <<RootFolder(o, r)>> /\ r.path = <<>> /\ entries = <<>> /\ pc = "reading"
  BY <1>1, <1>f, <1>l, <1>o DEF Init, Records
<1>3. /\ Len(f) = 1 /\ f[1].children = <<>> /\ PathTo(f, 1) = <<>>
      /\ o.recount => f[1].info.files = 0 /\ f[1].info.folders = 0
      /\ o.recalculate => f[1].info.size = 0
  BY <1>2 DEF RootFolder, PathTo
<1>4. Len(entries) = 0
  BY <1>2
<1>5. R = {r}
  <2>1. Members(l) = {r}
    BY <1>2 DEF Members
  <2> QED
    BY <1>2, <2>1, <1>R, <1>l DEF Seen
<1>6. FilesIn(R, <<>>) = {} /\ FoldersIn(R, <<>>) = {}
  BY <1>2, <1>5 DEF FilesIn, FoldersIn, Under
<1>7. FilesSized(entries, P, l)
  BY <1>4 DEF FilesSized
<1>8. Arranged(o, f, entries, P, l)
  <2>1. ASSUME NEW i \in 1..Len(f) PROVE AsListed(f[i].children, P, l)
    <3>1. f[i].children = <<>>
      BY <1>3
    <3>2. Len(f[i].children) = 0
      BY <3>1
    <3> QED
      BY <3>2 DEF AsListed
  <2> QED
    BY <1>3, <1>4, <2>1 DEF Arranged
<1>9. Tallied(o, f, entries, P, R)
  <2>1. o.recount => CountsAll(f[1].info, R, <<>>)
    BY <1>3, <1>6, FS_EmptySet DEF CountsAll
  <2> QED
    BY <1>3, <1>4, <2>1 DEF Tallied
<1>10. Summed(o, f, entries, P, R)
  <2>1. Apart(R, f, 1) = {}
    BY <1>3, <1>6 DEF Apart
  <2>2. o.recalculate => f[1].info.size = SizeSum(Apart(R, f, 1))
    BY <1>3, <2>1, NoSizes
  <2> QED
    BY <1>3, <1>4, <2>2 DEF Summed
<1>11. Faithful(o, f, entries, P, l, R)
  BY <1>7, <1>8, <1>9, <1>10 DEF Faithful
<1> QED
  BY <1>11, <1>f, <1>l, <1>o, <1>R DEF FaithfulIndex

LEMMA TakenFaithful ==
  ASSUME BuildInv, NEW r \in Records(Paths), Read(r), NEW P, Indexed(P), Indexed(P)',
         FaithfulIndex(P)
  PROVE  FaithfulIndex(P)'
<1>f. PICK f : f = parents
  OBVIOUS
<1>e. PICK es : es = entries
  OBVIOUS
<1>l. PICK l : l = listing
  OBVIOUS
<1>o. PICK o : o = options
  OBVIOUS
<1>R. PICK R : R = Seen
  OBVIOUS
<1>1. /\ UNCHANGED <<options, parents, entries>> /\ listing' = Append(l, r) /\ item' = r
      /\ pc = "reading" /\ pc' = "adding"
  BY <1>l DEF Read, Take
<1>2. l \in Seq(Records(Paths \cup {<<>>})) /\ r \in Records(Paths \cup {<<>>})
      /\ \A k \in 1..Len(l) : l[k].path # r.path
  <2>1. l \in Seq(Records(Paths \cup {<<>>}))
    BY <1>l, ListingFields DEF BuildInv
  <2>2. r \in Records(Paths \cup {<<>>})
    BY DEF Records
  <2>3. \A k \in 1..Len(l) : l[k].path # r.path
    BY <1>l, <2>1 DEF Read, Listable
  <2> QED
    BY <2>1, <2>2, <2>3
<1>m. PICK m : m = Append(l, r)
  OBVIOUS
<1>3. Faithful(o, f, es, P, l, R)
  BY <1>f, <1>e, <1>l, <1>o, <1>R, FaithfulIs
<1>4. Shape(f, es, P, Unset) /\ Len(f) \in Nat
  <2>1. Shape(f, es, P, Unset)
    BY <1>f, <1>e DEF Indexed
  <2>2. f \in Seq(Folder)
    BY <2>1 DEF Shape
  <2> QED
    BY <2>1, <2>2
<1>5. AllStored(f, es)
  BY <1>4, ChildrenAreStored
<1>6. NewPath(r.path, f, es, P)
  <2>1. ~HasPlace(f, P, r.path)
    <3>1. ItemWaits(P)'
      BY <1>1 DEF Indexed
    <3>2. ~HasPlace(parents', P, item'.path)
      BY <3>1 DEF ItemWaits
    <3> QED
      BY <1>1, <1>f, <3>2
  <2> QED
    BY <1>4, <2>1 DEF NewPath, HasPlace, Shape
<1>7. R = Members(l) /\ Seen' = Members(m) \ {r}
  BY <1>1, <1>R, <1>l, <1>m DEF Seen
<1>8. Members(m) \ {r} = Members(l)
  <2>1. \A k \in 1..Len(l) : m[k] = l[k] /\ k \in 1..Len(m)
    BY <1>2, <1>m
  <2>2. m[Len(l) + 1] = r /\ Len(m) = Len(l) + 1 /\ Len(l) \in Nat
    BY <1>2, <1>m
  <2>3. \A k \in 1..Len(m) : k \in 1..Len(l) \/ k = Len(l) + 1
    BY <2>2
  <2>4. \A k \in 1..Len(l) : l[k] # r
    BY <1>2
  <2> QED
    BY <2>1, <2>2, <2>3, <2>4 DEF Members
<1>9. FilesSized(es, P, m)
  BY <1>2, <1>3, <1>m, TakeSizes DEF Faithful
<1>10. Arranged(o, f, es, P, m)
  BY <1>2, <1>3, <1>4, <1>5, <1>6, <1>m, TakeArranges DEF Faithful
<1>11. Faithful(o, f, es, P, m, R)
  BY <1>3, <1>9, <1>10 DEF Faithful
<1>12. o = options' /\ f = parents' /\ es = entries' /\ m = listing' /\ R = Seen'
  BY <1>1, <1>7, <1>8, <1>f, <1>e, <1>o, <1>m
<1> QED
  BY <1>11, <1>12 DEF FaithfulIndex

LEMMA FinishedFaithful ==
  ASSUME BuildInv, FinishFolder, NEW P, Indexed(P), FaithfulIndex(P)
  PROVE  \E Q : Indexed(Q)' /\ FaithfulIndex(Q)'
<1>f. PICK f : f = parents
  OBVIOUS
<1>e. PICK es : es = entries
  OBVIOUS
<1>l. PICK l : l = listing
  OBVIOUS
<1>o. PICK o : o = options
  OBVIOUS
<1>R. PICK R : R = Seen
  OBVIOUS
<1>g. PICK g : g = parents'
  OBVIOUS
<1>s. PICK fs : fs = entries'
  OBVIOUS
<1>1. PICK Q : Indexed(Q)' /\ Finishes(o, f, es, P, g, fs, Q)
  BY <1>f, <1>e, <1>o, <1>g, <1>s, FinishIs
<1>2. UNCHANGED <<options, listing, item, pc>>
  BY DEF FinishFolder
<1>3. Faithful(o, f, es, P, l, R)
  BY <1>f, <1>e, <1>l, <1>o, <1>R, FaithfulIs
<1>4. Shape(f, es, P, Unset)
  BY <1>f, <1>e DEF Indexed
<1>5. AllStored(f, es)
  BY <1>4, ChildrenAreStored
<1>6. f[Len(f)].info.isDir
  <2>1. Len(f) \in 1..Len(f)
    BY <1>1 DEF Finishes
  <2> QED
    BY <1>4, <2>1 DEF Shape, FoldersAttached
<1>7. SomeRecords(R)
  <2>1. R \in SUBSET Members(listing)
    BY <1>R DEF Seen
  <2> QED
    BY <2>1, SeenRecords DEF BuildInv
<1>8. FilesSized(fs, Q, l)
  BY <1>1, <1>3, <1>6, FinishSizes DEF Faithful
<1>9. Arranged(o, g, fs, Q, l)
  BY <1>1, <1>3, <1>5, FinishArranges DEF Faithful
<1>10. Tallied(o, g, fs, Q, R)
  BY <1>1, <1>3, FinishTallies DEF Faithful
<1>11. Summed(o, g, fs, Q, R)
  BY <1>1, <1>3, <1>7, FinishSums DEF Faithful
<1>12. Faithful(o, g, fs, Q, l, R)
  BY <1>8, <1>9, <1>10, <1>11 DEF Faithful
<1>13. o = options' /\ l = listing' /\ R = Seen'
  BY <1>2, <1>o, <1>l, <1>R DEF Seen
<1>14. FaithfulIndex(Q)'
  BY <1>12, <1>13, <1>g, <1>s DEF FaithfulIndex
<1> QED
  BY <1>1, <1>14

LEMMA OpenedFaithful ==
  ASSUME BuildInv, ListingInv, AddFolder, NEW P, Indexed(P), FaithfulIndex(P)
  PROVE  FaithfulIndex(P)'
<1>f. PICK f : f = parents
  OBVIOUS
<1>e. PICK es : es = entries
  OBVIOUS
<1>l. PICK l : l = listing
  OBVIOUS
<1>o. PICK o : o = options
  OBVIOUS
<1>R. PICK R : R = Seen
  OBVIOUS
<1>r. PICK r : r = item
  OBVIOUS
<1>g. PICK g : g = parents'
  OBVIOUS
<1>1. Opens(o, f, es, P, g, r)
  BY <1>f, <1>e, <1>o, <1>g, <1>r, OpenIs
<1>2. /\ UNCHANGED <<options, listing, entries>> /\ pc' = "reading" /\ pc = "adding"
      /\ Len(parents) = Kept
  BY DEF AddFolder
<1>3. Faithful(o, f, es, P, l, R)
  BY <1>f, <1>e, <1>l, <1>o, <1>R, FaithfulIs
<1>4. AllStored(f, es)
  BY <1>f, <1>e, ChildrenAreStored DEF Indexed
<1>5. /\ Arrives(f, P, R, r) /\ R \cup {r} = Members(l) /\ r.path \in Seq(Names)
      /\ NewPath(r.path, f, es, P) /\ InOrder(l) /\ l[Len(l)] = r /\ Len(l) \in Nat \ {0}
  BY <1>2, <1>f, <1>e, <1>l, <1>R, <1>r, ItemArrives
<1>6. FilesSized(es, P, l)
  BY <1>3 DEF Faithful
<1>7. Arranged(o, g, es, P, l)
  BY <1>1, <1>3, <1>4, <1>5, OpenArranges DEF Faithful
<1>8. Tallied(o, g, es, P, R \cup {r})
  BY <1>1, <1>3, <1>5, OpenTallies DEF Faithful
<1>9. Summed(o, g, es, P, R \cup {r})
  BY <1>1, <1>3, <1>5, OpenSums DEF Faithful
<1>10. Faithful(o, g, es, P, l, R \cup {r})
  BY <1>6, <1>7, <1>8, <1>9 DEF Faithful
<1>11. o = options' /\ l = listing' /\ es = entries' /\ R \cup {r} = Seen'
  BY <1>2, <1>5, <1>o, <1>l, <1>e DEF Seen
<1> QED
  BY <1>10, <1>11, <1>g DEF FaithfulIndex

LEMMA PutFaithful ==
  ASSUME BuildInv, ListingInv, AddFile, NEW P, Indexed(P), FaithfulIndex(P)
  PROVE  \E Q : Indexed(Q)' /\ FaithfulIndex(Q)'
<1>f. PICK f : f = parents
  OBVIOUS
<1>e. PICK es : es = entries
  OBVIOUS
<1>l. PICK l : l = listing
  OBVIOUS
<1>o. PICK o : o = options
  OBVIOUS
<1>R. PICK R : R = Seen
  OBVIOUS
<1>r. PICK r : r = item
  OBVIOUS
<1>g. PICK g : g = parents'
  OBVIOUS
<1>s. PICK fs : fs = entries'
  OBVIOUS
<1>1. PICK Q : Indexed(Q)' /\ Puts(o, f, es, P, g, fs, Q, r)
  BY <1>f, <1>e, <1>o, <1>g, <1>s, <1>r, PutIs
<1>2. /\ UNCHANGED <<options, listing>> /\ pc' = "reading" /\ pc = "adding"
      /\ Len(parents) = Kept
  BY DEF AddFile
<1>3. Faithful(o, f, es, P, l, R)
  BY <1>f, <1>e, <1>l, <1>o, <1>R, FaithfulIs
<1>4. AllStored(f, es)
  BY <1>f, <1>e, ChildrenAreStored DEF Indexed
<1>5. /\ Arrives(f, P, R, r) /\ R \cup {r} = Members(l) /\ r.path \in Seq(Names)
      /\ NewPath(r.path, f, es, P) /\ InOrder(l) /\ l[Len(l)] = r /\ Len(l) \in Nat \ {0}
  BY <1>2, <1>f, <1>e, <1>l, <1>R, <1>r, ItemArrives
<1>6. FilesSized(fs, Q, l)
  BY <1>1, <1>3, <1>5, PutSizes DEF Faithful
<1>7. Arranged(o, g, fs, Q, l)
  BY <1>1, <1>3, <1>4, <1>5, PutArranges DEF Faithful
<1>8. Tallied(o, g, fs, Q, R \cup {r})
  BY <1>1, <1>3, <1>5, PutTallies DEF Faithful
<1>9. Summed(o, g, fs, Q, R \cup {r})
  BY <1>1, <1>3, <1>5, PutSums DEF Faithful
<1>10. Faithful(o, g, fs, Q, l, R \cup {r})
  BY <1>6, <1>7, <1>8, <1>9 DEF Faithful
<1>11. o = options' /\ l = listing' /\ R \cup {r} = Seen'
  BY <1>2, <1>5, <1>o, <1>l DEF Seen
<1>12. FaithfulIndex(Q)'
  BY <1>10, <1>11, <1>g, <1>s DEF FaithfulIndex
<1> QED
  BY <1>1, <1>12

LEMMA InitIndex == Init => IndexInv
<1> SUFFICES ASSUME Init PROVE IndexInv
  OBVIOUS
<1>1. BuildInv /\ ListingInv
  BY InitBuildInv, InitListing
<1>2. PICK P : Indexed(P)
  BY <1>1 DEF BuildInv
<1> QED
  BY <1>1, <1>2, InitFaithful DEF IndexInv

LEMMA IndexKept ==
  ASSUME IndexInv, [BuildNext]_indexVars
  PROVE  IndexInv'
<1>1. BuildInv /\ ListingInv /\ BuildInv' /\ ListingInv'
  BY BuildKept, ListingKept DEF IndexInv
<1>2. PICK P : Indexed(P) /\ FaithfulIndex(P)
  BY DEF IndexInv
<1> SUFFICES \E Q : Indexed(Q)' /\ FaithfulIndex(Q)'
  BY <1>1 DEF IndexInv
<1>3. ASSUME NEW r \in Records(Paths), Read(r) PROVE Indexed(P)' /\ FaithfulIndex(P)'
  <2>1. Indexed(P)'
    BY <1>1, <1>2, <1>3, Taken
  <2> QED
    BY <1>1, <1>2, <1>3, <2>1, TakenFaithful
<1>4. ASSUME UNCHANGED <<options, listing, parents, entries, rootMeta, item>>,
             pc' = pc \/ (pc # "adding" /\ pc' # "adding")
      PROVE  Indexed(P)' /\ FaithfulIndex(P)'
  <2>1. Indexed(P)'
    BY <1>2, <1>4 DEF Indexed, RootStored, ItemWaits, InOpenFolders, Waiting
  <2>2. Seen' = Seen
    BY <1>4 DEF Seen
  <2> QED
    BY <1>2, <1>4, <2>1, <2>2 DEF FaithfulIndex
<1>5. ASSUME NEW r \in Records(Paths), Panic(r) PROVE Indexed(P)' /\ FaithfulIndex(P)'
  BY <1>4, <1>5 DEF Panic, Refuse
<1>6. CASE EndOfRecords \/ Built \/ UNCHANGED indexVars
  BY <1>4, <1>6 DEF EndOfRecords, Built, indexVars
<1>7. CASE FinishFolder
  BY <1>1, <1>2, <1>7, FinishedFaithful
<1>8. CASE AddFolder
  BY <1>1, <1>2, <1>8, FolderAdded, OpenedFaithful
<1>9. CASE AddFile
  BY <1>1, <1>2, <1>9, PutFaithful
<1> QED
  BY <1>3, <1>5, <1>6, <1>7, <1>8, <1>9 DEF BuildNext

-------------------------------------------------------------------------------
(* A walk through all of an index that nothing is left out of.             *)
Whole(P) == Pruned(P) /\ Complete(P)

LEMMA ChildUnder ==
  ASSUME NEW P, Whole(P), NEW m \in 1..Len(entries), NEW k \in 1..Width(m)
  PROVE  /\ Cell(m, k) \in 1..Len(entries) /\ Cell(m, k) # rootMeta
         /\ P[m] \in Seq(Names) /\ P[Cell(m, k)] \in Seq(Names)
         /\ P[Cell(m, k)] = Append(P[m], entries[m].children[k].name)
         /\ entries[Cell(m, k)].info.isDir = entries[m].children[k].isDir
         /\ entries[m].children[k].name \in Names
         /\ Len(P[Cell(m, k)]) = Len(P[m]) + 1 /\ Under(P[m], P[Cell(m, k)])
<1>1. /\ P \in Seq(Seq(Names)) /\ Len(P) = Len(entries) /\ EntriesAttached(entries, P)
      /\ RootStored(P)
  BY DEF Whole, Complete, Walkable
<1>2. AttachedChild(entries, P, P[m], entries[m].children[k])
  BY <1>1 DEF EntriesAttached, Attached, Width
<1>c. PICK c : c = Cell(m, k)
  OBVIOUS
<1>p. PICK p : p = P[m]
  OBVIOUS
<1>q. PICK q : q = P[c]
  OBVIOUS
<1>n. PICK name : name = entries[m].children[k].name
  OBVIOUS
<1>3. /\ c \in 1..Len(entries) /\ q = Append(p, name)
      /\ entries[c].info.isDir = entries[m].children[k].isDir
  BY <1>2, <1>c, <1>p, <1>q, <1>n DEF AttachedChild, Cell
<1>4. name \in Names
  BY <1>n, LeftFields DEF Whole
<1>5. p \in Seq(Names)
  BY <1>1, <1>p
<1>6. /\ q \in Seq(Names) /\ Len(q) = Len(p) + 1 /\ \A i \in 1..Len(p) : q[i] = p[i]
  BY <1>3, <1>4, <1>5, Appended
<1>7. Under(p, q)
  <2>1. Len(p) \in Nat
    BY <1>5
  <2> QED
    BY <1>6, <2>1 DEF Under
<1>8. c # rootMeta
  <2>1. Len(q) # 0
    BY <1>5, <1>6
  <2>2. P[rootMeta] = <<>>
    BY <1>1 DEF RootStored
  <2>3. Len(P[rootMeta]) = 0
    BY <2>2
  <2> QED
    BY <2>1, <2>3, <1>q
<1> QED
  BY <1>3, <1>4, <1>5, <1>6, <1>7, <1>8, <1>c, <1>p, <1>q, <1>n

(* What is above a child is above its folder or is the folder.             *)
LEMMA UnderLonger ==
  ASSUME NEW p \in Seq(Names), NEW q \in Seq(Names), NEW r \in Seq(Names),
         Under(p, r), Under(q, r), Len(p) < Len(q)
  PROVE  Under(p, q)
BY DEF Under

LEMMA UnderSame ==
  ASSUME NEW p \in Seq(Names), NEW q \in Seq(Names), NEW r \in Seq(Names),
         Under(p, r), Under(q, r), Len(p) = Len(q)
  PROVE  p = q
<1>1. \A i \in 1..Len(p) : p[i] = q[i]
  BY DEF Under
<1> QED
  BY <1>1, SameSeq

LEMMA ParentOf ==
  ASSUME NEW P, Whole(P), NEW m \in 1..Len(entries), m # rootMeta
  PROVE  \E f \in 1..Len(entries) : \E k \in 1..Width(f) : Cell(f, k) = m
<1>1. P \in Seq(Seq(Names)) /\ Len(P) = Len(entries) /\ RootStored(P)
  BY DEF Whole, Complete, Walkable
<1>2. rootMeta \in 1..Len(P) /\ P[rootMeta] = <<>> /\ m \in 1..Len(P)
  BY <1>1 DEF RootStored
<1>3. P[m] # <<>>
  BY <1>2 DEF Whole, Pruned
<1>4. PICK f \in 1..Len(entries) : HasChild(entries[f].children, m)
  BY <1>2, <1>3 DEF Whole, Complete
<1> QED
  BY <1>4 DEF HasChild, Width, Cell

(* All that is to come is next in an open folder, or in what is.           *)
Led(a, U) ==
  \A m \in 1..Len(entries) : m \notin U =>
    \A k \in 1..Width(m) : Cell(m, k) \in U =>
      \E i \in 1..Len(a) : Meta(a[i].id) = m /\ a[i].next <= k

ComesIn(a, P, x) ==
  \E i \in 1..Len(a) : \E k \in a[i].next..Width(Meta(a[i].id)) :
    \/ Cell(Meta(a[i].id), k) = x
    \/ Under(P[Cell(Meta(a[i].id), k)], P[x])

LEMMA PathOf ==
  ASSUME NEW P, Whole(P), NEW m \in 1..Len(entries)
  PROVE  P[m] \in Seq(Names) /\ Len(P[m]) \in Nat
<1>1. P \in Seq(Seq(Names)) /\ Len(P) = Len(entries)
  BY DEF Whole, Complete, Walkable
<1> QED
  BY <1>1

LEMMA Comes ==
  ASSUME NEW P, Whole(P), NEW U, ClosedDown(U), rootMeta \notin U, NEW a \in Seq(Above), NEW p,
         Trail(a, p, P), Pending(a, U), Led(a, U), NEW x \in U
  PROVE  ComesIn(a, P, x)
<1> DEFINE T == {n \in Nat : \A m \in U : Len(P[m]) <= n => ComesIn(a, P, m)}
<1>0. ASSUME NEW m \in U
      PROVE  /\ m \in 1..Len(entries) /\ m # rootMeta /\ P[m] \in Seq(Names) /\ Len(P[m]) \in Nat
  BY PathOf DEF ClosedDown
<1>1. ASSUME NEW m \in U, NEW f \in 1..Len(entries), NEW k \in 1..Width(f), Cell(f, k) = m,
             f \notin U
      PROVE  ComesIn(a, P, m)
  <2>1. PICK i \in 1..Len(a) : Meta(a[i].id) = f /\ a[i].next <= k
    BY <1>1 DEF Led
  <2>2. Width(f) \in Nat
    BY LeftFields DEF Whole
  <2>3. a[i].next \in 1..Width(f) + 1
    BY <2>1 DEF Pending
  <2>4. k \in a[i].next..Width(f)
    BY <2>1, <2>2, <2>3
  <2> QED
    BY <1>1, <2>1, <2>4 DEF ComesIn
<1>2. 0 \in T
  <2>1. ASSUME NEW m \in U, Len(P[m]) <= 0 PROVE FALSE
    <3>1. PICK f \in 1..Len(entries) : \E k \in 1..Width(f) : Cell(f, k) = m
      BY <1>0, ParentOf
    <3>2. PICK k \in 1..Width(f) : Cell(f, k) = m
      BY <3>1
    <3>3. Len(P[m]) = Len(P[f]) + 1 /\ P[f] \in Seq(Names)
      BY <3>2, ChildUnder
    <3>4. Len(P[f]) \in Nat
      BY <3>3
    <3> QED
      BY <2>1, <3>3, <3>4
  <2> QED
    BY <2>1
<1>3. ASSUME NEW n \in Nat, n \in T PROVE n + 1 \in T
  <2>1. ASSUME NEW m \in U, Len(P[m]) <= n + 1 PROVE ComesIn(a, P, m)
    <3>1. PICK f \in 1..Len(entries) : \E k \in 1..Width(f) : Cell(f, k) = m
      BY <1>0, ParentOf
    <3>2. PICK k \in 1..Width(f) : Cell(f, k) = m
      BY <3>1
    <3>3. Len(P[m]) = Len(P[f]) + 1 /\ P[f] \in Seq(Names) /\ Under(P[f], P[m])
      BY <3>2, ChildUnder
    <3>4. CASE f \notin U
      BY <1>1, <3>2, <3>4
    <3>5. CASE f \in U
      <4>1. Len(P[f]) <= n
        BY <2>1, <3>3
      <4>2. ComesIn(a, P, f)
        BY <1>3, <3>5, <4>1
      <4>3. PICK i \in 1..Len(a) : \E g \in a[i].next..Width(Meta(a[i].id)) :
                  \/ Cell(Meta(a[i].id), g) = f
                  \/ Under(P[Cell(Meta(a[i].id), g)], P[f])
        BY <4>2 DEF ComesIn
      <4>4. PICK g \in a[i].next..Width(Meta(a[i].id)) :
                  \/ Cell(Meta(a[i].id), g) = f
                  \/ Under(P[Cell(Meta(a[i].id), g)], P[f])
        BY <4>3
      <4>y. PICK y : y = Cell(Meta(a[i].id), g)
        OBVIOUS
      <4>5. y \in U
        BY <4>y DEF Pending
      <4>6. P[y] \in Seq(Names) /\ P[m] \in Seq(Names)
        BY <1>0, <4>5
      <4>7. y = f \/ Under(P[y], P[f])
        BY <4>4, <4>y
      <4>8. Under(P[y], P[m])
        BY <3>3, <4>6, <4>7, UnderUnder
      <4> QED
        BY <4>8, <4>y DEF ComesIn
    <3> QED
      BY <3>4, <3>5
  <2> QED
    BY <1>3, <2>1
<1>4. \A n \in 0..Len(P[x]) : n \in T
  <2>1. T \in SUBSET Nat /\ Len(P[x]) \in Nat
    BY <1>0
  <2> HIDE DEF T
  <2> QED
    BY <1>2, <1>3, <2>1, Induction
<1>5. Len(P[x]) \in T
  <2>1. Len(P[x]) \in 0..Len(P[x])
    BY <1>0
  <2> HIDE DEF T
  <2> QED
    BY <1>4, <2>1
<1> QED
  BY <1>0, <1>5

(* What is in an entry to come is to come.                                 *)
LEMMA BelowToCome ==
  ASSUME NEW P, Whole(P), NEW U, ClosedDown(U), NEW y \in U, NEW x \in 1..Len(entries),
         Under(P[y], P[x])
  PROVE  x \in U
<1> DEFINE T == {n \in Nat : \A m \in 1..Len(entries) :
                   Len(P[m]) <= n /\ Under(P[y], P[m]) => m \in U}
<1>0. y \in 1..Len(entries) /\ P[y] \in Seq(Names) /\ Len(P[y]) \in Nat
      /\ Len(P[x]) \in Nat
  BY PathOf DEF ClosedDown
<1>2. 0 \in T
  BY <1>0, PathOf DEF Under
<1>3. ASSUME NEW n \in Nat, n \in T PROVE n + 1 \in T
  <2>1. ASSUME NEW m \in 1..Len(entries), Len(P[m]) <= n + 1, Under(P[y], P[m]) PROVE m \in U
    <3>0. m # rootMeta
      <4>1. P[rootMeta] = <<>>
        BY DEF Whole, Complete, Walkable, RootStored
      <4>2. Len(P[rootMeta]) = 0
        BY <4>1
      <4> QED
        BY <1>0, <2>1, <4>2 DEF Under
    <3>1. PICK f \in 1..Len(entries) : \E k \in 1..Width(f) : Cell(f, k) = m
      BY <3>0, ParentOf
    <3>2. PICK k \in 1..Width(f) : Cell(f, k) = m
      BY <3>1
    <3>3. /\ Len(P[m]) = Len(P[f]) + 1 /\ P[f] \in Seq(Names) /\ P[m] \in Seq(Names)
          /\ Under(P[f], P[m])
      BY <3>2, ChildUnder
    <3>4. Len(P[y]) < Len(P[m]) /\ Len(P[f]) \in Nat
      BY <2>1, <3>3 DEF Under
    <3>5. CASE Len(P[y]) = Len(P[f])
      <4>1. P[y] = P[f]
        BY <1>0, <2>1, <3>3, <3>5, UnderSame
      <4>2. y = f
        BY <1>0, <4>1 DEF Whole, Pruned
      <4> QED
        BY <3>2, <4>2 DEF ClosedDown
    <3>6. CASE Len(P[y]) < Len(P[f])
      <4>1. Under(P[y], P[f])
        BY <1>0, <2>1, <3>3, <3>6, UnderLonger
      <4>2. Len(P[f]) <= n
        BY <2>1, <3>3, <3>4
      <4>3. f \in U
        BY <1>3, <4>1, <4>2
      <4> QED
        BY <3>2, <4>3 DEF ClosedDown
    <3> QED
      BY <1>0, <3>3, <3>4, <3>5, <3>6
  <2> QED
    BY <2>1
<1>4. \A n \in 0..Len(P[x]) : n \in T
  <2>1. T \in SUBSET Nat
    OBVIOUS
  <2> HIDE DEF T
  <2> QED
    BY <1>0, <1>2, <1>3, <2>1, Induction
<1>5. Len(P[x]) \in T
  <2>1. Len(P[x]) \in 0..Len(P[x])
    BY <1>0
  <2> HIDE DEF T
  <2> QED
    BY <1>4, <2>1
<1> QED
  BY <1>0, <1>5

LEMMA EndIsAll ==
  ASSUME NEW P, Whole(P), NEW U, ClosedDown(U), rootMeta \notin U, NEW c, OnWalk(c, P, U),
         Led(c.parents, U), Finished(c.parents, 0)
  PROVE  U = {}
<1> SUFFICES ASSUME NEW x \in U PROVE FALSE
  OBVIOUS
<1>1. PICK a \in Seq(Above), b \in Seq(Ids), e \in Ids, p \in Seq(Names) :
        /\ c = [parents |-> a, cached |-> b, current |-> e, path |-> p]
        /\ a = c.parents /\ b = c.cached /\ e = c.current /\ p = c.path
        /\ Trail(a, p, P) /\ Tidy(a, b) /\ Pending(a, U) /\ Followed(a)
        /\ Fresh(a, e, p, U)
        /\ Len(a) \in Nat \ {0} /\ (Len(p) = Len(a) \/ Len(p) = Len(a) - 1)
  BY WalkFields
<1>2. ComesIn(a, P, x)
  BY <1>1, Comes
<1>3. PICK i \in 1..Len(a) : \E k \in a[i].next..Width(Meta(a[i].id)) : TRUE
  BY <1>2 DEF ComesIn
<1>4. Meta(a[i].id) \in 1..Len(entries)
  BY <1>1 DEF Trail, InTrail
<1>5. Width(Meta(a[i].id)) \in Nat
  BY <1>4, LeftFields DEF Whole
<1>6. a[i].next = Width(Meta(a[i].id)) + 1
  BY <1>1 DEF Finished
<1> QED
  BY <1>3, <1>5, <1>6

(* What a move does to the open folders.                                   *)
Onward(a, s, j, new) ==
  /\ j \in 1..Len(a) /\ Len(s) \in Nat
  /\ Len(s) = j \/ Len(s) = j + 1
  /\ \A i \in 1..j : s[i].id = a[i].id
  /\ \A i \in 1..j - 1 : s[i].next = a[i].next
  /\ s[j].next = a[j].next + 1
  /\ Len(s) = j + 1 => s[j + 1].id = new /\ s[j + 1].next = 1
  /\ IsFolder(new) => Len(s) = j + 1

LEMMA MovedOn ==
  ASSUME NEW P, Whole(P), NEW U, ClosedDown(U), NEW c, OnWalk(c, P, U),
         NEW j \in 1..Len(c.parents), NEW d, Moved(c, d, j, P, U)
  PROVE  /\ Onward(c.parents, d.parents, j, NextId(c.parents, j))
         /\ c.parents[j].next \in 1..Width(Meta(c.parents[j].id))
         /\ Meta(c.parents[j].id) \in 1..Len(entries) /\ Meta(c.parents[j].id) \notin U
         /\ Meta(NextId(c.parents, j)) = Cell(Meta(c.parents[j].id), c.parents[j].next)
<1>n. PICK new : new = NextId(c.parents, j)
  OBVIOUS
<1>a. PICK a : a = c.parents
  OBVIOUS
<1>V. PICK V : V = U \ {Meta(new)}
  OBVIOUS
<1>1. /\ a \in Seq(Above) /\ Trail(a, c.path, P) /\ Followed(a) /\ Pending(a, U)
      /\ Len(a) \in Nat \ {0} /\ j \in 1..Len(a)
  BY <1>a, WalkFields
<1>2. /\ OnWalk(d, P, V) /\ d.current = new /\ Len(d.path) = j /\ Len(d.parents) >= j
      /\ \A i \in 1..j : d.parents[i].id = a[i].id
      /\ IsChild(new, Meta(a[j].id))
  BY <1>n, <1>a, <1>V DEF Moved
<1>3. PICK s \in Seq(Above), b \in Seq(Ids), e \in Ids, p \in Seq(Names) :
        /\ d = [parents |-> s, cached |-> b, current |-> e, path |-> p]
        /\ s = d.parents /\ b = d.cached /\ e = d.current /\ p = d.path
        /\ Trail(s, p, P) /\ Tidy(s, b) /\ Pending(s, V) /\ Followed(s)
        /\ Fresh(s, e, p, V)
        /\ Len(s) \in Nat \ {0} /\ (Len(p) = Len(s) \/ Len(p) = Len(s) - 1)
  BY <1>2, WalkFields
<1>m. PICK m : m = Meta(a[j].id)
  OBVIOUS
<1>4. m \in 1..Len(entries) /\ m \notin U /\ Width(m) \in Nat
  <2>1. m \in 1..Len(entries)
    BY <1>1, <1>m DEF Trail, InTrail
  <2>2. m \notin U
    BY <1>1, <1>m DEF Pending
  <2> QED
    BY <2>1, <2>2, LeftFields DEF Whole
<1>5. new.folder = m /\ new.child = a[j].next /\ new = [folder |-> m, child |-> a[j].next]
  BY <1>n, <1>a, <1>m DEF NextId
<1>6. a[j].next \in 1..Width(m)
  BY <1>2, <1>5, <1>m DEF IsChild, Width
<1>7. Len(s) = j \/ Len(s) = j + 1
  BY <1>1, <1>2, <1>3
<1>8. \A i \in 1..j : s[i].id = a[i].id
  BY <1>2, <1>3
<1>9. ASSUME NEW i \in 1..j - 1 PROVE s[i].next = a[i].next
  <2>1. /\ i + 1 \in 2..Len(s) /\ i + 1 \in 2..Len(a) /\ i + 1 \in 1..j /\ (i + 1) - 1 = i
        /\ i \in 1..Len(s) /\ i \in 1..Len(a)
    BY <1>1, <1>7
  <2>2. s[i + 1].id.child = s[i].next - 1
    BY <2>1, <1>3 DEF Followed
  <2>3. a[i + 1].id.child = a[i].next - 1
    BY <2>1, <1>1 DEF Followed
  <2>4. s[i].next \in Nat /\ a[i].next \in Nat
    BY <2>1, <1>1, <1>3, AboveFields
  <2>5. s[i + 1].id.child = a[i + 1].id.child
    BY <1>8, <2>1
  <2>6. s[i].next - 1 = a[i].next - 1
    BY <2>2, <2>3, <2>5
  <2>7. \A x, y \in Nat : x - 1 = y - 1 => x = y
    OBVIOUS
  <2> QED
    BY <2>4, <2>6, <2>7
<1>10. a[j].next \in Nat /\ s[j].next \in Nat
  <2>1. j \in 1..Len(s)
    BY <1>1, <1>7
  <2> QED
    BY <2>1, <1>1, <1>3, AboveFields
<1>11. ASSUME Len(s) = j + 1 PROVE Onward(a, s, j, new)
  <2>1. ~AtFile(s, e, p)
    BY <1>1, <1>2, <1>3, <1>11 DEF AtFile
  <2>2. AtFolder(s, e, p) /\ s[Len(s)].next = 1
    BY <2>1, <1>3 DEF Fresh
  <2>3. s[j + 1].id = new /\ s[j + 1].next = 1
    BY <2>2, <1>2, <1>3, <1>11 DEF AtFolder
  <2>4. s[j + 1].id.child = s[j].next - 1
    <3>1. j + 1 \in 2..Len(s) /\ (j + 1) - 1 = j
      BY <1>1, <1>11
    <3> QED
      BY <1>3, <3>1 DEF Followed
  <2>5. s[j].next = a[j].next + 1
    BY <2>3, <2>4, <1>5, <1>10
  <2> QED
    BY <2>3, <2>5, <1>1, <1>3, <1>8, <1>9, <1>11 DEF Onward
<1>12. ASSUME Len(s) = j PROVE Onward(a, s, j, new)
  <2>1. ~AtFolder(s, e, p)
    BY <1>1, <1>2, <1>3, <1>12 DEF AtFolder
  <2>2. AtFile(s, e, p) /\ e.child = s[Len(s)].next - 1
    BY <2>1, <1>3 DEF Fresh
  <2>3. s[j].next = a[j].next + 1 /\ ~IsFolder(new)
    BY <2>2, <1>2, <1>3, <1>5, <1>10, <1>12 DEF AtFile
  <2> QED
    BY <2>3, <1>1, <1>3, <1>8, <1>9, <1>12 DEF Onward
<1>13. Onward(a, d.parents, j, new)
  BY <1>3, <1>7, <1>11, <1>12
<1>14. Meta(new) = Cell(m, a[j].next)
  <2>k. PICK k : k = a[j].next
    OBVIOUS
  <2>1. k \in 1..Width(m) /\ new = [folder |-> m, child |-> k] /\ Pruned(P)
    BY <2>k, <1>5, <1>6 DEF Whole
  <2>2. Cell(m, k) # Unset
    <3>1. Cell(m, k) \in 1..Len(entries)
      BY <2>1, <1>4, ChildUnder
    <3> QED
      BY <3>1 DEF Unset
  <2>3. Meta(new) = Cell(m, k)
    BY <2>1, <2>2, <1>4, CellIs
  <2> QED
    BY <2>3, <2>k
<1> QED
  BY <1>4, <1>6, <1>13, <1>14, <1>a, <1>m, <1>n

LEMMA LedOn ==
  ASSUME NEW P, Whole(P), NEW U, ClosedDown(U), NEW c, OnWalk(c, P, U), Led(c.parents, U),
         NEW j \in 1..Len(c.parents), NEW d, Moved(c, d, j, P, U)
  PROVE  Led(d.parents, U \ {Meta(NextId(c.parents, j))})
<1>n. PICK new : new = NextId(c.parents, j)
  OBVIOUS
<1>x. PICK x : x = Meta(new)
  OBVIOUS
<1>a. PICK a : a = c.parents
  OBVIOUS
<1>s. PICK s : s = d.parents
  OBVIOUS
<1>1. Onward(a, s, j, new) /\ x = Cell(Meta(a[j].id), a[j].next) /\ x \in U
      /\ Finished(a, j)
  <2>1. Finished(a, j) /\ x \in U
    BY <1>a, <1>n, <1>x DEF Moved
  <2> QED
    BY <1>a, <1>n, <1>x, <1>s, <2>1, MovedOn
<1>2. a \in Seq(Above) /\ Len(a) \in Nat \ {0}
  BY <1>a, WalkFields
<1> SUFFICES ASSUME NEW m \in 1..Len(entries), m \notin U \ {x}, NEW k \in 1..Width(m),
                    Cell(m, k) \in U \ {x}
             PROVE  \E i \in 1..Len(s) : Meta(s[i].id) = m /\ s[i].next <= k
  BY <1>n, <1>x, <1>s DEF Led
<1>3. CASE m = x
  <2>1. entries[x].info.isDir
    <3>1. EntriesAttached(entries, P)
      BY DEF Whole, Complete, Walkable
    <3> SUFFICES ASSUME ~entries[x].info.isDir PROVE FALSE
      OBVIOUS
    <3>2. entries[x].children = <<>>
      BY <1>3, <3>1 DEF EntriesAttached
    <3>3. Width(m) = 0
      BY <1>3, <3>2 DEF Width
    <3> QED
      BY <3>3
  <2>2. IsFolder(new)
    BY <2>1, <1>x DEF IsFolder
  <2>3. Len(s) = j + 1 /\ s[j + 1].id = new /\ s[j + 1].next = 1 /\ j + 1 \in 1..Len(s)
    BY <1>1, <2>2 DEF Onward
  <2>4. Meta(s[j + 1].id) = m /\ s[j + 1].next <= k
    BY <1>3, <1>x, <2>3
  <2> QED
    BY <2>3, <2>4
<1>4. CASE m \notin U
  <2>1. PICK i \in 1..Len(a) : Meta(a[i].id) = m /\ a[i].next <= k
    BY <1>4, <1>a DEF Led
  <2>2. a[i].next \in Nat /\ Width(m) \in Nat
    BY <2>1, <1>2, AboveFields, LeftFields DEF Whole
  <2>3. i <= j
    <3> SUFFICES ASSUME ~(i <= j) PROVE FALSE
      OBVIOUS
    <3>1. i \in j + 1..Len(a)
      BY <1>1 DEF Onward
    <3>2. a[i].next = Width(m) + 1
      BY <3>1, <1>1, <2>1 DEF Finished
    <3> QED
      BY <2>1, <2>2, <3>2
  <2>4. i \in 1..j /\ i \in 1..Len(s) /\ s[i].id = a[i].id
    BY <2>3, <1>1 DEF Onward
  <2>5. CASE i < j
    <3>1. s[i].next = a[i].next
      BY <2>4, <2>5, <1>1 DEF Onward
    <3> QED
      BY <2>1, <2>4, <3>1
  <2>6. CASE i = j
    <3>1. s[i].next = a[i].next + 1
      BY <2>6, <1>1 DEF Onward
    <3>2. k # a[i].next
      BY <2>1, <2>6, <1>1
    <3>3. s[i].next <= k
      BY <3>1, <3>2, <2>1, <2>2
    <3> QED
      BY <2>1, <2>4, <3>3
  <2> QED
    BY <2>4, <2>5, <2>6
<1> QED
  BY <1>3, <1>4

(* The open folders are in one another.                                    *)
LEMMA OpenUnder ==
  ASSUME NEW P, Whole(P), NEW a \in Seq(Above), NEW p, Trail(a, p, P),
         NEW i \in 1..Len(a), NEW j \in 1..Len(a), i < j
  PROVE  Under(P[Meta(a[i].id)], P[Meta(a[j].id)])
<1>f. PICK f : f = P[Meta(a[i].id)]
  OBVIOUS
<1>g. PICK g : g = P[Meta(a[j].id)]
  OBVIOUS
<1>1. Len(f) = i - 1 /\ \A k \in 1..i - 1 : f[k] = p[k]
  BY <1>f DEF Trail, InTrail
<1>2. Len(g) = j - 1 /\ \A k \in 1..j - 1 : g[k] = p[k]
  BY <1>g DEF Trail, InTrail
<1>3. \A k \in 1..i - 1 : k \in 1..j - 1
  OBVIOUS
<1>4. Under(f, g)
  BY <1>1, <1>2, <1>3 DEF Under
<1> QED
  BY <1>4, <1>f, <1>g

(* What comes next, and later.                                             *)
LaterIn(a, P, j, z) ==
  \E i \in 1..j : \E k \in a[i].next..Width(Meta(a[i].id)) :
    LET f == Meta(a[i].id)
        v == Cell(f, k) IN
    /\ f \in 1..Len(entries) /\ k \in 1..Width(f)
    /\ v = z \/ Under(P[v], P[z])

LEMMA ComesLater ==
  ASSUME NEW P, Whole(P), NEW U, ClosedDown(U), rootMeta \notin U, NEW a \in Seq(Above), NEW p,
         Trail(a, p, P), Pending(a, U), Led(a, U), NEW j \in 1..Len(a), Finished(a, j), NEW z \in U
  PROVE  LaterIn(a, P, j, z)
<1>1. ComesIn(a, P, z)
  BY Comes
<1>2. PICK i \in 1..Len(a) : \E k \in a[i].next..Width(Meta(a[i].id)) :
        \/ Cell(Meta(a[i].id), k) = z
        \/ Under(P[Cell(Meta(a[i].id), k)], P[z])
  BY <1>1 DEF ComesIn
<1>3. PICK k \in a[i].next..Width(Meta(a[i].id)) :
        \/ Cell(Meta(a[i].id), k) = z
        \/ Under(P[Cell(Meta(a[i].id), k)], P[z])
  BY <1>2
<1>4. Meta(a[i].id) \in 1..Len(entries)
  BY DEF Trail, InTrail
<1>5. Width(Meta(a[i].id)) \in Nat
  BY <1>4, LeftFields DEF Whole
<1>6. a[i].next \in 1..Width(Meta(a[i].id)) + 1
  BY DEF Pending
<1>7. i <= j
  <2> SUFFICES ASSUME ~(i <= j) PROVE FALSE
    OBVIOUS
  <2>1. i \in j + 1..Len(a)
    OBVIOUS
  <2>2. a[i].next = Width(Meta(a[i].id)) + 1
    BY <2>1 DEF Finished
  <2> QED
    BY <2>2, <1>3, <1>5
<1>8. i \in 1..j /\ k \in 1..Width(Meta(a[i].id))
  BY <1>3, <1>5, <1>6, <1>7
<1> QED
  BY <1>3, <1>4, <1>8 DEF LaterIn

LEMMA StillAbove ==
  ASSUME NEW P, Whole(P), NEW U, ClosedDown(U), rootMeta \notin U, NEW a \in Seq(Above), NEW p,
         Trail(a, p, P), Pending(a, U), Led(a, U), NEW j \in 1..Len(a), Finished(a, j),
         a[j].next \in 1..Width(Meta(a[j].id)), NEW x, x = Cell(Meta(a[j].id), a[j].next),
         NEW y \in 1..Len(entries), y \notin U, NEW z \in U, Under(P[y], P[z])
  PROVE  Under(P[y], P[x])
<1>g. PICK g : g = Meta(a[j].id)
  OBVIOUS
<1>1. PICK i \in 1..j : \E k \in a[i].next..Width(Meta(a[i].id)) :
         LET f == Meta(a[i].id)
             v == Cell(f, k) IN
         /\ f \in 1..Len(entries) /\ k \in 1..Width(f)
         /\ v = z \/ Under(P[v], P[z])
  BY ComesLater DEF LaterIn
<1>f. PICK f : f = Meta(a[i].id)
  OBVIOUS
<1>2. PICK k \in a[i].next..Width(f) :
         /\ f \in 1..Len(entries) /\ k \in 1..Width(f)
         /\ Cell(f, k) = z \/ Under(P[Cell(f, k)], P[z])
  BY <1>1, <1>f
<1>v. PICK v : v = Cell(f, k)
  OBVIOUS
<1>3. v \in U /\ i \in 1..Len(a)
  BY <1>2, <1>v, <1>f DEF Pending
<1>4. v \in 1..Len(entries) /\ z \in 1..Len(entries)
  BY <1>3 DEF ClosedDown
<1>5. /\ P[f] \in Seq(Names) /\ P[v] \in Seq(Names) /\ P[y] \in Seq(Names) /\ P[z] \in Seq(Names)
      /\ Len(P[f]) \in Nat /\ Len(P[v]) \in Nat /\ Len(P[y]) \in Nat /\ Len(P[z]) \in Nat
  BY <1>2, <1>4, PathOf
<1>6. Len(P[v]) = Len(P[f]) + 1 /\ Under(P[f], P[v])
  BY <1>2, <1>v, ChildUnder
<1>7. v = z \/ Under(P[v], P[z])
  BY <1>2, <1>v
<1>8. Under(P[f], P[z])
  BY <1>5, <1>6, <1>7, UnderUnder
<1>9. Len(P[y]) < Len(P[v])
  <2> SUFFICES ASSUME ~(Len(P[y]) < Len(P[v])) PROVE FALSE
    OBVIOUS
  <2>1. v # z /\ Under(P[v], P[z])
    BY <1>7 DEF Under
  <2>2. CASE Len(P[y]) = Len(P[v])
    <3>1. P[y] = P[v]
      BY <2>1, <2>2, <1>5, UnderSame
    <3>2. y = v
      BY <3>1, <1>4 DEF Whole, Pruned
    <3> QED
      BY <3>2, <1>3
  <2>3. CASE Len(P[v]) < Len(P[y])
    <3>1. Under(P[v], P[y])
      BY <2>1, <2>3, <1>5, UnderLonger
    <3> QED
      BY <3>1, <1>3, BelowToCome
  <2> QED
    BY <1>5, <2>2, <2>3
<1>10. P[y] = P[f] \/ Under(P[y], P[f])
  <2>1. CASE Len(P[y]) = Len(P[f])
    BY <2>1, <1>5, <1>8, UnderSame
  <2>2. CASE Len(P[y]) < Len(P[f])
    BY <2>2, <1>5, <1>8, UnderLonger
  <2> QED
    BY <1>5, <1>6, <1>9, <2>1, <2>2
<1>11. g \in 1..Len(entries)
  BY <1>g DEF Trail, InTrail
<1>12. Under(P[g], P[x]) /\ P[g] \in Seq(Names) /\ P[x] \in Seq(Names)
  <2>k. PICK h : h = a[j].next
    OBVIOUS
  <2>1. h \in 1..Width(g) /\ x = Cell(g, h)
    BY <2>k, <1>g
  <2>2. Under(P[g], P[Cell(g, h)])
    BY <2>1, <1>11, ChildUnder
  <2>3. Cell(g, h) \in 1..Len(entries)
    BY <2>1, <1>11, ChildUnder
  <2>4. P[g] \in Seq(Names) /\ P[Cell(g, h)] \in Seq(Names)
    BY <2>3, <1>11, PathOf
  <2> QED
    BY <2>1, <2>2, <2>4
<1>13. Under(P[f], P[x])
  <2>1. CASE i = j
    BY <2>1, <1>12, <1>f, <1>g
  <2>2. CASE i < j
    <3>1. Under(P[f], P[g])
      BY <2>2, <1>3, <1>f, <1>g, OpenUnder
    <3> QED
      BY <3>1, <1>5, <1>12, UnderUnder
  <2> QED
    BY <2>1, <2>2
<1> QED
  BY <1>5, <1>10, <1>12, <1>13, UnderUnder

(* What comes next was listed first.                                       *)
LEMMA NextIsFirst ==
  ASSUME NEW P, Whole(P), NEW U, ClosedDown(U), rootMeta \notin U, NEW a \in Seq(Above), NEW p,
         Trail(a, p, P), Pending(a, U), Led(a, U), Followed(a),
         NEW j \in 1..Len(a), Finished(a, j),
         a[j].next \in 1..Width(Meta(a[j].id)), NEW x, x = Cell(Meta(a[j].id), a[j].next),
         NEW z \in U, z # x, NEW l, InOrder(l), Len(l) \in Nat,
         \A m \in 1..Len(entries) : \E k \in 1..Len(l) : l[k].path = P[m],
         \A m \in 1..Len(entries) : AsListed(entries[m].children, P, l)
  PROVE  ComesBefore(P[x], P[z], l)
<1> SUFFICES ASSUME NEW s \in 1..Len(l), NEW y \in 1..Len(l), l[s].path = P[x], l[y].path = P[z]
             PROVE  s < y
  BY DEF ComesBefore
<1>g. PICK g : g = Meta(a[j].id)
  OBVIOUS
<1>h. PICK h : h = a[j].next
  OBVIOUS
<1>1. PICK i \in 1..j : \E k \in a[i].next..Width(Meta(a[i].id)) :
         LET f == Meta(a[i].id)
             v == Cell(f, k) IN
         /\ f \in 1..Len(entries) /\ k \in 1..Width(f)
         /\ v = z \/ Under(P[v], P[z])
  BY ComesLater DEF LaterIn
<1>f. PICK f : f = Meta(a[i].id)
  OBVIOUS
<1>2. PICK k \in a[i].next..Width(f) :
         /\ f \in 1..Len(entries) /\ k \in 1..Width(f)
         /\ Cell(f, k) = z \/ Under(P[Cell(f, k)], P[z])
  BY <1>1, <1>f
<1>v. PICK v : v = Cell(f, k)
  OBVIOUS
<1>3. v \in U /\ i \in 1..Len(a)
  BY <1>2, <1>v, <1>f DEF Pending
<1>4. v \in 1..Len(entries) /\ z \in 1..Len(entries)
  BY <1>3 DEF ClosedDown
<1>5. /\ P[f] \in Seq(Names) /\ P[v] \in Seq(Names) /\ P[z] \in Seq(Names)
      /\ Len(P[f]) \in Nat /\ Len(P[v]) \in Nat /\ Len(P[z]) \in Nat
  BY <1>2, <1>4, PathOf
<1>6. g \in 1..Len(entries) /\ h \in 1..Width(g) /\ x = Cell(g, h)
  <2>1. g \in 1..Len(entries)
    BY <1>g DEF Trail, InTrail
  <2> QED
    BY <2>1, <1>g, <1>h
<1>7. x \in 1..Len(entries)
  BY <1>6, ChildUnder
<1>8. P[g] \in Seq(Names) /\ P[x] \in Seq(Names)
  BY <1>6, <1>7, PathOf
<1>9. Under(P[g], P[x])
  <2>1. Under(P[g], P[Cell(g, h)])
    BY <1>6, ChildUnder
  <2> QED
    BY <2>1, <1>6
<1>10. PICK w \in 1..Len(l) : l[w].path = P[v]
  BY <1>4
<1>11. w <= y
  <2>1. CASE v = z
    BY <2>1, <1>10 DEF InOrder
  <2>2. CASE Under(P[v], P[z])
    <3>0. Under(P[v], l[y].path)
      BY <2>2
    <3>q. PICK q : q = P[v]
      OBVIOUS
    <3>3. \A r \in Seq(Names) : Under(r, l[y].path) => \E t \in 1..y - 1 : l[t].path = r
      BY DEF InOrder
    <3>4. q \in Seq(Names) /\ Under(q, l[y].path)
      BY <3>0, <3>q, <1>5
    <3>5. \E t \in 1..y - 1 : l[t].path = q
      BY <3>3, <3>4
    <3>1. PICK t \in 1..y - 1 : l[t].path = P[v]
      BY <3>5, <3>q
    <3>2. t \in 1..Len(l)
      OBVIOUS
    <3>6. t = w
      BY <3>1, <3>2, <1>10 DEF InOrder
    <3> QED
      BY <3>6
  <2> QED
    BY <2>1, <2>2, <1>2, <1>v
<1>12. CASE i = j /\ k = h
  <2>1. v = x
    BY <1>12, <1>6, <1>f, <1>g, <1>v
  <2>2. Under(P[x], P[z])
    BY <2>1, <1>2, <1>v
  <2>q. PICK q : q = P[x]
    OBVIOUS
  <2>r. \A r \in Seq(Names) : Under(r, l[y].path) => \E t \in 1..y - 1 : l[t].path = r
    BY DEF InOrder
  <2>t. q \in Seq(Names) /\ Under(q, l[y].path)
    BY <2>2, <2>q, <1>8
  <2>u. \E t \in 1..y - 1 : l[t].path = q
    BY <2>r, <2>t
  <2>3. PICK t \in 1..y - 1 : l[t].path = P[x]
    BY <2>u, <2>q
  <2>4. t \in 1..Len(l)
    OBVIOUS
  <2>5. t = s
    BY <2>3, <2>4 DEF InOrder
  <2> QED
    BY <2>5
<1>13. CASE i = j /\ k # h
  <2>1. f = g /\ k \in 1..Width(g) /\ h < k
    <3>1. f = g /\ k \in h..Width(g)
      BY <1>13, <1>2, <1>f, <1>g, <1>h
    <3> QED
      BY <3>1, <1>2, <1>6, <1>13
  <2>2. ComesBefore(P[Cell(g, h)], P[Cell(g, k)], l)
    BY <2>1, <1>6 DEF AsListed, Width, Cell
  <2>3. s < w
    BY <2>1, <2>2, <1>6, <1>10, <1>v DEF ComesBefore
  <2> QED
    BY <2>3, <1>11
<1>14. CASE i < j
  <2>e. PICK e : e = a[i + 1].id
    OBVIOUS
  <2>o. PICK o : o = a[i].next - 1
    OBVIOUS
  <2>1. i + 1 \in 2..Len(a) /\ i + 1 \in 1..Len(a) /\ (i + 1) - 1 = i
    BY <1>14
  <2>2. e \in Ids /\ e.folder = f /\ e.child = o /\ o \in 1..Width(f)
    <3>1. IsChild(e, f)
      BY <2>1, <2>e, <1>f DEF Trail
    <3>2. e.child = o
      BY <2>1, <2>e, <2>o DEF Followed
    <3> QED
      BY <3>1, <3>2 DEF IsChild, Width
  <2>3. e = [folder |-> f, child |-> o]
    BY <2>2 DEF Ids
  <2>u. PICK u : u = Cell(f, o)
    OBVIOUS
  <2>4. u \in 1..Len(entries)
    BY <2>2, <2>u, <1>2, ChildUnder
  <2>5. Cell(f, o) # Unset
    BY <2>4, <2>u DEF Unset
  <2>6. Meta(e) = u
    <3>1. f \in 1..Len(entries)
      BY <1>2
    <3>2. e # Root /\ e.folder = f /\ e.child = o
      BY <2>3, <3>1 DEF Root
    <3> QED
      BY <3>2, <2>u DEF Meta, Cell
  <2>7. o < k /\ k \in 1..Width(f)
    <3>1. a[i].next \in Nat
      BY <1>3, AboveFields
    <3>2. PICK n \in Nat : n = a[i].next
      BY <3>1
    <3>3. Width(f) \in Nat
      BY <1>2, LeftFields DEF Whole
    <3>4. k \in n..Width(f) /\ k \in 1..Width(f)
      BY <1>2, <3>2
    <3>5. n <= k /\ k \in Nat
      BY <3>3, <3>4
    <3> QED
      BY <3>2, <3>4, <3>5, <2>o
  <2>8. ComesBefore(P[u], P[v], l)
    BY <2>2, <2>7, <2>u, <1>2, <1>v DEF AsListed, Width, Cell
  <2>9. PICK q \in 1..Len(l) : l[q].path = P[u]
    BY <2>4
  <2>10. q < w
    <3>1. \A i1, i2 \in 1..Len(l) : l[i1].path = P[u] /\ l[i2].path = P[v] => i1 < i2
      BY <2>8 DEF ComesBefore
    <3> QED
      BY <3>1, <2>9, <1>10
  <2>11. P[u] \in Seq(Names) /\ Len(P[u]) = Len(P[v])
    <3>1. Len(P[u]) = Len(P[f]) + 1
      BY <2>2, <2>u, <1>2, ChildUnder
    <3>2. Len(P[v]) = Len(P[f]) + 1
      BY <1>2, <1>v, ChildUnder
    <3> QED
      BY <3>1, <3>2, <2>4, PathOf
  <2>12. Under(P[u], P[x])
    <3>1. CASE i + 1 = j
      <4>1. u = g
        BY <3>1, <2>6, <2>e, <1>g
      <4> QED
        BY <4>1, <1>9
    <3>2. CASE i + 1 < j
      <4>1. Under(P[Meta(a[i + 1].id)], P[Meta(a[j].id)])
        BY <3>2, <2>1, OpenUnder
      <4>2. Under(P[u], P[g])
        BY <4>1, <2>6, <2>e, <1>g
      <4> QED
        BY <4>2, <1>8, <1>9, <2>11, UnderUnder
    <3> QED
      BY <1>14, <3>1, <3>2
  <2>13. ~Under(P[u], P[v])
    BY <2>11 DEF Under
  <2>14. s # w
    BY <2>12, <2>13, <1>10
  <2>15. ~(w < s)
    <3> SUFFICES ASSUME w < s PROVE FALSE
      OBVIOUS
    <3>1. Under(l[q].path, l[s].path)
      BY <2>9, <2>12
    <3>2. Under(l[q].path, l[w].path)
      BY <3>1, <2>10 DEF InOrder
    <3> QED
      BY <3>2, <2>9, <2>13, <1>10
  <2> QED
    BY <2>14, <2>15, <1>11
<1> QED
  BY <1>12, <1>13, <1>14

-------------------------------------------------------------------------------
(* W is where the walk has been, with what is to come in U each once,      *)
Passed(W, U) ==
  /\ W \in Seq(1..Len(entries))
  /\ \A m \in 1..Len(entries) : m \in U \/ \E i \in 1..Len(W) : W[i] = m
  /\ \A i \in 1..Len(W) : W[i] \notin U
  /\ \A i, j \in 1..Len(W) : W[i] = W[j] => i = j

(* with all that is in a folder together,                                  *)
Together(W, U, P) ==
  /\ \A i, k, j \in 1..Len(W) :
       i < k /\ k < j /\ Under(P[W[i]], P[W[j]]) => Under(P[W[i]], P[W[k]])
  /\ \A i, k \in 1..Len(W) : \A m \in U :
       i < k /\ Under(P[W[i]], P[m]) => Under(P[W[i]], P[W[k]])

(* the children of a folder in its order,                                  *)
Siblings(W) ==
  \A i \in 1..Len(W) : \A m \in 1..Len(entries) : \A k \in 1..Width(m) :
    W[i] = Cell(m, k) => \A g \in 1..k - 1 : \E h \in 1..i - 1 : W[h] = Cell(m, g)

(* which is that of the listing unless they are sorted.                    *)
Following(W, P, l) == \A i \in 1..Len(W) : i \in 1..Len(l) /\ l[i].path = P[W[i]]

LEMMA OneMorePassed ==
  ASSUME NEW W, NEW U, Passed(W, U), NEW x \in U, x \in 1..Len(entries)
  PROVE  /\ Passed(Append(W, x), U \ {x})
         /\ Len(Append(W, x)) = Len(W) + 1 /\ Len(W) \in Nat /\ Append(W, x)[Len(W) + 1] = x
         /\ \A i \in 1..Len(W) : Append(W, x)[i] = W[i]
<1>w. PICK V : V = Append(W, x)
  OBVIOUS
<1>n. PICK n : n = Len(W)
  OBVIOUS
<1>1. /\ V \in Seq(1..Len(entries)) /\ Len(V) = n + 1 /\ n \in Nat /\ V[n + 1] = x
      /\ \A i \in 1..n : V[i] = W[i]
  BY <1>w, <1>n DEF Passed
<1>2. ASSUME NEW m \in 1..Len(entries), m \notin U \ {x} PROVE \E i \in 1..Len(V) : V[i] = m
  <2>1. CASE m = x
    <3>1. n + 1 \in 1..Len(V)
      BY <1>1
    <3> QED
      BY <1>1, <2>1, <3>1
  <2>2. CASE m \notin U
    <3>1. PICK i \in 1..n : W[i] = m
      BY <2>2, <1>n DEF Passed
    <3>2. i \in 1..Len(V)
      BY <1>1
    <3> QED
      BY <1>1, <3>1, <3>2
  <2> QED
    BY <1>2, <2>1, <2>2
<1>3. ASSUME NEW i \in 1..Len(V) PROVE V[i] \notin U \ {x}
  <2>1. i \in 1..n \/ i = n + 1
    BY <1>1
  <2> QED
    BY <1>1, <1>n, <2>1 DEF Passed
<1>4. ASSUME NEW i \in 1..Len(V), NEW j \in 1..Len(V), V[i] = V[j] PROVE i = j
  <2>1. (i \in 1..n \/ i = n + 1) /\ (j \in 1..n \/ j = n + 1)
    BY <1>1
  <2>2. \A k \in 1..n : W[k] # x
    BY <1>n DEF Passed
  <2> QED
    BY <1>1, <1>4, <1>n, <2>1, <2>2 DEF Passed
<1>5. Passed(V, U \ {x})
  BY <1>1, <1>2, <1>3, <1>4 DEF Passed
<1> QED
  BY <1>1, <1>5, <1>w, <1>n

LEMMA StillTogether ==
  ASSUME NEW P, NEW W, NEW U, Passed(W, U), Together(W, U, P), NEW x \in U, x \in 1..Len(entries),
         \A y \in 1..Len(entries) : \A z \in U :
           y \notin U /\ Under(P[y], P[z]) => Under(P[y], P[x])
  PROVE  Together(Append(W, x), U \ {x}, P)
<1>w. PICK V : V = Append(W, x)
  OBVIOUS
<1>n. PICK n : n = Len(W)
  OBVIOUS
<1>1. /\ Len(V) = n + 1 /\ n \in Nat /\ V[n + 1] = x
      /\ \A i \in 1..n : V[i] = W[i]
  BY <1>w, <1>n, OneMorePassed
<1>2. ASSUME NEW i \in 1..Len(V), NEW k \in 1..Len(V), NEW j \in 1..Len(V), i < k, k < j,
             Under(P[V[i]], P[V[j]])
      PROVE  Under(P[V[i]], P[V[k]])
  <2>1. i \in 1..n /\ k \in 1..n /\ V[i] = W[i] /\ V[k] = W[k]
    BY <1>1, <1>2
  <2>2. CASE j = n + 1
    BY <1>1, <1>2, <1>n, <2>1, <2>2 DEF Together
  <2>3. CASE j # n + 1
    <3>1. j \in 1..n /\ V[j] = W[j]
      BY <1>1, <2>3
    <3> QED
      BY <1>2, <1>n, <2>1, <3>1 DEF Together
  <2> QED
    BY <2>2, <2>3
<1>3. ASSUME NEW i \in 1..Len(V), NEW k \in 1..Len(V), NEW m \in U \ {x}, i < k,
             Under(P[V[i]], P[m])
      PROVE  Under(P[V[i]], P[V[k]])
  <2>1. i \in 1..n /\ V[i] = W[i]
    BY <1>1, <1>3
  <2>2. CASE k = n + 1
    <3>1. W[i] \in 1..Len(entries) /\ W[i] \notin U
      BY <2>1, <1>n DEF Passed
    <3> QED
      BY <1>1, <1>3, <2>1, <2>2, <3>1
  <2>3. CASE k # n + 1
    <3>1. k \in 1..n /\ V[k] = W[k]
      BY <1>1, <2>3
    <3> QED
      BY <1>3, <1>n, <2>1, <3>1 DEF Together
  <2> QED
    BY <2>2, <2>3
<1>4. Together(V, U \ {x}, P)
  BY <1>2, <1>3 DEF Together
<1> QED
  BY <1>4, <1>w

LEMMA StillInOrder ==
  ASSUME NEW P, Whole(P), NEW W, NEW U, Passed(W, U), Siblings(W), NEW x \in U,
         x \in 1..Len(entries),
         NEW g \in 1..Len(entries), NEW h \in 1..Width(g), x = Cell(g, h),
         \A k \in 1..h - 1 : Cell(g, k) \notin U
  PROVE  Siblings(Append(W, x))
<1>w. PICK V : V = Append(W, x)
  OBVIOUS
<1>n. PICK n : n = Len(W)
  OBVIOUS
<1>1. /\ Len(V) = n + 1 /\ n \in Nat /\ V[n + 1] = x
      /\ \A i \in 1..n : V[i] = W[i]
  BY <1>w, <1>n, OneMorePassed
<1>2. ASSUME NEW i \in 1..Len(V), NEW m \in 1..Len(entries), NEW k \in 1..Width(m),
             V[i] = Cell(m, k), NEW o \in 1..k - 1
      PROVE  \E q \in 1..i - 1 : V[q] = Cell(m, o)
  <2>1. CASE i = n + 1
    <3>1. Cell(g, h) # Unset
      BY DEF Unset
    <3>2. m = g /\ k = h
      BY <1>1, <1>2, <2>1, <3>1, OneParent DEF Whole
    <3>3. Cell(g, o) \notin U /\ Cell(g, o) \in 1..Len(entries)
      <4>1. o \in 1..h - 1 /\ o \in 1..Width(g)
        <5>1. Width(g) \in Nat
          BY LeftFields DEF Whole
        <5> QED
          BY <3>2, <5>1
      <4> QED
        BY <4>1, ChildUnder
    <3>4. PICK q \in 1..n : W[q] = Cell(g, o)
      BY <3>3, <1>n DEF Passed
    <3> QED
      BY <1>1, <2>1, <3>2, <3>4
  <2>2. CASE i # n + 1
    <3>1. i \in 1..n /\ W[i] = Cell(m, k)
      BY <1>1, <1>2, <2>2
    <3>2. PICK q \in 1..i - 1 : W[q] = Cell(m, o)
      BY <3>1, <1>n DEF Siblings
    <3>3. V[q] = W[q]
      BY <1>1, <3>1
    <3> QED
      BY <3>2, <3>3
  <2> QED
    BY <2>1, <2>2
<1>3. Siblings(V)
  BY <1>2 DEF Siblings
<1> QED
  BY <1>3, <1>w

(* The paths are those that were listed.                                   *)
AllListed(P, l) ==
  /\ \A m \in 1..Len(entries) : \E k \in 1..Len(l) : l[k].path = P[m]
  /\ \A k \in 1..Len(l) : \E m \in 1..Len(entries) : l[k].path = P[m]

LEMMA StillFollowing ==
  ASSUME NEW P, Whole(P), NEW l, Len(l) \in Nat, InOrder(l), AllListed(P, l),
         NEW W, NEW U, Passed(W, U), Following(W, P, l), NEW x \in U,
         x \in 1..Len(entries),
         \A z \in U : z # x => ComesBefore(P[x], P[z], l)
  PROVE  Following(Append(W, x), P, l)
<1>w. PICK V : V = Append(W, x)
  OBVIOUS
<1>n. PICK n : n = Len(W)
  OBVIOUS
<1>1. /\ Len(V) = n + 1 /\ n \in Nat /\ V[n + 1] = x
      /\ \A i \in 1..n : V[i] = W[i]
  BY <1>w, <1>n, OneMorePassed
<1>2. PICK y \in 1..Len(l) : l[y].path = P[x]
  BY DEF AllListed
<1>3. ASSUME NEW i \in 1..n PROVE y # i
  <2> SUFFICES ASSUME y = i PROVE FALSE
    OBVIOUS
  <2>1. P[W[i]] = P[x]
    BY <1>2, <1>n DEF Following
  <2>2. W[i] \in 1..Len(entries) /\ W[i] \notin U
    BY <1>n DEF Passed
  <2>3. W[i] = x
    BY <2>1, <2>2 DEF Whole, Pruned
  <2> QED
    BY <2>2, <2>3
<1>4. ~(n + 1 < y)
  <2> SUFFICES ASSUME n + 1 < y PROVE FALSE
    OBVIOUS
  <2>1. n + 1 \in 1..Len(l)
    BY <1>1
  <2>2. PICK m \in 1..Len(entries) : l[n + 1].path = P[m]
    BY <2>1 DEF AllListed
  <2>3. CASE m \in U
    <3>1. m # x
      <4> SUFFICES ASSUME m = x PROVE FALSE
        OBVIOUS
      <4>1. y = n + 1
        BY <1>2, <2>1, <2>2 DEF InOrder
      <4> QED
        BY <1>1, <4>1
    <3>2. y < n + 1
      BY <3>1, <1>2, <2>1, <2>2, <2>3 DEF ComesBefore
    <3> QED
      BY <3>2, <1>1
  <2>4. CASE m \notin U
    <3>1. PICK i \in 1..n : W[i] = m
      BY <2>4, <1>n DEF Passed
    <3>2. i \in 1..Len(l) /\ l[i].path = P[m]
      BY <3>1, <1>n DEF Following
    <3>3. i = n + 1
      BY <2>1, <2>2, <3>2 DEF InOrder
    <3> QED
      BY <1>1, <3>3
  <2> QED
    BY <2>3, <2>4
<1>5. y = n + 1
  BY <1>1, <1>3, <1>4
<1>6. ASSUME NEW i \in 1..Len(V) PROVE i \in 1..Len(l) /\ l[i].path = P[V[i]]
  <2>1. CASE i = n + 1
    BY <1>1, <1>2, <1>5, <2>1
  <2>2. CASE i # n + 1
    <3>1. i \in 1..n /\ V[i] = W[i]
      BY <1>1, <2>2
    <3> QED
      BY <3>1, <1>n DEF Following
  <2> QED
    BY <2>1, <2>2
<1>7. Following(V, P, l)
  BY <1>6 DEF Following
<1> QED
  BY <1>7, <1>w

-------------------------------------------------------------------------------
(* A walk: where the cursor is, the entries U that are to come and the     *)
(* entries W that it was at, of which it is at the last.                   *)
Visited(P, U, W, o, l) ==
  /\ rootMeta \notin U
  /\ Passed(W, U) /\ Together(W, U, P) /\ Siblings(W)
  /\ Len(W) # 0 /\ W[1] = rootMeta
  /\ ~o.resort => Following(W, P, l)

Walking(c, P, U, W, o, l) ==
  /\ OnWalk(c, P, U) /\ ClosedDown(U) /\ Led(c.parents, U)
  /\ Visited(P, U, W, o, l)
  /\ W[Len(W)] = Meta(c.current)

Ordered(P, o, l) ==
  /\ Len(l) \in Nat /\ InOrder(l) /\ AllListed(P, l)
  /\ \A m \in 1..Len(entries) : IF o.resort THEN AsSorted(entries[m].children)
                                ELSE AsListed(entries[m].children, P, l)

(* The children before the next one of an open folder are not to come.     *)
LEMMA EarlierPassed ==
  ASSUME NEW P, Whole(P), NEW U, NEW a \in Seq(Above), NEW p, Trail(a, p, P), Led(a, U),
         NEW j \in 1..Len(a), Meta(a[j].id) \in 1..Len(entries), Meta(a[j].id) \notin U,
         a[j].next \in 1..Width(Meta(a[j].id))
  PROVE  \A k \in 1..a[j].next - 1 : Cell(Meta(a[j].id), k) \notin U
<1> SUFFICES ASSUME NEW k \in 1..a[j].next - 1, Cell(Meta(a[j].id), k) \in U PROVE FALSE
  OBVIOUS
<1>1. Width(Meta(a[j].id)) \in Nat
  BY LeftFields DEF Whole
<1>2. k \in 1..Width(Meta(a[j].id)) /\ k < a[j].next
  BY <1>1
<1>3. PICK i \in 1..Len(a) : Meta(a[i].id) = Meta(a[j].id) /\ a[i].next <= k
  BY <1>2 DEF Led
<1>4. Len(P[Meta(a[i].id)]) = i - 1 /\ Len(P[Meta(a[j].id)]) = j - 1
  BY DEF Trail, InTrail
<1>5. i = j
  <2>1. i - 1 = j - 1
    BY <1>3, <1>4
  <2> QED
    BY <2>1
<1> QED
  BY <1>2, <1>3, <1>5

(* One step of a walk.                                                     *)
LEMMA VisitedOn ==
  ASSUME NEW P, Whole(P), NEW l, NEW o, Ordered(P, o, l),
         NEW c, NEW U, NEW W, Walking(c, P, U, W, o, l),
         NEW j \in 1..Len(c.parents), NEW d, Moved(c, d, j, P, U),
         NEW x, x = Meta(NextId(c.parents, j))
  PROVE  x \in U /\ Visited(P, U \ {x}, Append(W, x), o, l)
<1>a. PICK a \in Seq(Above), p \in Seq(Names) :
        a = c.parents /\ Trail(a, p, P) /\ Pending(a, U) /\ Followed(a)
  BY WalkFields DEF Walking
<1>1. OnWalk(c, P, U) /\ ClosedDown(U) /\ Led(a, U) /\ Passed(W, U) /\ rootMeta \notin U
  BY <1>a DEF Walking, Visited
<1>2. /\ a[j].next \in 1..Width(Meta(a[j].id))
      /\ Meta(a[j].id) \in 1..Len(entries) /\ Meta(a[j].id) \notin U
      /\ x = Cell(Meta(a[j].id), a[j].next)
  BY <1>a, <1>1, MovedOn
<1>3. x \in U /\ Finished(a, j)
  BY <1>a DEF Moved
<1>4. x \in 1..Len(entries) /\ j \in 1..Len(a)
  BY <1>a, <1>1, <1>3 DEF ClosedDown
<1>5. Passed(Append(W, x), U \ {x})
  BY <1>1, <1>3, <1>4, OneMorePassed
<1>6. Together(Append(W, x), U \ {x}, P)
  <2>1. ASSUME NEW y \in 1..Len(entries), NEW z \in U, y \notin U, Under(P[y], P[z])
        PROVE  Under(P[y], P[x])
    BY <1>a, <1>1, <1>2, <1>3, <1>4, <2>1, StillAbove
  <2> QED
    BY <1>1, <1>3, <1>4, <2>1, StillTogether DEF Walking, Visited
<1>7. Siblings(Append(W, x))
  <2>1. \A k \in 1..a[j].next - 1 : Cell(Meta(a[j].id), k) \notin U
    BY <1>a, <1>1, <1>2, <1>4, EarlierPassed
  <2> QED
    BY <1>1, <1>2, <1>3, <1>4, <2>1, StillInOrder DEF Walking, Visited
<1>8. ASSUME ~o.resort PROVE Following(Append(W, x), P, l)
  <2>1. /\ \A m \in 1..Len(entries) : AsListed(entries[m].children, P, l)
        /\ Len(l) \in Nat /\ InOrder(l) /\ AllListed(P, l)
    BY <1>8 DEF Ordered
  <2>2. \A m \in 1..Len(entries) : \E k \in 1..Len(l) : l[k].path = P[m]
    BY <2>1 DEF AllListed
  <2>3. ASSUME NEW z \in U, z # x PROVE ComesBefore(P[x], P[z], l)
    BY <1>a, <1>1, <1>2, <1>3, <1>4, <2>1, <2>2, <2>3, NextIsFirst
  <2>4. Following(W, P, l)
    BY <1>8 DEF Walking, Visited
  <2> QED
    BY <1>1, <1>3, <1>4, <2>1, <2>3, <2>4, StillFollowing
<1>9. Len(Append(W, x)) # 0 /\ Append(W, x)[1] = rootMeta
  <2>1. /\ Len(Append(W, x)) = Len(W) + 1 /\ Len(W) \in Nat
        /\ \A i \in 1..Len(W) : Append(W, x)[i] = W[i]
    BY <1>1, <1>3, <1>4, OneMorePassed
  <2>2. Len(W) # 0 /\ W[1] = rootMeta
    BY DEF Walking, Visited
  <2> QED
    BY <2>1, <2>2
<1> QED
  BY <1>1, <1>3, <1>5, <1>6, <1>7, <1>8, <1>9 DEF Visited

LEMMA WalkingOn ==
  ASSUME NEW P, Whole(P), NEW l, NEW o, Ordered(P, o, l),
         NEW c, NEW U, NEW W, Walking(c, P, U, W, o, l)
  PROVE  \/ Advance(c) = Cleared /\ U = {}
         \/ \E x \in U : Walking(Advance(c), P, U \ {x}, Append(W, x), o, l)
<1>1. /\ OnWalk(c, P, U) /\ ClosedDown(U) /\ Led(c.parents, U) /\ Passed(W, U)
      /\ rootMeta \notin U /\ Pruned(P)
  BY DEF Walking, Visited, Whole
<1>2. CASE Advance(c) = Cleared /\ Finished(c.parents, 0)
  BY <1>1, <1>2, EndIsAll
<1>3. ASSUME NEW j \in 1..Len(c.parents), Moved(c, Advance(c), j, P, U)
      PROVE  \E x \in U : Walking(Advance(c), P, U \ {x}, Append(W, x), o, l)
  <2>x. PICK x : x = Meta(NextId(c.parents, j))
    OBVIOUS
  <2>1. x \in U /\ Visited(P, U \ {x}, Append(W, x), o, l)
    BY <1>3, <2>x, VisitedOn
  <2>2. Led(Advance(c).parents, U \ {x})
    BY <1>1, <1>3, <2>x, LedOn
  <2>3. /\ OnWalk(Advance(c), P, U \ {x}) /\ ClosedDown(U \ {x})
        /\ Meta(Advance(c).current) = x
    BY <1>3, <2>x DEF Moved
  <2>4. x \in 1..Len(entries)
    BY <1>1, <2>1 DEF ClosedDown
  <2>5. Len(Append(W, x)) = Len(W) + 1 /\ Len(W) \in Nat /\ Append(W, x)[Len(W) + 1] = x
    BY <1>1, <2>1, <2>4, OneMorePassed
  <2>6. Append(W, x)[Len(Append(W, x))] = Meta(Advance(c).current)
    BY <2>3, <2>5
  <2>7. Walking(Advance(c), P, U \ {x}, Append(W, x), o, l)
    BY <2>1, <2>2, <2>3, <2>6 DEF Walking
  <2> QED
    BY <2>1, <2>7
<1> QED
  BY <1>1, <1>2, <1>3, NextStepOrEnd

-------------------------------------------------------------------------------
(* What a built index is.                                                  *)
LEMMA BuiltWhole ==
  ASSUME IndexInv, OnceInv, pc = "built", NEW P, Indexed(P), FaithfulIndex(P)
  PROVE  /\ Whole(P) /\ Len(P) = Len(entries)
         /\ \A m \in 1..Len(entries) : Listed(listing, P[m], entries[m].info.isDir)
         /\ \A k \in 1..Len(listing) : \E m \in 1..Len(entries) : P[m] = listing[k].path
<1>1. BuildInv /\ parents = <<>>
  BY DEF IndexInv, BuildInv
<1>2. Whole(P)
  BY <1>1, WalkOf, BuiltIndex DEF Whole
<1>3. Len(P) = Len(entries)
  BY <1>2 DEF Whole, Pruned
<1>4. Recorded(parents, entries, P, listing, Waiting) /\ Waiting = {}
  BY DEF Indexed, Waiting
<1>5. \A k \in 1..Len(listing) : HasPlace(parents, P, listing[k].path)
  BY <1>4 DEF Recorded
<1>6. \A k \in 1..Len(listing) : \E m \in 1..Len(entries) : P[m] = listing[k].path
  BY <1>1, <1>3, <1>5 DEF HasPlace
<1> QED
  BY <1>2, <1>3, <1>4, <1>6 DEF Recorded

LEMMA BuiltOrdered ==
  ASSUME IndexInv, OnceInv, pc = "built", NEW P, Indexed(P), FaithfulIndex(P)
  PROVE  Ordered(P, options, listing)
<1>1. /\ \A m \in 1..Len(entries) : Listed(listing, P[m], entries[m].info.isDir)
      /\ \A k \in 1..Len(listing) : \E m \in 1..Len(entries) : P[m] = listing[k].path
  BY BuiltWhole
<1>2. AllListed(P, listing)
  BY <1>1 DEF AllListed, Listed
<1>3. InOrder(listing)
  BY DEF IndexInv, ListingInv
<1>4. Len(listing) \in Nat
  BY ListingFields DEF IndexInv, BuildInv
<1>5. Arranged(options, parents, entries, P, listing)
  BY FaithfulIs DEF Faithful
<1>6. \A m \in 1..Len(entries) : IF options.resort THEN AsSorted(entries[m].children)
                                 ELSE AsListed(entries[m].children, P, listing)
  BY <1>5 DEF Arranged
<1> QED
  BY <1>2, <1>3, <1>4, <1>6 DEF Ordered

(* The root was listed first.                                              *)
LEMMA RootFirst ==
  ASSUME NEW P, Whole(P), NEW l, NEW o, Ordered(P, o, l)
  PROVE  1 \in 1..Len(l) /\ l[1].path = P[rootMeta]
<1>1. P[rootMeta] = <<>> /\ rootMeta \in 1..Len(entries) /\ P \in Seq(Seq(Names))
      /\ Len(P) = Len(entries)
  BY DEF Whole, Pruned, RootStored
<1>2. Len(l) \in Nat /\ InOrder(l) /\ AllListed(P, l)
  BY DEF Ordered
<1>3. PICK k \in 1..Len(l) : l[k].path = P[rootMeta]
  BY <1>1, <1>2 DEF AllListed
<1>4. 1 \in 1..Len(l)
  BY <1>2, <1>3
<1>5. PICK m \in 1..Len(entries) : l[1].path = P[m]
  BY <1>2, <1>4 DEF AllListed
<1>6. P[m] \in Seq(Names)
  BY PathOf
<1>7. ASSUME P[m] # <<>> PROVE FALSE
  <2>e. PICK e : e = <<>>
    OBVIOUS
  <2>1. e \in Seq(Names) /\ Len(e) = 0
    BY <2>e
  <2>2. Len(P[m]) # 0 /\ Len(P[m]) \in Nat
    BY <1>6, <1>7
  <2>3. Under(e, l[1].path)
    BY <1>5, <2>1, <2>2 DEF Under
  <2>4. \E j \in 1..1 - 1 : l[j].path = e
    <3>1. \A k1 \in 1..Len(l) : \A r \in Seq(Names) :
            Under(r, l[k1].path) => \E j \in 1..k1 - 1 : l[j].path = r
      BY <1>2 DEF InOrder
    <3> QED
      BY <1>4, <2>1, <2>3, <3>1
  <2> QED
    BY <2>4
<1> QED
  BY <1>1, <1>4, <1>5, <1>7

(* A walk starts with the root.                                            *)
LEMMA WalkingStarts ==
  ASSUME NEW P, Whole(P), NEW l, NEW o, Ordered(P, o, l),
         NEW U, U = 1..Len(entries) \ {rootMeta}, ClosedDown(U), OnWalk(AtRoot, P, U)
  PROVE  Walking(AtRoot, P, U, <<rootMeta>>, o, l)
<1>r. rootMeta \in 1..Len(entries) /\ rootMeta \notin U
  BY DEF Whole, Pruned, RootStored
<1>w. PICK W : W = <<rootMeta>>
  OBVIOUS
<1>1. Len(W) = 1 /\ W[1] = rootMeta /\ W \in Seq(1..Len(entries))
  BY <1>w, <1>r
<1>2. Passed(W, U)
  BY <1>r, <1>1 DEF Passed
<1>3. Together(W, U, P)
  BY <1>1 DEF Together
<1>4. Siblings(W)
  <2>1. ASSUME NEW m \in 1..Len(entries), NEW k \in 1..Width(m), Cell(m, k) = rootMeta PROVE FALSE
    BY <2>1, ChildUnder
  <2> QED
    BY <1>1, <2>1 DEF Siblings
<1>5. Following(W, P, l)
  BY <1>1, RootFirst DEF Following
<1>6. Visited(P, U, W, o, l)
  BY <1>r, <1>1, <1>2, <1>3, <1>4, <1>5 DEF Visited
<1>7. AtRoot.current = Root /\ Len(AtRoot.parents) = 1 /\ AtRoot.parents[1].id = Root
      /\ AtRoot.parents[1].next = 1
  BY DEF AtRoot, Cleared
<1>8. Meta(Root) = rootMeta
  BY DEF Meta
<1>9. Led(AtRoot.parents, U)
  <2>1. ASSUME NEW m \in 1..Len(entries), m \notin U, NEW k \in 1..Width(m)
        PROVE  Meta(AtRoot.parents[1].id) = m /\ AtRoot.parents[1].next <= k
    BY <2>1, <1>7, <1>8
  <2> QED
    BY <1>7, <2>1 DEF Led
<1>10. Len(W) # 0 /\ W[Len(W)] = Meta(AtRoot.current)
  BY <1>1, <1>7, <1>8
<1> QED
  BY <1>w, <1>6, <1>9, <1>10 DEF Walking

(* A walk stays one as long as the index does not change.                  *)
LEMMA WalkKept ==
  ASSUME entries' = entries, rootMeta' = rootMeta, NEW P, NEW U
  PROVE  /\ \A c : OnWalk(c, P, U) => OnWalk(c, P, U)'
         /\ ClosedDown(U) => ClosedDown(U)'
         /\ \A a : Led(a, U) => Led(a, U)'
<1>1. \A e : Meta(e)' = Meta(e) /\ FileName(e)' = FileName(e)
  BY DEF Meta, FileName
<1>2. \A e : IsFolder(e)' = IsFolder(e)
  BY <1>1 DEF IsFolder
<1>3. \A e, f : IsChild(e, f)' <=> IsChild(e, f)
  BY DEF IsChild
<1>4. \A id, i, p : InTrail(id, i, p, P)' <=> InTrail(id, i, p, P)
  BY <1>1, <1>2 DEF InTrail
<1>5. \A m : Width(m)' = Width(m)
  BY DEF Width
<1>6. \A m, k : Cell(m, k)' = Cell(m, k)
  BY DEF Cell
<1>7. \A a, p : Trail(a, p, P) => Trail(a, p, P)'
  BY <1>1, <1>3, <1>4 DEF Trail
<1>8. \A a : Pending(a, U) => Pending(a, U)'
  BY <1>1, <1>5, <1>6 DEF Pending
<1>9. \A a, e, p : Fresh(a, e, p, U) => Fresh(a, e, p, U)'
  <2>1. \A a, e, p : AtFile(a, e, p) => AtFile(a, e, p)'
    BY <1>1, <1>2, <1>3 DEF AtFile
  <2> QED
    BY <1>1, <2>1 DEF Fresh, AtFolder
<1>10. \A c : OnWalk(c, P, U) => OnWalk(c, P, U)'
  BY <1>7, <1>8, <1>9 DEF OnWalk, Tidy, Followed
<1>11. ClosedDown(U) => ClosedDown(U)'
  BY <1>5, <1>6 DEF ClosedDown
<1>12. \A a : Led(a, U) => Led(a, U)'
  BY <1>1, <1>5, <1>6 DEF Led
<1> QED
  BY <1>10, <1>11, <1>12

LEMMA WalkingKept ==
  ASSUME entries' = entries, rootMeta' = rootMeta, NEW P, NEW U, NEW W, NEW o, NEW l
  PROVE  /\ Visited(P, U, W, o, l) => Visited(P, U, W, o, l)'
         /\ \A c : Walking(c, P, U, W, o, l) => Walking(c, P, U, W, o, l)'
<1>1. \A e : Meta(e)' = Meta(e)
  BY DEF Meta
<1>5. \A m : Width(m)' = Width(m)
  BY DEF Width
<1>6. \A m, k : Cell(m, k)' = Cell(m, k)
  BY DEF Cell
<1>10. \A c : OnWalk(c, P, U) => OnWalk(c, P, U)'
  BY WalkKept
<1>11. ClosedDown(U) => ClosedDown(U)'
  BY WalkKept
<1>12. \A a : Led(a, U) => Led(a, U)'
  BY WalkKept
<1>13. Passed(W, U) => Passed(W, U)'
  BY DEF Passed
<1>14. Siblings(W) => Siblings(W)'
  BY <1>5, <1>6 DEF Siblings
<1>15. Visited(P, U, W, o, l) => Visited(P, U, W, o, l)'
  BY <1>13, <1>14 DEF Visited, Together, Following
<1> QED
  BY <1>1, <1>10, <1>11, <1>12, <1>15 DEF Walking

-------------------------------------------------------------------------------
(* What FsIndexToCsv has produced: the records of the entries that the     *)
(* cursor has left.                                                        *)
Line == [path : Seq(Names), isDir : BOOLEAN, size : Nat, files : Nat, folders : Nat]
LineOf(m, P) ==
  LET info == entries[m].info IN
  [path |-> P[m], isDir |-> info.isDir, size |-> info.size, files |-> info.files,
   folders |-> info.folders]

Shown(out, W, n, P) ==
  /\ out \in Seq(Line) /\ Len(out) = n
  /\ \A i \in 1..n : out[i] = LineOf(W[i], P)

CsvAt(c, P, out, o, l) ==
  \E U, W : /\ Visited(P, U, W, o, l)
            /\ \/ Walking(c, P, U, W, o, l) /\ Shown(out, W, Len(W) - 1, P)
               \/ c = Cleared /\ U = {} /\ Shown(out, W, Len(W), P)

LEMMA LineFields ==
  ASSUME NEW P, Whole(P), NEW m \in 1..Len(entries)
  PROVE  /\ LineOf(m, P) \in Line /\ LineOf(m, P).path = P[m]
         /\ LineOf(m, P).isDir = entries[m].info.isDir
         /\ LineOf(m, P).size = entries[m].info.size
         /\ LineOf(m, P).files = entries[m].info.files
         /\ LineOf(m, P).folders = entries[m].info.folders
<1>1. entries[m].info \in Info /\ P[m] \in Seq(Names)
  BY LeftFields DEF Whole
<1> QED
  BY <1>1 DEF LineOf, Line, Info

LEMMA OneMoreShown ==
  ASSUME NEW P, Whole(P), NEW out, NEW W, NEW n \in Nat, Shown(out, W, n, P),
         NEW m \in 1..Len(entries), NEW V, V[n + 1] = m, \A i \in 1..n : V[i] = W[i]
  PROVE  Shown(Append(out, LineOf(m, P)), V, n + 1, P)
<1>r. PICK r : r = LineOf(m, P)
  OBVIOUS
<1>1. r \in Line
  BY <1>r, LineFields
<1>2. out \in Seq(Line) /\ Len(out) = n
  BY DEF Shown
<1>3. /\ Append(out, r) \in Seq(Line) /\ Len(Append(out, r)) = n + 1
      /\ Append(out, r)[n + 1] = r /\ \A i \in 1..n : Append(out, r)[i] = out[i]
  BY <1>1, <1>2, Appended
<1>4. ASSUME NEW i \in 1..n + 1 PROVE Append(out, r)[i] = LineOf(V[i], P)
  <2>1. ASSUME i \in 1..n PROVE Append(out, r)[i] = LineOf(V[i], P)
    <3>1. out[i] = LineOf(W[i], P) /\ V[i] = W[i]
      BY <2>1 DEF Shown
    <3> QED
      BY <2>1, <3>1, <1>3
  <2>2. i \in 1..n \/ i = n + 1
    OBVIOUS
  <2> QED
    BY <2>1, <2>2, <1>3, <1>r
<1> QED
  BY <1>3, <1>4, <1>r DEF Shown

LEMMA CsvStep ==
  ASSUME NEW P, Whole(P), NEW l, NEW o, Ordered(P, o, l), NEW c, NEW out,
         CsvAt(c, P, out, o, l), c.current # NoEntry
  PROVE  CsvAt(Advance(c), P, Append(out, LineOf(Meta(c.current), P)), o, l)
<1>1. PICK U, W : Walking(c, P, U, W, o, l) /\ Shown(out, W, Len(W) - 1, P)
  BY ClearedFields DEF CsvAt
<1>m. PICK m : m = Meta(c.current)
  OBVIOUS
<1>2. /\ Visited(P, U, W, o, l) /\ Passed(W, U) /\ ClosedDown(U)
      /\ Len(W) # 0 /\ W[Len(W)] = m
  BY <1>1, <1>m DEF Walking, Visited
<1>3. Len(W) \in Nat /\ W \in Seq(1..Len(entries))
  BY <1>2 DEF Passed
<1>4. m \in 1..Len(entries) /\ Len(W) - 1 \in Nat /\ Len(W) - 1 + 1 = Len(W)
  <2>1. Len(W) \in 1..Len(W)
    BY <1>2, <1>3
  <2>2. W[Len(W)] \in 1..Len(entries)
    BY <1>3, <2>1
  <2> QED
    BY <1>2, <1>3, <2>2
<1>n. PICK n \in Nat : n = Len(W) - 1
  BY <1>4
<1>5. CASE Advance(c) = Cleared /\ U = {}
  <2>1. Shown(Append(out, LineOf(m, P)), W, n + 1, P)
    BY <1>1, <1>2, <1>4, <1>n, OneMoreShown
  <2>2. Shown(Append(out, LineOf(m, P)), W, Len(W), P)
    BY <2>1, <1>n, <1>4
  <2> QED
    BY <1>2, <1>5, <2>2, <1>m DEF CsvAt
<1>6. ASSUME NEW x \in U, Walking(Advance(c), P, U \ {x}, Append(W, x), o, l)
      PROVE  CsvAt(Advance(c), P, Append(out, LineOf(m, P)), o, l)
  <2>1. x \in 1..Len(entries)
    BY <1>2 DEF ClosedDown
  <2>2. Len(Append(W, x)) = Len(W) + 1 /\ \A i \in 1..Len(W) : Append(W, x)[i] = W[i]
    BY <1>2, <2>1, OneMorePassed
  <2>3. Append(W, x)[n + 1] = m /\ \A i \in 1..n : Append(W, x)[i] = W[i]
    BY <2>2, <1>2, <1>3, <1>4, <1>n
  <2>4. Shown(Append(out, LineOf(m, P)), Append(W, x), n + 1, P)
    BY <1>1, <1>4, <1>n, <2>3, OneMoreShown
  <2>5. n + 1 = Len(Append(W, x)) - 1
    BY <2>2, <1>3, <1>n
  <2>6. Visited(P, U \ {x}, Append(W, x), o, l)
    BY <1>6 DEF Walking
  <2> QED
    BY <1>6, <2>4, <2>5, <2>6 DEF CsvAt
<1> QED
  BY <1>1, <1>5, <1>6, <1>m, WalkingOn

LEMMA CsvAtKept ==
  ASSUME entries' = entries, rootMeta' = rootMeta, NEW P, NEW c, NEW out, NEW o, NEW l,
         CsvAt(c, P, out, o, l)
  PROVE  CsvAt(c, P, out, o, l)'
<1>1. PICK U, W :
        /\ Visited(P, U, W, o, l)
        /\ \/ Walking(c, P, U, W, o, l) /\ Shown(out, W, Len(W) - 1, P)
           \/ c = Cleared /\ U = {} /\ Shown(out, W, Len(W), P)
  BY DEF CsvAt
<1>2. \A n : Shown(out, W, n, P) => Shown(out, W, n, P)'
  BY DEF Shown, LineOf
<1>3. /\ Visited(P, U, W, o, l)'
      /\ Walking(c, P, U, W, o, l) => Walking(c, P, U, W, o, l)'
  BY <1>1, WalkingKept
<1>4. \/ Walking(c, P, U, W, o, l)' /\ Shown(out, W, Len(W) - 1, P)'
      \/ c = Cleared' /\ U = {} /\ Shown(out, W, Len(W), P)'
  BY <1>1, <1>2, <1>3 DEF Cleared, NoEntry
<1> QED
  BY <1>3, <1>4 DEF CsvAt

CsvInv ==
  /\ OnceInv
  /\ user = "none" => output = <<>>
  /\ user = "csv" =>
       \E P, c, out, o, l :
         /\ c = cursor /\ out = output /\ o = options /\ l = listing
         /\ Indexed(P) /\ FaithfulIndex(P) /\ CsvAt(c, P, out, o, l)

WalkInv == CursorInv /\ IndexInv /\ CsvInv

LEMMA InitWalkInv == CursorInit => WalkInv
<1> SUFFICES ASSUME CursorInit PROVE WalkInv
  OBVIOUS
<1>1. Init /\ user = "none" /\ output = <<>>
  BY DEF CursorInit
<1> QED
  BY <1>1, InitCursorInv, InitIndex, InitOnce DEF WalkInv, CsvInv

(* The index of a walk that goes on.                                       *)
LEMMA SameIndex ==
  ASSUME UNCHANGED indexVars, NEW P, Indexed(P), FaithfulIndex(P)
  PROVE  Indexed(P)' /\ FaithfulIndex(P)'
<1>1. UNCHANGED <<options, listing, parents, entries, rootMeta, item, pc>>
  BY DEF indexVars
<1>2. Indexed(P)'
  BY <1>1 DEF Indexed, RootStored, ItemWaits, InOpenFolders, Waiting
<1>3. Seen' = Seen
  BY <1>1 DEF Seen
<1> QED
  BY <1>1, <1>2, <1>3 DEF FaithfulIndex

LEMMA CsvStarts ==
  ASSUME IndexInv, OnceInv, UNCHANGED indexVars, pc = "built", cursor' = AtRoot, output' = <<>>
  PROVE  \E P, c, out, o, l :
           /\ c = cursor' /\ out = output' /\ o = options' /\ l = listing'
           /\ Indexed(P)' /\ FaithfulIndex(P)' /\ CsvAt(c, P, out, o, l)'
<1>1. PICK P : Indexed(P) /\ FaithfulIndex(P)
  BY DEF IndexInv
<1>2. PICK o, l, c, out : o = options /\ l = listing /\ c = cursor' /\ out = output'
  OBVIOUS
<1>3. Whole(P) /\ Ordered(P, o, l)
  BY <1>1, <1>2, BuiltWhole, BuiltOrdered
<1>4. PICK U : U = 1..Len(entries) \ {rootMeta}
  OBVIOUS
<1>5. ClosedDown(U) /\ OnWalk(AtRoot, P, U)
  BY <1>1, <1>4, WalkOf DEF IndexInv
<1>6. PICK W : W = <<rootMeta>>
  OBVIOUS
<1>7. Walking(c, P, U, W, o, l)
  BY <1>2, <1>3, <1>4, <1>5, <1>6, WalkingStarts
<1>8. Shown(out, W, Len(W) - 1, P)
  <2>1. Len(W) - 1 = 0
    BY <1>6
  <2>2. out = <<>> /\ out \in Seq(Line) /\ Len(out) = 0
    BY <1>2
  <2>3. Shown(out, W, 0, P)
    BY <2>2 DEF Shown
  <2> QED
    BY <2>1, <2>3
<1>9. CsvAt(c, P, out, o, l)
  BY <1>7, <1>8 DEF CsvAt, Walking
<1>10. CsvAt(c, P, out, o, l)'
  BY <1>9, CsvAtKept DEF indexVars
<1>11. Indexed(P)' /\ FaithfulIndex(P)'
  BY <1>1, SameIndex
<1>12. o = options' /\ l = listing'
  BY <1>2 DEF indexVars
<1> QED
  BY <1>2, <1>10, <1>11, <1>12

LEMMA CsvGoesOn ==
  ASSUME IndexInv, OnceInv, CsvInv, UNCHANGED indexVars, pc = "built", user = "csv",
         \/ UNCHANGED cursorVars
         \/ cursor.current # NoEntry /\ output' = Append(output, Selected)
            /\ cursor' = Advance(cursor)
  PROVE  \E P, c, out, o, l :
           /\ c = cursor' /\ out = output' /\ o = options' /\ l = listing'
           /\ Indexed(P)' /\ FaithfulIndex(P)' /\ CsvAt(c, P, out, o, l)'
<1>1. PICK P, c, out, o, l :
        /\ c = cursor /\ out = output /\ o = options /\ l = listing
        /\ Indexed(P) /\ FaithfulIndex(P) /\ CsvAt(c, P, out, o, l)
  BY DEF CsvInv
<1>2. Whole(P) /\ Ordered(P, o, l)
  BY <1>1, BuiltWhole, BuiltOrdered
<1>3. Indexed(P)' /\ FaithfulIndex(P)' /\ o = options' /\ l = listing'
  BY <1>1, SameIndex DEF indexVars
<1>4. CASE UNCHANGED cursorVars
  <2>1. CsvAt(c, P, out, o, l)'
    BY <1>1, CsvAtKept DEF indexVars
  <2> QED
    BY <1>1, <1>3, <1>4, <2>1 DEF cursorVars
<1>5. ASSUME cursor.current # NoEntry, output' = Append(output, Selected), cursor' = Advance(cursor)
      PROVE  \E d, new :
               d = cursor' /\ new = output' /\ CsvAt(d, P, new, o, l)'
  <2>1. PICK d, new : d = Advance(c) /\ new = Append(out, LineOf(Meta(c.current), P))
    OBVIOUS
  <2>2. CsvAt(d, P, new, o, l)
    BY <1>1, <1>2, <1>5, <2>1, CsvStep
  <2>3. CsvAt(d, P, new, o, l)'
    BY <2>2, CsvAtKept DEF indexVars
  <2>4. LineOf(Meta(c.current), P) = Selected
    <3>1. PICK U, W : Walking(c, P, U, W, o, l)
      BY <1>1, <1>5, ClearedFields DEF CsvAt
    <3>2. P[Meta(c.current)] = c.path
      BY <1>2, <3>1, PlaceOnWalk DEF Walking, Whole
    <3> QED
      BY <1>1, <3>2 DEF LineOf, Selected
  <2> QED
    BY <1>1, <1>5, <2>1, <2>3, <2>4
<1> QED
  BY <1>3, <1>4, <1>5

LEMMA WalkInvKept == WalkInv /\ [Next]_vars => WalkInv'
<1> SUFFICES ASSUME WalkInv, [Next]_vars PROVE WalkInv'
  OBVIOUS
<1>1. CursorInv /\ IndexInv /\ CsvInv /\ OnceInv /\ CursorInv'
  BY CursorInvKept DEF WalkInv, CsvInv
<1>2. [BuildNext]_indexVars
  BY DEF Next, vars
<1>3. IndexInv' /\ OnceInv'
  BY <1>1, <1>2, IndexKept, OnceKept DEF IndexInv
<1> SUFFICES CsvInv'
  BY <1>1, <1>3 DEF WalkInv
<1>4. user # "none" => pc = "built"
  BY <1>1 DEF CursorInv
<1>5. ASSUME BuildNext, UNCHANGED cursorVars PROVE CsvInv'
  <2>1. pc # "built"
    BY <1>5 DEF BuildNext, Read, Panic, Take, Refuse, EndOfRecords, FinishFolder, AddFolder,
                AddFile, Built
  <2>2. user' = "none" /\ output' = <<>>
    BY <1>1, <1>4, <1>5, <2>1 DEF cursorVars, CsvInv
  <2> QED
    BY <1>3, <2>2 DEF CsvInv
<1>6. ASSUME UNCHANGED indexVars, SetRoot PROVE CsvInv'
  <2>1. /\ pc = "built" /\ cursor' = AtRoot /\ output' = <<>> /\ user' # "none"
    BY <1>1, <1>6 DEF SetRoot, CsvInv
  <2> QED
    BY <1>1, <1>3, <1>6, <2>1, CsvStarts DEF CsvInv
<1>7. ASSUME UNCHANGED indexVars, CsvNext PROVE CsvInv'
  <2>1. /\ user = "csv" /\ user' = "csv"
        /\ cursor.current # NoEntry /\ output' = Append(output, Selected)
        /\ cursor' = Advance(cursor)
    BY <1>7 DEF CsvNext
  <2> QED
    BY <1>1, <1>3, <1>4, <1>7, <2>1, CsvGoesOn DEF CsvInv
<1>8. ASSUME UNCHANGED indexVars, Navigate \/ QDirStatFile \/ QDirStatFolder PROVE CsvInv'
  <2>1. user' # "none" /\ user' # "csv"
    BY <1>8 DEF Navigate, QDirStatFile, QDirStatFolder, IsQDirStat
  <2> QED
    BY <1>3, <2>1 DEF CsvInv
<1>9. ASSUME UNCHANGED vars PROVE CsvInv'
  <2>1. UNCHANGED indexVars /\ UNCHANGED cursorVars /\ user' = user /\ output' = output
    BY <1>9 DEF vars, cursorVars
  <2>2. ASSUME user = "csv" PROVE CsvInv'
    BY <1>1, <1>3, <1>4, <2>1, <2>2, CsvGoesOn DEF CsvInv
  <2>3. ASSUME user # "csv" PROVE CsvInv'
    BY <1>1, <1>3, <2>1, <2>3 DEF CsvInv
  <2> QED
    BY <2>2, <2>3
<1> QED
  BY <1>5, <1>6, <1>7, <1>8, <1>9 DEF Next, CursorNext

LEMMA WalkInvHolds == Spec => []WalkInv
BY InitWalkInv, WalkInvKept, PTL DEF Spec

-------------------------------------------------------------------------------
(* The whole output: a record of every entry.                              *)
CsvEnd(P, W, out, o, l) ==
  /\ Whole(P) /\ Ordered(P, o, l) /\ Visited(P, {}, W, o, l) /\ Shown(out, W, Len(W), P)
  /\ FilesSized(entries, P, l) /\ PathsNamed(l)
  /\ \A m \in 1..Len(entries) : Listed(l, P[m], entries[m].info.isDir)
  /\ \A k \in 1..Len(l) : \E m \in 1..Len(entries) : P[m] = l[k].path

LEMMA CsvEnds ==
  ASSUME WalkInv, CsvDone
  PROVE  \E P, W, out, o, l :
           /\ out = output /\ o = options /\ l = listing
           /\ FaithfulIndex(P) /\ pc = "built" /\ CsvEnd(P, W, out, o, l)
<1>1. PICK P, c, out, o, l :
        /\ c = cursor /\ out = output /\ o = options /\ l = listing
        /\ Indexed(P) /\ FaithfulIndex(P) /\ CsvAt(c, P, out, o, l)
  BY DEF WalkInv, CsvInv, CsvDone
<1>2. pc = "built" /\ IndexInv /\ OnceInv /\ IndexTypeOK
  BY DEF WalkInv, CsvInv, CursorInv, CsvDone
<1>3. Whole(P) /\ Ordered(P, o, l)
  BY <1>1, <1>2, BuiltWhole, BuiltOrdered
<1>4. c.current = NoEntry
  BY <1>1 DEF CsvDone
<1>5. PICK U, W :
        /\ Visited(P, U, W, o, l)
        /\ \/ Walking(c, P, U, W, o, l)
           \/ U = {} /\ Shown(out, W, Len(W), P)
  BY <1>1 DEF CsvAt
<1>6. ASSUME Walking(c, P, U, W, o, l) PROVE FALSE
  <2>1. OnWalk(c, P, U) /\ Pruned(P)
    BY <1>3, <1>6 DEF Walking, Whole
  <2> QED
    BY <1>4, <2>1, PlaceOnWalk
<1>7. Visited(P, {}, W, o, l) /\ Shown(out, W, Len(W), P)
  BY <1>5, <1>6
<1>8. FilesSized(entries, P, l)
  <2>1. Faithful(options, parents, entries, P, listing, Seen)
    BY <1>1, FaithfulIs
  <2> QED
    BY <1>1, <2>1 DEF Faithful
<1>9. PathsNamed(l)
  BY <1>1, <1>2, ListingFields
<1>10. /\ \A m \in 1..Len(entries) : Listed(l, P[m], entries[m].info.isDir)
       /\ \A k \in 1..Len(l) : \E m \in 1..Len(entries) : P[m] = l[k].path
  BY <1>1, <1>2, BuiltWhole
<1> QED
  BY <1>1, <1>2, <1>3, <1>7, <1>8, <1>9, <1>10 DEF CsvEnd

LEMMA LineIs ==
  ASSUME NEW P, NEW W, NEW out, NEW o, NEW l, CsvEnd(P, W, out, o, l), NEW i \in 1..Len(out)
  PROVE  /\ W[i] \in 1..Len(entries) /\ i \in 1..Len(W) /\ P[W[i]] \in Seq(Names)
         /\ out[i].path = P[W[i]] /\ out[i].isDir = entries[W[i]].info.isDir
         /\ out[i].size = entries[W[i]].info.size
         /\ out[i].files = entries[W[i]].info.files
         /\ out[i].folders = entries[W[i]].info.folders
<1>1. Whole(P) /\ Passed(W, {}) /\ Len(out) = Len(W) /\ out[i] = LineOf(W[i], P)
  BY DEF CsvEnd, Shown, Visited
<1>2. i \in 1..Len(W) /\ W[i] \in 1..Len(entries)
  BY <1>1 DEF Passed
<1>3. P[W[i]] \in Seq(Names)
  BY <1>1, <1>2, PathOf
<1> QED
  BY <1>1, <1>2, <1>3, LineFields

LEMMA EndFields ==
  ASSUME NEW P, NEW W, NEW out, NEW o, NEW l, CsvEnd(P, W, out, o, l)
  PROVE  /\ Len(out) = Len(W) /\ Len(out) \in Nat /\ DOMAIN out = 1..Len(out)
         /\ Len(l) \in Nat /\ InOrder(l)
         /\ \A m \in 1..Len(entries) : \E i \in 1..Len(out) : W[i] = m
         /\ \A i, j \in 1..Len(out) : W[i] = W[j] => i = j
         /\ \A m, n \in 1..Len(entries) : P[m] = P[n] => m = n
<1>1. Passed(W, {}) /\ Shown(out, W, Len(W), P) /\ Ordered(P, o, l) /\ Whole(P)
  BY DEF CsvEnd, Visited
<1>2. out \in Seq(Line) /\ Len(out) = Len(W)
  BY <1>1 DEF Shown
<1>3. Len(l) \in Nat /\ InOrder(l)
  BY <1>1 DEF Ordered
<1>4. \A m, n \in 1..Len(entries) : P[m] = P[n] => m = n
  BY <1>1 DEF Whole, Pruned
<1> QED
  BY <1>1, <1>2, <1>3, <1>4 DEF Passed

LEMMA OneToOne ==
  ASSUME NEW a \in Nat, NEW b \in Nat, NEW f \in [1..a -> 1..b],
         \A i, j \in 1..a : f[i] = f[j] => i = j
  PROVE  a <= b
<1>1. f \in Injection(1..a, 1..b)
  BY DEF Injection, IsInjective
<1>2. /\ IsFiniteSet(1..b) /\ Cardinality(1..a) = IF 1 > a THEN 0 ELSE a - 1 + 1
      /\ Cardinality(1..b) = IF 1 > b THEN 0 ELSE b - 1 + 1
  BY FS_Interval
<1>3. Cardinality(1..a) <= Cardinality(1..b)
  BY <1>1, <1>2, FS_Injection
<1> QED
  BY <1>2, <1>3

LEMMA EqualLengths ==
  ASSUME NEW P, NEW W, NEW out, NEW o, NEW l, CsvEnd(P, W, out, o, l)
  PROVE  Len(out) = Len(l)
<1>n. PICK a, b : a = Len(out) /\ b = Len(l)
  OBVIOUS
<1>1. a \in Nat /\ b \in Nat
  BY <1>n, EndFields
<1>2. \A i \in 1..a : \E k \in 1..b : l[k].path = P[W[i]]
  <2>1. ASSUME NEW i \in 1..a PROVE \E k \in 1..b : l[k].path = P[W[i]]
    <3>1. W[i] \in 1..Len(entries)
      BY <1>n, LineIs
    <3> QED
      BY <1>n, <3>1 DEF CsvEnd, Listed
  <2> QED
    BY <2>1
<1>3. \A k \in 1..b : \E i \in 1..a : P[W[i]] = l[k].path
  <2>1. ASSUME NEW k \in 1..b PROVE \E i \in 1..a : P[W[i]] = l[k].path
    <3>1. PICK m \in 1..Len(entries) : P[m] = l[k].path
      BY <1>n DEF CsvEnd
    <3>2. PICK i \in 1..a : W[i] = m
      BY <1>n, EndFields
    <3> QED
      BY <3>1, <3>2
  <2> QED
    BY <2>1
<1>4. \A i, j \in 1..a : P[W[i]] = P[W[j]] => i = j
  <2>1. ASSUME NEW i \in 1..a, NEW j \in 1..a, P[W[i]] = P[W[j]] PROVE i = j
    <3>1. W[i] \in 1..Len(entries) /\ W[j] \in 1..Len(entries)
      BY <1>n, LineIs
    <3>2. W[i] = W[j]
      BY <2>1, <3>1, EndFields
    <3> QED
      BY <1>n, <3>2, EndFields
  <2> QED
    BY <2>1
<1>5. \A k, j \in 1..b : l[k].path = l[j].path => k = j
  BY <1>n, EndFields DEF InOrder
<1>6. a <= b
  <2>1. PICK f : f = [i \in 1..a |-> CHOOSE k \in 1..b : l[k].path = P[W[i]]]
    OBVIOUS
  <2>2. \A i \in 1..a : f[i] \in 1..b /\ l[f[i]].path = P[W[i]]
    BY <1>2, <2>1
  <2>3. f \in [1..a -> 1..b]
    BY <2>1, <2>2
  <2>4. \A i, j \in 1..a : f[i] = f[j] => i = j
    BY <1>4, <2>2
  <2> QED
    BY <1>1, <2>3, <2>4, OneToOne
<1>7. b <= a
  <2>1. PICK f : f = [k \in 1..b |-> CHOOSE i \in 1..a : P[W[i]] = l[k].path]
    OBVIOUS
  <2>2. \A k \in 1..b : f[k] \in 1..a /\ P[W[f[k]]] = l[k].path
    BY <1>3, <2>1
  <2>3. f \in [1..b -> 1..a]
    BY <2>1, <2>2
  <2>4. \A k, j \in 1..b : f[k] = f[j] => k = j
    BY <1>5, <2>2
  <2> QED
    BY <1>1, <2>3, <2>4, OneToOne
<1> QED
  BY <1>1, <1>6, <1>7, <1>n

LEMMA EntriesKept ==
  ASSUME NEW P, NEW W, NEW out, NEW o, NEW l, CsvEnd(P, W, out, o, l), NEW k \in 1..Len(l)
  PROVE  \E i \in 1..Len(out) : /\ out[i].path = l[k].path /\ out[i].isDir = l[k].isDir
                                /\ ~l[k].isDir => out[i].size = l[k].size
<1>1. PICK m \in 1..Len(entries) : P[m] = l[k].path
  BY DEF CsvEnd
<1>2. PICK i \in 1..Len(out) : W[i] = m
  BY EndFields
<1>3. out[i].path = P[m] /\ out[i].isDir = entries[m].info.isDir
      /\ out[i].size = entries[m].info.size
  BY <1>2, LineIs
<1>4. \A j \in 1..Len(l) : l[j].path = P[m] => j = k
  BY <1>1, EndFields DEF InOrder
<1>5. entries[m].info.isDir = l[k].isDir
  BY <1>4 DEF CsvEnd, Listed
<1>6. ~l[k].isDir => entries[m].info.size = l[k].size
  BY <1>4, <1>5 DEF CsvEnd, FilesSized
<1> QED
  BY <1>1, <1>3, <1>5, <1>6

LEMMA EndKeepsEntries ==
  ASSUME WalkInv
  PROVE  CsvKeepsEntries
<1> SUFFICES ASSUME CsvDone
             PROVE  /\ Len(output) = Len(listing)
                    /\ \A r \in Range(listing) : \E s \in Range(output) :
                         s.path = r.path /\ s.isDir = r.isDir /\ (~r.isDir => s.size = r.size)
                    /\ ~options.resort =>
                         \A i \in DOMAIN listing : output[i].path = listing[i].path
  BY DEF CsvKeepsEntries
<1>1. PICK P, W, out, o, l :
        out = output /\ o = options /\ l = listing /\ CsvEnd(P, W, out, o, l)
  BY CsvEnds
<1>2. Len(out) = Len(l) /\ DOMAIN out = 1..Len(out) /\ Len(out) = Len(W)
  BY <1>1, EqualLengths, EndFields
<1>3. DOMAIN l = 1..Len(l)
  BY <1>1, ListingFields DEF WalkInv, CursorInv
<1>4. ASSUME NEW r \in Range(l)
      PROVE  \E s \in Range(out) :
               s.path = r.path /\ s.isDir = r.isDir /\ (~r.isDir => s.size = r.size)
  <2>1. PICK k \in 1..Len(l) : r = l[k]
    BY <1>3 DEF Range
  <2>2. PICK i \in 1..Len(out) : /\ out[i].path = l[k].path /\ out[i].isDir = l[k].isDir
                                 /\ ~l[k].isDir => out[i].size = l[k].size
    BY <1>1, EntriesKept
  <2>3. out[i] \in Range(out)
    BY <1>2 DEF Range
  <2> QED
    BY <2>1, <2>2, <2>3
<1>5. ASSUME ~o.resort, NEW i \in 1..Len(l) PROVE out[i].path = l[i].path
  <2>1. Following(W, P, l)
    BY <1>1, <1>5 DEF CsvEnd, Visited
  <2>2. out[i].path = P[W[i]]
    BY <1>1, <1>2, LineIs
  <2> QED
    BY <1>2, <2>1, <2>2 DEF Following
<1> QED
  BY <1>1, <1>2, <1>3, <1>4, <1>5

(* An entry of the output is where its folder has it.                      *)
LEMMA PlaceInFolder ==
  ASSUME NEW P, NEW W, NEW out, NEW o, NEW l, CsvEnd(P, W, out, o, l), NEW i \in 1..Len(out),
         P[W[i]] # <<>>
  PROVE  \E f \in 1..Len(entries) : \E k \in 1..Width(f) :
           /\ Cell(f, k) = W[i] /\ P[f] \in Seq(Names)
           /\ Front(out[i].path) = P[f]
           /\ Last(out[i].path) = entries[f].children[k].name
           /\ out[i].isDir = entries[f].children[k].isDir
<1>1. W[i] \in 1..Len(entries) /\ out[i].path = P[W[i]] /\ out[i].isDir = entries[W[i]].info.isDir
  BY LineIs
<1>2. Whole(P) /\ P[rootMeta] = <<>>
  BY DEF CsvEnd, Whole, Pruned, RootStored
<1>3. W[i] # rootMeta
  BY <1>2
<1>4. PICK f \in 1..Len(entries) : \E k \in 1..Width(f) : Cell(f, k) = W[i]
  BY <1>1, <1>2, <1>3, ParentOf
<1>5. PICK k \in 1..Width(f) : Cell(f, k) = W[i]
  BY <1>4
<1>n. PICK name : name = entries[f].children[k].name
  OBVIOUS
<1>6. P[f] \in Seq(Names) /\ P[Cell(f, k)] = Append(P[f], name) /\ name \in Names
  BY <1>2, <1>n, ChildUnder
<1>7. entries[Cell(f, k)].info.isDir = entries[f].children[k].isDir
  BY <1>2, ChildUnder
<1>8. Front(Append(P[f], name)) = P[f] /\ Last(Append(P[f], name)) = name
  BY <1>6, Appended
<1> QED
  BY <1>1, <1>5, <1>6, <1>7, <1>8, <1>n

(* In a folder the entries come as its children do.                        *)
LEMMA ChildrenInTurn ==
  ASSUME NEW P, NEW W, NEW out, NEW o, NEW l, CsvEnd(P, W, out, o, l),
         NEW i \in 1..Len(out), NEW j \in 1..Len(out), i < j,
         NEW f \in 1..Len(entries), NEW k \in 1..Width(f), NEW h \in 1..Width(f),
         Cell(f, k) = W[i], Cell(f, h) = W[j]
  PROVE  k < h
<1>1. k \in Nat /\ h \in Nat /\ i \in Nat /\ j \in Nat /\ Len(out) = Len(W)
  <2>1. Width(f) \in Nat
    BY LeftFields DEF CsvEnd, Whole
  <2> QED
    BY <2>1, EndFields
<1>2. k # h
  <2>1. \A x, y \in 1..Len(out) : W[x] = W[y] => x = y
    BY EndFields
  <2>2. W[i] # W[j]
    BY <1>1, <2>1
  <2> QED
    BY <2>2
<1>3. ASSUME h < k PROVE FALSE
  <2>1. Siblings(W)
    BY DEF CsvEnd, Visited
  <2>2. i \in 1..Len(W) /\ h \in 1..k - 1
    BY <1>1, <1>3
  <2>3. PICK g \in 1..i - 1 : W[g] = Cell(f, h)
    BY <2>1, <2>2 DEF Siblings
  <2>4. g \in 1..Len(out) /\ g < j
    BY <1>1, <2>3
  <2> QED
    BY <2>3, <2>4, EndFields
<1> QED
  BY <1>1, <1>2, <1>3

LEMMA EndSorted ==
  ASSUME WalkInv
  PROVE  CsvSorted
<1> DEFINE entry(r) == [name |-> Last(r.path), isDir |-> r.isDir]
<1>1. ASSUME CsvDone, NEW i \in DOMAIN output, NEW j \in DOMAIN output, i < j
      PROVE  /\ Below(output[i].path, output[j].path) =>
                  \A k \in i + 1..j : Below(output[i].path, output[k].path)
             /\ options.resort /\ output[i].path # <<>>
                  /\ Front(output[i].path) = Front(output[j].path)
                  => ~Precedes(entry(output[j]), entry(output[i]))
  <2>1. PICK P, W, out, o, l :
          out = output /\ o = options /\ CsvEnd(P, W, out, o, l)
    BY <1>1, CsvEnds
  <2>2. Len(out) = Len(W) /\ Len(out) \in Nat /\ DOMAIN out = 1..Len(out)
    BY <2>1, EndFields
  <2>3. /\ i \in 1..Len(out) /\ j \in 1..Len(out) /\ i \in Nat /\ j \in Nat
        /\ i \in 1..Len(W) /\ j \in 1..Len(W)
    BY <1>1, <2>1, <2>2
  <2>4. \A x, y \in 1..Len(out) : Below(out[x].path, out[y].path) <=> Under(P[W[x]], P[W[y]])
    <3>1. ASSUME NEW x \in 1..Len(out), NEW y \in 1..Len(out)
          PROVE  Below(out[x].path, out[y].path) <=> Under(P[W[x]], P[W[y]])
      <4>1. /\ P[W[x]] \in Seq(Names) /\ out[x].path = P[W[x]]
            /\ P[W[y]] \in Seq(Names) /\ out[y].path = P[W[y]]
        BY <2>1, LineIs
      <4> QED
        BY <4>1, UnderIsBelow
    <3> QED
      BY <3>1
  <2>5. ASSUME Below(out[i].path, out[j].path), NEW k \in i + 1..j
        PROVE  Below(out[i].path, out[k].path)
    <3>1. Under(P[W[i]], P[W[j]])
      BY <2>3, <2>4, <2>5
    <3>2. k \in 1..Len(W) /\ i < k /\ (k = j \/ k < j)
      BY <2>2, <2>3
    <3>3. Together(W, {}, P)
      BY <2>1 DEF CsvEnd, Visited
    <3>4. Under(P[W[i]], P[W[k]])
      BY <2>3, <3>1, <3>2, <3>3 DEF Together
    <3> QED
      BY <2>2, <2>3, <2>4, <3>2, <3>4
  <2>6. ASSUME o.resort, out[i].path # <<>>, Front(out[i].path) = Front(out[j].path)
        PROVE  ~Precedes(entry(out[j]), entry(out[i]))
    <3>1. out[i].path = P[W[i]] /\ out[j].path = P[W[j]] /\ W[j] \in 1..Len(entries)
      BY <2>1, <2>3, LineIs
    <3>2. P[W[j]] # <<>>
      <4>1. P[rootMeta] = <<>> /\ rootMeta \in 1..Len(entries) /\ W[1] = rootMeta /\ Len(W) # 0
        BY <2>1 DEF CsvEnd, Visited, Whole, Pruned, RootStored
      <4>2. 1 \in 1..Len(out) /\ j # 1
        BY <1>1, <2>2, <2>3
      <4>3. W[j] # rootMeta
        BY <2>1, <2>3, <4>1, <4>2, EndFields
      <4> QED
        BY <2>1, <3>1, <4>1, <4>3, EndFields
    <3>3. PICK f \in 1..Len(entries) : \E k \in 1..Width(f) :
            /\ Cell(f, k) = W[i]
            /\ Front(out[i].path) = P[f]
            /\ Last(out[i].path) = entries[f].children[k].name
            /\ out[i].isDir = entries[f].children[k].isDir
      BY <2>1, <2>3, <2>6, <3>1, PlaceInFolder
    <3>4. PICK g \in 1..Len(entries) : \E k \in 1..Width(g) :
            /\ Cell(g, k) = W[j]
            /\ Front(out[j].path) = P[g]
            /\ Last(out[j].path) = entries[g].children[k].name
            /\ out[j].isDir = entries[g].children[k].isDir
      BY <2>1, <2>3, <3>2, PlaceInFolder
    <3>5. f = g
      <4>1. P[f] = P[g]
        BY <2>6, <3>3, <3>4
      <4> QED
        BY <2>1, <4>1, EndFields
    <3>6. PICK k \in 1..Width(f) :
            /\ Cell(f, k) = W[i]
            /\ Last(out[i].path) = entries[f].children[k].name
            /\ out[i].isDir = entries[f].children[k].isDir
      BY <3>3
    <3>7. PICK h \in 1..Width(f) :
            /\ Cell(f, h) = W[j]
            /\ Last(out[j].path) = entries[f].children[h].name
            /\ out[j].isDir = entries[f].children[h].isDir
      BY <3>4, <3>5
    <3>8. k < h
      BY <1>1, <2>1, <2>3, <3>6, <3>7, ChildrenInTurn
    <3>9. AsSorted(entries[f].children)
      BY <2>1, <2>6 DEF CsvEnd, Ordered
    <3>10. ~Precedes(entries[f].children[h], entries[f].children[k])
      BY <3>8, <3>9 DEF AsSorted, Width
    <3> QED
      BY <3>6, <3>7, <3>10 DEF Precedes
  <2> QED
    BY <2>1, <2>5, <2>6
<1> QED
  BY <1>1 DEF CsvSorted

(* What is below a folder, in the listing.                                 *)
LEMMA BelowInListing ==
  ASSUME IndexTypeOK, NEW p \in Seq(Names), NEW R, R = Members(listing)
  PROVE  /\ {s \in Range(listing) : ~s.isDir /\ Below(p, s.path)} = FilesIn(R, p)
         /\ {s \in {t \in Range(listing) : Below(p, t.path)} : ~s.isDir} = FilesIn(R, p)
         /\ {s \in {t \in Range(listing) : Below(p, t.path)} : s.isDir} = FoldersIn(R, p)
<1>1. listing \in Seq(Records(Paths \cup {<<>>})) /\ PathsNamed(listing)
  BY ListingFields
<1>2. Range(listing) = R
  BY <1>1 DEF Range, Members
<1>3. \A s \in R : Below(p, s.path) <=> Under(p, s.path)
  <2>1. ASSUME NEW s \in R PROVE Below(p, s.path) <=> Under(p, s.path)
    <3>1. s.path \in Seq(Names)
      BY <1>1 DEF Members, PathsNamed
    <3> QED
      BY <3>1, UnderIsBelow
  <2> QED
    BY <2>1
<1> QED
  BY <1>2, <1>3 DEF FilesIn, FoldersIn

LEMMA EndCounted ==
  ASSUME WalkInv, CsvDone, NEW r \in Range(output), r.isDir, NEW R, R = Members(listing)
  PROVE  /\ r.path \in Seq(Names)
         /\ options.recount => CountsAll(r, R, r.path)
         /\ options.recalculate => r.size = SizeSum(FilesIn(R, r.path))
<1>1. PICK P, W, out, o, l :
        /\ out = output /\ o = options /\ l = listing
        /\ FaithfulIndex(P) /\ pc = "built" /\ CsvEnd(P, W, out, o, l)
  BY CsvEnds
<1>2. PICK i \in 1..Len(out) : r = out[i]
  <2>1. DOMAIN out = 1..Len(out)
    BY <1>1, EndFields
  <2> QED
    BY <1>1, <2>1 DEF Range
<1>m. PICK m : m = W[i]
  OBVIOUS
<1>3. /\ m \in 1..Len(entries) /\ P[m] \in Seq(Names) /\ r.path = P[m]
      /\ r.isDir = entries[m].info.isDir /\ r.size = entries[m].info.size
      /\ r.files = entries[m].info.files /\ r.folders = entries[m].info.folders
  <2>1. /\ m \in 1..Len(entries) /\ P[m] \in Seq(Names) /\ out[i].path = P[m]
        /\ out[i].isDir = entries[m].info.isDir /\ out[i].size = entries[m].info.size
    BY <1>1, <1>m, LineIs
  <2>2. /\ out[i].files = entries[m].info.files /\ out[i].folders = entries[m].info.folders
    BY <1>1, <1>m, LineIs
  <2> QED
    BY <1>2, <2>1, <2>2
<1>4. Seen = R
  BY <1>1 DEF Seen
<1>5. /\ Tallied(options, parents, entries, P, R) /\ Summed(options, parents, entries, P, R)
  BY <1>1, <1>4, FaithfulIs DEF Faithful
<1>6. options.recount => CountsAll(entries[m].info, R, P[m])
  BY <1>3, <1>5 DEF Tallied
<1>7. options.recalculate => entries[m].info.size = SizeSum(FilesIn(R, P[m]))
  BY <1>3, <1>5 DEF Summed
<1> QED
  BY <1>3, <1>6, <1>7 DEF CountsAll

LEMMA EndRecounted ==
  ASSUME WalkInv
  PROVE  CsvRecounted
<1>1. IndexTypeOK
  BY DEF WalkInv, CursorInv
<1>R. PICK R : R = Members(listing)
  OBVIOUS
<1>2. ASSUME CsvDone, options.recount, NEW r \in Range(output), r.isDir
      PROVE  LET below == {s \in Range(listing) : Below(r.path, s.path)} IN
             /\ r.files = Cardinality({s \in below : ~s.isDir})
             /\ r.folders = Cardinality({s \in below : s.isDir})
  <2>1. r.path \in Seq(Names) /\ CountsAll(r, R, r.path)
    BY <1>2, <1>R, EndCounted
  <2>2. /\ {s \in {t \in Range(listing) : Below(r.path, t.path)} : ~s.isDir} = FilesIn(R, r.path)
        /\ {s \in {t \in Range(listing) : Below(r.path, t.path)} : s.isDir} = FoldersIn(R, r.path)
    BY <1>1, <1>R, <2>1, BelowInListing
  <2> QED
    BY <2>1, <2>2 DEF CountsAll
<1> QED
  BY <1>2 DEF CsvRecounted

LEMMA EndRecalculated ==
  ASSUME WalkInv
  PROVE  CsvRecalculated
<1>1. IndexTypeOK
  BY DEF WalkInv, CursorInv
<1>R. PICK R : R = Members(listing)
  OBVIOUS
<1>2. ASSUME CsvDone, options.recalculate, NEW r \in Range(output), r.isDir
      PROVE  r.size = SizeSum({s \in Range(listing) : ~s.isDir /\ Below(r.path, s.path)})
  <2>1. r.path \in Seq(Names) /\ r.size = SizeSum(FilesIn(R, r.path))
    BY <1>2, <1>R, EndCounted
  <2>2. {s \in Range(listing) : ~s.isDir /\ Below(r.path, s.path)} = FilesIn(R, r.path)
    BY <1>1, <1>R, <2>1, BelowInListing
  <2> QED
    BY <2>1, <2>2
<1> QED
  BY <1>2 DEF CsvRecalculated, SizeSum

LEMMA ListingGivenBack == WalkInv => CsvGivesListing
BY EndKeepsEntries, EndSorted, EndRecounted, EndRecalculated DEF CsvGivesListing

THEOREM CsvCorrect == Spec => []CsvGivesListing
<1>1. WalkInv => CsvGivesListing
  BY ListingGivenBack
<1> QED
  BY <1>1, WalkInvHolds, PTL

-------------------------------------------------------------------------------
(* The walk of FsIndexToQDirStat.                                          *)
OnTheWay(c, P, U) ==
  /\ OnWalk(c, P, U) /\ ClosedDown(U) /\ rootMeta \notin U /\ Led(c.parents, U)
  /\ Positioned(c, P)

LEMMA WayOn ==
  ASSUME NEW P, Whole(P), NEW c, NEW U, OnTheWay(c, P, U)
  PROVE  \/ Advance(c) = Cleared /\ U = {}
         \/ \E x \in U : OnTheWay(Advance(c), P, U \ {x}) /\ Meta(Advance(c).current) = x
<1>1. /\ OnWalk(c, P, U) /\ ClosedDown(U) /\ Led(c.parents, U) /\ rootMeta \notin U
      /\ Pruned(P) /\ Walkable(P) /\ Positioned(c, P)
  BY DEF OnTheWay, Whole, Complete
<1>2. CASE Advance(c) = Cleared /\ Finished(c.parents, 0)
  BY <1>1, <1>2, EndIsAll
<1>3. ASSUME NEW j \in 1..Len(c.parents), Moved(c, Advance(c), j, P, U)
      PROVE  \E x \in U : OnTheWay(Advance(c), P, U \ {x}) /\ Meta(Advance(c).current) = x
  <2>x. PICK x : x = Meta(NextId(c.parents, j))
    OBVIOUS
  <2>1. /\ x \in U /\ OnWalk(Advance(c), P, U \ {x}) /\ ClosedDown(U \ {x})
        /\ Meta(Advance(c).current) = x
    BY <1>3, <2>x DEF Moved
  <2>2. Led(Advance(c).parents, U \ {x})
    BY <1>1, <1>3, <2>x, LedOn
  <2>3. Somewhere(c, P)
    BY <1>1 DEF Somewhere
  <2>4. Somewhere(Advance(c), P)
    BY <1>1, <2>3, AdvanceMoves
  <2>5. Advance(c).current # NoEntry
    BY <1>1, <2>1, PlaceOnWalk
  <2>6. Positioned(Advance(c), P)
    BY <2>4, <2>5, ClearedFields DEF Somewhere
  <2> QED
    BY <1>1, <2>1, <2>2, <2>6 DEF OnTheWay
<1> QED
  BY <1>1, <1>2, <1>3, NextStepOrEnd

LEMMA WayCached ==
  ASSUME NEW P, Whole(P), NEW c, NEW U, OnTheWay(c, P, U)
  PROVE  OnTheWay(WithCache(c), P, U) /\ WithCache(c).current = c.current
<1>1. OnWalk(c, P, U) /\ Positioned(c, P) /\ Walkable(P)
  BY DEF OnTheWay, Whole, Complete
<1>d. PICK d : d = WithCache(c)
  OBVIOUS
<1>2. /\ Positioned(d, P) /\ d.parents = c.parents /\ d.current = c.current /\ d.path = c.path
  BY <1>1, <1>d, CacheFilled
<1>3. d \in CursorType /\ Cached(d.parents, d.cached) /\ Trail(d.parents, d.path, P)
  BY <1>2 DEF Positioned, At
<1>4. Tidy(d.parents, d.cached)
  <2>1. d.parents \in Seq(Above) /\ d.cached \in Seq(Ids) /\ d.parents # <<>>
    BY <1>3, CursorFields DEF Trail
  <2>2. \A i \in 1..Len(d.parents) : d.parents[i].cacheStart <= Len(d.cached)
    <3>1. ASSUME NEW i \in 1..Len(d.parents) PROVE d.parents[i].cacheStart <= Len(d.cached)
      <4>1. /\ PartEnd(d.parents, d.cached, i) \in Nat /\ d.parents[i].cacheStart \in Nat
            /\ d.parents[i].cacheStart <= PartEnd(d.parents, d.cached, i)
            /\ PartEnd(d.parents, d.cached, i) <= Len(d.cached)
        BY <1>3, <2>1, PartEndIs
      <4>2. Len(d.cached) \in Nat
        BY <2>1
      <4> QED
        BY <4>1, <4>2
    <3> QED
      BY <3>1
  <2> QED
    BY <1>3, <2>2 DEF Cached, Tidy
<1>5. OnWalk(d, P, U)
  <2>1. Pending(c.parents, U) /\ Followed(c.parents) /\ Fresh(c.parents, c.current, c.path, U)
    BY <1>1 DEF OnWalk
  <2> QED
    BY <1>2, <1>3, <1>4, <2>1 DEF OnWalk
<1> QED
  BY <1>2, <1>5, <1>d DEF OnTheWay

LEMMA WayStarts ==
  ASSUME IndexInv, OnceInv, pc = "built", NEW P, Indexed(P), FaithfulIndex(P)
  PROVE  /\ OnTheWay(AtRoot, P, 1..Len(entries) \ {rootMeta})
         /\ Meta(AtRoot.current) = rootMeta
<1>U. PICK U : U = 1..Len(entries) \ {rootMeta}
  OBVIOUS
<1>1. ClosedDown(U) /\ OnWalk(AtRoot, P, U)
  BY <1>U, WalkOf DEF IndexInv
<1>2. Whole(P) /\ Ordered(P, options, listing) /\ Walkable(P)
  BY BuiltWhole, BuiltOrdered DEF Whole, Complete
<1>3. Led(AtRoot.parents, U)
  BY <1>U, <1>1, <1>2, WalkingStarts DEF Walking
<1>4. Positioned(AtRoot, P)
  BY <1>2, RootSelected
<1>5. Meta(AtRoot.current) = rootMeta
  BY DEF AtRoot, Cleared, Meta
<1> QED
  BY <1>U, <1>1, <1>3, <1>4, <1>5 DEF OnTheWay

(* The children of the folder that is selected.                            *)
LEMMA WayChildren ==
  ASSUME NEW P, Whole(P), NEW c, NEW U, OnTheWay(c, P, U), NEW f, f = Meta(c.current)
  PROVE  /\ f \in 1..Len(entries) /\ f \notin U /\ c.path = P[f] /\ c.current # NoEntry
         /\ IsFolder(c.current) = entries[f].info.isDir
         /\ IsFolder(c.current) =>
              /\ DOMAIN FolderChildren(c) = 1..Width(f)
              /\ \A k \in 1..Width(f) : FolderChildren(c)[k] = [folder |-> f, child |-> k]
<1>1. OnWalk(c, P, U) /\ Positioned(c, P) /\ Walkable(P) /\ Pruned(P)
  BY DEF OnTheWay, Whole, Complete
<1>2. /\ f \in 1..Len(entries) /\ f \notin U /\ P[f] = c.path /\ c.current # NoEntry
      /\ Len(c.parents) \in Nat \ {0}
      /\ IsFolder(c.current) => c.current = c.parents[Len(c.parents)].id
  BY <1>1, PlaceOnWalk
<1>3. IsFolder(c.current) = entries[f].info.isDir
  BY DEF IsFolder
<1>4. ASSUME IsFolder(c.current)
      PROVE  /\ DOMAIN FolderChildren(c) = 1..Width(f)
             /\ \A k \in 1..Width(f) : FolderChildren(c)[k] = [folder |-> f, child |-> k]
  <2>1. InFolder(c)
    <3>1. c.parents # <<>>
      BY <1>2
    <3>2. Last(c.parents) = c.parents[Len(c.parents)]
      BY DEF Last
    <3> QED
      BY <1>2, <1>4, <3>1, <3>2 DEF InFolder
  <2>2. FolderChildren(c) = Children(c.current)
    BY <1>1, <2>1, CacheFilled
  <2>3. /\ Children(c.current) \in Seq(Ids) /\ Len(Children(c.current)) = Width(f)
        /\ \A k \in 1..Len(Children(c.current)) :
             Children(c.current)[k] = [folder |-> f, child |-> k]
    BY <1>1, <1>2, ChildrenAre DEF Width
  <2> QED
    BY <2>2, <2>3
<1> QED
  BY <1>2, <1>3, <1>4

(* What FsIndexToQDirStat has printed: a line for each folder that it has  *)
(* begun and for each of their files, but in the folder `at` that it is in *)
(* only up to the n-th child.                                              *)
QLine == [isDir : BOOLEAN, path : Seq(Names)]

Lined(p, u) == p # <<>> \/ u # "qdirstat at /"

Begun(U, P, u) ==
  {f \in 1..Len(entries) : f \notin U /\ entries[f].info.isDir /\ Lined(P[f], u)}
Started(at, n, U, P, u) == IF n = Unset THEN Begun(U, P, u) \ {at} ELSE Begun(U, P, u)

Due(m, at, n, F) ==
  \/ m \in F
  \/ /\ ~entries[m].info.isDir
     /\ \E f \in F : \E k \in 1..Width(f) : Cell(f, k) = m /\ (f = at => k < n)

DueIn(V, at, n, F) ==
  \A m \in 1..Len(entries) : (\E i \in 1..Len(V) : V[i] = m) <=> Due(m, at, n, F)

(* The line of the folder that the line i is in.                           *)
InLine(out, g, i) == g \in 1..i /\ out[g].isDir /\ \A k \in g + 1..i : ~out[k].isDir

LineAt(out, V, i, P) ==
  /\ out[i].isDir = entries[V[i]].info.isDir
  /\ out[i].isDir => out[i].path = P[V[i]]
  /\ ~out[i].isDir => \E g \in 1..i : InLine(out, g, i) /\ P[V[i]] = out[g].path \o out[i].path

Printed(out, V, P) ==
  /\ out \in Seq(QLine) /\ V \in Seq(1..Len(entries)) /\ Len(out) = Len(V)
  /\ \A i, j \in 1..Len(V) : V[i] = V[j] => i = j
  /\ \A i \in 1..Len(V) : LineAt(out, V, i, P)

InFolderNow(out, V, at, n, F) ==
  /\ at \in F /\ n \in 1..Width(at) + 1
  /\ \E g \in 1..Len(out) : V[g] = at /\ InLine(out, g, Len(out))

QAt(c, n, P, out, u) ==
  \E U, V, at, F :
    /\ F = Started(at, n, U, P, u)
    /\ Printed(out, V, P) /\ DueIn(V, at, n, F)
    /\ \/ c = Cleared /\ U = {} /\ at = 0 /\ n = Unset
       \/ OnTheWay(c, P, U) /\ at = Meta(c.current)
    /\ n # Unset => InFolderNow(out, V, at, n, F)

(* The line r is right for the entry m, and is its first.                  *)
LineFits(r, m, out, V, P) ==
  /\ Printed(out, V, P) /\ m \in 1..Len(entries) /\ \A i \in 1..Len(V) : V[i] # m
  /\ r \in QLine /\ r.isDir = entries[m].info.isDir
  /\ r.isDir => r.path = P[m]
  /\ ~r.isDir => \E g \in 1..Len(out) :
                   InLine(out, g, Len(out)) /\ P[m] = out[g].path \o r.path

LEMMA StillInLine ==
  ASSUME NEW out \in Seq(QLine), NEW r \in QLine, ~r.isDir, NEW g, InLine(out, g, Len(out)),
         NEW new, new = Append(out, r), NEW n, n = Len(out)
  PROVE  InLine(new, g, n + 1) /\ Len(new) = n + 1
<1>0. /\ n \in Nat /\ Len(new) = n + 1 /\ new[n + 1] = r
      /\ \A i \in 1..n : new[i] = out[i]
  BY Appended
<1>1. g \in 1..n /\ out[g].isDir /\ \A k \in g + 1..n : ~out[k].isDir
  BY DEF InLine
<1>2. new[g].isDir /\ g \in 1..n + 1
  BY <1>0, <1>1
<1>3. g \in Nat
  BY <1>1
<1>4. ASSUME NEW k \in g + 1..n + 1 PROVE ~new[k].isDir
  <2>1. CASE k = n + 1
    BY <1>0, <2>1
  <2>2. CASE k # n + 1
    <3>1. k \in g + 1..n /\ k \in 1..n
      BY <1>0, <1>3, <2>2
    <3> QED
      BY <1>0, <1>1, <3>1
  <2> QED
    BY <2>1, <2>2
<1> QED
  BY <1>0, <1>2, <1>4 DEF InLine

LEMMA LineAdded ==
  ASSUME NEW P, NEW out, NEW V, NEW m, NEW r, LineFits(r, m, out, V, P),
         NEW new, new = Append(out, r), NEW W, W = Append(V, m)
  PROVE  /\ Printed(new, W, P)
         /\ Len(new) = Len(out) + 1 /\ Len(out) \in Nat /\ Len(W) = Len(V) + 1
         /\ Len(V) = Len(out)
         /\ W[Len(new)] = m /\ \A i \in 1..Len(V) : W[i] = V[i]
         /\ r.isDir => InLine(new, Len(new), Len(new))
<1>0. /\ Printed(out, V, P) /\ m \in 1..Len(entries) /\ \A i \in 1..Len(V) : V[i] # m
      /\ r \in QLine /\ r.isDir = entries[m].info.isDir /\ (r.isDir => r.path = P[m])
  BY DEF LineFits
<1>1. /\ out \in Seq(QLine) /\ V \in Seq(1..Len(entries)) /\ Len(out) = Len(V)
      /\ Len(out) \in Nat
      /\ \A i, j \in 1..Len(V) : V[i] = V[j] => i = j
      /\ \A i \in 1..Len(V) : LineAt(out, V, i, P)
  BY <1>0 DEF Printed
<1>n. PICK n \in Nat : n = Len(out)
  BY <1>1
<1>2. /\ new \in Seq(QLine) /\ Len(new) = n + 1 /\ new[n + 1] = r
      /\ \A i \in 1..n : new[i] = out[i]
  BY <1>0, <1>1, <1>n, Appended
<1>3. /\ W \in Seq(1..Len(entries)) /\ Len(W) = n + 1 /\ W[n + 1] = m
      /\ \A i \in 1..n : W[i] = V[i]
  BY <1>0, <1>1, <1>n, Appended
<1>4. ASSUME NEW i \in 1..n, NEW g, InLine(out, g, i) PROVE InLine(new, g, i)
  <2>1. g \in 1..i /\ out[g].isDir /\ \A k \in g + 1..i : ~out[k].isDir
    BY <1>4 DEF InLine
  <2>2. g \in 1..n /\ \A k \in g + 1..i : k \in 1..n
    BY <2>1
  <2>3. new[g].isDir
    BY <2>1, <2>2, <1>2
  <2>4. \A k \in g + 1..i : ~new[k].isDir
    BY <2>1, <2>2, <1>2
  <2> QED
    BY <2>1, <2>3, <2>4 DEF InLine
<1>5. ASSUME NEW i \in 1..n PROVE LineAt(new, W, i, P)
  <2>1. LineAt(out, V, i, P) /\ new[i] = out[i] /\ W[i] = V[i]
    BY <1>1, <1>2, <1>3, <1>n
  <2>2. /\ new[i].isDir = entries[W[i]].info.isDir
        /\ new[i].isDir => new[i].path = P[W[i]]
    BY <2>1 DEF LineAt
  <2>3. ASSUME ~new[i].isDir
        PROVE  \E g \in 1..i : InLine(new, g, i) /\ P[W[i]] = new[g].path \o new[i].path
    <3>1. PICK g \in 1..i : InLine(out, g, i) /\ P[V[i]] = out[g].path \o out[i].path
      BY <2>1, <2>3 DEF LineAt
    <3>2. InLine(new, g, i)
      BY <1>4, <3>1
    <3>3. new[g] = out[g]
      BY <1>2
    <3> QED
      BY <2>1, <3>1, <3>2, <3>3
  <2> QED
    BY <2>2, <2>3 DEF LineAt
<1>6. r.isDir => InLine(new, n + 1, n + 1)
  BY <1>2 DEF InLine
<1>7. ASSUME ~r.isDir, NEW g, InLine(out, g, n) PROVE InLine(new, g, n + 1)
  BY <1>0, <1>1, <1>n, <1>7, StillInLine
<1>8. LineAt(new, W, n + 1, P)
  <2>1. /\ new[n + 1].isDir = entries[W[n + 1]].info.isDir
        /\ new[n + 1].isDir => new[n + 1].path = P[W[n + 1]]
    BY <1>0, <1>2, <1>3
  <2>2. ASSUME ~new[n + 1].isDir
        PROVE  \E g \in 1..n + 1 : InLine(new, g, n + 1)
                                   /\ P[W[n + 1]] = new[g].path \o new[n + 1].path
    <3>1. PICK g \in 1..n : InLine(out, g, n) /\ P[m] = out[g].path \o r.path
      BY <1>2, <1>n, <2>2 DEF LineFits
    <3>2. InLine(new, g, n + 1) /\ new[g] = out[g] /\ g \in 1..n + 1
      BY <1>2, <1>7, <2>2, <3>1
    <3> QED
      BY <1>2, <1>3, <3>1, <3>2
  <2> QED
    BY <2>1, <2>2 DEF LineAt
<1>9. \A i \in 1..n + 1 : LineAt(new, W, i, P)
  <2>1. \A i \in 1..n + 1 : i \in 1..n \/ i = n + 1
    OBVIOUS
  <2> QED
    BY <2>1, <1>5, <1>8
<1>10. \A i, j \in 1..n + 1 : W[i] = W[j] => i = j
  <2>1. \A i \in 1..n + 1 : i \in 1..n \/ i = n + 1
    OBVIOUS
  <2>2. \A i \in 1..n : W[i] # m
    BY <1>0, <1>1, <1>3, <1>n
  <2>3. \A i, j \in 1..n : W[i] = W[j] => i = j
    BY <1>1, <1>3, <1>n
  <2> QED
    BY <1>3, <2>1, <2>2, <2>3
<1>11. Printed(new, W, P)
  BY <1>2, <1>3, <1>9, <1>10 DEF Printed
<1> QED
  BY <1>1, <1>2, <1>3, <1>6, <1>11, <1>n

LEMMA OneMorePrinted ==
  ASSUME NEW P, NEW out, NEW V, NEW m, NEW r, LineFits(r, m, out, V, P)
  PROVE  Printed(Append(out, r), Append(V, m), P)
  BY LineAdded

LEMMA BegunAre ==
  ASSUME NEW U, NEW P, NEW u, NEW f
  PROVE  f \in Begun(U, P, u)
           <=> f \in 1..Len(entries) /\ f \notin U /\ entries[f].info.isDir /\ Lined(P[f], u)
BY Zenon DEF Begun

LEMMA DueFolders ==
  ASSUME NEW U, NEW P, NEW u, NEW at, NEW n, NEW F, F = Started(at, n, U, P, u)
  PROVE  /\ F \subseteq 1..Len(entries) /\ \A f \in F : entries[f].info.isDir
         /\ 0 \notin F /\ (n = Unset => at \notin F)
<1>1. \A f \in F : f \in 1..Len(entries) /\ entries[f].info.isDir
  <2>1. ASSUME NEW f \in F PROVE f \in Begun(U, P, u)
    BY DEF Started
  <2> QED
    BY <2>1, BegunAre
<1>2. n = Unset => at \notin F
  BY DEF Started
<1>3. 0 \notin 1..Len(entries)
  OBVIOUS
<1> QED
  BY <1>1, <1>2, <1>3

(* A folder that is not begun, or whose children were all met, no longer   *)
(* makes a difference.                                                     *)
LEMMA AllMet ==
  ASSUME NEW F, F \subseteq 1..Len(entries), NEW at, NEW n, NEW V, DueIn(V, at, n, F),
         at \in F => Width(at) \in Nat /\ n = Width(at) + 1, NEW b, b \notin F, NEW e
  PROVE  DueIn(V, b, e, F)
<1>1. ASSUME NEW m \in 1..Len(entries) PROVE Due(m, at, n, F) <=> Due(m, b, e, F)
  <2>1. \A f \in F : \A k \in 1..Width(f) : f = at => k < n
    OBVIOUS
  <2>2. \A f \in F : f # b
    OBVIOUS
  <2> QED
    BY <2>1, <2>2 DEF Due
<1> QED
  BY <1>1 DEF DueIn

(* Nothing is begun by going on.                                           *)
LEMMA MoveOn ==
  ASSUME NEW P, Whole(P), NEW c, NEW U, OnTheWay(c, P, U), NEW out, NEW V, NEW u,
         NEW F, F = Begun(U, P, u), Printed(out, V, P), DueIn(V, 0, Unset, F)
  PROVE  QAt(Advance(c), Unset, P, out, u)
<1>d. PICK d : d = Advance(c)
  OBVIOUS
<1>1. CASE d = Cleared /\ U = {}
  <2>1. F = Started(0, Unset, U, P, u)
    <3>1. 0 \notin F
      <4>1. 0 \notin 1..Len(entries)
        OBVIOUS
      <4> QED
        BY <4>1, BegunAre
    <3> QED
      BY <3>1 DEF Started
  <2> QED
    BY <1>1, <1>d, <2>1 DEF QAt
<1>2. ASSUME NEW x \in U, OnTheWay(d, P, U \ {x}), Meta(d.current) = x
      PROVE  QAt(d, Unset, P, out, u)
  <2>1. F = Started(x, Unset, U \ {x}, P, u)
    <3>1. PICK B : B = Begun(U \ {x}, P, u)
      OBVIOUS
    <3>2. \A f : f \in F <=> f \in B /\ f # x
      <4>1. ASSUME NEW f PROVE f \in F <=> f \in B /\ f # x
        <5>1. f \notin U <=> f \notin U \ {x} /\ f # x
          OBVIOUS
        <5> QED
          BY <3>1, <5>1, BegunAre
      <4> QED
        BY <4>1
    <3>3. F = B \ {x}
      BY <3>2
    <3> QED
      BY <3>1, <3>3 DEF Started
  <2>2. x \notin F /\ 0 \notin F /\ F \subseteq 1..Len(entries)
    BY <2>1, DueFolders
  <2>3. DueIn(V, x, Unset, F)
    BY <2>2, AllMet
  <2> QED
    BY <1>2, <2>1, <2>3 DEF QAt
<1> QED
  BY <1>1, <1>2, <1>d, WayOn

(* What the two places have in common: a walk, or its end.                 *)
LEMMA QPlace ==
  ASSUME NEW P, Whole(P), NEW c, NEW U, OnTheWay(c, P, U), NEW n, n \in DOMAIN FolderChildren(c)
  PROVE  n # Unset /\ n \in Nat
<1>1. Positioned(c, P) /\ OnWalk(c, P, U) /\ Walkable(P) /\ Pruned(P)
  BY DEF OnTheWay, Whole, Complete
<1>2. FolderChildren(c) = IF InFolder(c) THEN Children(c.current) ELSE <<>>
  BY <1>1, CacheFilled
<1>3. Meta(c.current) \in 1..Len(entries)
  BY <1>1, PlaceOnWalk
<1>4. Children(c.current) \in Seq(Ids)
  BY <1>1, <1>3, ChildrenAre
<1>5. FolderChildren(c) \in Seq(Ids)
  BY <1>2, <1>4
<1> QED
  BY <1>5 DEF Unset

(* The round for a child of the folder that is begun.                      *)
QFile(c, n, out) ==
  IF IsFolder(FolderChildren(c)[n]) THEN out
  ELSE Append(out, [isDir |-> FALSE, path |-> <<FileName(FolderChildren(c)[n])>>])

LEMMA FileLine ==
  ASSUME NEW P, Whole(P), NEW c, NEW n, NEW out, NEW u, QAt(c, n, P, out, u),
         n \in DOMAIN FolderChildren(c)
  PROVE  QAt(WithCache(c), n + 1, P, QFile(c, n, out), u)
<1>1. PICK U, V, at, F :
        /\ F = Started(at, n, U, P, u)
        /\ Printed(out, V, P) /\ DueIn(V, at, n, F)
        /\ \/ c = Cleared /\ U = {} /\ at = 0 /\ n = Unset
           \/ OnTheWay(c, P, U) /\ at = Meta(c.current)
        /\ n # Unset => InFolderNow(out, V, at, n, F)
  BY DEF QAt
<1>2. OnTheWay(c, P, U) /\ at = Meta(c.current)
  <2>1. c # Cleared
    BY ClearedFields
  <2> QED
    BY <1>1, <2>1
<1>3. n # Unset /\ n \in Nat
  BY <1>2, QPlace
<1>4. /\ at \in F /\ n \in 1..Width(at) + 1
      /\ \E g \in 1..Len(out) : V[g] = at /\ InLine(out, g, Len(out))
  BY <1>1, <1>3 DEF InFolderNow
<1>5. F \subseteq 1..Len(entries) /\ \A f \in F : entries[f].info.isDir
  BY <1>1, DueFolders
<1>6. F = Begun(U, P, u) /\ F = Started(at, n + 1, U, P, u)
  BY <1>1, <1>3 DEF Started, Unset
<1>7. at \in 1..Len(entries) /\ entries[at].info.isDir /\ IsFolder(c.current)
  BY <1>2, <1>4, <1>5, WayChildren
<1>8. /\ DOMAIN FolderChildren(c) = 1..Width(at)
      /\ \A k \in 1..Width(at) : FolderChildren(c)[k] = [folder |-> at, child |-> k]
  BY <1>2, <1>7, WayChildren
<1>9. n \in 1..Width(at) /\ FolderChildren(c)[n] = [folder |-> at, child |-> n]
  BY <1>8
<1>w. Width(at) \in Nat
  BY <1>7, LeftFields DEF Whole
<1>e. PICK e : e = [folder |-> at, child |-> n]
  OBVIOUS
<1>m. PICK m : m = Cell(at, n)
  OBVIOUS
<1>10. /\ m \in 1..Len(entries) /\ P[at] \in Seq(Names) /\ FileName(e) \in Names
       /\ P[m] = Append(P[at], FileName(e)) /\ FileName(e) = entries[at].children[n].name
  BY <1>7, <1>9, <1>e, <1>m, ChildUnder DEF FileName
<1>11. Meta(e) = m /\ IsFolder(e) = entries[m].info.isDir
  <2>1. e # Root
    BY <1>7, <1>e DEF Root
  <2>2. Meta(e) = m
    BY <2>1, <1>e, <1>m DEF Meta, Cell
  <2> QED
    BY <2>2 DEF IsFolder
<1>12. OnTheWay(WithCache(c), P, U) /\ at = Meta(WithCache(c).current)
  BY <1>2, WayCached
<1>13. n + 1 \in 1..Width(at) + 1 /\ n + 1 # Unset
  BY <1>3, <1>9, <1>w DEF Unset
<1>14. \A f \in F : \A k \in 1..Width(f) : Cell(f, k) = m => f = at /\ k = n
  <2>1. ASSUME NEW f \in F, NEW k \in 1..Width(f), Cell(f, k) = m PROVE f = at /\ k = n
    <3>1. f \in 1..Len(entries) /\ m # Unset
      BY <1>5, <1>10 DEF Unset
    <3> QED
      BY <1>7, <1>9, <1>m, <2>1, <3>1, OneParent DEF Whole
  <2> QED
    BY <2>1
<1>15. ASSUME NEW x \in 1..Len(entries)
       PROVE  Due(x, at, n + 1, F) <=> Due(x, at, n, F) \/ (x = m /\ ~entries[m].info.isDir)
  <2>1. \A k \in 1..Width(at) : k < n + 1 <=> k < n \/ k = n
    BY <1>3, <1>w
  <2>2. ASSUME Due(x, at, n, F) PROVE Due(x, at, n + 1, F)
    BY <2>1, <2>2 DEF Due
  <2>3. ASSUME x = m, ~entries[m].info.isDir PROVE Due(x, at, n + 1, F)
    BY <1>4, <1>9, <1>m, <2>1, <2>3 DEF Due
  <2>4. ASSUME Due(x, at, n + 1, F), ~Due(x, at, n, F) PROVE x = m /\ ~entries[m].info.isDir
    <3>1. x \notin F /\ ~entries[x].info.isDir
      BY <2>4 DEF Due
    <3>f. PICK f \in F : \E k \in 1..Width(f) : Cell(f, k) = x /\ (f = at => k < n + 1)
      BY <2>4, <3>1 DEF Due
    <3>2. PICK k \in 1..Width(f) : Cell(f, k) = x /\ (f = at => k < n + 1)
      BY <3>f
    <3>3. f = at /\ ~(k < n)
      BY <2>4, <3>1, <3>2 DEF Due
    <3>4. k = n
      BY <2>1, <3>2, <3>3
    <3> QED
      BY <1>m, <3>1, <3>2, <3>3, <3>4
  <2> QED
    BY <2>2, <2>3, <2>4
<1>16. CASE entries[m].info.isDir
  <2>1. QFile(c, n, out) = out
    BY <1>9, <1>11, <1>16, <1>e DEF QFile
  <2>2. DueIn(V, at, n + 1, F)
    BY <1>1, <1>15, <1>16 DEF DueIn
  <2>3. InFolderNow(out, V, at, n + 1, F)
    BY <1>4, <1>13 DEF InFolderNow
  <2> QED
    BY <1>1, <1>6, <1>12, <2>1, <2>2, <2>3 DEF QAt
<1>17. CASE ~entries[m].info.isDir
  <2>r. PICK r : r = [isDir |-> FALSE, path |-> <<FileName(e)>>]
    OBVIOUS
  <2>1. r \in QLine /\ ~r.isDir /\ r.path = <<FileName(e)>>
    BY <1>10, <2>r DEF QLine
  <2>n. PICK new, W : new = Append(out, r) /\ W = Append(V, m)
    OBVIOUS
  <2>2. QFile(c, n, out) = new
    BY <1>9, <1>11, <1>17, <1>e, <2>r, <2>n DEF QFile
  <2>3. \A i \in 1..Len(V) : V[i] # m
    <3>1. ~Due(m, at, n, F)
      <4>1. m \notin F
        BY <1>5, <1>17
      <4>2. ~(n < n)
        BY <1>3
      <4> QED
        BY <1>14, <4>1, <4>2 DEF Due
    <3> QED
      BY <1>1, <1>10, <3>1 DEF DueIn
  <2>4. PICK g \in 1..Len(out) : V[g] = at /\ InLine(out, g, Len(out))
    BY <1>4
  <2>5. P[m] = out[g].path \o r.path
    <3>1. out[g].isDir
      BY <2>4 DEF InLine
    <3>2. Len(V) = Len(out) /\ LineAt(out, V, g, P)
      BY <1>1 DEF Printed
    <3>3. out[g].path = P[at]
      BY <2>4, <3>1, <3>2 DEF LineAt
    <3>4. Append(P[at], FileName(e)) = P[at] \o <<FileName(e)>>
      BY <1>10
    <3> QED
      BY <1>10, <2>1, <3>3, <3>4
  <2>6. r.isDir = entries[m].info.isDir
    <3>1. entries[m].info.isDir \in BOOLEAN
      BY <1>10, LeftFields DEF Whole
    <3>2. r.isDir = FALSE
      BY <2>r
    <3> QED
      BY <1>17, <3>1, <3>2
  <2>7. LineFits(r, m, out, V, P)
    BY <1>1, <1>10, <2>1, <2>3, <2>4, <2>5, <2>6 DEF LineFits
  <2>v. Printed(new, W, P)
    BY <2>7, <2>n, LineAdded
  <2>x. /\ Len(new) = Len(out) + 1 /\ Len(out) \in Nat /\ Len(W) = Len(V) + 1
        /\ Len(V) = Len(out)
    BY <2>7, <2>n, LineAdded
  <2>y. W[Len(new)] = m /\ \A i \in 1..Len(V) : W[i] = V[i]
    BY <2>7, <2>n, LineAdded
  <2>8. /\ Printed(new, W, P)
        /\ Len(new) = Len(out) + 1 /\ Len(out) \in Nat /\ Len(W) = Len(V) + 1
        /\ Len(V) = Len(out)
        /\ W[Len(new)] = m /\ \A i \in 1..Len(V) : W[i] = V[i]
    BY <2>v, <2>x, <2>y
  <2>l. InLine(new, g, Len(new))
    <3>1. out \in Seq(QLine)
      BY <1>1 DEF Printed
    <3>2. InLine(new, g, Len(out) + 1)
      BY <2>1, <2>4, <2>n, <3>1, StillInLine
    <3> QED
      BY <2>x, <3>2
  <2>9. DueIn(W, at, n + 1, F)
    <3>1. ASSUME NEW x \in 1..Len(entries)
          PROVE  (\E i \in 1..Len(W) : W[i] = x) <=> (\E i \in 1..Len(V) : V[i] = x) \/ x = m
      <4>1. \A i : i \in 1..Len(W) <=> i \in 1..Len(V) \/ i = Len(new)
        BY <2>8
      <4> QED
        BY <2>8, <4>1
    <3> QED
      BY <1>1, <1>15, <1>17, <3>1 DEF DueIn
  <2>10. InFolderNow(new, W, at, n + 1, F)
    <3>1. g \in 1..Len(new) /\ W[g] = at /\ InLine(new, g, Len(new))
      BY <2>4, <2>8, <2>l
    <3> QED
      BY <1>4, <1>13, <3>1 DEF InFolderNow
  <2> QED
    BY <1>6, <1>12, <2>2, <2>8, <2>9, <2>10 DEF QAt
<1> QED
  BY <1>16, <1>17

(* The rounds for a folder: on from one whose children were all met,       *)
LEMMA QNext ==
  ASSUME NEW P, Whole(P), NEW c, NEW n, NEW out, NEW u, QAt(c, n, P, out, u),
         n \notin DOMAIN FolderChildren(c),
         NEW x, x = IF n = Unset THEN c ELSE Advance(WithCache(c))
  PROVE  QAt(x, Unset, P, out, u)
<1>1. CASE n = Unset
  BY <1>1
<1>2. CASE n # Unset
  <2>1. PICK U, V, at, F :
          /\ F = Started(at, n, U, P, u)
          /\ Printed(out, V, P) /\ DueIn(V, at, n, F)
          /\ OnTheWay(c, P, U) /\ at = Meta(c.current)
          /\ InFolderNow(out, V, at, n, F)
    BY <1>2 DEF QAt
  <2>2. at \in F /\ n \in 1..Width(at) + 1
    BY <2>1 DEF InFolderNow
  <2>3. F \subseteq 1..Len(entries) /\ 0 \notin F /\ \A f \in F : entries[f].info.isDir
    BY <2>1, DueFolders
  <2>4. at \in 1..Len(entries) /\ entries[at].info.isDir /\ Width(at) \in Nat
    BY <2>2, <2>3, LeftFields DEF Whole
  <2>5. IsFolder(c.current) /\ DOMAIN FolderChildren(c) = 1..Width(at)
    BY <2>1, <2>4, WayChildren
  <2>6. n = Width(at) + 1
    BY <2>2, <2>4, <2>5
  <2>7. DueIn(V, 0, Unset, F)
    BY <2>1, <2>3, <2>4, <2>6, AllMet
  <2>8. F = Begun(U, P, u)
    BY <1>2, <2>1 DEF Started
  <2>9. OnTheWay(WithCache(c), P, U)
    BY <2>1, WayCached
  <2>10. QAt(Advance(WithCache(c)), Unset, P, out, u)
    BY <2>1, <2>7, <2>8, <2>9, MoveOn
  <2> QED
    BY <1>2, <2>10
<1> QED
  BY <1>1, <1>2

(* to one that has a line,                                                 *)
LEMMA QBegin ==
  ASSUME NEW P, Whole(P), NEW x, NEW out, NEW u, QAt(x, Unset, P, out, u),
         x.current # NoEntry, IsFolder(x.current), Lined(x.path, u),
         NEW r, r = [isDir |-> TRUE, path |-> x.path]
  PROVE  QAt(x, 1, P, Append(out, r), u)
<1>1. PICK U, V, at, F :
        /\ F = Started(at, Unset, U, P, u)
        /\ Printed(out, V, P) /\ DueIn(V, at, Unset, F)
        /\ OnTheWay(x, P, U) /\ at = Meta(x.current)
  BY ClearedFields DEF QAt
<1>2. F \subseteq 1..Len(entries) /\ at \notin F /\ \A f \in F : entries[f].info.isDir
  BY <1>1, DueFolders
<1>3. /\ at \in 1..Len(entries) /\ at \notin U /\ x.path = P[at] /\ entries[at].info.isDir
  BY <1>1, WayChildren
<1>4. Width(at) \in Nat /\ P[at] \in Seq(Names) /\ entries[at].info.isDir \in BOOLEAN
  BY <1>3, LeftFields DEF Whole
<1>G. PICK G : G = Begun(U, P, u)
  OBVIOUS
<1>5. at \in G
  BY <1>3, <1>G, BegunAre
<1>6. F = G \ {at} /\ G = Started(at, 1, U, P, u)
  BY <1>1, <1>G DEF Started, Unset
<1>7. r \in QLine /\ r.isDir /\ r.path = P[at]
  BY <1>3, <1>4 DEF QLine
<1>8. \A i \in 1..Len(V) : V[i] # at
  <2>1. ~Due(at, at, Unset, F)
    BY <1>2, <1>3 DEF Due
  <2> QED
    BY <1>1, <1>3, <2>1 DEF DueIn
<1>9. LineFits(r, at, out, V, P)
  <2>1. r.isDir = TRUE
    OBVIOUS
  <2>2. r.isDir = entries[at].info.isDir
    BY <1>3, <1>4, <2>1
  <2> QED
    BY <1>1, <1>3, <1>7, <1>8, <2>2 DEF LineFits
<1>n. PICK new, W : new = Append(out, r) /\ W = Append(V, at)
  OBVIOUS
<1>10. Printed(new, W, P)
  BY <1>9, <1>n, OneMorePrinted
<1>11. /\ Len(new) = Len(out) + 1 /\ Len(out) \in Nat /\ Len(W) = Len(V) + 1
       /\ Len(V) = Len(out)
  BY <1>9, <1>n, LineAdded
<1>12. W[Len(new)] = at /\ \A i \in 1..Len(V) : W[i] = V[i]
  BY <1>9, <1>n, LineAdded
<1>13. InLine(new, Len(new), Len(new))
  <2>1. out \in Seq(QLine)
    BY <1>1 DEF Printed
  <2>2. new[Len(new)].isDir
    BY <1>7, <1>n, <2>1, Appended
  <2> QED
    BY <1>11, <2>2 DEF InLine
<1>14. ASSUME NEW m \in 1..Len(entries)
       PROVE  Due(m, at, 1, G) <=> Due(m, at, Unset, F) \/ m = at
  <2>1. \A f \in G : f \in F \/ f = at
    BY <1>6
  <2>2. \A f \in F : f \in G /\ f # at
    BY <1>6
  <2>3. \A k \in 1..Width(at) : ~(k < 1)
    BY <1>4
  <2>4. ASSUME Due(m, at, Unset, F) PROVE Due(m, at, 1, G)
    BY <2>2, <2>4 DEF Due
  <2>5. ASSUME m = at PROVE Due(m, at, 1, G)
    BY <1>5, <2>5 DEF Due
  <2>6. ASSUME Due(m, at, 1, G), m # at PROVE Due(m, at, Unset, F)
    <3>1. CASE m \in G
      BY <2>1, <2>6, <3>1 DEF Due
    <3>2. CASE m \notin G
      <4>1. ~entries[m].info.isDir
        BY <2>6, <3>2 DEF Due
      <4>f. PICK f \in G : \E k \in 1..Width(f) : Cell(f, k) = m /\ (f = at => k < 1)
        BY <2>6, <3>2 DEF Due
      <4>2. PICK k \in 1..Width(f) : Cell(f, k) = m /\ (f = at => k < 1)
        BY <4>f
      <4>3. f # at /\ f \in F
        BY <2>1, <2>3, <4>2
      <4> QED
        BY <4>1, <4>2, <4>3 DEF Due
    <3> QED
      BY <3>1, <3>2
  <2> QED
    BY <2>4, <2>5, <2>6
<1>15. DueIn(W, at, 1, G)
  <2>1. ASSUME NEW m \in 1..Len(entries)
        PROVE  (\E i \in 1..Len(W) : W[i] = m) <=> (\E i \in 1..Len(V) : V[i] = m) \/ m = at
    <3>1. \A i : i \in 1..Len(W) <=> i \in 1..Len(V) \/ i = Len(new)
      BY <1>11
    <3> QED
      BY <1>11, <1>12, <3>1
  <2> QED
    BY <1>1, <1>14, <2>1 DEF DueIn
<1>16. InFolderNow(new, W, at, 1, G)
  <2>1. Len(new) \in 1..Len(new) /\ 1 \in 1..Width(at) + 1
    BY <1>4, <1>11
  <2> QED
    BY <1>5, <1>12, <1>13, <2>1 DEF InFolderNow
<1> QED
  BY <1>1, <1>6, <1>10, <1>15, <1>16, <1>n DEF QAt

(* or past a file, a root without a line, or the end.                      *)
LEMMA QSkip ==
  ASSUME NEW P, Whole(P), NEW x, NEW out, NEW u, QAt(x, Unset, P, out, u),
         ~(x.current # NoEntry /\ IsFolder(x.current) /\ Lined(x.path, u))
  PROVE  QAt(Advance(x), Unset, P, out, u)
<1>1. PICK U, V, at, F :
        /\ F = Started(at, Unset, U, P, u)
        /\ Printed(out, V, P) /\ DueIn(V, at, Unset, F)
        /\ \/ x = Cleared /\ U = {} /\ at = 0
           \/ OnTheWay(x, P, U) /\ at = Meta(x.current)
  BY DEF QAt
<1>2. CASE x = Cleared
  <2>1. Advance(Cleared) = Cleared
    BY ClearedFields DEF Advance
  <2> QED
    BY <1>2, <2>1
<1>3. CASE OnTheWay(x, P, U) /\ at = Meta(x.current)
  <2>1. /\ at \in 1..Len(entries) /\ x.path = P[at] /\ x.current # NoEntry
        /\ IsFolder(x.current) = entries[at].info.isDir
    BY <1>3, WayChildren
  <2>2. at \notin Begun(U, P, u)
    BY <2>1, BegunAre
  <2>3. F = Begun(U, P, u)
    BY <1>1, <2>2 DEF Started
  <2>4. F \subseteq 1..Len(entries) /\ 0 \notin F /\ at \notin F
    BY <1>1, DueFolders
  <2>5. DueIn(V, 0, Unset, F)
    BY <1>1, <2>4, AllMet
  <2> QED
    BY <1>1, <1>3, <2>3, <2>5, MoveOn
<1> QED
  BY <1>1, <1>2, <1>3

(* A walk stays where it is as long as the index does not change.          *)
LEMMA OnTheWayKept ==
  ASSUME entries' = entries, rootMeta' = rootMeta, NEW P, NEW c, NEW U, OnTheWay(c, P, U)
  PROVE  OnTheWay(c, P, U)'
<1>1. /\ OnWalk(c, P, U) /\ ClosedDown(U) /\ rootMeta \notin U /\ Led(c.parents, U)
      /\ Positioned(c, P)
  BY DEF OnTheWay
<1>2. OnWalk(c, P, U)'
  BY <1>1, WalkKept
<1>3. ClosedDown(U)'
  BY <1>1, WalkKept
<1>4. Positioned(c, P)'
  BY <1>1, PositionedKept
<1>5. Led(c.parents, U)'
  BY <1>1, WalkKept
<1> QED
  BY <1>1, <1>2, <1>3, <1>4, <1>5 DEF OnTheWay

LEMMA QAtKept ==
  ASSUME entries' = entries, rootMeta' = rootMeta, NEW P, NEW c, NEW n, NEW out, NEW u,
         QAt(c, n, P, out, u)
  PROVE  QAt(c, n, P, out, u)'
<1>1. PICK U, V, at, F :
        /\ F = Started(at, n, U, P, u)
        /\ Printed(out, V, P) /\ DueIn(V, at, n, F)
        /\ \/ c = Cleared /\ U = {} /\ at = 0 /\ n = Unset
           \/ OnTheWay(c, P, U) /\ at = Meta(c.current)
        /\ n # Unset => InFolderNow(out, V, at, n, F)
  BY DEF QAt
<1>2. (\A m : Width(m)' = Width(m)) /\ \A m, k : Cell(m, k)' = Cell(m, k)
  BY DEF Width, Cell
<1>3. F = Started(at, n, U, P, u)'
  <2>1. Begun(U, P, u)' = Begun(U, P, u)
    BY DEF Begun
  <2> QED
    BY <1>1, <2>1 DEF Started
<1>4. Printed(out, V, P)'
  <2>1. \A i : LineAt(out, V, i, P)' <=> LineAt(out, V, i, P)
    BY DEF LineAt
  <2> QED
    BY <1>1, <2>1 DEF Printed
<1>5. DueIn(V, at, n, F)'
  <2>1. \A m : Due(m, at, n, F)' <=> Due(m, at, n, F)
    BY <1>2 DEF Due
  <2> QED
    BY <1>1, <2>1 DEF DueIn
<1>6. n # Unset => InFolderNow(out, V, at, n, F)'
  BY <1>1, <1>2 DEF InFolderNow
<1>7. \/ c = Cleared' /\ U = {} /\ at = 0 /\ n = Unset'
      \/ OnTheWay(c, P, U)' /\ at = Meta(c.current)'
  <2>1. Cleared' = Cleared /\ Unset' = Unset
    BY DEF Cleared, NoEntry, Unset
  <2>2. Meta(c.current)' = Meta(c.current)
    BY DEF Meta
  <2> QED
    BY <1>1, <2>1, <2>2, OnTheWayKept
<1> QED
  BY <1>3, <1>4, <1>5, <1>6, <1>7 DEF QAt

(* What FsIndexToQDirStat has printed at any moment.                       *)
QPart ==
  \E P, c, n, out, u :
    /\ c = cursor /\ n = nextFile /\ out = output /\ u = user
    /\ Indexed(P) /\ FaithfulIndex(P) /\ QAt(c, n, P, out, u)

QDirStatInv ==
  /\ WalkInv
  /\ user = "none" => nextFile = Unset
  /\ IsQDirStat => QPart

LEMMA InitQDirStat == CursorInit => QDirStatInv
<1> SUFFICES ASSUME CursorInit PROVE QDirStatInv
  OBVIOUS
<1>1. user = "none" /\ nextFile = Unset /\ WalkInv
  BY InitWalkInv DEF CursorInit
<1> QED
  BY <1>1 DEF QDirStatInv, IsQDirStat

LEMMA QStarts ==
  ASSUME IndexInv, OnceInv, UNCHANGED indexVars, pc = "built", cursor' = AtRoot,
         nextFile' = Unset, output' = <<>>
  PROVE  QPart'
<1>1. PICK P : Indexed(P) /\ FaithfulIndex(P)
  BY DEF IndexInv
<1>2. PICK c, n, out, u : c = cursor' /\ n = nextFile' /\ out = output' /\ u = user'
  OBVIOUS
<1>3. Whole(P)
  BY <1>1, BuiltWhole
<1>4. PICK U : U = 1..Len(entries) \ {rootMeta}
  OBVIOUS
<1>5. OnTheWay(c, P, U) /\ Meta(c.current) = rootMeta
  BY <1>1, <1>2, <1>4, WayStarts
<1>F. PICK F : F = Started(rootMeta, Unset, U, P, u)
  OBVIOUS
<1>V. PICK V : V = <<>>
  OBVIOUS
<1>6. F = {}
  <2>1. ASSUME NEW f \in F PROVE FALSE
    <3>1. f \in Begun(U, P, u) /\ f # rootMeta
      BY <1>F DEF Started
    <3> QED
      BY <1>4, <3>1, BegunAre
  <2> QED
    BY <2>1
<1>7. DueIn(V, rootMeta, Unset, F)
  <2>1. \A m \in 1..Len(entries) : ~Due(m, rootMeta, Unset, F)
    BY <1>6 DEF Due
  <2>2. \A i : i \notin 1..Len(V)
    BY <1>V
  <2> QED
    BY <2>1, <2>2 DEF DueIn
<1>8. Printed(out, V, P)
  <2>1. out \in Seq(QLine) /\ V \in Seq(1..Len(entries)) /\ Len(out) = Len(V)
    BY <1>2, <1>V
  <2>2. \A i : i \notin 1..Len(V)
    BY <1>V
  <2> QED
    BY <2>1, <2>2 DEF Printed
<1>9. QAt(c, n, P, out, u)
  BY <1>2, <1>5, <1>7, <1>8, <1>F DEF QAt
<1>10. QAt(c, n, P, out, u)'
  BY <1>9, QAtKept DEF indexVars
<1>11. Indexed(P)' /\ FaithfulIndex(P)'
  BY <1>1, SameIndex
<1> QED
  BY <1>2, <1>10, <1>11 DEF QPart

(* One round of FsIndexToQDirStat::next.                                   *)
LEMMA QGoesOn ==
  ASSUME IndexInv, OnceInv, QPart, UNCHANGED indexVars, pc = "built",
         QDirStatFile \/ QDirStatFolder \/ UNCHANGED cursorVars
  PROVE  QPart'
<1>1. PICK P, c, n, out, u :
        /\ c = cursor /\ n = nextFile /\ out = output /\ u = user
        /\ Indexed(P) /\ FaithfulIndex(P) /\ QAt(c, n, P, out, u)
  BY DEF QPart
<1>2. Whole(P)
  BY <1>1, BuiltWhole
<1>3. Indexed(P)' /\ FaithfulIndex(P)'
  BY <1>1, SameIndex
<1> SUFFICES \E d, m, new : /\ d = cursor' /\ m = nextFile' /\ new = output' /\ u = user'
                            /\ QAt(d, m, P, new, u)
  <2>1. PICK d, m, new : /\ d = cursor' /\ m = nextFile' /\ new = output' /\ u = user'
                         /\ QAt(d, m, P, new, u)
    OBVIOUS
  <2>2. QAt(d, m, P, new, u)'
    BY <2>1, QAtKept DEF indexVars
  <2> QED
    BY <1>3, <2>1, <2>2 DEF QPart
<1>4. CASE UNCHANGED cursorVars
  BY <1>1, <1>4 DEF cursorVars
<1>5. CASE QDirStatFile
  <2>1. /\ n \in DOMAIN FolderChildren(c) /\ user' = u /\ nextFile' = n + 1
        /\ cursor' = WithCache(c) /\ output' = QFile(c, n, out)
    BY <1>1, <1>5 DEF QDirStatFile, QFile
  <2>2. QAt(WithCache(c), n + 1, P, QFile(c, n, out), u)
    BY <1>1, <1>2, <2>1, FileLine
  <2> QED
    BY <2>1, <2>2
<1>6. CASE QDirStatFolder
  <2>x. PICK x : x = IF n = Unset THEN c ELSE Advance(WithCache(c))
    OBVIOUS
  <2>1. n \notin DOMAIN FolderChildren(c) /\ user' = u
    BY <1>1, <1>6 DEF QDirStatFolder
  <2>2. HasLine(x.path) <=> Lined(x.path, u)
    BY <1>1 DEF HasLine, Lined
  <2>3. \/ /\ x.current # NoEntry /\ IsFolder(x.current) /\ Lined(x.path, u)
           /\ cursor' = x /\ nextFile' = 1
           /\ output' = Append(out, [isDir |-> TRUE, path |-> x.path])
        \/ /\ ~(x.current # NoEntry /\ IsFolder(x.current) /\ Lined(x.path, u))
           /\ cursor' = Advance(x) /\ nextFile' = Unset /\ output' = out
    BY <1>1, <1>6, <2>x, <2>2 DEF QDirStatFolder
  <2>4. QAt(x, Unset, P, out, u)
    BY <1>1, <1>2, <2>x, <2>1, QNext
  <2>5. ASSUME x.current # NoEntry, IsFolder(x.current), Lined(x.path, u)
        PROVE  QAt(x, 1, P, Append(out, [isDir |-> TRUE, path |-> x.path]), u)
    BY <1>2, <2>4, <2>5, QBegin
  <2>6. ASSUME ~(x.current # NoEntry /\ IsFolder(x.current) /\ Lined(x.path, u))
        PROVE  QAt(Advance(x), Unset, P, out, u)
    BY <1>2, <2>4, <2>6, QSkip
  <2> QED
    BY <2>1, <2>3, <2>5, <2>6
<1> QED
  BY <1>4, <1>5, <1>6

LEMMA QDirStatKept == QDirStatInv /\ [Next]_vars => QDirStatInv'
<1> SUFFICES ASSUME QDirStatInv, [Next]_vars PROVE QDirStatInv'
  OBVIOUS
<1>1. /\ WalkInv /\ IndexInv /\ OnceInv /\ CursorInv
      /\ user = "none" => nextFile = Unset /\ output = <<>>
  BY DEF QDirStatInv, WalkInv, CsvInv
<1>2. WalkInv'
  BY <1>1, WalkInvKept
<1>3. user # "none" => pc = "built"
  BY <1>1 DEF CursorInv
<1>4. ASSUME BuildNext, UNCHANGED cursorVars PROVE QDirStatInv'
  <2>1. pc # "built"
    BY <1>4 DEF BuildNext, Read, Panic, Take, Refuse, EndOfRecords, FinishFolder, AddFolder,
                AddFile, Built
  <2>2. user' = "none" /\ nextFile' = Unset
    BY <1>1, <1>3, <1>4, <2>1 DEF cursorVars
  <2> QED
    BY <1>2, <2>2 DEF QDirStatInv, IsQDirStat
<1>5. ASSUME UNCHANGED indexVars, SetRoot PROVE QDirStatInv'
  <2>1. /\ pc = "built" /\ cursor' = AtRoot /\ output' = <<>> /\ nextFile' = Unset
        /\ user' # "none"
    BY <1>1, <1>5 DEF SetRoot
  <2>2. QPart'
    BY <1>1, <1>5, <2>1, QStarts
  <2> QED
    BY <1>2, <2>1, <2>2 DEF QDirStatInv
<1>6. ASSUME UNCHANGED indexVars, QDirStatFile \/ QDirStatFolder PROVE QDirStatInv'
  <2>1. IsQDirStat /\ user' = user /\ user # "none"
    BY <1>6 DEF QDirStatFile, QDirStatFolder, IsQDirStat
  <2>2. QPart
    BY <2>1 DEF QDirStatInv
  <2>3. QPart'
    BY <1>1, <1>3, <1>6, <2>1, <2>2, QGoesOn
  <2> QED
    BY <1>2, <2>1, <2>3 DEF QDirStatInv
<1>7. ASSUME UNCHANGED indexVars, Navigate \/ CsvNext PROVE QDirStatInv'
  <2>1. user' \in {"navigation", "csv"}
    BY <1>7 DEF Navigate, CsvNext
  <2>2. ~IsQDirStat' /\ user' # "none"
    BY <2>1 DEF IsQDirStat
  <2> QED
    BY <1>2, <2>2 DEF QDirStatInv
<1>8. ASSUME UNCHANGED vars PROVE QDirStatInv'
  <2>1. UNCHANGED indexVars /\ UNCHANGED cursorVars /\ user' = user /\ nextFile' = nextFile
    BY <1>8 DEF vars, cursorVars
  <2>2. IsQDirStat' <=> IsQDirStat
    BY <2>1 DEF IsQDirStat
  <2>3. ASSUME IsQDirStat PROVE QPart'
    <3>1. user # "none" /\ QPart
      BY <2>3 DEF QDirStatInv, IsQDirStat
    <3> QED
      BY <1>1, <1>3, <2>1, <3>1, QGoesOn
  <2>4. Unset' = Unset
    BY DEF Unset
  <2> QED
    BY <1>1, <1>2, <2>1, <2>2, <2>3, <2>4 DEF QDirStatInv
<1> QED
  BY <1>4, <1>5, <1>6, <1>7, <1>8 DEF Next, CursorNext

LEMMA QDirStatHolds == Spec => []QDirStatInv
BY InitQDirStat, QDirStatKept, PTL DEF Spec

-------------------------------------------------------------------------------
(* All lines: the entries that have one, and how the reader of a line      *)
(* finds its path.                                                         *)
HasItsLine(p, isDir, u) == u = "qdirstat" \/ Len(p) > (IF isDir THEN 0 ELSE 1)

FolderLine(out, i) == Max({j \in 1..i : out[j].isDir})
EntryOf(out, i) ==
  IF out[i].isDir THEN out[i]
  ELSE [isDir |-> FALSE, path |-> out[FolderLine(out, i)].path \o out[i].path]

QEnd(P, V, out, l, u) ==
  /\ Whole(P) /\ Printed(out, V, P) /\ u \in {"qdirstat", "qdirstat at /"}
  /\ DueIn(V, 0, Unset, Begun({}, P, u))
  /\ Len(l) \in Nat /\ InOrder(l)
  /\ \A m \in 1..Len(entries) : Listed(l, P[m], entries[m].info.isDir)
  /\ \A k \in 1..Len(l) : \E m \in 1..Len(entries) : P[m] = l[k].path

LEMMA QEnds ==
  ASSUME QDirStatInv, IsQDirStat, cursor.current = NoEntry
  PROVE  \E P, V, out, l, u :
           out = output /\ l = listing /\ u = user /\ QEnd(P, V, out, l, u)
<1>1. PICK P, c, n, out, u :
        /\ c = cursor /\ n = nextFile /\ out = output /\ u = user
        /\ Indexed(P) /\ FaithfulIndex(P) /\ QAt(c, n, P, out, u)
  BY DEF QDirStatInv, QPart
<1>2. pc = "built" /\ IndexInv /\ OnceInv
  BY DEF QDirStatInv, WalkInv, CsvInv, CursorInv, IsQDirStat
<1>l. PICK l, o : l = listing /\ o = options
  OBVIOUS
<1>3. /\ Whole(P)
      /\ \A m \in 1..Len(entries) : Listed(l, P[m], entries[m].info.isDir)
      /\ \A k \in 1..Len(l) : \E m \in 1..Len(entries) : P[m] = l[k].path
  BY <1>1, <1>2, <1>l, BuiltWhole
<1>4. Len(l) \in Nat /\ InOrder(l)
  <2>1. Ordered(P, options, listing)
    BY <1>1, <1>2, BuiltOrdered
  <2> QED
    BY <1>l, <2>1 DEF Ordered
<1>5. PICK U, V, at, F :
        /\ F = Started(at, n, U, P, u)
        /\ Printed(out, V, P) /\ DueIn(V, at, n, F)
        /\ \/ c = Cleared /\ U = {} /\ at = 0 /\ n = Unset
           \/ OnTheWay(c, P, U) /\ at = Meta(c.current)
  BY <1>1 DEF QAt
<1>6. ~OnTheWay(c, P, U)
  <2>1. ASSUME OnTheWay(c, P, U) PROVE FALSE
    <3>1. c.current # NoEntry
      BY <1>3, <2>1, WayChildren
    <3> QED
      BY <1>1, <3>1
  <2> QED
    BY <2>1
<1>7. DueIn(V, 0, Unset, Begun({}, P, u))
  <2>1. /\ at = 0 /\ n = Unset /\ F = Started(0, Unset, {}, P, u)
    BY <1>5, <1>6
  <2>2. 0 \notin Begun({}, P, u)
    <3>1. 0 \notin 1..Len(entries)
      OBVIOUS
    <3> QED
      BY <3>1, BegunAre
  <2>3. F = Begun({}, P, u)
    BY <2>1, <2>2 DEF Started
  <2> QED
    BY <1>5, <2>1, <2>3
<1>8. u \in {"qdirstat", "qdirstat at /"}
  BY <1>1 DEF IsQDirStat
<1>9. Printed(out, V, P)
  BY <1>5
<1>10. QEnd(P, V, out, l, u)
  BY <1>3, <1>4, <1>7, <1>8, <1>9 DEF QEnd
<1> QED
  BY <1>1, <1>l, <1>10

(* The entries with a line are the ones that should have it.               *)
LEMMA LineFor ==
  ASSUME NEW P, NEW V, NEW out, NEW l, NEW u, QEnd(P, V, out, l, u), NEW m \in 1..Len(entries)
  PROVE  (\E i \in 1..Len(V) : V[i] = m) <=> HasItsLine(P[m], entries[m].info.isDir, u)
<1>F. PICK F : F = Begun({}, P, u)
  OBVIOUS
<1>1. Whole(P) /\ Pruned(P) /\ u \in {"qdirstat", "qdirstat at /"} /\ DueIn(V, 0, Unset, F)
  BY <1>F DEF QEnd, Whole
<1>2. P[m] \in Seq(Names) /\ entries[m].info.isDir \in BOOLEAN
  BY <1>1, LeftFields
<1>3. \A p \in Seq(Names) : Lined(p, u) <=> u = "qdirstat" \/ Len(p) > 0
  <2>1. ASSUME NEW p \in Seq(Names) PROVE p # <<>> <=> Len(p) > 0
    OBVIOUS
  <2>2. u = "qdirstat" <=> u # "qdirstat at /"
    BY <1>1
  <2> QED
    BY <2>1, <2>2 DEF Lined
<1>4. \A f : f \in F <=> f \in 1..Len(entries) /\ entries[f].info.isDir /\ Lined(P[f], u)
  BY <1>F, BegunAre
<1>5. (\E i \in 1..Len(V) : V[i] = m) <=> Due(m, 0, Unset, F)
  BY <1>1 DEF DueIn
<1>6. ASSUME entries[m].info.isDir
      PROVE  Due(m, 0, Unset, F) <=> HasItsLine(P[m], entries[m].info.isDir, u)
  <2>1. Due(m, 0, Unset, F) <=> m \in F
    BY <1>6 DEF Due
  <2>2. HasItsLine(P[m], entries[m].info.isDir, u) <=> u = "qdirstat" \/ Len(P[m]) > 0
    BY <1>6 DEF HasItsLine
  <2> QED
    BY <1>2, <1>3, <1>4, <1>6, <2>1, <2>2
<1>7. ASSUME ~entries[m].info.isDir
      PROVE  Due(m, 0, Unset, F) <=> HasItsLine(P[m], entries[m].info.isDir, u)
  <2>1. P[m] # <<>>
    <3>1. /\ rootMeta \in 1..Len(entries) /\ P[rootMeta] = <<>> /\ entries[rootMeta].info.isDir
      BY <1>1 DEF Pruned, RootStored
    <3>2. Len(P) = Len(entries) /\ \A a, b \in 1..Len(P) : P[a] = P[b] => a = b
      BY <1>1 DEF Pruned
    <3> QED
      BY <1>7, <3>1, <3>2
  <2>2. PICK j \in 1..Len(entries) : \E k \in 1..Width(j) : Cell(j, k) = m
    <3>1. Complete(P) /\ Len(P) = Len(entries)
      BY <1>1 DEF Whole, Pruned
    <3>2. \E j \in 1..Len(entries) : HasChild(entries[j].children, m)
      BY <2>1, <3>1 DEF Complete
    <3> QED
      BY <3>2 DEF HasChild, Width, Cell
  <2>3. PICK k \in 1..Width(j) : Cell(j, k) = m
    BY <2>2
  <2>4. Len(P[m]) = Len(P[j]) + 1 /\ P[j] \in Seq(Names)
    BY <1>1, <2>3, ChildUnder
  <2>5. entries[j].info.isDir
    <3>1. ~entries[j].info.isDir => entries[j].children = <<>>
      BY <1>1 DEF Whole, Complete, Walkable, EntriesAttached
    <3>2. entries[j].children # <<>>
      <4>1. ASSUME entries[j].children = <<>> PROVE FALSE
        BY <2>3, <4>1 DEF Width
      <4> QED
        BY <4>1
    <3> QED
      BY <3>1, <3>2
  <2>6. Due(m, 0, Unset, F) <=> j \in F
    <3>1. m \notin F /\ 0 \notin F
      BY <1>4, <1>7
    <3>2. ASSUME NEW f \in F, NEW h \in 1..Width(f), Cell(f, h) = m PROVE f = j
      <4>1. f \in 1..Len(entries) /\ m # Unset
        BY <1>4 DEF Unset
      <4>2. Cell(f, h) = Cell(j, k) /\ Cell(f, h) # Unset
        BY <2>3, <3>2, <4>1
      <4>3. Pruned(P)
        BY <1>1
      <4> QED
        BY <3>2, <4>1, <4>2, <4>3, OneParent
    <3>3. \A f \in F : f # 0
      BY <3>1
    <3>4. Due(m, 0, Unset, F) => j \in F
      BY <3>1, <3>2 DEF Due
    <3>5. j \in F => Due(m, 0, Unset, F)
      BY <1>7, <2>3, <3>3 DEF Due
    <3> QED
      BY <3>4, <3>5
  <2>7. HasItsLine(P[m], entries[m].info.isDir, u) <=> u = "qdirstat" \/ Len(P[m]) > 1
    BY <1>7 DEF HasItsLine
  <2>8. Len(P[m]) > 1 <=> Len(P[j]) > 0
    BY <2>4
  <2> QED
    BY <1>3, <1>4, <2>4, <2>5, <2>6, <2>7, <2>8
<1> QED
  BY <1>2, <1>5, <1>6, <1>7

(* Its path is found.                                                      *)
LEMMA LineFound ==
  ASSUME NEW P, NEW V, NEW out, NEW l, NEW u, QEnd(P, V, out, l, u), NEW i \in 1..Len(out)
  PROVE  /\ V[i] \in 1..Len(entries) /\ i \in 1..Len(V)
         /\ EntryOf(out, i) = [isDir |-> entries[V[i]].info.isDir, path |-> P[V[i]]]
<1>1. /\ out \in Seq(QLine) /\ V \in Seq(1..Len(entries)) /\ Len(out) = Len(V)
      /\ Whole(P)
  BY DEF QEnd, Printed
<1>2. i \in 1..Len(V) /\ V[i] \in 1..Len(entries) /\ out[i] \in QLine
  BY <1>1
<1>3. LineAt(out, V, i, P)
  BY <1>2 DEF QEnd, Printed
<1>4. out[i].isDir \in BOOLEAN /\ out[i] = [isDir |-> out[i].isDir, path |-> out[i].path]
  BY <1>2 DEF QLine
<1>5. out[i].isDir = entries[V[i]].info.isDir
  BY <1>3 DEF LineAt
<1>6. CASE out[i].isDir
  <2>1. out[i].path = P[V[i]]
    BY <1>3, <1>6 DEF LineAt
  <2>2. EntryOf(out, i) = out[i]
    BY <1>6 DEF EntryOf
  <2> QED
    BY <1>2, <1>4, <1>5, <2>1, <2>2
<1>7. CASE ~out[i].isDir
  <2>1. PICK g \in 1..i : InLine(out, g, i) /\ P[V[i]] = out[g].path \o out[i].path
    BY <1>3, <1>7 DEF LineAt
  <2>n. PICK n \in Nat : n = i
    BY <1>1
  <2>T. PICK T : T = {j \in 1..i : out[j].isDir}
    OBVIOUS
  <2>2. g \in T /\ T \in SUBSET (0..n)
    BY <2>1, <2>n, <2>T DEF InLine
  <2>3. Max(T) \in T /\ \A k \in T : k <= Max(T)
    BY <2>2, GreatestNumber
  <2>4. Max(T) = g
    <3>1. PICK x : x = Max(T)
      OBVIOUS
    <3>2. x \in 1..n /\ out[x].isDir /\ g <= x /\ g \in 1..n
      BY <2>2, <2>3, <2>T, <2>n, <3>1
    <3>3. \A k \in g + 1..n : ~out[k].isDir
      BY <2>1, <2>n DEF InLine
    <3>4. ASSUME x # g PROVE FALSE
      <4>1. x \in g + 1..n
        BY <3>2, <3>4
      <4> QED
        BY <3>2, <3>3, <4>1
    <3> QED
      BY <3>1, <3>4
  <2>5. FolderLine(out, i) = g
    BY <2>4, <2>T DEF FolderLine
  <2>6. EntryOf(out, i) = [isDir |-> FALSE, path |-> P[V[i]]]
    BY <1>7, <2>1, <2>5 DEF EntryOf
  <2>7. entries[V[i]].info.isDir = FALSE
    BY <1>4, <1>5, <1>7
  <2> QED
    BY <1>2, <2>6, <2>7
<1> QED
  BY <1>6, <1>7

(* The lines and the listing.                                              *)
LEMMA RecordOf ==
  ASSUME NEW P, NEW V, NEW out, NEW l, NEW u, QEnd(P, V, out, l, u), NEW i \in 1..Len(out)
  PROVE  \E k \in 1..Len(l) : /\ l[k].path = P[V[i]] /\ l[k].isDir = entries[V[i]].info.isDir
                              /\ HasItsLine(l[k].path, l[k].isDir, u)
<1>m. PICK m : m = V[i]
  OBVIOUS
<1>1. m \in 1..Len(entries) /\ i \in 1..Len(V)
  BY <1>m, LineFound
<1>2. HasItsLine(P[m], entries[m].info.isDir, u)
  BY <1>1, <1>m, LineFor
<1>3. Listed(l, P[m], entries[m].info.isDir)
  BY <1>1 DEF QEnd
<1>4. PICK k \in 1..Len(l) : l[k].path = P[m] /\ l[k].isDir = entries[m].info.isDir
  BY <1>3 DEF Listed
<1> QED
  BY <1>2, <1>4, <1>m

LEMMA LineOfRecord ==
  ASSUME NEW P, NEW V, NEW out, NEW l, NEW u, QEnd(P, V, out, l, u), NEW k \in 1..Len(l),
         HasItsLine(l[k].path, l[k].isDir, u)
  PROVE  \E i \in 1..Len(out) : /\ l[k].path = P[V[i]]
                                /\ l[k].isDir = entries[V[i]].info.isDir
<1>1. PICK m \in 1..Len(entries) : P[m] = l[k].path
  BY DEF QEnd
<1>2. Listed(l, P[m], entries[m].info.isDir) /\ InOrder(l)
  BY DEF QEnd
<1>3. PICK j \in 1..Len(l) : l[j].path = P[m] /\ l[j].isDir = entries[m].info.isDir
  BY <1>2 DEF Listed
<1>4. \A a, b \in 1..Len(l) : l[a].path = l[b].path => a = b
  BY <1>2 DEF InOrder
<1>5. l[k].isDir = entries[m].info.isDir
  <2>1. j = k
    BY <1>1, <1>3, <1>4
  <2> QED
    BY <1>3, <2>1
<1>6. HasItsLine(P[m], entries[m].info.isDir, u)
  BY <1>1, <1>5
<1>7. PICK i \in 1..Len(V) : V[i] = m
  BY <1>6, LineFor
<1>8. Len(out) = Len(V)
  BY DEF QEnd, Printed
<1> QED
  BY <1>1, <1>5, <1>7, <1>8

(* As many lines as records that should have one.                          *)
LEMMA LinesCounted ==
  ASSUME NEW P, NEW V, NEW out, NEW l, NEW u, QEnd(P, V, out, l, u),
         NEW S, S = {r \in Range(l) : HasItsLine(r.path, r.isDir, u)}, DOMAIN l = 1..Len(l)
  PROVE  Len(out) = Cardinality(S)
<1>n. PICK n : n = Len(out)
  OBVIOUS
<1>1. /\ out \in Seq(QLine) /\ Len(out) = Len(V) /\ Pruned(P)
      /\ \A i, j \in 1..Len(V) : V[i] = V[j] => i = j
  BY DEF QEnd, Printed, Whole
<1>2. n \in Nat
  BY <1>1, <1>n
<1>3. \A i \in 1..n : \E r \in S : r.path = P[V[i]]
  <2>1. ASSUME NEW i \in 1..n PROVE \E r \in S : r.path = P[V[i]]
    <3>1. PICK k \in 1..Len(l) : l[k].path = P[V[i]] /\ HasItsLine(l[k].path, l[k].isDir, u)
      BY <1>n, RecordOf
    <3>2. l[k] \in Range(l)
      BY DEF Range
    <3> QED
      BY <3>1, <3>2
  <2> QED
    BY <2>1
<1>4. \A r \in S : \E i \in 1..n : r.path = P[V[i]]
  <2>1. ASSUME NEW r \in S PROVE \E i \in 1..n : r.path = P[V[i]]
    <3>1. PICK k \in 1..Len(l) : r = l[k]
      BY DEF Range
    <3>2. HasItsLine(l[k].path, l[k].isDir, u)
      BY <3>1
    <3> QED
      BY <1>n, <3>1, <3>2, LineOfRecord
  <2> QED
    BY <2>1
<1>5. \A r, s \in S : r.path = s.path => r = s
  <2>1. ASSUME NEW r \in S, NEW s \in S, r.path = s.path PROVE r = s
    <3>1. PICK k, j \in 1..Len(l) : r = l[k] /\ s = l[j]
      BY DEF Range
    <3>2. InOrder(l)
      BY DEF QEnd
    <3> QED
      BY <2>1, <3>1, <3>2 DEF InOrder
  <2> QED
    BY <2>1
<1>6. \A i, j \in 1..n : P[V[i]] = P[V[j]] => i = j
  <2>1. ASSUME NEW i \in 1..n, NEW j \in 1..n, P[V[i]] = P[V[j]] PROVE i = j
    <3>1. V[i] \in 1..Len(entries) /\ V[j] \in 1..Len(entries)
      BY <1>n, LineFound
    <3>2. \A a, b \in 1..Len(entries) : P[a] = P[b] => a = b
      BY <1>1 DEF Pruned
    <3>3. V[i] = V[j]
      BY <2>1, <3>1, <3>2
    <3> QED
      BY <1>1, <1>n, <3>3
  <2> QED
    BY <2>1
<1>f. PICK f : f = [i \in 1..n |-> CHOOSE r \in S : r.path = P[V[i]]]
  OBVIOUS
<1>7. \A i \in 1..n : f[i] \in S /\ f[i].path = P[V[i]]
  BY <1>3, <1>f
<1>8. f \in [1..n -> S]
  BY <1>7, <1>f
<1>9. \A i, j \in 1..n : f[i] = f[j] => i = j
  BY <1>6, <1>7
<1>10. \A r \in S : \E i \in 1..n : f[i] = r
  <2>1. ASSUME NEW r \in S PROVE \E i \in 1..n : f[i] = r
    <3>1. PICK i \in 1..n : r.path = P[V[i]]
      BY <1>4
    <3> QED
      BY <1>5, <1>7, <3>1
  <2> QED
    BY <2>1
<1>11. f \in Bijection(1..n, S)
  BY <1>8, <1>9, <1>10 DEF Bijection, Injection, Surjection, IsInjective
<1>12. IsFiniteSet(1..n) /\ Cardinality(1..n) = n
  BY <1>2, FS_Interval
<1>13. Cardinality(S) = Cardinality(1..n)
  BY <1>11, <1>12, FS_Bijection DEF ExistsBijection
<1> QED
  BY <1>12, <1>13, <1>n

LEMMA AllPrinted ==
  ASSUME QDirStatInv
  PROVE  QDirStatComplete
<1> SUFFICES ASSUME IsQDirStat, cursor.current = NoEntry
             PROVE  LET listed == {r \in Range(listing) :
                                     \/ user = "qdirstat"
                                     \/ Len(r.path) > (IF r.isDir THEN 0 ELSE 1)} IN
                    /\ Len(output) = Cardinality(listed)
                    /\ {EntryOf(output, i) : i \in DOMAIN output}
                         = {[isDir |-> r.isDir, path |-> r.path] : r \in listed}
  BY DEF QDirStatComplete, EntryOf, FolderLine
<1>1. PICK P, V, out, l, u : out = output /\ l = listing /\ u = user /\ QEnd(P, V, out, l, u)
  BY QEnds
<1>S. PICK S : S = {r \in Range(l) : HasItsLine(r.path, r.isDir, u)}
  OBVIOUS
<1>2. S = {r \in Range(listing) : \/ user = "qdirstat"
                                  \/ Len(r.path) > (IF r.isDir THEN 0 ELSE 1)}
  BY <1>1, <1>S DEF HasItsLine
<1>3. DOMAIN l = 1..Len(l) /\ DOMAIN out = 1..Len(out)
  <2>1. IndexTypeOK
    BY DEF QDirStatInv, WalkInv, CursorInv
  <2>2. listing \in Seq(Records(Paths \cup {<<>>}))
    BY <2>1, ListingFields
  <2>3. out \in Seq(QLine)
    BY <1>1 DEF QEnd, Printed
  <2> QED
    BY <1>1, <2>2, <2>3
<1>4. Len(out) = Cardinality(S)
  BY <1>1, <1>3, <1>S, LinesCounted
<1>5. ASSUME NEW i \in 1..Len(out)
      PROVE  \E r \in S : EntryOf(out, i) = [isDir |-> r.isDir, path |-> r.path]
  <2>1. EntryOf(out, i) = [isDir |-> entries[V[i]].info.isDir, path |-> P[V[i]]]
    BY <1>1, LineFound
  <2>2. PICK k \in 1..Len(l) : /\ l[k].path = P[V[i]] /\ l[k].isDir = entries[V[i]].info.isDir
                               /\ HasItsLine(l[k].path, l[k].isDir, u)
    BY <1>1, RecordOf
  <2>3. l[k] \in S
    BY <1>3, <1>S, <2>2 DEF Range
  <2> QED
    BY <2>1, <2>2, <2>3
<1>6. ASSUME NEW r \in S
      PROVE  \E i \in 1..Len(out) : EntryOf(out, i) = [isDir |-> r.isDir, path |-> r.path]
  <2>1. PICK k \in 1..Len(l) : r = l[k]
    BY <1>3, <1>S DEF Range
  <2>2. HasItsLine(l[k].path, l[k].isDir, u)
    BY <1>S, <2>1
  <2>3. PICK i \in 1..Len(out) : l[k].path = P[V[i]] /\ l[k].isDir = entries[V[i]].info.isDir
    BY <1>1, <2>2, LineOfRecord
  <2>4. EntryOf(out, i) = [isDir |-> entries[V[i]].info.isDir, path |-> P[V[i]]]
    BY <1>1, LineFound
  <2> QED
    BY <2>1, <2>3, <2>4
<1>7. {EntryOf(out, i) : i \in 1..Len(out)} = {[isDir |-> r.isDir, path |-> r.path] : r \in S}
  BY <1>5, <1>6
<1> QED
  BY <1>1, <1>2, <1>3, <1>4, <1>7

(* Each folder and each file of the listing has one line, below the folder *)
(* that it is in: what FsIndexToQDirStat printed when the cursor came to   *)
(* its end (QDirStatComplete), for any listing, options and start.         *)
THEOREM QDirStatCorrect == Spec => []QDirStatComplete
BY QDirStatHolds, AllPrinted, PTL

===============================================================================
