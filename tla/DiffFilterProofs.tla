--------------------------- MODULE DiffFilterProofs ----------------------------
(***************************************************************************)
(* That the filter of diff.rs never panics.  Two things could make it: a   *)
(* folder that is entered before one that lies beside it was left, and an  *)
(* update that needs more bytes than a record has.  The inductive          *)
(* invariant FilterInv therefore follows the walk: what is open lies in    *)
(* one another, has been passed, and is as it was read.                    *)
(***************************************************************************)
EXTENDS DiffFilter, FiniteSetTheorems, TLAPS

(* What is proved about a cursor holds of the two that the filter has.     *)
NewP == INSTANCE FsCursorProofs
          WITH Wanted <- Names, cursor <- here, user <- "navigation", nextFile <- Unset,
               output <- <<>>
OldP == INSTANCE FsCursorProofs
          WITH Wanted <- Names, cursor <- there, user <- "navigation", nextFile <- Unset,
               output <- <<>>, entries <- old.entries, rootMeta <- old.rootMeta,
               listing <- old.listing

-------------------------------------------------------------------------------
(* The build of the index is the same there.                               *)
LEMMA SameAssumption == NewP!CursorAssumption /\ NewP!IndexAssumption
                        /\ OldP!CursorAssumption /\ OldP!IndexAssumption
BY DiffAssumption, IndexAssumption
DEF NewP!CursorAssumption, NewP!IndexAssumption, OldP!CursorAssumption, OldP!IndexAssumption

LEMMA SameData ==
  /\ NewP!NoItem = NoItem /\ NewP!Paths = Paths /\ NewP!Options = Options
  /\ NewP!Info = Info /\ NewP!Unset = Unset /\ NewP!Child = Child
  /\ \A S : NewP!Records(S) = Records(S)
  /\ \A r : NewP!InfoOf(r) = InfoOf(r)
  /\ \A i : NewP!WithoutCounts(i) = WithoutCounts(i) /\ NewP!WithoutSize(i) = WithoutSize(i)
  /\ \A o, r : NewP!RootFolder(o, r) = RootFolder(o, r)
  /\ \A a, b : NewP!Precedes(a, b) <=> Precedes(a, b)
  /\ \A i, by : NewP!Enlarged(i, by) = Enlarged(i, by)
  /\ NewP!Kept = Kept
  /\ \A a, b, n : NewP!ChildAt(a, b, n) = ChildAt(a, b, n)
<1>1. /\ NewP!NoItem = NoItem /\ NewP!Paths = Paths /\ NewP!Options = Options
      /\ NewP!Info = Info /\ NewP!Unset = Unset
  BY DEF NewP!NoItem, NoItem, NewP!Paths, Paths, NewP!Options, Options,
         NewP!Info, Info, NewP!Unset, Unset
<1>2. NewP!Child = Child
  BY <1>1 DEF NewP!Child, Child
<1>3. \A S : NewP!Records(S) = Records(S)
  BY DEF NewP!Records, Records
<1>4. \A r : NewP!InfoOf(r) = InfoOf(r)
  BY DEF NewP!InfoOf, InfoOf
<1>5. \A i : NewP!WithoutCounts(i) = WithoutCounts(i) /\ NewP!WithoutSize(i) = WithoutSize(i)
  BY DEF NewP!WithoutCounts, WithoutCounts, NewP!WithoutSize, WithoutSize
<1>6. \A o, r : NewP!RootFolder(o, r) = RootFolder(o, r)
  BY DEF NewP!RootFolder, RootFolder
<1>7. \A a, b : NewP!Precedes(a, b) <=> Precedes(a, b)
  BY DEF NewP!Precedes, Precedes
<1>8. \A i, by : NewP!Enlarged(i, by) = Enlarged(i, by)
  BY DEF NewP!Enlarged, Enlarged
<1>9. NewP!Kept = Kept
  BY DEF NewP!Kept, Kept
<1>10. \A a, b, n : NewP!ChildAt(a, b, n) = ChildAt(a, b, n)
  BY DEF NewP!ChildAt, ChildAt
<1> QED
  BY <1>1, <1>2, <1>3, <1>4, <1>5, <1>6, <1>7, <1>8, <1>9, <1>10

LEMMA SameInit == Init => NewP!Init
BY SameData DEF Init, NewP!Init

LEMMA SameSorted == ASSUME NEW s PROVE NewP!Sorted(s) = Sorted(s)
<1> DEFINE before(i) == {j \in DOMAIN s : \/ Precedes(s[j], s[i])
                                          \/ ~Precedes(s[i], s[j]) /\ j < i}
           beforeP(i) == {j \in DOMAIN s : \/ NewP!Precedes(s[j], s[i])
                                           \/ ~NewP!Precedes(s[i], s[j]) /\ j < i}
<1>1. ASSUME NEW i PROVE before(i) = beforeP(i)
  BY SameData
<1>2. Sorted(s) = [k \in DOMAIN s |-> s[CHOOSE i \in DOMAIN s : Cardinality(before(i)) = k - 1]]
  BY DEF Sorted
<1>3. NewP!Sorted(s) =
        [k \in DOMAIN s |-> s[CHOOSE i \in DOMAIN s : Cardinality(beforeP(i)) = k - 1]]
  <2>1. ASSUME NEW S PROVE NewP!Cardinality(S) = Cardinality(S)
    BY DEF NewP!Cardinality, Cardinality
  <2>2. NewP!Sorted(s) =
          [k \in DOMAIN s |-> s[CHOOSE i \in DOMAIN s : NewP!Cardinality(beforeP(i)) = k - 1]]
    BY DEF NewP!Sorted
  <2> HIDE DEF before, beforeP
  <2> QED
    BY <2>1, <2>2
<1>4. ASSUME NEW S PROVE NewP!Cardinality(S) = Cardinality(S)
  BY DEF NewP!Cardinality, Cardinality
<1> HIDE DEF before, beforeP
<1> QED
  BY <1>1, <1>2, <1>3, <1>4

LEMMA SameSteps ==
  /\ \A r : (Read(r) => NewP!Read(r)) /\ (Panic(r) => NewP!Panic(r))
  /\ EndOfRecords => NewP!EndOfRecords
  /\ FinishFolder => NewP!FinishFolder
  /\ AddFolder => NewP!AddFolder
  /\ AddFile => NewP!AddFile
  /\ Built => NewP!Built
<1>1. ASSUME NEW r PROVE (Read(r) => NewP!Read(r)) /\ (Panic(r) => NewP!Panic(r))
  BY DEF Read, NewP!Read, Panic, NewP!Panic, Listable, NewP!Listable, Take, NewP!Take,
         Refuse, NewP!Refuse, InOpenFolders, NewP!InOpenFolders
<1>2. EndOfRecords => NewP!EndOfRecords
  BY DEF EndOfRecords, NewP!EndOfRecords
<1>3. \A s : NewP!Last(s) = Last(s) /\ NewP!Front(s) = Front(s)
  BY DEF NewP!Last, Last, NewP!Front, Front
<1>4. \A folder, by, child : NewP!WithChild(folder, by, child) = WithChild(folder, by, child)
  BY SameData DEF NewP!WithChild, WithChild
<1>5. \A r : NewP!Counted(r) = Counted(r)
  BY DEF NewP!Counted, Counted
<1>6. FinishFolder => NewP!FinishFolder
  BY <1>3, <1>4, SameData, SameSorted DEF FinishFolder, NewP!FinishFolder
<1>7. AddFolder => NewP!AddFolder
  BY <1>3, <1>5, SameData DEF AddFolder, NewP!AddFolder
<1>8. AddFile => NewP!AddFile
  BY <1>3, <1>4, <1>5, SameData DEF AddFile, NewP!AddFile
<1>9. Built => NewP!Built
  BY DEF Built, NewP!Built
<1> QED
  BY <1>1, <1>2, <1>6, <1>7, <1>8, <1>9

LEMMA SameBuild ==
  /\ BuildNext => [NewP!BuildNext]_NewP!indexVars
  /\ (UNCHANGED indexVars) => [NewP!BuildNext]_NewP!indexVars
<1>1. BuildNext => NewP!BuildNext
  BY SameData, SameSteps DEF BuildNext, NewP!BuildNext
<1>2. NewP!indexVars = indexVars /\ NewP!indexVars' = indexVars'
  BY DEF indexVars, NewP!indexVars
<1> QED
  BY <1>1, <1>2

-------------------------------------------------------------------------------
(* The navigation is the same, too.                                        *)
LEMMA NewNames ==
  /\ NewP!Root = New!Root /\ NewP!NoEntry = New!NoEntry /\ NewP!Cleared = New!Cleared
  /\ NewP!AtRoot = New!AtRoot
  /\ \A e : NewP!Meta(e) = New!Meta(e) /\ NewP!FileName(e) = New!FileName(e)
  /\ \A e : NewP!IsFolder(e) = New!IsFolder(e)
  /\ \A e : NewP!Children(e) = New!Children(e)
<1>1. NewP!Root = New!Root /\ NewP!NoEntry = New!NoEntry
  BY DEF NewP!Root, New!Root, NewP!NoEntry, New!NoEntry
<1>2. NewP!Cleared = New!Cleared
  BY <1>1 DEF NewP!Cleared, New!Cleared
<1>3. NewP!AtRoot = New!AtRoot
  BY <1>1, <1>2 DEF NewP!AtRoot, New!AtRoot
<1>4. \A e : NewP!Meta(e) = New!Meta(e) /\ NewP!FileName(e) = New!FileName(e)
  BY <1>1 DEF NewP!Meta, New!Meta, NewP!FileName, New!FileName
<1>5. \A e : NewP!IsFolder(e) = New!IsFolder(e)
  BY <1>4 DEF NewP!IsFolder, New!IsFolder
<1>6. \A e : NewP!Children(e) = New!Children(e)
  BY <1>4 DEF NewP!Children, New!Children
<1> QED BY <1>1, <1>2, <1>3, <1>4, <1>5, <1>6

LEMMA NewSelectChild ==
  ASSUME NEW c, NEW e PROVE NewP!SelectChild(c, e) = New!SelectChild(c, e)
BY Zenon
DEF NewP!SelectChild, New!SelectChild, NewP!FileName, New!FileName, NewP!IsFolder,
    New!IsFolder, NewP!Meta, New!Meta, NewP!Root, New!Root

LEMMA NewClosed ==
  ASSUME NEW c, NEW n
  PROVE  NewP!SelectFolder(NewP!Closed(c, n)) = New!SelectFolder(New!Closed(c, n))
BY Zenon
DEF NewP!SelectFolder, New!SelectFolder, NewP!Closed, New!Closed, NewP!Last, New!Last,
    NewP!Cleared, New!Cleared, NewP!NoEntry, New!NoEntry

LEMMA NewAdvance == ASSUME NEW c PROVE NewP!Advance(c) = New!Advance(c)
<1> DEFINE S == {i \in DOMAIN c.parents :
                   c.parents[i].next \in DOMAIN New!Children(c.parents[i].id)}
           n == New!Max(S)
           in == New!SelectFolder(New!Closed(c, n))
           out == [in EXCEPT !.parents[n].next = @ + 1]
           e == New!Children(in.current)[in.parents[n].next]
           SP == {i \in DOMAIN c.parents :
                    c.parents[i].next \in DOMAIN NewP!Children(c.parents[i].id)}
           nP == NewP!Max(SP)
           inP == NewP!SelectFolder(NewP!Closed(c, nP))
           outP == [inP EXCEPT !.parents[nP].next = @ + 1]
           eP == NewP!Children(inP.current)[inP.parents[nP].next]
<1>1. New!Advance(c) = IF S = {} THEN New!Cleared ELSE New!SelectChild(out, e)
  BY DEF New!Advance
<1>2. NewP!Advance(c) = IF SP = {} THEN NewP!Cleared ELSE NewP!SelectChild(outP, eP)
  BY DEF NewP!Advance
<1>3. S = SP
  BY NewNames
<1> HIDE DEF S, SP
<1>4. n = nP
  BY <1>3 DEF NewP!Max, New!Max
<1> HIDE DEF n, nP
<1>5. in = inP
  BY <1>4, NewClosed
<1> HIDE DEF in, inP
<1>6. out = outP /\ e = eP
  BY <1>4, <1>5, NewNames
<1> HIDE DEF out, outP, e, eP
<1>7. NewP!SelectChild(out, e) = New!SelectChild(out, e) /\ NewP!Cleared = New!Cleared
  BY NewSelectChild, NewNames
<1> QED
  BY <1>1, <1>2, <1>3, <1>6, <1>7

LEMMA OldNames ==
  /\ OldP!Root = Old!Root /\ OldP!NoEntry = Old!NoEntry /\ OldP!Cleared = Old!Cleared
  /\ OldP!AtRoot = Old!AtRoot
  /\ \A e : OldP!Meta(e) = Old!Meta(e) /\ OldP!FileName(e) = Old!FileName(e)
  /\ \A e : OldP!IsFolder(e) = Old!IsFolder(e)
  /\ \A e : OldP!Children(e) = Old!Children(e)
<1>1. OldP!Root = Old!Root /\ OldP!NoEntry = Old!NoEntry
  BY DEF OldP!Root, Old!Root, OldP!NoEntry, Old!NoEntry
<1>2. OldP!Cleared = Old!Cleared
  BY <1>1 DEF OldP!Cleared, Old!Cleared
<1>3. OldP!AtRoot = Old!AtRoot
  BY <1>1, <1>2 DEF OldP!AtRoot, Old!AtRoot
<1>4. \A e : OldP!Meta(e) = Old!Meta(e) /\ OldP!FileName(e) = Old!FileName(e)
  BY <1>1 DEF OldP!Meta, Old!Meta, OldP!FileName, Old!FileName
<1>5. \A e : OldP!IsFolder(e) = Old!IsFolder(e)
  BY <1>4 DEF OldP!IsFolder, Old!IsFolder
<1>6. \A e : OldP!Children(e) = Old!Children(e)
  BY <1>4 DEF OldP!Children, Old!Children
<1> QED BY <1>1, <1>2, <1>3, <1>4, <1>5, <1>6


LEMMA OldGoToParent ==
  ASSUME NEW c, NEW n
  PROVE  OldP!GoToParent(OldP!SelectFolder(c), n) = Old!GoToParent(Old!SelectFolder(c), n)
BY Zenon
DEF OldP!GoToParent, Old!GoToParent, OldP!SelectFolder, Old!SelectFolder, OldP!Closed,
    Old!Closed, OldP!Last, Old!Last, OldP!Cleared, Old!Cleared, OldP!NoEntry, Old!NoEntry

LEMMA OldSelectChild ==
  ASSUME NEW c, NEW e PROVE OldP!SelectChild(c, e) = Old!SelectChild(c, e)
BY Zenon
DEF OldP!SelectChild, Old!SelectChild, OldP!FileName, Old!FileName, OldP!IsFolder,
    Old!IsFolder, OldP!Meta, Old!Meta, OldP!Root, Old!Root

LEMMA OldWithCache ==
  ASSUME NEW c PROVE OldP!WithCache(c) = Old!WithCache(c)
BY Zenon
DEF OldP!WithCache, Old!WithCache, OldP!InFolder, Old!InFolder, OldP!Last, Old!Last,
    OldP!Children, Old!Children, OldP!Meta, Old!Meta, OldP!Root, Old!Root

LEMMA OldFolderChildren ==
  ASSUME NEW c PROVE OldP!FolderChildren(c) = Old!FolderChildren(c)
<1>1. OldP!InFolder(c) <=> Old!InFolder(c)
  BY Zenon DEF OldP!InFolder, Old!InFolder, OldP!Last, Old!Last
<1>d. PICK d : d = Old!WithCache(c)
  OBVIOUS
<1>2. OldP!Last(d.parents) = Old!Last(d.parents)
  BY Zenon DEF OldP!Last, Old!Last
<1>3. Old!FolderChildren(c) =
        IF Old!InFolder(c)
          THEN SubSeq(d.cached, Old!Last(d.parents).cacheStart + 1, Len(d.cached)) ELSE <<>>
  BY <1>d DEF Old!FolderChildren
<1>4. OldP!FolderChildren(c) =
        IF OldP!InFolder(c)
          THEN SubSeq(d.cached, OldP!Last(d.parents).cacheStart + 1, Len(d.cached)) ELSE <<>>
  BY <1>d, OldWithCache DEF OldP!FolderChildren
<1> QED
  BY <1>1, <1>2, <1>3, <1>4

LEMMA OldSelectByName ==
  ASSUME NEW c, NEW n PROVE OldP!SelectByName(c, n) = Old!SelectByName(c, n)
<1>w. PICK w : w = Old!WithCache(c)
  OBVIOUS
<1>f. PICK f : f = Old!FolderChildren(c)
  OBVIOUS
<1>m. PICK m : m = {i \in DOMAIN f : Fold[Old!FileName(f[i])] = Fold[n]}
  OBVIOUS
<1>1. m = {i \in DOMAIN f : Fold[OldP!FileName(f[i])] = Fold[n]}
  BY <1>m, OldNames
<1>k. PICK k : k = Old!Min(m)
  OBVIOUS
<1>2. k = OldP!Min(m)
  BY <1>k DEF OldP!Min, Old!Min
<1>c. PICK d : d = Old!SelectChild(w, f[k])
  OBVIOUS
<1>3. d = OldP!SelectChild(w, f[k])
  BY <1>c, OldSelectChild
<1>4. Old!SelectByName(c, n) =
        IF m = {} THEN [found |-> FALSE, cursor |-> w] ELSE [found |-> TRUE, cursor |-> d]
  BY <1>w, <1>f, <1>m, <1>k, <1>c DEF Old!SelectByName
<1>5. OldP!SelectByName(c, n) =
        IF m = {} THEN [found |-> FALSE, cursor |-> w] ELSE [found |-> TRUE, cursor |-> d]
  BY <1>w, <1>f, <1>1, <1>2, <1>3, OldWithCache, OldFolderChildren DEF OldP!SelectByName
<1> QED
  BY <1>4, <1>5

LEMMA OldOpenFolders == ASSUME NEW c, NEW p PROVE OldP!OpenFolders(c, p) = Old!OpenFolders(c, p)
BY Zenon
DEF OldP!OpenFolders, Old!OpenFolders, OldP!Min, Old!Min, OldP!Max, Old!Max, OldP!FileName,
    Old!FileName

LEMMA OldGoToPath == ASSUME NEW c, NEW p PROVE OldP!GoToPath(c, p) = Old!GoToPath(c, p)
<1>n. PICK n : n = Old!OpenFolders(c, p)
  OBVIOUS
<1>s. PICK start : start = [found |-> TRUE, cursor |-> Old!GoToParent(Old!SelectFolder(c), n + 1)]
  OBVIOUS
<1> DEFINE Going(g) == g = [i \in n..Len(p) |->
                IF i = n THEN start
                ELSE IF g[i - 1].found THEN Old!SelectByName(g[i - 1].cursor, p[i]) ELSE g[i - 1]]
           GoingP(g) == g = [i \in n..Len(p) |->
                IF i = n THEN start
                ELSE IF g[i - 1].found THEN OldP!SelectByName(g[i - 1].cursor, p[i]) ELSE g[i - 1]]
<1>1. Old!GoToPath(c, p) = IF c.parents = <<>> THEN [found |-> FALSE, cursor |-> c]
                           ELSE (CHOOSE g : Going(g))[Len(p)]
  BY <1>n, <1>s DEF Old!GoToPath
<1>2. n = OldP!OpenFolders(c, p)
  BY <1>n, OldOpenFolders
<1>3. start = [found |-> TRUE, cursor |-> OldP!GoToParent(OldP!SelectFolder(c), n + 1)]
  BY <1>s, OldGoToParent
<1>4. OldP!GoToPath(c, p) = IF c.parents = <<>> THEN [found |-> FALSE, cursor |-> c]
                            ELSE (CHOOSE g : GoingP(g))[Len(p)]
  BY <1>2, <1>3 DEF OldP!GoToPath
<1>5. ASSUME NEW g PROVE Going(g) <=> GoingP(g)
  BY OldSelectByName
<1> HIDE DEF Going, GoingP
<1>6. (CHOOSE g : Going(g)) = (CHOOSE g : GoingP(g))
  BY <1>5
<1>7. PICK chosen : chosen = (CHOOSE g : Going(g))
  OBVIOUS
<1>8. Old!GoToPath(c, p) = IF c.parents = <<>> THEN [found |-> FALSE, cursor |-> c]
                           ELSE chosen[Len(p)]
  BY <1>1, <1>7
<1>9. OldP!GoToPath(c, p) = IF c.parents = <<>> THEN [found |-> FALSE, cursor |-> c]
                            ELSE chosen[Len(p)]
  BY <1>4, <1>6, <1>7
<1> QED
  BY <1>8, <1>9

-------------------------------------------------------------------------------
(* A sum of natural numbers is one.                                        *)
SumOf(c, S) == MapThenSumSet(LAMBDA i : c[i], S)
Chosen(s) == CHOOSE x \in s : TRUE
SumStep(g, c, s) == IF s = {} THEN 0 ELSE c[Chosen(s)] + g[s \ {Chosen(s)}]
IsSum(g, c, S) == g = [s \in SUBSET S |-> SumStep(g, c, s)]
SumUpTo(g, c, S, n) ==
  /\ g = [s \in SUBSET S |-> g[s]]
  /\ \A s \in SUBSET S : Cardinality(s) <= n => g[s] = SumStep(g, c, s)

LEMMA SumIs == ASSUME NEW c, NEW S PROVE SumOf(c, S) = (CHOOSE g : IsSum(g, c, S))[S]
BY DEF SumOf, MapThenSumSet, MapThenFoldSet, IsSum, SumStep, Chosen

LEMMA OneLess ==
  ASSUME NEW S, IsFiniteSet(S), NEW s \in SUBSET S, s # {}
  PROVE  /\ Chosen(s) \in s /\ s \ {Chosen(s)} \in SUBSET S
         /\ Cardinality(s \ {Chosen(s)}) = Cardinality(s) - 1
         /\ Cardinality(s) \in Nat
<1>1. Chosen(s) \in s
  BY DEF Chosen
<1>2. IsFiniteSet(s)
  BY FS_Subset
<1>3. Cardinality(s \ {Chosen(s)}) = Cardinality(s) - 1
  BY <1>1, <1>2, FS_RemoveElement
<1>4. Cardinality(s) \in Nat
  BY <1>2, FS_CardinalityType
<1> QED
  BY <1>1, <1>3, <1>4

LEMMA SumOneMore ==
  ASSUME NEW S, IsFiniteSet(S), NEW c, NEW n \in Nat, NEW g, SumUpTo(g, c, S, n)
  PROVE  \E f : SumUpTo(f, c, S, n + 1)
<1>f. PICK f : f = [s \in SUBSET S |-> SumStep(g, c, s)]
  OBVIOUS
<1>1. DOMAIN f = SUBSET S /\ \A s \in SUBSET S : f[s] = SumStep(g, c, s)
  BY <1>f
<1>2. ASSUME NEW s \in SUBSET S, Cardinality(s) <= n + 1
      PROVE  f[s] = SumStep(f, c, s)
  <2>1. CASE s = {}
    BY <1>1, <2>1 DEF SumStep
  <2>2. CASE s # {}
    <3>r. PICK r : r = s \ {Chosen(s)}
      OBVIOUS
    <3>1. r \in SUBSET S /\ Cardinality(r) = Cardinality(s) - 1 /\ Cardinality(s) \in Nat
      BY <3>r, <2>2, OneLess
    <3>2. Cardinality(r) <= n
      BY <3>1, <1>2
    <3>3. g[r] = SumStep(g, c, r) /\ f[r] = SumStep(g, c, r)
      BY <3>1, <3>2, <1>1 DEF SumUpTo
    <3>4. SumStep(g, c, s) = c[Chosen(s)] + g[r] /\ SumStep(f, c, s) = c[Chosen(s)] + f[r]
      BY <2>2, <3>r DEF SumStep
    <3> QED
      BY <3>3, <3>4, <1>1
  <2> QED
    BY <2>1, <2>2
<1>3. f = [s \in SUBSET S |-> f[s]]
  BY <1>f
<1>4. SumUpTo(f, c, S, n + 1)
  BY <1>2, <1>3 DEF SumUpTo
<1> QED
  BY <1>4

LEMMA SumExists ==
  ASSUME NEW S, IsFiniteSet(S), NEW c
  PROVE  \E g : IsSum(g, c, S)
<1> DEFINE T == {n \in Nat : \E g : SumUpTo(g, c, S, n)}
<1>1. 0 \in T
  <2>g. PICK g : g = [s \in SUBSET S |-> 0]
    OBVIOUS
  <2>1. ASSUME NEW s \in SUBSET S, Cardinality(s) <= 0 PROVE g[s] = SumStep(g, c, s)
    <3>1. s = {}
      <4>1. CASE s # {}
        <5>1. Cardinality(s \ {Chosen(s)}) = Cardinality(s) - 1 /\ s \ {Chosen(s)} \in SUBSET S
              /\ Cardinality(s) \in Nat
          BY <4>1, OneLess
        <5>2. Cardinality(s \ {Chosen(s)}) \in Nat
          BY <5>1, FS_Subset, FS_CardinalityType
        <5> QED
          BY <5>1, <5>2, <2>1
      <4> QED
        BY <4>1
    <3> QED
      BY <3>1, <2>g DEF SumStep
  <2>2. g = [s \in SUBSET S |-> g[s]]
    BY <2>g
  <2>3. SumUpTo(g, c, S, 0)
    BY <2>1, <2>2 DEF SumUpTo
  <2> QED
    BY <2>3
<1>2. ASSUME NEW n \in Nat, n \in T PROVE n + 1 \in T
  BY <1>2, SumOneMore
<1>3. Cardinality(S) \in Nat
  BY FS_CardinalityType
<1>4. Cardinality(S) \in T
  <2>1. T \in SUBSET Nat
    OBVIOUS
  <2> HIDE DEF T
  <2>2. \A n \in 0..Cardinality(S) : n \in T
    BY <1>1, <1>2, <1>3, <2>1, SameAssumption, NewP!Induction
  <2> QED
    BY <1>3, <2>2
<1>5. PICK g : SumUpTo(g, c, S, Cardinality(S))
  BY <1>4
<1>6. ASSUME NEW s \in SUBSET S PROVE g[s] = SumStep(g, c, s)
  <2>1. Cardinality(s) <= Cardinality(S)
    BY FS_Subset
  <2> QED
    BY <1>5, <2>1 DEF SumUpTo
<1>7. IsSum(g, c, S)
  <2>1. g = [s \in SUBSET S |-> g[s]]
    BY <1>5 DEF SumUpTo
  <2> QED
    BY <1>6, <2>1 DEF IsSum
<1> QED
  BY <1>7

LEMMA SumIsNumber ==
  ASSUME NEW S, IsFiniteSet(S), NEW c, \A i \in S : c[i] \in Nat
  PROVE  SumOf(c, S) \in Nat
<1>1. PICK g : IsSum(g, c, S) /\ SumOf(c, S) = g[S]
  <2>1. \E g : IsSum(g, c, S)
    BY SumExists
  <2>2. IsSum((CHOOSE g : IsSum(g, c, S)), c, S)
    BY <2>1
  <2> QED
    BY <2>2, SumIs
<1>2. \A s \in SUBSET S : g[s] = SumStep(g, c, s)
  BY <1>1 DEF IsSum
<1> DEFINE T == {n \in Nat : \A s \in SUBSET S : Cardinality(s) <= n => g[s] \in Nat}
<1>3. ASSUME NEW n \in Nat, n \in T, NEW s \in SUBSET S, Cardinality(s) <= n + 1
      PROVE  g[s] \in Nat
  <2>1. CASE s = {}
    <3>1. SumStep(g, c, s) = 0
      BY <2>1 DEF SumStep
    <3>2. g[s] = SumStep(g, c, s)
      BY <1>2
    <3> QED
      BY <3>1, <3>2
  <2>2. CASE s # {}
    <3>r. PICK r : r = s \ {Chosen(s)}
      OBVIOUS
    <3>1. r \in SUBSET S /\ Cardinality(r) = Cardinality(s) - 1 /\ Cardinality(s) \in Nat
          /\ Chosen(s) \in S
      BY <3>r, <2>2, OneLess
    <3>2. g[r] \in Nat
      BY <3>1, <2>2, <1>3
    <3>3. g[s] = c[Chosen(s)] + g[r]
      BY <2>2, <3>r, <1>2 DEF SumStep
    <3> QED
      BY <3>1, <3>2, <3>3
  <2> QED
    BY <2>1, <2>2
<1>4. 0 \in T
  <2>1. ASSUME NEW s \in SUBSET S, Cardinality(s) <= 0 PROVE g[s] \in Nat
    <3>1. s = {}
      <4>1. CASE s # {}
        <5>1. Cardinality(s \ {Chosen(s)}) = Cardinality(s) - 1 /\ s \ {Chosen(s)} \in SUBSET S
              /\ Cardinality(s) \in Nat
          BY <4>1, OneLess
        <5>2. Cardinality(s \ {Chosen(s)}) \in Nat
          BY <5>1, FS_Subset, FS_CardinalityType
        <5> QED
          BY <5>1, <5>2, <2>1
      <4> QED
        BY <4>1
    <3>2. SumStep(g, c, s) = 0
      BY <3>1 DEF SumStep
    <3>3. g[s] = SumStep(g, c, s)
      BY <1>2
    <3> QED
      BY <3>2, <3>3
  <2> QED
    BY <2>1
<1>5. ASSUME NEW n \in Nat, n \in T PROVE n + 1 \in T
  BY <1>3, <1>5
<1>6. Cardinality(S) \in Nat
  BY FS_CardinalityType
<1>7. Cardinality(S) \in T
  <2>1. T \in SUBSET Nat
    OBVIOUS
  <2> HIDE DEF T
  <2>2. \A n \in 0..Cardinality(S) : n \in T
    BY <1>4, <1>5, <1>6, <2>1, SameAssumption, NewP!Induction
  <2> QED
    BY <1>6, <2>2
<1> QED
  BY <1>1, <1>6, <1>7

-------------------------------------------------------------------------------
(* The metadata that is passed on is what an entry has.                    *)
Metadata == [isDir : BOOLEAN, size : Nat, files : Nat, folders : Nat, children : Int]

LEMMA NotFoundIs == NotFound \in Metadata
BY DEF NotFound, Metadata

LEMMA MetadataIs ==
  ASSUME NEW index, NEW m, index[m].info \in Info, Len(index[m].children) \in Nat
  PROVE  /\ MetadataOf(index, m) \in Metadata
         /\ Stored(MetadataOf(index, m)) = index[m].info
         /\ MetadataOf(index, m).size = index[m].info.size
<1>i. PICK i : i = index[m].info
  OBVIOUS
<1>n. PICK n : n = Len(index[m].children)
  OBVIOUS
<1>d. PICK d : d = MetadataOf(index, m)
  OBVIOUS
<1>1. i \in Info /\ n \in Nat
  BY <1>i, <1>n
<1>2. /\ i = [isDir |-> i.isDir, size |-> i.size, files |-> i.files, folders |-> i.folders]
      /\ i.isDir \in BOOLEAN /\ i.size \in Nat /\ i.files \in Nat /\ i.folders \in Nat
  BY <1>1 DEF Info
<1>6. /\ d = [isDir |-> i.isDir, size |-> i.size, files |-> i.files, folders |-> i.folders,
              children |-> n]
  BY <1>i, <1>n, <1>d DEF MetadataOf
<1>7. d \in Metadata
  BY <1>1, <1>2, <1>6 DEF Metadata
<1>8. Stored(d) = i
  BY <1>2, <1>6 DEF Stored
<1>9. d.size = i.size
  BY <1>6
<1> QED
  BY <1>7, <1>8, <1>9, <1>i, <1>d

LEMMA StoredIs ==
  ASSUME NEW d \in Metadata
  PROVE  /\ Stored(d) \in Info /\ Stored(d).isDir = d.isDir /\ Stored(d).size = d.size
         /\ Stored(d).files = d.files /\ Stored(d).folders = d.folders
BY DEF Metadata, Stored, Info

(* What is in a folder sums up to numbers.                                 *)
Numbers(t) == t.size \in Nat /\ t.files \in Nat /\ t.folders \in Nat

LEMMA ContentsAre ==
  ASSUME NEW index, NEW m, NEW n \in Nat, DOMAIN index[m].children = 1..n,
         \A i \in Remaining(index, m) : index[index[m].children[i].meta].info \in Info
  PROVE  Numbers(Contents(index, m))
<1> DEFINE rest == Remaining(index, m)
           info(i) == index[index[m].children[i].meta].info
           files(i) == IF info(i).isDir THEN info(i).files ELSE 1
           folders(i) == IF info(i).isDir THEN 1 + info(i).folders ELSE 0
           A(g) == g = [s \in SUBSET rest |-> IF s = {} THEN 0
                          ELSE info(Chosen(s)).size + g[s \ {Chosen(s)}]]
           B(g) == g = [s \in SUBSET rest |-> IF s = {} THEN 0
                          ELSE files(Chosen(s)) + g[s \ {Chosen(s)}]]
           C(g) == g = [s \in SUBSET rest |-> IF s = {} THEN 0
                          ELSE folders(Chosen(s)) + g[s \ {Chosen(s)}]]
           a == [i \in rest |-> info(i).size]
           b == [i \in rest |-> files(i)]
           c == [i \in rest |-> folders(i)]
<1>1. IsFiniteSet(rest)
  <2>1. IsFiniteSet(1..n)
    BY FS_Interval
  <2>2. rest \subseteq 1..n
    BY DEF Remaining
  <2> QED
    BY <2>1, <2>2, FS_Subset
<1>2. \A i \in rest : a[i] \in Nat /\ b[i] \in Nat /\ c[i] \in Nat
  <2>1. ASSUME NEW i \in rest
        PROVE  /\ info(i).size \in Nat /\ info(i).files \in Nat /\ info(i).folders \in Nat
               /\ info(i).isDir \in BOOLEAN
    BY DEF Info
  <2>2. ASSUME NEW i \in rest PROVE files(i) \in Nat /\ folders(i) \in Nat
    <3> HIDE DEF rest
    <3>d. PICK d : d = info(i)
      OBVIOUS
    <3>1. d.files \in Nat /\ d.folders \in Nat /\ d.isDir \in BOOLEAN
      BY <2>1, <3>d
    <3>2. files(i) = IF d.isDir THEN d.files ELSE 1
      BY <3>d
    <3>3. folders(i) = IF d.isDir THEN 1 + d.folders ELSE 0
      BY <3>d
    <3> HIDE DEF info, files, folders
    <3> QED
      BY <3>1, <3>2, <3>3
  <2> HIDE DEF rest, info, files, folders
  <2> QED
    BY <2>1, <2>2
<1>3. Contents(index, m) = [size    |-> (CHOOSE g : A(g))[rest],
                            files   |-> (CHOOSE g : B(g))[rest],
                            folders |-> (CHOOSE g : C(g))[rest]]
  BY DEF Contents, MapThenSumSet, MapThenFoldSet, Chosen
<1>4. ASSUME NEW s \in SUBSET rest, s # {}
      PROVE  /\ info(Chosen(s)).size = a[Chosen(s)]
             /\ files(Chosen(s)) = b[Chosen(s)]
             /\ folders(Chosen(s)) = c[Chosen(s)]
  <2>1. Chosen(s) \in rest
    BY <1>4 DEF Chosen
  <2> HIDE DEF rest, info, files, folders
  <2> QED
    BY <2>1
<1> HIDE DEF a, b, c, info, files, folders
<1>5. ASSUME NEW g PROVE (A(g) <=> IsSum(g, a, rest)) /\ (B(g) <=> IsSum(g, b, rest))
                         /\ (C(g) <=> IsSum(g, c, rest))
  BY <1>4 DEF IsSum, SumStep
<1> HIDE DEF A, B, C
<1>6. /\ (CHOOSE g : A(g)) = (CHOOSE g : IsSum(g, a, rest))
      /\ (CHOOSE g : B(g)) = (CHOOSE g : IsSum(g, b, rest))
      /\ (CHOOSE g : C(g)) = (CHOOSE g : IsSum(g, c, rest))
  BY <1>5
<1> HIDE DEF rest
<1>7. Contents(index, m) = [size |-> SumOf(a, rest), files |-> SumOf(b, rest),
                            folders |-> SumOf(c, rest)]
  BY <1>3, <1>6, SumIs
<1>8. SumOf(a, rest) \in Nat /\ SumOf(b, rest) \in Nat /\ SumOf(c, rest) \in Nat
  BY <1>1, <1>2, SumIsNumber
<1> QED
  BY <1>7, <1>8 DEF Numbers

LEMMA SmallerOf ==
  ASSUME NEW a \in Nat, NEW b \in Nat
  PROVE  Min({a, b}) \in Nat /\ Min({a, b}) <= a
<1>1. {a, b} \in SUBSET Nat /\ {a, b} # {}
  OBVIOUS
<1>2. \A S : NewP!Min(S) = Min(S)
  BY DEF NewP!Min, Min
<1>3. Min({a, b}) \in {a, b} /\ \A k \in {a, b} : Min({a, b}) <= k
  BY <1>1, <1>2, SameAssumption, NewP!SmallestNumber
<1> QED
  BY <1>3

LEMMA LimitedIs ==
  ASSUME NEW before \in Metadata, NEW total, Numbers(total)
  PROVE  /\ Limited(before, total) \in Metadata
         /\ Limited(before, total).isDir = before.isDir
         /\ Fits(Stored(before), Limited(before, total))
<1>d. PICK d : d = Limited(before, total)
  OBVIOUS
<1>1. before.size \in Nat /\ before.files \in Nat /\ before.folders \in Nat
  BY DEF Metadata
<1>2. total.size \in Nat /\ total.files \in Nat /\ total.folders \in Nat
  BY DEF Numbers
<1>3. d = [before EXCEPT !.size = Min({before.size, total.size}),
                         !.files = Min({before.files, total.files}),
                         !.folders = Min({before.folders, total.folders})]
  BY <1>d DEF Limited
<1>4. /\ Min({before.size, total.size}) \in Nat /\ Min({before.size, total.size}) <= before.size
      /\ Min({before.files, total.files}) \in Nat
      /\ Min({before.files, total.files}) <= before.files
      /\ Min({before.folders, total.folders}) \in Nat
      /\ Min({before.folders, total.folders}) <= before.folders
  BY <1>1, <1>2, SmallerOf
<1>5. d \in Metadata
  BY <1>3, <1>4 DEF Metadata
<1>6. d.isDir = before.isDir
  BY <1>3 DEF Metadata
<1>7. d.size <= before.size /\ d.files <= before.files /\ d.folders <= before.folders
  BY <1>3, <1>4 DEF Metadata
<1>8. /\ d.size \in Nat /\ d.files \in Nat /\ d.folders \in Nat
  BY <1>5 DEF Metadata
<1>9. /\ Stored(before).size = before.size /\ Stored(before).files = before.files
      /\ Stored(before).folders = before.folders
  BY StoredIs
<1>10. \A f \in {"size", "files", "folders"} : Stored(before)[f] > OneByte \/ d[f] <= OneByte
  BY <1>1, <1>7, <1>8, <1>9, DiffAssumption
<1>11. Fits(Stored(before), d)
  BY <1>10 DEF Fits
<1> QED
  BY <1>5, <1>6, <1>11, <1>d

-------------------------------------------------------------------------------
(* The old index stays as it was built, and its cursor stands somewhere.   *)
OldIndex(Q) == OldP!Walkable(Q)
OldPlace(d, Q) == OldP!Walkable(Q) /\ OldP!Somewhere(d, Q)

LEMMA OldLoaded ==
  ASSUME old'.entries = entries, old'.rootMeta = rootMeta, NEW Q, NewP!Walkable(Q)
  PROVE  OldIndex(Q)'
<1>1. /\ entries \in Seq(NewP!Entry) /\ Q \in Seq(Seq(Names)) /\ Len(Q) = Len(entries)
      /\ NewP!EntriesAttached(entries, Q)
      /\ NewP!RootStored(Q)
  BY DEF NewP!Walkable
<1>2. NewP!Entry = OldP!Entry
  BY DEF NewP!Entry, OldP!Entry, NewP!Info, OldP!Info, NewP!Child, OldP!Child, NewP!Unset,
         OldP!Unset
<1>3. \A es : NewP!EntriesAttached(es, Q) <=> OldP!EntriesAttached(es, Q)
  BY DEF NewP!EntriesAttached, OldP!EntriesAttached, NewP!Attached, OldP!Attached,
         NewP!AttachedChild, OldP!AttachedChild
<1>4. OldP!RootStored(Q)'
  BY <1>1 DEF NewP!RootStored, OldP!RootStored
<1>5. OldP!EntriesAttached(old'.entries, Q)
  BY <1>1, <1>3
<1>6. OldP!Walkable(Q)'
  BY <1>1, <1>2, <1>4, <1>5 DEF OldP!Walkable
<1> QED
  BY <1>6 DEF OldIndex

LEMMA OldIndexKept ==
  ASSUME old' = old, NEW Q, OldIndex(Q)
  PROVE  OldIndex(Q)'
BY DEF OldIndex, OldP!Walkable, OldP!RootStored

LEMMA OldPlaceKept ==
  ASSUME old' = old, NEW d, NEW Q, OldPlace(d, Q)
  PROVE  OldPlace(d, Q)'
<1>1. OldP!Walkable(Q)'
  BY OldIndexKept DEF OldPlace, OldIndex
<1>2. CASE d = OldP!Cleared
  <2>1. OldP!Cleared' = OldP!Cleared
    BY DEF OldP!Cleared, OldP!NoEntry
  <2> QED
    BY <1>1, <1>2, <2>1 DEF OldPlace, OldP!Somewhere
<1>3. CASE OldP!Positioned(d, Q)
  <2>1. OldP!Positioned(d, Q)'
    BY <1>3, SameAssumption, OldP!PositionedKept
  <2> QED
    BY <1>1, <2>1 DEF OldPlace, OldP!Somewhere
<1> QED
  BY <1>2, <1>3 DEF OldPlace, OldP!Somewhere

LEMMA OldRoot ==
  ASSUME NEW Q, OldIndex(Q)
  PROVE  OldPlace(Old!AtRoot, Q)
BY SameAssumption, OldP!RootSelected, OldNames DEF OldIndex, OldPlace, OldP!Somewhere

LEMMA OldMetadata ==
  ASSUME NEW Q, OldIndex(Q), NEW m \in 1..Len(Q)
  PROVE  MetadataOf(old.entries, m) \in Metadata
<1>1. old.entries \in Seq(OldP!Entry) /\ Len(Q) = Len(old.entries)
  BY DEF OldIndex, OldP!Walkable
<1>2. old.entries[m] \in OldP!Entry
  BY <1>1
<1>3. old.entries[m].info \in OldP!Info /\ old.entries[m].children \in Seq(OldP!Child)
  BY <1>2 DEF OldP!Entry
<1>4. OldP!Info = Info
  BY DEF OldP!Info, Info
<1>5. Len(old.entries[m].children) \in Nat
  BY <1>3
<1> QED
  BY <1>3, <1>4, <1>5, MetadataIs

(* A path is looked up from wherever the old cursor is.                    *)
LEMMA LooksUp ==
  ASSUME NEW d, d = there, NEW Q, OldPlace(d, Q), here.path \in NewP!WantedPaths
  PROVE  OldPlace(Lookup.cursor, Q) /\ OldInfo \in Metadata
<1>p. PICK p : p = here.path
  OBVIOUS
<1>1. p \in OldP!WantedPaths
  BY <1>p DEF NewP!WantedPaths, OldP!WantedPaths
<1>g. PICK g : g = OldP!GoToPath(d, p)
  OBVIOUS
<1>2. g = Lookup
  BY <1>p, <1>g, OldGoToPath DEF Lookup
<1>3. OldP!Walkable(Q) /\ OldP!Somewhere(d, Q)
  BY DEF OldPlace
<1>4. /\ OldP!Somewhere(g.cursor, Q)
      /\ g.found => OldP!Positioned(g.cursor, Q)
  BY <1>1, <1>3, <1>g, SameAssumption, OldP!GoToPathMoves
<1>5. OldPlace(g.cursor, Q)
  BY <1>3, <1>4 DEF OldPlace
<1>6. CASE g.found
  <2>c. PICK c : c = g.cursor
    OBVIOUS
  <2>1. OldP!Positioned(c, Q)
    BY <1>4, <1>6, <2>c
  <2>2. OldP!Meta(c.current) \in 1..Len(Q)
    BY <1>3, <2>1, SameAssumption, OldP!PlaceOfCursor
  <2>3. OldInfo = MetadataOf(old.entries, OldP!Meta(c.current))
    BY <1>2, <1>6, <2>c, OldNames DEF OldInfo
  <2>4. OldIndex(Q)
    BY <1>3 DEF OldIndex
  <2>m. PICK m : m = OldP!Meta(c.current)
    OBVIOUS
  <2>5. MetadataOf(old.entries, m) \in Metadata
    BY <2>2, <2>4, <2>m, OldMetadata
  <2> QED
    BY <1>2, <1>5, <2>3, <2>5, <2>m
<1>7. CASE ~g.found
  <2>1. OldInfo = NotFound
    BY <1>2, <1>7 DEF OldInfo
  <2> QED
    BY <1>2, <1>5, <2>1, NotFoundIs
<1> QED
  BY <1>6, <1>7

-------------------------------------------------------------------------------
(* The folders that are open lie in one another, the root outermost, and   *)
(* have been passed: they and what is to come, U, have nothing in common.  *)
(* The metadata that was read of each of them is still in the index.       *)
OpenFolder == [id : NewP!Ids, info : Metadata, old : Metadata, redated : BOOLEAN]

OpenAt(f, i, P, U) ==
  LET m == NewP!Meta(f.id) IN
  /\ m \in 1..Len(entries) \ U
  /\ entries[m].info.isDir
  /\ Len(P[m]) = i - 1
  /\ entries[m].info = Stored(f.info)

Opened(o, P, U) ==
  /\ o \in Seq(OpenFolder)
  /\ \A i \in 1..Len(o) : OpenAt(o[i], i, P, U)
  /\ o # <<>> => o[1].id = NewP!Root
  /\ \A i \in 2..Len(o) : NewP!IsChild(o[i].id, NewP!Meta(o[i - 1].id))

(* They are the folders that the current entry is in; what else is open is *)
(* in a folder that comes before the entry.                                *)
Alongside(o, c) ==
  /\ Len(c.path) <= Len(o)
  /\ \A i \in 1..Len(c.path) : o[i].id = c.parents[i].id
  /\ Len(c.path) < Len(o) => o[Len(c.path) + 1].id.child < c.current.child

(* The same after an entry was handled, of the folders of its cursor.      *)
Handled(o, c) ==
  /\ Len(c.parents) <= Len(o)
  /\ \A i \in 1..Len(c.parents) : o[i].id = c.parents[i].id
  /\ Len(c.parents) < Len(o) =>
       o[Len(c.parents) + 1].id.child < c.parents[Len(c.parents)].next

Visiting(o, c, P, U) == c = NewP!Cleared \/ (NewP!OnWalk(c, P, U) /\ Alongside(o, c))

Lookable(P) == \A m \in 1..Len(P) : P[m] \in NewP!WantedPaths

(* The next entry: those that were passed are no longer to come.           *)
LEMMA WalksOn ==
  ASSUME NEW P, NewP!Pruned(P), NEW U, NewP!ClosedDown(U), NEW c, NewP!OnWalk(c, P, U),
         NEW o, o \in Seq(OpenFolder), Handled(o, c), NEW d, d = NewP!Advance(c)
  PROVE  \E V \in SUBSET U :
           /\ NewP!ClosedDown(V) /\ Visiting(o, d, P, V)
           /\ d # NewP!Cleared => NewP!Meta(d.current) \in U
<1>1. CASE d = NewP!Cleared
  <2>1. U \in SUBSET U /\ Visiting(o, d, P, U)
    BY <1>1 DEF Visiting
  <2> QED
    BY <1>1, <2>1
<1>2. CASE \E j \in 1..Len(c.parents) : NewP!Moved(c, d, j, P, U)
  <2>1. PICK j \in 1..Len(c.parents) : NewP!Moved(c, d, j, P, U)
    BY <1>2
  <2>n. PICK new : new = NewP!NextId(c.parents, j)
    OBVIOUS
  <2>2. /\ d.current = new /\ Len(d.path) = j
        /\ \A i \in 1..j : d.parents[i].id = c.parents[i].id
        /\ NewP!Meta(new) \in U
    BY <2>1, <2>n DEF NewP!Moved
  <2>v. PICK V : V = U \ {NewP!Meta(new)}
    OBVIOUS
  <2>3. NewP!OnWalk(d, P, V) /\ NewP!ClosedDown(V)
    BY <2>1, <2>n, <2>v DEF NewP!Moved
  <2>a. PICK a : a = c.parents
    OBVIOUS
  <2>4. a \in Seq(NewP!Above) /\ NewP!Followed(a)
    BY <2>a, SameAssumption, NewP!CursorFields DEF NewP!OnWalk
  <2>5. new.child = a[j].next /\ a[j].next \in Nat
    <3>1. a[j].next \in Nat
      BY <2>a, <2>4, SameAssumption, NewP!AboveFields
    <3> QED
      BY <3>1, <2>n, <2>a DEF NewP!NextId
  <2>6. Len(a) \in Nat /\ Len(o) \in Nat
    BY <2>4
  <2>7. /\ Len(a) <= Len(o)
        /\ \A i \in 1..Len(a) : o[i].id = a[i].id
        /\ Len(a) < Len(o) => o[Len(a) + 1].id.child < a[Len(a)].next
    BY <2>a DEF Handled
  <2>8. \A i \in 1..j : o[i].id = d.parents[i].id
    BY <2>2, <2>7, <2>6, <2>a
  <2>9. ASSUME j < Len(o) PROVE o[j + 1].id.child < new.child
    <3>1. CASE j = Len(a)
      BY <3>1, <2>9, <2>5, <2>7
    <3>2. CASE j < Len(a)
      <4>1. j + 1 \in 2..Len(a) /\ j + 1 - 1 = j
        BY <3>2, <2>6, <2>a
      <4>2. a[j + 1].id.child = a[j].next - 1
        BY <4>1, <2>4 DEF NewP!Followed
      <4>3. o[j + 1].id = a[j + 1].id
        BY <4>1, <2>7, <2>6
      <4> QED
        BY <4>2, <4>3, <2>5
    <3> QED
      BY <3>1, <3>2, <2>6, <2>a
  <2>10. Alongside(o, d)
    BY <2>2, <2>6, <2>7, <2>8, <2>9, <2>a DEF Alongside
  <2>11. V \in SUBSET U
    BY <2>v
  <2> QED
    BY <2>2, <2>3, <2>10, <2>11 DEF Visiting
<1>3. d = NewP!Cleared \/ \E j \in 1..Len(c.parents) : NewP!Moved(c, d, j, P, U)
  BY SameAssumption, NewP!NextStep
<1> QED
  BY <1>1, <1>2, <1>3

LEMMA FewerToCome ==
  ASSUME NEW P, NEW U, NEW V \in SUBSET U, NEW o, Opened(o, P, U)
  PROVE  Opened(o, P, V)
BY DEF Opened, OpenAt

LEMMA RootMetadata ==
  ASSUME NEW e, e = NewP!Root
  PROVE  NewP!Meta(e) = rootMeta /\ NewP!Meta(e)' = rootMeta'
<1>1. NewP!Meta(e) = rootMeta
  BY DEF NewP!Meta
<1>2. NewP!Meta(e)' = rootMeta'
  BY DEF NewP!Meta, NewP!Root
<1> QED
  BY <1>1, <1>2

(* Entries that are left out are of no open folder.                        *)
LEMMA OpenKept ==
  ASSUME NEW x, NewP!OneLeftOut(x), x # NewP!Root, NEW P, NEW U, NEW o, Opened(o, P, U),
         \A i \in 1..Len(o) : o[i].id # x,
         \A i \in 1..Len(o) :
           entries'[NewP!Meta(o[i].id)].info = entries[NewP!Meta(o[i].id)].info
  PROVE  Opened(o, P, U)'
<1>1. Len(entries') = Len(entries) /\ NewP!Root' = NewP!Root
  BY DEF NewP!OneLeftOut, NewP!Root
<1>2. Len(o) \in Nat
  BY DEF Opened
<1>3. ASSUME NEW i \in 2..Len(o), NEW e, e = o[i].id, NEW f, f = NewP!Meta(o[i - 1].id)
      PROVE  NewP!Meta(e)' = NewP!Meta(e) /\ NewP!IsChild(e, f)'
  <2>1. i \in 1..Len(o) /\ i - 1 \in 1..Len(o)
    BY <1>2
  <2>2. f \in 1..Len(entries)
    BY <1>3, <2>1 DEF Opened, OpenAt
  <2>3. NewP!IsChild(e, f) /\ e # x
    BY <1>3, <2>1 DEF Opened
  <2> QED
    BY <2>2, <2>3, SameAssumption, NewP!ChildKept
<1>4. ASSUME NEW i \in 1..Len(o)
      PROVE  NewP!Meta(o[i].id)' = NewP!Meta(o[i].id)
  <2>e. PICK e : e = o[i].id
    OBVIOUS
  <2>1. CASE i = 1
    <3>1. e = NewP!Root
      BY <2>1, <1>4, <1>2, <2>e DEF Opened
    <3>2. rootMeta' = rootMeta
      BY DEF NewP!OneLeftOut
    <3>3. NewP!Meta(e) = rootMeta /\ NewP!Meta(e)' = rootMeta'
      BY <3>1, RootMetadata
    <3> QED
      BY <3>2, <3>3, <2>e
  <2>2. CASE i # 1
    <3>1. i \in 2..Len(o)
      BY <2>2, <1>2
    <3>2. NewP!Meta(e)' = NewP!Meta(e)
      BY <3>1, <2>e, <1>3
    <3> QED
      BY <3>2, <2>e
  <2> QED
    BY <2>1, <2>2
<1>5. ASSUME NEW i \in 2..Len(o)
      PROVE  NewP!IsChild(o[i].id, NewP!Meta(o[i - 1].id))'
  <2>e. PICK e : e = o[i].id
    OBVIOUS
  <2>f. PICK f : f = NewP!Meta(o[i - 1].id)
    OBVIOUS
  <2>1. NewP!IsChild(e, f)'
    BY <2>e, <2>f, <1>3
  <2>2. i - 1 \in 1..Len(o)
    BY <1>2
  <2>3. f = NewP!Meta(o[i - 1].id)'
    BY <2>2, <2>f, <1>4
  <2> QED
    BY <2>1, <2>3, <2>e DEF NewP!IsChild, NewP!Ids
<1>6. ASSUME NEW i \in 1..Len(o) PROVE OpenAt(o[i], i, P, U)'
  <2>m. PICK m : m = NewP!Meta(o[i].id)
    OBVIOUS
  <2>1. /\ m \in 1..Len(entries) \ U /\ entries[m].info.isDir /\ Len(P[m]) = i - 1
        /\ entries[m].info = Stored(o[i].info)
    BY <2>m DEF Opened, OpenAt
  <2>2. entries'[m].info = entries[m].info
    BY <2>m
  <2>3. NewP!Meta(o[i].id)' = m
    BY <2>m, <1>4
  <2> QED
    BY <2>1, <2>2, <2>3, <1>1 DEF OpenAt
<1> QED
  BY <1>1, <1>5, <1>6 DEF Opened

-------------------------------------------------------------------------------
(* A walk, given what it has passed and what is open.                      *)
WalkAt(o, c, P, U) ==
  /\ NewP!Pruned(P) /\ Lookable(P) /\ NewP!ClosedDown(U)
  /\ Opened(o, P, U)
  /\ Visiting(o, c, P, U)

(* Nothing that is open or to come is left out. *)
LEMMA WalkKept ==
  ASSUME NEW x, NewP!OneLeftOut(x), x # NewP!Root,
         NEW P, NEW U, NEW o, NEW c, WalkAt(o, c, P, U), NewP!NotToCome(x, U),
         \A i \in 1..Len(o) : o[i].id # x,
         \A i \in 1..Len(o) :
           entries'[NewP!Meta(o[i].id)].info = entries[NewP!Meta(o[i].id)].info,
         c # NewP!Cleared => /\ c.current # x
                             /\ \A i \in 1..Len(c.parents) : c.parents[i].id # x
  PROVE  WalkAt(o, c, P, U)'
<1>1. NewP!Pruned(P)'
  BY SameAssumption, NewP!PrunedKept DEF WalkAt
<1>2. NewP!ClosedDown(U)'
  BY SameAssumption, NewP!ClosedDownKept DEF WalkAt
<1>3. Opened(o, P, U)'
  BY OpenKept DEF WalkAt
<1>4. Visiting(o, c, P, U)'
  <2>1. CASE c = NewP!Cleared
    <3>1. NewP!Cleared' = NewP!Cleared
      BY DEF NewP!Cleared, NewP!NoEntry
    <3> QED
      BY <2>1, <3>1 DEF Visiting
  <2>2. CASE c # NewP!Cleared
    <3>1. NewP!OnWalk(c, P, U) /\ Alongside(o, c)
      BY <2>2 DEF WalkAt, Visiting
    <3>2. NewP!OnWalk(c, P, U)'
      BY <2>2, <3>1, SameAssumption, NewP!OnWalkKept
    <3> QED
      BY <3>1, <3>2 DEF Visiting
  <2> QED
    BY <2>1, <2>2
<1>5. Lookable(P)'
  BY DEF WalkAt, Lookable
<1> QED
  BY <1>1, <1>2, <1>3, <1>4, <1>5 DEF WalkAt

(* Nothing is left out at all. *)
LEMMA WalkSame ==
  ASSUME NEW P, NEW U, NEW o, NEW c, WalkAt(o, c, P, U),
         rootMeta' = rootMeta, entries' \in Seq(NewP!LeftEntry), Len(entries') = Len(entries),
         \A m \in 1..Len(entries) : /\ entries'[m].children = entries[m].children
                                    /\ entries'[m].info.isDir = entries[m].info.isDir,
         \A i \in 1..Len(o) :
           entries'[NewP!Meta(o[i].id)].info = entries[NewP!Meta(o[i].id)].info
  PROVE  WalkAt(o, c, P, U)'
<1>x. PICK x : x = [folder |-> 0, child |-> 0 - 1]
  OBVIOUS
<1>1. x \notin NewP!Ids /\ x # NewP!Root
  BY <1>x DEF NewP!Ids, NewP!Root
<1>2. NewP!OneLeftOut(x)
  BY DEF NewP!OneLeftOut
<1>3. NewP!NotToCome(x, U)
  BY <1>x DEF NewP!NotToCome
<1>4. \A i \in 1..Len(o) : o[i].id # x
  <2>1. o \in Seq(OpenFolder)
    BY DEF WalkAt, Opened
  <2>2. \A i \in 1..Len(o) : o[i] \in OpenFolder
    BY <2>1
  <2> QED
    BY <2>2, <1>1 DEF OpenFolder
<1>5. ASSUME c # NewP!Cleared
      PROVE  /\ c.current # x
             /\ \A i \in 1..Len(c.parents) : c.parents[i].id # x
  <2>1. c \in NewP!CursorType
    BY <1>5 DEF WalkAt, Visiting, NewP!OnWalk
  <2>2. c.current \in NewP!Ids /\ c.parents \in Seq(NewP!Above)
    BY <2>1, SameAssumption, NewP!CursorFields
  <2>3. \A i \in 1..Len(c.parents) : c.parents[i].id \in NewP!Ids
    BY <2>2, SameAssumption, NewP!AboveFields
  <2> QED
    BY <2>2, <2>3, <1>1
<1> QED
  BY <1>1, <1>2, <1>3, <1>4, <1>5, WalkKept

LEMMA EntryIs ==
  ASSUME NEW P, NewP!Pruned(P), NEW m \in 1..Len(entries)
  PROVE  /\ entries \in Seq(NewP!LeftEntry)
         /\ MetadataOf(entries, m) \in Metadata
         /\ Stored(MetadataOf(entries, m)) = entries[m].info
         /\ entries[m].info \in Info
<1>1. entries[m].info \in NewP!Info /\ Len(entries[m].children) \in Nat
  BY SameAssumption, NewP!LeftFields DEF NewP!Width
<1>2. entries[m].info \in Info
  BY <1>1 DEF NewP!Info, Info
<1>3. entries \in Seq(NewP!LeftEntry)
  BY DEF NewP!Pruned
<1> QED
  BY <1>1, <1>2, <1>3, MetadataIs

(* The root is opened first. *)
LEMMA WalkStarted ==
  ASSUME StartWalk, NewP!BuildInv, NewP!OnceInv, NEW Q, OldIndex(Q)
  PROVE  \E P, U, o, c : o = open' /\ c = here' /\ WalkAt(o, c, P, U)'
<1>1. PICK P : /\ NewP!Walkable(P) /\ NewP!Pruned(P)
               /\ rootMeta \in 1..Len(entries) /\ entries[rootMeta].info.isDir
               /\ P[rootMeta] = <<>>
               /\ \A m \in 1..Len(P) : P[m] \in NewP!Paths \cup {<<>>}
               /\ NewP!ClosedDown(1..Len(entries) \ {rootMeta})
               /\ NewP!OnWalk(NewP!AtRoot, P, 1..Len(entries) \ {rootMeta})
  <2>1. pc = "built"
    BY DEF StartWalk
  <2> QED
    BY <2>1, SameAssumption, NewP!WalkStarts
<1>p. NewP!Pruned(P)
  BY <1>1
<1>u. PICK U : U = 1..Len(entries) \ {rootMeta}
  OBVIOUS
<1>c. PICK c : c = NewP!AtRoot
  OBVIOUS
<1>f. PICK f : f = [id |-> NewP!Root, info |-> MetadataOf(entries, rootMeta),
                    old |-> MetadataOf(old.entries, old.rootMeta), redated |-> FALSE]
  OBVIOUS
<1>o. PICK o : o = <<f>>
  OBVIOUS
<1>2. NewP!ClosedDown(U) /\ NewP!OnWalk(c, P, U)
  BY <1>1, <1>u, <1>c
<1>r. rootMeta \in 1..Len(entries) /\ entries[rootMeta].info.isDir /\ P[rootMeta] = <<>>
  BY <1>1
<1>3. f \in OpenFolder
  <2>1. NewP!Root \in NewP!Ids
    BY DEF NewP!Root, NewP!Ids
  <2>2. MetadataOf(entries, rootMeta) \in Metadata
    BY <1>p, <1>r, EntryIs
  <2>3. old.rootMeta \in 1..Len(Q)
    BY DEF OldIndex, OldP!Walkable, OldP!RootStored
  <2>m. PICK m : m = old.rootMeta
    OBVIOUS
  <2>4. MetadataOf(old.entries, m) \in Metadata
    BY <2>3, <2>m, OldMetadata
  <2> QED
    BY <2>1, <2>2, <2>4, <2>m, <1>f DEF OpenFolder
<1>4. o \in Seq(OpenFolder) /\ Len(o) = 1 /\ o[1] = f
  BY <1>3, <1>o
<1>5. NewP!Meta(NewP!Root) = rootMeta
  BY DEF NewP!Meta
<1>6. Opened(o, P, U)
  <2>1. f.id = NewP!Root /\ f.info = MetadataOf(entries, rootMeta)
    BY <1>f
  <2>2. entries[rootMeta].info = Stored(f.info)
    BY <2>1, <1>p, <1>r, EntryIs
  <2>3. OpenAt(f, 1, P, U)
    BY <2>1, <2>2, <1>5, <1>r, <1>u DEF OpenAt
  <2>4. 1..Len(o) = {1} /\ 2..Len(o) = {}
    BY <1>4
  <2> QED
    BY <2>1, <2>3, <2>4, <1>4 DEF Opened
<1>7. c.parents = <<[id |-> NewP!Root, next |-> 1, cacheStart |-> 0, pathLen |-> 0]>>
  BY <1>c DEF NewP!AtRoot, NewP!Cleared
<1>8. Handled(o, c)
  <2>1. Len(c.parents) = 1 /\ c.parents[1].id = NewP!Root
    BY <1>7
  <2>2. 1..Len(c.parents) = {1}
    BY <2>1
  <2> QED
    BY <2>1, <2>2, <1>4, <1>f DEF Handled
<1>d. PICK d : d = NewP!Advance(c)
  OBVIOUS
<1>9. PICK V \in SUBSET U : NewP!ClosedDown(V) /\ Visiting(o, d, P, V)
  BY <1>p, <1>2, <1>4, <1>8, <1>d, WalksOn
<1>10. Lookable(P)
  <2>1. <<>> \in [1..0 -> Names]
    <3>1. DOMAIN <<>> = 1..0 /\ <<>> = [i \in 1..0 |-> <<>>[i]]
      OBVIOUS
    <3> QED
      BY <3>1
  <2>2. MaxDepth \in Nat
    BY IndexAssumption
  <2>3. NewP!Paths \subseteq NewP!WantedPaths /\ <<>> \in NewP!WantedPaths
    BY <2>1, <2>2 DEF NewP!Paths, NewP!WantedPaths
  <2> QED
    BY <1>1, <2>3 DEF Lookable
<1>11. WalkAt(o, d, P, V)
  BY <1>p, <1>6, <1>9, <1>10, FewerToCome DEF WalkAt
<1>12. entries' = entries /\ rootMeta' = rootMeta
  BY DEF StartWalk, indexVars
<1>13. WalkAt(o, d, P, V)'
  BY <1>11, <1>12, WalkSame DEF WalkAt, NewP!Pruned
<1>14. o = open'
  BY <1>o, <1>f, NewNames DEF StartWalk
<1>15. d = here'
  BY <1>d, <1>c, NewNames, NewAdvance DEF StartWalk
<1> QED
  BY <1>13, <1>14, <1>15

-------------------------------------------------------------------------------
(* The walk is at an entry. *)
LEMMA EntryVisited ==
  ASSUME NEW P, NEW U, NEW o, NEW c, WalkAt(o, c, P, U), c.current # New!NoEntry
  PROVE  /\ NewP!Pruned(P) /\ NewP!ClosedDown(U) /\ NewP!OnWalk(c, P, U) /\ Opened(o, P, U)
         /\ Alongside(o, c) /\ Lookable(P)
         /\ c \in NewP!CursorType /\ c.parents \in Seq(NewP!Above) /\ c.path \in Seq(Names)
         /\ c.current \in NewP!Ids /\ o \in Seq(OpenFolder)
         /\ Len(c.parents) \in Nat \ {0} /\ Len(c.path) \in Nat /\ Len(o) \in Nat
         /\ NewP!Meta(c.current) \in 1..Len(entries) \ U
         /\ c.path \in NewP!WantedPaths
<1>1. c # NewP!Cleared
  BY NewNames DEF NewP!Cleared
<1>2. /\ NewP!Pruned(P) /\ NewP!ClosedDown(U) /\ NewP!OnWalk(c, P, U) /\ Opened(o, P, U)
      /\ Alongside(o, c) /\ Lookable(P)
  BY <1>1 DEF WalkAt, Visiting
<1>3. c \in NewP!CursorType /\ o \in Seq(OpenFolder)
  BY <1>2 DEF NewP!OnWalk, Opened
<1>4. c.parents \in Seq(NewP!Above) /\ c.path \in Seq(Names) /\ c.current \in NewP!Ids
  BY <1>3, SameAssumption, NewP!CursorFields
<1>5. /\ NewP!Meta(c.current) \in 1..Len(entries) /\ P[NewP!Meta(c.current)] = c.path
      /\ Len(c.parents) \in Nat \ {0} /\ NewP!Meta(c.current) \notin U
  BY <1>2, SameAssumption, NewP!PlaceOnWalk
<1>6. Len(P) = Len(entries)
  BY <1>2 DEF NewP!Pruned
<1>7. c.path \in NewP!WantedPaths
  BY <1>2, <1>5, <1>6 DEF Lookable
<1> QED
  BY <1>2, <1>3, <1>4, <1>5, <1>7

(* A folder is entered once what is not around it has been left. *)
LEMMA FolderEntered ==
  ASSUME EnterFolder, OldInfo \in Metadata,
         NEW P, NEW U, NEW o, NEW c, o = open, c = here, WalkAt(o, c, P, U)
  PROVE  /\ phase' = "walk"
         /\ \E Q, V, s, d : s = open' /\ d = here' /\ WalkAt(s, d, Q, V)'
<1>0. c.current # New!NoEntry /\ NewP!IsFolder(c.current)
  BY NewNames DEF EnterFolder, IsAt
<1>1. /\ NewP!Pruned(P) /\ NewP!ClosedDown(U) /\ NewP!OnWalk(c, P, U) /\ Opened(o, P, U)
      /\ Alongside(o, c) /\ Lookable(P)
  BY <1>0, EntryVisited
<1>2. /\ c.parents \in Seq(NewP!Above) /\ c.path \in Seq(Names)
      /\ c.current \in NewP!Ids /\ o \in Seq(OpenFolder)
      /\ Len(c.parents) \in Nat \ {0} /\ Len(c.path) \in Nat /\ Len(o) \in Nat
  BY <1>0, EntryVisited
<1>a. PICK a : a = c.parents
  OBVIOUS
<1>n. PICK n : n = Len(a)
  OBVIOUS
<1>e. PICK e : e = c.current
  OBVIOUS
<1>m. PICK m : m = NewP!Meta(e)
  OBVIOUS
<1>3. m \in 1..Len(entries) \ U
  BY <1>0, <1>e, <1>m, EntryVisited
<1>4. /\ n \in Nat \ {0} /\ Len(c.path) = n - 1 /\ e = a[n].id
  BY <1>0, <1>1, <1>2, <1>a, <1>n, <1>e, SameAssumption, NewP!PlaceOnWalk
<1>5. /\ n - 1 <= Len(o)
      /\ \A i \in 1..n - 1 : o[i].id = a[i].id
      /\ n - 1 < Len(o) => o[n].id.child < e.child
  BY <1>1, <1>4, <1>a, <1>e DEF Alongside
<1>6. Len(o) = n - 1
  <2>1. ~HasLeft(n)
    BY <1>a, <1>n DEF EnterFolder
  <2>2. Len(o) <= n
    BY <2>1, <1>2, <1>4 DEF HasLeft
  <2>3. CASE Len(o) = n
    <3>1. o # <<>>
      BY <2>3, <1>4
    <3>2. Last(o) = o[n]
      BY <2>3 DEF Last
    <3>3. o[n].id = e
      BY <2>1, <2>3, <3>1, <3>2, <1>e DEF HasLeft
    <3>4. e.child \in Nat
      BY <1>2, <1>e DEF NewP!Ids
    <3> QED
      BY <3>3, <3>4, <2>3, <1>4, <1>5
  <2> QED
    BY <2>2, <2>3, <1>2, <1>4, <1>5
<1>7. phase' = "walk"
  BY <1>6, <1>4, <1>a, <1>n DEF EnterFolder
<1>i. PICK i : i = MetadataOf(entries, m)
  OBVIOUS
<1>8. i \in Metadata /\ Stored(i) = entries[m].info
  BY <1>1, <1>3, <1>i, EntryIs
<1>b. PICK b : b = (here.path \in redated)
  OBVIOUS
<1>t. b \in BOOLEAN
  BY <1>b
<1>f. PICK f : f = [id |-> e, old |-> OldInfo, redated |-> b, info |-> i]
  OBVIOUS
<1>9. f \in OpenFolder /\ f.id = e /\ f.info = i
  BY <1>f, <1>t, <1>8, <1>2, <1>e DEF OpenFolder
<1>s. PICK s : s = Append(o, f)
  OBVIOUS
<1>10. /\ s \in Seq(OpenFolder) /\ Len(s) = n /\ s[n] = f /\ s # <<>>
       /\ \A k \in 1..n - 1 : s[k] = o[k]
  BY <1>s, <1>9, <1>2, <1>4, <1>6
<1>11. \A k \in 1..n : s[k].id = a[k].id
  BY <1>10, <1>9, <1>4, <1>5
<1>12. NewP!Trail(a, c.path, P)
  BY <1>1, <1>a DEF NewP!OnWalk
<1>13. Opened(s, P, U)
  <2>1. OpenAt(f, n, P, U)
    <3>1. Len(P[m]) = n - 1 /\ NewP!IsFolder(e)
      BY <1>12, <1>4, <1>m, <1>n, <1>0, <1>e DEF NewP!Trail, NewP!InTrail
    <3> QED
      BY <3>1, <1>3, <1>8, <1>9, <1>m DEF OpenAt, NewP!IsFolder
  <2>2. \A k \in 1..n : OpenAt(s[k], k, P, U)
    <3>1. \A k \in 1..n - 1 : OpenAt(o[k], k, P, U)
      BY <1>1, <1>6 DEF Opened
    <3> QED
      BY <2>1, <3>1, <1>10, <1>4
  <2>3. s[1].id = NewP!Root
    BY <1>11, <1>12, <1>4 DEF NewP!Trail
  <2>4. \A k \in 2..n : NewP!IsChild(s[k].id, NewP!Meta(s[k - 1].id))
    <3>1. \A k \in 2..n : NewP!IsChild(a[k].id, NewP!Meta(a[k - 1].id))
      BY <1>12, <1>n DEF NewP!Trail
    <3>2. \A k \in 2..n : s[k].id = a[k].id /\ s[k - 1].id = a[k - 1].id
      BY <1>11, <1>4
    <3> QED
      BY <3>1, <3>2
  <2> QED
    BY <2>2, <2>3, <2>4, <1>10 DEF Opened
<1>14. Handled(s, c)
  BY <1>10, <1>11, <1>4, <1>a, <1>n DEF Handled
<1>d. PICK d : d = NewP!Advance(c)
  OBVIOUS
<1>15. PICK V \in SUBSET U : NewP!ClosedDown(V) /\ Visiting(s, d, P, V)
  BY <1>1, <1>10, <1>14, <1>d, WalksOn
<1>16. WalkAt(s, d, P, V)
  BY <1>1, <1>13, <1>15, FewerToCome DEF WalkAt
<1>17. entries' = entries /\ rootMeta' = rootMeta
  BY DEF EnterFolder, indexVars
<1>18. WalkAt(s, d, P, V)'
  BY <1>16, <1>17, WalkSame DEF WalkAt, NewP!Pruned
<1>19. s = open'
  <2>1. New!Meta(here.current) = m
    BY <1>m, <1>e, NewNames
  <2> QED
    BY <2>1, <1>s, <1>f, <1>i, <1>e, <1>b DEF EnterFolder
<1>20. d = here'
  BY <1>d, NewAdvance DEF EnterFolder
<1> QED
  BY <1>7, <1>18, <1>19, <1>20

-------------------------------------------------------------------------------
(* An entry is left out. *)
LEMMA LeavesOut ==
  ASSUME NEW P, NewP!Pruned(P), NEW f \in 1..Len(entries), NEW x, NewP!IsChild(x, f),
         entries' = Without(entries, x), rootMeta' = rootMeta
  PROVE  /\ NewP!OneLeftOut(x) /\ x # NewP!Root
         /\ \A m \in 1..Len(entries) : entries'[m].info = entries[m].info
         /\ \A U : NewP!Meta(x) \notin U => NewP!NotToCome(x, U)
<1>k. PICK k : k = x.child
  OBVIOUS
<1>1. x = [folder |-> f, child |-> k] /\ k \in 1..Len(entries[f].children)
  BY <1>k DEF NewP!IsChild, NewP!Ids
<1>2. x # NewP!Root
  BY <1>1 DEF NewP!Root
<1>3. entries \in Seq(NewP!LeftEntry)
  BY DEF NewP!Pruned
<1>4. entries' = [entries EXCEPT ![f].children[k].meta = Unset]
  BY <1>1 DEF Without
<1>5. ASSUME NEW m \in 1..Len(entries)
      PROVE  entries[m] \in NewP!LeftEntry /\ entries[m].children \in Seq(NewP!LeftChild)
  <2>1. entries[m] \in NewP!LeftEntry
    BY <1>3
  <2> QED
    BY <2>1 DEF NewP!LeftEntry
<1>h. PICK h : h = entries[f]
  OBVIOUS
<1>q. PICK q : q = entries[f].children
  OBVIOUS
<1>r. PICK r : r = [q EXCEPT ![k].meta = Unset]
  OBVIOUS
<1>g. PICK g : g = [h EXCEPT !.children = r]
  OBVIOUS
<1>6. entries' = [entries EXCEPT ![f] = g]
  BY <1>4, <1>h, <1>q, <1>r, <1>g
<1>7. q \in Seq(NewP!LeftChild) /\ h \in NewP!LeftEntry /\ k \in 1..Len(q) /\ h.children = q
  BY <1>1, <1>5, <1>h, <1>q
<1>8. q[k] \in NewP!LeftChild
  BY <1>7
<1>9. [q[k] EXCEPT !.meta = Unset] \in NewP!LeftChild
  BY <1>8 DEF NewP!LeftChild, Unset
<1>10. r \in Seq(NewP!LeftChild) /\ Len(r) = Len(q)
  BY <1>7, <1>9, <1>r
<1>11. \A i \in 1..Len(q) : /\ i # k => r[i] = q[i]
                            /\ r[k] = [q[k] EXCEPT !.meta = Unset]
  BY <1>7, <1>r
<1>12. /\ r[k].name = q[k].name /\ r[k].isDir = q[k].isDir /\ r[k].meta = Unset
  BY <1>7, <1>8, <1>11 DEF NewP!LeftChild
<1>13. g \in NewP!LeftEntry /\ g.children = r /\ g.info = h.info
  BY <1>7, <1>10, <1>g DEF NewP!LeftEntry
<1>14. entries' \in Seq(NewP!LeftEntry) /\ Len(entries') = Len(entries)
  BY <1>3, <1>6, <1>13
<1>15. /\ entries'[f] = g
       /\ \A m \in 1..Len(entries) : m # f => entries'[m] = entries[m]
  BY <1>3, <1>6
<1>16. \A m \in 1..Len(entries) : entries'[m].info = entries[m].info
  BY <1>13, <1>15, <1>h
<1>17. ASSUME NEW m \in 1..Len(entries)
       PROVE  /\ Len(entries'[m].children) = Len(entries[m].children)
              /\ \A i \in 1..Len(entries[m].children) :
                   /\ entries'[m].children[i].name = entries[m].children[i].name
                   /\ entries'[m].children[i].isDir = entries[m].children[i].isDir
                   /\ \/ entries'[m].children[i].meta = entries[m].children[i].meta
                      \/ /\ x = [folder |-> m, child |-> i]
                         /\ entries'[m].children[i].meta = NewP!Unset
  <2>1. CASE m = f
    <3>1. entries'[m].children = r /\ entries[m].children = q
      BY <2>1, <1>15, <1>13, <1>q
    <3>2. ASSUME NEW i \in 1..Len(q)
          PROVE  /\ r[i].name = q[i].name /\ r[i].isDir = q[i].isDir
                 /\ r[i].meta = q[i].meta \/ (i = k /\ r[i].meta = NewP!Unset)
      BY <1>11, <1>12 DEF NewP!Unset, Unset
    <3> QED
      BY <3>1, <3>2, <1>10, <1>1, <2>1
  <2>2. CASE m # f
    BY <2>2, <1>15
  <2> QED
    BY <2>1, <2>2
<1>18. NewP!OneLeftOut(x)
  BY <1>14, <1>16, <1>17 DEF NewP!OneLeftOut
<1>19. ASSUME NEW U, NewP!Meta(x) \notin U PROVE NewP!NotToCome(x, U)
  BY <1>1, <1>2, <1>19 DEF NewP!NotToCome, NewP!Meta, NewP!Cell
<1> QED
  BY <1>2, <1>16, <1>18, <1>19

(* The metadata of an entry is updated in place. *)
LEMMA UpdatesInfo ==
  ASSUME NEW P, NewP!Pruned(P), NEW m \in 1..Len(entries), NEW i \in Info,
         i.isDir = entries[m].info.isDir, entries' = [entries EXCEPT ![m].info = i]
  PROVE  /\ entries' \in Seq(NewP!LeftEntry) /\ Len(entries') = Len(entries)
         /\ \A k \in 1..Len(entries) :
              /\ entries'[k].children = entries[k].children
              /\ entries'[k].info.isDir = entries[k].info.isDir
              /\ k # m => entries'[k].info = entries[k].info
<1>1. entries \in Seq(NewP!LeftEntry)
  BY DEF NewP!Pruned
<1>h. PICK h : h = entries[m]
  OBVIOUS
<1>g. PICK g : g = [h EXCEPT !.info = i]
  OBVIOUS
<1>2. h \in NewP!LeftEntry
  BY <1>1, <1>h
<1>3. NewP!Info = Info
  BY DEF NewP!Info, Info
<1>4. g \in NewP!LeftEntry /\ g.children = h.children /\ g.info = i
  BY <1>2, <1>3, <1>g DEF NewP!LeftEntry
<1>5. entries' = [entries EXCEPT ![m] = g]
  BY <1>h, <1>g
<1>6. entries' \in Seq(NewP!LeftEntry) /\ Len(entries') = Len(entries)
  BY <1>1, <1>4, <1>5
<1>7. \A k \in 1..Len(entries) : k # m => entries'[k] = entries[k]
  BY <1>1, <1>5
<1>8. entries'[m] = g
  BY <1>1, <1>5
<1> QED
  BY <1>4, <1>6, <1>7, <1>8, <1>h

(* A file is left out, shrinks to the difference, or stays. *)
LEMMA FileVisited ==
  ASSUME VisitFile, OldInfo \in Metadata,
         NEW P, NEW U, NEW o, NEW c, o = open, c = here, WalkAt(o, c, P, U)
  PROVE  \E Q, V, s, d : s = open' /\ d = here' /\ WalkAt(s, d, Q, V)'
<1>0. c.current # New!NoEntry /\ ~NewP!IsFolder(c.current)
  BY NewNames DEF VisitFile, IsAt
<1>1. /\ NewP!Pruned(P) /\ NewP!ClosedDown(U) /\ NewP!OnWalk(c, P, U) /\ Opened(o, P, U)
      /\ Alongside(o, c) /\ Lookable(P)
  BY <1>0, EntryVisited
<1>2. /\ c.parents \in Seq(NewP!Above)
      /\ c.current \in NewP!Ids /\ o \in Seq(OpenFolder)
      /\ Len(c.parents) \in Nat \ {0} /\ Len(o) \in Nat
  BY <1>0, EntryVisited
<1>a. PICK a : a = c.parents
  OBVIOUS
<1>n. PICK n : n = Len(a)
  OBVIOUS
<1>x. PICK x : x = c.current
  OBVIOUS
<1>m. PICK m : m = NewP!Meta(x)
  OBVIOUS
<1>f. PICK f : f = NewP!Meta(a[n].id)
  OBVIOUS
<1>3. m \in 1..Len(entries) \ U
  BY <1>0, <1>x, <1>m, EntryVisited
<1>4. /\ n \in Nat \ {0} /\ Len(c.path) = n /\ x.child = a[n].next - 1 /\ NewP!IsChild(x, f)
  BY <1>0, <1>1, <1>2, <1>a, <1>n, <1>x, <1>f, SameAssumption, NewP!PlaceOnWalk
<1>5. NewP!Trail(a, c.path, P)
  BY <1>1, <1>a DEF NewP!OnWalk
<1>6. f \in 1..Len(entries)
  BY <1>5, <1>4, <1>n, <1>f DEF NewP!Trail, NewP!InTrail
<1>7. Handled(o, c)
  <2>1. a[n].next \in Nat /\ x.child \in Nat
    BY <1>2, <1>4, <1>a, <1>n, <1>x, SameAssumption, NewP!AboveFields DEF NewP!Ids
  <2>2. /\ n <= Len(o)
        /\ \A i \in 1..n : o[i].id = a[i].id
        /\ n < Len(o) => o[n + 1].id.child < x.child
    BY <1>1, <1>4, <1>a, <1>x DEF Alongside
  <2>3. ASSUME n < Len(o) PROVE o[n + 1].id.child \in Nat
    <3>1. n + 1 \in 1..Len(o)
      BY <2>3, <1>2, <1>4
    <3>2. o[n + 1] \in OpenFolder
      BY <3>1, <1>2
    <3> QED
      BY <3>2 DEF OpenFolder, NewP!Ids
  <2>4. n < Len(o) => o[n + 1].id.child < a[n].next
    BY <2>1, <2>2, <2>3, <1>4
  <2> QED
    BY <2>2, <2>4, <1>a, <1>n DEF Handled
<1>d. PICK d : d = NewP!Advance(c)
  OBVIOUS
<1>8. PICK V \in SUBSET U :
        /\ NewP!ClosedDown(V) /\ Visiting(o, d, P, V)
        /\ d # NewP!Cleared => NewP!Meta(d.current) \in U
  BY <1>1, <1>2, <1>7, <1>d, WalksOn
<1>9. WalkAt(o, d, P, V)
  BY <1>1, <1>8, FewerToCome DEF WalkAt
<1>10. m \in 1..Len(entries) \ V
  BY <1>3
<1>11. rootMeta' = rootMeta /\ o = open' /\ d = here'
  BY <1>d, NewAdvance DEF VisitFile
<1>12. \A i \in 1..Len(o) : NewP!Meta(o[i].id) # m
  <2>1. \A i \in 1..Len(o) : entries[NewP!Meta(o[i].id)].info.isDir
    BY <1>1 DEF Opened, OpenAt
  <2>2. ~entries[m].info.isDir
    BY <1>0, <1>x, <1>m DEF NewP!IsFolder
  <2> QED
    BY <2>1, <2>2
<1>b. PICK before : before = OldInfo
  OBVIOUS
<1>t. PICK after : after = MetadataOf(entries, m)
  OBVIOUS
<1>13. m = New!Meta(here.current) /\ x = here.current
  BY <1>m, <1>x, NewNames
<1>14. CASE ~KeepsFile(before, after)
  <2>1. entries' = Without(entries, x)
    BY <1>14, <1>b, <1>t, <1>13 DEF VisitFile
  <2>2. /\ NewP!OneLeftOut(x) /\ x # NewP!Root
        /\ \A k \in 1..Len(entries) : entries'[k].info = entries[k].info
        /\ NewP!NotToCome(x, V)
    BY <2>1, <1>1, <1>4, <1>6, <1>10, <1>11, <1>m, LeavesOut
  <2>3. \A i \in 1..Len(o) : o[i].id # x
    BY <1>12, <1>m
  <2>4. \A i \in 1..Len(o) :
          entries'[NewP!Meta(o[i].id)].info = entries[NewP!Meta(o[i].id)].info
    BY <2>2, <1>1 DEF Opened, OpenAt
  <2>5. ASSUME d # NewP!Cleared
        PROVE  /\ d.current # x
               /\ \A i \in 1..Len(d.parents) : d.parents[i].id # x
    <3>1. d.current # x
      BY <2>5, <1>8, <1>3, <1>m
    <3>2. NewP!Trail(d.parents, d.path, P)
      BY <2>5, <1>8 DEF Visiting, NewP!OnWalk
    <3>3. \A i \in 1..Len(d.parents) : NewP!IsFolder(d.parents[i].id)
      BY <3>2 DEF NewP!Trail, NewP!InTrail
    <3> QED
      BY <3>1, <3>3, <1>0, <1>x
  <2>6. WalkAt(o, d, P, V)'
    BY <2>2, <2>3, <2>4, <2>5, <1>9, WalkKept
  <2> QED
    BY <2>6, <1>11
<1>15. CASE KeepsFile(before, after) /\ filter = "new-or-larger" /\ before # NotFound
  <2>1. /\ entries[m].info \in Info /\ after \in Metadata /\ Stored(after) = entries[m].info
    BY <1>1, <1>3, <1>t, EntryIs
  <2>i. PICK i : i = [entries[m].info EXCEPT !.size = @ - before.size]
    OBVIOUS
  <2>2. after.size > before.size
    BY <1>15 DEF KeepsFile
  <2>3. entries[m].info.size = after.size
    BY <2>1, StoredIs
  <2>4. before.size \in Nat /\ after.size \in Nat
    BY <2>1, <1>b DEF Metadata
  <2>5. i \in Info /\ i.isDir = entries[m].info.isDir
    BY <2>1, <2>2, <2>3, <2>4, <2>i DEF Info
  <2>6. entries' = [entries EXCEPT ![m].info.size = @ - before.size]
    BY <1>15, <1>b, <1>t, <1>13 DEF VisitFile
  <2>7. entries' = [entries EXCEPT ![m].info = i]
    BY <2>6, <2>i
  <2>8. /\ entries' \in Seq(NewP!LeftEntry) /\ Len(entries') = Len(entries)
        /\ \A k \in 1..Len(entries) :
             /\ entries'[k].children = entries[k].children
             /\ entries'[k].info.isDir = entries[k].info.isDir
             /\ k # m => entries'[k].info = entries[k].info
    BY <2>5, <2>7, <1>1, <1>3, UpdatesInfo
  <2>9. \A k \in 1..Len(o) :
          entries'[NewP!Meta(o[k].id)].info = entries[NewP!Meta(o[k].id)].info
    BY <2>8, <1>12, <1>1 DEF Opened, OpenAt
  <2>10. WalkAt(o, d, P, V)'
    BY <2>8, <2>9, <1>9, <1>11, WalkSame
  <2> QED
    BY <2>10, <1>11
<1>16. CASE KeepsFile(before, after) /\ ~(filter = "new-or-larger" /\ before # NotFound)
  <2>1. entries' = entries
    BY <1>16, <1>b, <1>t, <1>13 DEF VisitFile
  <2>2. WalkAt(o, d, P, V)'
    BY <2>1, <1>9, <1>11, WalkSame DEF WalkAt, NewP!Pruned
  <2> QED
    BY <2>2, <1>11
<1> QED
  BY <1>14, <1>15, <1>16

-------------------------------------------------------------------------------
LEMMA LastOpen ==
  ASSUME NEW o \in Seq(OpenFolder), o # <<>>
  PROVE  /\ Len(o) \in Nat \ {0} /\ Front(o) \in Seq(OpenFolder)
         /\ Len(Front(o)) = Len(o) - 1
         /\ \A i \in 1..Len(o) - 1 : Front(o)[i] = o[i]
         /\ Last(o) \in OpenFolder /\ Last(o) = o[Len(o)]
<1>1. Front(o) = NewP!Front(o) /\ Last(o) = NewP!Last(o)
  BY DEF NewP!Front, Front, NewP!Last, Last
<1> QED
  BY <1>1, SameAssumption, NewP!FrontLast

(* What is in a folder that is left adds up to numbers. *)
LEMMA ContentsInIndex ==
  ASSUME NEW P, NewP!Pruned(P), NEW m \in 1..Len(entries)
  PROVE  Numbers(Contents(entries, m))
<1>1. /\ entries[m].children \in Seq(NewP!LeftChild)
  BY SameAssumption, NewP!LeftFields
<1>w. PICK w : w = NewP!Width(m)
  OBVIOUS
<1>2. w \in Nat /\ DOMAIN entries[m].children = 1..w
  BY <1>1, <1>w DEF NewP!Width
<1>3. ASSUME NEW i \in Remaining(entries, m)
      PROVE  entries[entries[m].children[i].meta].info \in Info
  <2>1. i \in 1..w /\ NewP!Cell(m, i) # NewP!Unset
    BY <1>2 DEF Remaining, NewP!Cell, NewP!Unset, Unset
  <2>2. NewP!AttachedChild(entries, P, P[m], entries[m].children[i])
    BY <2>1, <1>w DEF NewP!Pruned
  <2>k. PICK k : k = entries[m].children[i].meta
    OBVIOUS
  <2>3. k \in 1..Len(entries)
    BY <2>2, <2>k DEF NewP!AttachedChild
  <2> QED
    BY <2>3, <2>k, EntryIs
<1> QED
  BY <1>2, <1>3, ContentsAre

(* The innermost open folder is closed. *)
LEMMA FolderClosed ==
  ASSUME NEW P, NEW U, NEW o, NEW c, WalkAt(o, c, P, U), o # <<>>,
         c # NewP!Cleared =>
           /\ Len(c.path) = Len(c.parents) - 1
           /\ c.current = c.parents[Len(c.parents)].id
           /\ \/ Len(o) > Len(c.parents)
              \/ Len(o) = Len(c.parents) /\ o[Len(o)].id # c.current
  PROVE  /\ WalkAt(Front(o), c, P, U)
         /\ c # NewP!Cleared => /\ c.current # o[Len(o)].id
                                /\ \A i \in 1..Len(c.parents) : c.parents[i].id # o[Len(o)].id
         /\ \A i \in 1..Len(Front(o)) :
              NewP!Meta(Front(o)[i].id) # NewP!Meta(o[Len(o)].id)
<1>s. PICK s : s = Front(o)
  OBVIOUS
<1>t. PICK t : t = Len(o)
  OBVIOUS
<1>1. Opened(o, P, U) /\ o \in Seq(OpenFolder)
  BY DEF WalkAt, Opened
<1>2. /\ t \in Nat \ {0} /\ s \in Seq(OpenFolder) /\ Len(s) = t - 1
      /\ \A i \in 1..t - 1 : s[i] = o[i]
  BY <1>1, <1>s, <1>t, LastOpen
<1>x. PICK x : x = o[t].id
  OBVIOUS
<1>3. \A i \in 1..t : /\ OpenAt(o[i], i, P, U) /\ Len(P[NewP!Meta(o[i].id)]) = i - 1
  BY <1>1, <1>t DEF Opened, OpenAt
<1>4. Opened(s, P, U)
  <2>1. \A i \in 1..Len(s) : OpenAt(s[i], i, P, U)
    BY <1>2, <1>3
  <2>2. s # <<>> => s[1].id = NewP!Root
    <3>1. ASSUME s # <<>> PROVE s[1] = o[1]
      <4>1. Len(s) # 0
        BY <3>1, <1>2
      <4> QED
        BY <4>1, <1>2
    <3> QED
      BY <3>1, <1>1 DEF Opened
  <2>3. ASSUME NEW i \in 2..Len(s) PROVE NewP!IsChild(s[i].id, NewP!Meta(s[i - 1].id))
    <3>1. i \in 2..t /\ s[i] = o[i] /\ s[i - 1] = o[i - 1]
      BY <1>2
    <3> QED
      BY <3>1, <1>1, <1>t DEF Opened
  <2> QED
    BY <2>1, <2>2, <2>3, <1>2 DEF Opened
<1>5. \A i \in 1..t - 1 : NewP!Meta(s[i].id) # NewP!Meta(x)
  BY <1>2, <1>3, <1>x
<1>6. CASE c = NewP!Cleared
  <2>1. WalkAt(s, c, P, U)
    BY <1>4, <1>6 DEF WalkAt, Visiting
  <2> QED
    BY <2>1, <1>2, <1>5, <1>6, <1>s, <1>t, <1>x
<1>7. CASE c # NewP!Cleared
  <2>a. PICK a : a = c.parents
    OBVIOUS
  <2>n. PICK n : n = Len(a)
    OBVIOUS
  <2>1. NewP!OnWalk(c, P, U) /\ Alongside(o, c)
    BY <1>7 DEF WalkAt, Visiting
  <2>2. n \in Nat \ {0}
    <3>1. NewP!Pruned(P)
      BY DEF WalkAt
    <3> QED
      BY <3>1, <2>1, <2>a, <2>n, SameAssumption, NewP!PlaceOnWalk
  <2>3. /\ Len(c.path) = n - 1 /\ c.current = a[n].id
        /\ t > n \/ (t = n /\ x # c.current)
    BY <1>7, <2>a, <2>n, <1>t, <1>x
  <2>4. n <= t
    BY <2>2, <2>3, <1>2
  <2>5. Alongside(s, c)
    <3>1. /\ \A i \in 1..n - 1 : o[i].id = a[i].id
          /\ n - 1 < t => o[n].id.child < c.current.child
      <4>k. PICK k : k = Len(c.path)
        OBVIOUS
      <4>1. k = n - 1 /\ k + 1 = n
        BY <4>k, <2>2, <2>3
      <4>2. /\ \A i \in 1..k : o[i].id = a[i].id
            /\ k < t => o[k + 1].id.child < c.current.child
        BY <4>k, <2>1, <2>a, <1>t DEF Alongside
      <4> QED
        BY <4>1, <4>2
    <3>2. n - 1 <= t - 1
      BY <2>2, <2>4, <1>2
    <3>3. \A i \in 1..n - 1 : s[i].id = a[i].id
      BY <3>1, <3>2, <1>2, <2>2
    <3>4. n - 1 < t - 1 => s[n].id.child < c.current.child
      BY <3>1, <1>2, <2>2
    <3> QED
      BY <3>2, <3>3, <3>4, <2>2, <2>3, <2>a, <1>2 DEF Alongside
  <2>6. WalkAt(s, c, P, U)
    BY <2>1, <2>5, <1>4 DEF WalkAt, Visiting
  <2>7. \A i \in 1..n : a[i].id # x
    <3>1. NewP!Trail(a, c.path, P)
      BY <2>1, <2>a DEF NewP!OnWalk
    <3>2. ASSUME NEW i \in 1..n, a[i].id = x PROVE FALSE
      <4>1. Len(P[NewP!Meta(x)]) = i - 1
        BY <3>1, <3>2, <2>n DEF NewP!Trail, NewP!InTrail
      <4>2. Len(P[NewP!Meta(x)]) = t - 1
        BY <1>3, <1>2, <1>x
      <4>3. i = t
        BY <4>1, <4>2, <2>2, <1>2
      <4>4. i = n /\ t = n
        BY <4>3, <2>2, <2>4, <1>2
      <4> QED
        BY <4>4, <3>2, <2>3, <1>2, <2>2
    <3> QED
      BY <3>2
  <2>8. c.current # x
    BY <2>7, <2>3, <2>2
  <2> QED
    BY <2>6, <2>7, <2>8, <1>2, <1>5, <1>s, <1>t, <1>x, <2>a, <2>n
<1> QED
  BY <1>6, <1>7

(* It goes, or is cut down to what is in it, for which there is room. *)
LEMMA FolderLeft ==
  ASSUME NEW n, LeaveFolder(n), phase = "walk",
         NEW P, NEW U, NEW o, NEW c, o = open, c = here, WalkAt(o, c, P, U),
         IF c = NewP!Cleared THEN n = 0
         ELSE n = Len(c.parents) /\ NewP!IsFolder(c.current)
  PROVE  /\ phase' = "walk"
         /\ \E Q, V, s, d : s = open' /\ d = here' /\ WalkAt(s, d, Q, V)'
<1>1. /\ HasLeft(n) /\ open' = Front(open) /\ here' = here /\ rootMeta' = rootMeta
  BY DEF LeaveFolder
<1>2. NewP!Pruned(P) /\ Opened(o, P, U) /\ o \in Seq(OpenFolder)
  BY DEF WalkAt, Opened
<1>t. PICK t : t = Len(o)
  OBVIOUS
<1>l. PICK f : f = Last(o)
  OBVIOUS
<1>3. c # NewP!Cleared =>
        /\ Len(c.parents) \in Nat \ {0}
        /\ Len(c.path) = Len(c.parents) - 1
        /\ c.current = c.parents[Len(c.parents)].id
  BY <1>2, SameAssumption, NewP!PlaceOnWalk DEF WalkAt, Visiting
<1>4. n \in Nat
  BY <1>3
<1>5. o # <<>>
  <2>1. CASE Len(o) > n
    BY <2>1, <1>2, <1>4
  <2> QED
    BY <2>1, <1>1 DEF HasLeft
<1>6. /\ t \in Nat \ {0} /\ f = o[t] /\ f \in OpenFolder /\ Front(o) \in Seq(OpenFolder)
      /\ Len(Front(o)) = t - 1
  BY <1>2, <1>5, <1>t, <1>l, LastOpen
<1>s. PICK s : s = Front(o)
  OBVIOUS
<1>x. PICK x : x = f.id
  OBVIOUS
<1>m. PICK m : m = NewP!Meta(x)
  OBVIOUS
<1>7. c # NewP!Cleared =>
           /\ Len(c.path) = Len(c.parents) - 1
           /\ c.current = c.parents[Len(c.parents)].id
           /\ \/ Len(o) > Len(c.parents)
              \/ Len(o) = Len(c.parents) /\ o[Len(o)].id # c.current
  BY <1>1, <1>3, <1>6, <1>t, <1>l DEF HasLeft
<1>8. /\ WalkAt(s, c, P, U)
      /\ c # NewP!Cleared => /\ c.current # x
                             /\ \A i \in 1..Len(c.parents) : c.parents[i].id # x
      /\ \A i \in 1..Len(s) : NewP!Meta(s[i].id) # m
  <2>1. x = o[Len(o)].id /\ m = NewP!Meta(o[Len(o)].id)
    BY <1>6, <1>x, <1>m, <1>t
  <2>2. /\ WalkAt(Front(o), c, P, U)
        /\ c # NewP!Cleared => /\ c.current # o[Len(o)].id
                               /\ \A i \in 1..Len(c.parents) : c.parents[i].id # o[Len(o)].id
        /\ \A i \in 1..Len(Front(o)) :
             NewP!Meta(Front(o)[i].id) # NewP!Meta(o[Len(o)].id)
    BY <1>5, <1>7, FolderClosed
  <2> QED
    BY <2>1, <2>2, <1>s
<1>9. s = open' /\ c = here'
  BY <1>1, <1>s
<1>10. /\ m \in 1..Len(entries) \ U /\ entries[m].info.isDir
       /\ entries[m].info = Stored(f.info) /\ f.info \in Metadata
  <2>1. OpenAt(f, t, P, U)
    BY <1>2, <1>6, <1>t DEF Opened
  <2> QED
    BY <2>1, <1>6, <1>x, <1>m DEF OpenAt, OpenFolder
<1>11. m = New!Meta(Last(open).id) /\ f = Last(open) /\ x = Last(open).id
  BY <1>m, <1>x, <1>l, NewNames
<1>12. \A i \in 1..Len(s) : NewP!Meta(s[i].id) \in 1..Len(entries)
  BY <1>8 DEF WalkAt, Opened, OpenAt
<1>g. PICK after : after = Limited(f.info, Contents(entries, m))
  OBVIOUS
<1>13. CASE Remaining(entries, m) = {} /\ Len(open) > 1 /\ Droppable(f)
  <2>1. entries' = Without(entries, x) /\ phase' = phase
    BY <1>13, <1>11 DEF LeaveFolder
  <2>p. PICK p : p = NewP!Meta(o[t - 1].id)
    OBVIOUS
  <2>2. t \in 2..Len(o)
    BY <1>13, <1>t, <1>6
  <2>3. NewP!IsChild(x, p) /\ p \in 1..Len(entries)
    <3>1. t - 1 \in 1..Len(o)
      BY <2>2, <1>6
    <3> QED
      BY <2>2, <3>1, <2>p, <1>2, <1>6, <1>x DEF Opened, OpenAt
  <2>4. /\ NewP!OneLeftOut(x) /\ x # NewP!Root
        /\ \A k \in 1..Len(entries) : entries'[k].info = entries[k].info
        /\ NewP!NotToCome(x, U)
    BY <2>1, <2>3, <1>1, <1>2, <1>10, <1>m, LeavesOut
  <2>5. \A i \in 1..Len(s) : s[i].id # x
    BY <1>8, <1>m
  <2>6. \A i \in 1..Len(s) :
          entries'[NewP!Meta(s[i].id)].info = entries[NewP!Meta(s[i].id)].info
    BY <2>4, <1>12
  <2>7. WalkAt(s, c, P, U)'
    BY <2>4, <2>5, <2>6, <1>8, WalkKept
  <2> QED
    BY <2>1, <2>7, <1>9
<1>14. CASE ~(Remaining(entries, m) = {} /\ Len(open) > 1 /\ Droppable(f))
  <2>1. Numbers(Contents(entries, m))
    BY <1>2, <1>10, ContentsInIndex
  <2>2. /\ after \in Metadata /\ after.isDir = f.info.isDir
        /\ Fits(entries[m].info, after)
    BY <2>1, <1>10, <1>g, LimitedIs
  <2>3. /\ entries' = [entries EXCEPT ![m].info = Stored(after)] /\ phase' = phase
    BY <2>2, <1>14, <1>11, <1>g DEF LeaveFolder
  <2>i. PICK i : i = Stored(after)
    OBVIOUS
  <2>4. i \in Info /\ i.isDir = entries[m].info.isDir
    BY <2>2, <2>i, <1>10, StoredIs
  <2>5. entries' = [entries EXCEPT ![m].info = i]
    BY <2>3, <2>i
  <2>6. /\ entries' \in Seq(NewP!LeftEntry) /\ Len(entries') = Len(entries)
        /\ \A k \in 1..Len(entries) :
             /\ entries'[k].children = entries[k].children
             /\ entries'[k].info.isDir = entries[k].info.isDir
             /\ k # m => entries'[k].info = entries[k].info
    BY <2>4, <2>5, <1>2, <1>10, UpdatesInfo
  <2>7. \A k \in 1..Len(s) :
          entries'[NewP!Meta(s[k].id)].info = entries[NewP!Meta(s[k].id)].info
    BY <2>6, <1>8, <1>12
  <2>8. WalkAt(s, c, P, U)'
    BY <2>6, <2>7, <1>8, <1>1, WalkSame
  <2> QED
    BY <2>3, <2>8, <1>9
<1> QED
  BY <1>13, <1>14

-------------------------------------------------------------------------------
(* The inductive invariant: an index that is built is well formed, the old *)
(* one stays it, and the walk is at an entry of the new one.               *)
Building == NewP!BuildInv /\ NewP!OnceInv
LooksUpIn == \E Q, d : d = there /\ OldPlace(d, Q)
Walks == \E P, U, o, c : o = open /\ c = here /\ WalkAt(o, c, P, U)

FilterInv ==
  /\ phase \in {"old", "new", "walk"}
  /\ phase # "walk" => Building
  /\ phase = "new" => \E Q : OldIndex(Q)
  /\ phase = "walk" => LooksUpIn /\ Walks

LEMMA InitBuilding == NewP!Init => Building
BY SameAssumption, NewP!InitBuildInv, NewP!InitOnce DEF Building

LEMMA NewBuilding == NewP!Init' => Building'
BY InitBuilding, PTL

LEMMA BuildStep ==
  ASSUME Building, BuildNext \/ UNCHANGED indexVars
  PROVE  Building'
<1>1. [NewP!BuildNext]_NewP!indexVars
  BY SameBuild
<1>2. NewP!BuildInv /\ NewP!OnceInv
  BY DEF Building
<1>3. NewP!BuildInv'
  BY <1>1, <1>2, SameAssumption, NewP!BuildKept
<1>4. NewP!OnceInv'
  BY <1>1, <1>2, SameAssumption, NewP!OnceKept
<1> QED
  BY <1>3, <1>4 DEF Building

LEMMA InitFilterInv == DiffInit => FilterInv
<1> SUFFICES ASSUME DiffInit PROVE FilterInv
  OBVIOUS
<1>1. Building
  BY SameInit, InitBuilding DEF DiffInit
<1>2. phase = "old"
  BY DEF DiffInit
<1> QED
  BY <1>1, <1>2 DEF FilterInv

LEMMA LoadNewStep == ASSUME FilterInv, LoadNew PROVE FilterInv'
<1>1. phase = "old" /\ phase' = "new" /\ pc = "built"
  BY DEF LoadNew
<1>2. Building
  BY <1>1 DEF FilterInv
<1>3. PICK Q : NewP!Walkable(Q)
  BY <1>1, <1>2, SameAssumption, NewP!WalkStarts DEF Building
<1>4. old'.entries = entries /\ old'.rootMeta = rootMeta
  BY DEF LoadNew
<1>5. OldIndex(Q)'
  BY <1>3, <1>4, OldLoaded
<1>6. NewP!Init'
  BY SameData DEF LoadNew, NewP!Init, InputOptions
<1>7. Building'
  BY <1>6, NewBuilding
<1> QED
  BY <1>1, <1>5, <1>7 DEF FilterInv

LEMMA StartWalkStep == ASSUME FilterInv, StartWalk PROVE FilterInv'
<1>1. phase = "new" /\ phase' = "walk" /\ old' = old
  BY DEF StartWalk
<1>2. PICK Q : OldIndex(Q)
  BY <1>1 DEF FilterInv
<1>d. PICK d : d = Old!AtRoot
  OBVIOUS
<1>3. OldPlace(d, Q)'
  BY <1>1, <1>2, <1>d, OldRoot, OldPlaceKept
<1>4. d = there'
  BY <1>d DEF StartWalk
<1>5. LooksUpIn'
  BY <1>3, <1>4 DEF LooksUpIn
<1>6. Walks'
  BY <1>1, <1>2, WalkStarted DEF FilterInv, Building, Walks
<1> QED
  BY <1>1, <1>5, <1>6 DEF FilterInv

(* The old cursor is where the path of the entry led it. *)
LEMMA LookedUp ==
  ASSUME FilterInv, phase = "walk", here.current # New!NoEntry, old' = old,
         there' = Lookup.cursor
  PROVE  LooksUpIn' /\ OldInfo \in Metadata
<1>1. PICK P, U, o, c : o = open /\ c = here /\ WalkAt(o, c, P, U)
  BY DEF FilterInv, Walks
<1>2. here.path \in NewP!WantedPaths
  BY <1>1, EntryVisited
<1>3. PICK Q, d : d = there /\ OldPlace(d, Q)
  BY DEF FilterInv, LooksUpIn
<1>4. OldPlace(Lookup.cursor, Q) /\ OldInfo \in Metadata
  BY <1>2, <1>3, LooksUp
<1>e. PICK e : e = Lookup.cursor
  OBVIOUS
<1>5. OldPlace(e, Q)'
  BY <1>4, <1>e, OldPlaceKept
<1> QED
  BY <1>4, <1>5, <1>e DEF LooksUpIn

LEMMA EnterFolderStep == ASSUME FilterInv, EnterFolder PROVE FilterInv'
<1>1. /\ phase = "walk" /\ here.current # New!NoEntry /\ old' = old
      /\ there' = Lookup.cursor
  BY DEF EnterFolder, IsAt
<1>2. LooksUpIn' /\ OldInfo \in Metadata
  BY <1>1, LookedUp
<1>3. PICK P, U, o, c : o = open /\ c = here /\ WalkAt(o, c, P, U)
  BY <1>1 DEF FilterInv, Walks
<1>4. phase' = "walk" /\ Walks'
  BY <1>2, <1>3, FolderEntered DEF Walks
<1> QED
  BY <1>2, <1>4 DEF FilterInv

LEMMA VisitFileStep == ASSUME FilterInv, VisitFile PROVE FilterInv'
<1>1. /\ phase = "walk" /\ phase' = "walk" /\ here.current # New!NoEntry /\ old' = old
      /\ there' = Lookup.cursor
  BY DEF VisitFile, IsAt
<1>2. LooksUpIn' /\ OldInfo \in Metadata
  BY <1>1, LookedUp
<1>3. PICK P, U, o, c : o = open /\ c = here /\ WalkAt(o, c, P, U)
  BY <1>1 DEF FilterInv, Walks
<1>4. Walks'
  BY <1>2, <1>3, FileVisited DEF Walks
<1> QED
  BY <1>1, <1>2, <1>4 DEF FilterInv

LEMMA LeaveStep ==
  ASSUME FilterInv, NEW n, LeaveFolder(n), phase = "walk",
         IF here = NewP!Cleared THEN n = 0
         ELSE n = Len(here.parents) /\ NewP!IsFolder(here.current)
  PROVE  FilterInv'
<1>1. PICK P, U, o, c : o = open /\ c = here /\ WalkAt(o, c, P, U)
  BY DEF FilterInv, Walks
<1>2. phase' = "walk" /\ Walks'
  BY <1>1, FolderLeft DEF Walks
<1>3. PICK Q, d : d = there /\ OldPlace(d, Q)
  BY DEF FilterInv, LooksUpIn
<1>4. old' = old /\ there' = there
  BY DEF LeaveFolder
<1>5. OldPlace(d, Q)'
  BY <1>3, <1>4, OldPlaceKept
<1>6. LooksUpIn'
  BY <1>3, <1>4, <1>5 DEF LooksUpIn
<1> QED
  BY <1>2, <1>6 DEF FilterInv

LEMMA FilterInvKept == ASSUME FilterInv, [Next]_vars PROVE FilterInv'
<1>1. CASE Build
  <2>1. BuildNext /\ phase \in {"old", "new"} /\ phase' = phase /\ old' = old
    BY <1>1 DEF Build, diffVars
  <2>2. Building'
    BY <2>1, BuildStep DEF FilterInv
  <2>3. ASSUME phase = "new" PROVE \E Q : OldIndex(Q)'
    <3>1. PICK Q : OldIndex(Q)
      BY <2>3 DEF FilterInv
    <3> QED
      BY <3>1, <2>1, OldIndexKept
  <2> QED
    BY <2>1, <2>2, <2>3 DEF FilterInv
<1>2. CASE LoadNew
  BY <1>2, LoadNewStep
<1>3. CASE StartWalk
  BY <1>3, StartWalkStep
<1>4. CASE Leave
  <2>1. /\ phase = "walk" /\ LeaveFolder(Len(here.parents))
        /\ here.current # New!NoEntry /\ NewP!IsFolder(here.current)
    BY <1>4, NewNames DEF Leave, IsAt
  <2>2. here # NewP!Cleared
    BY <2>1, NewNames DEF NewP!Cleared
  <2> QED
    BY <2>1, <2>2, LeaveStep
<1>5. CASE EnterFolder
  BY <1>5, EnterFolderStep
<1>6. CASE VisitFile
  BY <1>6, VisitFileStep
<1>7. CASE LeaveAtEnd
  <2>1. phase = "walk" /\ LeaveFolder(0) /\ here.current = NewP!NoEntry
    BY <1>7, NewNames DEF LeaveAtEnd
  <2>2. here = NewP!Cleared
    <3>1. PICK P, U, o, c : o = open /\ c = here /\ WalkAt(o, c, P, U)
      BY <2>1 DEF FilterInv, Walks
    <3>2. NewP!OnWalk(c, P, U) => c.current # NewP!NoEntry
      BY <3>1, SameAssumption, NewP!PlaceOnWalk DEF WalkAt
    <3> QED
      BY <2>1, <3>1, <3>2 DEF WalkAt, Visiting
  <2> QED
    BY <2>1, <2>2, LeaveStep
<1>8. CASE UNCHANGED vars
  <2>1. UNCHANGED indexVars /\ UNCHANGED diffVars
    BY <1>8 DEF vars
  <2>2. phase' = phase /\ old' = old /\ there' = there /\ open' = open /\ here' = here
        /\ entries' = entries /\ rootMeta' = rootMeta
    BY <2>1 DEF diffVars, indexVars
  <2>3. Building => Building'
    BY <2>1, BuildStep
  <2>4. ASSUME NEW Q, OldIndex(Q) PROVE OldIndex(Q)'
    BY <2>4, <2>2, OldIndexKept
  <2>5. LooksUpIn => LooksUpIn'
    <3> SUFFICES ASSUME LooksUpIn PROVE LooksUpIn'
      OBVIOUS
    <3>1. PICK Q, d : d = there /\ OldPlace(d, Q)
      BY DEF LooksUpIn
    <3>2. OldPlace(d, Q)'
      BY <2>2, <3>1, OldPlaceKept
    <3> QED
      BY <2>2, <3>1, <3>2 DEF LooksUpIn
  <2>6. Walks => Walks'
    <3> SUFFICES ASSUME Walks PROVE Walks'
      OBVIOUS
    <3>1. PICK P, U, o, c : o = open /\ c = here /\ WalkAt(o, c, P, U)
      BY DEF Walks
    <3>2. WalkAt(o, c, P, U)'
      BY <2>2, <3>1, WalkSame DEF WalkAt, NewP!Pruned
    <3> QED
      BY <2>2, <3>1, <3>2 DEF Walks
  <2> QED
    BY <2>2, <2>3, <2>4, <2>5, <2>6 DEF FilterInv
<1> QED
  BY <1>1, <1>2, <1>3, <1>4, <1>5, <1>6, <1>7, <1>8 DEF Next

LEMMA FilterInvHolds == Spec => []FilterInv
BY InitFilterInv, FilterInvKept, PTL DEF Spec

(* Neither panic of filter_fs_index can be reached, whatever the listings  *)
(* and the numbers in them: folders are entered one at a time, and what is *)
(* written over a record of an index never needs more bytes than it has.   *)
THEOREM FilterNeverPanics == Spec => []DiffNeverPanics
<1>1. FilterInv => DiffNeverPanics
  BY DEF FilterInv, DiffNeverPanics
<1> QED
  BY <1>1, FilterInvHolds, PTL
===============================================================================
