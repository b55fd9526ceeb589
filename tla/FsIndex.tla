-------------------------------- MODULE FsIndex --------------------------------
(***************************************************************************)
(* fs_index.rs, FsIndex::from_csv_records_with_root: the index of a file   *)
(* system, built from WizTree's records, which come folder by folder.      *)
(*                                                                         *)
(* A path is the sequence of the names after the root's.  The buffer is    *)
(* the sequence of its metadata records, each with the children that       *)
(* follow it, and a FsMetadataId is a position in that sequence: the bytes *)
(* of a record, dates and drive information are left out.                  *)
(***************************************************************************)
EXTENDS Integers, SequencesExt

CONSTANTS Names,       \* names of files and folders
          Rank,        \* order of the names for StringComparer, a Nat for each
          Sizes,       \* sizes that records give
          Counts,      \* numbers of files and of folders that records give
          MaxRecords,  \* bound: records after the root's
          MaxDepth     \* bound: names in a path

ASSUME IndexAssumption ==
  /\ Rank \in [Names -> Nat]
  /\ Sizes \subseteq Nat
  /\ Counts \subseteq Nat
  /\ MaxRecords \in Nat
  /\ MaxDepth \in Nat

VARIABLES options,  \* FsIndexBuildOptions
          listing,  \* the records read so far, the root's first
          parents,  \* the folders whose records are being read
          entries,  \* the metadata in the buffer
          rootMeta, \* metadata_id of the root path
          item,     \* the record that waits for folders to be finished
          pc

indexVars == <<options, listing, parents, entries, rootMeta, item, pc>>

Unset == 0
NoItem == [path |-> <<>>, isDir |-> FALSE, size |-> 0, files |-> 0, folders |-> 0]
Paths == UNION {[1..n -> Names] : n \in 1..MaxDepth}
Options == [recount : BOOLEAN, recalculate : BOOLEAN, resort : BOOLEAN]
Info == [isDir : BOOLEAN, size : Nat, files : Nat, folders : Nat]
Child == [name : Names, isDir : BOOLEAN, meta : Nat \ {Unset}]

(* from_csv_record: only folders have files and folders. *)
Records(P) ==
  [path : P, isDir : {TRUE}, size : Sizes, files : Counts, folders : Counts]
    \cup [path : P, isDir : {FALSE}, size : Sizes, files : {0}, folders : {0}]

InfoOf(r) == [isDir |-> r.isDir, size |-> r.size, files |-> r.files, folders |-> r.folders]

(* into_entry_with_0_children and into_dir_without_size. *)
WithoutCounts(i) == [i EXCEPT !.files = 0, !.folders = 0]
WithoutSize(i) == IF i.isDir /\ options.recalculate THEN [i EXCEPT !.size = 0] ELSE i

(* The root's record opens the first folder. *)
RootFolder(o, r) ==
  [name |-> "root",
   info |-> [isDir   |-> TRUE,
             size    |-> IF o.recalculate THEN 0 ELSE r.size,
             files   |-> IF o.recount THEN 0 ELSE r.files,
             folders |-> IF o.recount THEN 0 ELSE r.folders],
   children |-> <<>>]

Init ==
  /\ options \in Options
  /\ \E r \in Records({<<>>}) :
       /\ r.isDir
       /\ listing = <<r>>
       /\ parents = <<RootFolder(options, r)>>
  /\ entries = <<>>
  /\ rootMeta = Unset
  /\ item = NoItem
  /\ pc = "reading"

-------------------------------------------------------------------------------
(* The folders of the path are those that are being read. *)
InOpenFolders(p) ==
  /\ Len(p) <= Len(parents)
  /\ \A i \in 1..Len(p) - 1 : p[i] = parents[i + 1].name

(* A listing names nothing twice. *)
Listable(r) ==
  /\ Len(listing) <= MaxRecords
  /\ \A i \in DOMAIN listing : listing[i].path # r.path

(* "child entry without first visiting its parent is not supported", "only *)
(* visit entries of the current parent folder" are what it panics with.    *)
Take(r) ==
  /\ pc = "reading"
  /\ InOpenFolders(r.path)
  /\ listing' = Append(listing, r)
  /\ item' = r
  /\ pc' = "adding"
  /\ UNCHANGED <<options, parents, entries, rootMeta>>

Refuse(r) ==
  /\ pc = "reading"
  /\ ~InOpenFolders(r.path)
  /\ pc' = "panicked"
  /\ UNCHANGED <<options, listing, parents, entries, rootMeta, item>>

Read(r) == Listable(r) /\ Take(r)
Panic(r) == Listable(r) /\ Refuse(r)

EndOfRecords ==
  /\ pc = "reading"
  /\ pc' = "finishing"
  /\ UNCHANGED <<options, listing, parents, entries, rootMeta, item>>

(* Folders before files, then by name. *)
Precedes(a, b) ==
  \/ a.isDir /\ ~b.isDir
  \/ a.isDir = b.isDir /\ Rank[a.name] < Rank[b.name]

(* The sort is stable. *)
Sorted(s) ==
  LET before(i) == {j \in DOMAIN s : \/ Precedes(s[j], s[i])
                                     \/ ~Precedes(s[i], s[j]) /\ j < i} IN
  [k \in DOMAIN s |-> s[CHOOSE i \in DOMAIN s : Cardinality(before(i)) = k - 1]]

(* recalculate_folder_size: a folder is as large as what it contains. *)
Enlarged(i, by) == IF options.recalculate THEN [i EXCEPT !.size = @ + by.size] ELSE i

(* The folders that stay open for the next entry, none at the end. *)
Kept == IF pc = "adding" THEN Len(item.path) ELSE 0

(* A child of a folder, whose metadata is the n-th in the buffer. *)
ChildAt(name, isDir, n) == [name |-> name, isDir |-> isDir, meta |-> n]
WithChild(folder, by, child) ==
  [folder EXCEPT !.info = Enlarged(@, by), !.children = Append(@, child)]

(* One round of the loop in add_parents. *)
FinishFolder ==
  LET folder == Last(parents)
      children == IF options.resort THEN Sorted(folder.children) ELSE folder.children
      outer == Front(parents) IN
  /\ pc \in {"adding", "finishing"}
  /\ Len(parents) > Kept
  /\ entries' = Append(entries, [info |-> folder.info, children |-> children])
  /\ IF outer = <<>>
       THEN /\ parents' = outer
            /\ rootMeta' = Len(entries')
       ELSE /\ parents' = [outer EXCEPT ![Len(outer)] =
                 WithChild(@, folder.info, ChildAt(folder.name, TRUE, Len(entries')))]
            /\ UNCHANGED rootMeta
  /\ UNCHANGED <<options, listing, item, pc>>

(* recount_children: each open folder counts the entry. *)
Counted(r) ==
  IF ~options.recount THEN parents
  ELSE [i \in DOMAIN parents |->
          IF r.isDir THEN [parents[i] EXCEPT !.info.folders = @ + 1]
                     ELSE [parents[i] EXCEPT !.info.files = @ + 1]]

(* The counts in a folder's record are dropped whatever the options say.   *)
AddFolder ==
  /\ pc = "adding"
  /\ Len(parents) = Kept
  /\ item.isDir
  /\ parents' = Append(Counted(item),
       [name |-> Last(item.path), info |-> WithoutSize(WithoutCounts(InfoOf(item))),
        children |-> <<>>])
  /\ pc' = "reading"
  /\ item' = NoItem
  /\ UNCHANGED <<options, listing, entries, rootMeta>>

AddFile ==
  /\ pc = "adding"
  /\ Len(parents) = Kept
  /\ ~item.isDir
  /\ entries' = Append(entries, [info |-> InfoOf(item), children |-> <<>>])
  /\ parents' = [Counted(item) EXCEPT ![Len(parents)] =
       WithChild(@, item, ChildAt(Last(item.path), FALSE, Len(entries')))]
  /\ pc' = "reading"
  /\ item' = NoItem
  /\ UNCHANGED <<options, listing, rootMeta>>

Built ==
  /\ pc = "finishing"
  /\ parents = <<>>
  /\ pc' = "built"
  /\ UNCHANGED <<options, listing, parents, entries, rootMeta, item>>

BuildNext ==
  \/ \E r \in Records(Paths) : Read(r) \/ Panic(r)
  \/ EndOfRecords \/ FinishFolder \/ AddFolder \/ AddFile \/ Built

-------------------------------------------------------------------------------
IndexTypeOK ==
  /\ options \in Options
  /\ listing \in Seq(Records(Paths \cup {<<>>}))
  /\ parents \in Seq([name : Names \cup {"root"}, info : Info, children : Seq(Child)])
  /\ entries \in Seq([info : Info, children : Seq(Child)])
  /\ rootMeta \in Nat
  /\ item \in Records(Paths) \cup {NoItem}
  /\ pc \in {"reading", "adding", "finishing", "built", "panicked"}

===============================================================================
