----------------------------- MODULE BackupCommand -----------------------------
(***************************************************************************)
(* The backup command (backup.rs, backup/mft.rs): the records of the MFT   *)
(* are gathered in a map and listed depth first, or the folders are walked *)
(* through with jwalk when the command may not read the MFT.  The backup   *)
(* command that eDirStat scans for (embedded_edirstat_backup.rs) lists the *)
(* nodes of a snapshot.  The builder of FsIndex pulls one record of that   *)
(* listing after the other; the index is then written to the output, which *)
(* was emptied before the scan.                                            *)
(*                                                                         *)
(* A request to cancel may arrive between any two steps.  Metadata (sizes, *)
(* dates, attributes and where they are asked for) is left out: no guard   *)
(* depends on it, and FsIndex has what the builder makes of sizes.         *)
(***************************************************************************)
EXTENDS FsIndex, FiniteSets

CONSTANTS Total,    \* bound: records in the MFT
          Root,     \* the record of the root folder
          Retries,  \* retries in scan_using_mft
          MaxTree,  \* bound: files and folders below the folder walked through
          Blank,    \* a name of white space
          Split     \* what splitting at '/' and '\' makes of each name, "" where
                    \* nothing is between two of them: <<n>> if n has none

Numbers == 0..Total - 1

ASSUME BackupAssumption ==
  /\ Total \in Nat /\ Root \in Numbers
  /\ 0 \in Sizes
  /\ Retries \in Nat \ {0} /\ MaxTree \in Nat
  /\ Blank \in Names /\ "root" \notin Names

ASSUME SplitAssumption ==
  /\ "" \notin Names
  /\ Split \in [Names -> Seq(Names \cup {""}) \ {<<>>}]
  /\ Split[Blank] = <<Blank>>

VARIABLES phase,    \* where the command is
          result,   \* how it ended
          canceled, \* CancelSignal
          output,   \* what the output file holds
          attempt,
          record,   \* the record of the MFT that is read next
          gathered, \* the entries that entry_map was filled with
          left,     \* the keys that entry_map still has
          children, \* lookup_children
          open,     \* parents in the iterator over the records
          tree,     \* external: what is on the disk, folders TRUE and files FALSE
          found,    \* external: what of it jwalk or eDirStat finds
          walked,   \* what of that has been visited
          trail,    \* the folder that is visited
          misrooted \* the record of the folder that is walked through is left out

mftVars == <<attempt, record, gathered, left, children, open>>
walkVars == <<tree, found, walked, trail, misrooted>>
vars == <<indexVars, phase, result, canceled, output, mftVars, walkVars>>

AllOptions == [recount |-> TRUE, recalculate |-> TRUE, resort |-> TRUE]

(* What a record of the MFT may say; the root is in itself. *)
EntriesOf(n) ==
  IF n = Root THEN {[name |-> "root", parent |-> Root, isDir |-> TRUE]}
  ELSE [name : Names, parent : Numbers, isDir : BOOLEAN]

(* A folder contains what is in it, and jwalk lists no folder twice. *)
Trees ==
  UNION {{t \in [P -> BOOLEAN] :
            \A p \in P : Len(p) > 1 => Front(p) \in P /\ t[Front(p)]} :
         P \in {Q \in SUBSET Paths : Cardinality(Q) <= MaxTree}}

BackupInit ==
  /\ options = AllOptions
  /\ listing = <<>> /\ parents = <<>> /\ entries = <<>>
  /\ rootMeta = Unset /\ item = NoItem /\ pc = "reading"
  /\ phase = "start" /\ result = "running" /\ output = "old"
  /\ canceled = FALSE
  /\ attempt = 0 /\ record = 0
  /\ gathered = <<>> /\ left = {} /\ children = <<>> /\ open = <<>>
  /\ tree = <<>> /\ found = {} /\ walked = {} /\ trail = <<>> /\ misrooted = FALSE

RecordOf(path, isDir) ==
  [path |-> path, isDir |-> isDir, size |-> 0, files |-> 0, folders |-> 0]

(* Paths are strings, which the builder splits at both separators.  A path *)
(* of whole names is split where the names were joined.                    *)
Whole(name) == Split[name] = <<name>>

NotEmpty(piece) == piece # ""

Cut(path) ==
  IF \A i \in DOMAIN path : Whole(path[i]) THEN path
  ELSE SelectSeq(FlattenSeq([i \in DOMAIN path |-> Split[path[i]]]), NotEmpty)

(* from_csv_record: what ends with a separator is a folder. *)
Closed(name) == Last(Split[name]) = ""

(* The index is created with the folder of the root. *)
OpenIndex ==
  LET r == RecordOf(<<>>, TRUE) IN
  /\ listing' = <<r>>
  /\ parents' = <<RootFolder(options, r)>>
  /\ UNCHANGED <<options, entries, rootMeta, item, pc>>

End(how) ==
  /\ phase' = "ended"
  /\ result' = how

Continue(next) ==
  /\ phase' = next
  /\ UNCHANGED result

(* Ctrl+C, at any time. *)
Cancel ==
  /\ result = "running"
  /\ ~canceled
  /\ canceled' = TRUE
  /\ UNCHANGED <<indexVars, phase, result, output, mftVars, walkVars>>

(* Without admin rights the slow walk must be asked for or be allowed. *)
Refused ==
  /\ phase = "start"
  /\ End("error")
  /\ UNCHANGED <<indexVars, canceled, output, mftVars, walkVars>>

(* create_file empties an output that may be overwritten.  A path that is  *)
(* not on an NTFS volume is an error, and so is a busy pool of jwalk; one  *)
(* that is not there, or is no folder, is walked through as an empty tree. *)
CreateOutput ==
  /\ phase = "start"
  /\ output' = "empty"
  /\ \/ Continue("attempt") /\ UNCHANGED walkVars
     \/ /\ Continue("walk") \/ Continue("traversal")
        /\ tree' \in Trees
        /\ found' = DOMAIN tree'
        /\ UNCHANGED <<walked, trail, misrooted>>
     \/ End("error") /\ UNCHANGED walkVars
  /\ UNCHANGED <<indexVars, canceled, mftVars>>

-------------------------------------------------------------------------------
(* scan_using_mft and parse_mft: the records are read into entry_map. *)

(* attempt + 1 == retries *)
GivesUp(n) == n + 1 = Retries

(* The loop over the attempts ends after retries + 1 of them. *)
AttemptFailed ==
  IF GivesUp(attempt)     THEN End("error") /\ UNCHANGED attempt
  ELSE IF attempt = Retries THEN End("unreachable") /\ UNCHANGED attempt
  ELSE attempt' = attempt + 1 /\ Continue("attempt")

(* The file is opened; its header and the bitmap are read. *)
StartAttempt ==
  /\ phase = "attempt"
  /\ \/ End("error") /\ UNCHANGED attempt
     \/ ~canceled /\ AttemptFailed
     \/ ~canceled /\ Continue("records") /\ UNCHANGED attempt
  /\ record' = 0
  /\ gathered' = <<>>
  /\ UNCHANGED <<indexVars, canceled, output, left, children, open, walkVars>>

(* A record that cannot be read, is not in use or has no name is skipped.  *)
Gather ==
  /\ phase = "records" /\ record < Total
  /\ ~canceled
  /\ record' = record + 1
  /\ \/ UNCHANGED gathered
     \/ \E e \in EntriesOf(record) :
          gathered' = [n \in DOMAIN gathered \cup {record} |->
                         IF n = record THEN e ELSE gathered[n]]
  /\ UNCHANGED <<indexVars, phase, result, canceled, output, attempt, left,
                 children, open, walkVars>>

CanceledInRecords ==
  /\ phase = "records" /\ record < Total
  /\ canceled
  /\ AttemptFailed
  /\ UNCHANGED <<indexVars, canceled, output, record, gathered, left, children,
                 open, walkVars>>

(* Mutant: the names of the children are not compared. *)
AllChildren(s) == {}

(* "Fix duplicate records": of the children with the same name only the    *)
(* last one in the order of the map remains.                               *)
Removed(s) ==
  {s[i] : i \in {i \in DOMAIN s : \E j \in i + 1..Len(s) :
                   gathered[s[i]].name = gathered[s[j]].name}}

(* lookup_children in the order of the map, which may be any. *)
ChildrenIn(order) ==
  LET pushed[i \in 0..Len(order)] ==
        IF i = 0 THEN [n \in Numbers |-> <<>>]
        ELSE [pushed[i - 1] EXCEPT
                ![gathered[order[i]].parent] = Append(@, order[i])] IN
  pushed[Len(order)]

(* The record of the root is taken out of the map, whatever the map holds. *)
(* The counters of the loops go out of scope.                              *)
FixDuplicates ==
  /\ phase = "records" /\ record = Total
  /\ \E order \in SetToSeqs(DOMAIN gathered) :
       LET lookup == ChildrenIn(order)
           removed == UNION {Removed(lookup[n]) : n \in Numbers} IN
       IF Root \in DOMAIN gathered \ removed
       THEN /\ children' = lookup
            /\ left' = DOMAIN gathered \ (removed \cup {Root})
            /\ open' = <<[path |-> <<>>, rest |-> lookup[Root]]>>
            /\ Continue("listing")
            /\ OpenIndex
       ELSE /\ End("no root")
            /\ UNCHANGED <<children, left, open, indexVars>>
  /\ attempt' = 0 /\ record' = 0
  /\ UNCHANGED <<canceled, output, gathered, walkVars>>

-------------------------------------------------------------------------------
(* The iterator over the records, one round of its loop in each action. *)

(* Mutant: records of files are not turned into folders. *)
IsFolderOfNtfs(id) == gathered[id].isDir

(* What has children is a folder. *)
IsFolder(id) == gathered[id].isDir \/ children[id] # <<>>

Rounds(isLast) ==
  /\ phase = "listing" /\ pc = "reading"
  /\ ~canceled
  /\ open # <<>>
  /\ isLast = (Last(open).rest = <<>>)

LeaveOpen ==
  /\ Rounds(TRUE)
  /\ open' = Front(open)
  /\ UNCHANGED <<indexVars, phase, result, canceled, output, attempt, record,
                 gathered, left, children, walkVars>>

AfterFirst == [open EXCEPT ![Len(open)].rest = Tail(@)]

SkipRemoved ==
  /\ Rounds(FALSE)
  /\ Head(Last(open).rest) \notin left
  /\ open' = AfterFirst
  /\ UNCHANGED <<indexVars, phase, result, canceled, output, attempt, record,
                 gathered, left, children, walkVars>>

(* The builder takes the record, or panics.  Nothing comes of a path that  *)
(* has no pieces.                                                          *)
Hand(r) ==
  /\ IF r.path = <<>> THEN UNCHANGED indexVars ELSE Take(r)
  /\ UNCHANGED <<phase, result>>
HandWrong(r) == Refuse(r) /\ End("not in open folder")

ListChild ==
  /\ Rounds(FALSE)
  /\ LET id == Head(Last(open).rest)
         name == gathered[id].name
         path == Append(Last(open).path, name)
         r == RecordOf(Cut(path), IsFolder(id) \/ Closed(name)) IN
     /\ id \in left
     /\ left' = left \ {id}
     /\ open' = IF children[id] = <<>> THEN AfterFirst
                ELSE Append(AfterFirst, [path |-> path, rest |-> children[id]])
     /\ Hand(r) \/ HandWrong(r)
  /\ UNCHANGED <<canceled, output, attempt, record, gathered, children, walkVars>>

(* The iterator ends when nothing is left, or without a word when canceled. *)
EndOfListing ==
  /\ phase = "listing"
  /\ open = <<>> \/ canceled
  /\ EndOfRecords
  /\ UNCHANGED <<phase, result, canceled, output, mftVars, walkVars>>

-------------------------------------------------------------------------------
(* scan_cross_platform: what cannot be read, or comes after a request to   *)
(* cancel, is left out of the listing.                                     *)

(* The first record is the root's, and must be that of a folder. *)
WalkRoot ==
  /\ phase = "walk" /\ ~canceled
  /\ \/ Continue("walking") /\ OpenIndex
     \/ tree = <<>> /\ End("root is a file") /\ UNCHANGED indexVars
  /\ UNCHANGED <<canceled, output, mftVars, walkVars>>

(* A request to cancel, a path that is not there or metadata that cannot   *)
(* be read: the record of the root is left out as any other.               *)
LeaveOutRoot ==
  /\ phase = "walk"
  /\ Continue("rootless")
  /\ misrooted' = TRUE
  /\ UNCHANGED <<indexVars, canceled, output, mftVars, tree, found, walked, trail>>

InFolder(p) == {q \in found : Len(q) = Len(p) + 1 /\ Front(q) = p}

(* A folder is gone into before the next entry; entries come in any order. *)
WalkNext(p) ==
  /\ pc = "reading"
  /\ p \in found \ walked
  /\ IsPrefix(Front(p), trail)
  /\ \A k \in Len(p)..Len(trail) : InFolder(SubSeq(trail, 1, k)) \subseteq walked
  /\ walked' = walked \cup {p}
  /\ trail' = IF tree[p] THEN p ELSE Front(p)
  /\ UNCHANGED <<canceled, output, mftVars, tree, found, misrooted>>

(* Its metadata is asked for after jwalk has read its folder, and may be   *)
(* gone; what jwalk has read inside of it still comes.                     *)
SkipEntry(p) ==
  /\ phase \in {"walking", "rootless"}
  /\ WalkNext(p)
  /\ UNCHANGED <<indexVars, phase, result>>

IsFolderPath(p) == tree[p] \/ Closed(Last(p))

(* Without the root's record the first one that comes is taken for it. *)
ListFirst(p) ==
  /\ phase = "rootless" /\ ~canceled
  /\ WalkNext(p)
  /\ IF IsFolderPath(p) THEN Continue("walking") /\ OpenIndex
                        ELSE End("root is a file") /\ UNCHANGED indexVars

(* from_csv_records panics without a record. *)
NoRecord ==
  /\ phase = "rootless"
  /\ walked = found \/ canceled
  /\ End("no record")
  /\ UNCHANGED <<indexVars, canceled, output, mftVars, walkVars>>

(* The rest of a path after as many characters as the root's has: what is  *)
(* not in the folder that was taken for the root loses part of a name, or  *)
(* all that it has.                                                        *)
RestsOf(p) ==
  {SubSeq(p, k, Len(p)) : k \in 1..Len(p) + 1}
    \cup {<<n>> \o SubSeq(p, k + 1, Len(p)) : n \in Names, k \in DOMAIN p}

ListEntry(p) ==
  /\ phase = "walking" /\ ~canceled
  /\ WalkNext(p)
  /\ \E rest \in IF misrooted THEN RestsOf(p) ELSE {p} :
       LET r == RecordOf(Cut(rest), IsFolderPath(p)) IN Hand(r) \/ HandWrong(r)

(* process_read_dir clears the folders that are read after the request. *)
EndOfWalk ==
  /\ phase \in {"walking", "nodes"}
  /\ walked = found \/ (phase = "walking" /\ canceled)
  /\ EndOfRecords
  /\ UNCHANGED <<phase, result, canceled, output, mftVars, walkVars>>

-------------------------------------------------------------------------------
(* edirstat_backup: a request to cancel ends the traversal, and what it    *)
(* has found so far is the snapshot; one before the traversal is an error, *)
(* and so is a traversal that finds nothing.                               *)
Traverse ==
  /\ phase = "traversal"
  /\ \/ End("error") /\ UNCHANGED <<indexVars, found>>
     \/ /\ Continue("nodes")
        /\ OpenIndex
        /\ found' \in {f \in SUBSET DOMAIN tree : \A p \in f : Len(p) > 1 => Front(p) \in f}
        /\ found' = DOMAIN tree \/ canceled
  /\ UNCHANGED <<canceled, output, mftVars, tree, walked, trail, misrooted>>

(* edirstat_snapshot_to_fs_index: a node without a name is "unknown"; one  *)
(* with a blank name gets that in addition to its name.  It panics at a    *)
(* name with a separator, so that those above it are whole.                *)
NodePath(p) == IF Last(p) = Blank THEN Append(p, "unknown") ELSE p

ListNode(p) ==
  /\ phase = "nodes"
  /\ WalkNext(p)
  /\ LET r == RecordOf(NodePath(p), tree[p]) IN
       IF Whole(Last(p)) THEN Hand(r) \/ HandWrong(r)
       ELSE End("separator") /\ UNCHANGED indexVars

-------------------------------------------------------------------------------
Build ==
  /\ phase \in {"listing", "walking", "nodes"}
  /\ FinishFolder \/ AddFolder \/ AddFile
  /\ UNCHANGED <<phase, result, canceled, output, mftVars, walkVars>>

StartWriting ==
  /\ phase \in {"listing", "walking", "nodes"}
  /\ Built
  /\ Continue("writing")
  /\ UNCHANGED <<canceled, output, mftVars, walkVars>>

(* Mutant: the output is not wrapped. *)
WritesOn == TRUE

(* wrap_io: a write fails after a request to cancel. *)
MayWrite == ~canceled

WriteSome ==
  /\ phase = "writing" /\ output # "partial"
  /\ MayWrite
  /\ output' = "partial"
  /\ UNCHANGED <<indexVars, phase, result, canceled, mftVars, walkVars>>

WriteFails ==
  /\ phase = "writing"
  /\ output' \in {output, "partial"}
  /\ End("error")
  /\ UNCHANGED <<indexVars, canceled, mftVars, walkVars>>

(* The end of a compressed output is written when the encoder is dropped,  *)
(* where an error is lost.                                                 *)
WriteRest ==
  /\ phase = "writing"
  /\ MayWrite
  /\ \E compressed, dropped \in BOOLEAN :
       output' = IF compressed /\ ~dropped THEN "without trailer" ELSE "complete"
  /\ End("ok")
  /\ UNCHANGED <<indexVars, canceled, mftVars, walkVars>>

Ended == phase = "ended" /\ UNCHANGED vars

Next ==
  \/ Cancel \/ Refused \/ CreateOutput
  \/ StartAttempt \/ Gather \/ CanceledInRecords \/ FixDuplicates
  \/ LeaveOpen \/ SkipRemoved \/ ListChild \/ EndOfListing
  \/ WalkRoot \/ LeaveOutRoot \/ NoRecord \/ Traverse
  \/ \E p \in found : SkipEntry(p) \/ ListFirst(p) \/ ListEntry(p) \/ ListNode(p)
  \/ EndOfWalk
  \/ Build \/ StartWriting \/ WriteSome \/ WriteFails \/ WriteRest
  \/ Ended

Spec == BackupInit /\ [][Next]_vars

-------------------------------------------------------------------------------
Listed == {listing[i].path : i \in 2..Len(listing)}

(* The records from one in the root to another inside of it. *)
Chains ==
  {c \in UNION {[1..n -> DOMAIN gathered \ {Root}] : n \in 1..Total - 1} :
     /\ gathered[c[1]].parent = Root
     /\ \A i \in 2..Len(c) : gathered[c[i]].parent = c[i - 1]}

PathOf(c) == [i \in DOMAIN c |-> gathered[c[i]].name]

HasNamesake(id) ==
  \E other \in DOMAIN gathered \ {id} :
    /\ gathered[other].name = gathered[id].name
    /\ gathered[other].parent = gathered[id].parent

Complete ==
  IF children = <<>>
  THEN Listed \subseteq {Cut(p) : p \in DOMAIN tree} /\ walked = DOMAIN tree
  ELSE /\ Listed \subseteq {Cut(PathOf(c)) : c \in Chains}
       /\ \A c \in Chains :
            \/ Cut(PathOf(c)) \in Listed \cup {<<>>}
            \/ \E i \in 1..Len(c) - 1 : HasNamesake(c[i])

(* A backup that succeeds lists no path that is not in the file system,    *)
(* and has looked at each one that is: a scan that a request to cancel has *)
(* cut short is never reported as a success.  Of the MFT only what is in a *)
(* folder with the name of another may be lost, and of a walk only what    *)
(* cannot be read.  What has a separator in its name is listed at the path *)
(* that it splits into.  The walk whose own folder cannot be read, while   *)
(* what is inside of it can, is the exception: another folder is taken for *)
(* the root.                                                               *)
SuccessListsEverything == result = "ok" /\ ~misrooted => Complete

(* All names on the disk are without separators. *)
WholeNames ==
  /\ \A id \in DOMAIN gathered \ {Root} : Whole(gathered[id].name)
  /\ \A p \in DOMAIN tree : \A i \in DOMAIN p : Whole(p[i])

(* No path is listed twice, whatever parents the records of the MFT have,  *)
(* the root's inside of itself included, and whatever names, as long as no *)
(* separator is in one of them: the builder, and the cursors of the index, *)
(* take that for granted.                                                  *)
NothingListedTwice ==
  WholeNames /\ ~misrooted =>
    \A i, j \in DOMAIN listing : listing[i].path = listing[j].path => i = j

(* Where the command may panic: the record of the root was not gathered;   *)
(* all records of a walk were left out, after a request to cancel or       *)
(* because the path is not there; the path is a file, or the first record  *)
(* of a walk without the root's is that of one; a node of eDirStat has a   *)
(* blank name, or a separator in its name; and the builder refuses a path  *)
(* if the walk left out a folder but not what is inside, if a name has     *)
(* separators, or if another folder was taken for the root.  It takes each *)
(* listing of the MFT with whole names, and the loop over the attempts     *)
(* never ends by itself.                                                   *)
PanicsOnlyThere ==
  /\ result # "unreachable"
  /\ result = "no root" => Root \notin DOMAIN gathered
  /\ result = "no record" => misrooted /\ (canceled \/ walked = DOMAIN tree)
  /\ result = "root is a file" =>
       tree = <<>> \/ (misrooted /\ \E p \in walked : ~tree[p])
  /\ result = "separator" => \E p \in walked : ~Whole(Last(p))
  /\ result = "not in open folder" =>
       \/ \E p \in walked \ Listed, q \in walked : tree[p] /\ IsStrictPrefix(p, q)
       \/ \E p \in walked : Last(p) = Blank
       \/ misrooted \/ ~WholeNames
===============================================================================
