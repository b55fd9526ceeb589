------------------------------- MODULE FsCursor -------------------------------
(***************************************************************************)
(* fs_index.rs, FsCursor and the two iterators that use it: FsIndexToCsv   *)
(* and FsIndexToQDirStat.  A cursor walks through the index that FsIndex   *)
(* builds; the index no longer changes.                                    *)
(*                                                                         *)
(* The full path is the sequence of names after the root's.  Left out are  *)
(* case-sensitive search, which nothing turns on, and the dot that is      *)
(* appended to file names without an extension: always in the CSV output   *)
(* of a backup and, by an option, in both cursors of the diff command.     *)
(***************************************************************************)
EXTENDS FsIndex

CONSTANTS Wanted, \* names that are searched
          Fold    \* what UniCase compares of a name

ASSUME CursorAssumption == DOMAIN Fold = Names \cup Wanted

VARIABLES cursor,   \* FsCursor
          user,     \* what uses the cursor
          nextFile, \* next_file_index + 1, Unset for None
          output    \* what the iterator has produced

cursorVars == <<cursor, user, nextFile, output>>
vars == <<indexVars, cursorVars>>

WantedPaths == UNION {[1..n -> Wanted] : n \in 0..MaxDepth}

(* A FsEntryId is the place of a name: a metadata record's position and    *)
(* which of its children the name is for.                                  *)
Root == [folder |-> 0, child |-> 0]
NoEntry == [folder |-> 0, child |-> 1]

Meta(e) == IF e = Root THEN rootMeta ELSE entries[e.folder].children[e.child].meta
FileName(e) == entries[e.folder].children[e.child].name
Children(e) ==
  [i \in DOMAIN entries[Meta(e)].children |-> [folder |-> Meta(e), child |-> i]]
IsFolder(e) == entries[Meta(e)].info.isDir

Cleared == [parents |-> <<>>, cached |-> <<>>, current |-> NoEntry, path |-> <<>>]

AtRoot ==
  [Cleared EXCEPT
     !.current = Root,
     !.parents = <<[id |-> Root, next |-> 1, cacheStart |-> 0, pathLen |-> 0]>>]

-------------------------------------------------------------------------------
SelectChild(c, e) ==
  LET path == Append(c.path, FileName(e)) IN
  [c EXCEPT
     !.current = e,
     !.path = path,
     !.parents = IF IsFolder(e)
                   THEN Append(@, [id |-> e, next |-> 1, cacheStart |-> Len(c.cached),
                                   pathLen |-> Len(path)])
                   ELSE @]

SelectFolder(c) ==
  IF c.parents = <<>>
    THEN Cleared
    ELSE [c EXCEPT !.current = Last(c.parents).id,
                   !.path = SubSeq(@, 1, Last(c.parents).pathLen)]

(* Mutant: what was cached for the closed folders stays. *)
ClosedKeepingCache(c, n) == [c EXCEPT !.parents = SubSeq(@, 1, n)]

(* The parents after the n-th and what was cached for them are dropped. *)
Closed(c, n) ==
  IF n < Len(c.parents)
    THEN [c EXCEPT !.cached = SubSeq(@, 1, c.parents[n + 1].cacheStart),
                   !.parents = SubSeq(@, 1, n)]
    ELSE c

(* go_to_parent_at_index, counted from 1: nothing if that is the last. *)
GoToParent(c, n) == IF n < Len(c.parents) THEN SelectFolder(Closed(c, n)) ELSE c

(* Mutant: after the last child of a folder comes nothing. *)
AdvanceInFolder(c) ==
  LET n == Len(c.parents)
      in == SelectFolder(c) IN
  IF n = 0 \/ c.parents[n].next \notin DOMAIN Children(c.parents[n].id)
    THEN Cleared
    ELSE SelectChild([in EXCEPT !.parents[n].next = @ + 1],
                     Children(in.current)[in.parents[n].next])

(* Folders without a next child are popped; without a root left the cursor *)
(* is cleared.                                                             *)
Advance(c) ==
  LET unfinished == {i \in DOMAIN c.parents :
                       c.parents[i].next \in DOMAIN Children(c.parents[i].id)} IN
  IF unfinished = {}
    THEN Cleared
    ELSE LET n == Max(unfinished)
             in == SelectFolder(Closed(c, n)) IN
         SelectChild([in EXCEPT !.parents[n].next = @ + 1],
                     Children(in.current)[in.parents[n].next])

InFolder(c) == c.parents # <<>> /\ Last(c.parents).id = c.current

(* current_folder_children fills the cache for the selected folder. *)
WithCache(c) ==
  IF InFolder(c) /\ Len(c.cached) = Last(c.parents).cacheStart
    THEN [c EXCEPT !.cached = @ \o Children(c.current)]
    ELSE c

FolderChildren(c) ==
  LET d == WithCache(c) IN
  IF InFolder(c) THEN SubSeq(d.cached, Last(d.parents).cacheStart + 1, Len(d.cached)) ELSE <<>>

(* select_child_by_name selects the first child with that name. *)
SelectByName(c, n) ==
  LET matching == {i \in DOMAIN FolderChildren(c) :
                     Fold[FileName(FolderChildren(c)[i])] = Fold[n]} IN
  IF matching = {}
    THEN [found |-> FALSE, cursor |-> WithCache(c)]
    ELSE [found |-> TRUE,
          cursor |-> SelectChild(WithCache(c), FolderChildren(c)[Min(matching)])]

(* Mutant: the names of the folders that the cursor is in are not compared. *)
OpenFoldersOf(c, p) == Min({Len(p), Len(c.parents) - 1})

(* How many names of the path lead to folders that the cursor is in. *)
OpenFolders(c, p) ==
  Max({n \in 0..Min({Len(p), Len(c.parents) - 1}) :
         \A i \in 1..n : Fold[p[i]] = Fold[FileName(c.parents[i + 1].id)]})

(* go_to_path for a path below the root: from the deepest folder in common *)
(* the other names are searched one by one, up to one that is not found.   *)
GoToPath(c, p) ==
  LET n == OpenFolders(c, p)
      go[i \in n..Len(p)] ==
        IF i = n
          THEN [found |-> TRUE, cursor |-> GoToParent(SelectFolder(c), n + 1)]
          ELSE IF go[i - 1].found THEN SelectByName(go[i - 1].cursor, p[i]) ELSE go[i - 1] IN
  IF c.parents = <<>> THEN [found |-> FALSE, cursor |-> c] ELSE go[Len(p)]

-------------------------------------------------------------------------------
CursorInit ==
  /\ Init
  /\ cursor = Cleared
  /\ user = "none"
  /\ nextFile = Unset
  /\ output = <<>>

(* set_root, by one of the iterators or by code that navigates: mount and  *)
(* diff, which build the index of a CSV file with the default options.     *)
SetRoot ==
  /\ pc = "built"
  /\ user = "none"
  /\ cursor' = AtRoot
  /\ user' \in {"csv", "qdirstat", "qdirstat at /", "navigation"}
  /\ user' = "navigation" => TRUE \notin {options.recount, options.recalculate, options.resort}
  /\ UNCHANGED <<nextFile, output>>

Navigate ==
  /\ user = "navigation"
  /\ \/ cursor' = Advance(cursor)
     \/ cursor' = WithCache(cursor)
     \/ \E n \in Wanted : cursor' = SelectByName(cursor, n).cursor
     \/ \E n \in 1..MaxDepth : cursor' = GoToParent(cursor, n)
     \/ \E p \in WantedPaths : cursor' = GoToPath(cursor, p).cursor
  /\ UNCHANGED <<user, nextFile, output>>

Selected ==
  LET info == entries[Meta(cursor.current)].info IN
  [path |-> cursor.path, isDir |-> info.isDir, size |-> info.size, files |-> info.files,
   folders |-> info.folders]

(* FsIndexToCsv::next. *)
CsvNext ==
  /\ user = "csv"
  /\ cursor.current # NoEntry
  /\ output' = Append(output, Selected)
  /\ cursor' = Advance(cursor)
  /\ UNCHANGED <<user, nextFile>>

(* The caller may give a root path, and it may be a separator alone. *)
IsQDirStat == user \in {"qdirstat", "qdirstat at /"}

(* Mutant: folders are not left out. *)
QDirStatEntry ==
  LET children == FolderChildren(cursor) IN
  /\ IsQDirStat
  /\ nextFile \in DOMAIN children
  /\ nextFile' = nextFile + 1
  /\ cursor' = WithCache(cursor)
  /\ output' = Append(output, [isDir |-> FALSE, path |-> <<FileName(children[nextFile])>>])
  /\ UNCHANGED user

(* FsIndexToQDirStat::next, one round of its loop: a line for each file in *)
(* the folder that had the last line,                                      *)
QDirStatFile ==
  LET children == FolderChildren(cursor) IN
  /\ IsQDirStat
  /\ nextFile \in DOMAIN children
  /\ nextFile' = nextFile + 1
  /\ cursor' = WithCache(cursor)
  /\ output' = IF IsFolder(children[nextFile]) THEN output
               ELSE Append(output, [isDir |-> FALSE, path |-> <<FileName(children[nextFile])>>])
  /\ UNCHANGED user

(* A root path without names is no line, nor are the files in it. *)
HasLine(path) == path # <<>> \/ user # "qdirstat at /"

(* then the next folder in the cursor's order. *)
QDirStatFolder ==
  LET next == IF nextFile = Unset THEN cursor ELSE Advance(WithCache(cursor)) IN
  /\ IsQDirStat
  /\ nextFile \notin DOMAIN FolderChildren(cursor)
  /\ cursor.current # NoEntry
  /\ IF next.current # NoEntry /\ IsFolder(next.current) /\ HasLine(next.path)
       THEN /\ cursor' = next
            /\ nextFile' = 1
            /\ output' = Append(output, [isDir |-> TRUE, path |-> next.path])
       ELSE /\ cursor' = Advance(next)
            /\ nextFile' = Unset
            /\ UNCHANGED output
  /\ UNCHANGED user

CursorNext == SetRoot \/ Navigate \/ CsvNext \/ QDirStatFile \/ QDirStatFolder

Next ==
  \/ BuildNext /\ UNCHANGED cursorVars
  \/ CursorNext /\ UNCHANGED indexVars

Spec == CursorInit /\ [][Next]_vars

-------------------------------------------------------------------------------
TypeOK ==
  /\ IndexTypeOK
  /\ user \in {"none", "csv", "qdirstat", "qdirstat at /", "navigation"}
  /\ nextFile \in Nat
  /\ DOMAIN cursor = DOMAIN Cleared
  /\ cursor.path \in Paths \cup {<<>>}

CsvDone == user = "csv" /\ cursor.current = NoEntry
Below(p, q) == IsStrictPrefix(p, q)

(* "Reconstruct CSV records from the filesystem index": of each entry that *)
(* was read there is one record, and a file has the size it had; if the    *)
(* index was not resorted they come in the order in which they were read.  *)
CsvKeepsEntries ==
  CsvDone =>
    /\ Len(output) = Len(listing)
    /\ \A r \in Range(listing) : \E s \in Range(output) :
         s.path = r.path /\ s.isDir = r.isDir /\ (~r.isDir => s.size = r.size)
    /\ ~options.resort => \A i \in DOMAIN listing : output[i].path = listing[i].path

(* resort: "alphabetically but with folders before files" in each folder,  *)
(* and the records still come folder by folder, as from_csv_records        *)
(* demands of what it reads.                                               *)
CsvSorted ==
  CsvDone =>
    \A i, j \in DOMAIN output :
      i < j =>
        /\ Below(output[i].path, output[j].path) =>
             \A k \in i + 1..j : Below(output[i].path, output[k].path)
        /\ options.resort /\ output[i].path # <<>> /\ Front(output[i].path) = Front(output[j].path)
             => LET entry(r) == [name |-> Last(r.path), isDir |-> r.isDir] IN
                ~Precedes(entry(output[j]), entry(output[i]))

(* recount_children: "Recalculate the number of children inside each       *)
(* directory": a folder counts what is in it and in its folders.           *)
CsvRecounted ==
  CsvDone /\ options.recount =>
    \A r \in Range(output) :
      LET below == {s \in Range(listing) : Below(r.path, s.path)} IN
      r.isDir => /\ r.files = Cardinality({s \in below : ~s.isDir})
                 /\ r.folders = Cardinality({s \in below : s.isDir})

(* recalculate_folder_size: "Recalculate the total size for folders": a    *)
(* folder is as large as all the files in it and in its folders.           *)
CsvRecalculated ==
  CsvDone /\ options.recalculate =>
    \A r \in Range(output) :
      r.isDir => r.size = MapThenSumSet(LAMBDA s : s.size,
                   {s \in Range(listing) : ~s.isDir /\ Below(r.path, s.path)})

(* An index gives its listing back as CSV, with the counts, sizes and order *)
(* that the options ask for.                                                *)
CsvGivesListing == CsvKeepsEntries /\ CsvSorted /\ CsvRecounted /\ CsvRecalculated

(* Each file of the listing has one line, after the line of the folder     *)
(* that it is in, and each folder has one line.  Only a root whose path is *)
(* a separator alone has none, and neither have the files right in it.     *)
QDirStatComplete ==
  LET folderOf(i) == Max({j \in 1..i : output[j].isDir})
      entryAt(i) == IF output[i].isDir THEN output[i]
                    ELSE [isDir |-> FALSE, path |-> output[folderOf(i)].path \o output[i].path]
      listed == {r \in Range(listing) : \/ user = "qdirstat"
                                        \/ Len(r.path) > (IF r.isDir THEN 0 ELSE 1)} IN
  IsQDirStat /\ cursor.current = NoEntry =>
    /\ Len(output) = Cardinality(listed)
    /\ {entryAt(i) : i \in DOMAIN output} = {[isDir |-> r.isDir, path |-> r.path] : r \in listed}

(* cached_children is never stale: for each folder that the cursor is in   *)
(* it has nothing or all of the children, in the order of the folders.     *)
CacheMatchesFolders ==
  LET ends(i) == IF i = Len(cursor.parents) THEN Len(cursor.cached)
                 ELSE cursor.parents[i + 1].cacheStart
      part(i) == SubSeq(cursor.cached, cursor.parents[i].cacheStart + 1, ends(i)) IN
  /\ cursor.parents = <<>> => cursor.cached = <<>>
  /\ \A i \in DOMAIN cursor.parents :
       /\ i = 1 => cursor.parents[i].cacheStart = 0
       /\ part(i) \in {<<>>, Children(cursor.parents[i].id)}

(* full_path, which is cut and appended to, is the path that the selected  *)
(* entry had in the listing.                                               *)
PathMatchesEntry ==
  cursor.current # NoEntry =>
    LET names == [i \in 1..Len(cursor.parents) - 1 |-> FileName(cursor.parents[i + 1].id)] IN
    /\ cursor.path = IF InFolder(cursor) THEN names ELSE Append(names, FileName(cursor.current))
    /\ \E r \in Range(listing) : r.path = cursor.path /\ r.isDir = IsFolder(cursor.current)

(* What a cursor keeps besides its position never contradicts it, whatever *)
(* the moves.                                                              *)
CursorConsistent == TypeOK /\ CacheMatchesFolders /\ PathMatchesEntry

(* go_to_path starts from wherever the cursor is.  It finds a path if and  *)
(* only if the listing has it, up to case, and selects that entry, as long *)
(* as case tells no two names of a folder apart.                           *)
GoToPathFindsEntry ==
  LET folded(p) == [i \in DOMAIN p |-> Fold[p[i]]]
      twins == \E r, s \in Range(listing) : r.path # s.path /\ folded(r.path) = folded(s.path) IN
  user = "navigation" /\ cursor.parents # <<>> /\ ~twins =>
    \A p \in WantedPaths :
      LET found == {r \in Range(listing) : folded(r.path) = folded(p)}
          result == GoToPath(cursor, p) IN
      /\ result.found <=> found # {}
      /\ \A r \in found : result.cursor.path = r.path
===============================================================================
