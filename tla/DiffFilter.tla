------------------------------ MODULE DiffFilter ------------------------------
(***************************************************************************)
(* diff.rs: two indexes are built, first the old one, and filter_fs_index  *)
(* removes from the new one what the filter leaves out, in place, while a  *)
(* cursor walks through it and another one looks paths up in the old one.  *)
(*                                                                         *)
(* The variables of FsIndex hold the index that is built, then the new one *)
(* that is filtered.  A size stands for all the metadata of a file; of a   *)
(* folder the rest, its date and attributes, is the same as before or not. *)
(* Of the widths that numbers are stored in there are two, one byte and    *)
(* more.                                                                   *)
(***************************************************************************)
EXTENDS FsIndex

CONSTANTS Fold,     \* what UniCase compares of a name
          OneByte,  \* the largest number that is stored in one byte
          RootSize, \* bound: the size that a root's record gives
          MaxOld    \* bound: records after the root's in the old listing

VARIABLES old,    \* the old index and the listing that it was built from
          filter, \* DiffFilter, unset until the walk, the first that looks at it
          redated,\* paths of the folders that have another date or other attributes
                  \* than the old index has for them, as "new-or-changed" finds them
          phase,
          here,   \* new_cursor
          there,  \* old_cursor
          open    \* parents in filter_fs_index: folders not yet left

diffVars == <<old, filter, redated, phase, here, there, open>>
vars == <<indexVars, diffVars>>

ASSUME DiffAssumption ==
  /\ DOMAIN Fold = Names
  /\ OneByte \in Nat
  /\ MaxOld \in Nat
  /\ RootSize \in Sizes

(* Only the navigation of a cursor is used. *)
New == INSTANCE FsCursor
         WITH Wanted <- Names, cursor <- here, user <- "navigation", nextFile <- Unset,
              output <- <<>>
Old == INSTANCE FsCursor
         WITH Wanted <- Names, cursor <- there, user <- "navigation", nextFile <- Unset,
              output <- <<>>, entries <- old.entries, rootMeta <- old.rootMeta,
              listing <- old.listing

NoIndex == [entries |-> <<>>, rootMeta |-> Unset, listing |-> <<>>, options |-> options]
NotFound == [isDir |-> FALSE, size |-> 0, files |-> 0, folders |-> 0, children |-> 0 - 1]

(* The options for a CSV file and for a snapshot of eDirStat. *)
InputOptions == {o \in Options : o.recount = o.recalculate /\ o.recalculate = o.resort}

DiffInit ==
  /\ Init
  /\ options \in InputOptions
  /\ listing[1].size = RootSize
  /\ old = NoIndex
  /\ filter = "unset"
  /\ redated = {}
  /\ phase = "old"
  /\ here = New!Cleared
  /\ there = New!Cleared
  /\ open = <<>>

(* The metadata of an entry, the number of its children included. *)
MetadataOf(index, m) ==
  LET info == index[m].info IN
  [isDir |-> info.isDir, size |-> info.size, files |-> info.files, folders |-> info.folders,
   children |-> Len(index[m].children)]

-------------------------------------------------------------------------------
Build ==
  /\ phase \in {"old", "new"}
  /\ BuildNext
  /\ phase = "old" => Len(listing') <= MaxOld + 1
  /\ UNCHANGED diffVars

LoadNew ==
  /\ phase = "old"
  /\ pc = "built"
  /\ old' = [entries |-> entries, rootMeta |-> rootMeta, listing |-> listing, options |-> options]
  /\ options' \in InputOptions
  /\ \E r \in Records({<<>>}) :
       /\ r.isDir /\ r.size = RootSize
       /\ listing' = <<r>>
       /\ parents' = <<RootFolder(options', r)>>
  /\ entries' = <<>>
  /\ rootMeta' = Unset
  /\ item' = NoItem
  /\ pc' = "reading"
  /\ phase' = "new"
  /\ UNCHANGED <<filter, redated, here, there, open>>

(* The folders that are in both listings. *)
FoldersInBoth ==
  LET folded(q) == [i \in DOMAIN q |-> Fold[q[i]]]
      folders(records) == {r.path : r \in {s \in Range(records) : s.isDir /\ s.path # <<>>}} IN
  {p \in folders(listing) : \E q \in folders(old.listing) : folded(p) = folded(q)}

(* The new root is the first folder; its cursor goes on to the next entry. *)
StartWalk ==
  /\ phase = "new"
  /\ pc = "built"
  /\ phase' = "walk"
  /\ there' = Old!AtRoot
  /\ here' = New!Advance(New!AtRoot)
  /\ open' = <<[id |-> New!Root, info |-> MetadataOf(entries, rootMeta),
                old |-> MetadataOf(old.entries, old.rootMeta), redated |-> FALSE]>>
  /\ filter' \in {"new-or-larger", "new-or-changed"}
  /\ redated' \in IF filter' = "new-or-changed" THEN SUBSET FoldersInBoth ELSE {{}}
  /\ UNCHANGED <<indexVars, old>>

(* go_to_path for the path of the current entry, from wherever the old     *)
(* cursor is.                                                              *)
Lookup == Old!GoToPath(there, here.path)

OldInfo ==
  IF Lookup.found THEN MetadataOf(old.entries, Old!Meta(Lookup.cursor.current)) ELSE NotFound

IsAt(isDir) ==
  /\ phase = "walk"
  /\ here.current # New!NoEntry
  /\ New!IsFolder(here.current) = isDir

(* update_parents: the walk has left the last folder, either for one that  *)
(* is not inside of it or for its sibling.                                 *)
HasLeft(n) ==
  \/ Len(open) > n
  \/ Len(open) = n /\ open # <<>> /\ Last(open).id # here.current

(* Mutant: what the folder had is not a limit. *)
Unlimited(before, total) ==
  [before EXCEPT !.size = total.size, !.files = total.files, !.folders = total.folders]

(* "If the previous values was lower then the actual folder content *)
(* indicated then limit the update to the previous values".         *)
Limited(before, total) ==
  [before EXCEPT !.size = Min({@, total.size}), !.files = Min({@, total.files}),
                 !.folders = Min({@, total.folders})]

(* update_dyn_sized_int: a number that was stored in one byte stays there. *)
Fits(before, after) ==
  \A f \in {"size", "files", "folders"} : before[f] > OneByte \/ after[f] <= OneByte

Stored(m) == [isDir |-> m.isDir, size |-> m.size, files |-> m.files, folders |-> m.folders]

(* set_metadata_id(None). *)
Without(index, e) == [index EXCEPT ![e.folder].children[e.child].meta = Unset]

(* What is left in a folder, its children without metadata left out. *)
Remaining(index, m) ==
  {i \in DOMAIN index[m].children : index[m].children[i].meta # Unset}

Contents(index, m) ==
  LET rest == Remaining(index, m)
      info(i) == index[index[m].children[i].meta].info IN
  [size    |-> MapThenSumSet(LAMBDA i : info(i).size, rest),
   files   |-> MapThenSumSet(LAMBDA i : IF info(i).isDir THEN info(i).files ELSE 1, rest),
   folders |-> MapThenSumSet(LAMBDA i : IF info(i).isDir THEN 1 + info(i).folders ELSE 0, rest)]

(* Mutant: only sizes and counts are compared, not the whole metadata. *)
SumsOnly(folder) ==
  IF filter = "new-or-larger"
    THEN folder.old # NotFound
    ELSE folder.old.isDir /\ Stored(folder.old) = [Stored(NotFound) EXCEPT !.isDir = TRUE]

(* An empty folder goes if it was there before, or was there as it is: its *)
(* metadata, which has a size and counts of 0 by now, with its date and    *)
(* its attributes is that of an old folder without children.               *)
Droppable(folder) ==
  IF filter = "new-or-larger"
    THEN folder.old # NotFound
    ELSE /\ folder.old = [isDir |-> TRUE, size |-> 0, files |-> 0, folders |-> 0, children |-> 0]
         /\ folder.info.children = 0
         /\ ~folder.redated

(* One round of the loop in update_parents. *)
LeaveFolder(n) ==
  LET folder == Last(open)
      meta == New!Meta(folder.id)
      after == Limited(folder.info, Contents(entries, meta)) IN
  /\ HasLeft(n)
  /\ open' = Front(open)
  /\ IF Remaining(entries, meta) = {} /\ Len(open) > 1 /\ Droppable(folder)
       THEN /\ entries' = Without(entries, folder.id)
            /\ UNCHANGED phase
     ELSE IF Fits(entries[meta].info, after)
       THEN /\ entries' = [entries EXCEPT ![meta].info = Stored(after)]
            /\ UNCHANGED phase
       ELSE phase' = "panicked" /\ UNCHANGED entries
  /\ UNCHANGED <<options, listing, parents, rootMeta, item, pc, old, filter, redated, here, there>>

Leave == IsAt(TRUE) /\ LeaveFolder(Len(here.parents))

(* "can only add a single parent at a time". *)
EnterFolder ==
  LET n == Len(here.parents) IN
  /\ IsAt(TRUE)
  /\ ~HasLeft(n)
  /\ there' = Lookup.cursor
  /\ open' = Append(open, [id |-> here.current, old |-> OldInfo, redated |-> here.path \in redated,
                           info |-> MetadataOf(entries, New!Meta(here.current))])
  /\ here' = New!Advance(here)
  /\ phase' = IF Len(open) + 1 = n THEN "walk" ELSE "panicked"
  /\ UNCHANGED <<indexVars, old, filter, redated>>

(* Mutant: a file as large as before is left. *)
KeptIfNotSmaller(before, after) ==
  \/ before = NotFound
  \/ filter = "new-or-larger" /\ after.size >= before.size
  \/ filter = "new-or-changed" /\ after # before

KeepsFile(before, after) ==
  \/ before = NotFound
  \/ filter = "new-or-larger" /\ after.size > before.size
  \/ filter = "new-or-changed" /\ after # before

VisitFile ==
  LET meta == New!Meta(here.current)
      before == OldInfo
      after == MetadataOf(entries, meta)
      larger == filter = "new-or-larger" /\ before # NotFound IN
  /\ IsAt(FALSE)
  /\ there' = Lookup.cursor
  /\ here' = New!Advance(here)
  /\ entries' = IF ~KeepsFile(before, after) THEN Without(entries, here.current)
                ELSE IF larger THEN [entries EXCEPT ![meta].info.size = @ - before.size]
                ELSE entries
  /\ UNCHANGED <<options, listing, parents, rootMeta, item, pc, old, filter, redated, phase, open>>

LeaveAtEnd ==
  /\ phase = "walk"
  /\ here.current = New!NoEntry
  /\ LeaveFolder(0)

Next == Build \/ LoadNew \/ StartWalk \/ Leave \/ EnterFolder \/ VisitFile \/ LeaveAtEnd

Spec == DiffInit /\ [][Next]_vars

-------------------------------------------------------------------------------
(* The entries that are left, each with its path. *)
Left ==
  LET level[n \in 0..MaxDepth] ==
        IF n = 0 THEN {[path |-> <<>>, meta |-> rootMeta]}
        ELSE UNION {{[path |-> Append(x.path, entries[x.meta].children[i].name),
                      meta |-> entries[x.meta].children[i].meta] :
                       i \in IF entries[x.meta].info.isDir THEN Remaining(entries, x.meta)
                             ELSE {}} : x \in level[n - 1]} IN
  UNION {level[n] : n \in 0..MaxDepth}

Done == phase = "walk" /\ here.current = New!NoEntry /\ open = <<>>
InfosAt(left, p) == {entries[x.meta].info : x \in {y \in left : y.path = p}}

(* The records of the old listing with the same path, up to case, with the *)
(* size that the old index has for them.                                   *)
InOld(p) ==
  LET folded(q) == [i \in DOMAIN q |-> Fold[q[i]]]
      files(r) == {s \in Range(old.listing) : ~s.isDir /\ IsStrictPrefix(r.path, s.path)}
      sized(r) == IF r.isDir /\ old.options.recalculate
                    THEN [r EXCEPT !.size = MapThenSumSet(LAMBDA s : s.size, files(r))] ELSE r IN
  {sized(r) : r \in {s \in Range(old.listing) : folded(s.path) = folded(p)}}

(* filter_fs_index has two panics: folders are entered one at a time, and *)
(* an update in place fits into the bytes that a record has.              *)
DiffNeverPanics == phase # "panicked"

(* "new-or-larger" leaves the new files and those that grew, with the      *)
(* difference as their size; "new-or-changed" the new files and those that *)
(* are not as before, unmodified.  Each one is still found at its path.    *)
FilesDiffer ==
  Done =>
    LET left == Left IN
    \A r \in {s \in Range(listing) : ~s.isDir} :
      InfosAt(left, r.path) =
        LET before == InOld(r.path) IN
        CASE before = {} -> {InfoOf(r)}
          [] before # {} /\ filter = "new-or-larger" ->
               {[InfoOf(r) EXCEPT !.size = r.size - s.size] : s \in {t \in before : t.size < r.size}}
          [] before # {} /\ filter = "new-or-changed" ->
               {InfoOf(r) : s \in {t \in before : t.isDir \/ t.size # r.size}}

Empty(records, p) == ~\E r \in Range(records) : IsStrictPrefix(p, r.path)

(* A folder is left if something in it is left.  Of the others those go    *)
(* that were there before, or, with "new-or-changed", were empty before    *)
(* and are empty now, with the date and the attributes that they had: a    *)
(* folder that the filter has emptied stays, although nothing in it may    *)
(* have changed.  No folder is larger than what is left in it, and if      *)
(* sizes and counts were right before they are right again.                *)
FoldersAddUp ==
  Done =>
    LET left == Left IN
    \A r \in {s \in Range(listing) : s.isDir /\ s.path # <<>>} :
      LET inside == {x \in left : IsStrictPrefix(r.path, x.path)}
          filesInside == {x \in inside : ~entries[x.meta].info.isDir}
          contents == [isDir |-> TRUE,
                       size |-> MapThenSumSet(LAMBDA x : entries[x.meta].info.size, filesInside),
                       files |-> Cardinality(filesInside),
                       folders |-> Cardinality(inside \ filesInside)]
          goes == \E s \in InOld(r.path) :
                    filter = "new-or-changed" =>
                      s.isDir /\ s.size = 0 /\ Empty(old.listing, s.path)
                        /\ Empty(listing, r.path) /\ r.path \notin redated IN
      /\ InfosAt(left, r.path) = {} <=> inside = {} /\ goes
      /\ \A info \in InfosAt(left, r.path) :
           /\ \A f \in {"size", "files", "folders"} : info[f] <= contents[f]
           /\ options.recalculate => info = contents
===============================================================================
