------------------------------ MODULE WinFspMemFs ------------------------------
(***************************************************************************)
(* winfsp_memfs.rs: the tree of files that WinFsp's callbacks keep in      *)
(* memory.  Each callback holds the mutex from its first to its last       *)
(* access, so one callback is one action; a callback that returns an error *)
(* changes nothing and is no action.                                       *)
(*                                                                         *)
(* A path is the directory that it reaches and its last name.  The content *)
(* of files is left out.  WinFsp and Windows check some things before they *)
(* make a callback; MayCreate and MayRename say which.                     *)
(***************************************************************************)
EXTENDS Integers, FiniteSets

CONSTANTS Handles,  \* open handles of the programs that use the file system
          Names,    \* names in a directory
          MaxId     \* bound: ids that are given to files

ASSUME ConstantsAssumption ==
  /\ MaxId \in Nat \ {0}
  /\ IsFiniteSet(Handles)

VARIABLES files,      \* the ids that state.files has an entry for
          parent,     \* parent_id
          children,   \* children: for each directory and name an id
          openCount,  \* open_count
          isDir,      \* is_dir
          prevId,     \* prev_file_id
          handle      \* the id in the FileContext of each handle

nodeVars == <<files, parent, children, openCount, isDir, prevId>>
memVars == <<nodeVars, handle>>

Root == 1
NoFile == 0
Ids == Root..MaxId
NoChildren == [n \in Names |-> NoFile]

MemInit ==
  /\ files = {Root}
  /\ parent = [f \in Ids |-> NoFile]
  /\ children = [f \in Ids |-> NoChildren]
  /\ openCount = [f \in Ids |-> 0]
  /\ isDir = [f \in Ids |-> f = Root]
  /\ prevId = Root
  /\ handle = [h \in Handles |-> NoFile]

-------------------------------------------------------------------------------
(* The files that some path leads to. *)
Reachable ==
  {f \in files : \A S \in SUBSET Ids :
     Root \in S /\ (\A d \in S, n \in Names : children[d][n] \in S \cup {NoFile}) => f \in S}

(* f and the files in it, by the names that WinFsp has for open files: it  *)
(* takes each rename that succeeded for done.                              *)
Within(f) ==
  {g \in files : \A S \in SUBSET Ids :
     f \in S /\ (\A c \in files : parent[c] \in S => c \in S) => g \in S}

OpenIn(S) == \E h \in Handles : handle[h] \in S

(* WinFsp looks at the parent directory before it calls create. *)
MayCreate(d) == d \in Reachable /\ isDir[d]

(* A directory is not renamed while files in it are open, nor moved into   *)
(* itself; nothing is renamed to a name at which, or below which, a file   *)
(* is open; Windows opened the directory that the file goes to.            *)
MayRename(f, d, n) ==
  /\ f # Root
  /\ d \in Reachable \ Within(f)
  /\ isDir[d]
  /\ ~OpenIn(Within(f) \ {f})
  /\ children[d][n] # NoFile => ~OpenIn(Within(children[d][n]))

-------------------------------------------------------------------------------
(* create and make_node.  The new handle is not counted. *)
Create(h, d, n, dir) ==
  LET f == prevId + 1 IN
  /\ handle[h] = NoFile
  /\ MayCreate(d)
  /\ children[d][n] = NoFile
  /\ f \in Ids
  /\ prevId' = f
  /\ files' = files \cup {f}
  /\ parent' = [parent EXCEPT ![f] = d]
  /\ children' = [children EXCEPT ![d][n] = f]
  /\ isDir' = [isDir EXCEPT ![f] = dir]
  /\ handle' = [handle EXCEPT ![h] = f]
  /\ UNCHANGED openCount

(* open and open_node. *)
Open(h, f) ==
  /\ handle[h] = NoFile
  /\ f \in Reachable
  /\ openCount' = [openCount EXCEPT ![f] = @ + 1]
  /\ handle' = [handle EXCEPT ![h] = f]
  /\ UNCHANGED <<files, parent, children, isDir, prevId>>

(* Mutant: a file is deleted when its count is zero. *)
CanDeleteNamed(f, count, p) == count = 0 /\ f # Root

CanDelete(f, count, p) == count = 0 /\ p = NoFile /\ f # Root

(* close and close_node. *)
Close(h) ==
  LET f == handle[h]
      count == IF openCount[f] = 0 THEN 0 ELSE openCount[f] - 1 IN
  /\ f # NoFile
  /\ openCount' = [openCount EXCEPT ![f] = count]
  /\ files' = IF CanDelete(f, count, parent[f]) THEN files \ {f} ELSE files
  /\ handle' = [handle EXCEPT ![h] = NoFile]
  /\ UNCHANGED <<parent, children, isDir, prevId>>

(* Mutant: the old name is only removed in another directory. *)
RenamedKeepingNames(f, d, n) == [children EXCEPT ![d][n] = f]

(* The name is inserted, then every name of the file is removed from the   *)
(* directory that it was in.                                               *)
Renamed(f, d, n) ==
  LET linked == [children EXCEPT ![d][n] = f] IN
  IF parent[f] = NoFile
    THEN linked
    ELSE [linked EXCEPT ![parent[f]] = [m \in Names |-> IF @[m] = f THEN NoFile ELSE @[m]]]

(* rename of the file of h, where d has no file called n. *)
Rename(h, d, n) ==
  LET f == handle[h] IN
  /\ f # NoFile
  /\ MayRename(f, d, n)
  /\ children[d][n] = NoFile
  /\ children' = Renamed(f, d, n)
  /\ parent' = [parent EXCEPT ![f] = d]
  /\ UNCHANGED <<files, openCount, isDir, prevId, handle>>

(* Mutant: the replaced file stays in the map. *)
ReplaceKeepingFile(h, d, n) ==
  LET f == handle[h]
      g == children[d][n] IN
  /\ f # NoFile
  /\ MayRename(f, d, n)
  /\ g # NoFile
  /\ children[g] = NoChildren
  /\ children' = Renamed(f, d, n)
  /\ parent' = [parent EXCEPT ![g] = NoFile, ![f] = d]
  /\ UNCHANGED <<files, openCount, isDir, prevId, handle>>

(* rename with replace_if_exists, where d has a file or an empty directory *)
(* called n.                                                               *)
Replace(h, d, n) ==
  LET f == handle[h]
      g == children[d][n] IN
  /\ f # NoFile
  /\ MayRename(f, d, n)
  /\ g # NoFile
  /\ children[g] = NoChildren
  /\ children' = Renamed(f, d, n)
  /\ parent' = [parent EXCEPT ![g] = NoFile, ![f] = d]
  /\ files' = IF CanDelete(g, openCount[g], NoFile) THEN files \ {g} ELSE files
  /\ UNCHANGED <<openCount, isDir, prevId, handle>>

MemNext ==
  \E h \in Handles :
    \/ \E f \in Ids : Open(h, f)
    \/ \E d \in Ids, n \in Names :
         \/ \E dir \in BOOLEAN : Create(h, d, n, dir)
         \/ Rename(h, d, n)
         \/ Replace(h, d, n)
    \/ Close(h)

MemSpec == MemInit /\ [][MemNext]_memVars

-------------------------------------------------------------------------------
MemTypeOK ==
  /\ files \in SUBSET Ids
  /\ parent \in [Ids -> Ids \cup {NoFile}]
  /\ children \in [Ids -> [Names -> Ids \cup {NoFile}]]
  /\ openCount \in [Ids -> Nat]
  /\ isDir \in [Ids -> BOOLEAN]
  /\ prevId \in Ids
  /\ handle \in [Handles -> Ids \cup {NoFile}]

(* The callbacks look up ids that they find in a directory with unwrap, or *)
(* with "should not have invalid ids": each name in a directory belongs to *)
(* a file that exists, knows that directory and has no second name.        *)
NamesMatchParents ==
  \A d \in Ids, n \in Names :
    LET f == children[d][n] IN
    f # NoFile =>
      /\ d \in files /\ f \in files
      /\ parent[f] = d
      /\ \A m \in Names \ {n} : children[d][m] # f

(* The other unwraps: the file of an open handle exists, and so does the   *)
(* directory that it was last put into, although files and directories are *)
(* replaced and closed in any order and created handles are not counted.   *)
UnwrapsSucceed ==
  \A h \in Handles :
    LET f == handle[h] IN
    f # NoFile => f \in files /\ (f # Root => parent[f] \in files)

(* The comment on open_count: "If this is `0` and `parent_id` is `None`    *)
(* then delete this file": without a parent and a handle a file is gone.   *)
ReplacedFilesGo ==
  \A f \in files \ {Root} : parent[f] = NoFile => OpenIn({f})

(* The comment in rename: "Update new parent to point to child".  A file   *)
(* that has a parent can be found there.                                   *)
FilesHaveNames ==
  \A f \in files \ {Root} :
    parent[f] # NoFile => \E n \in Names : children[parent[f]][n] = f
===============================================================================
