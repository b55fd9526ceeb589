------------------------------ MODULE WebDavMemFs ------------------------------
(***************************************************************************)
(* webdav_memfs.rs and webdav_memfs/tree.rs: the file system that WizTree  *)
(* can write its export to, as a tree of nodes with ids.  Each operation   *)
(* holds the mutex of the tree; requests overlap between operations, and   *)
(* open files are ids of nodes, which other requests remove or replace.    *)
(*                                                                         *)
(* A path is the sequence of its segments.  An operation that returns an   *)
(* error changes nothing.  Times and properties of nodes are left out.     *)
(***************************************************************************)
EXTENDS Integers, SequencesExt

CONSTANTS Handles,  \* MemFsFile values
          Names,    \* segments of paths
          MaxDepth, \* bound: segments of a path
          MaxId,    \* bound: nodes that are created
          MaxLen,   \* bound: bytes of a file
          MaxTotal, \* bound: nodes that are created and bytes of all files
          Bytes     \* bytes that are written

ASSUME WebDavAssumption ==
  /\ MaxDepth \in Nat
  /\ MaxId \in Nat \ {0}
  /\ MaxLen \in Nat
  /\ MaxTotal \in Nat
  /\ Bytes \subseteq 0..255

VARIABLES nodes,  \* Tree::nodes: nodes by id
          nodeId, \* Tree::node_id: the id of the next node
          handles \* MemFsFile values by handle

vars == <<nodes, nodeId, handles>>

RootId == 1
NoParent == 99999999
NotFound == 0
Forbidden == 0 - 1

Paths == UNION {[1..n -> Names] : n \in 0..MaxDepth}
Data == UNION {[1..n -> 0..255] : n \in 0..MaxLen}
NoChildren == [n \in {} |-> NotFound]
NewDir == [isDir |-> TRUE, data |-> <<>>]
NewFile == [isDir |-> FALSE, data |-> <<>>]
Closed == [node |-> NotFound, pos |-> 0, append |-> FALSE]
Put(f, key, value) == [x \in DOMAIN f \cup {key} |-> IF x = key THEN value ELSE f[x]]
NewNode(parent, data) == [data |-> data, parent |-> parent, children |-> NoChildren]

Init ==
  /\ nodes = [i \in {RootId} |-> NewNode(NoParent, NewDir)]
  /\ nodeId = RootId + 1
  /\ handles = [h \in Handles |-> Closed]

InBounds(tree, next) ==
  next - 1 + MapThenSumSet(LAMBDA i : Len(tree[i].data.data), DOMAIN tree) <= MaxTotal

-------------------------------------------------------------------------------
Failed(s) == s.node \in {NotFound, Forbidden}

(* One segment in lookup_segs.  A segment after a file leads to the file,  *)
(* one more is an error.                                                   *)
Follow(s, name) ==
  CASE Failed(s) -> s
    [] ~Failed(s) /\ ~s.isDir -> [s EXCEPT !.node = Forbidden]
    [] ~Failed(s) /\ s.isDir /\ ~nodes[s.node].data.isDir -> [s EXCEPT !.isDir = FALSE]
    [] OTHER -> [s EXCEPT !.node = IF name \in DOMAIN nodes[s.node].children
                                     THEN nodes[s.node].children[name] ELSE NotFound]

Lookup(p) ==
  LET at[i \in 0..Len(p)] ==
        IF i = 0 THEN [node |-> RootId, isDir |-> TRUE] ELSE Follow(at[i - 1], p[i]) IN
  at[Len(p)].node

LookupParent(p) ==
  LET n == Lookup(Front(p)) IN
  IF n \in {NotFound, Forbidden} THEN n ELSE IF nodes[n].data.isDir THEN n ELSE Forbidden

IsNode(n) == n \notin {NotFound, Forbidden}

Existing == {p \in Paths : IsNode(Lookup(p))}

NextId == nodeId

(* add_child, which takes a name that is in use only to replace it. *)
WithChild(parent, name, data) ==
  Put([nodes EXCEPT ![parent].children = Put(@, name, NextId)], NextId, NewNode(parent, data))

(* delete_node_from_parent. *)
Unnamed(tree, id) ==
  LET parent == tree[id].parent
      children == tree[parent].children
      name == CHOOSE n \in DOMAIN children : children[n] = id IN
  [tree EXCEPT ![parent].children = [n \in DOMAIN children \ {name} |-> children[n]]]

Without(tree, ids) == [i \in DOMAIN tree \ ids |-> tree[i]]

Created(parent, name, data) ==
  /\ NextId <= MaxId
  /\ nodes' = WithChild(parent, name, data)
  /\ nodeId' = nodeId + 1
  /\ InBounds(nodes', nodeId')

-------------------------------------------------------------------------------
(* do_open up to the handle: the file that exists, with its contents       *)
(* unless they are truncated, or a new one.                                *)
OpenExisting(h, p, truncate, append) ==
  LET n == Lookup(p) IN
  /\ IsNode(n)
  /\ ~nodes[n].data.isDir
  /\ nodes' = IF truncate THEN [nodes EXCEPT ![n].data.data = <<>>] ELSE nodes
  /\ handles' = [handles EXCEPT ![h] = [node |-> n, pos |-> 0, append |-> append]]
  /\ UNCHANGED nodeId

OpenNew(h, p, append) ==
  /\ Lookup(p) = NotFound
  /\ IsNode(LookupParent(p))
  /\ Created(LookupParent(p), Last(p), NewFile)
  /\ handles' = [handles EXCEPT ![h] = [node |-> NextId, pos |-> 0, append |-> append]]

Close(h) ==
  /\ handles[h] # Closed
  /\ handles' = [handles EXCEPT ![h] = Closed]
  /\ UNCHANGED <<nodes, nodeId>>

(* dav-server creates, removes and moves nothing at the root path, and     *)
(* moves nothing onto or into itself.                                      *)
MayMove(from, to) == from # <<>> /\ to # <<>> /\ ~IsPrefix(from, to)

CreateDir(p) ==
  LET parent == LookupParent(p) IN
  /\ p # <<>>
  /\ IsNode(parent)
  /\ Last(p) \notin DOMAIN nodes[parent].children
  /\ Created(parent, Last(p), NewDir)
  /\ UNCHANGED handles

Childless(n) == DOMAIN nodes[n].children = {}

(* remove_file and remove_dir are the same. *)
Delete(p) ==
  LET n == Lookup(p) IN
  /\ p # <<>>
  /\ IsNode(LookupParent(p))
  /\ IsNode(n)
  /\ Childless(n)
  /\ nodes' = Without(Unnamed(nodes, n), {n})
  /\ UNCHANGED <<nodeId, handles>>

(* Mutant: the moved node keeps its old parent. *)
MovedKeepingParent(n, parent, name) ==
  LET replaced == {nodes[parent].children[x] : x \in {name} \cap DOMAIN nodes[parent].children} IN
  [Without(Unnamed(nodes, n), replaced) EXCEPT ![parent].children = Put(@, name, n)]

(* move_node. *)
Moved(n, parent, name) ==
  LET replaced == {nodes[parent].children[x] : x \in {name} \cap DOMAIN nodes[parent].children} IN
  [Without(Unnamed(nodes, n), replaced) EXCEPT ![n].parent = parent,
                                               ![parent].children = Put(@, name, n)]

Rename(from, to) ==
  LET n == Lookup(from)
      parent == LookupParent(to) IN
  /\ MayMove(from, to)
  /\ IsNode(LookupParent(from))
  /\ IsNode(parent)
  /\ Last(to) \in DOMAIN nodes[parent].children => Childless(nodes[parent].children[Last(to)])
  /\ nodes' = Moved(n, parent, Last(to))
  /\ UNCHANGED <<nodeId, handles>>

(* copy replaces the data of a file, or of one that it creates, with the   *)
(* data of the source, which can be a directory: what is in that is not    *)
(* copied.                                                                 *)
CopyOver(from, to) ==
  LET n == Lookup(from)
      d == Lookup(to) IN
  /\ IsNode(d)
  /\ ~nodes[d].data.isDir
  /\ nodes' = [nodes EXCEPT ![d].data = nodes[n].data]
  /\ InBounds(nodes', nodeId)
  /\ UNCHANGED <<nodeId, handles>>

CopyNew(from, to) ==
  LET n == Lookup(from) IN
  /\ Lookup(to) = NotFound
  /\ IsNode(LookupParent(to))
  /\ Created(LookupParent(to), Last(to), nodes[n].data)
  /\ UNCHANGED handles

-------------------------------------------------------------------------------
HasFile(h) ==
  /\ handles[h].node \in DOMAIN nodes
  /\ ~nodes[handles[h].node].data.isDir

FileData(h) == nodes[handles[h].node].data.data

(* read_bytes: from beyond the end nothing is read. *)
Read(h, count) ==
  LET len == Len(FileData(h))
      pos == handles[h].pos IN
  /\ HasFile(h)
  /\ handles' = [handles EXCEPT ![h].pos =
                   pos + Min({len, pos + count}) - Min({len, pos})]
  /\ UNCHANGED <<nodes, nodeId>>

(* Mutant: an append goes to where the last write ended. *)
LastPosition(h) == handles[h].pos

WritePosition(h) == IF handles[h].append THEN Len(FileData(h)) ELSE handles[h].pos

(* write_bytes and write_buf: a gap before the position is filled with 0. *)
Write(h, b) ==
  LET pos == WritePosition(h)
      data == FileData(h) IN
  /\ HasFile(h)
  /\ pos < MaxLen
  /\ nodes' = [nodes EXCEPT ![handles[h].node].data.data =
                 [i \in 1..Max({Len(data), pos + 1}) |->
                    IF i = pos + 1 THEN b ELSE IF i <= Len(data) THEN data[i] ELSE 0]]
  /\ InBounds(nodes', nodeId)
  /\ handles' = [handles EXCEPT ![h].pos = pos + 1]
  /\ UNCHANGED nodeId

(* SeekFrom::Start has the outcomes of the other two. *)
Seek(h) ==
  /\ handles[h] # Closed
  /\ \E pos \in 0..MaxLen : handles' = [handles EXCEPT ![h].pos = pos]
  /\ UNCHANGED <<nodes, nodeId>>

Next ==
  \/ \E p \in Paths : CreateDir(p) \/ Delete(p)
  \/ \E from \in Existing, to \in Paths : Rename(from, to) \/ CopyOver(from, to) \/ CopyNew(from, to)
  \/ \E h \in Handles :
       \/ \E p \in Paths, truncate, append \in BOOLEAN : OpenExisting(h, p, truncate, append)
       \/ \E p \in Paths, append \in BOOLEAN : OpenNew(h, p, append)
       \/ Read(h, 1)
       \/ \E b \in Bytes : Write(h, b)
       \/ Close(h) \/ Seek(h)

Spec == Init /\ [][Next]_vars

-------------------------------------------------------------------------------
(* The nodes with the paths that lead to them. *)
Placed(tree) ==
  LET level[n \in 0..MaxId - 1] ==
        IF n = 0 THEN {<<<<>>, RootId>>}
        ELSE UNION {{<<Append(x[1], name), tree[x[2]].children[name]>> :
                       name \in DOMAIN tree[x[2]].children} : x \in level[n - 1]} IN
  UNION {level[n] : n \in 0..MaxId - 1}

TypeOK ==
  /\ nodeId \in 2..MaxId + 1
  /\ RootId \in DOMAIN nodes
  /\ DOMAIN nodes \subseteq 1..nodeId - 1
  /\ \A i \in DOMAIN nodes :
       /\ nodes[i].data.isDir \in BOOLEAN
       /\ nodes[i].data.data \in Data
       /\ DOMAIN nodes[i].children \subseteq Names
  /\ handles \in [Handles -> [node : 0..nodeId - 1, pos : 0..MaxLen, append : BOOLEAN]]

(* The two halves of the tree agree: each child has its parent's id, each  *)
(* node but the root has one name in its parent, so that the unwraps of    *)
(* tree.rs and do_open succeed.  A file has no children, and each node is  *)
(* at one path: none is lost.                                              *)
TreeShape ==
  /\ TypeOK
  /\ LET placed == Placed(nodes) IN
     \A i \in DOMAIN nodes : Cardinality({x \in placed : x[2] = i}) = 1
  /\ \A i \in DOMAIN nodes :
       /\ ~nodes[i].data.isDir => nodes[i].children = NoChildren
       /\ \A n \in DOMAIN nodes[i].children :
            /\ nodes[i].children[n] \in DOMAIN nodes
            /\ nodes[nodes[i].children[n]].parent = i
       /\ i # RootId =>
            /\ nodes[i].parent \in DOMAIN nodes
            /\ \E n \in DOMAIN nodes[nodes[i].parent].children :
                 nodes[nodes[i].parent].children[n] = i

(* What clients see: files by path, and where the open files are. *)
View(tree, open) ==
  LET placed == Placed(tree)
      paths(h) == {x[1] : x \in {y \in placed : y[2] = open[h].node}} IN
  [files  |-> [p \in {x[1] : x \in placed} |-> tree[(CHOOSE x \in placed : x[1] = p)[2]].data],
   opened |-> [h \in Handles |->
                 [isOpen |-> open[h] # Closed,
                  path   |-> IF paths(h) = {} THEN <<>> ELSE CHOOSE p \in paths(h) : TRUE,
                  gone   |-> open[h] # Closed /\ paths(h) = {},
                  append |-> open[h].append]]]
===============================================================================
