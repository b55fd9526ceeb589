----------------------------- MODULE MCDiffFilter -----------------------------
(* Names are compared as they are: FsCursor has those that differ in case. *)
EXTENDS DiffFilter

NameRank == [n \in Names |-> IF n = "a" THEN 1 ELSE 2]
SameCase == [n \in Names |-> n]

(* Bound: the records of folders in the old listing, the root's aside, give *)
(* the smaller size.                                                        *)
OldFoldersSmall ==
  phase = "old" => \A i \in 2..Len(listing) : listing[i].isDir => listing[i].size = 1
===============================================================================
