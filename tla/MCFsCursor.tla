------------------------------ MODULE MCFsCursor ------------------------------
(* Names are searched in another case than they have. *)
EXTENDS FsCursor

NameRank == [n \in Names |-> IF n = "a" THEN 1 ELSE 2]
CaseFold == [n \in Names \cup Wanted |-> IF n = "A" THEN "a" ELSE n]
===============================================================================
