---------------------------- MODULE MCWebDavMemFs ----------------------------
(* The view of the clients is kept in a variable of its own: TLC computes it *)
(* once for each step.                                                       *)
EXTENDS WebDavMemFs, TLC

VARIABLE view

ViewInit == Init /\ view = View(nodes, handles)
ViewNext == Next /\ view' = View(nodes', handles')
ViewSpec == ViewInit /\ [][ViewNext]_<<vars, view>>

Symmetry == Permutations(Handles) \cup Permutations(Names)

Files == INSTANCE PathFiles
           WITH files <- view.files, opened <- view.opened, Positions <- 0..MaxLen

(* The tree of ids is a file system of paths: a rename takes all paths     *)
(* below along and open files with it, a write ends up in the file that    *)
(* was opened whatever its path is now, appended data overwrites nothing.  *)
ImplementsPaths == Files!Spec
===============================================================================
