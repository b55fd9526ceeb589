---------------------------- MODULE TempFileGuard -----------------------------
(***************************************************************************)
(* What the background cleanup process promises to the program that        *)
(* started it, without a pipe or a second process.  A path is guarded from *)
(* the moment the guard call wrote it.  While the program works and after  *)
(* it said Quit nobody but the program removes a file; after a crash only  *)
(* files at guarded paths are removed.  CleanupProcess implements this     *)
(* specification.                                                          *)
(***************************************************************************)
CONSTANT Paths

VARIABLES guarded,  \* paths that a crash at this moment would clean
          stage,    \* "working", "quit" or "crashed"
          file      \* each path: "new" never created, "present" or "gone"

vars == <<guarded, stage, file>>

Init ==
  /\ guarded = {}
  /\ stage = "working"
  /\ file = [p \in Paths |-> "new"]

Guard(p) ==
  /\ stage = "working"
  /\ guarded' = guarded \cup {p}
  /\ UNCHANGED <<stage, file>>

Forget(p) ==
  /\ stage = "working"
  /\ guarded' = guarded \ {p}
  /\ UNCHANGED <<stage, file>>

Leave(s) ==
  /\ stage = "working"
  /\ stage' = s
  /\ UNCHANGED <<guarded, file>>

(* The program creates and removes its files, also after Quit. *)
Create(p) ==
  /\ stage # "crashed"
  /\ file[p] = "new"
  /\ file' = [file EXCEPT ![p] = "present"]
  /\ UNCHANGED <<guarded, stage>>

Delete(p) ==
  /\ stage # "crashed"
  /\ file[p] = "present"
  /\ file' = [file EXCEPT ![p] = "gone"]
  /\ UNCHANGED <<guarded, stage>>

CleanUp(p) ==
  /\ stage = "crashed"
  /\ p \in guarded
  /\ guarded' = guarded \ {p}
  /\ file' = [file EXCEPT ![p] = IF @ = "present" THEN "gone" ELSE @]
  /\ UNCHANGED stage

Next ==
  \/ \E p \in Paths : Guard(p) \/ Forget(p) \/ Create(p) \/ Delete(p) \/ CleanUp(p)
  \/ \E s \in {"quit", "crashed"} : Leave(s)

Spec == Init /\ [][Next]_vars
===============================================================================
