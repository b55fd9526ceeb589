-------------------------- MODULE ViewCommandsProofs --------------------------
(***************************************************************************)
(* Proofs about ViewCommands: viewers see the whole file, and what may     *)
(* stay when all has ended.  Both follow from one inductive invariant,     *)
(* which says what exists and what is guarded in each phase.  Then proofs  *)
(* about what is used while a drive is mounted: IndexCache, for any number *)
(* of requests and of indexes, and WinFspMemFs, for any number of handles, *)
(* names and ids.  The three modules share no variable.                    *)
(***************************************************************************)
EXTENDS ViewCommands, IndexCache, WinFspMemFs, FiniteSetTheorems, TLAPS

PC == {"begin", "create", "guard", "input", "copy", "finish", "serve", "wait",
       "spawn", "peek", "check", "watch", "sleep", "reap", "child", "clear",
       "dropPath", "quit", "dropDrive", "return"}

Watching == {"spawn", "peek", "check", "watch", "sleep", "reap", "child", "clear"}

FlagsOK ==
  /\ alive \in BOOLEAN
  /\ direct \in BOOLEAN
  /\ canceled \in BOOLEAN
  /\ abandoned \in BOOLEAN
  /\ killOnClose \in BOOLEAN

ValuesOK ==
  /\ command \in {"wiz-tree-open", "q-dir-stat-open", "mount"}
  /\ pc \in PC
  /\ status \in {"none", "ok", "error"}
  /\ cleanup \in {"none", "running", "dead"}
  /\ copied \in {"none", "partial", "complete"}
  /\ viewer \in {"none", "running", "reading", "dying", "ok", "failed", "killed"}
  /\ worker \in {"none", "running", "reading", "dying", "ok", "killed"}
  /\ drive \in {"none", "mounted", "unowned", "stuck"}

GuardedOK ==
  /\ guarded \in SUBSET Paths
  /\ stage \in {"working", "quit", "crashed"}
  /\ file \in [Paths -> {"new", "present", "gone"}]

TypeOK == FlagsOK /\ ValuesOK /\ GuardedOK

(* The phases that each command goes through. *)
FlowInv ==
  /\ command = "mount" => ~direct /\ pc \notin {"create"} \cup Watching
  /\ command # "mount" => pc \notin {"serve", "wait", "dropDrive"}
  /\ command = "q-dir-stat-open" => pc \notin {"guard", "peek", "check", "reap", "child", "clear"}

(* The stage of the promise follows from the phase. *)
StageInv ==
  /\ ~alive => stage # "working"
  /\ alive => stage # "crashed"
  /\ stage = "quit" =>
       pc \in IF command = "mount" THEN {"dropDrive", "dropPath", "return"} ELSE {"return"}

(* The cleanup process is there from the guard call on, and knows the path *)
(* that is the only one to exist.                                          *)
GuardInv ==
  /\ cleanup # "none" =>
       /\ command # "q-dir-stat-open"
       /\ pc \notin {"begin", "create", "guard", "serve"}
       /\ command = "mount" => pc \notin {"input", "copy", "finish"}
  /\ \A p \in Paths : file[p] = "present" =>
       /\ p = MyPath
       /\ cleanup = "running" => p \in guarded

(* The file is there and complete while a viewer may look at it. *)
FileInv ==
  alive /\ command # "mount" /\ ~direct =>
    /\ pc \in {"copy", "finish"} \cup Watching => file["copy"] = "present"
    /\ pc \in {"guard", "input"} /\ command = "wiz-tree-open" => file["copy"] = "present"
    /\ pc \in Watching => copied = "complete"

(* Only the first WizTree is waited for. *)
ViewerInv ==
  /\ pc \in {"child", "clear"} => viewer = "ok"
  /\ command = "wiz-tree-open" /\ Runs(viewer)
       => abandoned \/ pc \in {"check", "watch", "sleep", "reap"}
  /\ pc \in {"begin", "create", "guard", "input", "copy", "finish", "serve", "spawn", "peek"}
       => viewer = "none"

(* What stays after the drops: the file that WizTree has open. *)
AfterDrop == IF command = "mount" THEN {"return"} ELSE {"quit", "return"}

OnlyHeldStays ==
  \A p \in Paths : file[p] = "present" =>
    p = "copy" /\ command = "wiz-tree-open" /\ (worker # "none" \/ abandoned)

DropInv ==
  /\ pc \in AfterDrop => OnlyHeldStays
  /\ drive = "mounted" => command = "mount" /\ pc \in {"wait", "quit", "dropDrive"}

(* Who may still open the file, and what is known then.  The property      *)
(* itself is not inductive: what a viewer that runs will find depends on   *)
(* how the run got to where it is.                                         *)
Looking == {"running", "reading"}

LookingInv ==
  /\ command = "mount" => viewer = "none"
  /\ command # "wiz-tree-open" => worker = "none"
  /\ viewer = "none" => worker = "none"
  /\ abandoned => command = "wiz-tree-open"
  /\ viewer # "none" /\ ~direct => copied = "complete"
  /\ pc \in {"watch", "sleep", "reap"} => viewer # "none"
  /\ pc = "reap" => canceled
  /\ pc = "clear" => worker \notin Looking
  /\ alive /\ viewer \in {"dying", "killed"} => canceled
  /\ alive /\ viewer \in Looking => pc \in {"check", "watch", "sleep", "reap"} \/ abandoned
  /\ alive /\ worker \in Looking =>
       pc \in Watching \/ canceled \/ viewer = "failed" \/ abandoned

SeenInv == LookingInv /\ ViewersSeeAll

ViewInv == TypeOK /\ FlowInv /\ StageInv /\ GuardInv /\ FileInv /\ ViewerInv /\ DropInv

-------------------------------------------------------------------------------
LEMMA InitViewInv == Init => ViewInv
BY DEF Init, Guard!Init, Paths, PC, Watching, MyPath, Runs, AfterDrop, OnlyHeldStays, ViewInv, TypeOK, FlagsOK, ValuesOK,
       GuardedOK, FlowInv,
       StageInv, GuardInv, FileInv, ViewerInv, DropInv

LEMMA NextViewInv == ViewInv /\ [Next]_vars => ViewInv'
<1> SUFFICES ASSUME ViewInv, [Next]_vars PROVE ViewInv'
  OBVIOUS
<1> USE DEF ViewInv, TypeOK, FlagsOK, ValuesOK, GuardedOK, FlowInv, StageInv, GuardInv, FileInv, ViewerInv, DropInv,
            Paths, PC, Watching, MyPath, Runs, AfterDrop, OnlyHeldStays
<1>1. CASE Fail
  BY <1>1 DEF Fail, viewVars, guardVars, runVars, Throw, Leave, FirstDrop
<1>2. CASE Begin
  BY <1>2 DEF Begin, viewVars, guardVars, KillingJob, Goto, At
<1>3. CASE CreateCopy
  BY <1>3 DEF CreateCopy, Guard!Create, viewVars, runVars, Goto, At
<1>4. CASE GuardPath
  <2>1. TypeOK'
    <3>1. FlagsOK'
      BY <1>4, Zenon DEF GuardPath, Guard!Guard, viewVars, guardVars, runVars, Goto, At
    <3>2. ValuesOK'
      BY <1>4 DEF GuardPath, Guard!Guard, viewVars, guardVars, runVars, Goto, At
    <3>3. GuardedOK'
      BY <1>4 DEF GuardPath, Guard!Guard, viewVars, guardVars, runVars, Goto, At
    <3> QED
      BY <3>1, <3>2, <3>3
  <2>2. FlowInv'
    BY <1>4 DEF GuardPath, Guard!Guard, viewVars, guardVars, runVars, Goto, At
  <2>3. StageInv'
    BY <1>4 DEF GuardPath, Guard!Guard, viewVars, guardVars, runVars, Goto, At
  <2>4. GuardInv'
    BY <1>4 DEF GuardPath, Guard!Guard, viewVars, guardVars, runVars, Goto, At
  <2>5. FileInv'
    BY <1>4 DEF GuardPath, Guard!Guard, viewVars, guardVars, runVars, Goto, At
  <2>6. ViewerInv'
    BY <1>4 DEF GuardPath, Guard!Guard, viewVars, guardVars, runVars, Goto, At
  <2>7. DropInv'
    BY <1>4 DEF GuardPath, Guard!Guard, viewVars, guardVars, runVars, Goto, At
  <2> QED
    BY <2>1, <2>2, <2>3, <2>4, <2>5, <2>6, <2>7
<1>5. CASE OpenInput
  BY <1>5 DEF OpenInput, viewVars, guardVars, runVars, Goto, At
<1>6. CASE Forward
  BY <1>6 DEF Forward, Guard!Delete, viewVars, runVars, Goto, At
<1>7. CASE CopySome
  BY <1>7 DEF CopySome, viewVars, guardVars, MayRead, Goto, At
<1>8. CASE CopyRest
  BY <1>8 DEF CopyRest, viewVars, guardVars, AfterCopy, MayRead, Goto, At
<1>9. CASE Finish
  BY <1>9 DEF Finish, viewVars, guardVars, Goto, At
<1>10. CASE Mount
  <2>1. TypeOK'
    <3>1. FlagsOK'
      BY <1>10, Zenon DEF Mount, Guard!Create, viewVars, guardVars, Goto, At
    <3>2. ValuesOK'
      <4>1. pc' \in {"guard", "wait"}
        BY <1>10 DEF Mount, Goto
      <4>2. drive' \in {drive, "mounted", "unowned"}
        BY <1>10 DEF Mount
      <4> QED
        BY <1>10, <4>1, <4>2 DEF Mount, viewVars, Goto
    <3>3. GuardedOK'
      BY <1>10 DEF Mount, Guard!Create, viewVars, guardVars, Goto, At
    <3> QED
      BY <3>1, <3>2, <3>3
  <2>2. FlowInv'
    BY <1>10 DEF Mount, Guard!Create, viewVars, guardVars, Goto, At
  <2>3. StageInv'
    BY <1>10 DEF Mount, Guard!Create, viewVars, guardVars, Goto, At
  <2>4. GuardInv'
    BY <1>10 DEF Mount, Guard!Create, viewVars, guardVars, Goto, At
  <2>5. FileInv'
    BY <1>10 DEF Mount, Guard!Create, viewVars, guardVars, Goto, At
  <2>6. ViewerInv'
    <3>1. viewer' = viewer /\ abandoned' = abandoned /\ command' = command
      BY <1>10 DEF Mount, viewVars
    <3>2. pc = "serve"
      BY <1>10 DEF Mount, At
    <3>3. viewer' = "none"
      BY <3>1, <3>2
    <3>4. pc' \in {"guard", "wait"}
      BY <1>10 DEF Mount, Goto
    <3> QED
      BY <3>3, <3>4
  <2>7. DropInv'
    BY <1>10 DEF Mount, Guard!Create, viewVars, guardVars, Goto, At
  <2> QED
    BY <2>1, <2>2, <2>3, <2>4, <2>5, <2>6, <2>7
<1>11. CASE Wait
  BY <1>11 DEF Wait, viewVars, guardVars, runVars, Throw, Leave, FirstDrop, At
<1>12. CASE Spawn
  BY <1>12 DEF Spawn, guardVars, runVars, Goto, At
<1>12a. CASE SpawnFails
  BY <1>12a DEF SpawnFails, viewVars, guardVars, runVars, Goto, At
<1>12b. CASE Peek
  BY <1>12b DEF Peek, guardVars, runVars, Goto, At
<1>12c. CASE Check
  <2>1. pc = "check" /\ alive /\ pc' \in {"watch", "peek", "dropPath", "quit"} /\ UNCHANGED <<alive, command, direct, copied, killOnClose, drive, canceled, cleanup, guardVars, viewVars>>
    BY <1>12c DEF Check, Throw, Leave, FirstDrop, Goto, At
  <2>2. command = "wiz-tree-open"
    BY <2>1
  <2>3. pc' # "quit" /\ abandoned' \in BOOLEAN /\ status' \in {status, "error"}
    BY <1>12c, <2>2 DEF Check, Throw, Leave, FirstDrop, Goto
  <2>4. pc' = "peek" => viewer = "none"
    BY <1>12c DEF Check, Throw, Leave, FirstDrop, Goto
  <2>5. pc' = "dropPath" /\ viewer # "none" => abandoned'
    BY <1>12c DEF Check, Throw, Leave, FirstDrop, Goto
  <2> QED
    BY <2>1, <2>2, <2>3, <2>4, <2>5 DEF viewVars, guardVars
<1>13. CASE Watch
  <2>1. TypeOK'
    <3>1. FlagsOK'
      BY <1>13, Zenon DEF Watch, viewVars, guardVars, runVars, Throw, Leave, FirstDrop,
            Goto, At
    <3>2. ValuesOK'
      <4>1. pc' \in {"sleep", "child", "quit", "dropPath"}
        BY <1>13 DEF Watch, Throw, Leave, FirstDrop, Goto
      <4>2. status' \in {status, "ok", "error"}
        BY <1>13 DEF Watch, Throw, Leave, Goto
      <4> QED
        BY <1>13, <4>1, <4>2 DEF Watch, viewVars, guardVars, runVars
    <3>3. GuardedOK'
      BY <1>13 DEF Watch, viewVars, guardVars, runVars, Throw, Leave, FirstDrop,
            Goto, At
    <3> QED
      BY <3>1, <3>2, <3>3
  <2>2. FlowInv'
    BY <1>13 DEF Watch, viewVars, guardVars, runVars, Throw, Leave, FirstDrop,
          Goto, At
  <2>3. StageInv'
    BY <1>13 DEF Watch, viewVars, guardVars, runVars, Throw, Leave, FirstDrop,
          Goto, At
  <2>4. GuardInv'
    BY <1>13 DEF Watch, viewVars, guardVars, runVars, Throw, Leave, FirstDrop,
          Goto, At
  <2>5. FileInv'
    BY <1>13 DEF Watch, viewVars, guardVars, runVars, Throw, Leave, FirstDrop,
          Goto, At
  <2>6. ViewerInv'
    BY <1>13 DEF Watch, viewVars, guardVars, runVars, Throw, Leave, FirstDrop,
          Goto, At
  <2>7. DropInv'
    BY <1>13 DEF Watch, viewVars, guardVars, runVars, Throw, Leave, FirstDrop,
          Goto, At
  <2> QED
    BY <2>1, <2>2, <2>3, <2>4, <2>5, <2>6, <2>7
<1>14. CASE Sleep
  <2>1. TypeOK'
    <3>1. FlagsOK'
      BY <1>14, Zenon DEF Sleep, guardVars, runVars, Throw, Leave, FirstDrop, Goto, At
    <3>2. ValuesOK'
      <4>1. pc' \in {"watch", "reap", "quit", "dropPath"}
        BY <1>14 DEF Sleep, Throw, Leave, FirstDrop, Goto
      <4>2. status' \in {status, "error"} /\ viewer' \in {viewer, "dying"}
        BY <1>14 DEF Sleep, Throw, Leave, Goto
      <4> QED
        BY <1>14, <4>1, <4>2 DEF Sleep, guardVars, runVars
    <3>3. GuardedOK'
      BY <1>14 DEF Sleep, guardVars, runVars, Throw, Leave, FirstDrop, Goto, At
    <3> QED
      BY <3>1, <3>2, <3>3
  <2>2. FlowInv'
    BY <1>14 DEF Sleep, guardVars, runVars, Throw, Leave, FirstDrop, Goto, At
  <2>3. StageInv'
    BY <1>14 DEF Sleep, guardVars, runVars, Throw, Leave, FirstDrop, Goto, At
  <2>4. GuardInv'
    BY <1>14 DEF Sleep, guardVars, runVars, Throw, Leave, FirstDrop, Goto, At
  <2>5. FileInv'
    BY <1>14 DEF Sleep, guardVars, runVars, Throw, Leave, FirstDrop, Goto, At
  <2>6. ViewerInv'
    BY <1>14 DEF Sleep, guardVars, runVars, Throw, Leave, FirstDrop, Goto, At
  <2>7. DropInv'
    BY <1>14 DEF Sleep, guardVars, runVars, Throw, Leave, FirstDrop, Goto, At
  <2> QED
    BY <2>1, <2>2, <2>3, <2>4, <2>5, <2>6, <2>7
<1>15. CASE Reap
  BY <1>15 DEF Reap, viewVars, guardVars, runVars, Throw, Leave, FirstDrop, At
<1>16. CASE Abandon
  BY <1>16 DEF Abandon, viewVars, guardVars, Throw, Leave, FirstDrop
<1>17. CASE WatchWorker
  <2>1. TypeOK'
    <3>1. FlagsOK'
      BY <1>17, Zenon DEF WatchWorker, viewVars, guardVars, runVars, Throw, Leave,
            FirstDrop, Goto, At
    <3>2. ValuesOK'
      <4>1. pc' \in {"clear", "quit", "dropPath"}
        BY <1>17 DEF WatchWorker, Throw, Leave, FirstDrop, Goto
      <4>2. status' \in {status, "error"}
        BY <1>17 DEF WatchWorker, Throw, Leave, Goto
      <4> QED
        BY <1>17, <4>1, <4>2 DEF WatchWorker, viewVars, guardVars, runVars
    <3>3. GuardedOK'
      BY <1>17 DEF WatchWorker, viewVars, guardVars, runVars, Throw, Leave,
            FirstDrop, Goto, At
    <3> QED
      BY <3>1, <3>2, <3>3
  <2>2. FlowInv'
    BY <1>17 DEF WatchWorker, viewVars, guardVars, runVars, Throw, Leave,
          FirstDrop, Goto, At
  <2>3. StageInv'
    BY <1>17 DEF WatchWorker, viewVars, guardVars, runVars, Throw, Leave,
          FirstDrop, Goto, At
  <2>4. GuardInv'
    BY <1>17 DEF WatchWorker, viewVars, guardVars, runVars, Throw, Leave,
          FirstDrop, Goto, At
  <2>5. FileInv'
    BY <1>17 DEF WatchWorker, viewVars, guardVars, runVars, Throw, Leave,
          FirstDrop, Goto, At
  <2>6. ViewerInv'
    BY <1>17 DEF WatchWorker, viewVars, guardVars, runVars, Throw, Leave,
          FirstDrop, Goto, At
  <2>7. DropInv'
    BY <1>17 DEF WatchWorker, viewVars, guardVars, runVars, Throw, Leave,
          FirstDrop, Goto, At
  <2> QED
    BY <2>1, <2>2, <2>3, <2>4, <2>5, <2>6, <2>7
<1>18. CASE ClearJob
  <2>1. TypeOK'
    <3>1. FlagsOK'
      BY <1>18, Zenon DEF ClearJob, viewVars, guardVars, Leave, FirstDrop, At
    <3>2. ValuesOK'
      BY <1>18 DEF ClearJob, viewVars, guardVars, Leave, FirstDrop, At
    <3>3. GuardedOK'
      BY <1>18 DEF ClearJob, viewVars, guardVars, Leave, FirstDrop, At
    <3> QED
      BY <3>1, <3>2, <3>3
  <2>2. FlowInv'
    BY <1>18 DEF ClearJob, viewVars, guardVars, Leave, FirstDrop, At
  <2>3. StageInv'
    BY <1>18 DEF ClearJob, viewVars, guardVars, Leave, FirstDrop, At
  <2>4. GuardInv'
    BY <1>18 DEF ClearJob, viewVars, guardVars, Leave, FirstDrop, At
  <2>5. FileInv'
    BY <1>18 DEF ClearJob, viewVars, guardVars, Leave, FirstDrop, At
  <2>6. ViewerInv'
    BY <1>18 DEF ClearJob, viewVars, guardVars, Leave, FirstDrop, At
  <2>7. DropInv'
    BY <1>18 DEF ClearJob, viewVars, guardVars, Leave, FirstDrop, At
  <2> QED
    BY <2>1, <2>2, <2>3, <2>4, <2>5, <2>6, <2>7
<1>19. CASE DropPath
  <2>1. TypeOK'
    <3>1. FlagsOK'
      BY <1>19, Zenon DEF DropPath, Guard!Delete, viewVars, guardVars, runVars,
            Removable, Held, Goto, At
    <3>2. ValuesOK'
      BY <1>19 DEF DropPath, Guard!Delete, viewVars, guardVars, runVars,
            Removable, Held, Goto, At
    <3>3. GuardedOK'
      BY <1>19 DEF DropPath, Guard!Delete, viewVars, guardVars, runVars,
            Removable, Held, Goto, At
    <3> QED
      BY <3>1, <3>2, <3>3
  <2>2. FlowInv'
    BY <1>19 DEF DropPath, Guard!Delete, viewVars, guardVars, runVars,
          Removable, Held, Goto, At
  <2>3. StageInv'
    BY <1>19 DEF DropPath, Guard!Delete, viewVars, guardVars, runVars,
          Removable, Held, Goto, At
  <2>4. GuardInv'
    BY <1>19 DEF DropPath, Guard!Delete, viewVars, guardVars, runVars,
          Removable, Held, Goto, At
  <2>5. FileInv'
    BY <1>19 DEF DropPath, Guard!Delete, viewVars, guardVars, runVars,
          Removable, Held, Goto, At
  <2>6. ViewerInv'
    BY <1>19 DEF DropPath, Guard!Delete, viewVars, guardVars, runVars,
          Removable, Held, Goto, At
  <2>7. DropInv'
    BY <1>19 DEF DropPath, Guard!Delete, viewVars, guardVars, runVars,
          Removable, Held, Goto, At
  <2> QED
    BY <2>1, <2>2, <2>3, <2>4, <2>5, <2>6, <2>7
<1>20. CASE Quit
  <2>1. TypeOK'
    <3>1. FlagsOK'
      BY <1>20, Zenon DEF Quit, Guard!Leave, viewVars, guardVars, runVars, FirstDrop,
            Goto, At
    <3>2. ValuesOK'
      BY <1>20 DEF Quit, Guard!Leave, viewVars, guardVars, runVars, FirstDrop,
            Goto, At
    <3>3. GuardedOK'
      BY <1>20 DEF Quit, Guard!Leave, viewVars, guardVars, runVars, FirstDrop,
            Goto, At
    <3> QED
      BY <3>1, <3>2, <3>3
  <2>2. FlowInv'
    BY <1>20 DEF Quit, Guard!Leave, viewVars, guardVars, runVars, FirstDrop,
          Goto, At
  <2>3. StageInv'
    BY <1>20 DEF Quit, Guard!Leave, viewVars, guardVars, runVars, FirstDrop,
          Goto, At
  <2>4. GuardInv'
    BY <1>20 DEF Quit, Guard!Leave, viewVars, guardVars, runVars, FirstDrop,
          Goto, At
  <2>5. FileInv'
    BY <1>20 DEF Quit, Guard!Leave, viewVars, guardVars, runVars, FirstDrop,
          Goto, At
  <2>6. ViewerInv'
    BY <1>20 DEF Quit, Guard!Leave, viewVars, guardVars, runVars, FirstDrop,
          Goto, At
  <2>7. DropInv'
    <3>1. CASE command = "mount"
      <4>1. FirstDrop = "quit"
        BY <3>1 DEF FirstDrop
      <4>2. pc' = "dropDrive" /\ command' = "mount"
        BY <1>20, <3>1, <4>1 DEF Quit, Goto, runVars
      <4>3. pc' \notin AfterDrop'
        BY <4>2
      <4> QED
        BY <4>2, <4>3
    <3>2. CASE command # "mount"
      <4>1. FirstDrop # "quit"
        BY <3>2 DEF FirstDrop
      <4>2. pc' = "return" /\ pc = "quit"
        BY <1>20, <4>1 DEF Quit, Goto, At
      <4>3. UNCHANGED <<command, file, worker, abandoned, drive>>
        BY <1>20 DEF Quit, Guard!Leave, guardVars, runVars, viewVars
      <4>4. OnlyHeldStays
        BY <3>2, <4>2
      <4>5. OnlyHeldStays'
        BY <4>3, <4>4, Zenon DEF OnlyHeldStays
      <4>6. drive' # "mounted"
        BY <3>2, <4>3
      <4> QED
        BY <4>5, <4>6
    <3> QED
      BY <3>1, <3>2
  <2> QED
    BY <2>1, <2>2, <2>3, <2>4, <2>5, <2>6, <2>7
<1>21. CASE DropDrive
  BY <1>21 DEF DropDrive, viewVars, guardVars, Goto, At
<1>23. CASE End
  <2>1. TypeOK'
    <3>1. FlagsOK'
      BY <1>23, Zenon DEF End, Guard!Leave, viewVars, guardVars, runVars
    <3>2. ValuesOK'
      BY <1>23 DEF End, Guard!Leave, viewVars, guardVars, runVars
    <3>3. GuardedOK'
      BY <1>23 DEF End, Guard!Leave, viewVars, guardVars, runVars
    <3> QED
      BY <3>1, <3>2, <3>3
  <2>2. FlowInv'
    BY <1>23 DEF End, Guard!Leave, viewVars, guardVars, runVars
  <2>3. StageInv'
    BY <1>23 DEF End, Guard!Leave, viewVars, guardVars, runVars
  <2>4. GuardInv'
    BY <1>23 DEF End, Guard!Leave, viewVars, guardVars, runVars
  <2>5. FileInv'
    BY <1>23 DEF End, Guard!Leave, viewVars, guardVars, runVars
  <2>6. ViewerInv'
    BY <1>23 DEF End, Guard!Leave, viewVars, guardVars, runVars
  <2>7. DropInv'
    BY <1>23 DEF End, Guard!Leave, viewVars, guardVars, runVars
  <2> QED
    BY <2>1, <2>2, <2>3, <2>4, <2>5, <2>6, <2>7
<1>22. CASE Return
  BY <1>22, <1>23 DEF Return
<1>24. CASE Interrupt
  BY <1>24 DEF Interrupt, viewVars, guardVars, runVars
<1>25. CASE CleanupDies
  BY <1>25 DEF CleanupDies, viewVars, guardVars, runVars
<1>26. CASE ViewerStep
  <2>1. UNCHANGED <<alive, command, direct, copied, abandoned, killOnClose, drive, pc, status, canceled, cleanup, guarded, stage, file>>
    BY <1>26 DEF ViewerStep, guardVars, runVars
  <2>2. \/ viewer' = viewer
        \/ viewer \in {"running", "reading"} /\ viewer' \in {"running", "reading", "ok", "failed"}
    BY <1>26 DEF ViewerStep, MayOpen
  <2>3. \/ worker' = worker
        \/ worker \in {"running", "reading"} /\ worker' \in {"running", "reading", "ok"}
        \/ worker = "none" /\ worker' = "running"
    BY <1>26 DEF ViewerStep, MayOpen
  <2> QED
    BY <2>1, <2>2, <2>3
<1>27. CASE Die
  BY <1>27 DEF Die, guardVars, runVars
<1>28. CASE CloseJob
  BY <1>28 DEF CloseJob, guardVars, runVars
<1>29. ASSUME NEW p \in Paths, CleanUp(p) PROVE ViewInv'
  BY <1>29 DEF CleanUp, Guard!CleanUp, viewVars, runVars, Removable, Held
<1>30. CASE UNCHANGED vars
  BY <1>30 DEF vars, runVars, guardVars, viewVars
<1> QED
  BY [Next]_vars, <1>1, <1>2, <1>3, <1>4, <1>5, <1>6, <1>7, <1>8, <1>9, <1>10,
        <1>11, <1>12, <1>12a, <1>12b, <1>12c, <1>13, <1>14, <1>15, <1>16, <1>17, <1>18, <1>19, <1>20,
        <1>21, <1>22, <1>23, <1>24, <1>25, <1>26, <1>27, <1>28, <1>29, <1>30
        DEF Next, RunStep

LEMMA AfterPath ==
  ASSUME LookingInv, pc = "dropPath", pc' \in {"quit", "return"},
         UNCHANGED <<alive, command, direct, copied, viewer, worker, canceled, abandoned>>
  PROVE  LookingInv'
BY DEF LookingInv, Looking, Watching

LEMMA SameView ==
  ASSUME ViewersSeeAll, file' = file,
         UNCHANGED <<direct, copied, viewer, worker, canceled, abandoned, stage, cleanup>>
  PROVE  ViewersSeeAll'
BY DEF ViewersSeeAll

LEMMA NobodyReads ==
  ASSUME "reading" \notin {viewer, worker}, UNCHANGED <<viewer, worker, canceled, abandoned>>,
         viewer = "running" => abandoned,
         worker = "running" => abandoned \/ canceled \/ viewer = "failed"
  PROVE  ViewersSeeAll'
BY DEF ViewersSeeAll

LEMMA DropPathSeen ==
  ASSUME ViewInv, SeenInv, DropPath
  PROVE  SeenInv'
<1>1. /\ alive /\ pc = "dropPath" /\ pc' \in {"quit", "return"}
      /\ UNCHANGED <<alive, command, direct, copied, viewer, worker, canceled, abandoned, cleanup>>
      /\ UNCHANGED guardVars \/ (Removable(MyPath) /\ UNCHANGED stage)
  BY DEF DropPath, Guard!Delete, viewVars, runVars, guardVars, Goto, At
<1>2. LookingInv'
  BY <1>1, AfterPath DEF SeenInv
<1>3. CASE UNCHANGED guardVars
  <2>1. file' = file /\ stage' = stage
    BY <1>3 DEF guardVars
  <2> QED
    BY <2>1, <1>1, <1>2, SameView DEF SeenInv
<1>4. CASE Removable(MyPath)
  <2>1. viewer \in Looking => abandoned
    BY <1>1 DEF SeenInv, LookingInv
  <2>2. worker \in Looking => abandoned \/ canceled \/ viewer = "failed"
    BY <1>1 DEF SeenInv, LookingInv, Watching
  <2>3. viewer # "reading" /\ worker # "reading"
    BY <1>4, <2>1 DEF SeenInv, LookingInv, Removable, Held, MyPath, Looking
  <2> QED
    BY <1>1, <1>2, <2>1, <2>2, <2>3, NobodyReads DEF SeenInv, Looking
<1> QED
  BY <1>1, <1>3, <1>4

LEMMA NextSeenInv == ViewInv /\ SeenInv /\ [Next]_vars => SeenInv'
<1> SUFFICES ASSUME ViewInv, SeenInv, [Next]_vars PROVE SeenInv'
  OBVIOUS
<1> USE DEF ViewInv, TypeOK, FlagsOK, ValuesOK, GuardedOK, FlowInv, StageInv, GuardInv, FileInv, ViewerInv, DropInv,
            Paths, PC, Watching, MyPath, Runs, AfterDrop, SeenInv, LookingInv, Looking, ViewersSeeAll
<1>1. CASE Fail
  <2>1. LookingInv'
    BY <1>1 DEF Fail, viewVars, guardVars, runVars, Throw, Leave, FirstDrop
  <2>2. ViewersSeeAll'
    BY <1>1 DEF Fail, viewVars, guardVars, runVars, Throw, Leave, FirstDrop
  <2> QED
    BY <2>1, <2>2
<1>2. CASE Begin
  <2>1. LookingInv'
    BY <1>2 DEF Begin, viewVars, guardVars, KillingJob, Goto, At
  <2>2. ViewersSeeAll'
    BY <1>2 DEF Begin, viewVars, guardVars, KillingJob, Goto, At
  <2> QED
    BY <2>1, <2>2
<1>3. CASE CreateCopy
  <2>1. LookingInv'
    BY <1>3 DEF CreateCopy, Guard!Create, viewVars, runVars, Goto, At
  <2>2. ViewersSeeAll'
    BY <1>3 DEF CreateCopy, Guard!Create, viewVars, runVars, Goto, At
  <2> QED
    BY <2>1, <2>2
<1>4. CASE GuardPath
  <2>1. LookingInv'
    BY <1>4 DEF GuardPath, Guard!Guard, viewVars, guardVars, runVars, Goto, At
  <2>2. ViewersSeeAll'
    BY <1>4 DEF GuardPath, Guard!Guard, viewVars, guardVars, runVars, Goto, At
  <2> QED
    BY <2>1, <2>2
<1>5. CASE OpenInput
  <2>1. LookingInv'
    BY <1>5 DEF OpenInput, viewVars, guardVars, runVars, Goto, At
  <2>2. ViewersSeeAll'
    BY <1>5 DEF OpenInput, viewVars, guardVars, runVars, Goto, At
  <2> QED
    BY <2>1, <2>2
<1>6. CASE Forward
  <2>1. LookingInv'
    BY <1>6 DEF Forward, Guard!Delete, viewVars, runVars, Goto, At
  <2>2. ViewersSeeAll'
    BY <1>6 DEF Forward, Guard!Delete, viewVars, runVars, Goto, At
  <2> QED
    BY <2>1, <2>2
<1>7. CASE CopySome
  <2>1. LookingInv'
    BY <1>7 DEF CopySome, viewVars, guardVars, MayRead, Goto, At
  <2>2. ViewersSeeAll'
    BY <1>7 DEF CopySome, viewVars, guardVars, MayRead, Goto, At
  <2> QED
    BY <2>1, <2>2
<1>8. CASE CopyRest
  <2>1. LookingInv'
    BY <1>8 DEF CopyRest, viewVars, guardVars, AfterCopy, MayRead, Goto, At
  <2>2. ViewersSeeAll'
    BY <1>8 DEF CopyRest, viewVars, guardVars, AfterCopy, MayRead, Goto, At
  <2> QED
    BY <2>1, <2>2
<1>9. CASE Finish
  <2>1. LookingInv'
    BY <1>9 DEF Finish, viewVars, guardVars, Goto, At
  <2>2. ViewersSeeAll'
    BY <1>9 DEF Finish, viewVars, guardVars, Goto, At
  <2> QED
    BY <2>1, <2>2
<1>10. CASE Mount
  <2>1. LookingInv'
    BY <1>10 DEF Mount, Guard!Create, viewVars, guardVars, Goto, At
  <2>2. ViewersSeeAll'
    BY <1>10 DEF Mount, Guard!Create, viewVars, guardVars, Goto, At
  <2> QED
    BY <2>1, <2>2
<1>11. CASE Wait
  <2>1. LookingInv'
    BY <1>11 DEF Wait, viewVars, guardVars, runVars, Throw, Leave, FirstDrop, At
  <2>2. ViewersSeeAll'
    BY <1>11 DEF Wait, viewVars, guardVars, runVars, Throw, Leave, FirstDrop, At
  <2> QED
    BY <2>1, <2>2
<1>12. CASE Spawn
  <2>1. LookingInv'
    BY <1>12 DEF Spawn, guardVars, runVars, Goto, At
  <2>2. ViewersSeeAll'
    BY <1>12 DEF Spawn, guardVars, runVars, Goto, At
  <2> QED
    BY <2>1, <2>2
<1>13. CASE SpawnFails
  <2>1. LookingInv'
    BY <1>13 DEF SpawnFails, viewVars, guardVars, runVars, Goto, At
  <2>2. ViewersSeeAll'
    BY <1>13 DEF SpawnFails, viewVars, guardVars, runVars, Goto, At
  <2> QED
    BY <2>1, <2>2
<1>14. CASE Peek
  <2>1. LookingInv'
    BY <1>14 DEF Peek, guardVars, runVars, Goto, At
  <2>2. ViewersSeeAll'
    BY <1>14 DEF Peek, guardVars, runVars, Goto, At
  <2> QED
    BY <2>1, <2>2
<1>15. CASE Check
  <2>1. LookingInv'
    BY <1>15 DEF Check, viewVars, guardVars, Throw, Leave, FirstDrop, Goto, At
  <2>2. ViewersSeeAll'
    BY <1>15 DEF Check, viewVars, guardVars, Throw, Leave, FirstDrop, Goto, At
  <2> QED
    BY <2>1, <2>2
<1>16. CASE Watch
  <2>1. LookingInv'
    BY <1>16 DEF Watch, viewVars, guardVars, runVars, Throw, Leave, FirstDrop, Goto, At
  <2>2. ViewersSeeAll'
    BY <1>16 DEF Watch, viewVars, guardVars, runVars, Throw, Leave, FirstDrop, Goto, At
  <2> QED
    BY <2>1, <2>2
<1>17. CASE Sleep
  <2>1. LookingInv'
    BY <1>17 DEF Sleep, guardVars, runVars, Throw, Leave, FirstDrop, Goto, At
  <2>2. ViewersSeeAll'
    BY <1>17 DEF Sleep, guardVars, runVars, Throw, Leave, FirstDrop, Goto, At
  <2> QED
    BY <2>1, <2>2
<1>18. CASE Reap
  <2>1. LookingInv'
    BY <1>18 DEF Reap, viewVars, guardVars, runVars, Throw, Leave, FirstDrop, At
  <2>2. ViewersSeeAll'
    BY <1>18 DEF Reap, viewVars, guardVars, runVars, Throw, Leave, FirstDrop, At
  <2> QED
    BY <2>1, <2>2
<1>19. CASE Abandon
  <2>1. LookingInv'
    BY <1>19 DEF Abandon, viewVars, guardVars, Throw, Leave, FirstDrop
  <2>2. ViewersSeeAll'
    BY <1>19 DEF Abandon, viewVars, guardVars, Throw, Leave, FirstDrop
  <2> QED
    BY <2>1, <2>2
<1>20. CASE WatchWorker
  <2>1. LookingInv'
    BY <1>20 DEF WatchWorker, viewVars, guardVars, runVars, Throw, Leave, FirstDrop, Goto, At
  <2>2. ViewersSeeAll'
    BY <1>20 DEF WatchWorker, viewVars, guardVars, runVars, Throw, Leave, FirstDrop, Goto, At
  <2> QED
    BY <2>1, <2>2
<1>21. CASE ClearJob
  <2>1. LookingInv'
    BY <1>21 DEF ClearJob, viewVars, guardVars, Leave, FirstDrop, At
  <2>2. ViewersSeeAll'
    BY <1>21 DEF ClearJob, viewVars, guardVars, Leave, FirstDrop, At
  <2> QED
    BY <2>1, <2>2
<1>22. CASE DropPath
  BY <1>22, DropPathSeen
<1>23. CASE Quit
  <2>1. LookingInv'
    BY <1>23 DEF Quit, Guard!Leave, viewVars, guardVars, runVars, FirstDrop, Goto, At
  <2>2. ViewersSeeAll'
    BY <1>23 DEF Quit, Guard!Leave, viewVars, guardVars, runVars, FirstDrop, Goto, At
  <2> QED
    BY <2>1, <2>2
<1>24. CASE DropDrive
  <2>1. LookingInv'
    BY <1>24 DEF DropDrive, viewVars, guardVars, Goto, At
  <2>2. ViewersSeeAll'
    BY <1>24 DEF DropDrive, viewVars, guardVars, Goto, At
  <2> QED
    BY <2>1, <2>2
<1>25. CASE End
  <2>1. LookingInv'
    BY <1>25 DEF End, Guard!Leave, viewVars, guardVars, runVars
  <2>2. ViewersSeeAll'
    BY <1>25 DEF End, Guard!Leave, viewVars, guardVars, runVars
  <2> QED
    BY <2>1, <2>2
<1>26. CASE Interrupt
  <2>1. LookingInv'
    BY <1>26 DEF Interrupt, viewVars, guardVars, runVars
  <2>2. ViewersSeeAll'
    BY <1>26 DEF Interrupt, viewVars, guardVars, runVars
  <2> QED
    BY <2>1, <2>2
<1>27. CASE CleanupDies
  <2>1. LookingInv'
    BY <1>27 DEF CleanupDies, viewVars, guardVars, runVars
  <2>2. ViewersSeeAll'
    BY <1>27 DEF CleanupDies, viewVars, guardVars, runVars
  <2> QED
    BY <2>1, <2>2
<1>28. CASE ViewerStep
  <2>1. LookingInv'
    BY <1>28 DEF ViewerStep, MayOpen, guardVars, runVars
  <2>2. ViewersSeeAll'
    BY <1>28 DEF ViewerStep, MayOpen, guardVars, runVars
  <2> QED
    BY <2>1, <2>2
<1>29. CASE Die
  <2>1. LookingInv'
    BY <1>29 DEF Die, guardVars, runVars
  <2>2. ViewersSeeAll'
    BY <1>29 DEF Die, guardVars, runVars
  <2> QED
    BY <2>1, <2>2
<1>30. CASE CloseJob
  <2>1. LookingInv'
    BY <1>30 DEF CloseJob, guardVars, runVars
  <2>2. ViewersSeeAll'
    BY <1>30 DEF CloseJob, guardVars, runVars
  <2> QED
    BY <2>1, <2>2
<1>31. ASSUME NEW p \in Paths, CleanUp(p) PROVE SeenInv'
  BY <1>31 DEF CleanUp, Guard!CleanUp, viewVars, runVars, Removable, Held
<1>32. CASE UNCHANGED vars
  BY <1>32 DEF vars, runVars, guardVars, viewVars
<1> QED
  BY [Next]_vars, <1>1, <1>2, <1>3, <1>4, <1>5, <1>6, <1>7, <1>8, <1>9, <1>10, <1>11, <1>12, <1>13, <1>14, <1>15, <1>16, <1>17, <1>18, <1>19, <1>20, <1>21, <1>22, <1>23, <1>24, <1>25, <1>26, <1>27, <1>28, <1>29, <1>30, <1>31, <1>32 DEF Next, RunStep, Return

LEMMA InitSeenInv == Init => SeenInv
BY DEF Init, Guard!Init, SeenInv, LookingInv, Looking, ViewersSeeAll

(* Whoever has the file open reads the whole backup, and whoever may still *)
(* open it will find it, but in the cases of ViewersSeeAll.                *)
THEOREM ViewersCorrect == Spec => []ViewersSeeAll
<1>1. SeenInv => ViewersSeeAll
  BY DEF SeenInv
<1> QED
  BY <1>1, InitViewInv, NextViewInv, InitSeenInv, NextSeenInv, PTL DEF Spec

(* What is left when all has ended is one of the cases that are listed,    *)
(* whatever failed and wherever the program was killed.                    *)
THEOREM LeftCorrect == Spec => []OnlyTheseAreLeft
<1>1. ViewInv => OnlyTheseAreLeft
  <2> SUFFICES ASSUME ViewInv PROVE OnlyTheseAreLeft
    OBVIOUS
  <2>1. ASSUME NEW p \in Paths, ~alive, file[p] = "present",
               ~(stage = "crashed" /\ p \in guarded /\ cleanup = "running")
        PROVE  \/ cleanup # "running" /\ pc # "return"
               \/ pc = "guard"
               \/ p = "link" /\ stage = "quit" /\ pc \in {"dropDrive", "dropPath"}
               \/ p = "copy" /\ command = "wiz-tree-open" /\ (worker # "none" \/ abandoned)
    BY <2>1 DEF ViewInv, TypeOK, ValuesOK, GuardedOK, StageInv, GuardInv, DropInv, OnlyHeldStays, AfterDrop, MyPath
  <2>2. ~alive => \/ drive \in {"none", "stuck", "unowned"}
                  \/ drive = "mounted" /\ pc \in {"wait", "quit", "dropDrive"}
    BY DEF ViewInv, TypeOK, ValuesOK, DropInv
  <2> QED
    BY <2>1, <2>2 DEF OnlyTheseAreLeft
<1> QED
  BY <1>1, InitViewInv, NextViewInv, PTL DEF Spec

-------------------------------------------------------------------------------
CacheInv == CacheTypeOK /\ OneIndexInMemory

LEMMA InitCacheInv == CacheInit => CacheInv
BY DEF CacheInit, CacheInv, CacheTypeOK, OneIndexInMemory

(* A request that finds no index is alone: whoever had an index would have *)
(* kept it alive for the Weak.                                             *)
LEMMA AcquireCacheInv ==
  ASSUME CacheInv, NEW r \in Requests, Acquire(r)
  PROVE  CacheInv'
<1>1. CASE Found
  BY <1>1 DEF CacheInv, CacheTypeOK, OneIndexInMemory, Acquire
<1>2. CASE ~Found
  <2>1. \A s \in Requests : using[s] = 0
    BY <1>2 DEF CacheInv, OneIndexInMemory, Found, InUse
  <2>2. built' = built + 1 /\ index' = built + 1 /\ mode' = "available"
    BY <1>2 DEF Acquire
  <2>3. using' = [using EXCEPT ![r] = built + 1]
    BY <2>2 DEF Acquire
  <2> QED
    BY <2>1, <2>2, <2>3 DEF CacheInv, CacheTypeOK, OneIndexInMemory
<1> QED
  BY <1>1, <1>2

LEMMA NextCacheInv == CacheInv /\ [CacheNext]_cacheVars => CacheInv'
<1> SUFFICES ASSUME CacheInv, [CacheNext]_cacheVars PROVE CacheInv'
  OBVIOUS
<1>1. ASSUME NEW r \in Requests, Acquire(r) PROVE CacheInv'
  BY <1>1, AcquireCacheInv
<1>2. ASSUME NEW r \in Requests, Release(r) PROVE CacheInv'
  BY <1>2 DEF CacheInv, CacheTypeOK, OneIndexInMemory, Release
<1>3. CASE Compress
  BY <1>3 DEF CacheInv, CacheTypeOK, OneIndexInMemory, Compress
<1>4. CASE UNCHANGED cacheVars
  BY <1>4 DEF CacheInv, CacheTypeOK, OneIndexInMemory, cacheVars
<1> QED
  BY <1>1, <1>2, <1>3, <1>4 DEF CacheNext

(* mode, index, using and built keep their types. *)
THEOREM CacheTypeCorrect == CacheSpec => []CacheTypeOK
<1>1. CacheInv => CacheTypeOK
  BY DEF CacheInv
<1> QED
  BY <1>1, InitCacheInv, NextCacheInv, PTL DEF CacheSpec

(* However many requests the server answers at a time and however often    *)
(* the index is compressed meanwhile, no request has an index other than   *)
(* the one that the next request gets.                                     *)
THEOREM OneIndexCorrect == CacheSpec => []OneIndexInMemory
<1>1. CacheInv => OneIndexInMemory
  BY DEF CacheInv
<1> QED
  BY <1>1, InitCacheInv, NextCacheInv, PTL DEF CacheSpec
-------------------------------------------------------------------------------
(* WinFspMemFs: the types, that names and parents agree, that the unwraps *)
(* of the callbacks succeed, and that a replaced file goes away.           *)
HoldersOf(f) == {h \in Handles : handle[h] = f}

RootInv == Root \in files /\ parent[Root] = NoFile

(* Ids above prevId were never given away. *)
FreshInv == files \subseteq Root..prevId

(* A count never exceeds the handles: created ones are not counted. *)
CountInv == \A f \in Ids : openCount[f] <= Cardinality(HoldersOf(f))

(* Nothing is without a parent, not even for a while. *)
ParentInv == \A f \in files \ {Root} : parent[f] # NoFile

MemInv ==
  /\ MemTypeOK
  /\ RootInv /\ FreshInv
  /\ NamesMatchParents /\ UnwrapsSucceed
  /\ CountInv /\ ParentInv

-------------------------------------------------------------------------------
(* Every path leads to the root or to a file in an existing directory. *)
LEMMA ReachableParent ==
  ASSUME MemTypeOK, RootInv, NamesMatchParents, NEW f \in Reachable, f # Root
  PROVE  f \in files /\ parent[f] \in files
<1> DEFINE S == {Root} \cup {g \in Ids : parent[g] \in files}
<1>1. S \in SUBSET Ids
  BY ConstantsAssumption DEF Ids, Root
<1>2. Root \in S
  OBVIOUS
<1>3. ASSUME NEW d \in S, NEW n \in Names PROVE children[d][n] \in S \cup {NoFile}
  <2>1. d \in Ids
    BY <1>1
  <2>2. CASE children[d][n] # NoFile
    <3>1. children[d][n] \in files /\ d \in files /\ parent[children[d][n]] = d
      BY <2>1, <2>2, <1>3 DEF NamesMatchParents
    <3>2. children[d][n] \in Ids
      BY <3>1 DEF MemTypeOK
    <3> QED
      BY <3>1, <3>2
  <2> QED
    BY <2>2
<1>4. f \in S
  BY <1>1, <1>2, <1>3 DEF Reachable
<1> QED
  BY <1>4 DEF Reachable

LEMMA ReachableFile == \A f \in Reachable : f \in files
  BY DEF Reachable

(* A file is within itself, and with it the files it is the parent of. *)
LEMMA WithinSelf ==
  ASSUME NEW f \in files PROVE f \in Within(f)
  BY DEF Within

LEMMA WithinChild ==
  ASSUME NEW f, NEW g \in files, parent[g] = f PROVE g \in Within(f)
  BY DEF Within

(* The number of handles of a file and the callbacks that change it. *)
LEMMA HoldersFinite == \A f : IsFiniteSet(HoldersOf(f)) /\ Cardinality(HoldersOf(f)) \in Nat
  BY ConstantsAssumption, FS_Subset, FS_CardinalityType DEF HoldersOf

-------------------------------------------------------------------------------
LEMMA InitMemInv == MemInit => MemInv
<1> SUFFICES ASSUME MemInit PROVE MemInv
  OBVIOUS
<1> USE ConstantsAssumption DEF MemInit, Ids, Root, NoFile, NoChildren
<1>1. MemTypeOK
  BY DEF MemTypeOK
<1>2. RootInv /\ FreshInv /\ ParentInv
  BY DEF RootInv, FreshInv, ParentInv
<1>3. NamesMatchParents /\ UnwrapsSucceed
  BY DEF NamesMatchParents, UnwrapsSucceed
<1>4. CountInv
  BY HoldersFinite DEF CountInv
<1> QED
  BY <1>1, <1>2, <1>3, <1>4 DEF MemInv

(* No callback breaks the types. *)
LEMMA MemTypeStep == MemTypeOK /\ [MemNext]_memVars => MemTypeOK'
<1> SUFFICES ASSUME MemTypeOK, [MemNext]_memVars PROVE MemTypeOK'
  OBVIOUS
<1> USE ConstantsAssumption DEF MemTypeOK, Ids, Root, NoFile
<1>1. ASSUME NEW h \in Handles, NEW f \in Ids, Open(h, f) PROVE MemTypeOK'
  BY <1>1 DEF Open
<1>2. ASSUME NEW h \in Handles, NEW d \in Ids, NEW n \in Names, NEW dir \in BOOLEAN,
             Create(h, d, n, dir)
      PROVE  MemTypeOK'
  BY <1>2 DEF Create
<1>3. ASSUME NEW h \in Handles, Close(h) PROVE MemTypeOK'
  <2>1. handle[h] \in Ids
    BY <1>3 DEF Close
  <2>2. openCount[handle[h]] \in Nat
    BY <2>1
  <2>3. openCount' \in [Ids -> Nat]
    BY <1>3, <2>1, <2>2 DEF Close
  <2>4. files' \in SUBSET Ids /\ handle' \in [Handles -> Ids \cup {NoFile}]
    BY <1>3, <2>1 DEF Close
  <2> QED
    BY <1>3, <2>3, <2>4 DEF Close
<1>4. ASSUME NEW f \in Ids, NEW d \in Ids, NEW n \in Names
      PROVE  Renamed(f, d, n) \in [Ids -> [Names -> Ids \cup {NoFile}]]
  <2> DEFINE linked == [children EXCEPT ![d][n] = f]
  <2>1. linked \in [Ids -> [Names -> Ids \cup {NoFile}]]
    OBVIOUS
  <2>2. parent[f] \in Ids \cup {NoFile}
    OBVIOUS
  <2> HIDE DEF linked
  <2>3. [linked EXCEPT ![parent[f]] = [m \in Names |-> IF @[m] = f THEN NoFile ELSE @[m]]]
          \in [Ids -> [Names -> Ids \cup {NoFile}]]
    BY <2>1, <2>2
  <2> QED
    BY <2>1, <2>3 DEF Renamed, linked
<1>5. ASSUME NEW h \in Handles, NEW d \in Ids, NEW n \in Names, Rename(h, d, n) PROVE MemTypeOK'
  <2>1. handle[h] \in Ids
    BY <1>5 DEF Rename
  <2>2. children' \in [Ids -> [Names -> Ids \cup {NoFile}]]
    BY <1>4, <1>5, <2>1 DEF Rename
  <2> QED
    BY <1>5, <2>1, <2>2 DEF Rename
<1>6. ASSUME NEW h \in Handles, NEW d \in Ids, NEW n \in Names, Replace(h, d, n) PROVE MemTypeOK'
  <2>1. handle[h] \in Ids /\ children[d][n] \in Ids
    BY <1>6 DEF Replace
  <2>2. children' \in [Ids -> [Names -> Ids \cup {NoFile}]]
    BY <1>4, <1>6, <2>1 DEF Replace
  <2> QED
    BY <1>6, <2>1, <2>2 DEF Replace
<1>7. CASE UNCHANGED memVars
  BY <1>7 DEF memVars, nodeVars
<1> HIDE DEF MemTypeOK, Ids, Root, NoFile
<1> QED
  BY <1>1, <1>2, <1>3, <1>5, <1>6, <1>7 DEF MemNext

(* What rename makes of the names when names and parents agree: the names  *)
(* of f are gone but for the new one, and that one too in the directory    *)
(* where f was before.                                                     *)
LEMMA RenamedNames ==
  ASSUME MemTypeOK, NamesMatchParents,
         NEW f \in Ids, NEW d \in Ids, NEW n \in Names, NEW e \in Ids, NEW m \in Names
  PROVE  Renamed(f, d, n)[e][m] =
           IF e = d /\ m = n
             THEN IF parent[f] = d THEN NoFile ELSE f
             ELSE IF children[e][m] = f THEN NoFile ELSE children[e][m]
<1> DEFINE linked == [children EXCEPT ![d][n] = f]
<1>1. linked \in [Ids -> [Names -> Ids \cup {NoFile}]]
  BY DEF MemTypeOK
<1>2. linked[e][m] = IF e = d /\ m = n THEN f ELSE children[e][m]
  BY DEF MemTypeOK
<1>3. children[e][m] = f => parent[f] = e
  BY DEF NamesMatchParents, Ids, Root, NoFile
<1>4. parent[f] \in Ids \cup {NoFile} /\ NoFile \notin Ids
  BY DEF MemTypeOK, Ids, Root, NoFile
<1> HIDE DEF linked
<1>5. CASE parent[f] = NoFile
  <2>1. Renamed(f, d, n) = linked
    BY <1>5 DEF Renamed, linked
  <2> QED
    BY <1>2, <1>3, <1>4, <1>5, <2>1
<1>6. CASE parent[f] # NoFile
  <2>1. Renamed(f, d, n) =
          [linked EXCEPT ![parent[f]] = [k \in Names |-> IF @[k] = f THEN NoFile ELSE @[k]]]
    BY <1>6 DEF Renamed, linked
  <2>2. Renamed(f, d, n)[e][m] =
          IF e = parent[f] /\ linked[e][m] = f THEN NoFile ELSE linked[e][m]
    BY <1>1, <1>4, <1>6, <2>1
  <2> QED
    BY <1>2, <1>3, <2>2
<1> QED
  BY <1>5, <1>6

(* What the rest of the invariant is after each callback. *)
LEMMA CreateInv ==
  ASSUME MemInv, MemTypeOK', NEW h \in Handles, NEW d \in Ids, NEW n \in Names, NEW dir \in BOOLEAN,
         Create(h, d, n, dir)
  PROVE  MemInv'
<1> DEFINE f == prevId + 1
<1> USE DEF MemInv
<1>1. f \in Ids /\ f \notin files /\ f # Root /\ f # NoFile
  BY ConstantsAssumption DEF Create, FreshInv, MemTypeOK, Ids, Root, NoFile
<1>2. d \in files /\ d # f /\ d # NoFile
  BY <1>1, ReachableFile DEF Create, MayCreate, MemTypeOK, Ids, Root, NoFile
<1>3. children' = [children EXCEPT ![d][n] = f] /\ parent' = [parent EXCEPT ![f] = d]
      /\ files' = files \cup {f} /\ prevId' = f /\ openCount' = openCount
      /\ handle' = [handle EXCEPT ![h] = f]
  BY DEF Create
<1>4. handle[h] = NoFile
  BY DEF Create
<1> HIDE DEF f
<1>5. RootInv'
  BY <1>1, <1>3 DEF RootInv, MemTypeOK
<1>6. FreshInv'
  BY <1>1, <1>3, ConstantsAssumption DEF FreshInv, MemTypeOK, Ids, Root, f
<1>7. ParentInv'
  BY <1>1, <1>2, <1>3 DEF ParentInv, MemTypeOK
<1>8. NamesMatchParents'
  <2> SUFFICES ASSUME NEW e \in Ids, NEW m \in Names, children'[e][m] # NoFile
               PROVE  /\ e \in files' /\ children'[e][m] \in files'
                      /\ parent'[children'[e][m]] = e
                      /\ \A k \in Names \ {m} : children'[e][k] # children'[e][m]
    BY DEF NamesMatchParents
  <2>1. \A a \in Ids, k \in Names :
          children'[a][k] = IF a = d /\ k = n THEN f ELSE children[a][k]
    BY <1>3 DEF MemTypeOK
  <2>2. \A a \in Ids, k \in Names : children[a][k] # f
    BY <1>1 DEF NamesMatchParents
  <2>3. CASE e = d /\ m = n
    BY <1>1, <1>2, <1>3, <2>1, <2>2, <2>3 DEF MemTypeOK
  <2>4. CASE ~(e = d /\ m = n)
    BY <1>1, <1>2, <1>3, <2>1, <2>2, <2>4 DEF MemTypeOK, NamesMatchParents
  <2> QED
    BY <2>3, <2>4
<1>9. UnwrapsSucceed'
  BY <1>1, <1>2, <1>3 DEF UnwrapsSucceed, MemTypeOK
<1>10. CountInv'
  <2> SUFFICES ASSUME NEW g \in Ids PROVE openCount'[g] <= Cardinality(HoldersOf(g)')
    BY DEF CountInv
  <2>1. HoldersOf(g)' = IF g = f THEN HoldersOf(g) \cup {h} ELSE HoldersOf(g)
    <3>1. \A k \in Handles : handle'[k] = IF k = h THEN f ELSE handle[k]
      BY <1>3 DEF MemTypeOK
    <3>2. handle[h] # g
      BY <1>4 DEF Ids, Root, NoFile
    <3> QED
      BY <3>1, <3>2 DEF HoldersOf
  <2>2. Cardinality(HoldersOf(g) \cup {h}) = IF h \in HoldersOf(g)
                                               THEN Cardinality(HoldersOf(g))
                                               ELSE Cardinality(HoldersOf(g)) + 1
    BY HoldersFinite, FS_AddElement
  <2>3. openCount'[g] = openCount[g] /\ openCount[g] \in Nat
        /\ openCount[g] <= Cardinality(HoldersOf(g))
    BY <1>3 DEF CountInv, MemTypeOK
  <2> QED
    BY <2>1, <2>2, <2>3, HoldersFinite
<1> QED
  BY <1>5, <1>6, <1>7, <1>8, <1>9, <1>10

LEMMA OpenInv ==
  ASSUME MemInv, MemTypeOK', NEW h \in Handles, NEW f \in Ids, Open(h, f)
  PROVE  MemInv'
<1> USE DEF MemInv
<1>1. UNCHANGED <<files, parent, children, isDir, prevId>>
      /\ openCount' = [openCount EXCEPT ![f] = @ + 1] /\ handle' = [handle EXCEPT ![h] = f]
  BY DEF Open
<1>2. f \in files /\ (f # Root => parent[f] \in files)
  BY ReachableParent, ReachableFile DEF Open
<1>3. RootInv' /\ FreshInv' /\ ParentInv' /\ NamesMatchParents'
  BY <1>1 DEF RootInv, FreshInv, ParentInv, NamesMatchParents
<1>4. UnwrapsSucceed'
  BY <1>1, <1>2 DEF UnwrapsSucceed, MemTypeOK
<1>5. CountInv'
  <2> SUFFICES ASSUME NEW g \in Ids PROVE openCount'[g] <= Cardinality(HoldersOf(g)')
    BY DEF CountInv
  <2>1. HoldersOf(g)' = IF g = f THEN HoldersOf(g) \cup {h} ELSE HoldersOf(g)
    <3>1. \A k \in Handles : handle'[k] = IF k = h THEN f ELSE handle[k]
      BY <1>1 DEF MemTypeOK
    <3>2. handle[h] # g
      BY DEF Open, Ids, Root, NoFile
    <3> QED
      BY <3>1, <3>2 DEF HoldersOf
  <2>2. h \notin HoldersOf(g)
    BY DEF Open, HoldersOf, Ids, Root, NoFile
  <2>3. Cardinality(HoldersOf(g)') = IF g = f THEN Cardinality(HoldersOf(g)) + 1
                                              ELSE Cardinality(HoldersOf(g))
    BY <2>1, <2>2, HoldersFinite, FS_AddElement
  <2>4. openCount'[g] = IF g = f THEN openCount[g] + 1 ELSE openCount[g]
    BY <1>1 DEF MemTypeOK
  <2>5. openCount[g] \in Nat /\ openCount[g] <= Cardinality(HoldersOf(g))
    BY DEF MemTypeOK, CountInv
  <2> QED
    BY <2>3, <2>4, <2>5, HoldersFinite
<1> QED
  BY <1>3, <1>4, <1>5

LEMMA CloseInv ==
  ASSUME MemInv, MemTypeOK', NEW h \in Handles, Close(h)
  PROVE  MemInv'
<1> DEFINE f == handle[h]
           count == IF openCount[f] = 0 THEN 0 ELSE openCount[f] - 1
<1> USE DEF MemInv
<1>1. UNCHANGED <<parent, children, isDir, prevId>>
      /\ openCount' = [openCount EXCEPT ![f] = count] /\ handle' = [handle EXCEPT ![h] = NoFile]
  BY DEF Close
<1>2. f \in files /\ f \in Ids
  BY DEF Close, UnwrapsSucceed, MemTypeOK
<1>3. files' = files
  BY <1>2 DEF Close, CanDelete, ParentInv
<1>4. RootInv' /\ FreshInv' /\ ParentInv' /\ NamesMatchParents'
  BY <1>1, <1>3 DEF RootInv, FreshInv, ParentInv, NamesMatchParents
<1>5. UnwrapsSucceed'
  BY <1>1, <1>3 DEF UnwrapsSucceed, MemTypeOK
<1>6. CountInv'
  <2> SUFFICES ASSUME NEW g \in Ids PROVE openCount'[g] <= Cardinality(HoldersOf(g)')
    BY DEF CountInv
  <2>1. HoldersOf(g)' = HoldersOf(g) \ {h}
    <3>1. \A k \in Handles : handle'[k] = IF k = h THEN NoFile ELSE handle[k]
      BY <1>1 DEF MemTypeOK
    <3>2. g # NoFile
      BY DEF Ids, Root, NoFile
    <3> QED
      BY <3>1, <3>2 DEF HoldersOf
  <2>2. h \in HoldersOf(g) <=> g = f
    BY DEF HoldersOf
  <2>3. Cardinality(HoldersOf(g)') = IF g = f THEN Cardinality(HoldersOf(g)) - 1
                                              ELSE Cardinality(HoldersOf(g))
    BY <2>1, <2>2, HoldersFinite, FS_RemoveElement
  <2>4. Cardinality(HoldersOf(g)') \in Nat
    BY <2>1, HoldersFinite, FS_RemoveElement, FS_CardinalityType
  <2>5. openCount'[g] = IF g = f THEN count ELSE openCount[g]
    BY <1>1 DEF MemTypeOK
  <2>6. openCount[g] \in Nat /\ openCount[g] <= Cardinality(HoldersOf(g))
    BY DEF MemTypeOK, CountInv
  <2> HIDE DEF f
  <2> QED
    BY <2>3, <2>4, <2>5, <2>6, HoldersFinite
<1> QED
  BY <1>4, <1>5, <1>6

(* An open file is not at the name that a rename replaces, nor in it. *)
LEMMA ReplacedNotOpen ==
  ASSUME MemTypeOK, NamesMatchParents, NEW f, NEW d \in Ids, NEW n \in Names, MayRename(f, d, n),
         children[d][n] # NoFile, NEW h \in Handles
  PROVE  handle[h] # children[d][n] /\ (handle[h] \in files => parent[handle[h]] # children[d][n])
<1>1. children[d][n] \in files
  BY DEF NamesMatchParents
<1>2. handle[h] \notin Within(children[d][n])
  BY DEF MayRename, OpenIn
<1> QED
  BY <1>1, <1>2, WithinSelf, WithinChild

(* Names and parents still agree after a rename; g is the file that goes,  *)
(* NoFile if there is none.                                                *)
LEMMA RenameNamesInv ==
  ASSUME MemInv, MemTypeOK', NEW h \in Handles, NEW d \in Ids, NEW n \in Names,
         Rename(h, d, n) \/ Replace(h, d, n)
  PROVE  NamesMatchParents'
<1> DEFINE f == handle[h]
           g == children[d][n]
<1> USE DEF MemInv
<1>1. f \in files /\ f \in Ids /\ f # NoFile /\ d \in files /\ MayRename(f, d, n)
  BY ReachableFile DEF Rename, Replace, MayRename, UnwrapsSucceed, MemTypeOK
<1>2. children' = Renamed(f, d, n)
  BY DEF Rename, Replace
<1>3. g # f
  BY <1>1, ReplacedNotOpen DEF MemTypeOK
<1>4. parent'[f] = d /\ \A e \in Ids : e # f /\ e # g => parent'[e] = parent[e]
  BY <1>1, <1>3 DEF Rename, Replace, MemTypeOK
<1>5. files' \subseteq files /\ files \ {g} \subseteq files'
  BY DEF Rename, Replace
<1>6. g # NoFile => \A m \in Names : children[g][m] = NoFile
  BY DEF Replace, Rename, NoChildren
<1>7. \A e \in Ids, m \in Names :
        children'[e][m] = IF e = d /\ m = n
                            THEN IF parent[f] = d THEN NoFile ELSE f
                            ELSE IF children[e][m] = f THEN NoFile ELSE children[e][m]
  BY <1>1, <1>2, RenamedNames
<1>8. d # g
  BY <1>1, <1>6 DEF Ids, Root, NoFile
<1>9. \A e \in Ids, m \in Names : children[e][m] = g /\ g # NoFile => e = d /\ m = n
  BY DEF NamesMatchParents
<1> SUFFICES ASSUME NEW e \in Ids, NEW m \in Names, children'[e][m] # NoFile
             PROVE  /\ e \in files' /\ children'[e][m] \in files'
                    /\ parent'[children'[e][m]] = e
                    /\ \A k \in Names \ {m} : children'[e][k] # children'[e][m]
  BY DEF NamesMatchParents
<1> HIDE DEF f, g
<1>10. CASE e = d /\ m = n
  BY <1>1, <1>3, <1>4, <1>5, <1>7, <1>8, <1>10
<1>11. CASE ~(e = d /\ m = n)
  <2>1. children'[e][m] = children[e][m] /\ children[e][m] # f /\ children[e][m] # NoFile
    BY <1>7, <1>11
  <2>2. children[e][m] # g /\ e # g
    <3>1. e # NoFile
      BY DEF Ids, Root, NoFile
    <3> QED
      BY <1>6, <1>9, <1>11, <2>1, <3>1
  <2>3. /\ e \in files /\ children[e][m] \in files /\ parent[children[e][m]] = e
        /\ \A k \in Names \ {m} : children[e][k] # children[e][m]
    BY <2>1 DEF NamesMatchParents
  <2>4. children[e][m] \in Ids
    BY <2>3 DEF MemTypeOK
  <2> QED
    BY <1>4, <1>5, <1>7, <2>1, <2>2, <2>3, <2>4
<1> QED
  BY <1>10, <1>11

LEMMA RenameInv ==
  ASSUME MemInv, MemTypeOK', NEW h \in Handles, NEW d \in Ids, NEW n \in Names,
         Rename(h, d, n) \/ Replace(h, d, n)
  PROVE  MemInv'
<1> DEFINE f == handle[h]
           g == children[d][n]
<1> USE DEF MemInv
<1>1. f \in files /\ f \in Ids /\ f # Root /\ d \in files /\ MayRename(f, d, n)
  BY ReachableFile DEF Rename, Replace, MayRename, UnwrapsSucceed, MemTypeOK
<1>2. g # NoFile => /\ \A k \in Handles : handle[k] # g
                    /\ \A k \in Handles : handle[k] \in files => parent[handle[k]] # g
  BY <1>1, ReplacedNotOpen
<1>3. UNCHANGED <<openCount, isDir, prevId, handle>>
  BY DEF Rename, Replace
<1>4. g # NoFile => g \in files /\ g \in Ids /\ g # Root /\ parent[g] = d /\ g # f
  <2> SUFFICES ASSUME g # NoFile
               PROVE  g \in files /\ g \in Ids /\ g # Root /\ parent[g] = d /\ g # f
    OBVIOUS
  <2>1. g \in files /\ parent[g] = d
    BY DEF NamesMatchParents
  <2>2. d # NoFile
    BY DEF Ids, Root, NoFile
  <2>3. g # Root /\ g \in Ids
    BY <2>1, <2>2 DEF RootInv, MemTypeOK
  <2> QED
    BY <1>2, <2>1, <2>3
<1>5. d # g
  BY <1>1 DEF Rename, Replace, NoChildren, Ids, Root, NoFile
<1>6. g # NoFile => openCount[g] = 0
  <2> SUFFICES ASSUME g # NoFile PROVE openCount[g] = 0
    OBVIOUS
  <2>1. HoldersOf(g) = {}
    BY <1>2 DEF HoldersOf
  <2>2. Cardinality(HoldersOf(g)) = 0
    BY <2>1, FS_EmptySet
  <2>3. openCount[g] \in Nat /\ openCount[g] <= Cardinality(HoldersOf(g))
    BY <1>4 DEF CountInv, MemTypeOK
  <2> QED
    BY <2>2, <2>3
<1>7. files' = files \ {g}
  <2>1. CASE Rename(h, d, n)
    BY <2>1 DEF Rename, MemTypeOK, Ids, Root, NoFile
  <2>2. CASE Replace(h, d, n)
    BY <1>4, <1>6, <2>2 DEF Replace, CanDelete
  <2> QED
    BY <2>1, <2>2
<1>8. parent'[f] = d /\ \A e \in Ids : e # f /\ e # g => parent'[e] = parent[e]
  BY <1>1, <1>4 DEF Rename, Replace, MemTypeOK
<1>9. RootInv'
  BY <1>1, <1>4, <1>7, <1>8, ConstantsAssumption DEF RootInv, MemTypeOK, Ids, Root, NoFile
<1>10. FreshInv'
  BY <1>3, <1>7 DEF FreshInv
<1>11. ParentInv'
  BY <1>1, <1>7, <1>8 DEF ParentInv, MemTypeOK, Ids, Root, NoFile
<1>12. CountInv'
  BY <1>3 DEF CountInv, HoldersOf
<1>13. UnwrapsSucceed'
  <2> SUFFICES ASSUME NEW k \in Handles, handle[k] # NoFile
               PROVE  handle[k] \in files' /\ (handle[k] # Root => parent'[handle[k]] \in files')
    BY <1>3 DEF UnwrapsSucceed
  <2>1. handle[k] \in files /\ handle[k] \in Ids /\ (handle[k] # Root => parent[handle[k]] \in files)
    BY DEF UnwrapsSucceed, MemTypeOK
  <2>2. NoFile \notin files
    BY DEF MemTypeOK, Ids, Root, NoFile
  <2>3. handle[k] # g /\ (handle[k] # Root => parent[handle[k]] # g)
    BY <1>2, <2>1, <2>2
  <2> QED
    BY <1>1, <1>5, <1>7, <1>8, <2>1, <2>3
<1> QED
  BY <1>9, <1>10, <1>11, <1>12, <1>13, RenameNamesInv

-------------------------------------------------------------------------------
LEMMA MemInvKept == MemInv /\ [MemNext]_memVars => MemInv'
<1> SUFFICES ASSUME MemInv, [MemNext]_memVars PROVE MemInv'
  OBVIOUS
<1>1. MemTypeOK'
  BY MemTypeStep DEF MemInv
<1>2. CASE UNCHANGED memVars
  BY <1>1, <1>2 DEF memVars, nodeVars, MemInv, RootInv, FreshInv, NamesMatchParents, UnwrapsSucceed,
     CountInv, ParentInv, HoldersOf
<1>3. CASE MemNext
  BY <1>1, <1>3, OpenInv, CreateInv, CloseInv, RenameInv DEF MemNext
<1> QED
  BY <1>2, <1>3

LEMMA MemInvHolds == MemSpec => []MemInv
  BY InitMemInv, MemInvKept, PTL DEF MemSpec

(* The types hold for any handles, names and number of ids. *)
THEOREM MemTypeCorrect == MemSpec => []MemTypeOK
<1>1. MemInv => MemTypeOK
  BY DEF MemInv
<1> QED
  BY <1>1, MemInvHolds, PTL

(* The names in directories and the parents of files always agree. *)
THEOREM NamesCorrect == MemSpec => []NamesMatchParents
<1>1. MemInv => NamesMatchParents
  BY DEF MemInv
<1> QED
  BY <1>1, MemInvHolds, PTL

(* The callbacks find the file of a handle and the directory it is in.     *)
THEOREM UnwrapsCorrect == MemSpec => []UnwrapsSucceed
<1>1. MemInv => UnwrapsSucceed
  BY DEF MemInv
<1> QED
  BY <1>1, MemInvHolds, PTL

(* A replaced file without handles is gone: none is without a parent.      *)
THEOREM ReplacedCorrect == MemSpec => []ReplacedFilesGo
<1>1. MemInv => ReplacedFilesGo
  BY DEF MemInv, ParentInv, ReplacedFilesGo
<1> QED
  BY <1>1, MemInvHolds, PTL
===============================================================================
