----------------------------- MODULE ViewCommands -----------------------------
(***************************************************************************)
(* The commands that show a backup: wiz-tree-open (wiztree_open.rs) and    *)
(* q-dir-stat-open (qdirstat_open.rs) copy it to a temporary file for the  *)
(* program that opens it, mount (mount.rs) serves it until it is canceled, *)
(* under a drive letter or behind a symbolic link.  What they leave behind *)
(* depends on the order of their drops, and on the cleanup process, which  *)
(* q-dir-stat-open does without.                                           *)
(*                                                                         *)
(* The cleanup process is used through its promise, TempFileGuard; of      *)
(* run_wiz_tree, which WizTreeBackup models in detail, only what matters   *)
(* to the file that WizTree opens is kept.                                 *)
(***************************************************************************)
EXTENDS Naturals

VARIABLES alive,     \* this program runs
          command,
          direct,    \* the viewer opens the input itself
          pc,
          status,    \* what run is going to return
          canceled,
          cleanup,   \* the cleanup process
          guarded, stage, file,  \* see TempFileGuard
          copied,    \* content of the temporary file, or of the memory
          viewer,    \* WizTree or QDirStat
          worker,    \* the instance that WizTree started
          abandoned, \* run_wiz_tree left without the exit of the WizTree it started
          killOnClose, \* the job takes its processes with it
          drive      \* the drive letter, "unowned" if the program does not know of it

runVars == <<command, direct, copied, abandoned, killOnClose, drive>>
guardVars == <<guarded, stage, file>>
viewVars == <<viewer, worker>>
vars == <<alive, runVars, pc, status, canceled, cleanup, guardVars, viewVars>>

Paths == {"copy", "link"}
Guard == INSTANCE TempFileGuard

(* A viewer that is reading keeps its file open; so does WizTree for all   *)
(* others.  A dying one was killed and its handles may still be open.      *)
Runs(process) == process \in {"running", "reading", "dying"}

Held ==
  command = "wiz-tree-open" /\ \E v \in {viewer, worker} : v \in {"reading", "dying"}

Removable(p) == p = "copy" => ~Held

MyPath == IF command = "mount" THEN "link" ELSE "copy"

Init ==
  /\ alive = TRUE
  /\ command \in {"wiz-tree-open", "q-dir-stat-open", "mount"}
  /\ direct \in BOOLEAN /\ (command = "mount" => ~direct)
  /\ pc = "begin" /\ status = "none"
  /\ canceled = FALSE
  /\ cleanup = "none"
  /\ Guard!Init
  /\ copied = "none"
  /\ viewer = "none" /\ worker = "none"
  /\ abandoned = FALSE /\ killOnClose = FALSE
  /\ drive = "none"

-------------------------------------------------------------------------------
At(label) == alive /\ pc = label

Goto(label) ==
  /\ pc' = label
  /\ UNCHANGED <<alive, status>>

(* Mutant: the cleanup process is made after the temporary file. *)
QuitFirst == "quit"

(* Values are dropped in the opposite order of their declaration: the      *)
(* cleanup process is declared before the temporary file, but after the    *)
(* guards of the link and of the drive.                                    *)
FirstDrop == IF command = "mount" THEN "quit" ELSE "dropPath"

Leave(with) ==
  /\ pc' = FirstDrop
  /\ status' = with
  /\ UNCHANGED alive

Throw == Leave("error")

(* What may fail where the code gives up. *)
Fail ==
  /\ alive
  /\ pc \in {"begin", "create", "input", "copy", "finish", "serve", "spawn", "clear"}
  /\ Throw
  /\ UNCHANGED <<runVars, canceled, cleanup, guardVars, viewVars>>

(* limit_kill_on_job_close *)
KillingJob == command = "wiz-tree-open"

Begin ==
  /\ At("begin")
  /\ killOnClose' = KillingJob
  /\ Goto(IF command # "wiz-tree-open" THEN "input"
          ELSE IF direct THEN "spawn" ELSE "create")
  /\ UNCHANGED <<command, direct, copied, abandoned, drive, canceled, cleanup, guardVars, viewVars>>

CreateCopy ==
  /\ At("create")
  /\ Guard!Create("copy")
  /\ Goto(IF command = "wiz-tree-open" THEN "guard" ELSE "copy")
  /\ UNCHANGED <<runVars, canceled, cleanup, viewVars>>

(* The cleanup process is started for the first path, or cannot be; the    *)
(* guard call is followed by always().                                     *)
GuardPath ==
  /\ At("guard")
  /\ \/ cleanup' = "running" /\ Guard!Guard(MyPath)
     \/ UNCHANGED <<cleanup, guardVars>>
  /\ Goto(IF command = "mount" THEN "wait" ELSE "input")
  /\ UNCHANGED <<runVars, canceled, viewVars>>

OpenInput ==
  /\ At("input")
  /\ Goto(IF command = "q-dir-stat-open" THEN "create" ELSE "copy")
  /\ UNCHANGED <<runVars, canceled, cleanup, guardVars, viewVars>>

(* QDirStat reads its own cache files: the temporary file is dropped. *)
Forward ==
  /\ At("copy")
  /\ direct
  /\ Guard!Delete("copy")
  /\ Goto("spawn")
  /\ UNCHANGED <<runVars, canceled, cleanup, viewVars>>

(* wrap_io: a read fails after a request to cancel, except that mount does *)
(* not wrap an input that is compressed.                                   *)
MayRead == canceled => command = "mount"

(* Mutant: what the writers still have in memory is not written. *)
AfterCopyOpened == "spawn"

AfterCopy == "finish"

CopySome ==
  /\ At("copy") /\ ~direct
  /\ MayRead
  /\ copied' = "partial"
  /\ Goto("copy")
  /\ UNCHANGED <<command, direct, abandoned, killOnClose, drive, canceled, cleanup, guardVars, viewVars>>

CopyRest ==
  /\ At("copy") /\ ~direct
  /\ MayRead
  /\ copied' = "partial"
  /\ Goto(AfterCopy)
  /\ UNCHANGED <<command, direct, abandoned, killOnClose, drive, canceled, cleanup, guardVars, viewVars>>

(* The file is flushed and closed, or the index is built. *)
Finish ==
  /\ At("finish")
  /\ copied' = "complete"
  /\ Goto(IF command = "mount" THEN "serve" ELSE "spawn")
  /\ UNCHANGED <<command, direct, abandoned, killOnClose, drive, canceled, cleanup, guardVars, viewVars>>

-------------------------------------------------------------------------------
(* The server runs; that it cannot be mounted is only logged.  "net use"   *)
(* may also succeed with an output that is not understood: there is a      *)
(* drive then, but no MountedDrive that removes it.                        *)
Mount ==
  /\ At("serve")
  /\ \/ Guard!Create("link") /\ Goto("guard") /\ UNCHANGED drive
     \/ drive' \in {"mounted", "unowned"} /\ Goto("wait") /\ UNCHANGED guardVars
     \/ Goto("wait") /\ UNCHANGED <<drive, guardVars>>
  /\ UNCHANGED <<command, direct, copied, abandoned, killOnClose, canceled, cleanup, viewVars>>

Wait ==
  /\ At("wait")
  /\ canceled
  /\ Throw
  /\ UNCHANGED <<runVars, canceled, cleanup, guardVars, viewVars>>

-------------------------------------------------------------------------------
(* QDirStat, or the first place where WizTree may be; Fail is that there   *)
(* is no other.                                                            *)
Spawn ==
  /\ At("spawn")
  /\ viewer' = "running"
  /\ Goto("watch")
  /\ UNCHANGED <<runVars, canceled, cleanup, guardVars, worker>>

SpawnFails ==
  /\ At("spawn")
  /\ command = "wiz-tree-open"
  /\ Goto("peek")
  /\ UNCHANGED <<runVars, canceled, cleanup, guardVars, viewVars>>

(* run_wiz_tree peeks at the next place, which already starts WizTree, and *)
(* then looks at the signal; it loses a process that it has started.       *)
Peek ==
  /\ At("peek")
  /\ viewer' \in {"none", "running"}
  /\ Goto("check")
  /\ UNCHANGED <<runVars, canceled, cleanup, guardVars, worker>>

Check ==
  /\ At("check")
  /\ IF canceled
       THEN Throw /\ abandoned' = (viewer # "none")
       ELSE /\ IF viewer # "none" THEN Goto("watch") ELSE Throw \/ Goto("peek")
            /\ UNCHANGED abandoned
  /\ UNCHANGED <<command, direct, copied, killOnClose, drive, canceled, cleanup, guardVars, viewVars>>

(* try_wait *)
Watch ==
  /\ At("watch")
  /\ \/ Runs(viewer) /\ Goto("sleep")
     \/ viewer = "ok" /\ command = "wiz-tree-open" /\ Goto("child")
     \/ viewer = "ok" /\ command # "wiz-tree-open" /\ Leave("ok")
     \/ ~Runs(viewer) /\ viewer # "ok" /\ Throw
  /\ UNCHANGED <<runVars, canceled, cleanup, guardVars, viewVars>>

(* Mutant: the request to cancel is not looked at. *)
SleepDeaf ==
  /\ At("sleep")
  /\ Goto("watch")
  /\ UNCHANGED <<runVars, canceled, cleanup, guardVars, viewVars>>

(* wait_timeout; what was killed is only waited for in run_wiz_tree. *)
Sleep ==
  /\ At("sleep")
  /\ IF canceled
       THEN /\ viewer' = IF Runs(viewer) THEN "dying" ELSE viewer
            /\ IF command = "wiz-tree-open" THEN Goto("reap") ELSE Throw
       ELSE Goto("watch") /\ UNCHANGED viewer
  /\ UNCHANGED <<runVars, canceled, cleanup, guardVars, worker>>

Reap ==
  /\ At("reap")
  /\ ~Runs(viewer)
  /\ Throw
  /\ UNCHANGED <<runVars, canceled, cleanup, guardVars, viewVars>>

(* try_wait, kill or wait fails; q-dir-stat-open looks again. *)
Abandon ==
  /\ alive /\ command = "wiz-tree-open"
  /\ pc \in {"watch", "reap"} \/ (pc = "sleep" /\ canceled)
  /\ abandoned' = TRUE
  /\ Throw
  /\ UNCHANGED <<command, direct, copied, killOnClose, drive, canceled, cleanup, guardVars, viewVars>>

(* The instance that WizTree started is watched until it ends. *)
WatchWorker ==
  /\ At("child")
  /\ IF ~Runs(worker) THEN Goto("clear") ELSE canceled /\ Throw
  /\ UNCHANGED <<runVars, canceled, cleanup, guardVars, viewVars>>

(* clear_kill_on_job_close: programs that WizTree started may go on. *)
ClearJob ==
  /\ At("clear")
  /\ killOnClose' = FALSE
  /\ Leave("ok")
  /\ UNCHANGED <<command, direct, copied, abandoned, drive, canceled, cleanup, guardVars, viewVars>>

-------------------------------------------------------------------------------
(* The drops *)

(* A file that cannot be removed stays, without an error. *)
DropPath ==
  /\ At("dropPath")
  /\ IF file[MyPath] = "present" /\ Removable(MyPath) THEN Guard!Delete(MyPath)
                                                      ELSE UNCHANGED guardVars
  /\ Goto(IF command = "mount" THEN "return" ELSE "quit")
  /\ UNCHANGED <<runVars, canceled, cleanup, viewVars>>

Quit ==
  /\ At("quit")
  /\ IF cleanup = "running" THEN Guard!Leave("quit") ELSE UNCHANGED guardVars
  /\ Goto(IF FirstDrop = "quit" THEN "dropDrive" ELSE "return")
  /\ UNCHANGED <<runVars, canceled, cleanup, viewVars>>

(* "net use /delete", after the server has ended. *)
DropDrive ==
  /\ At("dropDrive")
  /\ drive' \in IF drive = "mounted" THEN {"none", "stuck"} ELSE {drive}
  /\ Goto("dropPath")
  /\ UNCHANGED <<command, direct, copied, abandoned, killOnClose, canceled, cleanup, guardVars, viewVars>>

(* The process ends, by itself, killed, or by the second Ctrl-C. *)
End ==
  /\ alive
  /\ alive' = FALSE
  /\ IF stage = "working" THEN Guard!Leave("crashed") ELSE UNCHANGED guardVars
  /\ UNCHANGED <<runVars, pc, status, canceled, cleanup, viewVars>>

Return == At("return") /\ End

-------------------------------------------------------------------------------
(* Other threads and processes *)

(* Ctrl-C, or the thread that finds the cleanup process dead. *)
Interrupt ==
  /\ alive
  /\ ~canceled
  /\ canceled' = TRUE
  /\ UNCHANGED <<alive, runVars, pc, status, cleanup, guardVars, viewVars>>

CleanupDies ==
  /\ cleanup = "running"
  /\ stage # "quit"
  /\ cleanup' = "dead"
  /\ UNCHANGED <<alive, runVars, pc, status, canceled, guardVars, viewVars>>

CleanUp(p) ==
  /\ cleanup = "running"
  /\ Removable(p)
  /\ Guard!CleanUp(p)
  /\ UNCHANGED <<alive, runVars, pc, status, canceled, cleanup, viewVars>>

(* A viewer opens its file, if it is there, and closes it, and ends when   *)
(* its user wants to.                                                      *)
MayOpen == IF direct \/ file["copy"] = "present" THEN {"reading"} ELSE {}

ViewerStep ==
  /\ \/ viewer \in {"running", "reading"}
        /\ viewer' \in ({"running", "ok", "failed"} \cup MayOpen) \ {viewer}
        /\ UNCHANGED worker
     \/ worker \in {"running", "reading"}
        /\ worker' \in ({"running", "ok"} \cup MayOpen) \ {worker}
        /\ UNCHANGED viewer
     \/ command = "wiz-tree-open" /\ viewer = "running" /\ worker = "none"
        /\ worker' = "running"
        /\ UNCHANGED viewer
  /\ UNCHANGED <<alive, runVars, pc, status, canceled, cleanup, guardVars>>

Die ==
  /\ viewer = "dying"
  /\ viewer' = "killed"
  /\ UNCHANGED <<alive, runVars, pc, status, canceled, cleanup, guardVars, worker>>

CloseJob ==
  /\ ~alive /\ killOnClose
  /\ Runs(viewer) \/ Runs(worker)
  /\ viewer' = IF Runs(viewer) THEN "killed" ELSE viewer
  /\ worker' = IF Runs(worker) THEN "killed" ELSE worker
  /\ UNCHANGED <<alive, runVars, pc, status, canceled, cleanup, guardVars>>

-------------------------------------------------------------------------------
RunStep ==
  \/ Fail \/ Begin \/ CreateCopy \/ GuardPath \/ OpenInput \/ Forward
  \/ CopySome \/ CopyRest \/ Finish \/ Mount \/ Wait
  \/ Spawn \/ SpawnFails \/ Peek \/ Check \/ Watch \/ Sleep \/ Reap \/ Abandon \/ WatchWorker \/ ClearJob
  \/ DropPath \/ Quit \/ DropDrive \/ Return

Next ==
  \/ RunStep \/ End
  \/ Interrupt \/ CleanupDies \/ (\E p \in Paths : CleanUp(p))
  \/ ViewerStep \/ Die \/ CloseJob

Spec == Init /\ [][Next]_vars

(* The program is scheduled, the input ends, a killed process ends and so  *)
(* do the processes of a closed job, and the cleanup process works.  The   *)
(* user need not interrupt and may leave the viewer open.                  *)
Fairness ==
  /\ WF_vars(RunStep)
  /\ WF_vars(Die) /\ WF_vars(CloseJob)
  /\ \A p \in Paths : WF_vars(CleanUp(p))

FairSpec == Spec /\ Fairness

-------------------------------------------------------------------------------
(* Who has the file open reads the whole backup.  And the file does not go *)
(* away from a viewer that may still open it (WizTree, the instance that   *)
(* WizTree started, QDirStat): it is not removed while one of them runs,   *)
(* also if that is only the second instance.  The exceptions are: WizTree  *)
(* was lost (a system call failed, or peek() had started it when the       *)
(* request to cancel came); the program died and the cleanup process is    *)
(* faster than the job; and for the second instance, which nobody kills, a *)
(* request to cancel or WizTree's exit with an error.                      *)
ViewersSeeAll ==
  LET whole == direct \/ (file["copy"] = "present" /\ copied = "complete")
      lost == abandoned \/ (stage = "crashed" /\ cleanup # "none") IN
  /\ "reading" \in {viewer, worker} => whole
  /\ viewer = "running" => whole \/ lost
  /\ worker = "running" => whole \/ lost \/ canceled \/ viewer = "failed"

(* What stays when all has ended, after errors, requests to cancel and     *)
(* crashes at any point, and only that: a file that has no cleanup process *)
(* when the program dies, or is not known to it yet; the link, in a crash  *)
(* after Quit; and a file that WizTree or its second instance kept open,   *)
(* because its exit was not waited for.  The drive stays in a crash before *)
(* it is removed, if "net use" cannot remove it, which is only logged, and *)
(* if its letter was not understood.                                       *)
OnlyTheseAreLeft ==
  LET isLeft(p) == /\ ~alive /\ file[p] = "present"
                   /\ ~(stage = "crashed" /\ p \in guarded /\ cleanup = "running") IN
  /\ \A p \in Paths : isLeft(p) =>
       \/ cleanup # "running" /\ pc # "return"
       \/ pc = "guard"
       \/ p = "link" /\ stage = "quit" /\ pc \in {"dropDrive", "dropPath"}
       \/ p = "copy" /\ command = "wiz-tree-open" /\ (worker # "none" \/ abandoned)
  /\ ~alive =>
       \/ drive \in {"none", "stuck", "unowned"}
       \/ drive = "mounted" /\ pc \in {"wait", "quit", "dropDrive"}

(* A request to cancel ends the command, whether it copies, serves, or     *)
(* watches a viewer; and when it has ended with an error or a crash, no    *)
(* WizTree that wiz-tree-open started, or that this one started, goes on.  *)
ViewEnds ==
  (canceled \/ ~alive)
    ~> /\ status # "none" \/ ~alive
       /\ command = "wiz-tree-open" /\ status # "ok" => ~(Runs(viewer) \/ Runs(worker))
===============================================================================
