----------------------------- MODULE WizTreeBackup -----------------------------
(***************************************************************************)
(* wiztree_backup.rs with run_wiz_tree of utils.rs: the thread that runs   *)
(* the backup, its progress thread, the Ctrl-C handler, the WizTree        *)
(* process and the second instance that it may start to do its work.  The  *)
(* cancel signals and the cleanup process are used through what they       *)
(* promise, CancelTree and TempFileGuard.                                  *)
(*                                                                         *)
(* The export file is a path of this disk ("export"), or lies in a file    *)
(* system kept in memory: mounted by WinFsp, which leaves nothing behind,  *)
(* or served by WebDAV behind a symbolic link ("link").                    *)
(***************************************************************************)
EXTENDS Naturals

CONSTANT MaxCandidates  \* bound: places where the WizTree executable may be

ASSUME CandidatesAssumption == MaxCandidates \in Nat

VARIABLES alive,       \* this program runs
          mode,        \* where WizTree's export goes
          pc,          \* where WizTreeBackupOpts::run is
          status,      \* what it is going to return
          candidates,  \* executables not tried yet
          abandoned,   \* run_wiz_tree left without the exit of the WizTree it started
          progress,    \* the thread of the progress spinner
          canceled, reason, links,  \* see CancelTree
          cleanup,     \* the cleanup process
          guarded, stage, file,     \* see TempFileGuard
          wiz,         \* the WizTree process
          worker,      \* the instance that WizTree started
          export,      \* content of the export file
          output       \* content of the output

runVars == <<mode, pc, status, candidates, abandoned, output>>
signalVars == <<canceled, reason, links>>
guardVars == <<guarded, stage, file>>
wizVars == <<wiz, worker, export>>
vars == <<alive, runVars, progress, signalVars, cleanup, guardVars, wizVars>>

Paths == {"export", "link"}

(* The signal that main gives to run, and its child for the progress thread. *)
Signal == INSTANCE CancelTree WITH
            Signals <- {"run", "progress"},
            Reasons <- [run |-> {"Ctrl-C", "cleanup failed"}, progress |-> {"none"}],
            NoReason <- "none"

Guard == INSTANCE TempFileGuard

-------------------------------------------------------------------------------
Mode == {"plain", "webdav", "winfsp"}

PC == {"begin", "mount", "guardLink", "create", "guardExport", "output", "progress",
       "spawn", "peek", "check", "poll", "sleep", "reap", "list", "child", "childWait",
       "stop", "join", "open", "copy", "finish", "close",
       "unwind", "dropPath", "quit", "return"}

(* A started instance opens the export file some time later; a "dying" one *)
(* was killed and its handles may still be open.                           *)
Process == {"none", "started", "exporting", "dying", "ok", "failed", "killed"}

Runs(process) == process \in {"started", "exporting", "dying"}

(* WizTree opens its files so that nobody else can open or remove them. *)
ExportHeld == \E w \in {wiz, worker} : w \in {"exporting", "dying"}

Canceled == "run" \in canceled

(* The path on this disk that the run must remove. *)
TempPath ==
  IF mode = "plain" THEN "export" ELSE IF mode = "webdav" THEN "link" ELSE "nothing"

Removable(p) == p = "export" => ~ExportHeld

Init ==
  /\ alive = TRUE
  /\ mode \in Mode
  /\ pc = "begin"
  /\ status = "none"
  /\ candidates \in 0..MaxCandidates
  /\ abandoned = FALSE
  /\ progress = "none"
  /\ Signal!Init
  /\ cleanup = "none"
  /\ Guard!Init
  /\ wiz = "none"
  /\ worker = "none"
  /\ export = "none"
  /\ output = "none"

-------------------------------------------------------------------------------
(* WizTreeBackupOpts::run up to the start of WizTree *)

At(label) == alive /\ pc = label

Goto(label) ==
  /\ pc' = label
  /\ UNCHANGED <<alive, mode, status>>

(* A `?` or bail: the values of the scopes are dropped. *)
Throw ==
  /\ pc' = "unwind"
  /\ status' = "error"
  /\ UNCHANGED <<alive, mode>>

(* Operations of the system that may fail where the code gives up. *)
Fail ==
  /\ alive
  /\ pc \in {"begin", "mount", "create", "output", "list", "child", "open", "copy", "finish"}
  /\ Throw
  /\ UNCHANGED <<candidates, abandoned, progress, signalVars, cleanup, guardVars, wizVars, output>>

(* The job and the cleanup process; the run goes on without the second. *)
Begin ==
  /\ At("begin")
  /\ cleanup' \in {"none", "running"}
  /\ Goto(IF mode = "plain" THEN "create" ELSE "mount")
  /\ UNCHANGED <<candidates, abandoned, progress, signalVars, guardVars, wizVars, output>>

Mount ==
  /\ At("mount")
  /\ IF mode = "webdav"
       THEN Guard!Create("link") /\ Goto("guardLink")
       ELSE UNCHANGED guardVars /\ Goto("create")
  /\ UNCHANGED <<candidates, abandoned, progress, signalVars, cleanup, wizVars, output>>

(* Mutant: the guard value is dropped at once, without always(). *)
GuardDropped(p) == UNCHANGED guardVars

(* guard_temp_dir or guard_temp_file followed by always(). *)
GuardAlways(p) ==
  IF cleanup = "running" THEN Guard!Guard(p) ELSE UNCHANGED guardVars

GuardLink ==
  /\ At("guardLink")
  /\ GuardAlways("link")
  /\ Goto("create")
  /\ UNCHANGED <<candidates, abandoned, progress, signalVars, cleanup, wizVars, output>>

Create ==
  /\ At("create")
  /\ IF mode = "plain"
       THEN Guard!Create("export") /\ Goto("guardExport")
       ELSE UNCHANGED guardVars /\ Goto("output")
  /\ export' = "empty"
  /\ UNCHANGED <<candidates, abandoned, progress, signalVars, cleanup, wiz, worker, output>>

GuardExport ==
  /\ At("guardExport")
  /\ GuardAlways("export")
  /\ Goto("output")
  /\ UNCHANGED <<candidates, abandoned, progress, signalVars, cleanup, wizVars, output>>

CreateOutput ==
  /\ At("output")
  /\ output' = "empty"
  /\ Goto("progress")
  /\ UNCHANGED <<candidates, abandoned, progress, signalVars, cleanup, guardVars, wizVars>>

(* new_child_signal; there is no thread if the spinner is hidden. *)
StartProgress ==
  /\ At("progress")
  /\ Signal!Link("progress", "run")
  /\ progress' \in {"none", "running"}
  /\ Goto("spawn")
  /\ UNCHANGED <<candidates, abandoned, cleanup, guardVars, wizVars, output>>

-------------------------------------------------------------------------------
(* run_wiz_tree *)

NoCandidate ==
  /\ At("spawn")
  /\ candidates = 0
  /\ Throw
  /\ UNCHANGED <<candidates, abandoned, progress, signalVars, cleanup, guardVars, wizVars, output>>

(* The first candidate. *)
Spawn ==
  /\ At("spawn")
  /\ candidates > 0
  /\ candidates' = candidates - 1
  /\ wiz' = "started"
  /\ Goto("poll")
  /\ UNCHANGED <<abandoned, progress, signalVars, cleanup, guardVars, worker, export, output>>

SpawnFails ==
  /\ At("spawn")
  /\ candidates > 0
  /\ candidates' = candidates - 1
  /\ IF candidates = 1 THEN Throw ELSE Goto("peek")
  /\ UNCHANGED <<abandoned, progress, signalVars, cleanup, guardVars, wizVars, output>>

(* peek() already starts the next candidate, if that is possible. *)
Peek ==
  /\ At("peek")
  /\ candidates > 0
  /\ candidates' = candidates - 1
  /\ wiz' \in {"none", "started"}
  /\ Goto("check")
  /\ UNCHANGED <<abandoned, progress, signalVars, cleanup, guardVars, worker, export, output>>

(* as_error()? drops a process that peek() has started: it is neither      *)
(* killed nor waited for.  Else next() returns what peek() has seen.       *)
Check ==
  /\ At("check")
  /\ IF Canceled
       THEN Throw /\ abandoned' = (wiz # "none")
       ELSE /\ IF wiz # "none" THEN Goto("poll")
               ELSE IF candidates = 0 THEN Throw ELSE Goto("peek")
            /\ UNCHANGED abandoned
  /\ UNCHANGED <<candidates, progress, signalVars, cleanup, guardVars, wizVars, output>>

(* try_wait *)
Poll ==
  /\ At("poll")
  /\ \/ Runs(wiz) /\ Goto("sleep")
     \/ wiz = "ok" /\ Goto("list")
     \/ wiz # "ok" /\ ~Runs(wiz) /\ Throw
  /\ UNCHANGED <<candidates, abandoned, progress, signalVars, cleanup, guardVars, wizVars, output>>

(* wait_timeout until the next look at the process. *)
Sleep ==
  /\ At("sleep")
  /\ ~Canceled
  /\ Goto("poll")
  /\ UNCHANGED <<candidates, abandoned, progress, signalVars, cleanup, guardVars, wizVars, output>>

Kill ==
  /\ At("sleep")
  /\ Canceled
  /\ wiz' = IF Runs(wiz) THEN "dying" ELSE wiz
  /\ Goto("reap")
  /\ UNCHANGED <<candidates, abandoned, progress, signalVars, cleanup, guardVars, worker, export, output>>

(* Mutant: the killed process is not waited for. *)
ReapNothing ==
  /\ At("reap")
  /\ Throw
  /\ UNCHANGED <<candidates, abandoned, progress, signalVars, cleanup, guardVars, wizVars, output>>

Reap ==
  /\ At("reap")
  /\ ~Runs(wiz)
  /\ Throw
  /\ UNCHANGED <<candidates, abandoned, progress, signalVars, cleanup, guardVars, wizVars, output>>

(* try_wait, kill or wait fails. *)
Abandon ==
  /\ alive
  /\ \/ pc \in {"poll", "reap"}
     \/ pc = "sleep" /\ Canceled
  /\ abandoned' = TRUE
  /\ Throw
  /\ UNCHANGED <<candidates, progress, signalVars, cleanup, guardVars, wizVars, output>>

(* Mutant: the exit of the process that was started is enough. *)
ListNothing ==
  /\ At("list")
  /\ Goto("stop")
  /\ UNCHANGED <<candidates, abandoned, progress, signalVars, cleanup, guardVars, wizVars, output>>

(* The processes of the job that WizTree started and that are WizTree too. *)
List ==
  /\ At("list")
  /\ Goto(IF Runs(worker) THEN "child" ELSE "stop")
  /\ UNCHANGED <<candidates, abandoned, progress, signalVars, cleanup, guardVars, wizVars, output>>

ListAgain ==
  /\ At("child")
  /\ Goto(IF Runs(worker) THEN "childWait" ELSE "stop")
  /\ UNCHANGED <<candidates, abandoned, progress, signalVars, cleanup, guardVars, wizVars, output>>

(* Mutant: the loop ignores the signal. *)
WaitChildDeaf ==
  /\ At("childWait")
  /\ Goto("child")
  /\ UNCHANGED <<candidates, abandoned, progress, signalVars, cleanup, guardVars, wizVars, output>>

(* wait_timeout and as_error. *)
WaitChild ==
  /\ At("childWait")
  /\ IF Canceled THEN Throw ELSE Goto("child")
  /\ UNCHANGED <<candidates, abandoned, progress, signalVars, cleanup, guardVars, wizVars, output>>

-------------------------------------------------------------------------------
(* After WizTree *)

(* The drop of pb_signal. *)
CancelProgress ==
  IF "progress" \in canceled THEN UNCHANGED signalVars ELSE Signal!Cancel("progress")

(* Mutant: the thread is joined before its signal is canceled. *)
StopNothing ==
  /\ At("stop")
  /\ Goto("join")
  /\ UNCHANGED <<candidates, abandoned, progress, signalVars, cleanup, guardVars, wizVars, output>>

Stop ==
  /\ At("stop")
  /\ CancelProgress
  /\ Goto("join")
  /\ UNCHANGED <<candidates, abandoned, progress, cleanup, guardVars, wizVars, output>>

Join ==
  /\ At("join")
  /\ progress # "running"
  /\ Goto("open")
  /\ UNCHANGED <<candidates, abandoned, progress, signalVars, cleanup, guardVars, wizVars, output>>

Open ==
  /\ At("open")
  /\ IF ExportHeld THEN Throw ELSE Goto("copy")
  /\ UNCHANGED <<candidates, abandoned, progress, signalVars, cleanup, guardVars, wizVars, output>>

(* One read through wrap_io: an error once the signal is canceled, else    *)
(* some of the file or its end.                                            *)
Copy ==
  /\ At("copy")
  /\ \/ Canceled /\ Throw /\ UNCHANGED output
     \/ ~Canceled /\ Goto("copy") /\ output' = "partial"
     \/ /\ ~Canceled
        /\ Goto("finish")
        /\ output' = IF export = "complete" THEN "copied" ELSE "partial"
  /\ UNCHANGED <<candidates, abandoned, progress, signalVars, cleanup, guardVars, wizVars>>

(* The end of the gzip stream, or the flush. *)
Finish ==
  /\ At("finish")
  /\ output' = IF output = "copied" THEN "complete" ELSE output
  /\ Goto("close")
  /\ UNCHANGED <<candidates, abandoned, progress, signalVars, cleanup, guardVars, wizVars>>

(* close() of the path that is to be removed, with an error if that fails. *)
Close ==
  /\ At("close")
  /\ IF TempPath \notin Paths
       THEN UNCHANGED guardVars
       ELSE IF Removable(TempPath) THEN Guard!Delete(TempPath) ELSE UNCHANGED guardVars
  /\ status' = IF TempPath \in Paths /\ ~Removable(TempPath) THEN "error" ELSE "ok"
  /\ pc' = "quit"
  /\ UNCHANGED <<alive, mode, candidates, abandoned, progress, signalVars, cleanup, wizVars, output>>

-------------------------------------------------------------------------------
(* The drops *)

(* pb_signal, if the error was raised in its scope. *)
Unwind ==
  /\ At("unwind")
  /\ IF "progress" \in {l[1] : l \in links} THEN CancelProgress ELSE UNCHANGED signalVars
  /\ Goto("dropPath")
  /\ UNCHANGED <<candidates, abandoned, progress, cleanup, guardVars, wizVars, output>>

(* TempPath or TempDirPath: a file that cannot be removed stays. *)
DropPath ==
  /\ At("dropPath")
  /\ IF TempPath \in Paths /\ file[TempPath] = "present" /\ Removable(TempPath)
       THEN Guard!Delete(TempPath)
       ELSE UNCHANGED guardVars
  /\ Goto("quit")
  /\ UNCHANGED <<candidates, abandoned, progress, signalVars, cleanup, wizVars, output>>

(* The CleanupProcess was made first and goes last. *)
Quit ==
  /\ At("quit")
  /\ IF cleanup = "running" THEN Guard!Leave("quit") ELSE UNCHANGED guardVars
  /\ Goto("return")
  /\ UNCHANGED <<candidates, abandoned, progress, signalVars, cleanup, wizVars, output>>

(* The process ends, by itself, killed, or by the second Ctrl-C. *)
End ==
  /\ alive
  /\ alive' = FALSE
  /\ IF stage = "working" THEN Guard!Leave("crashed") ELSE UNCHANGED guardVars
  /\ UNCHANGED <<runVars, progress, signalVars, cleanup, wizVars>>

Return == At("return") /\ End

-------------------------------------------------------------------------------
(* Other threads of the program *)

(* The first Ctrl-C. *)
Interrupt ==
  /\ alive
  /\ Signal!BecomeCanceled("run", "Ctrl-C")
  /\ UNCHANGED <<alive, runVars, progress, cleanup, guardVars, wizVars>>

Propagate ==
  /\ alive
  /\ Signal!Inherit("progress", "run")
  /\ UNCHANGED <<alive, runVars, progress, cleanup, guardVars, wizVars>>

EndProgress ==
  /\ alive
  /\ progress = "running"
  /\ "progress" \in canceled
  /\ progress' = "ended"
  /\ UNCHANGED <<alive, runVars, signalVars, cleanup, guardVars, wizVars>>

(* The thread that waits for the cleanup process. *)
NoticeCleanup ==
  /\ alive
  /\ cleanup = "dead"
  /\ Signal!BecomeCanceled("run", "cleanup failed")
  /\ UNCHANGED <<alive, runVars, progress, cleanup, guardVars, wizVars>>

-------------------------------------------------------------------------------
(* Other processes *)

(* The cleanup process is killed, or gives up on files that stay open. *)
CleanupDies ==
  /\ cleanup = "running"
  /\ stage # "quit"
  /\ cleanup' = "dead"
  /\ UNCHANGED <<alive, runVars, progress, signalVars, guardVars, wizVars>>

CleanUp(p) ==
  /\ cleanup = "running"
  /\ Removable(p)
  /\ Guard!CleanUp(p)
  /\ UNCHANGED <<alive, runVars, progress, signalVars, cleanup, wizVars>>

(* WizTree starts a new instance of itself and exits early. *)
StartWorker ==
  /\ wiz = "started"
  /\ worker = "none"
  /\ worker' = "started"
  /\ UNCHANGED <<alive, runVars, progress, signalVars, cleanup, guardVars, wiz, export>>

LauncherExits ==
  /\ wiz = "started"
  /\ worker # "none"
  /\ wiz' = "ok"
  /\ UNCHANGED <<alive, runVars, progress, signalVars, cleanup, guardVars, worker, export>>

StartExport ==
  /\ \/ wiz = "started" /\ worker = "none" /\ wiz' = "exporting" /\ UNCHANGED worker
     \/ worker = "started" /\ worker' = "exporting" /\ UNCHANGED wiz
  /\ export' = "partial"
  /\ UNCHANGED <<alive, runVars, progress, signalVars, cleanup, guardVars>>

FinishExport ==
  /\ \/ wiz = "exporting" /\ wiz' = "ok" /\ UNCHANGED worker
     \/ worker = "exporting" /\ worker' = "ok" /\ UNCHANGED wiz
  /\ export' = "complete"
  /\ UNCHANGED <<alive, runVars, progress, signalVars, cleanup, guardVars>>

(* An instance fails or is closed by the user. *)
FailExport ==
  /\ \/ wiz \in {"started", "exporting"} /\ wiz' = "failed" /\ UNCHANGED worker
     \/ worker \in {"started", "exporting"} /\ worker' = "failed" /\ UNCHANGED wiz
  /\ UNCHANGED <<alive, runVars, progress, signalVars, cleanup, guardVars, export>>

Die ==
  /\ wiz = "dying"
  /\ wiz' = "killed"
  /\ UNCHANGED <<alive, runVars, progress, signalVars, cleanup, guardVars, worker, export>>

(* Mutant: the job does not have KILL_ON_JOB_CLOSE. *)
CloseJobOnly ==
  /\ ~alive
  /\ Runs(wiz)
  /\ wiz' = "killed"
  /\ UNCHANGED <<alive, runVars, progress, signalVars, cleanup, guardVars, worker, export>>

(* The job is closed with this process and takes all of WizTree with it. *)
CloseJob ==
  /\ ~alive
  /\ Runs(wiz) \/ Runs(worker)
  /\ wiz' = IF Runs(wiz) THEN "killed" ELSE wiz
  /\ worker' = IF Runs(worker) THEN "killed" ELSE worker
  /\ UNCHANGED <<alive, runVars, progress, signalVars, cleanup, guardVars, export>>

-------------------------------------------------------------------------------
RunStep ==
  \/ Begin \/ Mount \/ GuardLink \/ Create \/ GuardExport \/ CreateOutput \/ StartProgress
  \/ NoCandidate \/ Spawn \/ SpawnFails \/ Peek \/ Check \/ Poll \/ Sleep \/ Kill \/ Reap \/ List \/ ListAgain \/ WaitChild
  \/ Stop \/ Join \/ Open \/ Copy \/ Finish \/ Close
  \/ Unwind \/ DropPath \/ Quit \/ Return
  \/ Fail \/ Abandon

WizStep ==
  StartWorker \/ LauncherExits \/ StartExport \/ FinishExport \/ FailExport \/ Die

Next ==
  \/ RunStep
  \/ Interrupt \/ Propagate \/ EndProgress \/ NoticeCleanup \/ End
  \/ WizStep \/ CloseJob
  \/ CleanupDies
  \/ \E p \in Paths : CleanUp(p)

Spec == Init /\ [][Next]_vars

(* The threads of the program and CancelTree's implementation make         *)
(* progress, a killed process ends, and so do the processes of a closed    *)
(* job.  WizTree itself may run for ever, and nobody has to interrupt.     *)
FairSpec ==
  /\ Spec
  /\ WF_vars(RunStep) /\ WF_vars(Propagate) /\ WF_vars(EndProgress)
  /\ WF_vars(Die) /\ WF_vars(CloseJob)
  /\ \A p \in Paths : WF_vars(CleanUp(p))

-------------------------------------------------------------------------------
TypeOK ==
  /\ alive \in BOOLEAN
  /\ mode \in Mode
  /\ pc \in PC
  /\ status \in {"none", "ok", "error"}
  /\ candidates \in 0..MaxCandidates
  /\ abandoned \in BOOLEAN
  /\ progress \in {"none", "running", "ended"}
  /\ canceled \in SUBSET {"run", "progress"}
  /\ reason \in [{"run", "progress"} -> {"none", "Ctrl-C", "cleanup failed"}]
  /\ links \in SUBSET {<<"progress", "run">>}
  /\ cleanup \in {"none", "running", "dead"}
  /\ guarded \in SUBSET Paths
  /\ stage \in {"working", "quit", "crashed"}
  /\ file \in [Paths -> {"new", "present", "gone"}]
  /\ wiz \in Process
  /\ worker \in Process
  /\ export \in {"none", "empty", "partial", "complete"}
  /\ output \in {"none", "empty", "partial", "copied", "complete"}

(* A run that reports success wrote a complete backup and left no          *)
(* temporary file, although WizTree may hand its work to a second process, *)
(* a cancel request may come at any time and each operation may fail.  The *)
(* exception is what lines 396-407 of utils.rs warn of: the second         *)
(* instance fails and its exit code is not seen.                           *)
SuccessIsComplete ==
  status = "ok" /\ worker # "failed" =>
    /\ output = "complete"
    /\ \A p \in Paths : file[p] # "present"

(* While the program works each temporary path it has on the disk is known *)
(* to the cleanup process, if there is one, up to one step of the run: the *)
(* path is created before the guard call.                                  *)
GuardedWhilePresent ==
  \A p \in Paths :
    alive /\ cleanup = "running" /\ file[p] = "present" /\ stage = "working" =>
      \/ p \in guarded
      \/ pc = (IF p = "link" THEN "guardLink" ELSE "guardExport")

(* Quit tells the cleanup process that nothing is left.  That is true      *)
(* except when somebody else than the reaped WizTree process could still   *)
(* hold the export file: an instance that WizTree started, or WizTree      *)
(* itself, if a system call failed or if the request to cancel came after  *)
(* peek() had started it in place of a candidate that cannot be started.   *)
QuitMeansClean ==
  stage = "quit" =>
    \A p \in Paths :
      file[p] = "present" => p = "export" /\ (worker # "none" \/ abandoned)

(* A cancel request ends the run in every phase: while WizTree or its      *)
(* second instance works, while data is copied and while threads are       *)
(* joined.                                                                 *)
CancelEndsRun == Canceled ~> (status # "none" \/ ~alive)

(* Once WizTree and its second instance have ended, so does the run.       *)
WizTreeEndsRun ==
  (wiz \notin {"none", "started", "exporting"} /\ ~Runs(worker)) ~> (status # "none" \/ ~alive)

(* After a crash the guarded path disappears, although WizTree may have    *)
(* been holding it, unless the cleanup process is dead.                    *)
CrashCleansUp ==
  \A p \in Paths :
    (stage = "crashed" /\ p \in guarded) ~> (file[p] # "present" \/ cleanup # "running")
===============================================================================
