---------------------------- MODULE CleanupProcess ----------------------------
(***************************************************************************)
(* cleanup.rs: a second process that removes the temporary files of the    *)
(* program when the program dies.  The threads of the program share one    *)
(* CleanupProcess (an Arc) and write messages to the child's stdin; the    *)
(* child remembers paths and, when stdin ends without a Quit, removes      *)
(* them, retrying for ten seconds.                                         *)
(*                                                                         *)
(* A message is a command followed by a path (length and bytes are one     *)
(* token here: a pipe that ends inside of either is the same EOF to        *)
(* read_exact).  Whether a path is a file or a directory is a fact about   *)
(* the path, so AddTempFile and AddTempDir are both "Add", and the two     *)
(* sets of the child are one.                                              *)
(***************************************************************************)
EXTENDS Naturals, Sequences

CONSTANTS Threads,   \* threads of the program that use the cleanup process
          Files,     \* paths of temporary files
          Dirs,      \* paths of temporary directories
          Nobody,    \* no thread
          NoPath,    \* no path
          MaxPipe    \* tokens the pipe takes before a write blocks

TempPaths == Files \cup Dirs
Headers == {"Add", "Remove"}
Tokens == Headers \cup {"Quit"} \cup TempPaths

ASSUME ConstantsAssumption ==
  /\ Nobody \notin Threads
  /\ NoPath \notin TempPaths
  /\ TempPaths \cap (Headers \cup {"Quit"}) = {}
  /\ MaxPipe \in Nat \ {0}

VARIABLES programAlive,  \* the program runs
          owners,      \* threads that hold a clone of the Arc
          holder,      \* for each path the thread with a guard value for it
          guard,       \* the thread inside the guard mutex
          thread,      \* what each thread is doing
          pipe,        \* tokens written and not read
          child,       \* where the child is
          header,      \* the command whose path the child reads next
          remembered,  \* temp_files and temp_dirs of the child
          pass,        \* paths that this round of the clean up has still to try
          late,        \* ten seconds have passed since the clean up started
          tempFile,    \* each path: "new" never created, "present" or "gone"
          held,        \* paths that another process keeps open
          spawnCanceled  \* the cancel signal given to spawn

parentVars == <<owners, holder, guard, thread>>
childVars == <<child, header, remembered, pass, late>>
fileVars == <<tempFile, held>>
cleanupVars == <<programAlive, parentVars, pipe, childVars, fileVars, spawnCanceled>>

(* "quit", "cleaned" and "gaveup" are exits with success. *)
ChildState == {"command", "body", "clean", "quit", "cleaned", "gaveup", "killed"}

Thread == [pc : {"idle", "start", "body", "quit"}, command : Headers \cup {"none"},
           path : TempPaths \cup {NoPath}]
IdleThread == [pc |-> "idle", command |-> "none", path |-> NoPath]

CleanupInit ==
  /\ programAlive = TRUE
  /\ owners = Threads
  /\ holder = [p \in TempPaths |-> Nobody]
  /\ guard = Nobody
  /\ thread = [t \in Threads |-> IdleThread]
  /\ pipe = <<>>
  /\ child = "command"
  /\ header = "none"
  /\ remembered = {}
  /\ pass = {}
  /\ late = FALSE
  /\ tempFile = [p \in TempPaths |-> "new"]
  /\ held = {}
  /\ spawnCanceled = FALSE

-------------------------------------------------------------------------------
(* The program's side *)

Reading == child \in {"command", "body"}

(* write_all of one token: it waits while the pipe is full and fails once  *)
(* the child is gone.                                                      *)
Write(token) ==
  /\ Reading
  /\ Len(pipe) < MaxPipe
  /\ pipe' = Append(pipe, token)

(* A thread whose call is over runs the drop of CleanupProcess when it let *)
(* the last reference go.                                                  *)
EndCall(t, os, hs) ==
  thread' = [thread EXCEPT ![t] =
    IF os = {} /\ \A p \in TempPaths : hs[p] = Nobody
      THEN [IdleThread EXCEPT !.pc = "quit"]
      ELSE IdleThread]

CallGuard(t, p) ==
  /\ programAlive
  /\ thread[t].pc = "idle"
  /\ t \in owners
  /\ holder[p] = Nobody
  /\ \A u \in Threads : thread[u].path # p
  /\ thread' = [thread EXCEPT ![t] = [pc |-> "start", command |-> "Add", path |-> p]]
  /\ UNCHANGED <<programAlive, owners, holder, guard, pipe, childVars, fileVars, spawnCanceled>>

(* drop of a CleanupProcessTempFile or CleanupProcessTempDir. *)
CallDrop(t, p) ==
  /\ programAlive
  /\ thread[t].pc = "idle"
  /\ holder[p] = t
  /\ thread' = [thread EXCEPT ![t] = [pc |-> "start", command |-> "Remove", path |-> p]]
  /\ UNCHANGED <<programAlive, owners, holder, guard, pipe, childVars, fileVars, spawnCanceled>>

(* always: the guard value goes without a message. *)
Always(t, p) ==
  /\ programAlive
  /\ thread[t].pc = "idle"
  /\ holder[p] = t
  /\ holder' = [holder EXCEPT ![p] = Nobody]
  /\ EndCall(t, owners, holder')
  /\ UNCHANGED <<programAlive, owners, guard, pipe, childVars, fileVars, spawnCanceled>>

Release(t) ==
  /\ programAlive
  /\ thread[t].pc = "idle"
  /\ t \in owners
  /\ owners' = owners \ {t}
  /\ EndCall(t, owners', holder)
  /\ UNCHANGED <<programAlive, holder, guard, pipe, childVars, fileVars, spawnCanceled>>

(* Mutant: the command is written before the mutex is taken. *)
WriteCommandUnlocked(t) ==
  /\ programAlive
  /\ thread[t].pc = "start"
  /\ Write(thread[t].command)
  /\ guard' = t
  /\ thread' = [thread EXCEPT ![t].pc = "body"]
  /\ UNCHANGED <<programAlive, owners, holder, childVars, fileVars, spawnCanceled>>

(* Lock the mutex and write the command. *)
WriteCommand(t) ==
  /\ programAlive
  /\ thread[t].pc = "start"
  /\ guard = Nobody
  /\ Write(thread[t].command)
  /\ guard' = t
  /\ thread' = [thread EXCEPT ![t].pc = "body"]
  /\ UNCHANGED <<programAlive, owners, holder, childVars, fileVars, spawnCanceled>>

(* Write the path and unlock. *)
WriteBody(t) ==
  LET p == thread[t].path IN
  /\ programAlive
  /\ thread[t].pc = "body"
  /\ Write(p)
  /\ guard' = Nobody
  /\ holder' = [holder EXCEPT ![p] = IF thread[t].command = "Add" THEN t ELSE Nobody]
  /\ EndCall(t, owners, holder')
  /\ UNCHANGED <<programAlive, owners, childVars, fileVars, spawnCanceled>>

(* Mutant: the mutex stays locked when a write fails. *)
FailWriteKeepingGuard(t) ==
  /\ programAlive
  /\ ~Reading
  /\ \/ thread[t].pc = "start" /\ guard = Nobody
     \/ thread[t].pc = "body"
  /\ guard' = t
  /\ holder' = [holder EXCEPT ![thread[t].path] = Nobody]
  /\ EndCall(t, owners, holder')
  /\ UNCHANGED <<programAlive, owners, pipe, childVars, fileVars, spawnCanceled>>

(* A write fails, with a warning only.  A new guard value then has an      *)
(* empty path: its drop will send nothing, as if there was no value.       *)
FailWrite(t) ==
  /\ programAlive
  /\ ~Reading
  /\ \/ thread[t].pc = "start" /\ guard = Nobody
     \/ thread[t].pc = "body"
  /\ guard' = Nobody
  /\ holder' = [holder EXCEPT ![thread[t].path] = Nobody]
  /\ EndCall(t, owners, holder')
  /\ UNCHANGED <<programAlive, owners, pipe, childVars, fileVars, spawnCanceled>>

(* drop of CleanupProcess: nobody else can write, so it takes no mutex. *)
WriteQuit(t) ==
  /\ programAlive
  /\ thread[t].pc = "quit"
  /\ \/ Write("Quit")
     \/ ~Reading /\ UNCHANGED pipe
  /\ thread' = [thread EXCEPT ![t] = IdleThread]
  /\ UNCHANGED <<programAlive, owners, holder, guard, childVars, fileVars, spawnCanceled>>

(* Mutant: a child that ends without an exit code counts as success. *)
WaitCleanupNoCode ==
  /\ programAlive
  /\ child = "killed"
  /\ UNCHANGED cleanupVars

(* The thread of spawn that waits for the child's exit status. *)
WaitCleanup ==
  /\ programAlive
  /\ child = "killed"
  /\ spawnCanceled' = TRUE
  /\ UNCHANGED <<programAlive, parentVars, pipe, childVars, fileVars>>

(* The program is killed, or exits without running drops: its end of the   *)
(* pipe closes, what was written stays readable.                           *)
Crash ==
  /\ programAlive
  /\ programAlive' = FALSE
  /\ UNCHANGED <<parentVars, pipe, childVars, fileVars, spawnCanceled>>

(* The program creates its temporary files under random names, once, and   *)
(* removes them; other processes open and close them.                      *)
CreateTemp(p) ==
  /\ programAlive
  /\ tempFile[p] = "new"
  /\ tempFile' = [tempFile EXCEPT ![p] = "present"]
  /\ UNCHANGED <<programAlive, parentVars, pipe, childVars, held, spawnCanceled>>

DeleteTemp(p) ==
  /\ programAlive
  /\ tempFile[p] = "present"
  /\ p \notin held
  /\ tempFile' = [tempFile EXCEPT ![p] = "gone"]
  /\ UNCHANGED <<programAlive, parentVars, pipe, childVars, held, spawnCanceled>>

Hold(p) ==
  /\ tempFile[p] = "present"
  /\ held' = held \cup {p}
  /\ UNCHANGED <<programAlive, parentVars, pipe, childVars, tempFile, spawnCanceled>>

Unhold(p) ==
  /\ p \in held
  /\ held' = held \ {p}
  /\ UNCHANGED <<programAlive, parentVars, pipe, childVars, tempFile, spawnCanceled>>

-------------------------------------------------------------------------------
(* handle_cleanup *)

(* Mutant: Quit leaves the loop like an EOF. *)
ReadCommandQuitCleans ==
  /\ child = "command"
  /\ pipe # <<>>
  /\ pipe' = Tail(pipe)
  /\ IF Head(pipe) = "Quit"
       THEN child' = "clean" /\ pass' = remembered /\ UNCHANGED header
       ELSE child' = "body" /\ header' = Head(pipe) /\ UNCHANGED pass
  /\ UNCHANGED <<programAlive, parentVars, remembered, late, fileVars, spawnCanceled>>

ReadCommand ==
  /\ child = "command"
  /\ pipe # <<>>
  /\ pipe' = Tail(pipe)
  /\ IF Head(pipe) = "Quit"
       THEN child' = "quit" /\ UNCHANGED header
       ELSE child' = "body" /\ header' = Head(pipe)
  /\ UNCHANGED <<programAlive, parentVars, remembered, pass, late, fileVars, spawnCanceled>>

(* Mutant: adding a path that is remembered forgets it. *)
ReadBodyToggling ==
  /\ child = "body"
  /\ pipe # <<>>
  /\ pipe' = Tail(pipe)
  /\ child' = "command"
  /\ header' = "none"
  /\ remembered' = IF header = "Add" /\ Head(pipe) \notin remembered
                     THEN remembered \cup {Head(pipe)}
                     ELSE remembered \ {Head(pipe)}
  /\ UNCHANGED <<programAlive, parentVars, pass, late, fileVars, spawnCanceled>>

ReadBody ==
  /\ child = "body"
  /\ pipe # <<>>
  /\ pipe' = Tail(pipe)
  /\ child' = "command"
  /\ header' = "none"
  /\ remembered' = IF header = "Add"
                     THEN remembered \cup {Head(pipe)}
                     ELSE remembered \ {Head(pipe)}
  /\ UNCHANGED <<programAlive, parentVars, pass, late, fileVars, spawnCanceled>>

(* Mutant: an EOF inside of a message ends the child. *)
ReadEofBetweenMessages ==
  /\ Reading
  /\ pipe = <<>>
  /\ ~programAlive
  /\ child' = IF child = "command" THEN "clean" ELSE "quit"
  /\ pass' = remembered
  /\ UNCHANGED <<programAlive, parentVars, pipe, header, remembered, late, fileVars, spawnCanceled>>

(* EOF, between two messages or inside of one: out of the loop.            *)
ReadEof ==
  /\ Reading
  /\ pipe = <<>>
  /\ ~programAlive
  /\ child' = "clean"
  /\ pass' = remembered
  /\ UNCHANGED <<programAlive, parentVars, pipe, header, remembered, late, fileVars, spawnCanceled>>

(* remove_file or remove_dir_all of one path; files come first.  A path    *)
(* with no file counts as removed, one that is open stays for a retry.     *)
TryRemove(p) ==
  /\ child = "clean"
  /\ p \in pass
  /\ p \in Dirs => pass \subseteq Dirs
  /\ pass' = pass \ {p}
  /\ IF tempFile[p] = "present" /\ p \in held
       THEN UNCHANGED <<remembered, tempFile>>
       ELSE /\ remembered' = remembered \ {p}
            /\ tempFile' = [tempFile EXCEPT ![p] = IF @ = "present" THEN "gone" ELSE @]
  /\ UNCHANGED <<programAlive, parentVars, pipe, child, header, late, held, spawnCanceled>>

(* After a round: done, too late, or sleep and start the next round. *)
EndPass ==
  /\ child = "clean"
  /\ pass = {}
  /\ IF remembered = {} \/ late
       THEN /\ child' = IF remembered = {} THEN "cleaned" ELSE "gaveup"
            /\ UNCHANGED pass
       ELSE pass' = remembered /\ UNCHANGED child
  /\ UNCHANGED <<programAlive, parentVars, pipe, header, remembered, late, fileVars, spawnCanceled>>

TimeUp ==
  /\ child = "clean"
  /\ ~late
  /\ late' = TRUE
  /\ UNCHANGED <<programAlive, parentVars, pipe, child, header, remembered, pass, fileVars, spawnCanceled>>

(* The child ends without success: somebody kills it, or it returns Err.   *)
KillChild ==
  /\ Reading \/ child = "clean"
  /\ child' = "killed"
  /\ UNCHANGED <<programAlive, parentVars, pipe, header, remembered, pass, late, fileVars, spawnCanceled>>

-------------------------------------------------------------------------------
ThreadStep(t) == WriteCommand(t) \/ WriteBody(t) \/ FailWrite(t) \/ WriteQuit(t)

ChildStep ==
  ReadCommand \/ ReadBody \/ ReadEof \/ (\E p \in TempPaths : TryRemove(p)) \/ EndPass \/ TimeUp

CleanupNext ==
  \/ \E t \in Threads :
       \/ \E p \in TempPaths : CallGuard(t, p) \/ CallDrop(t, p) \/ Always(t, p)
       \/ Release(t)
       \/ ThreadStep(t)
  \/ \E p \in TempPaths : CreateTemp(p) \/ DeleteTemp(p) \/ Hold(p) \/ Unhold(p)
  \/ ChildStep
  \/ WaitCleanup \/ Crash \/ KillChild

CleanupSpec == CleanupInit /\ [][CleanupNext]_cleanupVars

(* Both processes are scheduled and time passes.  Nothing makes a thread   *)
(* call, a process die or a file be closed, and nothing is assumed about   *)
(* which of several waiting threads gets the mutex.                        *)
CleanupFairSpec ==
  /\ CleanupSpec
  /\ \A t \in Threads : WF_cleanupVars(ThreadStep(t))
  /\ WF_cleanupVars(ReadCommand \/ ReadBody \/ ReadEof \/ (\E p \in TempPaths : TryRemove(p)) \/ EndPass)
  /\ WF_cleanupVars(TimeUp)
  /\ WF_cleanupVars(WaitCleanup)

-------------------------------------------------------------------------------
CleanupTypeOK ==
  /\ programAlive \in BOOLEAN
  /\ owners \in SUBSET Threads
  /\ holder \in [TempPaths -> Threads \cup {Nobody}]
  /\ guard \in Threads \cup {Nobody}
  /\ thread \in [Threads -> Thread]
  /\ pipe \in Seq(Tokens) /\ Len(pipe) <= MaxPipe
  /\ child \in ChildState
  /\ header \in Headers \cup {"none"}
  /\ remembered \in SUBSET TempPaths
  /\ pass \in SUBSET remembered
  /\ late \in BOOLEAN
  /\ tempFile \in [TempPaths -> {"new", "present", "gone"}]
  /\ held \in SUBSET TempPaths
  /\ spawnCanceled \in BOOLEAN

-------------------------------------------------------------------------------
(* The command that the path at position i of the pipe belongs to. *)
CommandOf(i) == IF i = 1 THEN header ELSE pipe[i - 1]

(* The child never takes a piece of one message for a piece of another,    *)
(* whatever threads write and however slowly it reads: in what is left in  *)
(* the pipe each path follows an Add or a Remove, nothing else does,       *)
(* nothing follows a Quit, and a message whose path is missing belongs to  *)
(* the thread inside the mutex, unless the program died.                   *)
MessagesFramed ==
  /\ \A i \in DOMAIN pipe : pipe[i] \in TempPaths <=> CommandOf(i) \in Headers
  /\ \A i \in DOMAIN pipe : pipe[i] = "Quit" => i = Len(pipe)
  /\ Reading /\ programAlive =>
       (CommandOf(Len(pipe) + 1) \in Headers
          <=> \E t \in Threads : guard = t /\ thread[t].pc = "body")

Last(p, i) == pipe[i] = p /\ \A j \in DOMAIN pipe : pipe[j] = p => j <= i

(* The paths that the child will remember once it has read the pipe. *)
Guarded ==
  {p \in TempPaths :
     \/ p \in remembered /\ \A i \in DOMAIN pipe : pipe[i] # p
     \/ \E i \in DOMAIN pipe : Last(p, i) /\ CommandOf(i) = "Add"}

QuitSent == child = "quit" \/ \E i \in DOMAIN pipe : pipe[i] = "Quit"

Stage == IF QuitSent THEN "quit" ELSE IF programAlive THEN "working" ELSE "crashed"

(* While a guard value for a path exists, a crash at this moment gets the  *)
(* path cleaned, however much of the pipe is still unread.                 *)
HoldersGuarded ==
  Reading => \A p \in TempPaths : holder[p] # Nobody => p \in Guarded /\ ~QuitSent

(* The two processes and the pipe implement the promise of TempFileGuard:  *)
(* the child removes nothing while the program lives or after Quit, and    *)
(* after a crash only paths whose guard message was complete and that were *)
(* not given back.                                                         *)
Promise == INSTANCE TempFileGuard WITH
  Paths <- TempPaths, guarded <- Guarded, stage <- Stage, file <- tempFile

ImplementsPromise == Promise!Spec

(* After a crash every guarded file goes away, unless the child is killed  *)
(* too or had to give up after ten seconds.                                *)
GuardedFilesRemoved ==
  \A p \in TempPaths :
    (~programAlive /\ ~QuitSent /\ p \in Guarded)
      ~> (tempFile[p] # "present" \/ child \in {"killed", "gaveup"})

(* If the child dies under a running program the program's cancel signal   *)
(* is canceled.                                                            *)
ChildDeathCancels == (child = "killed") ~> (spawnCanceled \/ ~programAlive)

(* A thread inside the mutex leaves it, also when the pipe is full or the  *)
(* child is gone in the middle of a message, and Quit is never blocked.    *)
WritersLeave ==
  \A t \in Threads :
    /\ guard = t ~> (guard # t \/ ~programAlive)
    /\ thread[t].pc = "quit" ~> (thread[t].pc # "quit" \/ ~programAlive)
===============================================================================
