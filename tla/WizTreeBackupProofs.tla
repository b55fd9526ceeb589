--------------------------- MODULE WizTreeBackupProofs --------------------------
(***************************************************************************)
(* Proofs about CleanupProcess and about WizTreeBackup, the command that   *)
(* relies on its promise.  The two specifications share no variable.       *)
(***************************************************************************)
EXTENDS WizTreeBackup, CleanupProcess, TLAPS

-------------------------------------------------------------------------------
(* The cleanup process, for any number of threads and paths and any        *)
(* capacity of the pipe.                                                   *)

(* Who is inside the mutex and what a thread that writes may rely on. *)
WriterInv ==
  \A t \in Threads :
    /\ thread[t].pc = "body" <=> guard = t
    /\ thread[t].pc \in {"start", "body"} =>
         /\ thread[t].path \in TempPaths
         /\ \/ /\ thread[t].command = "Add"
               /\ t \in owners
               /\ holder[thread[t].path] = Nobody
            \/ /\ thread[t].command = "Remove"
               /\ holder[thread[t].path] = t
    /\ thread[t].pc \in {"idle", "quit"} => thread[t].path = NoPath

(* No two threads write about the same path. *)
PathsDistinct ==
  \A t, u \in Threads : t # u /\ thread[t].path \in TempPaths => thread[t].path # thread[u].path

Unreferenced == owners = {} /\ \A p \in TempPaths : holder[p] = Nobody

(* Quit is written once, by the thread that let the last reference go. *)
QuitInv ==
  /\ \A t \in Threads : thread[t].pc = "quit" => Unreferenced /\ ~QuitSent
  /\ \A t, u \in Threads : thread[t].pc = "quit" /\ thread[u].pc = "quit" => t = u
  /\ QuitSent => Unreferenced

ChildInv ==
  /\ Reading => (child = "body" <=> header \in Headers) /\ pass = {}
  /\ child \in {"clean", "cleaned", "gaveup"} => pipe = <<>> /\ ~programAlive

Inv == CleanupTypeOK /\ WriterInv /\ PathsDistinct /\ QuitInv /\ ChildInv /\ MessagesFramed

-------------------------------------------------------------------------------
LEMMA Disjoint ==
  /\ "Add" \notin TempPaths /\ "Remove" \notin TempPaths /\ "Quit" \notin TempPaths
  /\ "none" \notin Headers /\ "Quit" \notin Headers
BY ConstantsAssumption DEF Headers

LEMMA IdleThreadType == IdleThread \in Thread /\ [IdleThread EXCEPT !.pc = "quit"] \in Thread
BY DEF IdleThread, Thread

LEMMA AppendFacts ==
  ASSUME NEW s \in Seq(Tokens), NEW e \in Tokens
  PROVE  /\ Append(s, e) \in Seq(Tokens)
         /\ Len(Append(s, e)) = Len(s) + 1
         /\ DOMAIN Append(s, e) = 1..(Len(s) + 1)
         /\ \A i \in 1..Len(s) : Append(s, e)[i] = s[i]
         /\ Append(s, e)[Len(s) + 1] = e
OBVIOUS

LEMMA TailFacts ==
  ASSUME NEW s \in Seq(Tokens), s # <<>>
  PROVE  /\ Tail(s) \in Seq(Tokens)
         /\ Len(s) \in Nat /\ Len(s) >= 1
         /\ Len(Tail(s)) = Len(s) - 1
         /\ DOMAIN Tail(s) = 1..(Len(s) - 1)
         /\ \A i \in 1..(Len(s) - 1) : Tail(s)[i] = s[i + 1]
         /\ Head(s) = s[1] /\ Head(s) \in Tokens
OBVIOUS

LEMMA FinishType ==
  ASSUME CleanupTypeOK, NEW t \in Threads, NEW os, NEW hs, EndCall(t, os, hs)
  PROVE  thread' \in [Threads -> Thread]
BY IdleThreadType DEF CleanupTypeOK, EndCall

(* What Finish leaves behind. *)
LEMMA FinishFacts ==
  ASSUME CleanupTypeOK, NEW t \in Threads, NEW os, NEW hs, EndCall(t, os, hs)
  PROVE  /\ \A u \in Threads \ {t} : thread'[u] = thread[u]
         /\ thread'[t].pc \in {"idle", "quit"}
         /\ thread'[t].pc = "quit" <=> os = {} /\ \A p \in TempPaths : hs[p] = Nobody
         /\ thread'[t].path = NoPath
BY DEF CleanupTypeOK, EndCall, IdleThread

-------------------------------------------------------------------------------
LEMMA InitInv == CleanupInit => Inv
<1> SUFFICES ASSUME CleanupInit PROVE Inv
  OBVIOUS
<1>1. CleanupTypeOK
  <2>1. pipe \in Seq(Tokens) /\ Len(pipe) <= MaxPipe
    BY ConstantsAssumption DEF CleanupInit
  <2>2. thread \in [Threads -> Thread]
    BY IdleThreadType DEF CleanupInit
  <2> QED
    BY <2>1, <2>2 DEF CleanupInit, CleanupTypeOK, ChildState
<1>2. WriterInv /\ PathsDistinct /\ QuitInv /\ ChildInv
  BY Disjoint, ConstantsAssumption
  DEF CleanupInit, WriterInv, PathsDistinct, QuitInv, ChildInv, IdleThread, QuitSent, Reading
<1>3. MessagesFramed
  BY Disjoint DEF CleanupInit, MessagesFramed, CommandOf, IdleThread
<1> QED
  BY <1>1, <1>2, <1>3 DEF Inv

(* Calls begin and references go without touching the pipe. *)
LEMMA CallsInv ==
  ASSUME Inv, NEW t \in Threads, NEW p,
         \/ p \in TempPaths /\ (CallGuard(t, p) \/ CallDrop(t, p) \/ Always(t, p))
         \/ Release(t)
  PROVE  Inv'
<1> USE DEF Inv
<1>0. /\ UNCHANGED <<programAlive, guard, pipe, childVars, fileVars, spawnCanceled>>
      /\ thread[t].pc = "idle"
  BY DEF CallGuard, CallDrop, Always, Release
<1>1. CleanupTypeOK'
  <2>1. CASE p \in TempPaths /\ (CallGuard(t, p) \/ CallDrop(t, p))
    <3>0. PICK c \in Headers : thread' = [thread EXCEPT ![t] = [pc |-> "start", command |-> c, path |-> p]]
      BY <2>1 DEF CallGuard, CallDrop, Headers
    <3>1. thread' \in [Threads -> Thread]
      BY <2>1, <3>0 DEF CleanupTypeOK, Thread
    <3> QED
      BY <3>1, <2>1, <1>0 DEF CallGuard, CallDrop, CleanupTypeOK, childVars, fileVars
  <2>2. CASE p \in TempPaths /\ Always(t, p)
    BY <2>2, <1>0, FinishType DEF Always, CleanupTypeOK, childVars, fileVars
  <2>3. CASE Release(t)
    BY <2>3, <1>0, FinishType DEF Release, CleanupTypeOK, childVars, fileVars
  <2> QED
    BY <2>1, <2>2, <2>3
<1>2. WriterInv' /\ PathsDistinct' /\ QuitInv'
  <2>0. QuitSent' = QuitSent
    BY <1>0 DEF QuitSent, childVars
  <2>1. CASE p \in TempPaths /\ (CallGuard(t, p) \/ CallDrop(t, p))
    <3>1. ~Unreferenced /\ UNCHANGED <<owners, holder>>
      BY <2>1, ConstantsAssumption DEF CallGuard, CallDrop, Unreferenced
    <3>2. Unreferenced' = Unreferenced
      BY <3>1 DEF Unreferenced
    <3>3. /\ \A u \in Threads \ {t} : thread'[u] = thread[u]
          /\ thread'[t].pc = "start" /\ thread'[t].path = p
          /\ \/ thread'[t].command = "Add" /\ t \in owners /\ holder[p] = Nobody
             \/ thread'[t].command = "Remove" /\ holder[p] = t
          /\ \A u \in Threads \ {t} : thread[u].path = p => holder[p] = t
      BY <2>1 DEF CallGuard, CallDrop, CleanupTypeOK
    <3>4. WriterInv' /\ PathsDistinct'
      <4>1. \A u \in Threads \ {t} : thread[u].path # p
        BY <2>1, <3>3, ConstantsAssumption DEF WriterInv, CallGuard, CleanupTypeOK, Thread
      <4>2. WriterInv'
        BY <1>0, <2>1, <3>1, <3>3 DEF WriterInv
      <4>3. PathsDistinct'
        BY <3>3, <4>1 DEF PathsDistinct
      <4> QED
        BY <4>2, <4>3
    <3>5. QuitInv'
      BY <2>0, <3>1, <3>2, <3>3 DEF QuitInv
    <3> QED
      BY <3>4, <3>5
  <2>2. CASE (p \in TempPaths /\ Always(t, p)) \/ Release(t)
    <3>1. PICK os, hs : /\ owners' = os /\ holder' = hs /\ EndCall(t, os, hs)
                        /\ \A u \in Threads \ {t} : u \in owners => u \in os
                        /\ \A q \in TempPaths : holder[q] # t => hs[q] = holder[q]
      BY <2>2 DEF Always, Release, CleanupTypeOK
    <3>2. /\ \A u \in Threads \ {t} : thread'[u] = thread[u]
          /\ thread'[t].pc \in {"idle", "quit"}
          /\ thread'[t].pc = "quit" <=> Unreferenced'
          /\ thread'[t].path = NoPath
      BY <3>1, FinishFacts DEF Unreferenced
    <3>3. WriterInv' /\ PathsDistinct'
      <4>1. \A q \in TempPaths : holder[q] = Nobody => hs[q] = Nobody
        BY <3>1, ConstantsAssumption
      <4>2. WriterInv'
        BY <1>0, <3>1, <3>2, <4>1 DEF WriterInv
      <4>3. PathsDistinct'
        BY <3>2, ConstantsAssumption DEF PathsDistinct
      <4> QED
        BY <4>2, <4>3
    <3>4. ~Unreferenced
      BY <2>2, ConstantsAssumption DEF Always, Release, Unreferenced
    <3>5. QuitInv'
      BY <2>0, <3>2, <3>4 DEF QuitInv
    <3> QED
      BY <3>3, <3>5
  <2> QED
    BY <2>1, <2>2
<1>3. ChildInv'
  BY <1>0 DEF ChildInv, Reading, childVars
<1>4. MessagesFramed'
  <2>1. \A u \in Threads : thread'[u].pc = "body" <=> thread[u].pc = "body"
    BY <1>0, FinishFacts DEF CallGuard, CallDrop, Always, Release, CleanupTypeOK
  <2> QED
    BY <1>0, <2>1 DEF MessagesFramed, CommandOf, Reading, childVars
<1> QED
  BY <1>1, <1>2, <1>3, <1>4

(* The environment: no thread and no message is involved. *)
LEMMA OutsideInv ==
  ASSUME Inv, NEW p,
         \/ WaitCleanup \/ Crash
         \/ p \in TempPaths /\ (CreateTemp(p) \/ DeleteTemp(p) \/ Hold(p) \/ Unhold(p))
  PROVE  Inv'
<1> USE DEF Inv
<1>0. UNCHANGED <<parentVars, pipe, childVars>> /\ (programAlive' => programAlive)
  BY DEF WaitCleanup, Crash, CreateTemp, DeleteTemp, Hold, Unhold
<1>1. CleanupTypeOK'
  BY <1>0 DEF WaitCleanup, Crash, CreateTemp, DeleteTemp, Hold, Unhold, CleanupTypeOK, parentVars, childVars, fileVars
<1>2. WriterInv' /\ PathsDistinct' /\ QuitInv' /\ ChildInv'
  BY <1>0 DEF WriterInv, PathsDistinct, QuitInv, ChildInv, Unreferenced, QuitSent, Reading, parentVars, childVars
<1>3. MessagesFramed'
  BY <1>0 DEF MessagesFramed, CommandOf, Reading, parentVars, childVars
<1> QED
  BY <1>1, <1>2, <1>3

-------------------------------------------------------------------------------
(* What a write adds at the end of the pipe. *)
LEMMA WriteFacts ==
  ASSUME CleanupTypeOK, NEW e \in Tokens, Write(e)
  PROVE  /\ Reading
         /\ pipe' \in Seq(Tokens) /\ Len(pipe') = Len(pipe) + 1 /\ Len(pipe') <= MaxPipe
         /\ Len(pipe) \in Nat
         /\ DOMAIN pipe = 1..Len(pipe) /\ DOMAIN pipe' = 1..(Len(pipe) + 1)
         /\ \A i \in 1..Len(pipe) : pipe'[i] = pipe[i]
         /\ pipe'[Len(pipe) + 1] = e
BY AppendFacts, ConstantsAssumption DEF CleanupTypeOK, Write

(* The mutex and the pipe agree on whether a path is missing. *)
LEMMA WriteCommandInv ==
  ASSUME Inv, NEW t \in Threads, WriteCommand(t)
  PROVE  Inv'
<1> USE DEF Inv
<1> DEFINE e == thread[t].command
<1> PICK n \in Nat : n = Len(pipe)
  BY DEF CleanupTypeOK
<1>0. /\ programAlive /\ thread[t].pc = "start" /\ guard = Nobody /\ Write(e)
      /\ guard' = t /\ thread' = [thread EXCEPT ![t].pc = "body"]
      /\ UNCHANGED <<programAlive, owners, holder, childVars, fileVars, spawnCanceled>>
  BY DEF WriteCommand
<1>1. e \in Headers /\ e \in Tokens /\ e \notin TempPaths /\ e # "Quit"
  BY <1>0, Disjoint DEF WriterInv, Headers, Tokens
<1>2. /\ Reading
      /\ pipe' \in Seq(Tokens) /\ Len(pipe') = n + 1 /\ Len(pipe') <= MaxPipe /\ n \in Nat
      /\ DOMAIN pipe = 1..n /\ DOMAIN pipe' = 1..(n + 1)
      /\ \A i \in 1..n : pipe'[i] = pipe[i]
      /\ pipe'[n + 1] = e
  BY <1>0, <1>1, WriteFacts
<1>3. /\ \A u \in Threads \ {t} : thread'[u] = thread[u]
      /\ thread'[t] = [thread[t] EXCEPT !.pc = "body"]
      /\ thread'[t].pc = "body" /\ thread'[t].command = e /\ thread'[t].path = thread[t].path
      /\ thread' \in [Threads -> Thread]
  BY <1>0 DEF CleanupTypeOK, Thread
<1>4. CleanupTypeOK'
  BY <1>0, <1>2, <1>3 DEF CleanupTypeOK, childVars, fileVars
<1>5. WriterInv' /\ PathsDistinct'
  BY <1>0, <1>3, ConstantsAssumption DEF WriterInv, PathsDistinct
<1>6. ~Unreferenced
  BY <1>0, ConstantsAssumption DEF WriterInv, Unreferenced
<1>7. QuitInv' /\ ChildInv'
  BY <1>0, <1>1, <1>2, <1>3, <1>6 DEF QuitInv, ChildInv, QuitSent, Unreferenced, Reading, childVars
<1>8. MessagesFramed'
  <2>1. CommandOf(n + 1) \notin Headers
    BY <1>0, <1>2, ConstantsAssumption DEF MessagesFramed
  <2>2. \A i \in 1..(n + 1) : CommandOf(i)' = CommandOf(i)
    BY <1>0, <1>2 DEF CommandOf, childVars
  <2>3. CommandOf(n + 2)' = e
    BY <1>2 DEF CommandOf
  <2>4. \A i \in DOMAIN pipe' : pipe'[i] \in TempPaths <=> CommandOf(i)' \in Headers
    BY <1>1, <1>2, <2>1, <2>2 DEF MessagesFramed
  <2>5. ~QuitSent
    BY <1>6 DEF QuitInv
  <2>6. \A i \in DOMAIN pipe' : pipe'[i] # "Quit"
    BY <1>1, <1>2, <2>5 DEF QuitSent
  <2>7. CommandOf(Len(pipe) + 1)' \in Headers
    BY <1>1, <1>2, <2>3
  <2> QED
    BY <1>0, <1>3, <2>4, <2>6, <2>7 DEF MessagesFramed
<1> QED
  BY <1>4, <1>5, <1>7, <1>8

LEMMA WriteBodyInv ==
  ASSUME Inv, NEW t \in Threads, WriteBody(t)
  PROVE  Inv'
<1> USE DEF Inv
<1> DEFINE p == thread[t].path
<1> PICK n \in Nat : n = Len(pipe)
  BY DEF CleanupTypeOK
<1>0. /\ programAlive /\ thread[t].pc = "body" /\ Write(p)
      /\ guard' = Nobody
      /\ holder' = [holder EXCEPT ![p] = IF thread[t].command = "Add" THEN t ELSE Nobody]
      /\ EndCall(t, owners, holder')
      /\ UNCHANGED <<programAlive, owners, childVars, fileVars, spawnCanceled>>
  BY DEF WriteBody
<1>1. p \in TempPaths /\ p \in Tokens /\ p \notin Headers /\ p # "Quit" /\ guard = t
  BY <1>0, Disjoint, ConstantsAssumption DEF WriterInv, Headers, Tokens
<1>2. /\ Reading
      /\ pipe' \in Seq(Tokens) /\ Len(pipe') = n + 1 /\ Len(pipe') <= MaxPipe /\ n \in Nat
      /\ DOMAIN pipe = 1..n /\ DOMAIN pipe' = 1..(n + 1)
      /\ \A i \in 1..n : pipe'[i] = pipe[i]
      /\ pipe'[n + 1] = p
  BY <1>0, <1>1, WriteFacts
<1>3. /\ \A u \in Threads \ {t} : thread'[u] = thread[u]
      /\ thread'[t].pc \in {"idle", "quit"}
      /\ thread'[t].pc = "quit" <=> Unreferenced'
      /\ thread'[t].path = NoPath
      /\ thread' \in [Threads -> Thread]
  <2>1. EndCall(t, owners, holder')
    BY <1>0
  <2>2. /\ \A u \in Threads \ {t} : thread'[u] = thread[u]
        /\ thread'[t].pc \in {"idle", "quit"}
        /\ thread'[t].pc = "quit" <=> owners = {} /\ \A q \in TempPaths : holder'[q] = Nobody
        /\ thread'[t].path = NoPath
    BY <2>1, FinishFacts
  <2>3. thread' \in [Threads -> Thread]
    BY <2>1, FinishType
  <2> QED
    BY <1>0, <2>2, <2>3 DEF Unreferenced
<1>4. CleanupTypeOK'
  BY <1>0, <1>1, <1>2, <1>3 DEF CleanupTypeOK, childVars, fileVars
<1>5. \A u \in Threads \ {t} : thread[u].pc # "body"
  BY <1>1 DEF WriterInv
<1>6. WriterInv' /\ PathsDistinct'
  <2>1. \A u \in Threads \ {t} : thread[u].path \in TempPaths =>
           thread[u].path # p /\ holder'[thread[u].path] = holder[thread[u].path]
    BY <1>0, <1>1 DEF PathsDistinct, CleanupTypeOK
  <2>2. WriterInv'
    BY <1>0, <1>3, <1>5, <2>1, ConstantsAssumption DEF WriterInv
  <2>3. PathsDistinct'
    BY <1>3, ConstantsAssumption DEF PathsDistinct
  <2> QED
    BY <2>2, <2>3
<1>7. ~Unreferenced
  BY <1>0, ConstantsAssumption DEF WriterInv, Unreferenced
<1>8. QuitInv' /\ ChildInv'
  <2>1. ~QuitSent /\ \A u \in Threads : thread[u].pc # "quit"
    BY <1>7 DEF QuitInv
  <2>2. ~QuitSent'
    BY <1>0, <1>1, <1>2, <2>1 DEF QuitSent, childVars
  <2>3. QuitInv'
    BY <1>3, <2>1, <2>2 DEF QuitInv
  <2>4. ChildInv'
    BY <1>0, <1>2 DEF ChildInv, Reading, childVars
  <2> QED
    BY <2>3, <2>4
<1>9. MessagesFramed'
  <2>1. CommandOf(n + 1) \in Headers
    BY <1>0, <1>1, <1>2 DEF MessagesFramed
  <2>2. \A i \in 1..(n + 1) : CommandOf(i)' = CommandOf(i)
    BY <1>0, <1>2 DEF CommandOf, childVars
  <2>3. CommandOf(n + 2)' = p
    BY <1>2 DEF CommandOf
  <2>4. \A i \in DOMAIN pipe' : pipe'[i] \in TempPaths <=> CommandOf(i)' \in Headers
    BY <1>1, <1>2, <2>1, <2>2 DEF MessagesFramed
  <2>5. ~QuitSent
    BY <1>7 DEF QuitInv
  <2>6. \A i \in DOMAIN pipe' : pipe'[i] # "Quit"
    BY <1>1, <1>2, <2>5 DEF QuitSent
  <2>7. CommandOf(Len(pipe) + 1)' \notin Headers
    BY <1>1, <1>2, <2>3
  <2> QED
    BY <1>0, <2>4, <2>6, <2>7, ConstantsAssumption DEF MessagesFramed
<1> QED
  BY <1>4, <1>6, <1>8, <1>9

LEMMA WriteQuitInv ==
  ASSUME Inv, NEW t \in Threads, WriteQuit(t)
  PROVE  Inv'
<1> USE DEF Inv
<1> PICK n \in Nat : n = Len(pipe)
  BY DEF CleanupTypeOK
<1>0. /\ programAlive /\ thread[t].pc = "quit"
      /\ Write("Quit") \/ (~Reading /\ UNCHANGED pipe)
      /\ thread' = [thread EXCEPT ![t] = IdleThread]
      /\ UNCHANGED <<programAlive, owners, holder, guard, childVars, fileVars, spawnCanceled>>
  BY DEF WriteQuit
<1>1. /\ \A u \in Threads \ {t} : thread'[u] = thread[u] /\ thread[u].pc # "quit"
      /\ thread'[t].pc = "idle" /\ thread'[t].path = NoPath
      /\ thread' \in [Threads -> Thread]
      /\ Unreferenced /\ Unreferenced' /\ ~QuitSent
  BY <1>0, IdleThreadType DEF CleanupTypeOK, QuitInv, Unreferenced, IdleThread
<1>2. \A u \in Threads : thread[u].pc \notin {"start", "body"} /\ guard # u
  BY <1>1, ConstantsAssumption DEF WriterInv, Unreferenced
<1>3. WriterInv' /\ PathsDistinct'
  BY <1>0, <1>1, <1>2, ConstantsAssumption DEF WriterInv, PathsDistinct
<1>4. CASE Write("Quit")
  <2>1. /\ Reading
        /\ pipe' \in Seq(Tokens) /\ Len(pipe') = n + 1 /\ Len(pipe') <= MaxPipe /\ n \in Nat
        /\ DOMAIN pipe = 1..n /\ DOMAIN pipe' = 1..(n + 1)
        /\ \A i \in 1..n : pipe'[i] = pipe[i]
        /\ pipe'[n + 1] = "Quit"
    BY <1>4, WriteFacts DEF Tokens
  <2>2. CleanupTypeOK'
    BY <1>0, <1>1, <2>1 DEF CleanupTypeOK, childVars, fileVars
  <2>3. QuitInv' /\ ChildInv'
    BY <1>0, <1>1, <2>1 DEF QuitInv, ChildInv, Reading, childVars
  <2>4. MessagesFramed'
    <3>1. CommandOf(n + 1) \notin Headers
      BY <1>0, <1>2, <2>1 DEF MessagesFramed
    <3>2. \A i \in 1..(n + 1) : CommandOf(i)' = CommandOf(i)
      BY <1>0, <2>1 DEF CommandOf, childVars
    <3>3. CommandOf(n + 2)' = "Quit"
      BY <2>1 DEF CommandOf
    <3>4. \A i \in DOMAIN pipe' : pipe'[i] \in TempPaths <=> CommandOf(i)' \in Headers
      BY <2>1, <3>1, <3>2, Disjoint DEF MessagesFramed
    <3>5. \A i \in 1..n : pipe'[i] # "Quit"
      BY <1>1, <2>1 DEF QuitSent
    <3>6. CommandOf(Len(pipe) + 1)' \notin Headers
      BY <2>1, <3>3, Disjoint
    <3> QED
      BY <1>0, <1>2, <2>1, <3>4, <3>5, <3>6 DEF MessagesFramed
  <2> QED
    BY <1>3, <2>2, <2>3, <2>4
<1>5. CASE ~Reading /\ UNCHANGED pipe
  <2>1. CleanupTypeOK'
    BY <1>0, <1>1, <1>5 DEF CleanupTypeOK, childVars, fileVars
  <2>2. QuitInv' /\ ChildInv'
    BY <1>0, <1>1, <1>5 DEF QuitInv, ChildInv, QuitSent, Reading, childVars
  <2>3. MessagesFramed'
    BY <1>0, <1>5 DEF MessagesFramed, CommandOf, Reading, childVars
  <2> QED
    BY <1>3, <2>1, <2>2, <2>3
<1> QED
  BY <1>0, <1>4, <1>5

LEMMA FailWriteInv ==
  ASSUME Inv, NEW t \in Threads, FailWrite(t)
  PROVE  Inv'
<1> USE DEF Inv
<1> DEFINE p == thread[t].path
<1>0. /\ programAlive /\ ~Reading /\ thread[t].pc \in {"start", "body"}
      /\ thread[t].pc = "start" => guard = Nobody
      /\ guard' = Nobody
      /\ holder' = [holder EXCEPT ![p] = Nobody]
      /\ EndCall(t, owners, holder')
      /\ UNCHANGED <<programAlive, owners, pipe, childVars, fileVars, spawnCanceled>>
  BY DEF FailWrite
<1>1. p \in TempPaths /\ ~Unreferenced
  BY <1>0, ConstantsAssumption DEF WriterInv, Unreferenced
<1>2. /\ \A u \in Threads \ {t} : thread'[u] = thread[u]
      /\ thread'[t].pc \in {"idle", "quit"}
      /\ thread'[t].pc = "quit" <=> Unreferenced'
      /\ thread'[t].path = NoPath
      /\ thread' \in [Threads -> Thread]
  <2>1. EndCall(t, owners, holder')
    BY <1>0
  <2>2. /\ \A u \in Threads \ {t} : thread'[u] = thread[u]
        /\ thread'[t].pc \in {"idle", "quit"}
        /\ thread'[t].pc = "quit" <=> owners = {} /\ \A q \in TempPaths : holder'[q] = Nobody
        /\ thread'[t].path = NoPath
    BY <2>1, FinishFacts
  <2>3. thread' \in [Threads -> Thread]
    BY <2>1, FinishType
  <2> QED
    BY <1>0, <2>2, <2>3 DEF Unreferenced
<1>3. CleanupTypeOK'
  BY <1>0, <1>1, <1>2 DEF CleanupTypeOK, childVars, fileVars
<1>4. \A u \in Threads \ {t} : thread[u].pc # "body"
  BY <1>0, ConstantsAssumption DEF WriterInv
<1>5. WriterInv' /\ PathsDistinct'
  <2>1. \A u \in Threads \ {t} : thread[u].path \in TempPaths =>
           thread[u].path # p /\ holder'[thread[u].path] = holder[thread[u].path]
    BY <1>0, <1>1 DEF PathsDistinct, CleanupTypeOK
  <2>2. WriterInv'
    BY <1>0, <1>2, <1>4, <2>1, ConstantsAssumption DEF WriterInv
  <2>3. PathsDistinct'
    BY <1>2, ConstantsAssumption DEF PathsDistinct
  <2> QED
    BY <2>2, <2>3
<1>6. QuitInv' /\ ChildInv'
  <2>1. ~QuitSent /\ \A u \in Threads : thread[u].pc # "quit"
    BY <1>1 DEF QuitInv
  <2>2. ~QuitSent'
    BY <1>0, <2>1 DEF QuitSent, childVars
  <2>3. QuitInv'
    BY <1>2, <2>1, <2>2 DEF QuitInv
  <2>4. ChildInv'
    BY <1>0 DEF ChildInv, Reading, childVars
  <2> QED
    BY <2>3, <2>4
<1>7. MessagesFramed'
  BY <1>0 DEF MessagesFramed, CommandOf, Reading, childVars
<1> QED
  BY <1>3, <1>5, <1>6, <1>7

-------------------------------------------------------------------------------
(* The child takes the first token off the pipe. *)
LEMMA ReadFacts ==
  ASSUME CleanupTypeOK, pipe # <<>>, pipe' = Tail(pipe)
  PROVE  /\ pipe' \in Seq(Tokens) /\ Len(pipe) \in Nat /\ Len(pipe) >= 1
         /\ Len(pipe') = Len(pipe) - 1
         /\ DOMAIN pipe = 1..Len(pipe) /\ DOMAIN pipe' = 1..(Len(pipe) - 1)
         /\ \A i \in 1..(Len(pipe) - 1) :
              i \in 1..Len(pipe) /\ i + 1 \in 1..Len(pipe) /\ pipe'[i] = pipe[i + 1]
         /\ Head(pipe) = pipe[1] /\ pipe[1] \in Tokens /\ 1 \in 1..Len(pipe)
BY TailFacts DEF CleanupTypeOK

(* A property of some token is one of the head or of the rest. *)
LEMMA ReadSplit ==
  ASSUME CleanupTypeOK, pipe # <<>>, pipe' = Tail(pipe)
  PROVE  (\E i \in DOMAIN pipe : pipe[i] = "Quit")
           <=> pipe[1] = "Quit" \/ \E i \in DOMAIN pipe' : pipe'[i] = "Quit"
<1> PICK n \in Nat : n = Len(pipe)
  BY DEF CleanupTypeOK
<1>0. /\ n >= 1 /\ DOMAIN pipe = 1..n /\ DOMAIN pipe' = 1..(n - 1)
      /\ \A i \in 1..(n - 1) : i + 1 \in 1..n /\ pipe'[i] = pipe[i + 1]
  BY ReadFacts
<1>1. ASSUME NEW i \in 1..n, pipe[i] = "Quit", i # 1
      PROVE  \E j \in 1..(n - 1) : pipe'[j] = "Quit"
  <2>1. i - 1 \in 1..(n - 1) /\ (i - 1) + 1 = i
    BY <1>1
  <2> QED
    BY <1>0, <1>1, <2>1
<1>2. ASSUME NEW i \in 1..(n - 1), pipe'[i] = "Quit"
      PROVE  \E j \in 1..n : pipe[j] = "Quit"
  BY <1>0, <1>2
<1>3. 1 \in 1..n
  BY <1>0
<1> QED
  BY <1>0, <1>1, <1>2, <1>3

LEMMA ReadFramed ==
  ASSUME CleanupTypeOK, MessagesFramed, pipe # <<>>, pipe' = Tail(pipe),
         header' \in Headers <=> pipe[1] \in Headers,
         UNCHANGED <<programAlive, guard, thread>>, Reading' => Reading
  PROVE  MessagesFramed'
<1> PICK n \in Nat : n = Len(pipe)
  BY DEF CleanupTypeOK
<1>0. /\ n >= 1 /\ DOMAIN pipe = 1..n /\ DOMAIN pipe' = 1..(n - 1) /\ Len(pipe') = n - 1
      /\ \A i \in 1..(n - 1) : i + 1 \in 1..n /\ pipe'[i] = pipe[i + 1]
  BY ReadFacts
<1>1. \A i \in 1..n : CommandOf(i)' \in Headers <=> CommandOf(i + 1) \in Headers
  <2>1. ASSUME NEW i \in 1..n
        PROVE  CommandOf(i)' \in Headers <=> CommandOf(i + 1) \in Headers
    <3>1. CommandOf(i + 1) = pipe[i]
      BY DEF CommandOf
    <3>2. CASE i = 1
      BY <3>1, <3>2 DEF CommandOf
    <3>3. CASE i # 1
      <4>1. i - 1 \in 1..(n - 1) /\ (i - 1) + 1 = i
        BY <3>3
      <4>2. CommandOf(i)' = pipe'[i - 1]
        BY <3>3 DEF CommandOf
      <4> QED
        BY <1>0, <3>1, <4>1, <4>2
    <3> QED
      BY <3>2, <3>3
  <2> QED
    BY <2>1
<1>2. \A i \in DOMAIN pipe' : pipe'[i] \in TempPaths <=> CommandOf(i)' \in Headers
  BY <1>0, <1>1 DEF MessagesFramed
<1>3. \A i \in DOMAIN pipe' : pipe'[i] = "Quit" => i = Len(pipe')
  <2>1. ASSUME NEW i \in 1..(n - 1), pipe'[i] = "Quit"
        PROVE  i = n - 1
    <3>1. i + 1 = n
      BY <1>0, <2>1 DEF MessagesFramed
    <3> QED
      BY <3>1
  <2> QED
    BY <1>0, <2>1
<1>4. CommandOf(Len(pipe) + 1)' \in Headers <=> CommandOf(Len(pipe) + 1) \in Headers
  <2>1. n \in 1..n /\ Len(pipe') + 1 = n
    BY <1>0
  <2>2. CommandOf(Len(pipe) + 1)' = CommandOf(n)'
    BY <2>1 DEF CommandOf
  <2> QED
    BY <1>1, <2>1, <2>2
<1> QED
  BY <1>2, <1>3, <1>4 DEF MessagesFramed

LEMMA ReadCommandInv ==
  ASSUME Inv, ReadCommand
  PROVE  Inv'
<1> USE DEF Inv
<1>0. /\ child = "command" /\ pipe # <<>> /\ pipe' = Tail(pipe)
      /\ UNCHANGED <<programAlive, parentVars, remembered, pass, late, fileVars, spawnCanceled>>
  BY DEF ReadCommand
<1>1. header \notin Headers /\ pipe[1] \in Headers \cup {"Quit"} /\ Head(pipe) = pipe[1]
  BY <1>0, ReadFacts DEF ChildInv, Reading, MessagesFramed, CommandOf, Tokens
<1>2. \/ pipe[1] = "Quit" /\ child' = "quit" /\ header' = header
      \/ pipe[1] \in Headers /\ child' = "body" /\ header' = pipe[1]
  BY <1>1, Disjoint DEF ReadCommand
<1>3. CleanupTypeOK'
  BY <1>0, <1>2, ReadFacts, ConstantsAssumption DEF CleanupTypeOK, ChildState, parentVars, fileVars
<1>4. WriterInv' /\ PathsDistinct' /\ ChildInv'
  BY <1>0, <1>2 DEF WriterInv, PathsDistinct, ChildInv, Reading, parentVars
<1>5. QuitInv'
  <2>1. QuitSent' = QuitSent
    BY <1>0, <1>2, ReadSplit, Disjoint DEF QuitSent
  <2> QED
    BY <1>0, <2>1 DEF QuitInv, Unreferenced, parentVars
<1>6. MessagesFramed'
  <2>1. header' \in Headers <=> pipe[1] \in Headers
    BY <1>1, <1>2, Disjoint
  <2> QED
    BY <1>0, <2>1, ReadFramed DEF parentVars, Reading
<1> QED
  BY <1>3, <1>4, <1>5, <1>6

LEMMA ReadBodyInv ==
  ASSUME Inv, ReadBody
  PROVE  Inv'
<1> USE DEF Inv
<1>0. /\ child = "body" /\ pipe # <<>> /\ pipe' = Tail(pipe)
      /\ child' = "command" /\ header' = "none"
      /\ UNCHANGED <<programAlive, parentVars, pass, late, fileVars, spawnCanceled>>
  BY DEF ReadBody
<1>1. header \in Headers /\ pipe[1] \in TempPaths /\ Head(pipe) = pipe[1]
  BY <1>0, ReadFacts DEF ChildInv, Reading, MessagesFramed, CommandOf
<1>2. CleanupTypeOK'
  <2>1. remembered' \in SUBSET TempPaths
    BY <1>1 DEF ReadBody, CleanupTypeOK
  <2>2. pass' = {}
    BY <1>0 DEF ChildInv, Reading
  <2>3. pipe' \in Seq(Tokens) /\ Len(pipe') <= MaxPipe
    BY <1>0, ReadFacts, ConstantsAssumption DEF CleanupTypeOK
  <2> QED
    BY <1>0, <2>1, <2>2, <2>3 DEF CleanupTypeOK, ChildState, parentVars, fileVars
<1>3. WriterInv' /\ PathsDistinct' /\ ChildInv'
  BY <1>0, Disjoint DEF WriterInv, PathsDistinct, ChildInv, Reading, parentVars
<1>4. QuitInv'
  <2>1. QuitSent' = QuitSent
    BY <1>0, <1>1, ReadSplit, Disjoint DEF QuitSent
  <2> QED
    BY <1>0, <2>1 DEF QuitInv, Unreferenced, parentVars
<1>5. MessagesFramed'
  <2>1. header' \in Headers <=> pipe[1] \in Headers
    BY <1>0, <1>1, Disjoint, ConstantsAssumption
  <2> QED
    BY <1>0, <2>1, ReadFramed DEF parentVars, Reading
<1> QED
  BY <1>2, <1>3, <1>4, <1>5

(* The clean up and the end of the child. *)
LEMMA CleanInv ==
  ASSUME Inv, NEW p,
         ReadEof \/ (p \in TempPaths /\ TryRemove(p)) \/ EndPass \/ TimeUp \/ KillChild
  PROVE  Inv'
<1> USE DEF Inv
<1>0. UNCHANGED <<programAlive, parentVars, pipe, header, spawnCanceled>>
  BY DEF ReadEof, TryRemove, EndPass, TimeUp, KillChild
<1>1. /\ ~Reading'
      /\ child' # "quit" /\ child # "quit"
      /\ child' \in {"clean", "cleaned", "gaveup"} => pipe = <<>> /\ ~programAlive
      /\ child' \in ChildState
  BY DEF ReadEof, TryRemove, EndPass, TimeUp, KillChild, Reading, ChildInv, CleanupTypeOK, ChildState
<1>2. CleanupTypeOK'
  BY <1>0, <1>1 DEF ReadEof, TryRemove, EndPass, TimeUp, KillChild, CleanupTypeOK, parentVars, fileVars
<1>3. WriterInv' /\ PathsDistinct' /\ ChildInv'
  BY <1>0, <1>1 DEF WriterInv, PathsDistinct, ChildInv, parentVars, Reading
<1>4. QuitInv' /\ MessagesFramed'
  BY <1>0, <1>1 DEF QuitInv, Unreferenced, QuitSent, MessagesFramed, CommandOf, parentVars
<1> QED
  BY <1>2, <1>3, <1>4

LEMMA NextInv == Inv /\ [CleanupNext]_cleanupVars => Inv'
<1> SUFFICES ASSUME Inv, [CleanupNext]_cleanupVars PROVE Inv'
  OBVIOUS
<1>1. ASSUME NEW t \in Threads, ThreadStep(t) PROVE Inv'
  BY <1>1, WriteCommandInv, WriteBodyInv, FailWriteInv, WriteQuitInv DEF ThreadStep
<1>2. ASSUME NEW t \in Threads, NEW p \in TempPaths, CallGuard(t, p) \/ CallDrop(t, p) \/ Always(t, p)
      PROVE  Inv'
  BY <1>2, CallsInv
<1>3. ASSUME NEW t \in Threads, Release(t) PROVE Inv'
  BY <1>3, CallsInv
<1>4. ASSUME NEW p \in TempPaths, CreateTemp(p) \/ DeleteTemp(p) \/ Hold(p) \/ Unhold(p)
      PROVE  Inv'
  BY <1>4, OutsideInv
<1>5. CASE WaitCleanup \/ Crash
  BY <1>5, OutsideInv
<1>6. CASE ChildStep
  BY <1>6, ReadCommandInv, ReadBodyInv, CleanInv DEF ChildStep
<1>7. CASE KillChild
  BY <1>7, CleanInv
<1>8. CASE UNCHANGED cleanupVars
  <2> USE <1>8 DEF cleanupVars, parentVars, childVars, fileVars
  <2>1. CleanupTypeOK' /\ WriterInv' /\ PathsDistinct'
    BY DEF Inv, CleanupTypeOK, WriterInv, PathsDistinct
  <2>2. QuitInv' /\ ChildInv' /\ MessagesFramed'
    BY DEF Inv, QuitInv, Unreferenced, QuitSent, ChildInv, MessagesFramed, CommandOf, Reading
  <2> QED
    BY <2>1, <2>2 DEF Inv
<1> QED
  BY <1>1, <1>2, <1>3, <1>4, <1>5, <1>6, <1>7, <1>8 DEF CleanupNext

LEMMA Invariance == CleanupSpec => []Inv
BY InitInv, NextInv, PTL DEF CleanupSpec

(* Every variable keeps its type. *)
THEOREM CleanupTypeCorrect == CleanupSpec => []CleanupTypeOK
BY Invariance, PTL DEF Inv

(* The child never loses the boundary between two messages. *)
THEOREM FramingCorrect == CleanupSpec => []MessagesFramed
BY Invariance, PTL DEF Inv

-------------------------------------------------------------------------------
(* How the pipe decides what is guarded *)

(* A token at the end that is not a path changes nothing. *)
LEMMA GuardedWriteOther ==
  ASSUME CleanupTypeOK, NEW e \in Tokens \ TempPaths, Write(e), UNCHANGED <<header, remembered>>
  PROVE  Guarded' = Guarded
<1> PICK n \in Nat : n = Len(pipe)
  BY DEF CleanupTypeOK
<1>0. /\ DOMAIN pipe = 1..n /\ DOMAIN pipe' = 1..(n + 1)
      /\ \A i \in 1..n : pipe'[i] = pipe[i]
      /\ pipe'[n + 1] = e
  BY WriteFacts
<1>1. \A i \in 1..n : CommandOf(i)' = CommandOf(i)
  BY <1>0 DEF CommandOf
<1>2. ASSUME NEW p \in TempPaths
      PROVE  p \in Guarded' <=> p \in Guarded
  <2>1. (\A i \in DOMAIN pipe' : pipe'[i] # p) <=> (\A i \in DOMAIN pipe : pipe[i] # p)
    BY <1>0
  <2>2. \A i \in 1..n : Last(p, i)' <=> Last(p, i)
    BY <1>0 DEF Last
  <2>3. ~Last(p, n + 1)'
    BY <1>0 DEF Last
  <2> QED
    BY <1>0, <1>1, <2>1, <2>2, <2>3 DEF Guarded
<1> QED
  BY <1>2 DEF Guarded

(* A path at the end completes the message before it. *)
LEMMA GuardedWritePath ==
  ASSUME CleanupTypeOK, NEW q \in TempPaths, Write(q), UNCHANGED <<header, remembered>>
  PROVE  Guarded' = IF CommandOf(Len(pipe) + 1) = "Add" THEN Guarded \cup {q} ELSE Guarded \ {q}
<1> PICK n \in Nat : n = Len(pipe)
  BY DEF CleanupTypeOK
<1>0. /\ DOMAIN pipe = 1..n /\ DOMAIN pipe' = 1..(n + 1)
      /\ \A i \in 1..n : pipe'[i] = pipe[i]
      /\ pipe'[n + 1] = q
  BY WriteFacts DEF Tokens
<1>1. \A i \in 1..(n + 1) : CommandOf(i)' = CommandOf(i)
  BY <1>0 DEF CommandOf
<1>2. ASSUME NEW p \in TempPaths, p # q
      PROVE  p \in Guarded' <=> p \in Guarded
  <2>1. (\A i \in DOMAIN pipe' : pipe'[i] # p) <=> (\A i \in DOMAIN pipe : pipe[i] # p)
    BY <1>0, <1>2
  <2>2. \A i \in 1..n : Last(p, i)' <=> Last(p, i)
    BY <1>0, <1>2 DEF Last
  <2>3. ~Last(p, n + 1)'
    BY <1>0, <1>2 DEF Last
  <2> QED
    BY <1>0, <1>1, <2>1, <2>2, <2>3 DEF Guarded
<1>3. q \in Guarded' <=> CommandOf(n + 1) = "Add"
  <2>1. \A i \in 1..n : ~Last(q, i)'
    BY <1>0 DEF Last
  <2>2. Last(q, n + 1)' /\ n + 1 \in DOMAIN pipe'
    BY <1>0 DEF Last
  <2> QED
    BY <1>0, <1>1, <2>1, <2>2 DEF Guarded
<1> QED
  BY <1>2, <1>3 DEF Guarded

(* Reading moves knowledge from the pipe into the child. *)
LEMMA GuardedRead ==
  ASSUME Inv, ReadCommand \/ ReadBody
  PROVE  Guarded' = Guarded
<1> PICK n \in Nat : n = Len(pipe)
  BY DEF Inv, CleanupTypeOK
<1>0. pipe # <<>> /\ pipe' = Tail(pipe) /\ CleanupTypeOK
  BY DEF ReadCommand, ReadBody, Inv
<1>1. /\ n >= 1 /\ DOMAIN pipe = 1..n /\ DOMAIN pipe' = 1..(n - 1)
      /\ \A i \in 1..(n - 1) : i + 1 \in 1..n /\ pipe'[i] = pipe[i + 1]
      /\ Head(pipe) = pipe[1] /\ 1 \in 1..n
  BY <1>0, ReadFacts
<1>2. \A i \in 2..n : i - 1 \in 1..(n - 1) /\ pipe'[i - 1] = pipe[i] /\ (i - 1) + 1 = i
  <2>1. ASSUME NEW i \in 2..n
        PROVE  i - 1 \in 1..(n - 1) /\ pipe'[i - 1] = pipe[i] /\ (i - 1) + 1 = i
    <3>1. i - 1 \in 1..(n - 1) /\ (i - 1) + 1 = i
      OBVIOUS
    <3> QED
      BY <1>1, <3>1
  <2> QED
    BY <2>1
<1>3. ASSUME NEW p \in TempPaths, NEW i \in 1..(n - 1)
      PROVE  Last(p, i)' <=> Last(p, i + 1)
  <2>1. ASSUME Last(p, i)', NEW j \in 1..n, pipe[j] = p
        PROVE  j <= i + 1
    <3>1. CASE j = 1
      BY <3>1
    <3>2. CASE j # 1
      <4>1. j - 1 \in 1..(n - 1) /\ pipe'[j - 1] = p
        BY <1>2, <2>1, <3>2
      <4>2. j - 1 <= i
        BY <1>1, <2>1, <4>1 DEF Last
      <4> QED
        BY <4>2
    <3> QED
      BY <3>1, <3>2
  <2>2. ASSUME Last(p, i + 1), NEW j \in 1..(n - 1), pipe'[j] = p
        PROVE  j <= i
    <3>1. j + 1 \in 1..n /\ pipe[j + 1] = p
      BY <1>1, <2>2
    <3>2. j + 1 <= i + 1
      BY <1>1, <2>2, <3>1 DEF Last
    <3> QED
      BY <3>2
  <2> QED
    BY <1>1, <2>1, <2>2 DEF Last
<1>4. \A i \in 1..(n - 1) : CommandOf(i)' = "Add" <=> CommandOf(i + 1) = "Add"
  <2>1. n # 1 => (header' = "Add" <=> pipe[1] = "Add")
    <3>1. CASE ReadCommand
      BY <1>1, <3>1, Disjoint
      DEF ReadCommand, Inv, MessagesFramed, CommandOf, ChildInv, Reading, Headers
    <3>2. CASE ReadBody
      BY <1>1, <3>2, Disjoint, ConstantsAssumption
      DEF ReadBody, Inv, MessagesFramed, CommandOf, ChildInv, Reading, Headers
    <3> QED
      BY <3>1, <3>2
  <2>2. ASSUME NEW i \in 1..(n - 1), i # 1
        PROVE  CommandOf(i)' = pipe[i]
    <3>1. i - 1 \in 1..(n - 1) /\ (i - 1) + 1 = i
      BY <2>2
    <3> QED
      BY <1>1, <2>2, <3>1 DEF CommandOf
  <2>3. \A i \in 1..(n - 1) : CommandOf(i + 1) = pipe[i]
    BY DEF CommandOf
  <2>4. n # 1 => (CommandOf(1)' = "Add" <=> pipe[1] = "Add")
    <3>1. CommandOf(1)' = header'
      BY DEF CommandOf
    <3>2. CASE n # 1
      BY <2>1, <3>1, <3>2
    <3> QED
      BY <3>2
  <2> QED
    BY <2>2, <2>3, <2>4
<1>5. ASSUME NEW p \in TempPaths
      PROVE  p \in Guarded' <=> p \in Guarded
  <2>1. (\E i \in 1..(n - 1) : Last(p, i)' /\ CommandOf(i)' = "Add")
          <=> (\E i \in 2..n : Last(p, i) /\ CommandOf(i) = "Add")
    <3>1. ASSUME NEW i \in 1..(n - 1), Last(p, i)', CommandOf(i)' = "Add"
          PROVE  \E j \in 2..n : Last(p, j) /\ CommandOf(j) = "Add"
      <4>1. i + 1 \in 2..n
        OBVIOUS
      <4> QED
        BY <1>3, <1>4, <3>1, <4>1
    <3>2. ASSUME NEW i \in 2..n, Last(p, i), CommandOf(i) = "Add"
          PROVE  \E j \in 1..(n - 1) : Last(p, j)' /\ CommandOf(j)' = "Add"
      <4>1. i - 1 \in 1..(n - 1) /\ (i - 1) + 1 = i
        BY <1>2
      <4> QED
        BY <1>3, <1>4, <3>2, <4>1
    <3> QED
      BY <3>1, <3>2
  <2>2. (\A i \in DOMAIN pipe' : pipe'[i] # p) <=> (\A i \in 2..n : pipe[i] # p)
    <3>1. ASSUME \A i \in DOMAIN pipe' : pipe'[i] # p, NEW i \in 2..n
          PROVE  pipe[i] # p
      BY <1>1, <1>2, <3>1
    <3>2. ASSUME \A i \in 2..n : pipe[i] # p, NEW i \in 1..(n - 1)
          PROVE  pipe'[i] # p
      <4>1. i + 1 \in 2..n
        OBVIOUS
      <4> QED
        BY <1>1, <3>2, <4>1
    <3> QED
      BY <1>1, <3>1, <3>2
  <2>3. p \in Guarded' <=> \/ p \in remembered' /\ \A i \in 2..n : pipe[i] # p
                           \/ \E i \in 2..n : Last(p, i) /\ CommandOf(i) = "Add"
    BY <1>1, <2>1, <2>2 DEF Guarded
  <2>4. CASE pipe[1] # p
    <3>1. p \in remembered' <=> p \in remembered
      BY <1>1, <2>4 DEF ReadCommand, ReadBody
    <3>2. p \in Guarded <=> \/ p \in remembered /\ \A i \in 2..n : pipe[i] # p
                            \/ \E i \in 2..n : Last(p, i) /\ CommandOf(i) = "Add"
      <4>1. \A i \in 1..n : i = 1 \/ i \in 2..n
        OBVIOUS
      <4>2. \A i \in 2..n : i \in 1..n
        OBVIOUS
      <4>3. ~Last(p, 1)
        BY <2>4 DEF Last
      <4> QED
        BY <1>1, <2>4, <4>1, <4>2, <4>3 DEF Guarded
    <3> QED
      BY <2>3, <3>1, <3>2
  <2>5. CASE pipe[1] = p
    <3>1. ReadBody /\ CommandOf(1) = header
      <4>1. header \in Headers
        BY <1>1, <2>5 DEF Inv, MessagesFramed, CommandOf
      <4> QED
        BY <4>1 DEF Inv, ChildInv, Reading, ReadCommand, CommandOf
    <3>2. p \in remembered' <=> header = "Add"
      BY <1>1, <2>5, <3>1 DEF ReadBody
    <3>3. Last(p, 1) <=> \A i \in 2..n : pipe[i] # p
      <4>1. \A i \in 1..n : i <= 1 <=> i = 1
        OBVIOUS
      <4>2. \A i \in 1..n : i = 1 \/ i \in 2..n
        OBVIOUS
      <4>3. \A i \in 2..n : i \in 1..n /\ i # 1
        OBVIOUS
      <4> QED
        BY <1>1, <2>5, <4>1, <4>2, <4>3 DEF Last
    <3>4. p \in Guarded <=> \/ Last(p, 1) /\ CommandOf(1) = "Add"
                            \/ \E i \in 2..n : Last(p, i) /\ CommandOf(i) = "Add"
      <4>1. \A i \in 1..n : i = 1 \/ i \in 2..n
        OBVIOUS
      <4>2. \A i \in 2..n : i \in 1..n
        OBVIOUS
      <4> QED
        BY <1>1, <2>5, <4>1, <4>2 DEF Guarded
    <3> QED
      BY <2>3, <3>1, <3>2, <3>3, <3>4
  <2> QED
    BY <2>4, <2>5
<1> QED
  BY <1>5 DEF Guarded

-------------------------------------------------------------------------------
(* Guard values and what the child will know *)

(* The message without a path is the one that the thread inside writes. *)
LastHeader ==
  Reading /\ programAlive =>
    \A t \in Threads : guard = t => CommandOf(Len(pipe) + 1) = thread[t].command

GuardInv == Inv /\ LastHeader /\ HoldersGuarded

(* The steps that leave the pipe and the child alone. *)
LEMMA GuardedSame ==
  ASSUME UNCHANGED <<pipe, header, remembered>>
  PROVE  Guarded' = Guarded
BY DEF Guarded, Last, CommandOf

LEMMA CallsGuard ==
  ASSUME GuardInv, Inv', NEW t \in Threads, NEW p,
         \/ p \in TempPaths /\ (CallGuard(t, p) \/ CallDrop(t, p) \/ Always(t, p))
         \/ Release(t)
  PROVE  GuardInv'
<1> USE DEF GuardInv
<1>0. /\ UNCHANGED <<programAlive, guard, pipe, childVars>>
      /\ thread[t].pc = "idle"
      /\ \A u \in Threads \ {t} : thread'[u] = thread[u]
      /\ \A q \in TempPaths : holder'[q] # Nobody => holder[q] # Nobody
  BY FinishFacts, ConstantsAssumption
  DEF CallGuard, CallDrop, Always, Release, Inv, CleanupTypeOK
<1>1. Guarded' = Guarded
  BY <1>0, GuardedSame DEF childVars
<1>2. guard # t
  BY <1>0 DEF Inv, WriterInv
<1>3. LastHeader'
  BY <1>0, <1>2 DEF LastHeader, CommandOf, Reading, childVars
<1>4. HoldersGuarded'
  BY <1>0, <1>1 DEF HoldersGuarded, QuitSent, Reading, childVars
<1> QED
  BY <1>3, <1>4

LEMMA WriteCommandGuard ==
  ASSUME GuardInv, Inv', NEW t \in Threads, WriteCommand(t)
  PROVE  GuardInv' /\ Guarded' = Guarded
<1> USE DEF GuardInv
<1>0. /\ thread[t].pc = "start" /\ Write(thread[t].command) /\ guard' = t
      /\ thread' = [thread EXCEPT ![t].pc = "body"]
      /\ UNCHANGED <<programAlive, owners, holder, childVars, fileVars, spawnCanceled>>
  BY DEF WriteCommand
<1>1. thread[t].command \in Tokens \ TempPaths
  BY <1>0, Disjoint DEF Inv, WriterInv, Headers, Tokens
<1>2. Guarded' = Guarded
  BY <1>0, <1>1, GuardedWriteOther DEF Inv, childVars
<1>3. LastHeader'
  <2>1. thread'[t].command = thread[t].command
    BY <1>0 DEF Inv, CleanupTypeOK, Thread
  <2>2. /\ Len(pipe) \in Nat /\ Len(pipe') = Len(pipe) + 1
        /\ pipe'[Len(pipe) + 1] = thread[t].command
    BY <1>0, <1>1, WriteFacts DEF Inv
  <2>3. CommandOf(Len(pipe) + 1)' = thread[t].command
    BY <2>2 DEF CommandOf
  <2> QED
    BY <1>0, <2>1, <2>3 DEF LastHeader
<1>4. HoldersGuarded'
  BY <1>0, <1>2 DEF HoldersGuarded, Reading, Inv, QuitInv, Unreferenced, childVars
<1> QED
  BY <1>2, <1>3, <1>4

LEMMA WriteBodyGuard ==
  ASSUME GuardInv, Inv', NEW t \in Threads, WriteBody(t)
  PROVE  /\ GuardInv'
         /\ thread[t].path \in TempPaths
         /\ \/ Guarded' = Guarded \cup {thread[t].path}
            \/ Guarded' = Guarded \ {thread[t].path}
<1> USE DEF GuardInv
<1> DEFINE p == thread[t].path
<1>0. /\ programAlive /\ thread[t].pc = "body" /\ Write(p) /\ guard' = Nobody
      /\ holder' = [holder EXCEPT ![p] = IF thread[t].command = "Add" THEN t ELSE Nobody]
      /\ UNCHANGED <<programAlive, owners, childVars, fileVars, spawnCanceled>>
  BY DEF WriteBody
<1>1. p \in TempPaths /\ guard = t /\ Reading
  BY <1>0 DEF Inv, WriterInv, Write
<1>2. CommandOf(Len(pipe) + 1) = thread[t].command
  BY <1>0, <1>1 DEF LastHeader
<1>3. Guarded' = IF thread[t].command = "Add" THEN Guarded \cup {p} ELSE Guarded \ {p}
  BY <1>0, <1>1, <1>2, GuardedWritePath DEF Inv, childVars
<1>4. LastHeader'
  BY <1>0, ConstantsAssumption DEF LastHeader
<1>5. HoldersGuarded'
  <2>1. ASSUME NEW q \in TempPaths, holder'[q] # Nobody
        PROVE  q \in Guarded'
    <3>1. CASE q = p
      BY <1>0, <1>1, <1>3, <2>1, <3>1 DEF Inv, CleanupTypeOK
    <3>2. CASE q # p
      <4>1. holder[q] # Nobody
        BY <1>0, <2>1, <3>2 DEF Inv, CleanupTypeOK
      <4> QED
        BY <1>1, <1>3, <3>2, <4>1 DEF HoldersGuarded
    <3> QED
      BY <3>1, <3>2
  <2> QED
    BY <2>1 DEF HoldersGuarded, Inv, QuitInv, Unreferenced
<1> QED
  BY <1>1, <1>3, <1>4, <1>5

LEMMA WriteQuitGuard ==
  ASSUME GuardInv, Inv', NEW t \in Threads, WriteQuit(t)
  PROVE  GuardInv' /\ Guarded' = Guarded
<1> USE DEF GuardInv
<1>0. /\ thread[t].pc = "quit"
      /\ Write("Quit") \/ UNCHANGED pipe
      /\ UNCHANGED <<programAlive, owners, holder, guard, childVars, fileVars, spawnCanceled>>
  BY DEF WriteQuit
<1>1. Guarded' = Guarded
  <2>1. "Quit" \in Tokens \ TempPaths
    BY Disjoint DEF Tokens
  <2> QED
    BY <1>0, <2>1, GuardedWriteOther, GuardedSame DEF Inv, childVars
<1>2. Unreferenced
  BY <1>0 DEF Inv, QuitInv
<1>3. HoldersGuarded'
  BY <1>0, <1>2 DEF HoldersGuarded, Unreferenced
<1>4. \A u \in Threads : guard' # u
  BY <1>0, <1>2, ConstantsAssumption DEF Inv, WriterInv, Unreferenced
<1>5. LastHeader'
  BY <1>4 DEF LastHeader
<1> QED
  BY <1>1, <1>3, <1>5

LEMMA ReadGuard ==
  ASSUME GuardInv, Inv', ReadCommand \/ ReadBody
  PROVE  GuardInv' /\ Guarded' = Guarded
<1> USE DEF GuardInv
<1> PICK n \in Nat : n = Len(pipe)
  BY DEF Inv, CleanupTypeOK
<1>0. /\ pipe # <<>> /\ pipe' = Tail(pipe) /\ Reading
      /\ UNCHANGED <<programAlive, owners, holder, guard, thread>>
  BY DEF ReadCommand, ReadBody, parentVars, Reading
<1>1. Guarded' = Guarded
  BY GuardedRead
<1>2. HoldersGuarded'
  BY <1>0, <1>1 DEF HoldersGuarded, Inv, QuitInv, Unreferenced
<1>3. LastHeader'
  <2>1. SUFFICES ASSUME programAlive, Reading', NEW t \in Threads, guard = t
                 PROVE  CommandOf(Len(pipe) + 1)' = thread[t].command
    BY <1>0 DEF LastHeader
  <2>2. CommandOf(n + 1) = thread[t].command /\ CommandOf(n + 1) \in Headers
    BY <1>0, <2>1 DEF LastHeader, Inv, MessagesFramed, WriterInv
  <2>3. /\ n >= 1 /\ Len(pipe') = n - 1 /\ Head(pipe) = pipe[1]
        /\ \A i \in 1..(n - 1) : pipe'[i] = pipe[i + 1]
    BY <1>0, ReadFacts DEF Inv
  <2>4. CommandOf(n + 1) = pipe[n]
    BY <2>3 DEF CommandOf
  <2>5. CASE n = 1
    <3>1. header' = pipe[1]
      BY <2>2, <2>3, <2>4, <2>5, Disjoint, ConstantsAssumption
      DEF ReadCommand, ReadBody, Inv, MessagesFramed, CommandOf, ChildInv, Reading
    <3>2. CommandOf(Len(pipe) + 1)' = header'
      BY <2>3, <2>5 DEF CommandOf
    <3> QED
      BY <2>2, <2>4, <2>5, <3>1, <3>2
  <2>6. CASE n # 1
    <3>1. n - 1 \in 1..(n - 1) /\ (n - 1) + 1 = n
      BY <2>3, <2>6
    <3>2. CommandOf(Len(pipe) + 1)' = pipe'[n - 1]
      BY <2>3, <2>6 DEF CommandOf
    <3> QED
      BY <2>2, <2>3, <2>4, <3>1, <3>2
  <2> QED
    BY <2>5, <2>6
<1> QED
  BY <1>1, <1>2, <1>3

(* Once the child reads no more, nothing is left to keep. *)
LEMMA NotReadingGuard ==
  ASSUME Inv', ~Reading'
  PROVE  GuardInv'
BY DEF GuardInv, LastHeader, HoldersGuarded

LEMMA OutsideGuard ==
  ASSUME GuardInv, Inv', NEW p,
         \/ WaitCleanup \/ Crash
         \/ p \in TempPaths /\ (CreateTemp(p) \/ DeleteTemp(p) \/ Hold(p) \/ Unhold(p))
  PROVE  GuardInv'
<1> USE DEF GuardInv
<1>0. UNCHANGED <<parentVars, pipe, childVars>> /\ (programAlive' => programAlive)
  BY DEF WaitCleanup, Crash, CreateTemp, DeleteTemp, Hold, Unhold
<1>1. Guarded' = Guarded
  BY <1>0, GuardedSame DEF childVars
<1> QED
  BY <1>0, <1>1
  DEF LastHeader, HoldersGuarded, CommandOf, Reading, QuitSent, parentVars, childVars

LEMMA NextGuardInv == GuardInv /\ [CleanupNext]_cleanupVars => GuardInv'
<1> SUFFICES ASSUME GuardInv, [CleanupNext]_cleanupVars PROVE GuardInv'
  OBVIOUS
<1>0. Inv'
  BY NextInv DEF GuardInv
<1>1. ASSUME NEW t \in Threads, ThreadStep(t) PROVE GuardInv'
  <2>1. CASE FailWrite(t)
    <3>1. ~Reading'
      BY <2>1 DEF FailWrite, Reading, childVars
    <3> QED
      BY <1>0, <3>1, NotReadingGuard
  <2> QED
    BY <1>0, <1>1, <2>1, WriteCommandGuard, WriteBodyGuard, WriteQuitGuard DEF ThreadStep
<1>2. ASSUME NEW t \in Threads, NEW p \in TempPaths, CallGuard(t, p) \/ CallDrop(t, p) \/ Always(t, p)
      PROVE  GuardInv'
  BY <1>0, <1>2, CallsGuard
<1>3. ASSUME NEW t \in Threads, Release(t) PROVE GuardInv'
  BY <1>0, <1>3, CallsGuard
<1>4. ASSUME NEW p \in TempPaths, CreateTemp(p) \/ DeleteTemp(p) \/ Hold(p) \/ Unhold(p)
      PROVE  GuardInv'
  BY <1>0, <1>4, OutsideGuard
<1>5. CASE WaitCleanup \/ Crash
  BY <1>0, <1>5, OutsideGuard
<1>6. CASE ReadCommand \/ ReadBody
  BY <1>0, <1>6, ReadGuard
<1>7. ASSUME NEW p \in TempPaths, ReadEof \/ TryRemove(p) PROVE GuardInv'
  <2>1. ~Reading'
    BY <1>7 DEF ReadEof, TryRemove, Reading
  <2> QED
    BY <1>0, <2>1, NotReadingGuard
<1>8. CASE ReadEof \/ EndPass \/ TimeUp \/ KillChild
  <2>1. ~Reading'
    BY <1>8 DEF ReadEof, EndPass, TimeUp, KillChild, Reading
  <2> QED
    BY <1>0, <2>1, NotReadingGuard
<1>9. CASE UNCHANGED cleanupVars
  <2>1. UNCHANGED <<programAlive, parentVars, pipe, childVars>>
    BY <1>9 DEF cleanupVars
  <2>2. Guarded' = Guarded
    BY <2>1, GuardedSame DEF childVars
  <2> QED
    BY <1>0, <2>1, <2>2
    DEF GuardInv, LastHeader, HoldersGuarded, CommandOf, Reading, QuitSent, parentVars, childVars
<1> QED
  BY <1>1, <1>2, <1>3, <1>4, <1>5, <1>6, <1>7, <1>8, <1>9 DEF CleanupNext, ChildStep

LEMMA InitGuardInv == CleanupInit => GuardInv
<1> SUFFICES ASSUME CleanupInit PROVE GuardInv
  OBVIOUS
<1>1. Inv
  BY InitInv
<1>2. LastHeader /\ HoldersGuarded
  BY ConstantsAssumption DEF CleanupInit, LastHeader, HoldersGuarded
<1> QED
  BY <1>1, <1>2 DEF GuardInv

LEMMA GuardInvariance == CleanupSpec => []GuardInv
BY InitGuardInv, NextGuardInv, PTL DEF CleanupSpec

(* A live guard value means that the child will clean the path after a     *)
(* crash, whatever is still on its way in the pipe.                        *)
THEOREM HoldersCorrect == CleanupSpec => []HoldersGuarded
BY GuardInvariance, PTL DEF GuardInv

-------------------------------------------------------------------------------
(* The refinement: one step of the processes is one step of TempFileGuard  *)
(* or none.                                                                *)

LEMMA InitPromise == CleanupInit => Promise!Init
BY DEF CleanupInit, Promise!Init, Guarded, Stage, QuitSent

(* Most steps change nothing of what TempFileGuard speaks about. *)
LEMMA StutterPromise ==
  ASSUME Guarded' = Guarded, QuitSent' = QuitSent, UNCHANGED <<programAlive, tempFile>>
  PROVE  UNCHANGED Promise!vars
BY DEF Promise!vars, Stage

LEMMA NextPromise ==
  GuardInv /\ GuardInv' /\ [CleanupNext]_cleanupVars => [Promise!Next]_(Promise!vars)
<1> SUFFICES ASSUME GuardInv, GuardInv', [CleanupNext]_cleanupVars
             PROVE  Promise!Next \/ UNCHANGED Promise!vars
  OBVIOUS
<1>0. Inv /\ Inv' /\ CleanupTypeOK /\ QuitInv /\ QuitInv'
  BY DEF GuardInv, Inv
<1>1. ASSUME NEW t \in Threads, WriteCommand(t)
      PROVE  UNCHANGED Promise!vars
  <2>1. Guarded' = Guarded
    BY <1>0, <1>1, WriteCommandGuard
  <2>2. ~Unreferenced /\ ~Unreferenced'
    BY <1>0, <1>1, ConstantsAssumption DEF WriteCommand, Inv, WriterInv, Unreferenced
  <2>3. ~QuitSent /\ ~QuitSent'
    BY <1>0, <2>2 DEF QuitInv
  <2>4. QuitSent' = QuitSent
    BY <2>3 DEF QuitSent
  <2>5. UNCHANGED <<programAlive, tempFile>>
    BY <1>1 DEF WriteCommand, fileVars
  <2> QED
    BY <2>1, <2>4, <2>5, StutterPromise
<1>2. ASSUME NEW t \in Threads, WriteBody(t)
      PROVE  Promise!Next
  <2> DEFINE p == thread[t].path
  <2>1. p \in TempPaths /\ (Guarded' = Guarded \cup {p} \/ Guarded' = Guarded \ {p})
    BY <1>0, <1>2, WriteBodyGuard
  <2>2. programAlive /\ programAlive' /\ tempFile' = tempFile /\ ~Unreferenced /\ child' = child /\ Reading
    BY <1>0, <1>2, ConstantsAssumption
    DEF WriteBody, Write, Inv, WriterInv, Unreferenced, fileVars, childVars
  <2>3. ~QuitSent
    BY <1>0, <2>2 DEF QuitInv
  <2>4. ~QuitSent'
    <3>1. /\ DOMAIN pipe' = 1..(Len(pipe) + 1) /\ DOMAIN pipe = 1..Len(pipe) /\ Len(pipe) \in Nat
          /\ \A i \in 1..Len(pipe) : pipe'[i] = pipe[i]
          /\ pipe'[Len(pipe) + 1] = p
      BY <1>0, <1>2, <2>1, WriteFacts DEF WriteBody, Tokens
    <3>2. p # "Quit"
      BY <2>1, Disjoint
    <3> QED
      BY <2>2, <2>3, <3>1, <3>2 DEF QuitSent, Reading
  <2>5. Stage = "working" /\ Stage' = "working"
    BY <2>2, <2>3, <2>4 DEF Stage
  <2>6. Promise!Guard(p) \/ Promise!Forget(p)
    BY <2>1, <2>2, <2>5 DEF Promise!Guard, Promise!Forget
  <2> QED
    BY <2>1, <2>6 DEF Promise!Next
<1>3. ASSUME NEW t \in Threads, WriteQuit(t)
      PROVE  Promise!Next \/ UNCHANGED Promise!vars
  <2>1. Guarded' = Guarded
    BY <1>0, <1>3, WriteQuitGuard
  <2>2. programAlive /\ UNCHANGED <<programAlive, tempFile, child>> /\ ~QuitSent
    BY <1>0, <1>3 DEF WriteQuit, QuitInv, fileVars, childVars
  <2>3. CASE Write("Quit")
    <3>1. "Quit" \in Tokens
      BY DEF Tokens
    <3>2. Len(pipe) + 1 \in DOMAIN pipe' /\ pipe'[Len(pipe) + 1] = "Quit"
      BY <1>0, <2>3, <3>1, WriteFacts
    <3>3. QuitSent'
      BY <3>2 DEF QuitSent
    <3>4. Promise!Leave("quit")
      BY <2>1, <2>2, <3>3 DEF Promise!Leave, Stage
    <3> QED
      BY <3>4 DEF Promise!Next
  <2>4. CASE UNCHANGED pipe
    BY <2>1, <2>2, <2>4, StutterPromise DEF QuitSent
  <2> QED
    BY <1>3, <2>3, <2>4 DEF WriteQuit
<1>4. ASSUME NEW t \in Threads, NEW p \in TempPaths,
             CallGuard(t, p) \/ CallDrop(t, p) \/ Always(t, p)
      PROVE  UNCHANGED Promise!vars
  <2>1. UNCHANGED <<programAlive, pipe, childVars, tempFile>>
    BY <1>4 DEF CallGuard, CallDrop, Always, fileVars
  <2> QED
    BY <2>1, GuardedSame, StutterPromise DEF childVars, QuitSent
<1>5. CASE Crash
  <2>1. /\ programAlive /\ ~programAlive' /\ tempFile' = tempFile
        /\ Guarded' = Guarded /\ QuitSent' = QuitSent
    BY <1>5, GuardedSame DEF Crash, fileVars, childVars, QuitSent
  <2>2. CASE QuitSent
    BY <2>1, <2>2 DEF Promise!vars, Stage
  <2>3. CASE ~QuitSent
    <3>1. Promise!Leave("crashed")
      BY <2>1, <2>3 DEF Promise!Leave, Stage
    <3> QED
      BY <3>1 DEF Promise!Next
  <2> QED
    BY <2>2, <2>3
<1>6. ASSUME NEW p \in TempPaths, CreateTemp(p) \/ DeleteTemp(p)
      PROVE  Promise!Next
  <2>1. /\ programAlive /\ UNCHANGED programAlive
        /\ Guarded' = Guarded /\ QuitSent' = QuitSent
    BY <1>6, GuardedSame DEF CreateTemp, DeleteTemp, childVars, QuitSent
  <2>2. Stage # "crashed" /\ Stage' = Stage
    BY <2>1 DEF Stage
  <2>3. Promise!Create(p) \/ Promise!Delete(p)
    BY <1>6, <2>1, <2>2 DEF CreateTemp, DeleteTemp, Promise!Create, Promise!Delete
  <2> QED
    BY <2>3 DEF Promise!Next
<1>7. CASE ReadCommand \/ ReadBody
  <2>1. Guarded' = Guarded
    BY <1>0, <1>7, ReadGuard
  <2>2. QuitSent' = QuitSent
    <3>1. CASE ReadCommand
      <4>1. header \notin Headers /\ Head(pipe) = pipe[1] /\ pipe # <<>> /\ pipe' = Tail(pipe)
        BY <1>0, <3>1, ReadFacts DEF ReadCommand, Inv, ChildInv, Reading
      <4>2. child = "command" /\ (child' = "quit" <=> pipe[1] = "Quit")
        BY <3>1, <4>1 DEF ReadCommand
      <4> QED
        BY <1>0, <4>1, <4>2, ReadSplit DEF QuitSent
    <3>2. CASE ReadBody
      <4>1. pipe[1] \in TempPaths
        BY <1>0, <3>2, ReadFacts DEF ReadBody, Inv, ChildInv, Reading, MessagesFramed, CommandOf
      <4> QED
        BY <1>0, <3>2, <4>1, ReadSplit, Disjoint DEF QuitSent, ReadBody
    <3> QED
      BY <1>7, <3>1, <3>2
  <2> QED
    BY <1>7, <2>1, <2>2, StutterPromise DEF ReadCommand, ReadBody, fileVars
<1>8. ASSUME NEW p \in TempPaths, TryRemove(p)
      PROVE  Promise!Next \/ UNCHANGED Promise!vars
  <2>1. /\ pipe = <<>> /\ ~programAlive /\ ~QuitSent
        /\ UNCHANGED <<pipe, header, programAlive, child>> /\ p \in remembered
    BY <1>0, <1>8 DEF TryRemove, Inv, ChildInv, QuitSent, CleanupTypeOK
  <2>2. Guarded = remembered /\ Guarded' = remembered'
    BY <1>0, <2>1 DEF Guarded, Inv, CleanupTypeOK
  <2>3. Stage = "crashed" /\ Stage' = "crashed" /\ QuitSent' = QuitSent
    BY <2>1 DEF Stage, QuitSent
  <2>4. CASE tempFile[p] = "present" /\ p \in held
    BY <1>8, <2>1, <2>2, <2>3, <2>4, StutterPromise DEF TryRemove
  <2>5. CASE ~(tempFile[p] = "present" /\ p \in held)
    <3>1. Promise!CleanUp(p)
      BY <1>8, <2>1, <2>2, <2>3, <2>5 DEF TryRemove, Promise!CleanUp
    <3> QED
      BY <3>1 DEF Promise!Next
  <2> QED
    BY <2>4, <2>5
<1>9. CASE ReadEof \/ EndPass \/ TimeUp \/ KillChild
  <2>1. UNCHANGED <<programAlive, pipe, header, remembered, tempFile>>
    BY <1>9 DEF ReadEof, EndPass, TimeUp, KillChild, fileVars
  <2>2. QuitSent' = QuitSent
    BY <1>9, <2>1 DEF ReadEof, EndPass, TimeUp, KillChild, QuitSent, Reading
  <2> QED
    BY <2>1, <2>2, GuardedSame, StutterPromise
<1>10. CASE WaitCleanup \/ \E p \in TempPaths : Hold(p) \/ Unhold(p)
  <2>1. UNCHANGED <<programAlive, pipe, childVars, tempFile>>
    BY <1>10 DEF WaitCleanup, Hold, Unhold, fileVars
  <2> QED
    BY <2>1, GuardedSame, StutterPromise DEF childVars, QuitSent
<1>11. CASE UNCHANGED cleanupVars
  BY <1>11, GuardedSame, StutterPromise DEF cleanupVars, childVars, fileVars, QuitSent
<1>12. ASSUME NEW t \in Threads, Release(t) \/ FailWrite(t)
       PROVE  UNCHANGED Promise!vars
  <2>1. UNCHANGED <<programAlive, pipe, childVars, tempFile>>
    BY <1>12 DEF Release, FailWrite, fileVars
  <2> QED
    BY <2>1, GuardedSame, StutterPromise DEF childVars, QuitSent
<1> QED
  BY <1>1, <1>2, <1>3, <1>4, <1>5, <1>6, <1>7, <1>8, <1>9, <1>10, <1>11, <1>12
  DEF CleanupNext, ThreadStep, ChildStep

(* The two processes keep the promise of TempFileGuard.                    *)
THEOREM PromiseKept == CleanupSpec => ImplementsPromise
BY InitPromise, NextPromise, GuardInvariance, PTL
DEF CleanupSpec, ImplementsPromise, Promise!Spec

-------------------------------------------------------------------------------
(* WizTreeBackup, for any number of candidates: its type, and that success *)
(* is complete, that paths are guarded while they exist and that Quit is   *)
(* only sent over what another process holds.  All follow from one         *)
(* inductive invariant.                                                    *)

Early == {"begin", "mount", "guardLink", "create", "guardExport", "output", "progress", "spawn", "peek"}
Waiting == {"check", "poll", "sleep", "reap"}
Listing == {"list", "child", "childWait"}
Late == {"stop", "join", "open", "copy", "finish", "close"}
Leaving == {"quit", "return"}

(* What the two instances of WizTree can be while the run is at pc. *)
WizInv ==
  /\ pc \in Early => wiz = "none" /\ worker = "none"
  /\ wiz = "none" => worker = "none"
  /\ Runs(wiz) => pc \in Waiting \/ abandoned
  /\ pc \in Listing \cup Late => wiz = "ok"
  /\ pc \in Late => ~Runs(worker)
  /\ worker # "none" => wiz # "exporting"
  /\ worker # "dying"
  /\ worker = "killed" => ~alive

(* When the export file is complete, and how far that has got. *)
DataInv ==
  /\ wiz = "ok" /\ worker = "none" => export = "complete"
  /\ worker = "ok" => export = "complete"
  /\ worker # "failed" /\ alive =>
       /\ pc = "finish" => output = "copied"
       /\ pc = "close" => output = "complete"
  /\ worker # "failed" /\ status = "ok" => output = "complete"

(* Which temporary paths exist. *)
FileInv ==
  /\ mode # "plain" => file["export"] = "new"
  /\ mode # "webdav" => file["link"] = "new"
  /\ pc = "begin" => \A p \in Paths : file[p] # "present"
  /\ status = "ok" => pc \in Leaving /\ (\A p \in Paths : file[p] # "present")
  /\ stage = "quit" => pc = "return"
  /\ pc \in Leaving =>
       \A p \in Paths : file[p] = "present" => p = "export" /\ (worker # "none" \/ abandoned)

IInv == TypeOK /\ WizInv /\ DataInv /\ FileInv /\ GuardedWhilePresent

(* TypeOK in parts, because few actions change each. *)
FlagsOK == alive \in BOOLEAN /\ abandoned \in BOOLEAN

RunOK ==
  /\ mode \in Mode
  /\ pc \in PC
  /\ status \in {"none", "ok", "error"}
  /\ candidates \in 0..MaxCandidates
  /\ progress \in {"none", "running", "ended"}
  /\ cleanup \in {"none", "running", "dead"}
  /\ output \in {"none", "empty", "partial", "copied", "complete"}

SignalOK ==
  /\ canceled \in SUBSET {"run", "progress"}
  /\ reason \in [{"run", "progress"} -> {"none", "Ctrl-C", "cleanup failed"}]
  /\ links \in SUBSET {<<"progress", "run">>}

GuardOK ==
  /\ guarded \in SUBSET Paths
  /\ stage \in {"working", "quit", "crashed"}
  /\ file \in [Paths -> {"new", "present", "gone"}]

WizOK ==
  /\ wiz \in Process
  /\ worker \in Process
  /\ export \in {"none", "empty", "partial", "complete"}

LEMMA TypeParts == TypeOK <=> FlagsOK /\ RunOK /\ SignalOK /\ GuardOK /\ WizOK
  BY DEF TypeOK, FlagsOK, RunOK, SignalOK, GuardOK, WizOK

(* The actions that change the signals. *)
LEMMA SignalFrame == [Next]_vars => UNCHANGED signalVars \/ StartProgress \/
        Stop \/ Unwind \/ Interrupt \/ Propagate \/ NoticeCleanup
  BY DEF Next, RunStep, WizStep, vars, Begin, Mount, GuardLink, Create,
        GuardExport, CreateOutput, Spawn, SpawnFails, NoCandidate, Peek, Check, Poll, Sleep, Kill, Reap,
        List, ListAgain, WaitChild, Join, Open, Copy, Finish, Close, DropPath,
        Quit, Return, Fail, Abandon, EndProgress, End, StartWorker,
        LauncherExits, StartExport, FinishExport, FailExport, Die, CloseJob,
        CleanupDies, CleanUp, Goto, Throw, runVars, signalVars, guardVars,
        wizVars

(* The actions that change files or what is guarded. *)
LEMMA GuardFrame == [Next]_vars => UNCHANGED guardVars \/ Mount \/ GuardLink
        \/ Create \/ GuardExport \/ Close \/ DropPath \/ Quit \/ End \/ (\E p
        \in Paths : CleanUp(p))
  BY DEF Next, RunStep, WizStep, vars, Begin, CreateOutput, StartProgress,
        Spawn, SpawnFails, NoCandidate, Peek, Check, Poll, Sleep, Kill, Reap, List, ListAgain,
        WaitChild, Stop, Join, Open, Copy, Finish, Unwind, Return, Fail,
        Abandon, Interrupt, Propagate, EndProgress, NoticeCleanup,
        StartWorker, LauncherExits, StartExport, FinishExport, FailExport,
        Die, CloseJob, CleanupDies, Goto, Throw, runVars, signalVars,
        guardVars, wizVars

(* The actions that change WizTree or its export. *)
LEMMA WizFrame == [Next]_vars => UNCHANGED wizVars \/ Create \/ Spawn \/ Peek \/ Kill
        \/ StartWorker \/ LauncherExits \/ StartExport \/ FinishExport \/
        FailExport \/ Die \/ CloseJob
  BY DEF Next, RunStep, WizStep, vars, Begin, Mount, GuardLink, GuardExport,
        CreateOutput, StartProgress, SpawnFails, NoCandidate, Check, Poll, Sleep, Reap, List,
        ListAgain, WaitChild, Stop, Join, Open, Copy, Finish, Close, Unwind,
        DropPath, Quit, Return, Fail, Abandon, Interrupt, Propagate,
        EndProgress, NoticeCleanup, End, CleanupDies, CleanUp, Goto, Throw,
        runVars, signalVars, guardVars, wizVars

(* Every step keeps the flags Boolean. *)
LEMMA FlagsStep == FlagsOK /\ [Next]_vars => FlagsOK'
<1> SUFFICES ASSUME FlagsOK, [Next]_vars PROVE FlagsOK'
  OBVIOUS
<1>1. CASE Begin
  BY <1>1, Zenon DEF Begin, At, Goto, signalVars, guardVars, wizVars, FlagsOK
<1>2. CASE Mount
  BY <1>2, Zenon DEF Mount, At, Goto, signalVars, guardVars, wizVars,
        Guard!Create, FlagsOK
<1>3. CASE GuardLink
  BY <1>3, Zenon DEF GuardLink, At, Goto, GuardAlways, signalVars, guardVars,
        wizVars, Guard!Guard, FlagsOK
<1>4. CASE Create
  BY <1>4, Zenon DEF Create, At, Goto, signalVars, guardVars, Guard!Create,
        FlagsOK
<1>5. CASE GuardExport
  BY <1>5, Zenon DEF GuardExport, At, Goto, GuardAlways, signalVars,
        guardVars, wizVars, Guard!Guard, FlagsOK
<1>6. CASE CreateOutput
  BY <1>6, Zenon DEF CreateOutput, At, Goto, signalVars, guardVars, wizVars,
        FlagsOK
<1>7. CASE StartProgress
  BY <1>7, Zenon DEF StartProgress, At, Goto, guardVars, wizVars, Signal!Link,
        FlagsOK
<1>8. CASE Spawn
  BY <1>8, Zenon DEF Spawn, At, Goto, signalVars, guardVars, FlagsOK
<1>9. CASE SpawnFails
  BY <1>9, Zenon DEF SpawnFails, At, Goto, Throw, Canceled, signalVars,
        guardVars, wizVars, FlagsOK
<1>9a. CASE NoCandidate
  BY <1>9a, Zenon DEF NoCandidate, At, Goto, Throw, Canceled, signalVars,
        guardVars, wizVars, FlagsOK
<1>9b. CASE Peek
  BY <1>9b, Zenon DEF Peek, At, Goto, signalVars,
        guardVars, wizVars, FlagsOK
<1>9c. CASE Check
  BY <1>9c, Zenon DEF Check, At, Goto, Throw, Canceled, signalVars,
        guardVars, wizVars, FlagsOK
<1>10. CASE Poll
  BY <1>10, Zenon DEF Poll, At, Goto, Throw, Runs, signalVars, guardVars,
        wizVars, FlagsOK
<1>11. CASE Sleep
  BY <1>11, Zenon DEF Sleep, At, Goto, Canceled, signalVars, guardVars,
        wizVars, FlagsOK
<1>12. CASE Kill
  BY <1>12, Zenon DEF Kill, At, Goto, Canceled, Runs, signalVars, guardVars,
        FlagsOK
<1>13. CASE Reap
  BY <1>13, Zenon DEF Reap, At, Throw, Runs, signalVars, guardVars, wizVars,
        FlagsOK
<1>14. CASE List
  BY <1>14, Zenon DEF List, At, Goto, Runs, signalVars, guardVars, wizVars,
        FlagsOK
<1>15. CASE ListAgain
  BY <1>15, Zenon DEF ListAgain, At, Goto, Runs, signalVars, guardVars,
        wizVars, FlagsOK
<1>16. CASE WaitChild
  BY <1>16, Zenon DEF WaitChild, At, Goto, Throw, Canceled, signalVars,
        guardVars, wizVars, FlagsOK
<1>17. CASE Stop
  BY <1>17, Zenon DEF Stop, At, Goto, CancelProgress, signalVars, guardVars,
        wizVars, Signal!Cancel, Signal!BecomeCanceled, FlagsOK
<1>18. CASE Join
  BY <1>18, Zenon DEF Join, At, Goto, signalVars, guardVars, wizVars, FlagsOK
<1>19. CASE Open
  BY <1>19, Zenon DEF Open, At, Goto, Throw, ExportHeld, signalVars,
        guardVars, wizVars, FlagsOK
<1>20. CASE Copy
  BY <1>20, Zenon DEF Copy, At, Goto, Throw, Canceled, signalVars, guardVars,
        wizVars, FlagsOK
<1>21. CASE Finish
  BY <1>21, Zenon DEF Finish, At, Goto, signalVars, guardVars, wizVars,
        FlagsOK
<1>22. CASE Close
  BY <1>22, Zenon DEF Close, At, TempPath, Removable, ExportHeld, signalVars,
        guardVars, wizVars, Guard!Delete, FlagsOK
<1>23. CASE Unwind
  BY <1>23, Zenon DEF Unwind, At, Goto, CancelProgress, signalVars, guardVars,
        wizVars, Signal!Cancel, Signal!BecomeCanceled, FlagsOK
<1>24. CASE DropPath
  BY <1>24, Zenon DEF DropPath, At, Goto, TempPath, Removable, ExportHeld,
        signalVars, guardVars, wizVars, Guard!Delete, FlagsOK
<1>25. CASE Quit
  BY <1>25, Zenon DEF Quit, At, Goto, signalVars, guardVars, wizVars,
        Guard!Leave, FlagsOK
<1>26. CASE Return
  BY <1>26, Zenon DEF Return, At, End, runVars, signalVars, guardVars,
        wizVars, Guard!Leave, FlagsOK
<1>27. CASE Fail
  BY <1>27, Zenon DEF Fail, Throw, signalVars, guardVars, wizVars, FlagsOK
<1>28. CASE Abandon
  BY <1>28, Zenon DEF Abandon, Throw, Canceled, signalVars, guardVars,
        wizVars, FlagsOK
<1>29. CASE Interrupt
  BY <1>29, Zenon DEF Interrupt, runVars, guardVars, wizVars,
        Signal!BecomeCanceled, FlagsOK
<1>30. CASE Propagate
  BY <1>30, Zenon DEF Propagate, runVars, guardVars, wizVars, Signal!Inherit,
        Signal!BecomeCanceled, FlagsOK
<1>31. CASE EndProgress
  BY <1>31, Zenon DEF EndProgress, runVars, signalVars, guardVars, wizVars,
        FlagsOK
<1>32. CASE NoticeCleanup
  BY <1>32, Zenon DEF NoticeCleanup, runVars, guardVars, wizVars,
        Signal!BecomeCanceled, FlagsOK
<1>33. CASE End
  BY <1>33, Zenon DEF End, runVars, signalVars, guardVars, wizVars,
        Guard!Leave, FlagsOK
<1>34. CASE StartWorker
  BY <1>34, Zenon DEF StartWorker, runVars, signalVars, guardVars, FlagsOK
<1>35. CASE LauncherExits
  BY <1>35, Zenon DEF LauncherExits, runVars, signalVars, guardVars, FlagsOK
<1>36. CASE StartExport
  BY <1>36, Zenon DEF StartExport, runVars, signalVars, guardVars, FlagsOK
<1>37. CASE FinishExport
  BY <1>37, Zenon DEF FinishExport, runVars, signalVars, guardVars, FlagsOK
<1>38. CASE FailExport
  BY <1>38, Zenon DEF FailExport, runVars, signalVars, guardVars, FlagsOK
<1>39. CASE Die
  BY <1>39, Zenon DEF Die, runVars, signalVars, guardVars, FlagsOK
<1>40. CASE CloseJob
  BY <1>40, Zenon DEF CloseJob, Runs, runVars, signalVars, guardVars, FlagsOK
<1>41. CASE CleanupDies
  BY <1>41, Zenon DEF CleanupDies, runVars, signalVars, guardVars, wizVars,
        FlagsOK
<1>42. CASE \E p \in Paths : CleanUp(p)
  BY <1>42, Zenon DEF CleanUp, runVars, signalVars, wizVars, Guard!CleanUp,
        FlagsOK
<1>43. CASE UNCHANGED vars
  BY <1>43 DEF vars, runVars, signalVars, guardVars, wizVars, FlagsOK
<1>44. QED
  BY <1>1, <1>2, <1>3, <1>4, <1>5, <1>6, <1>7, <1>8, <1>9, <1>9a, <1>9b, <1>9c, <1>10, <1>11,
        <1>12, <1>13, <1>14, <1>15, <1>16, <1>17, <1>18, <1>19, <1>20, <1>21,
        <1>22, <1>23, <1>24, <1>25, <1>26, <1>27, <1>28, <1>29, <1>30, <1>31,
        <1>32, <1>33, <1>34, <1>35, <1>36, <1>37, <1>38, <1>39, <1>40, <1>41,
        <1>42, <1>43 DEF Next, RunStep, WizStep

(* Every step keeps the types of the run. *)
LEMMA RunStepType == RunOK /\ [Next]_vars => RunOK'
<1> SUFFICES ASSUME RunOK, [Next]_vars PROVE RunOK'
  OBVIOUS
<1>1. CASE Begin
  BY <1>1, CandidatesAssumption DEF Begin, At, Goto, signalVars, guardVars,
        wizVars, RunOK, PC
<1>2. CASE Mount
  BY <1>2, CandidatesAssumption DEF Mount, At, Goto, signalVars, guardVars,
        wizVars, Guard!Create, RunOK, PC
<1>3. CASE GuardLink
  BY <1>3, CandidatesAssumption DEF GuardLink, At, Goto, GuardAlways,
        signalVars, guardVars, wizVars, Guard!Guard, RunOK, PC
<1>4. CASE Create
  BY <1>4, CandidatesAssumption DEF Create, At, Goto, signalVars, guardVars,
        Guard!Create, RunOK, PC
<1>5. CASE GuardExport
  BY <1>5, CandidatesAssumption DEF GuardExport, At, Goto, GuardAlways,
        signalVars, guardVars, wizVars, Guard!Guard, RunOK, PC
<1>6. CASE CreateOutput
  BY <1>6, CandidatesAssumption DEF CreateOutput, At, Goto, signalVars,
        guardVars, wizVars, RunOK, PC
<1>7. CASE StartProgress
  BY <1>7, CandidatesAssumption DEF StartProgress, At, Goto, guardVars,
        wizVars, Signal!Link, RunOK, PC
<1>8. CASE Spawn
  <2>1. candidates' \in 0..MaxCandidates
    BY <1>8, CandidatesAssumption DEF Spawn, RunOK
  <2>2. QED
    BY <1>8, <2>1 DEF Spawn, Goto, RunOK, PC
<1>9. CASE SpawnFails
  <2>1. candidates' \in 0..MaxCandidates
    BY <1>9, CandidatesAssumption DEF SpawnFails, RunOK
  <2>2. QED
    BY <1>9, <2>1 DEF SpawnFails, Goto, Throw, RunOK, PC
<1>9a. CASE NoCandidate
  <2>1. candidates' \in 0..MaxCandidates
    BY <1>9a, CandidatesAssumption DEF NoCandidate, RunOK
  <2>2. QED
    BY <1>9a, <2>1 DEF NoCandidate, Goto, Throw, RunOK, PC
<1>9b. CASE Peek
  <2>1. candidates' \in 0..MaxCandidates
    BY <1>9b, CandidatesAssumption DEF Peek, RunOK
  <2>2. QED
    BY <1>9b, <2>1 DEF Peek, Goto, RunOK, PC
<1>9c. CASE Check
  <2>1. candidates' \in 0..MaxCandidates
    BY <1>9c, CandidatesAssumption DEF Check, RunOK
  <2>2. QED
    BY <1>9c, <2>1 DEF Check, Goto, Throw, RunOK, PC
<1>10. CASE Poll
  BY <1>10, CandidatesAssumption DEF Poll, At, Goto, Throw, Runs, signalVars,
        guardVars, wizVars, RunOK, PC
<1>11. CASE Sleep
  BY <1>11, CandidatesAssumption DEF Sleep, At, Goto, Canceled, signalVars,
        guardVars, wizVars, RunOK, PC
<1>12. CASE Kill
  BY <1>12, CandidatesAssumption DEF Kill, At, Goto, Canceled, Runs,
        signalVars, guardVars, RunOK, PC
<1>13. CASE Reap
  BY <1>13, CandidatesAssumption DEF Reap, At, Throw, Runs, signalVars,
        guardVars, wizVars, RunOK, PC
<1>14. CASE List
  BY <1>14, CandidatesAssumption DEF List, At, Goto, Runs, signalVars,
        guardVars, wizVars, RunOK, PC
<1>15. CASE ListAgain
  BY <1>15, CandidatesAssumption DEF ListAgain, At, Goto, Runs, signalVars,
        guardVars, wizVars, RunOK, PC
<1>16. CASE WaitChild
  BY <1>16, CandidatesAssumption DEF WaitChild, At, Goto, Throw, Canceled,
        signalVars, guardVars, wizVars, RunOK, PC
<1>17. CASE Stop
  BY <1>17, CandidatesAssumption DEF Stop, At, Goto, CancelProgress,
        signalVars, guardVars, wizVars, Signal!Cancel, Signal!BecomeCanceled,
        RunOK, PC
<1>18. CASE Join
  BY <1>18, CandidatesAssumption DEF Join, At, Goto, signalVars, guardVars,
        wizVars, RunOK, PC
<1>19. CASE Open
  BY <1>19, CandidatesAssumption DEF Open, At, Goto, Throw, ExportHeld,
        signalVars, guardVars, wizVars, RunOK, PC
<1>20. CASE Copy
  BY <1>20, CandidatesAssumption DEF Copy, At, Goto, Throw, Canceled,
        signalVars, guardVars, wizVars, RunOK, PC
<1>21. CASE Finish
  BY <1>21, CandidatesAssumption DEF Finish, At, Goto, signalVars, guardVars,
        wizVars, RunOK, PC
<1>22. CASE Close
  BY <1>22, CandidatesAssumption DEF Close, At, TempPath, Removable,
        ExportHeld, signalVars, guardVars, wizVars, Guard!Delete, RunOK, PC
<1>23. CASE Unwind
  BY <1>23, CandidatesAssumption DEF Unwind, At, Goto, CancelProgress,
        signalVars, guardVars, wizVars, Signal!Cancel, Signal!BecomeCanceled,
        RunOK, PC
<1>24. CASE DropPath
  BY <1>24, CandidatesAssumption DEF DropPath, At, Goto, TempPath, Removable,
        ExportHeld, signalVars, guardVars, wizVars, Guard!Delete, RunOK, PC
<1>25. CASE Quit
  BY <1>25, CandidatesAssumption DEF Quit, At, Goto, signalVars, guardVars,
        wizVars, Guard!Leave, RunOK, PC
<1>26. CASE Return
  BY <1>26, CandidatesAssumption DEF Return, At, End, runVars, signalVars,
        guardVars, wizVars, Guard!Leave, RunOK, PC
<1>27. CASE Fail
  BY <1>27, CandidatesAssumption DEF Fail, Throw, signalVars, guardVars,
        wizVars, RunOK, PC
<1>28. CASE Abandon
  BY <1>28, CandidatesAssumption DEF Abandon, Throw, Canceled, signalVars,
        guardVars, wizVars, RunOK, PC
<1>29. CASE Interrupt
  BY <1>29, CandidatesAssumption DEF Interrupt, runVars, guardVars, wizVars,
        Signal!BecomeCanceled, RunOK, PC
<1>30. CASE Propagate
  BY <1>30, CandidatesAssumption DEF Propagate, runVars, guardVars, wizVars,
        Signal!Inherit, Signal!BecomeCanceled, RunOK, PC
<1>31. CASE EndProgress
  BY <1>31, CandidatesAssumption DEF EndProgress, runVars, signalVars,
        guardVars, wizVars, RunOK, PC
<1>32. CASE NoticeCleanup
  BY <1>32, CandidatesAssumption DEF NoticeCleanup, runVars, guardVars,
        wizVars, Signal!BecomeCanceled, RunOK, PC
<1>33. CASE End
  BY <1>33, CandidatesAssumption DEF End, runVars, signalVars, guardVars,
        wizVars, Guard!Leave, RunOK, PC
<1>34. CASE StartWorker
  BY <1>34, CandidatesAssumption DEF StartWorker, runVars, signalVars,
        guardVars, RunOK, PC
<1>35. CASE LauncherExits
  BY <1>35, CandidatesAssumption DEF LauncherExits, runVars, signalVars,
        guardVars, RunOK, PC
<1>36. CASE StartExport
  BY <1>36, CandidatesAssumption DEF StartExport, runVars, signalVars,
        guardVars, RunOK, PC
<1>37. CASE FinishExport
  BY <1>37, CandidatesAssumption DEF FinishExport, runVars, signalVars,
        guardVars, RunOK, PC
<1>38. CASE FailExport
  BY <1>38, CandidatesAssumption DEF FailExport, runVars, signalVars,
        guardVars, RunOK, PC
<1>39. CASE Die
  BY <1>39, CandidatesAssumption DEF Die, runVars, signalVars, guardVars,
        RunOK, PC
<1>40. CASE CloseJob
  BY <1>40, CandidatesAssumption DEF CloseJob, Runs, runVars, signalVars,
        guardVars, RunOK, PC
<1>41. CASE CleanupDies
  BY <1>41, CandidatesAssumption DEF CleanupDies, runVars, signalVars,
        guardVars, wizVars, RunOK, PC
<1>42. CASE \E p \in Paths : CleanUp(p)
  BY <1>42, CandidatesAssumption DEF CleanUp, runVars, signalVars, wizVars,
        Guard!CleanUp, RunOK, PC
<1>43. CASE UNCHANGED vars
  BY <1>43 DEF vars, runVars, signalVars, guardVars, wizVars, RunOK, PC
<1>44. QED
  BY <1>1, <1>2, <1>3, <1>4, <1>5, <1>6, <1>7, <1>8, <1>9, <1>9a, <1>9b, <1>9c, <1>10, <1>11,
        <1>12, <1>13, <1>14, <1>15, <1>16, <1>17, <1>18, <1>19, <1>20, <1>21,
        <1>22, <1>23, <1>24, <1>25, <1>26, <1>27, <1>28, <1>29, <1>30, <1>31,
        <1>32, <1>33, <1>34, <1>35, <1>36, <1>37, <1>38, <1>39, <1>40, <1>41,
        <1>42, <1>43 DEF Next, RunStep, WizStep

(* Every step keeps the types of the signals. *)
LEMMA SignalStep == SignalOK /\ [Next]_vars => SignalOK'
<1> SUFFICES ASSUME SignalOK, [Next]_vars PROVE SignalOK'
  OBVIOUS
<1>1. CASE StartProgress
  BY <1>1 DEF StartProgress, At, Goto, guardVars, wizVars, Signal!Link,
        SignalOK
<1>2. CASE Stop
  BY <1>2 DEF Stop, At, Goto, CancelProgress, signalVars, guardVars, wizVars,
        Signal!Cancel, Signal!BecomeCanceled, SignalOK
<1>3. CASE Unwind
  BY <1>3 DEF Unwind, At, Goto, CancelProgress, signalVars, guardVars,
        wizVars, Signal!Cancel, Signal!BecomeCanceled, SignalOK
<1>4. CASE Interrupt
  BY <1>4 DEF Interrupt, runVars, guardVars, wizVars, Signal!BecomeCanceled,
        SignalOK
<1>5. CASE Propagate
  BY <1>5 DEF Propagate, runVars, guardVars, wizVars, Signal!Inherit,
        Signal!BecomeCanceled, SignalOK
<1>6. CASE NoticeCleanup
  BY <1>6 DEF NoticeCleanup, runVars, guardVars, wizVars,
        Signal!BecomeCanceled, SignalOK
<1>7. CASE UNCHANGED signalVars
  BY <1>7 DEF signalVars, SignalOK
<1>8. QED
  BY <1>1, <1>2, <1>3, <1>4, <1>5, <1>6, <1>7, SignalFrame

(* Every step keeps the types of the files. *)
LEMMA GuardStep == GuardOK /\ [Next]_vars => GuardOK'
<1> SUFFICES ASSUME GuardOK, [Next]_vars PROVE GuardOK'
  OBVIOUS
<1>1. CASE Mount
  BY <1>1 DEF Mount, At, Goto, signalVars, guardVars, wizVars, Guard!Create,
        GuardOK, Paths
<1>2. CASE GuardLink
  BY <1>2 DEF GuardLink, At, Goto, GuardAlways, signalVars, guardVars,
        wizVars, Guard!Guard, GuardOK, Paths
<1>3. CASE Create
  BY <1>3 DEF Create, At, Goto, signalVars, guardVars, Guard!Create, GuardOK,
        Paths
<1>4. CASE GuardExport
  BY <1>4 DEF GuardExport, At, Goto, GuardAlways, signalVars, guardVars,
        wizVars, Guard!Guard, GuardOK, Paths
<1>5. CASE Close
  BY <1>5 DEF Close, At, TempPath, Removable, ExportHeld, signalVars,
        guardVars, wizVars, Guard!Delete, GuardOK, Paths
<1>6. CASE DropPath
  BY <1>6 DEF DropPath, At, Goto, TempPath, Removable, ExportHeld, signalVars,
        guardVars, wizVars, Guard!Delete, GuardOK, Paths
<1>7. CASE Quit
  BY <1>7 DEF Quit, At, Goto, signalVars, guardVars, wizVars, Guard!Leave,
        GuardOK, Paths
<1>8. CASE End
  BY <1>8 DEF End, runVars, signalVars, guardVars, wizVars, Guard!Leave,
        GuardOK, Paths
<1>9. CASE \E p \in Paths : CleanUp(p)
  BY <1>9 DEF CleanUp, runVars, signalVars, wizVars, Guard!CleanUp, GuardOK,
        Paths
<1>10. CASE UNCHANGED guardVars
  BY <1>10 DEF guardVars, GuardOK
<1>11. QED
  BY <1>1, <1>2, <1>3, <1>4, <1>5, <1>6, <1>7, <1>8, <1>9, <1>10, GuardFrame

(* Every step keeps the types of the processes. *)
LEMMA WizStepType == WizOK /\ [Next]_vars => WizOK'
<1> SUFFICES ASSUME WizOK, [Next]_vars PROVE WizOK'
  OBVIOUS
<1>1. CASE Create
  BY <1>1 DEF Create, At, Goto, signalVars, guardVars, Guard!Create, WizOK,
        Process
<1>2. CASE Spawn
  BY <1>2 DEF Spawn, At, Goto, signalVars, guardVars, WizOK, Process
<1>2a. CASE Peek
  BY <1>2a DEF Peek, At, Goto, signalVars, guardVars, WizOK, Process
<1>3. CASE Kill
  BY <1>3 DEF Kill, At, Goto, Canceled, Runs, signalVars, guardVars, WizOK,
        Process
<1>4. CASE StartWorker
  BY <1>4 DEF StartWorker, runVars, signalVars, guardVars, WizOK, Process
<1>5. CASE LauncherExits
  BY <1>5 DEF LauncherExits, runVars, signalVars, guardVars, WizOK, Process
<1>6. CASE StartExport
  BY <1>6 DEF StartExport, runVars, signalVars, guardVars, WizOK, Process
<1>7. CASE FinishExport
  BY <1>7 DEF FinishExport, runVars, signalVars, guardVars, WizOK, Process
<1>8. CASE FailExport
  BY <1>8 DEF FailExport, runVars, signalVars, guardVars, WizOK, Process
<1>9. CASE Die
  BY <1>9 DEF Die, runVars, signalVars, guardVars, WizOK, Process
<1>10. CASE CloseJob
  BY <1>10 DEF CloseJob, Runs, runVars, signalVars, guardVars, WizOK, Process
<1>11. CASE UNCHANGED wizVars
  BY <1>11 DEF wizVars, WizOK
<1>12. QED
  BY <1>1, <1>2, <1>2a, <1>3, <1>4, <1>5, <1>6, <1>7, <1>8, <1>9, <1>10, <1>11,
        WizFrame

LEMMA TypeStep == TypeOK /\ [Next]_vars => TypeOK'
<1>1. TypeOK' <=> FlagsOK' /\ RunOK' /\ SignalOK' /\ GuardOK' /\ WizOK'
  BY DEF TypeOK, FlagsOK, RunOK, SignalOK, GuardOK, WizOK
<1>2. QED
  BY <1>1, TypeParts, FlagsStep, RunStepType, SignalStep, GuardStep, WizStepType

(* The phases of the run and of the WizTree processes fit together. *)
LEMMA WizStepInv == IInv /\ [Next]_vars => WizInv'
<1> SUFFICES ASSUME IInv, [Next]_vars PROVE WizInv'
  OBVIOUS
<1>1. CASE Begin
  BY <1>1 DEF Begin, At, Goto, signalVars, guardVars, wizVars, IInv, WizInv,
        Early, Waiting, Listing, Late, Runs
<1>2. CASE Mount
  BY <1>2 DEF Mount, At, Goto, signalVars, guardVars, wizVars, Guard!Create,
        IInv, WizInv, Early, Waiting, Listing, Late, Runs
<1>3. CASE GuardLink
  BY <1>3 DEF GuardLink, At, Goto, GuardAlways, signalVars, guardVars,
        wizVars, Guard!Guard, IInv, WizInv, Early, Waiting, Listing, Late,
        Runs
<1>4. CASE Create
  BY <1>4 DEF Create, At, Goto, signalVars, guardVars, Guard!Create, IInv,
        WizInv, Early, Waiting, Listing, Late, Runs
<1>5. CASE GuardExport
  BY <1>5 DEF GuardExport, At, Goto, GuardAlways, signalVars, guardVars,
        wizVars, Guard!Guard, IInv, WizInv, Early, Waiting, Listing, Late,
        Runs
<1>6. CASE CreateOutput
  BY <1>6 DEF CreateOutput, At, Goto, signalVars, guardVars, wizVars, IInv,
        WizInv, Early, Waiting, Listing, Late, Runs
<1>7. CASE StartProgress
  BY <1>7 DEF StartProgress, At, Goto, guardVars, wizVars, Signal!Link, IInv,
        WizInv, Early, Waiting, Listing, Late, Runs
<1>8. CASE Spawn
  BY <1>8 DEF Spawn, At, Goto, signalVars, guardVars, IInv, WizInv, Early,
        Waiting, Listing, Late, Runs
<1>9. CASE SpawnFails
  BY <1>9 DEF SpawnFails, At, Goto, Throw, Canceled, signalVars, guardVars,
        wizVars, IInv, WizInv, Early, Waiting, Listing, Late, Runs
<1>9a. CASE NoCandidate
  BY <1>9a DEF NoCandidate, At, Goto, Throw, Canceled, signalVars, guardVars,
        wizVars, IInv, WizInv, Early, Waiting, Listing, Late, Runs
<1>9b. CASE Peek
  BY <1>9b DEF Peek, At, Goto, signalVars, guardVars,
        wizVars, IInv, WizInv, Early, Waiting, Listing, Late, Runs
<1>9c. CASE Check
  BY <1>9c DEF Check, At, Goto, Throw, Canceled, signalVars, guardVars,
        wizVars, IInv, WizInv, Early, Waiting, Listing, Late, Runs
<1>10. CASE Poll
  BY <1>10 DEF Poll, At, Goto, Throw, Runs, signalVars, guardVars, wizVars,
        IInv, WizInv, Early, Waiting, Listing, Late
<1>11. CASE Sleep
  BY <1>11 DEF Sleep, At, Goto, Canceled, signalVars, guardVars, wizVars,
        IInv, WizInv, Early, Waiting, Listing, Late, Runs
<1>12. CASE Kill
  BY <1>12 DEF Kill, At, Goto, Canceled, Runs, signalVars, guardVars, IInv,
        WizInv, Early, Waiting, Listing, Late
<1>13. CASE Reap
  BY <1>13 DEF Reap, At, Throw, Runs, signalVars, guardVars, wizVars, IInv,
        WizInv, Early, Waiting, Listing, Late
<1>14. CASE List
  BY <1>14 DEF List, At, Goto, Runs, signalVars, guardVars, wizVars, IInv,
        WizInv, Early, Waiting, Listing, Late
<1>15. CASE ListAgain
  BY <1>15 DEF ListAgain, At, Goto, Runs, signalVars, guardVars, wizVars,
        IInv, WizInv, Early, Waiting, Listing, Late
<1>16. CASE WaitChild
  BY <1>16 DEF WaitChild, At, Goto, Throw, Canceled, signalVars, guardVars,
        wizVars, IInv, WizInv, Early, Waiting, Listing, Late, Runs
<1>17. CASE Stop
  BY <1>17 DEF Stop, At, Goto, CancelProgress, signalVars, guardVars, wizVars,
        Signal!Cancel, Signal!BecomeCanceled, IInv, WizInv, Early, Waiting,
        Listing, Late, Runs
<1>18. CASE Join
  BY <1>18 DEF Join, At, Goto, signalVars, guardVars, wizVars, IInv, WizInv,
        Early, Waiting, Listing, Late, Runs
<1>19. CASE Open
  BY <1>19 DEF Open, At, Goto, Throw, ExportHeld, signalVars, guardVars,
        wizVars, IInv, WizInv, Early, Waiting, Listing, Late, Runs
<1>20. CASE Copy
  BY <1>20 DEF Copy, At, Goto, Throw, Canceled, signalVars, guardVars,
        wizVars, IInv, WizInv, Early, Waiting, Listing, Late, Runs
<1>21. CASE Finish
  BY <1>21 DEF Finish, At, Goto, signalVars, guardVars, wizVars, IInv, WizInv,
        Early, Waiting, Listing, Late, Runs
<1>22. CASE Close
  BY <1>22 DEF Close, At, TempPath, Removable, ExportHeld, signalVars,
        guardVars, wizVars, Guard!Delete, IInv, WizInv, Early, Waiting,
        Listing, Late, Runs
<1>23. CASE Unwind
  BY <1>23 DEF Unwind, At, Goto, CancelProgress, signalVars, guardVars,
        wizVars, Signal!Cancel, Signal!BecomeCanceled, IInv, WizInv, Early,
        Waiting, Listing, Late, Runs
<1>24. CASE DropPath
  BY <1>24 DEF DropPath, At, Goto, TempPath, Removable, ExportHeld,
        signalVars, guardVars, wizVars, Guard!Delete, IInv, WizInv, Early,
        Waiting, Listing, Late, Runs
<1>25. CASE Quit
  BY <1>25 DEF Quit, At, Goto, signalVars, guardVars, wizVars, Guard!Leave,
        IInv, WizInv, Early, Waiting, Listing, Late, Runs
<1>26. CASE Return
  BY <1>26 DEF Return, At, End, runVars, signalVars, guardVars, wizVars,
        Guard!Leave, IInv, WizInv, Early, Waiting, Listing, Late, Runs
<1>27. CASE Fail
  BY <1>27 DEF Fail, Throw, signalVars, guardVars, wizVars, IInv, WizInv,
        Early, Waiting, Listing, Late, Runs
<1>28. CASE Abandon
  BY <1>28 DEF Abandon, Throw, Canceled, signalVars, guardVars, wizVars, IInv,
        WizInv, Early, Waiting, Listing, Late, Runs
<1>29. CASE Interrupt
  BY <1>29 DEF Interrupt, runVars, guardVars, wizVars, Signal!BecomeCanceled,
        IInv, WizInv, Early, Waiting, Listing, Late, Runs
<1>30. CASE Propagate
  BY <1>30 DEF Propagate, runVars, guardVars, wizVars, Signal!Inherit,
        Signal!BecomeCanceled, IInv, WizInv, Early, Waiting, Listing, Late,
        Runs
<1>31. CASE EndProgress
  BY <1>31 DEF EndProgress, runVars, signalVars, guardVars, wizVars, IInv,
        WizInv, Early, Waiting, Listing, Late, Runs
<1>32. CASE NoticeCleanup
  BY <1>32 DEF NoticeCleanup, runVars, guardVars, wizVars,
        Signal!BecomeCanceled, IInv, WizInv, Early, Waiting, Listing, Late,
        Runs
<1>33. CASE End
  BY <1>33 DEF End, runVars, signalVars, guardVars, wizVars, Guard!Leave,
        IInv, WizInv, Early, Waiting, Listing, Late, Runs
<1>34. CASE StartWorker
  BY <1>34 DEF StartWorker, runVars, signalVars, guardVars, IInv, WizInv,
        Early, Waiting, Listing, Late, Runs
<1>35. CASE LauncherExits
  BY <1>35 DEF LauncherExits, runVars, signalVars, guardVars, IInv, WizInv,
        Early, Waiting, Listing, Late, Runs
<1>36. CASE StartExport
  BY <1>36 DEF StartExport, runVars, signalVars, guardVars, IInv, WizInv,
        Early, Waiting, Listing, Late, Runs
<1>37. CASE FinishExport
  BY <1>37 DEF FinishExport, runVars, signalVars, guardVars, IInv, WizInv,
        Early, Waiting, Listing, Late, Runs
<1>38. CASE FailExport
  BY <1>38 DEF FailExport, runVars, signalVars, guardVars, IInv, WizInv,
        Early, Waiting, Listing, Late, Runs
<1>39. CASE Die
  BY <1>39 DEF Die, runVars, signalVars, guardVars, IInv, WizInv, Early,
        Waiting, Listing, Late, Runs
<1>40. CASE CloseJob
  BY <1>40 DEF CloseJob, Runs, runVars, signalVars, guardVars, IInv, WizInv,
        Early, Waiting, Listing, Late
<1>41. CASE CleanupDies
  BY <1>41 DEF CleanupDies, runVars, signalVars, guardVars, wizVars, IInv,
        WizInv, Early, Waiting, Listing, Late, Runs
<1>42. CASE \E p \in Paths : CleanUp(p)
  BY <1>42 DEF CleanUp, runVars, signalVars, wizVars, Guard!CleanUp, IInv,
        WizInv, Early, Waiting, Listing, Late, Runs
<1>43. CASE UNCHANGED vars
  BY <1>43 DEF vars, runVars, signalVars, guardVars, wizVars, IInv, WizInv,
        Early, Waiting, Listing, Late, Runs
<1>44. QED
  BY <1>1, <1>2, <1>3, <1>4, <1>5, <1>6, <1>7, <1>8, <1>9, <1>9a, <1>9b, <1>9c, <1>10, <1>11,
        <1>12, <1>13, <1>14, <1>15, <1>16, <1>17, <1>18, <1>19, <1>20, <1>21,
        <1>22, <1>23, <1>24, <1>25, <1>26, <1>27, <1>28, <1>29, <1>30, <1>31,
        <1>32, <1>33, <1>34, <1>35, <1>36, <1>37, <1>38, <1>39, <1>40, <1>41,
        <1>42, <1>43 DEF Next, RunStep, WizStep

(* What is copied is complete. *)
LEMMA DataStepInv == IInv /\ [Next]_vars => DataInv'
<1> SUFFICES ASSUME IInv, [Next]_vars PROVE DataInv'
  OBVIOUS
<1>1. CASE Begin
  BY <1>1 DEF Begin, At, Goto, signalVars, guardVars, wizVars, IInv, TypeOK,
        Process, WizInv, DataInv, FileInv, Early, Waiting, Listing, Late,
        Leaving, Runs
<1>2. CASE Mount
  BY <1>2 DEF Mount, At, Goto, signalVars, guardVars, wizVars, Guard!Create,
        IInv, TypeOK, Process, WizInv, DataInv, FileInv, Early, Waiting,
        Listing, Late, Leaving, Runs
<1>3. CASE GuardLink
  BY <1>3 DEF GuardLink, At, Goto, GuardAlways, signalVars, guardVars,
        wizVars, Guard!Guard, IInv, TypeOK, Process, WizInv, DataInv, FileInv,
        Early, Waiting, Listing, Late, Leaving, Runs
<1>4. CASE Create
  BY <1>4 DEF Create, At, Goto, signalVars, guardVars, Guard!Create, IInv,
        TypeOK, Process, WizInv, DataInv, FileInv, Early, Waiting, Listing,
        Late, Leaving, Runs
<1>5. CASE GuardExport
  BY <1>5 DEF GuardExport, At, Goto, GuardAlways, signalVars, guardVars,
        wizVars, Guard!Guard, IInv, TypeOK, Process, WizInv, DataInv, FileInv,
        Early, Waiting, Listing, Late, Leaving, Runs
<1>6. CASE CreateOutput
  BY <1>6 DEF CreateOutput, At, Goto, signalVars, guardVars, wizVars, IInv,
        TypeOK, Process, WizInv, DataInv, FileInv, Early, Waiting, Listing,
        Late, Leaving, Runs
<1>7. CASE StartProgress
  BY <1>7 DEF StartProgress, At, Goto, guardVars, wizVars, Signal!Link, IInv,
        TypeOK, Process, WizInv, DataInv, FileInv, Early, Waiting, Listing,
        Late, Leaving, Runs
<1>8. CASE Spawn
  BY <1>8 DEF Spawn, At, Goto, signalVars, guardVars, IInv, TypeOK, Process,
        WizInv, DataInv, FileInv, Early, Waiting, Listing, Late, Leaving, Runs
<1>9. CASE SpawnFails
  BY <1>9 DEF SpawnFails, At, Goto, Throw, Canceled, signalVars, guardVars,
        wizVars, IInv, TypeOK, Process, WizInv, DataInv, FileInv, Early,
        Waiting, Listing, Late, Leaving, Runs
<1>9a. CASE NoCandidate
  BY <1>9a DEF NoCandidate, At, Goto, Throw, Canceled, signalVars, guardVars,
        wizVars, IInv, TypeOK, Process, WizInv, DataInv, FileInv, Early,
        Waiting, Listing, Late, Leaving, Runs
<1>9b. CASE Peek
  BY <1>9b DEF Peek, At, Goto, signalVars, guardVars,
        wizVars, IInv, TypeOK, Process, WizInv, DataInv, FileInv, Early,
        Waiting, Listing, Late, Leaving, Runs
<1>9c. CASE Check
  BY <1>9c DEF Check, At, Goto, Throw, Canceled, signalVars, guardVars,
        wizVars, IInv, TypeOK, Process, WizInv, DataInv, FileInv, Early,
        Waiting, Listing, Late, Leaving, Runs
<1>10. CASE Poll
  BY <1>10 DEF Poll, At, Goto, Throw, Runs, signalVars, guardVars, wizVars,
        IInv, TypeOK, Process, WizInv, DataInv, FileInv, Early, Waiting,
        Listing, Late, Leaving
<1>11. CASE Sleep
  BY <1>11 DEF Sleep, At, Goto, Canceled, signalVars, guardVars, wizVars,
        IInv, TypeOK, Process, WizInv, DataInv, FileInv, Early, Waiting,
        Listing, Late, Leaving, Runs
<1>12. CASE Kill
  BY <1>12 DEF Kill, At, Goto, Canceled, Runs, signalVars, guardVars, IInv,
        TypeOK, Process, WizInv, DataInv, FileInv, Early, Waiting, Listing,
        Late, Leaving
<1>13. CASE Reap
  BY <1>13 DEF Reap, At, Throw, Runs, signalVars, guardVars, wizVars, IInv,
        TypeOK, Process, WizInv, DataInv, FileInv, Early, Waiting, Listing,
        Late, Leaving
<1>14. CASE List
  BY <1>14 DEF List, At, Goto, Runs, signalVars, guardVars, wizVars, IInv,
        TypeOK, Process, WizInv, DataInv, FileInv, Early, Waiting, Listing,
        Late, Leaving
<1>15. CASE ListAgain
  BY <1>15 DEF ListAgain, At, Goto, Runs, signalVars, guardVars, wizVars,
        IInv, TypeOK, Process, WizInv, DataInv, FileInv, Early, Waiting,
        Listing, Late, Leaving
<1>16. CASE WaitChild
  BY <1>16 DEF WaitChild, At, Goto, Throw, Canceled, signalVars, guardVars,
        wizVars, IInv, TypeOK, Process, WizInv, DataInv, FileInv, Early,
        Waiting, Listing, Late, Leaving, Runs
<1>17. CASE Stop
  BY <1>17 DEF Stop, At, Goto, CancelProgress, signalVars, guardVars, wizVars,
        Signal!Cancel, Signal!BecomeCanceled, IInv, TypeOK, Process, WizInv,
        DataInv, FileInv, Early, Waiting, Listing, Late, Leaving, Runs
<1>18. CASE Join
  BY <1>18 DEF Join, At, Goto, signalVars, guardVars, wizVars, IInv, TypeOK,
        Process, WizInv, DataInv, FileInv, Early, Waiting, Listing, Late,
        Leaving, Runs
<1>19. CASE Open
  BY <1>19 DEF Open, At, Goto, Throw, ExportHeld, signalVars, guardVars,
        wizVars, IInv, TypeOK, Process, WizInv, DataInv, FileInv, Early,
        Waiting, Listing, Late, Leaving, Runs
<1>20. CASE Copy
  BY <1>20 DEF Copy, At, Goto, Throw, Canceled, signalVars, guardVars,
        wizVars, IInv, TypeOK, Process, WizInv, DataInv, FileInv, Early,
        Waiting, Listing, Late, Leaving, Runs
<1>21. CASE Finish
  BY <1>21 DEF Finish, At, Goto, signalVars, guardVars, wizVars, IInv, TypeOK,
        Process, WizInv, DataInv, FileInv, Early, Waiting, Listing, Late,
        Leaving, Runs
<1>22. CASE Close
  BY <1>22 DEF Close, At, TempPath, Removable, ExportHeld, signalVars,
        guardVars, wizVars, Guard!Delete, IInv, TypeOK, Process, WizInv,
        DataInv, FileInv, Early, Waiting, Listing, Late, Leaving, Runs
<1>23. CASE Unwind
  BY <1>23 DEF Unwind, At, Goto, CancelProgress, signalVars, guardVars,
        wizVars, Signal!Cancel, Signal!BecomeCanceled, IInv, TypeOK, Process,
        WizInv, DataInv, FileInv, Early, Waiting, Listing, Late, Leaving, Runs
<1>24. CASE DropPath
  BY <1>24 DEF DropPath, At, Goto, TempPath, Removable, ExportHeld,
        signalVars, guardVars, wizVars, Guard!Delete, IInv, TypeOK, Process,
        WizInv, DataInv, FileInv, Early, Waiting, Listing, Late, Leaving, Runs
<1>25. CASE Quit
  BY <1>25 DEF Quit, At, Goto, signalVars, guardVars, wizVars, Guard!Leave,
        IInv, TypeOK, Process, WizInv, DataInv, FileInv, Early, Waiting,
        Listing, Late, Leaving, Runs
<1>26. CASE Return
  BY <1>26 DEF Return, At, End, runVars, signalVars, guardVars, wizVars,
        Guard!Leave, IInv, TypeOK, Process, WizInv, DataInv, FileInv, Early,
        Waiting, Listing, Late, Leaving, Runs
<1>27. CASE Fail
  BY <1>27 DEF Fail, Throw, signalVars, guardVars, wizVars, IInv, TypeOK,
        Process, WizInv, DataInv, FileInv, Early, Waiting, Listing, Late,
        Leaving, Runs
<1>28. CASE Abandon
  BY <1>28 DEF Abandon, Throw, Canceled, signalVars, guardVars, wizVars, IInv,
        TypeOK, Process, WizInv, DataInv, FileInv, Early, Waiting, Listing,
        Late, Leaving, Runs
<1>29. CASE Interrupt
  BY <1>29 DEF Interrupt, runVars, guardVars, wizVars, Signal!BecomeCanceled,
        IInv, TypeOK, Process, WizInv, DataInv, FileInv, Early, Waiting,
        Listing, Late, Leaving, Runs
<1>30. CASE Propagate
  BY <1>30 DEF Propagate, runVars, guardVars, wizVars, Signal!Inherit,
        Signal!BecomeCanceled, IInv, TypeOK, Process, WizInv, DataInv,
        FileInv, Early, Waiting, Listing, Late, Leaving, Runs
<1>31. CASE EndProgress
  BY <1>31 DEF EndProgress, runVars, signalVars, guardVars, wizVars, IInv,
        TypeOK, Process, WizInv, DataInv, FileInv, Early, Waiting, Listing,
        Late, Leaving, Runs
<1>32. CASE NoticeCleanup
  BY <1>32 DEF NoticeCleanup, runVars, guardVars, wizVars,
        Signal!BecomeCanceled, IInv, TypeOK, Process, WizInv, DataInv,
        FileInv, Early, Waiting, Listing, Late, Leaving, Runs
<1>33. CASE End
  BY <1>33 DEF End, runVars, signalVars, guardVars, wizVars, Guard!Leave,
        IInv, TypeOK, Process, WizInv, DataInv, FileInv, Early, Waiting,
        Listing, Late, Leaving, Runs
<1>34. CASE StartWorker
  BY <1>34 DEF StartWorker, runVars, signalVars, guardVars, IInv, TypeOK,
        Process, WizInv, DataInv, FileInv, Early, Waiting, Listing, Late,
        Leaving, Runs
<1>35. CASE LauncherExits
  BY <1>35 DEF LauncherExits, runVars, signalVars, guardVars, IInv, TypeOK,
        Process, WizInv, DataInv, FileInv, Early, Waiting, Listing, Late,
        Leaving, Runs
<1>36. CASE StartExport
  BY <1>36 DEF StartExport, runVars, signalVars, guardVars, IInv, TypeOK,
        Process, WizInv, DataInv, FileInv, Early, Waiting, Listing, Late,
        Leaving, Runs
<1>37. CASE FinishExport
  BY <1>37 DEF FinishExport, runVars, signalVars, guardVars, IInv, TypeOK,
        Process, WizInv, DataInv, FileInv, Early, Waiting, Listing, Late,
        Leaving, Runs
<1>38. CASE FailExport
  BY <1>38 DEF FailExport, runVars, signalVars, guardVars, IInv, TypeOK,
        Process, WizInv, DataInv, FileInv, Early, Waiting, Listing, Late,
        Leaving, Runs
<1>39. CASE Die
  BY <1>39 DEF Die, runVars, signalVars, guardVars, IInv, TypeOK, Process,
        WizInv, DataInv, FileInv, Early, Waiting, Listing, Late, Leaving, Runs
<1>40. CASE CloseJob
  BY <1>40 DEF CloseJob, Runs, runVars, signalVars, guardVars, IInv, TypeOK,
        Process, WizInv, DataInv, FileInv, Early, Waiting, Listing, Late,
        Leaving
<1>41. CASE CleanupDies
  BY <1>41 DEF CleanupDies, runVars, signalVars, guardVars, wizVars, IInv,
        TypeOK, Process, WizInv, DataInv, FileInv, Early, Waiting, Listing,
        Late, Leaving, Runs
<1>42. CASE \E p \in Paths : CleanUp(p)
  BY <1>42 DEF CleanUp, runVars, wizVars, IInv, DataInv
<1>43. CASE UNCHANGED vars
  BY <1>43 DEF vars, runVars, signalVars, guardVars, wizVars, IInv, TypeOK,
        Process, WizInv, DataInv, FileInv, Early, Waiting, Listing, Late,
        Leaving, Runs
<1>44. QED
  BY <1>1, <1>2, <1>3, <1>4, <1>5, <1>6, <1>7, <1>8, <1>9, <1>9a, <1>9b, <1>9c, <1>10, <1>11,
        <1>12, <1>13, <1>14, <1>15, <1>16, <1>17, <1>18, <1>19, <1>20, <1>21,
        <1>22, <1>23, <1>24, <1>25, <1>26, <1>27, <1>28, <1>29, <1>30, <1>31,
        <1>32, <1>33, <1>34, <1>35, <1>36, <1>37, <1>38, <1>39, <1>40, <1>41,
        <1>42, <1>43 DEF Next, RunStep, WizStep

(* Where temporary paths may remain. *)
LEMMA FileStepInv == IInv /\ [Next]_vars => FileInv'
<1> SUFFICES ASSUME IInv, [Next]_vars PROVE FileInv'
  OBVIOUS
<1>1. CASE Begin
  BY <1>1 DEF Begin, At, Goto, signalVars, guardVars, wizVars, IInv, TypeOK,
        WizInv, FileInv, Early, Waiting, Listing, Late, Leaving, Runs, Paths,
        Mode
<1>2. CASE Mount
  BY <1>2 DEF Mount, At, Goto, signalVars, guardVars, wizVars, Guard!Create,
        IInv, TypeOK, WizInv, FileInv, Early, Waiting, Listing, Late, Leaving,
        Runs, Paths, Mode
<1>3. CASE GuardLink
  BY <1>3 DEF GuardLink, At, Goto, GuardAlways, signalVars, guardVars,
        wizVars, Guard!Guard, IInv, TypeOK, WizInv, FileInv, Early, Waiting,
        Listing, Late, Leaving, Runs, Paths, Mode
<1>4. CASE Create
  BY <1>4 DEF Create, At, Goto, signalVars, guardVars, Guard!Create, IInv,
        TypeOK, WizInv, FileInv, Early, Waiting, Listing, Late, Leaving, Runs,
        Paths, Mode
<1>5. CASE GuardExport
  BY <1>5 DEF GuardExport, At, Goto, GuardAlways, signalVars, guardVars,
        wizVars, Guard!Guard, IInv, TypeOK, WizInv, FileInv, Early, Waiting,
        Listing, Late, Leaving, Runs, Paths, Mode
<1>6. CASE CreateOutput
  BY <1>6 DEF CreateOutput, At, Goto, signalVars, guardVars, wizVars, IInv,
        TypeOK, WizInv, FileInv, Early, Waiting, Listing, Late, Leaving, Runs,
        Paths, Mode
<1>7. CASE StartProgress
  BY <1>7 DEF StartProgress, At, Goto, guardVars, wizVars, Signal!Link, IInv,
        TypeOK, WizInv, FileInv, Early, Waiting, Listing, Late, Leaving, Runs,
        Paths, Mode
<1>8. CASE Spawn
  BY <1>8 DEF Spawn, At, Goto, signalVars, guardVars, IInv, TypeOK, WizInv,
        FileInv, Early, Waiting, Listing, Late, Leaving, Runs, Paths, Mode
<1>9. CASE SpawnFails
  BY <1>9 DEF SpawnFails, At, Goto, Throw, Canceled, signalVars, guardVars,
        wizVars, IInv, TypeOK, WizInv, FileInv, Early, Waiting, Listing, Late,
        Leaving, Runs, Paths, Mode
<1>9a. CASE NoCandidate
  BY <1>9a DEF NoCandidate, At, Goto, Throw, Canceled, signalVars, guardVars,
        wizVars, IInv, TypeOK, WizInv, FileInv, Early, Waiting, Listing, Late,
        Leaving, Runs, Paths, Mode
<1>9b. CASE Peek
  BY <1>9b DEF Peek, At, Goto, signalVars, guardVars,
        wizVars, IInv, TypeOK, WizInv, FileInv, Early, Waiting, Listing, Late,
        Leaving, Runs, Paths, Mode
<1>9c. CASE Check
  BY <1>9c DEF Check, At, Goto, Throw, Canceled, signalVars, guardVars,
        wizVars, IInv, TypeOK, WizInv, FileInv, Early, Waiting, Listing, Late,
        Leaving, Runs, Paths, Mode
<1>10. CASE Poll
  BY <1>10 DEF Poll, At, Goto, Throw, Runs, signalVars, guardVars, wizVars,
        IInv, TypeOK, WizInv, FileInv, Early, Waiting, Listing, Late, Leaving,
        Paths, Mode
<1>11. CASE Sleep
  BY <1>11 DEF Sleep, At, Goto, Canceled, signalVars, guardVars, wizVars,
        IInv, TypeOK, WizInv, FileInv, Early, Waiting, Listing, Late, Leaving,
        Runs, Paths, Mode
<1>12. CASE Kill
  BY <1>12 DEF Kill, At, Goto, Canceled, Runs, signalVars, guardVars, IInv,
        TypeOK, WizInv, FileInv, Early, Waiting, Listing, Late, Leaving,
        Paths, Mode
<1>13. CASE Reap
  BY <1>13 DEF Reap, At, Throw, Runs, signalVars, guardVars, wizVars, IInv,
        TypeOK, WizInv, FileInv, Early, Waiting, Listing, Late, Leaving,
        Paths, Mode
<1>14. CASE List
  BY <1>14 DEF List, At, Goto, Runs, signalVars, guardVars, wizVars, IInv,
        TypeOK, WizInv, FileInv, Early, Waiting, Listing, Late, Leaving,
        Paths, Mode
<1>15. CASE ListAgain
  BY <1>15 DEF ListAgain, At, Goto, Runs, signalVars, guardVars, wizVars,
        IInv, TypeOK, WizInv, FileInv, Early, Waiting, Listing, Late, Leaving,
        Paths, Mode
<1>16. CASE WaitChild
  BY <1>16 DEF WaitChild, At, Goto, Throw, Canceled, signalVars, guardVars,
        wizVars, IInv, TypeOK, WizInv, FileInv, Early, Waiting, Listing, Late,
        Leaving, Runs, Paths, Mode
<1>17. CASE Stop
  BY <1>17 DEF Stop, At, Goto, CancelProgress, signalVars, guardVars, wizVars,
        Signal!Cancel, Signal!BecomeCanceled, IInv, TypeOK, WizInv, FileInv,
        Early, Waiting, Listing, Late, Leaving, Runs, Paths, Mode
<1>18. CASE Join
  BY <1>18 DEF Join, At, Goto, signalVars, guardVars, wizVars, IInv, TypeOK,
        WizInv, FileInv, Early, Waiting, Listing, Late, Leaving, Runs, Paths,
        Mode
<1>19. CASE Open
  BY <1>19 DEF Open, At, Goto, Throw, ExportHeld, signalVars, guardVars,
        wizVars, IInv, TypeOK, WizInv, FileInv, Early, Waiting, Listing, Late,
        Leaving, Runs, Paths, Mode
<1>20. CASE Copy
  BY <1>20 DEF Copy, At, Goto, Throw, Canceled, signalVars, guardVars,
        wizVars, IInv, TypeOK, WizInv, FileInv, Early, Waiting, Listing, Late,
        Leaving, Runs, Paths, Mode
<1>21. CASE Finish
  BY <1>21 DEF Finish, At, Goto, signalVars, guardVars, wizVars, IInv, TypeOK,
        WizInv, FileInv, Early, Waiting, Listing, Late, Leaving, Runs, Paths,
        Mode
<1>22. CASE Close
  <2>1. ~ExportHeld
    BY <1>22 DEF Close, At, ExportHeld, IInv, WizInv, Late, Runs
  <2>2. \A q \in Paths : file'[q] = IF q = TempPath THEN "gone" ELSE file[q]
    BY <1>22, <2>1 DEF Close, Removable, TempPath, Guard!Delete, guardVars, IInv, TypeOK
  <2>3. \A q \in Paths : file'[q] # "present"
    BY <2>2 DEF IInv, TypeOK, FileInv, Mode, TempPath, Paths
  <2>4. mode' = mode /\ stage' = stage /\ pc' = "quit" /\ pc = "close"
    BY <1>22 DEF Close, At, Guard!Delete, guardVars
  <2>5. (mode # "plain" => file'["export"] = "new") /\ (mode # "webdav" => file'["link"] = "new")
    BY <2>2 DEF IInv, TypeOK, FileInv, Mode, TempPath, Paths
  <2>6. QED
    BY <2>3, <2>4, <2>5 DEF IInv, FileInv, Leaving
<1>23. CASE Unwind
  BY <1>23 DEF Unwind, At, Goto, CancelProgress, signalVars, guardVars,
        wizVars, Signal!Cancel, Signal!BecomeCanceled, IInv, TypeOK, WizInv,
        FileInv, Early, Waiting, Listing, Late, Leaving, Runs, Paths, Mode
<1>24. CASE DropPath
  <2>1. pc = "dropPath" /\ pc' = "quit"
    BY <1>24 DEF DropPath, At, Goto
  <2>2. UNCHANGED <<mode, status, stage, abandoned, wiz, worker>>
    BY <1>24 DEF DropPath, Goto, Guard!Delete, guardVars, wizVars
  <2>3. ExportHeld => worker # "none" \/ abandoned
    BY <2>1 DEF ExportHeld, IInv, WizInv, Waiting, Runs
  <2>4. \A q \in Paths : q # TempPath => file'[q] = file[q]
    BY <1>24 DEF DropPath, Guard!Delete, guardVars, IInv, TypeOK
  <2>5. TempPath \in Paths => file'[TempPath] # "present" \/ (TempPath = "export" /\ ExportHeld)
    BY <1>24 DEF DropPath, Removable, Guard!Delete, guardVars, IInv, TypeOK
  <2>6. \A q \in Paths : q # TempPath => file[q] = "new"
    BY DEF IInv, TypeOK, FileInv, Mode, TempPath, Paths
  <2>7. \A q \in Paths : file'[q] = "present" => q = "export" /\ (worker # "none" \/ abandoned)
    BY <2>3, <2>4, <2>5, <2>6
  <2>8. (mode # "plain" => file'["export"] = "new") /\ (mode # "webdav" => file'["link"] = "new")
    BY <2>4, <2>6 DEF IInv, TypeOK, Mode, TempPath, Paths
  <2>9. status # "ok" /\ stage # "quit"
    BY <2>1 DEF IInv, FileInv, Leaving
  <2>10. QED
    BY <2>1, <2>2, <2>7, <2>8, <2>9 DEF FileInv, Leaving
<1>25. CASE Quit
  BY <1>25 DEF Quit, At, Goto, signalVars, guardVars, wizVars, Guard!Leave,
        IInv, TypeOK, WizInv, FileInv, Early, Waiting, Listing, Late, Leaving,
        Runs, Paths, Mode
<1>26. CASE Return
  BY <1>26 DEF Return, At, End, runVars, signalVars, guardVars, wizVars,
        Guard!Leave, IInv, TypeOK, WizInv, FileInv, Early, Waiting, Listing,
        Late, Leaving, Runs, Paths, Mode
<1>27. CASE Fail
  BY <1>27 DEF Fail, Throw, signalVars, guardVars, wizVars, IInv, TypeOK,
        WizInv, FileInv, Early, Waiting, Listing, Late, Leaving, Runs, Paths,
        Mode
<1>28. CASE Abandon
  BY <1>28 DEF Abandon, Throw, Canceled, signalVars, guardVars, wizVars, IInv,
        TypeOK, WizInv, FileInv, Early, Waiting, Listing, Late, Leaving, Runs,
        Paths, Mode
<1>29. CASE Interrupt
  BY <1>29 DEF Interrupt, runVars, guardVars, wizVars, Signal!BecomeCanceled,
        IInv, TypeOK, WizInv, FileInv, Early, Waiting, Listing, Late, Leaving,
        Runs, Paths, Mode
<1>30. CASE Propagate
  BY <1>30 DEF Propagate, runVars, guardVars, wizVars, Signal!Inherit,
        Signal!BecomeCanceled, IInv, TypeOK, WizInv, FileInv, Early, Waiting,
        Listing, Late, Leaving, Runs, Paths, Mode
<1>31. CASE EndProgress
  BY <1>31 DEF EndProgress, runVars, signalVars, guardVars, wizVars, IInv,
        TypeOK, WizInv, FileInv, Early, Waiting, Listing, Late, Leaving, Runs,
        Paths, Mode
<1>32. CASE NoticeCleanup
  BY <1>32 DEF NoticeCleanup, runVars, guardVars, wizVars,
        Signal!BecomeCanceled, IInv, TypeOK, WizInv, FileInv, Early, Waiting,
        Listing, Late, Leaving, Runs, Paths, Mode
<1>33. CASE End
  BY <1>33 DEF End, runVars, signalVars, guardVars, wizVars, Guard!Leave,
        IInv, TypeOK, WizInv, FileInv, Early, Waiting, Listing, Late, Leaving,
        Runs, Paths, Mode
<1>34. CASE StartWorker
  BY <1>34 DEF StartWorker, runVars, signalVars, guardVars, IInv, TypeOK,
        WizInv, FileInv, Early, Waiting, Listing, Late, Leaving, Runs, Paths,
        Mode
<1>35. CASE LauncherExits
  BY <1>35 DEF LauncherExits, runVars, signalVars, guardVars, IInv, TypeOK,
        WizInv, FileInv, Early, Waiting, Listing, Late, Leaving, Runs, Paths,
        Mode
<1>36. CASE StartExport
  BY <1>36 DEF StartExport, runVars, signalVars, guardVars, IInv, TypeOK,
        WizInv, FileInv, Early, Waiting, Listing, Late, Leaving, Runs, Paths,
        Mode
<1>37. CASE FinishExport
  BY <1>37 DEF FinishExport, runVars, signalVars, guardVars, IInv, TypeOK,
        WizInv, FileInv, Early, Waiting, Listing, Late, Leaving, Runs, Paths,
        Mode
<1>38. CASE FailExport
  BY <1>38 DEF FailExport, runVars, signalVars, guardVars, IInv, TypeOK,
        WizInv, FileInv, Early, Waiting, Listing, Late, Leaving, Runs, Paths,
        Mode
<1>39. CASE Die
  BY <1>39 DEF Die, runVars, signalVars, guardVars, IInv, TypeOK, WizInv,
        FileInv, Early, Waiting, Listing, Late, Leaving, Runs, Paths, Mode
<1>40. CASE CloseJob
  BY <1>40 DEF CloseJob, Runs, runVars, signalVars, guardVars, IInv, TypeOK,
        WizInv, FileInv, Early, Waiting, Listing, Late, Leaving, Paths, Mode
<1>41. CASE CleanupDies
  BY <1>41 DEF CleanupDies, runVars, signalVars, guardVars, wizVars, IInv,
        TypeOK, WizInv, FileInv, Early, Waiting, Listing, Late, Leaving, Runs,
        Paths, Mode
<1>42. CASE \E p \in Paths : CleanUp(p)
  <2> PICK p \in Paths : CleanUp(p)
    BY <1>42
  <2>1. \A q \in Paths :
          file'[q] = IF q = p /\ file[q] = "present" THEN "gone" ELSE file[q]
    BY DEF CleanUp, Guard!CleanUp, IInv, TypeOK
  <2>2. stage' = stage
    BY DEF CleanUp, Guard!CleanUp
  <2>3. UNCHANGED <<mode, pc, status, abandoned, worker>>
    BY DEF CleanUp, runVars, wizVars
  <2>4. QED
    BY <2>1, <2>2, <2>3 DEF IInv, FileInv, Leaving, Paths
<1>43. CASE UNCHANGED vars
  BY <1>43 DEF vars, runVars, signalVars, guardVars, wizVars, IInv, TypeOK,
        WizInv, FileInv, Early, Waiting, Listing, Late, Leaving, Runs, Paths,
        Mode
<1>44. QED
  BY <1>1, <1>2, <1>3, <1>4, <1>5, <1>6, <1>7, <1>8, <1>9, <1>9a, <1>9b, <1>9c, <1>10, <1>11,
        <1>12, <1>13, <1>14, <1>15, <1>16, <1>17, <1>18, <1>19, <1>20, <1>21,
        <1>22, <1>23, <1>24, <1>25, <1>26, <1>27, <1>28, <1>29, <1>30, <1>31,
        <1>32, <1>33, <1>34, <1>35, <1>36, <1>37, <1>38, <1>39, <1>40, <1>41,
        <1>42, <1>43 DEF Next, RunStep, WizStep

(* A path is guarded once it exists. *)
LEMMA GuardStepInv == IInv /\ [Next]_vars => GuardedWhilePresent'
<1> SUFFICES ASSUME IInv, [Next]_vars PROVE GuardedWhilePresent'
  OBVIOUS
<1>1. CASE Begin
  BY <1>1 DEF Begin, At, Goto, signalVars, guardVars, wizVars, IInv, TypeOK,
        FileInv, GuardedWhilePresent, Paths
<1>2. CASE Mount
  BY <1>2 DEF Mount, At, Goto, signalVars, guardVars, wizVars, Guard!Create,
        IInv, TypeOK, FileInv, GuardedWhilePresent, Paths
<1>3. CASE GuardLink
  BY <1>3 DEF GuardLink, At, Goto, GuardAlways, signalVars, guardVars,
        wizVars, Guard!Guard, IInv, TypeOK, FileInv, GuardedWhilePresent,
        Paths
<1>4. CASE Create
  BY <1>4 DEF Create, At, Goto, signalVars, guardVars, Guard!Create, IInv,
        TypeOK, FileInv, GuardedWhilePresent, Paths
<1>5. CASE GuardExport
  BY <1>5 DEF GuardExport, At, Goto, GuardAlways, signalVars, guardVars,
        wizVars, Guard!Guard, IInv, TypeOK, FileInv, GuardedWhilePresent,
        Paths
<1>6. CASE CreateOutput
  BY <1>6 DEF CreateOutput, At, Goto, signalVars, guardVars, wizVars, IInv,
        TypeOK, FileInv, GuardedWhilePresent, Paths
<1>7. CASE StartProgress
  BY <1>7 DEF StartProgress, At, Goto, guardVars, wizVars, Signal!Link, IInv,
        TypeOK, FileInv, GuardedWhilePresent, Paths
<1>8. CASE Spawn
  BY <1>8 DEF Spawn, At, Goto, signalVars, guardVars, IInv, TypeOK, FileInv,
        GuardedWhilePresent, Paths
<1>9. CASE SpawnFails
  BY <1>9 DEF SpawnFails, At, Goto, Throw, Canceled, signalVars, guardVars,
        wizVars, IInv, TypeOK, FileInv, GuardedWhilePresent, Paths
<1>9a. CASE NoCandidate
  BY <1>9a DEF NoCandidate, At, Goto, Throw, Canceled, signalVars, guardVars,
        wizVars, IInv, TypeOK, FileInv, GuardedWhilePresent, Paths
<1>9b. CASE Peek
  BY <1>9b DEF Peek, At, Goto, signalVars, guardVars,
        wizVars, IInv, TypeOK, FileInv, GuardedWhilePresent, Paths
<1>9c. CASE Check
  BY <1>9c DEF Check, At, Goto, Throw, Canceled, signalVars, guardVars,
        wizVars, IInv, TypeOK, FileInv, GuardedWhilePresent, Paths
<1>10. CASE Poll
  BY <1>10 DEF Poll, At, Goto, Throw, Runs, signalVars, guardVars, wizVars,
        IInv, TypeOK, FileInv, GuardedWhilePresent, Paths
<1>11. CASE Sleep
  BY <1>11 DEF Sleep, At, Goto, Canceled, signalVars, guardVars, wizVars,
        IInv, TypeOK, FileInv, GuardedWhilePresent, Paths
<1>12. CASE Kill
  BY <1>12 DEF Kill, At, Goto, Canceled, Runs, signalVars, guardVars, IInv,
        TypeOK, FileInv, GuardedWhilePresent, Paths
<1>13. CASE Reap
  BY <1>13 DEF Reap, At, Throw, Runs, signalVars, guardVars, wizVars, IInv,
        TypeOK, FileInv, GuardedWhilePresent, Paths
<1>14. CASE List
  BY <1>14 DEF List, At, Goto, Runs, signalVars, guardVars, wizVars, IInv,
        TypeOK, FileInv, GuardedWhilePresent, Paths
<1>15. CASE ListAgain
  BY <1>15 DEF ListAgain, At, Goto, Runs, signalVars, guardVars, wizVars,
        IInv, TypeOK, FileInv, GuardedWhilePresent, Paths
<1>16. CASE WaitChild
  BY <1>16 DEF WaitChild, At, Goto, Throw, Canceled, signalVars, guardVars,
        wizVars, IInv, TypeOK, FileInv, GuardedWhilePresent, Paths
<1>17. CASE Stop
  BY <1>17 DEF Stop, At, Goto, CancelProgress, signalVars, guardVars, wizVars,
        Signal!Cancel, Signal!BecomeCanceled, IInv, TypeOK, FileInv,
        GuardedWhilePresent, Paths
<1>18. CASE Join
  BY <1>18 DEF Join, At, Goto, signalVars, guardVars, wizVars, IInv, TypeOK,
        FileInv, GuardedWhilePresent, Paths
<1>19. CASE Open
  BY <1>19 DEF Open, At, Goto, Throw, ExportHeld, signalVars, guardVars,
        wizVars, IInv, TypeOK, FileInv, GuardedWhilePresent, Paths
<1>20. CASE Copy
  BY <1>20 DEF Copy, At, Goto, Throw, Canceled, signalVars, guardVars,
        wizVars, IInv, TypeOK, FileInv, GuardedWhilePresent, Paths
<1>21. CASE Finish
  BY <1>21 DEF Finish, At, Goto, signalVars, guardVars, wizVars, IInv, TypeOK,
        FileInv, GuardedWhilePresent, Paths
<1>22. CASE Close
  BY <1>22 DEF Close, At, TempPath, Removable, ExportHeld, signalVars,
        guardVars, wizVars, Guard!Delete, IInv, TypeOK, FileInv,
        GuardedWhilePresent, Paths
<1>23. CASE Unwind
  BY <1>23 DEF Unwind, At, Goto, CancelProgress, signalVars, guardVars,
        wizVars, Signal!Cancel, Signal!BecomeCanceled, IInv, TypeOK, FileInv,
        GuardedWhilePresent, Paths
<1>24. CASE DropPath
  BY <1>24 DEF DropPath, At, Goto, TempPath, Removable, ExportHeld,
        signalVars, guardVars, wizVars, Guard!Delete, IInv, TypeOK, FileInv,
        GuardedWhilePresent, Paths
<1>25. CASE Quit
  BY <1>25 DEF Quit, At, Goto, signalVars, guardVars, wizVars, Guard!Leave,
        IInv, TypeOK, FileInv, GuardedWhilePresent, Paths
<1>26. CASE Return
  BY <1>26 DEF Return, At, End, runVars, signalVars, guardVars, wizVars,
        Guard!Leave, IInv, TypeOK, FileInv, GuardedWhilePresent, Paths
<1>27. CASE Fail
  BY <1>27 DEF Fail, Throw, signalVars, guardVars, wizVars, IInv, TypeOK,
        FileInv, GuardedWhilePresent, Paths
<1>28. CASE Abandon
  BY <1>28 DEF Abandon, Throw, Canceled, signalVars, guardVars, wizVars, IInv,
        TypeOK, FileInv, GuardedWhilePresent, Paths
<1>29. CASE Interrupt
  BY <1>29 DEF Interrupt, runVars, guardVars, wizVars, Signal!BecomeCanceled,
        IInv, TypeOK, FileInv, GuardedWhilePresent, Paths
<1>30. CASE Propagate
  BY <1>30 DEF Propagate, runVars, guardVars, wizVars, Signal!Inherit,
        Signal!BecomeCanceled, IInv, TypeOK, FileInv, GuardedWhilePresent,
        Paths
<1>31. CASE EndProgress
  BY <1>31 DEF EndProgress, runVars, signalVars, guardVars, wizVars, IInv,
        TypeOK, FileInv, GuardedWhilePresent, Paths
<1>32. CASE NoticeCleanup
  BY <1>32 DEF NoticeCleanup, runVars, guardVars, wizVars,
        Signal!BecomeCanceled, IInv, TypeOK, FileInv, GuardedWhilePresent,
        Paths
<1>33. CASE End
  BY <1>33 DEF End, runVars, signalVars, guardVars, wizVars, Guard!Leave,
        IInv, TypeOK, FileInv, GuardedWhilePresent, Paths
<1>34. CASE StartWorker
  BY <1>34 DEF StartWorker, runVars, signalVars, guardVars, IInv, TypeOK,
        FileInv, GuardedWhilePresent, Paths
<1>35. CASE LauncherExits
  BY <1>35 DEF LauncherExits, runVars, signalVars, guardVars, IInv, TypeOK,
        FileInv, GuardedWhilePresent, Paths
<1>36. CASE StartExport
  BY <1>36 DEF StartExport, runVars, signalVars, guardVars, IInv, TypeOK,
        FileInv, GuardedWhilePresent, Paths
<1>37. CASE FinishExport
  BY <1>37 DEF FinishExport, runVars, signalVars, guardVars, IInv, TypeOK,
        FileInv, GuardedWhilePresent, Paths
<1>38. CASE FailExport
  BY <1>38 DEF FailExport, runVars, signalVars, guardVars, IInv, TypeOK,
        FileInv, GuardedWhilePresent, Paths
<1>39. CASE Die
  BY <1>39 DEF Die, runVars, signalVars, guardVars, IInv, TypeOK, FileInv,
        GuardedWhilePresent, Paths
<1>40. CASE CloseJob
  BY <1>40 DEF CloseJob, Runs, runVars, signalVars, guardVars, IInv, TypeOK,
        FileInv, GuardedWhilePresent, Paths
<1>41. CASE CleanupDies
  BY <1>41 DEF CleanupDies, runVars, signalVars, guardVars, wizVars, IInv,
        TypeOK, FileInv, GuardedWhilePresent, Paths
<1>42. CASE \E p \in Paths : CleanUp(p)
  BY <1>42 DEF CleanUp, runVars, signalVars, wizVars, Guard!CleanUp, IInv,
        TypeOK, FileInv, GuardedWhilePresent, Paths
<1>43. CASE UNCHANGED vars
  BY <1>43 DEF vars, runVars, signalVars, guardVars, wizVars, IInv, TypeOK,
        FileInv, GuardedWhilePresent, Paths
<1>44. QED
  BY <1>1, <1>2, <1>3, <1>4, <1>5, <1>6, <1>7, <1>8, <1>9, <1>9a, <1>9b, <1>9c, <1>10, <1>11,
        <1>12, <1>13, <1>14, <1>15, <1>16, <1>17, <1>18, <1>19, <1>20, <1>21,
        <1>22, <1>23, <1>24, <1>25, <1>26, <1>27, <1>28, <1>29, <1>30, <1>31,
        <1>32, <1>33, <1>34, <1>35, <1>36, <1>37, <1>38, <1>39, <1>40, <1>41,
        <1>42, <1>43 DEF Next, RunStep, WizStep

(* The types of WizTreeBackup's variables hold in every state. *)
THEOREM TypeCorrect == Spec => []TypeOK
<1>1. Init => TypeOK
  BY CandidatesAssumption
     DEF Init, TypeOK, PC, Process, Paths, Mode, Guard!Init, Signal!Init
<1>2. TypeOK /\ [Next]_vars => TypeOK'
  BY TypeStep
<1>3. QED
  BY <1>1, <1>2, PTL DEF Spec

LEMMA Inductive == Spec => []IInv
<1>1. Init => IInv
  <2> SUFFICES ASSUME Init PROVE IInv
    OBVIOUS
  <2>1. TypeOK
    BY CandidatesAssumption
       DEF Init, TypeOK, PC, Process, Paths, Mode, Guard!Init, Signal!Init
  <2>2. WizInv
    BY DEF Init, WizInv, Early, Waiting, Listing, Late, Runs
  <2>3. DataInv
    BY DEF Init, DataInv
  <2>4. FileInv
    BY DEF Init, FileInv, Guard!Init, Leaving, Paths
  <2>5. GuardedWhilePresent
    BY DEF Init, GuardedWhilePresent, Guard!Init, Paths
  <2>6. QED
    BY <2>1, <2>2, <2>3, <2>4, <2>5 DEF IInv
<1>2. IInv /\ [Next]_vars => IInv'
  BY TypeStep, WizStepInv, DataStepInv, FileStepInv, GuardStepInv DEF IInv
<1>3. QED
  BY <1>1, <1>2, PTL DEF Spec

(* A run that reports success wrote a complete backup and left no          *)
(* temporary path, unless the second instance of WizTree failed unseen.    *)
THEOREM SuccessCorrect == Spec => []SuccessIsComplete
<1>1. IInv => SuccessIsComplete
  BY DEF IInv, DataInv, FileInv, SuccessIsComplete
<1>2. QED
  BY <1>1, Inductive, PTL

(* A temporary path on the disk is guarded, up to the step between its     *)
(* creation and the guard call.                                            *)
THEOREM GuardCorrect == Spec => []GuardedWhilePresent
<1>1. IInv => GuardedWhilePresent
  BY DEF IInv
<1>2. QED
  BY <1>1, Inductive, PTL

(* Quit is sent when no temporary path is left but one that an instance of *)
(* WizTree out of the run's reach may hold.                                *)
THEOREM QuitCorrect == Spec => []QuitMeansClean
<1>1. IInv => QuitMeansClean
  BY DEF IInv, FileInv, QuitMeansClean, Leaving
<1>2. QED
  BY <1>1, Inductive, PTL
===============================================================================
