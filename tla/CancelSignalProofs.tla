-------------------------- MODULE CancelSignalProofs --------------------------
(***************************************************************************)
(* Proofs about CancelSignal, for every number of signals, threads,        *)
(* futures and slots: its type, then the tables of wakers, who owns a slot *)
(* and that no waker is lost or woken without reason, and the refinement.  *)
(***************************************************************************)
EXTENDS CancelSignal, TLAPS

(* The fields of a thread that its pc makes meaningful. *)
Located ==
  \A t \in Threads :
    LET th == thread[t] IN
    /\ th.pc \in {"publish", "notify", "run"} => th.top \in Signals
    /\ th.pc \in {"cancel", "register", "inherit", "store", "unlink", "wait", "notified"}
         => th.target \in Signals
    /\ th.pc \in {"register", "inherit", "store", "unlink"} => th.via \in Signals
    /\ th.pc \in {"register", "store", "unlink"} => th.own \in Handles

TypeInv == TypeOK /\ Located

LEMMA IdleThreadType == IdleThread \in Thread
BY ConstantsAssumption DEF IdleThread, Thread, PC, Text

LEMMA UnusedHandleType == UnusedHandle \in Handle /\ DroppedHandle \in Handle
BY ConstantsAssumption DEF UnusedHandle, DroppedHandle, Handle, HandleState

LEMMA AllEmptyType == AllEmpty \in [Slots -> Waker \cup {Empty}]
BY DEF AllEmpty

LEMMA InitTypeInv == Init => TypeInv
<1> SUFFICES ASSUME Init PROVE TypeInv
  OBVIOUS
<1>1. TypeOK
  <2>1. NoReason \in Text
    BY DEF Text
  <2> QED
    BY <2>1, IdleThreadType, UnusedHandleType, AllEmptyType DEF Init, TypeOK
<1>2. Located
  BY DEF Init, Located, IdleThread
<1> QED
  BY <1>1, <1>2 DEF TypeInv

LEMMA ReturnType ==
  ASSUME TypeInv, NEW t \in Threads, NEW frame \in Signals \cup {None}, ReturnTo(t, frame)
  PROVE  thread' \in [Threads -> Thread] /\ Located'
<1>1. thread' \in [Threads -> Thread]
  BY IdleThreadType DEF TypeInv, TypeOK, ReturnTo, Thread, PC, IdleThread
<1>2. Located'
  BY DEF TypeInv, TypeOK, Located, ReturnTo, Thread, PC, IdleThread
<1> QED
  BY <1>1, <1>2

LEMMA SlotsWithoutType ==
  ASSUME TypeInv, NEW h \in Handles
  PROVE  SlotsWithout(h) \in [Signals -> [Slots -> Waker \cup {Empty}]]
BY DEF TypeInv, TypeOK, SlotsWithout

LEMMA AfterDropType ==
  ASSUME TypeInv, NEW h \in Handles
  PROVE  AfterDrop(h) \in Handle
<1>1. handle[h] \in Handle
  BY DEF TypeInv, TypeOK
<1>2. [handle[h] EXCEPT !.state = "late"] \in Handle
  BY <1>1 DEF Handle, HandleState
<1> QED
  BY <1>2, UnusedHandleType DEF AfterDrop

(* Each step of a call keeps the types. *)
LEMMA StepTypeInv ==
  ASSUME TypeInv, NEW t \in Threads, Step(t)
  PROVE  TypeInv'
<1> USE DEF TypeInv
<1>0. thread \in [Threads -> Thread] /\ thread[t] \in Thread
  BY DEF TypeOK
<1>1. CASE EnterCanceled(t)
  <2>1. thread[t].top \in Signals \cup {None}
    BY <1>0 DEF Thread
  <2> QED
    BY <1>1, <2>1, ReturnType DEF EnterCanceled, TypeOK, signalVars, frameVars
<1>2. CASE EnterCancel(t)
  <2> USE <1>2 DEF EnterCancel
  <2>1. thread[t].target \in Signals /\ thread[t].why \in Text
    BY <1>0 DEF Located, Thread
  <2>2. thread[t].top \in Signals \cup {None}
    BY <1>0 DEF Thread
  <2>3. thread' \in [Threads -> Thread]
    BY <2>1, <1>0, IdleThreadType DEF Thread, PC, IdleThread
  <2>4. Located'
    BY <2>1, <1>0 DEF Located, IdleThread
  <2> QED
    BY <2>1, <2>2, <2>3, <2>4, AllEmptyType DEF TypeOK
<1>3. CASE Publish(t)
  <2> USE <1>3 DEF Publish
  <2>1. thread' \in [Threads -> Thread]
    BY <1>0 DEF Thread, PC
  <2>2. Located'
    BY <1>0 DEF Located
  <2> QED
    BY <2>1, <2>2 DEF TypeOK, frameVars
<1>4. CASE NotifyAll(t)
  <2> USE <1>4 DEF NotifyAll
  <2>1. thread' \in [Threads -> Thread]
    BY <1>0 DEF Thread, PC
  <2>2. Located'
    BY <1>0 DEF Located, Waits, Thread, PC
  <2> QED
    BY <2>1, <2>2 DEF TypeOK, signalVars, frameVars
<1>5. CASE DropParent(t)
  <2> USE <1>5 DEF DropParent
  <2>1. PICK h \in toDrop[thread[t].top] :
             /\ slots' = SlotsWithout(h)
             /\ toDrop' = [toDrop EXCEPT ![thread[t].top] = @ \ {h}]
             /\ handle' = [handle EXCEPT ![h] = AfterDrop(h)]
    OBVIOUS
  <2>2. thread[t].top \in Signals /\ h \in Handles
    BY <1>0, <2>1 DEF Located, TypeOK
  <2>3. slots' \in [Signals -> [Slots -> Waker \cup {Empty}]]
    BY <2>1, <2>2, SlotsWithoutType
  <2>4. handle' \in [Handles -> Handle]
    BY <2>1, <2>2, AfterDropType DEF TypeOK
  <2> QED
    BY <2>1, <2>2, <2>3, <2>4 DEF TypeOK, Located
<1>6. CASE WakeNext(t)
  <2> DEFINE s == thread[t].top
  <2>1. s \in Signals
    BY <1>0, <1>6 DEF Located, WakeNext
  <2>2. PICK i \in Slots :
             /\ toWake[s][i] # Empty
             /\ toWake' = [toWake EXCEPT ![s][i] = Empty]
             /\ IF handle[toWake[s][i].owner].child = None
                  THEN woken' = woken \cup {toWake[s][i]} /\ UNCHANGED thread
                  ELSE /\ thread' = [thread EXCEPT ![t] =
                            [@ EXCEPT !.pc = "cancel", !.target = handle[toWake[s][i].owner].child,
                                      !.why = reason[s], !.via = s]]
                       /\ UNCHANGED woken
    BY <1>6 DEF WakeNext
  <2> DEFINE w == toWake[s][i]
  <2>3. w \in Waker /\ w.owner \in Handles
    <3>1. toWake[s] \in [Slots -> Waker \cup {Empty}]
      BY <2>1 DEF TypeOK
    <3>2. w \in Waker
      BY <2>2, <3>1
    <3> QED
      BY <3>2 DEF Waker
  <2>4. handle[w.owner].child \in Signals \cup {None}
    BY <2>3 DEF TypeOK, Handle
  <2>5. toWake' \in [Signals -> [Slots -> Waker \cup {Empty}]]
    BY <2>1, <2>2 DEF TypeOK
  <2>6. woken' \in SUBSET Waker
    <3>1. woken \in SUBSET Waker
      BY DEF TypeOK
    <3>2. woken' = woken \/ woken' = woken \cup {w}
      BY <2>2
    <3> QED
      BY <3>1, <3>2, <2>3
  <2>7. thread' \in [Threads -> Thread] /\ Located'
    <3>1. CASE handle[w.owner].child = None
      BY <3>1, <2>2, <1>0 DEF Located
    <3>2. CASE handle[w.owner].child # None
      <4> DEFINE th == [thread[t] EXCEPT !.pc = "cancel", !.target = handle[w.owner].child,
                                         !.why = reason[s], !.via = s]
      <4>1. reason[s] \in Text /\ handle[w.owner].child \in Signals
        BY <2>1, <2>4, <3>2 DEF TypeOK
      <4>2. th \in Thread /\ th.pc = "cancel" /\ th.target \in Signals
        BY <2>1, <4>1, <1>0 DEF Thread, PC
      <4>3. thread' = [thread EXCEPT ![t] = th]
        BY <3>2, <2>2, <1>0
      <4>4. Located'
        BY <4>2, <4>3, <1>0 DEF Located
      <4> QED
        BY <4>2, <4>3, <4>4, <1>0
    <3> QED
      BY <3>1, <3>2
  <2> QED
    BY <1>6, <2>5, <2>6, <2>7 DEF WakeNext, TypeOK, signalVars
<1>7. CASE EndCancel(t)
  <2>1. thread[t].top \in Signals
    BY <1>0, <1>7 DEF Located, EndCancel
  <2>2. caller[thread[t].top] \in Signals \cup {None}
    BY <2>1 DEF TypeOK
  <2> QED
    BY <1>7, <2>1, <2>2, ReturnType DEF EndCancel, TypeOK, signalVars
<1>8. CASE Register(t)
  <2> DEFINE h == thread[t].own
             p == thread[t].via
  <2>1. h \in Handles /\ p \in Signals /\ thread[t].target \in Signals
    BY <1>0, <1>8 DEF Located, Register
  <2>2. CASE canceled[p]
    <3>1. /\ handle' = [handle EXCEPT ![h] = DroppedHandle]
          /\ thread' = [thread EXCEPT ![t] = [@ EXCEPT !.pc = "inherit", !.own = None]]
          /\ UNCHANGED <<slots, canceled, reason, parents, lock, quick, frameVars, woken>>
      BY <1>8, <2>2 DEF Register
    <3> DEFINE th == [thread[t] EXCEPT !.pc = "inherit", !.own = None]
    <3>2. th \in Thread /\ th.pc = "inherit" /\ th.target \in Signals /\ th.via \in Signals
      BY <1>0, <2>1 DEF Thread, PC
    <3>3. thread' = [thread EXCEPT ![t] = th]
      BY <3>1, <1>0
    <3>4. thread' \in [Threads -> Thread] /\ Located'
      BY <1>0, <3>2, <3>3 DEF Located
    <3> QED
      BY <3>1, <3>4, UnusedHandleType DEF TypeOK, frameVars
  <2>3. CASE ~canceled[p]
    <3>1. PICK i \in Slots :
               /\ slots' = [slots EXCEPT ![p][i] = WakerOf(h)]
               /\ handle' = [handle EXCEPT ![h].index = i]
               /\ thread' = [thread EXCEPT ![t].pc = "store"]
               /\ UNCHANGED <<canceled, reason, parents, lock, quick, frameVars, woken>>
      BY <1>8, <2>3 DEF Register
    <3>2. WakerOf(h) \in Waker
      BY <2>1 DEF TypeOK, Handle, Waker, WakerOf
    <3>3. handle' \in [Handles -> Handle]
      <4>1. i \in 0..MaxSlots
        BY ConstantsAssumption DEF Slots
      <4>2. [handle[h] EXCEPT !.index = i] \in Handle
        BY <2>1, <4>1 DEF TypeOK, Handle
      <4> QED
        BY <2>1, <3>1, <4>2 DEF TypeOK
    <3>4. thread' \in [Threads -> Thread] /\ Located'
      BY <1>0, <2>1, <3>1 DEF Thread, PC, Located
    <3> QED
      BY <2>1, <3>1, <3>2, <3>3, <3>4 DEF TypeOK, frameVars
  <2> QED
    BY <2>2, <2>3
<1>9. CASE Inherit(t)
  <2> DEFINE th == [thread[t] EXCEPT !.pc = "cancel", !.why = reason[thread[t].via]]
  <2>1. thread[t].via \in Signals /\ thread[t].target \in Signals
    BY <1>0, <1>9 DEF Located, Inherit
  <2>2. reason[thread[t].via] \in Text
    BY <2>1 DEF TypeOK
  <2>3. th \in Thread /\ th.pc = "cancel" /\ th.target \in Signals
    BY <1>0, <2>1, <2>2 DEF Thread, PC
  <2>4. thread' = [thread EXCEPT ![t] = th]
    BY <1>0, <1>9 DEF Inherit
  <2>5. thread' \in [Threads -> Thread] /\ Located'
    BY <1>0, <2>3, <2>4 DEF Located
  <2> QED
    BY <1>9, <2>5 DEF Inherit, TypeOK, signalVars, frameVars
<1>10. CASE Store(t)
  <2> DEFINE c == thread[t].target
  <2>1. thread[t].own \in Handles /\ c \in Signals /\ thread[t].via \in Signals
    BY <1>0, <1>10 DEF Located, Store
  <2>2. CASE canceled[c] \/ AlreadyAdded(c, thread[t].via)
    <3>1. thread' = [thread EXCEPT ![t].pc = "unlink"] /\ UNCHANGED <<parents, handle>>
      BY <1>10, <2>2 DEF Store
    <3>2. thread' \in [Threads -> Thread] /\ Located'
      BY <1>0, <2>1, <3>1 DEF Thread, PC, Located
    <3> QED
      BY <1>10, <3>1, <3>2 DEF Store, TypeOK, frameVars
  <2>3. CASE ~(canceled[c] \/ AlreadyAdded(c, thread[t].via))
    <3>1. /\ parents' = [parents EXCEPT ![c] = @ \cup {thread[t].own}]
          /\ handle' = [handle EXCEPT ![thread[t].own].state = "linked"]
          /\ thread' = [thread EXCEPT ![t] = IdleThread]
      BY <1>10, <2>3 DEF Store
    <3>2. [handle[thread[t].own] EXCEPT !.state = "linked"] \in Handle
      BY <2>1 DEF TypeOK, Handle, HandleState
    <3>3. handle' \in [Handles -> Handle]
      BY <2>1, <3>1, <3>2 DEF TypeOK
    <3>4. thread' \in [Threads -> Thread]
      BY <1>0, <3>1, IdleThreadType
    <3>5. Located'
      BY <1>0, <3>1 DEF Located, IdleThread
    <3>6. parents' \in [Signals -> SUBSET Handles]
      BY <2>1, <3>1 DEF TypeOK
    <3> QED
      BY <1>10, <3>3, <3>4, <3>5, <3>6 DEF Store, TypeOK, frameVars
  <2> QED
    BY <2>2, <2>3
<1>11. CASE Unlink(t)
  <2> USE <1>11 DEF Unlink
  <2>1. thread[t].own \in Handles
    BY <1>0 DEF Located
  <2>2. handle' \in [Handles -> Handle]
    BY <2>1, AfterDropType DEF TypeOK
  <2>3. Located'
    BY <1>0 DEF Located, IdleThread
  <2> QED
    BY <2>1, <2>2, <2>3, SlotsWithoutType, IdleThreadType DEF TypeOK, frameVars
<1>12. CASE WaitCanceled(t)
  <2>1. Located'
    BY <1>0, <1>12 DEF WaitCanceled, Located, IdleThread
  <2> QED
    BY <1>12, <2>1, IdleThreadType DEF WaitCanceled, TypeOK, signalVars, frameVars
<1> QED
  BY <1>1, <1>2, <1>3, <1>4, <1>5, <1>6, <1>7, <1>8, <1>9, <1>10, <1>11, <1>12 DEF Step

(* So does every new call and every timeout. *)
LEMMA CallTypeInv ==
  ASSUME TypeInv, NEW t \in Threads, Call(t) \/ WaitTimeout(t)
  PROVE  TypeInv'
<1> USE DEF TypeInv
<1>0. thread \in [Threads -> Thread]
  BY DEF TypeOK
<1>1. ASSUME NEW s \in Signals, NEW r \in Reasons[s], CallCancel(t, s, r)
      PROVE  TypeInv'
  <2> DEFINE th == [IdleThread EXCEPT !.pc = "cancel", !.target = s, !.why = r]
  <2>0. r \in Text
    BY DEF Text
  <2>1. th \in Thread /\ th.pc = "cancel" /\ th.target = s
    BY <2>0, IdleThreadType DEF IdleThread, Thread, PC
  <2>2. thread' = [thread EXCEPT ![t] = th]
    BY <1>1 DEF CallCancel
  <2>3. thread' \in [Threads -> Thread] /\ Located'
    BY <1>0, <2>1, <2>2 DEF Located
  <2> QED
    BY <1>1, <2>3 DEF CallCancel, TypeOK, signalVars, frameVars
<1>2. ASSUME NEW c \in Signals, NEW p \in Signals, CallAddParent(t, c, p)
      PROVE  TypeInv'
  <2>1. CASE quick[p]
    <3> DEFINE th == [IdleThread EXCEPT !.pc = "inherit", !.target = c, !.via = p]
    <3>1. th \in Thread /\ th.pc = "inherit" /\ th.target = c /\ th.via = p
      BY IdleThreadType DEF IdleThread, Thread, PC
    <3>2. thread' = [thread EXCEPT ![t] = th] /\ UNCHANGED handle
      BY <1>2, <2>1 DEF CallAddParent
    <3>3. thread' \in [Threads -> Thread] /\ Located'
      BY <1>0, <3>1, <3>2 DEF Located
    <3> QED
      BY <1>2, <3>2, <3>3 DEF CallAddParent, TypeOK, signalVars, frameVars
  <2>2. CASE ~quick[p]
    <3>1. PICK h \in Handles :
            /\ handle' = [handle EXCEPT ![h] = [state |-> "local", sig |-> p, index |-> 0, child |-> c, gen |-> 0]]
            /\ thread' = [thread EXCEPT ![t] =
                 [IdleThread EXCEPT !.pc = "register", !.target = c, !.via = p, !.own = h]]
      BY <1>2, <2>2 DEF CallAddParent
    <3> DEFINE th == [IdleThread EXCEPT !.pc = "register", !.target = c, !.via = p, !.own = h]
    <3>2. th \in Thread /\ th.pc = "register" /\ th.target = c /\ th.via = p /\ th.own = h
      BY IdleThreadType DEF IdleThread, Thread, PC
    <3>3. thread' \in [Threads -> Thread] /\ Located'
      BY <1>0, <3>1, <3>2 DEF Located
    <3>4. [state |-> "local", sig |-> p, index |-> 0, child |-> c, gen |-> 0] \in Handle
      BY ConstantsAssumption DEF Handle, HandleState
    <3>5. handle' \in [Handles -> Handle]
      BY <3>1, <3>4 DEF TypeOK
    <3> QED
      BY <1>2, <3>3, <3>5 DEF CallAddParent, TypeOK, signalVars, frameVars
  <2> QED
    BY <2>1, <2>2
<1>3. ASSUME NEW s \in Signals, CallWait(t, s)
      PROVE  TypeInv'
  <2> DEFINE th == [IdleThread EXCEPT !.pc = "wait", !.target = s]
  <2>1. th \in Thread /\ th.pc = "wait" /\ th.target = s
    BY IdleThreadType DEF IdleThread, Thread, PC
  <2>2. thread' = [thread EXCEPT ![t] = th]
    BY <1>3 DEF CallWait
  <2>3. thread' \in [Threads -> Thread] /\ Located'
    BY <1>0, <2>1, <2>2 DEF Located
  <2> QED
    BY <1>3, <2>3 DEF CallWait, TypeOK, signalVars, frameVars
<1>4. ASSUME WaitTimeout(t)
      PROVE  TypeInv'
  <2>1. Located'
    BY <1>0, <1>4 DEF WaitTimeout, Located, IdleThread
  <2> QED
    BY <1>0, <1>4, <2>1, IdleThreadType DEF WaitTimeout, TypeOK, signalVars, frameVars
<1> QED
  BY <1>1, <1>2, <1>3, <1>4 DEF Call

(* And the owners of futures. *)
LEMMA FutureTypeInv ==
  ASSUME TypeInv, NEW h \in Handles, Future(h)
  PROVE  TypeInv'
<1> USE DEF TypeInv
<1>0. handle \in [Handles -> Handle] /\ handle[h] \in Handle
  BY DEF TypeOK
<1>1. ASSUME NEW s \in Signals, SetWaker(h, s)
      PROVE  TypeInv'
  <2> DEFINE g == IF handle[h].state = "unused" THEN 0 ELSE handle[h].gen + 1
  <2>1. g \in 0..MaxGen
    BY <1>0, <1>1, ConstantsAssumption DEF SetWaker, Handle
  <2>2. PICK i \in Slots :
          /\ slots' = [slots EXCEPT ![s][i] = [owner |-> h, gen |-> g]]
          /\ handle' = [handle EXCEPT ![h] =
               [state |-> "user", sig |-> s, index |-> i, child |-> None, gen |-> g]]
    BY <1>1 DEF SetWaker
  <2>3. i \in 0..MaxSlots
    BY ConstantsAssumption DEF Slots
  <2>4. [state |-> "user", sig |-> s, index |-> i, child |-> None, gen |-> g] \in Handle
    BY <2>1, <2>3 DEF Handle, HandleState
  <2>5. handle' \in [Handles -> Handle]
    BY <1>0, <2>2, <2>4
  <2>6. [owner |-> h, gen |-> g] \in Waker
    BY <2>1 DEF Waker
  <2>7. slots' \in [Signals -> [Slots -> Waker \cup {Empty}]]
    BY <2>2, <2>6 DEF TypeOK
  <2>8. UNCHANGED <<canceled, reason, parents, lock, quick, frameVars, thread, woken>>
    BY <1>1 DEF SetWaker
  <2>9. TypeOK'
    BY <2>5, <2>7, <2>8 DEF TypeOK, frameVars
  <2>10. Located'
    BY <2>8 DEF Located
  <2> QED
    BY <2>9, <2>10
<1>2. CASE DropFuture(h)
  <2>1. handle' \in [Handles -> Handle]
    BY <1>0, <1>2, AfterDropType DEF DropFuture
  <2> QED
    BY <1>2, <2>1, SlotsWithoutType DEF DropFuture, TypeOK, Located, frameVars
<1>3. CASE Forget(h)
  <2>0. 0 \in 0..MaxSlots /\ "forgotten" \in HandleState
    BY ConstantsAssumption DEF HandleState
  <2>1. [handle[h] EXCEPT !.state = "forgotten", !.index = 0] \in Handle
    BY <1>0, <2>0 DEF Handle
  <2>2. handle' = [handle EXCEPT ![h] = [handle[h] EXCEPT !.state = "forgotten", !.index = 0]]
    BY <1>0, <1>3 DEF Forget
  <2>3. handle' \in [Handles -> Handle]
    BY <1>0, <2>1, <2>2
  <2> QED
    BY <1>3, <2>3 DEF Forget, TypeOK, Located, signalVars, frameVars
<1> QED
  BY <1>1, <1>2, <1>3 DEF Future

LEMMA NextTypeInv == TypeInv /\ [Next]_vars => TypeInv'
<1> SUFFICES ASSUME TypeInv, [Next]_vars PROVE TypeInv'
  OBVIOUS
<1>1. CASE Next
  BY <1>1, StepTypeInv, CallTypeInv, FutureTypeInv DEF Next
<1>2. CASE UNCHANGED vars
  BY <1>2 DEF vars, signalVars, frameVars, TypeInv, TypeOK, Located
<1> QED
  BY <1>1, <1>2

LEMMA TypeInvariance == Spec => []TypeInv
BY InitTypeInv, NextTypeInv, PTL DEF Spec

(* Every variable keeps its type, for all signals, threads and futures. *)
THEOREM TypeCorrect == Spec => []TypeOK
BY TypeInvariance, PTL DEF TypeInv

-------------------------------------------------------------------------------
(* What each state of a future says about its other fields. *)
FieldsOK(h) ==
  LET f == handle[h] IN
  /\ f.state = "unused" => f.index = 0
  /\ f.state \in {"local", "linked", "user", "forgotten", "late"} => f.sig \in Signals
  /\ f.state \in {"local", "linked"} => f.child \in Signals
  /\ f.state \in {"user", "forgotten"} => f.child = None
  /\ f.state \in {"linked", "user"} => f.index # 0

(* SlotsOwned, for one future: its slot has its waker, and no other has.   *)
SlotOwned(h) ==
  Live(h) /\ handle[h].index # 0 /\ ~canceled[handle[h].sig]
    => slots[handle[h].sig][handle[h].index] = WakerOf(h)

NoOrphan(h) ==
  \A s \in Signals, i \in Slots :
    slots[s][i] # Empty /\ slots[s][i].owner = h =>
      /\ handle[h].sig = s
      /\ slots[s][i] = WakerOf(h)
      /\ \/ Live(h) /\ handle[h].index = i
         \/ handle[h].state = "forgotten"

(* A waker in a taken table is the last one of its future.                 *)
TakenOK(h) ==
  \A s \in Signals, i \in Slots :
    toWake[s][i] # Empty /\ toWake[s][i].owner = h =>
      /\ handle[h].sig = s
      /\ toWake[s][i] = WakerOf(h)
      /\ handle[h].state \in {"local", "linked", "user", "forgotten", "late"}
      /\ handle[h].state = "local" => handle[h].index # 0

(* NoLostWakeup, and what it needs before the signal is canceled and       *)
(* before a handle is stored.                                              *)
SlotKept(h) ==
  handle[h].state = "forgotten" /\ ~canceled[handle[h].sig]
    => \E i \in Slots : slots[handle[h].sig][i] = WakerOf(h)

UserWoken(h) ==
  handle[h].state \in {"user", "forgotten"} /\ canceled[handle[h].sig]
    => WakerOf(h) \in woken \/ WillWake(h)

Registered(h) == handle[h].state \in {"local", "linked"} /\ handle[h].index # 0

ChildFollows(h) ==
  Registered(h) /\ canceled[handle[h].sig] /\ ~canceled[handle[h].child]
    => WillWake(h) \/ CancelingFor(handle[h].child, handle[h].sig)

(* WokenWakers, for one future. *)
WokenOK(h) ==
  \A w \in woken :
    w.owner = h =>
      /\ handle[h].state \in {"user", "forgotten", "late"}
      /\ w = WakerOf(h)
      /\ canceled[handle[h].sig]

FutureOK(h) ==
  /\ FieldsOK(h) /\ SlotOwned(h) /\ NoOrphan(h) /\ TakenOK(h)
  /\ SlotKept(h) /\ UserWoken(h) /\ ChildFollows(h) /\ WokenOK(h)

FutureInv == \A h \in Handles : FutureOK(h)

(* A handle that add_parent_signal has not stored yet belongs to one call. *)
Owns(t) == thread[t].pc \in {"register", "store", "unlink"}

OwnerOK(t) ==
  LET h == thread[t].own IN
  /\ handle[h].state = "local"
  /\ handle[h].sig = thread[t].via
  /\ handle[h].child = thread[t].target
  /\ (thread[t].pc = "register") <=> (handle[h].index = 0)

OwnersInv ==
  \A t \in Threads :
    Owns(t) =>
      /\ OwnerOK(t)
      /\ \A u \in Threads \ {t} : Owns(u) => thread[u].own # thread[t].own

(* A linked handle is in its child's table, or taken from it to be dropped. *)
LinksInv ==
  /\ \A s \in Signals : \A h \in parents[s] \cup toDrop[s] :
       handle[h].state = "linked" /\ handle[h].child = s
  /\ \A h \in Handles :
       handle[h].state = "linked" => h \in parents[handle[h].child] \cup toDrop[handle[h].child]

(* Tables are taken once, when their signal is canceled. *)
TablesInv ==
  \A s \in Signals :
    /\ canceled[s] => slots[s] = AllEmpty /\ parents[s] = {}
    /\ ~canceled[s] => toDrop[s] = {} /\ toWake[s] = AllEmpty

SlotInv == TypeInv /\ FutureInv /\ OwnersInv /\ LinksInv /\ TablesInv

-------------------------------------------------------------------------------
LEMMA WakerFacts ==
  ASSUME TypeInv, NEW h \in Handles
  PROVE  WakerOf(h) \in Waker /\ WakerOf(h).owner = h /\ WakerOf(h) # Empty
BY ConstantsAssumption DEF TypeInv, TypeOK, Handle, WakerOf, Waker

LEMMA TableFacts ==
  ASSUME TypeInv, NEW s \in Signals, NEW i \in Slots
  PROVE  /\ slots[s][i] # Empty => slots[s][i] \in Waker /\ slots[s][i].owner \in Handles
         /\ toWake[s][i] # Empty => toWake[s][i] \in Waker /\ toWake[s][i].owner \in Handles
         /\ AllEmpty[i] = Empty
<1>1. slots[s] \in [Slots -> Waker \cup {Empty}] /\ toWake[s] \in [Slots -> Waker \cup {Empty}]
  BY DEF TypeInv, TypeOK
<1>2. slots[s][i] \in Waker \cup {Empty} /\ toWake[s][i] \in Waker \cup {Empty}
  BY <1>1
<1>3. \A w \in Waker : w.owner \in Handles
  BY DEF Waker
<1> QED
  BY <1>2, <1>3 DEF AllEmpty

LEMMA HandleFacts ==
  ASSUME TypeInv, NEW h \in Handles
  PROVE  /\ handle[h] \in Handle
         /\ handle[h].state \in HandleState
         /\ handle[h].index # 0 => handle[h].index \in Slots
         /\ handle[h].child \in Signals \cup {None}
BY ConstantsAssumption DEF TypeInv, TypeOK, Handle, Slots

(* Calls that are about to cancel a child go on to do so. *)
CallsKept ==
  \A c \in Signals, p \in Signals :
    CancelingFor(c, p) /\ ~canceled[c] => CancelingFor(c, p)'

(* A future and its slots stay as they are. *)
Untouched(k) ==
  /\ handle'[k] = handle[k]
  /\ \A s \in Signals, i \in Slots :
       /\ slots[s][i] = WakerOf(k) => slots'[s][i] = WakerOf(k)
       /\ slots'[s][i] # Empty /\ slots'[s][i].owner = k => slots'[s][i] = slots[s][i]

OthersKept(h) == \A k \in Handles \ {h} : Untouched(k)

LEMMA OtherFuture ==
  ASSUME SlotInv, NEW k \in Handles, Untouched(k), CallsKept,
         UNCHANGED <<canceled, toWake, woken>>
  PROVE  FutureOK(k)'
<1>0. FutureOK(k) /\ handle'[k] = handle[k]
  BY DEF SlotInv, FutureInv, Untouched
<1>1. WakerOf(k)' = WakerOf(k) /\ (WillWake(k)' <=> WillWake(k)) /\ (Live(k)' <=> Live(k))
  BY <1>0 DEF WakerOf, WillWake, Live
<1>2. FieldsOK(k)' /\ TakenOK(k)' /\ UserWoken(k)' /\ WokenOK(k)'
  BY <1>0, <1>1 DEF FutureOK, FieldsOK, TakenOK, UserWoken, WokenOK
<1>3. FieldsOK(k)
  BY <1>0 DEF FutureOK
<1>4. SlotOwned(k)'
  <2> SUFFICES ASSUME Live(k), handle[k].index # 0, ~canceled[handle[k].sig]
               PROVE  slots'[handle[k].sig][handle[k].index] = WakerOf(k)
    BY <1>0, <1>1 DEF SlotOwned
  <2>1. handle[k].sig \in Signals /\ handle[k].index \in Slots
    BY <1>3, HandleFacts DEF FieldsOK, Live, SlotInv
  <2>2. slots[handle[k].sig][handle[k].index] = WakerOf(k)
    BY <1>0 DEF FutureOK, SlotOwned
  <2> QED
    BY <2>1, <2>2 DEF Untouched
<1>5. NoOrphan(k)'
  <2> SUFFICES ASSUME NEW s \in Signals, NEW i \in Slots,
                      slots'[s][i] # Empty, slots'[s][i].owner = k
               PROVE  /\ handle[k].sig = s
                      /\ slots'[s][i] = WakerOf(k)
                      /\ \/ Live(k) /\ handle[k].index = i
                         \/ handle[k].state = "forgotten"
    BY <1>0, <1>1 DEF NoOrphan
  <2>1. slots'[s][i] = slots[s][i]
    BY DEF Untouched
  <2> QED
    BY <1>0, <2>1 DEF FutureOK, NoOrphan
<1>6. SlotKept(k)'
  <2> SUFFICES ASSUME handle[k].state = "forgotten", ~canceled[handle[k].sig]
               PROVE  \E i \in Slots : slots'[handle[k].sig][i] = WakerOf(k)
    BY <1>0, <1>1 DEF SlotKept
  <2>1. handle[k].sig \in Signals
    BY <1>3 DEF FieldsOK
  <2>2. PICK i \in Slots : slots[handle[k].sig][i] = WakerOf(k)
    BY <1>0 DEF FutureOK, SlotKept
  <2> QED
    BY <2>1, <2>2 DEF Untouched
<1>7. ChildFollows(k)'
  <2> SUFFICES ASSUME Registered(k), canceled[handle[k].sig], ~canceled[handle[k].child],
                      ~WillWake(k), NEW c, NEW p, c = handle[k].child, p = handle[k].sig
               PROVE  CancelingFor(c, p)'
    BY <1>0, <1>1 DEF ChildFollows, Registered, CancelingFor
  <2>1. CancelingFor(c, p)
    BY <1>0 DEF FutureOK, ChildFollows
  <2>2. c \in Signals /\ p \in Signals
    BY <1>3 DEF FieldsOK, Registered
  <2> QED
    BY <2>1, <2>2 DEF CallsKept
<1> QED
  BY <1>2, <1>4, <1>5, <1>6, <1>7 DEF FutureOK

(* A step that changes one future. *)
LEMMA OneFuture ==
  ASSUME SlotInv, NEW h \in Handles, OthersKept(h), CallsKept,
         UNCHANGED <<canceled, toWake, woken>>, FutureOK(h)'
  PROVE  FutureInv'
BY OtherFuture DEF FutureInv, OthersKept

LEMMA SameFutures ==
  ASSUME SlotInv, CallsKept, UNCHANGED <<handle, slots, canceled, toWake, woken>>
  PROVE  FutureInv'
BY OtherFuture DEF FutureInv, Untouched

(* Writing an empty slot, or the slot of h, leaves the others. *)
LEMMA WrittenSlot ==
  ASSUME SlotInv, NEW h \in Handles, NEW s \in Signals, NEW i \in Slots,
         slots[s][i] = Empty \/ slots[s][i] = WakerOf(h),
         slots'[s][i] = Empty \/ slots'[s][i].owner = h,
         \A r \in Signals, j \in Slots : (r = s /\ j = i) \/ slots'[r][j] = slots[r][j],
         \A k \in Handles \ {h} : handle'[k] = handle[k]
  PROVE  OthersKept(h)
<1>1. TypeInv
  BY DEF SlotInv
<1> SUFFICES ASSUME NEW k \in Handles \ {h}, NEW r \in Signals, NEW j \in Slots
             PROVE  /\ slots[r][j] = WakerOf(k) => slots'[r][j] = WakerOf(k)
                    /\ slots'[r][j] # Empty /\ slots'[r][j].owner = k
                         => slots'[r][j] = slots[r][j]
  BY DEF OthersKept, Untouched
<1>2. CASE r = s /\ j = i
  <2>1. WakerOf(k) # Empty /\ WakerOf(k) # WakerOf(h)
    BY <1>1, WakerFacts
  <2> QED
    BY <1>2, <2>1
<1>3. CASE ~(r = s /\ j = i)
  BY <1>3
<1> QED
  BY <1>2, <1>3

LEMMA SameSlots ==
  ASSUME NEW h \in Handles, slots' = slots, \A k \in Handles \ {h} : handle'[k] = handle[k]
  PROVE  OthersKept(h)
BY DEF OthersKept, Untouched

-------------------------------------------------------------------------------
(* Each way in which a future changes. *)

(* A future that is dropped leaves its slot, unless the table was taken.   *)
LEMMA DropFutureInv ==
  ASSUME SlotInv, NEW h \in Handles, Live(h),
         slots' = SlotsWithout(h), handle' = [handle EXCEPT ![h] = AfterDrop(h)],
         UNCHANGED <<canceled, toWake, woken>>, CallsKept
  PROVE  FutureInv' /\ handle'[h].state \in {"late", "dropped"}
<1> DEFINE s == handle[h].sig
           j == handle[h].index
<1>0. /\ TypeInv /\ TablesInv /\ FutureOK(h) /\ s \in Signals
      /\ handle \in [Handles -> Handle] /\ handle[h] \in Handle
      /\ slots \in [Signals -> [Slots -> Waker \cup {Empty}]]
  BY DEF SlotInv, FutureInv, FutureOK, FieldsOK, TypeInv, TypeOK, Live
<1>1. \A k \in Handles \ {h} : handle'[k] = handle[k]
  BY <1>0
<1>2. handle'[h] = AfterDrop(h)
  BY <1>0
<1>3. CASE canceled[s]
  <2>1. slots' = slots /\ handle'[h] = [handle[h] EXCEPT !.state = "late"]
    BY <1>2, <1>3 DEF SlotsWithout, AfterDrop
  <2>2. OthersKept(h)
    BY <1>1, <2>1, SameSlots
  <2>3. WakerOf(h)' = WakerOf(h)
    BY <1>0, <2>1 DEF WakerOf, Handle
  <2>4. \A r \in Signals, i \in Slots : ~(slots[r][i] # Empty /\ slots[r][i].owner = h)
    BY <1>0, <1>3, TableFacts DEF FutureOK, NoOrphan, TablesInv
  <2>5. FutureOK(h)'
    BY <1>0, <1>3, <2>1, <2>3, <2>4
    DEF FutureOK, FieldsOK, SlotOwned, NoOrphan, TakenOK, SlotKept, UserWoken, ChildFollows,
        Registered, WokenOK, Live, Handle
  <2> QED
    BY <2>1, <2>2, <2>5, OneFuture, <1>0 DEF Handle
<1>4. CASE ~canceled[s]
  <2>1. handle'[h] = DroppedHandle
    BY <1>2, <1>4 DEF AfterDrop
  <2>2. OthersKept(h) /\ \A r \in Signals, i \in Slots :
                            ~(slots'[r][i] # Empty /\ slots'[r][i].owner = h)
    <3>1. CASE j = 0
      <4>1. slots' = slots
        BY <3>1 DEF SlotsWithout
      <4>2. \A r \in Signals, i \in Slots : ~(slots[r][i] # Empty /\ slots[r][i].owner = h)
        BY <1>0, <3>1 DEF FutureOK, NoOrphan, Live, Slots
      <4> QED
        BY <1>1, <4>1, <4>2, SameSlots
    <3>2. CASE j # 0
      <4>1. slots' = [slots EXCEPT ![s][j] = Empty] /\ j \in Slots
        BY <1>0, <1>4, <3>2, HandleFacts DEF SlotsWithout
      <4>2. slots[s][j] = WakerOf(h)
        BY <1>0, <1>4, <3>2 DEF FutureOK, SlotOwned
      <4>3. OthersKept(h)
        <5>1. slots'[s][j] = Empty
          BY <1>0, <4>1
        <5>2. \A r \in Signals, i \in Slots : (r = s /\ i = j) \/ slots'[r][i] = slots[r][i]
          BY <1>0, <4>1
        <5> QED
          BY <1>0, <1>1, <4>1, <4>2, <5>1, <5>2, WrittenSlot
      <4>4. ASSUME NEW r \in Signals, NEW i \in Slots, slots'[r][i] # Empty, slots'[r][i].owner = h
            PROVE  FALSE
        <5>1. ~(r = s /\ i = j)
          BY <1>0, <4>1, <4>4
        <5>2. slots'[r][i] = slots[r][i]
          BY <1>0, <4>1, <5>1
        <5> QED
          BY <1>0, <4>4, <5>1, <5>2 DEF FutureOK, NoOrphan, Live
      <4> QED
        BY <4>3, <4>4
    <3> QED
      BY <3>1, <3>2
  <2>3. \A r \in Signals, i \in Slots : ~(toWake[r][i] # Empty /\ toWake[r][i].owner = h)
    BY <1>0, <1>4, TableFacts DEF FutureOK, TakenOK, TablesInv
  <2>4. \A w \in woken : w.owner # h
    BY <1>0, <1>4 DEF FutureOK, WokenOK
  <2>5. FutureOK(h)'
    BY <2>1, <2>2, <2>3, <2>4
    DEF FutureOK, FieldsOK, SlotOwned, NoOrphan, TakenOK, SlotKept, UserWoken, ChildFollows,
        Registered, WokenOK, Live, DroppedHandle, UnusedHandle
  <2> QED
    BY <2>1, <2>2, <2>5, OneFuture DEF DroppedHandle, UnusedHandle
<1> QED
  BY <1>3, <1>4

(* A waker is stored, the first one or one after another.                  *)
LEMMA StoreWakerInv ==
  ASSUME SlotInv, NEW h \in Handles, NEW s \in Signals, NEW i \in Slots, NEW f \in Handle,
         handle[h].state \in {"unused", "local", "user"},
         handle[h].state = "unused" \/ handle[h].sig = s,
         IsSlotFor(h, s, i), ~canceled[s],
         \/ f.state = "user" /\ f.child = None
         \/ f.state = "local" /\ f.child \in Signals,
         f.sig = s, f.index = i,
         slots' = [slots EXCEPT ![s][i] = [owner |-> h, gen |-> f.gen]],
         handle' = [handle EXCEPT ![h] = f],
         UNCHANGED <<canceled, toWake, woken>>, CallsKept
  PROVE  FutureInv'
<1> DEFINE w == [owner |-> h, gen |-> f.gen]
<1>0. /\ TypeInv /\ TablesInv /\ FutureOK(h)
      /\ handle \in [Handles -> Handle]
      /\ slots \in [Signals -> [Slots -> Waker \cup {Empty}]]
  BY DEF SlotInv, FutureInv, TypeInv, TypeOK
<1>1. /\ \A k \in Handles \ {h} : handle'[k] = handle[k]
      /\ handle'[h] = f /\ WakerOf(h)' = w /\ w.owner = h
  BY <1>0 DEF WakerOf
<1>2. slots[s][i] = Empty \/ slots[s][i] = WakerOf(h)
  BY <1>0 DEF IsSlotFor, FutureOK, FieldsOK, SlotOwned, Live
<1>3. OthersKept(h)
  <2>1. slots'[s][i].owner = h
    BY <1>0, <1>1
  <2>2. \A r \in Signals, j \in Slots : (r = s /\ j = i) \/ slots'[r][j] = slots[r][j]
    BY <1>0
  <2> QED
    BY <1>1, <1>2, <2>1, <2>2, WrittenSlot
<1>4. \A r \in Signals, j \in Slots :
        slots[r][j] # Empty /\ slots[r][j].owner = h => r = s /\ j = i
  <2> SUFFICES ASSUME NEW r \in Signals, NEW j \in Slots,
                      slots[r][j] # Empty, slots[r][j].owner = h
               PROVE  r = s /\ j = i
    OBVIOUS
  <2>1. handle[h].sig = r /\ Live(h) /\ handle[h].index = j
    BY <1>0 DEF FutureOK, NoOrphan
  <2>2. handle[h].index # 0
    BY <2>1 DEF Slots
  <2> QED
    BY <2>1, <2>2 DEF IsSlotFor, Live
<1>5. NoOrphan(h)'
  <2> SUFFICES ASSUME NEW r \in Signals, NEW j \in Slots,
                      slots'[r][j] # Empty, slots'[r][j].owner = h
               PROVE  r = s /\ j = i
    BY <1>0, <1>1 DEF NoOrphan, Live
  <2> QED
    BY <1>0, <1>4
<1>6. SlotOwned(h)'
  BY <1>0, <1>1 DEF SlotOwned
<1>7. \A r \in Signals, j \in Slots : ~(toWake[r][j] # Empty /\ toWake[r][j].owner = h)
  <2> SUFFICES ASSUME NEW r \in Signals, NEW j \in Slots,
                      toWake[r][j] # Empty, toWake[r][j].owner = h
               PROVE  FALSE
    OBVIOUS
  <2>1. handle[h].sig = r /\ handle[h].state # "unused"
    BY <1>0 DEF FutureOK, TakenOK
  <2>2. toWake[s] = AllEmpty /\ r = s
    BY <1>0, <2>1 DEF TablesInv
  <2> QED
    BY <1>0, <2>2, TableFacts
<1>8. \A x \in woken : x.owner # h
  BY <1>0 DEF FutureOK, WokenOK
<1>9. FieldsOK(h)' /\ SlotKept(h)' /\ UserWoken(h)' /\ ChildFollows(h)'
  BY <1>1 DEF FieldsOK, SlotKept, UserWoken, ChildFollows, Registered, Slots
<1>10. FutureOK(h)'
  BY <1>5, <1>6, <1>7, <1>8, <1>9 DEF FutureOK, TakenOK, WokenOK
<1> QED
  BY <1>1, <1>3, <1>10, OneFuture

(* A future that is in no table becomes another that is in none.           *)
LEMMA NewHandleInv ==
  ASSUME SlotInv, NEW h \in Handles, NEW f,
         handle[h].index = 0, handle[h].state \in {"unused", "local"},
         f.index = 0,
         f.state = "dropped" \/ (f.state = "local" /\ f.child \in Signals /\ f.sig \in Signals),
         handle' = [handle EXCEPT ![h] = f],
         UNCHANGED <<slots, canceled, toWake, woken>>, CallsKept
  PROVE  FutureInv'
<1>0. FutureOK(h) /\ handle \in [Handles -> Handle]
  BY DEF SlotInv, FutureInv, TypeInv, TypeOK
<1>1. handle'[h] = f /\ \A k \in Handles \ {h} : handle'[k] = handle[k]
  BY <1>0
<1>2. OthersKept(h)
  BY <1>1, SameSlots
<1>3. \A r \in Signals, i \in Slots : ~(slots[r][i] # Empty /\ slots[r][i].owner = h)
  BY <1>0 DEF FutureOK, NoOrphan, Slots
<1>4. \A r \in Signals, i \in Slots : ~(toWake[r][i] # Empty /\ toWake[r][i].owner = h)
  BY <1>0 DEF FutureOK, TakenOK
<1>5. \A w \in woken : w.owner # h
  BY <1>0 DEF FutureOK, WokenOK
<1>6. FutureOK(h)'
  BY <1>1, <1>3, <1>4, <1>5
  DEF FutureOK, FieldsOK, SlotOwned, NoOrphan, TakenOK, SlotKept, UserWoken, ChildFollows,
      Registered, WokenOK, Live
<1> QED
  BY <1>2, <1>6, OneFuture

(* A handle is linked, a future forgotten: the slot stays. *)
LEMMA NewOwnerInv ==
  ASSUME SlotInv, NEW h \in Handles, NEW f \in Handle,
         \/ /\ handle[h].state = "local" /\ handle[h].index # 0
            /\ f.state = "linked" /\ f.index = handle[h].index
         \/ (handle[h].state = "user" /\ f.state = "forgotten" /\ f.index = 0),
         f.sig = handle[h].sig, f.child = handle[h].child, f.gen = handle[h].gen,
         handle' = [handle EXCEPT ![h] = f],
         UNCHANGED <<slots, canceled, toWake, woken>>, CallsKept
  PROVE  FutureInv'
<1>0. FutureOK(h) /\ TypeInv /\ handle \in [Handles -> Handle]
  BY DEF SlotInv, FutureInv, TypeInv, TypeOK
<1>1. handle'[h] = f /\ \A k \in Handles \ {h} : handle'[k] = handle[k]
  BY <1>0
<1>2. OthersKept(h)
  BY <1>1, SameSlots
<1>3. WakerOf(h)' = WakerOf(h) /\ (WillWake(h)' <=> WillWake(h))
  BY <1>1 DEF WakerOf, WillWake
<1>4. FieldsOK(h)' /\ SlotOwned(h)' /\ NoOrphan(h)' /\ TakenOK(h)' /\ UserWoken(h)' /\ WokenOK(h)'
  BY <1>0, <1>1, <1>3
  DEF FutureOK, FieldsOK, SlotOwned, NoOrphan, TakenOK, UserWoken, WokenOK, Live
<1>5. SlotKept(h)'
  <2> SUFFICES ASSUME f.state = "forgotten", ~canceled[handle[h].sig]
               PROVE  \E i \in Slots : slots[handle[h].sig][i] = WakerOf(h)
    BY <1>1, <1>3 DEF SlotKept
  <2>1. handle[h].index \in Slots
    BY <1>0, HandleFacts DEF FutureOK, FieldsOK
  <2>2. slots[handle[h].sig][handle[h].index] = WakerOf(h)
    BY <1>0, <2>1 DEF FutureOK, SlotOwned, Live, FieldsOK
  <2> QED
    BY <2>1, <2>2
<1>6. ChildFollows(h)'
  <2> SUFFICES ASSUME f.state = "linked", canceled[handle[h].sig], ~canceled[handle[h].child],
                      ~WillWake(h), NEW c, NEW p, c = handle[h].child, p = handle[h].sig
               PROVE  CancelingFor(c, p)'
    BY <1>1, <1>3 DEF ChildFollows, Registered, CancelingFor
  <2>1. CancelingFor(c, p) /\ c \in Signals /\ p \in Signals
    BY <1>0 DEF FutureOK, ChildFollows, Registered, FieldsOK
  <2> QED
    BY <2>1 DEF CallsKept
<1> QED
  BY <1>2, <1>4, <1>5, <1>6, OneFuture DEF FutureOK

-------------------------------------------------------------------------------
(* The tables of a signal are taken: all wakers in them will be woken.     *)
LEMMA EnterCancelFutures ==
  ASSUME SlotInv, NEW t \in Threads, EnterCancel(t)
  PROVE  FutureInv'
<1> DEFINE s == thread[t].target
<1>0. /\ TypeInv /\ FutureInv /\ s \in Signals
      /\ canceled \in [Signals -> BOOLEAN]
      /\ slots \in [Signals -> [Slots -> Waker \cup {Empty}]]
      /\ toWake \in [Signals -> [Slots -> Waker \cup {Empty}]]
      /\ thread \in [Threads -> Thread]
  BY DEF SlotInv, TypeInv, TypeOK, Located, EnterCancel
<1>1. /\ ~canceled[s] /\ canceled'[s]
      /\ \A r \in Signals : r # s => (canceled'[r] <=> canceled[r])
  BY <1>0 DEF EnterCancel
<1>2. /\ slots'[s] = AllEmpty /\ toWake'[s] = slots[s]
      /\ \A r \in Signals \ {s} : slots'[r] = slots[r] /\ toWake'[r] = toWake[r]
  BY <1>0 DEF EnterCancel
<1>3. handle' = handle /\ woken' = woken
  BY DEF EnterCancel
<1> SUFFICES ASSUME NEW h \in Handles PROVE FutureOK(h)'
  BY DEF FutureInv
<1> HIDE DEF s
<1>4. FutureOK(h) /\ (Live(h)' <=> Live(h)) /\ WakerOf(h)' = WakerOf(h)
  BY <1>0, <1>3 DEF FutureInv, Live, WakerOf
<1>5. Live(h) \/ handle[h].state \in {"forgotten", "late"} => handle[h].sig \in Signals
  BY <1>4 DEF FutureOK, FieldsOK, Live
<1>6. FieldsOK(h)'
  BY <1>3, <1>4 DEF FutureOK, FieldsOK
<1>7. SlotOwned(h)'
  BY <1>1, <1>2, <1>3, <1>4, <1>5 DEF FutureOK, SlotOwned
<1>8. NoOrphan(h)'
  <2>1. \A r \in Signals, i \in Slots : slots'[r][i] # Empty => slots'[r][i] = slots[r][i]
    BY <1>0, <1>2, TableFacts
  <2> QED
    BY <1>3, <1>4, <2>1 DEF FutureOK, NoOrphan
<1>9. TakenOK(h)'
  <2> SUFFICES ASSUME NEW r \in Signals, NEW i \in Slots,
                      toWake'[r][i] # Empty, toWake'[r][i].owner = h
               PROVE  /\ handle[h].sig = r
                      /\ toWake'[r][i] = WakerOf(h)
                      /\ handle[h].state \in {"local", "linked", "user", "forgotten", "late"}
                      /\ handle[h].state = "local" => handle[h].index # 0
    BY <1>3, <1>4 DEF TakenOK
  <2>1. CASE r = s
    BY <1>2, <1>4, <2>1 DEF FutureOK, NoOrphan, Live, Slots
  <2>2. CASE r # s
    BY <1>2, <1>4, <2>2 DEF FutureOK, TakenOK
  <2> QED
    BY <2>1, <2>2
<1>10. SlotKept(h)'
  <2> SUFFICES ASSUME handle[h].state = "forgotten", ~canceled'[handle[h].sig]
               PROVE  \E i \in Slots : slots'[handle[h].sig][i] = WakerOf(h)
    BY <1>3, <1>4 DEF SlotKept
  <2>1. handle[h].sig \in Signals \ {s}
    BY <1>1, <1>5
  <2> QED
    BY <1>1, <1>2, <1>4, <2>1 DEF FutureOK, SlotKept
(* What had a slot in the table of s is in the taken table. *)
<1>11. handle[h].sig = s /\ ((Live(h) /\ handle[h].index # 0) \/ handle[h].state = "forgotten")
         => WillWake(h)'
  <2> SUFFICES ASSUME handle[h].sig = s,
                      (Live(h) /\ handle[h].index # 0) \/ handle[h].state = "forgotten"
               PROVE  \E i \in Slots : toWake'[s][i] = WakerOf(h)
    BY <1>3, <1>4 DEF WillWake
  <2>1. CASE Live(h) /\ handle[h].index # 0
    <3>1. slots[s][handle[h].index] = WakerOf(h) /\ handle[h].index \in Slots
      BY <1>0, <1>1, <1>4, <2>1, HandleFacts DEF FutureOK, SlotOwned
    <3> QED
      BY <1>2, <3>1
  <2>2. CASE handle[h].state = "forgotten"
    BY <1>1, <1>2, <1>4, <2>2 DEF FutureOK, SlotKept
  <2> QED
    BY <2>1, <2>2
<1>12. handle[h].sig \in Signals \ {s} => (WillWake(h)' <=> WillWake(h))
  BY <1>2, <1>3, <1>4 DEF WillWake
<1>13. UserWoken(h)'
  <2> SUFFICES ASSUME handle[h].state \in {"user", "forgotten"}, canceled'[handle[h].sig]
               PROVE  WakerOf(h) \in woken \/ WillWake(h)'
    BY <1>3, <1>4 DEF UserWoken
  <2>1. handle[h].sig \in Signals /\ (handle[h].state = "user" => Live(h) /\ handle[h].index # 0)
    BY <1>4 DEF FutureOK, FieldsOK, Live
  <2>2. CASE handle[h].sig = s
    BY <1>11, <2>1, <2>2
  <2>3. CASE handle[h].sig # s
    BY <1>1, <1>4, <1>12, <2>1, <2>3 DEF FutureOK, UserWoken
  <2> QED
    BY <2>2, <2>3
<1>14. ChildFollows(h)'
  <2> SUFFICES ASSUME Registered(h), canceled'[handle[h].sig], ~canceled'[handle[h].child],
                      ~WillWake(h)', NEW c, NEW p, c = handle[h].child, p = handle[h].sig
               PROVE  CancelingFor(c, p)'
    BY <1>3, <1>4 DEF ChildFollows, Registered, CancelingFor
  <2>1. c \in Signals /\ p \in Signals /\ p # s /\ c # s
    BY <1>1, <1>4, <1>11 DEF FutureOK, FieldsOK, Registered, Live
  <2>2. ~canceled[c] /\ canceled[p]
    BY <1>1, <2>1
  <2>3. CancelingFor(c, p)
    BY <1>4, <1>12, <2>1, <2>2 DEF FutureOK, ChildFollows
  <2>4. PICK u \in Threads : thread[u].pc = "cancel" /\ thread[u].target = c /\ thread[u].via = p
    BY <2>3 DEF CancelingFor
  <2>5. u # t
    BY <2>1, <2>4 DEF s
  <2>6. thread'[u] = thread[u]
    BY <1>0, <2>5 DEF EnterCancel
  <2> QED
    BY <2>4, <2>6 DEF CancelingFor
<1>15. WokenOK(h)'
  BY <1>1, <1>3, <1>4, <1>5 DEF FutureOK, WokenOK, Live
<1> QED
  BY <1>6, <1>7, <1>8, <1>9, <1>10, <1>13, <1>14, <1>15 DEF FutureOK

(* A waker that is taken out of the table is woken, or its child canceled. *)
LEMMA WakeNextFutures ==
  ASSUME SlotInv, NEW t \in Threads, WakeNext(t)
  PROVE  FutureInv'
<1> DEFINE s == thread[t].top
<1>0. /\ TypeInv /\ FutureInv /\ TablesInv /\ s \in Signals
      /\ toWake \in [Signals -> [Slots -> Waker \cup {Empty}]]
      /\ thread \in [Threads -> Thread] /\ woken \in SUBSET Waker
  BY DEF SlotInv, TypeInv, TypeOK, Located, WakeNext
<1>1. PICK i \in Slots :
        /\ toWake[s][i] # Empty
        /\ toWake' = [toWake EXCEPT ![s][i] = Empty]
        /\ IF handle[toWake[s][i].owner].child = None
             THEN woken' = woken \cup {toWake[s][i]} /\ UNCHANGED thread
             ELSE /\ thread' = [thread EXCEPT ![t] =
                       [@ EXCEPT !.pc = "cancel", !.target = handle[toWake[s][i].owner].child,
                                 !.why = reason[s], !.via = s]]
                  /\ UNCHANGED woken
  BY DEF WakeNext
<1>2. handle' = handle /\ slots' = slots /\ canceled' = canceled /\ thread[t].pc = "run"
  BY DEF WakeNext, signalVars
<1> DEFINE w == toWake[s][i]
           k == w.owner
<1>3. k \in Handles /\ w = WakerOf(k) /\ handle[k].sig = s /\ canceled[s]
  <2>1. k \in Handles
    BY <1>0, <1>1, TableFacts
  <2>2. FutureOK(k)
    BY <1>0, <2>1 DEF FutureInv
  <2>3. w = WakerOf(k) /\ handle[k].sig = s
    BY <1>0, <1>1, <2>2 DEF FutureOK, TakenOK
  <2>4. canceled[s]
    BY <1>0, <1>1, TableFacts DEF TablesInv
  <2> QED
    BY <2>1, <2>3, <2>4
<1>4. CallsKept
  <2> SUFFICES ASSUME NEW c \in Signals, NEW p \in Signals, CancelingFor(c, p)
               PROVE  CancelingFor(c, p)'
    BY DEF CallsKept
  <2>1. PICK u \in Threads : thread[u].pc = "cancel" /\ thread[u].target = c /\ thread[u].via = p
    BY DEF CancelingFor
  <2>2. thread'[u] = thread[u]
    BY <1>0, <1>1, <1>2, <2>1
  <2> QED
    BY <2>1, <2>2 DEF CancelingFor
<1>5. woken \subseteq woken' /\ woken' \subseteq woken \cup {w}
  BY <1>1
<1> SUFFICES ASSUME NEW h \in Handles PROVE FutureOK(h)'
  BY DEF FutureInv
<1>6. FutureOK(h) /\ WakerOf(h)' = WakerOf(h)
  BY <1>0, <1>2 DEF FutureInv, WakerOf
<1>7. FieldsOK(h)' /\ SlotOwned(h)' /\ NoOrphan(h)' /\ SlotKept(h)'
  BY <1>2, <1>6 DEF FutureOK, FieldsOK, SlotOwned, NoOrphan, SlotKept, Live
<1>8. TakenOK(h)'
  <2>1. \A r \in Signals, j \in Slots : toWake'[r][j] # Empty => toWake'[r][j] = toWake[r][j]
    BY <1>0, <1>1
  <2> QED
    BY <1>2, <1>6, <2>1 DEF FutureOK, TakenOK
<1>9. h # k /\ handle[h].sig \in Signals /\ WillWake(h) => WillWake(h)'
  <2> SUFFICES ASSUME h # k, handle[h].sig \in Signals,
                      NEW j \in Slots, toWake[handle[h].sig][j] = WakerOf(h)
               PROVE  toWake'[handle[h].sig][j] = WakerOf(h)
    BY <1>2, <1>6 DEF WillWake
  <2>1. WakerOf(h) # w
    BY <1>0, <1>3, WakerFacts
  <2> QED
    BY <1>0, <1>1, <2>1
<1>10. h = k /\ handle[k].child = None => WakerOf(h) \in woken'
  BY <1>1, <1>3
<1>11. UserWoken(h)'
  <2> SUFFICES ASSUME handle[h].state \in {"user", "forgotten"}, canceled[handle[h].sig]
               PROVE  WakerOf(h) \in woken' \/ WillWake(h)'
    BY <1>2, <1>6 DEF UserWoken
  <2>1. handle[h].child = None /\ handle[h].sig \in Signals
    BY <1>6 DEF FutureOK, FieldsOK
  <2>2. WakerOf(h) \in woken \/ WillWake(h)
    BY <1>6 DEF FutureOK, UserWoken
  <2> QED
    BY <1>5, <1>9, <1>10, <2>1, <2>2
<1>12. ChildFollows(h)'
  <2> SUFFICES ASSUME Registered(h), canceled[handle[h].sig], ~canceled[handle[h].child],
                      ~WillWake(h)', NEW c, NEW p, c = handle[h].child, p = handle[h].sig
               PROVE  CancelingFor(c, p)'
    BY <1>2, <1>6 DEF ChildFollows, Registered, CancelingFor
  <2>1. c \in Signals /\ p \in Signals /\ c # None
    BY <1>6, ConstantsAssumption DEF FutureOK, FieldsOK, Registered
  <2>2. WillWake(h) \/ CancelingFor(c, p)
    BY <1>6 DEF FutureOK, ChildFollows
  <2>3. CASE h = k
    <3>1. handle[w.owner].child # None
      BY <2>1, <2>3
    <3>2. thread' = [thread EXCEPT ![t] =
                       [@ EXCEPT !.pc = "cancel", !.target = handle[w.owner].child,
                                 !.why = reason[s], !.via = s]]
      BY <1>1, <3>1
    <3> HIDE DEF s, w, k
    <3>3. thread[t] \in Thread
      BY <1>0
    <3>4. thread'[t].pc = "cancel" /\ thread'[t].target = handle[w.owner].child /\ thread'[t].via = s
      BY <1>0, <3>2, <3>3 DEF Thread
    <3>5. handle[w.owner].child = c /\ p = s
      BY <1>3, <2>1, <2>3 DEF k
    <3> QED
      BY <3>4, <3>5 DEF CancelingFor
  <2>4. CASE h # k
    BY <1>4, <1>9, <2>1, <2>2, <2>4 DEF CallsKept
  <2> QED
    BY <2>3, <2>4
<1>13. WokenOK(h)'
  <2> SUFFICES ASSUME NEW x \in woken', x.owner = h
               PROVE  /\ handle[h].state \in {"user", "forgotten", "late"}
                      /\ x = WakerOf(h)
                      /\ canceled[handle[h].sig]
    BY <1>2, <1>6 DEF WokenOK
  <2>1. CASE x \in woken
    BY <1>6, <2>1 DEF FutureOK, WokenOK
  <2>2. CASE x \notin woken
    <3>1. x = w /\ h = k /\ handle[h].child = None
      BY <1>1, <2>2
    <3>2. handle[h].state \in {"user", "forgotten", "late"}
      BY <1>0, <1>1, <1>6, <3>1, ConstantsAssumption DEF FutureOK, FieldsOK, TakenOK
    <3> QED
      BY <1>3, <3>1, <3>2
  <2> QED
    BY <2>1, <2>2
<1> QED
  BY <1>7, <1>8, <1>11, <1>12, <1>13 DEF FutureOK

-------------------------------------------------------------------------------
(* The other parts of the invariant. *)

LEMMA SomeTypes ==
  ASSUME SlotInv
  PROVE  /\ TypeInv /\ FutureInv /\ OwnersInv /\ LinksInv /\ TablesInv
         /\ canceled \in [Signals -> BOOLEAN]
         /\ slots \in [Signals -> [Slots -> Waker \cup {Empty}]]
         /\ parents \in [Signals -> SUBSET Handles]
         /\ toDrop \in [Signals -> SUBSET Handles]
         /\ handle \in [Handles -> Handle]
         /\ thread \in [Threads -> Thread]
BY DEF SlotInv, TypeInv, TypeOK

(* Only the handle h changes; the thread t may be its owner, or stop to be. *)
LEMMA OwnersKept ==
  ASSUME SlotInv, NEW t \in Threads, NEW h,
         \A u \in Threads \ {t} : Owns(u)' => Owns(u) /\ thread'[u] = thread[u],
         \A k \in Handles : k = h \/ handle'[k] = handle[k],
         handle[h].state # "local" \/ (Owns(t) /\ thread[t].own = h),
         Owns(t)' => /\ OwnerOK(t)'
                     /\ \A u \in Threads \ {t} : Owns(u) => thread[u].own # thread'[t].own
  PROVE  OwnersInv'
<1>0. OwnersInv /\ TypeInv
  BY SomeTypes
<1>1. ASSUME NEW u \in Threads \ {t}, Owns(u)'
      PROVE  OwnerOK(u)' /\ \A v \in Threads \ {u} : Owns(v)' => thread'[v].own # thread'[u].own
  <2>1. Owns(u) /\ thread'[u] = thread[u]
    BY <1>1
  <2>2. OwnerOK(u) /\ thread[u].own \in Handles
    BY <1>0, <2>1 DEF OwnersInv, TypeInv, Located, Owns
  <2>3. thread[u].own # h
    BY <1>0, <1>1, <2>1, <2>2 DEF OwnersInv, OwnerOK
  <2>4. OwnerOK(u)'
    BY <2>1, <2>2, <2>3 DEF OwnerOK
  <2>5. ASSUME NEW v \in Threads \ {u}, Owns(v)'
        PROVE  thread'[v].own # thread'[u].own
    <3>1. CASE v = t
      BY <1>1, <2>1, <2>5, <3>1
    <3>2. CASE v # t
      BY <1>0, <1>1, <2>1, <2>5, <3>2 DEF OwnersInv
    <3> QED
      BY <3>1, <3>2
  <2> QED
    BY <2>4, <2>5
<1>2. ASSUME NEW v \in Threads \ {t}, Owns(t)', Owns(v)'
      PROVE  thread'[v].own # thread'[t].own
  BY <1>2
<1> QED
  BY <1>1, <1>2 DEF OwnersInv

(* The owner of a future changes it, no thread does. *)
LEMMA OwnersOfOthers ==
  ASSUME SlotInv, NEW h, handle[h].state # "local", thread' = thread,
         \A k \in Handles : k = h \/ handle'[k] = handle[k]
  PROVE  OwnersInv'
<1>0. OwnersInv /\ TypeInv
  BY SomeTypes
<1> SUFFICES ASSUME NEW u \in Threads, Owns(u)
             PROVE  OwnerOK(u)' /\ \A v \in Threads \ {u} : Owns(v) => thread[v].own # thread[u].own
  BY DEF OwnersInv, Owns
<1>1. OwnerOK(u) /\ thread[u].own \in Handles
  BY <1>0 DEF OwnersInv, TypeInv, Located, Owns
<1>2. thread[u].own # h
  BY <1>1 DEF OwnerOK
<1> QED
  BY <1>0, <1>1, <1>2 DEF OwnerOK, OwnersInv

(* No handle is linked or taken out of its child. *)
LEMMA LinksKept ==
  ASSUME SlotInv, NEW h, UNCHANGED <<parents, toDrop>>,
         \A k \in Handles : k = h \/ handle'[k] = handle[k],
         handle[h].state # "linked", handle'[h].state # "linked"
  PROVE  LinksInv'
<1>0. /\ LinksInv
      /\ parents \in [Signals -> SUBSET Handles] /\ toDrop \in [Signals -> SUBSET Handles]
  BY SomeTypes
<1>1. ASSUME NEW s \in Signals, NEW k \in parents[s] \cup toDrop[s]
      PROVE  handle'[k].state = "linked" /\ handle'[k].child = s
  <2>1. k \in Handles /\ handle[k].state = "linked" /\ handle[k].child = s
    BY <1>0 DEF LinksInv
  <2> QED
    BY <2>1
<1>2. ASSUME NEW k \in Handles, handle'[k].state = "linked"
      PROVE  k \in parents[handle'[k].child] \cup toDrop[handle'[k].child]
  <2>1. handle'[k] = handle[k]
    BY <1>2
  <2> QED
    BY <1>0, <1>2, <2>1 DEF LinksInv
<1> QED
  BY <1>1, <1>2 DEF LinksInv

LEMMA TablesKept ==
  ASSUME SlotInv, UNCHANGED <<canceled, parents, toDrop, toWake>>,
         \A s \in Signals : canceled[s] => slots'[s] = slots[s]
  PROVE  TablesInv'
BY DEF SlotInv, TablesInv, AllEmpty

(* Calls about to cancel a child are only ended by the child. *)
LEMMA CallsGoOn ==
  ASSUME \A u \in Threads :
           thread[u].pc = "cancel" /\ ~canceled[thread[u].target] => thread'[u] = thread[u]
  PROVE  CallsKept
<1> SUFFICES ASSUME NEW c \in Signals, NEW p \in Signals, CancelingFor(c, p), ~canceled[c]
             PROVE  CancelingFor(c, p)'
  BY DEF CallsKept
<1>1. PICK u \in Threads : thread[u].pc = "cancel" /\ thread[u].target = c /\ thread[u].via = p
  BY DEF CancelingFor
<1>2. thread'[u] = thread[u]
  BY <1>1
<1> QED
  BY <1>1, <1>2 DEF CancelingFor

(* A step of the thread t that changes no table and no future. *)
LEMMA ThreadStep ==
  ASSUME SlotInv, TypeInv', NEW t \in Threads,
         UNCHANGED <<canceled, slots, parents, toDrop, toWake, handle, woken>>,
         \A u \in Threads \ {t} :
           \/ thread'[u] = thread[u]
           \/ thread[u].pc = "wait" /\ thread'[u].pc = "notified",
         thread[t].pc = "cancel" => canceled[thread[t].target],
         Owns(t)' => /\ thread[t].pc = "store" /\ thread'[t].pc = "unlink"
                     /\ thread'[t].own = thread[t].own
                     /\ thread'[t].via = thread[t].via
                     /\ thread'[t].target = thread[t].target
  PROVE  SlotInv'
<1>1. CallsKept
  <2>1. \A u \in Threads :
          thread[u].pc = "cancel" /\ ~canceled[thread[u].target] => thread'[u] = thread[u]
    OBVIOUS
  <2> QED
    BY <2>1, CallsGoOn
<1>2. FutureInv'
  BY <1>1, SameFutures
<1>3. OwnersInv'
  <2>1. \A u \in Threads \ {t} : Owns(u)' => Owns(u) /\ thread'[u] = thread[u]
    BY DEF Owns
  <2>2. CASE ~Owns(t)'
    <3>1. OwnersInv
      BY SomeTypes
    <3>2. ASSUME NEW u \in Threads, Owns(u)'
          PROVE  u # t /\ Owns(u) /\ thread'[u] = thread[u]
      BY <2>1, <2>2, <3>2
    <3> QED
      BY <3>1, <3>2 DEF OwnersInv, OwnerOK
  <2>3. CASE Owns(t)'
    <3>1. Owns(t) /\ OwnerOK(t) /\ \A u \in Threads \ {t} : Owns(u) => thread[u].own # thread[t].own
      BY <2>3, SomeTypes DEF OwnersInv, Owns
    <3>2. OwnerOK(t)'
      BY <2>3, <3>1 DEF OwnerOK
    <3>3. \A u \in Threads \ {t} : Owns(u) => thread[u].own # thread'[t].own
      BY <2>3, <3>1
    <3>4. \A k \in Handles : k = thread[t].own \/ handle'[k] = handle[k]
      OBVIOUS
    <3> HIDE DEF OwnerOK, Owns
    <3> QED
      BY <2>1, <3>1, <3>2, <3>3, <3>4, OwnersKept
  <2> QED
    BY <2>2, <2>3
<1>4. LinksInv' /\ TablesInv'
  BY SomeTypes DEF LinksInv, TablesInv, AllEmpty
<1> QED
  BY <1>2, <1>3, <1>4 DEF SlotInv

-------------------------------------------------------------------------------
(* The steps of a call that change only the thread. *)
LEMMA QuietSteps ==
  ASSUME SlotInv, TypeInv', NEW t \in Threads,
         \/ EnterCanceled(t) \/ Publish(t) \/ NotifyAll(t) \/ EndCancel(t)
         \/ Inherit(t) \/ WaitCanceled(t) \/ WaitTimeout(t)
         \/ \E s \in Signals : CallWait(t, s) \/ \E r \in Reasons[s] : CallCancel(t, s, r)
  PROVE  SlotInv'
<1>0. thread \in [Threads -> Thread] /\ thread[t] \in Thread
  BY SomeTypes
<1>1. UNCHANGED <<canceled, slots, parents, toDrop, toWake, handle, woken>>
  BY DEF EnterCanceled, Publish, NotifyAll, EndCancel, Inherit, WaitCanceled, WaitTimeout,
         CallWait, CallCancel, signalVars, frameVars
<1>2. CASE NotifyAll(t)
  <2>1. \A u \in Threads \ {t} :
          \/ thread'[u] = thread[u]
          \/ thread[u].pc = "wait" /\ thread'[u].pc = "notified"
    <3> SUFFICES ASSUME NEW u \in Threads \ {t}, thread'[u] # thread[u]
                 PROVE  thread[u].pc = "wait" /\ thread'[u].pc = "notified"
      OBVIOUS
    <3>1. thread'[u] = [thread[u] EXCEPT !.pc = "notified"] /\ thread[u].pc = "wait"
      BY <1>2 DEF NotifyAll, Waits
    <3>2. thread[u] \in Thread
      BY <1>0
    <3> QED
      BY <3>1, <3>2 DEF Thread
  <2>2. thread'[t].pc = "run" /\ thread[t].pc = "notify"
    BY <1>0, <1>2 DEF NotifyAll, Thread
  <2> QED
    BY <1>1, <2>1, <2>2, ThreadStep DEF Owns
<1>3. CASE ~NotifyAll(t)
  <2>1. \A u \in Threads \ {t} : thread'[u] = thread[u]
    BY <1>0, <1>3 DEF EnterCanceled, Publish, EndCancel, Inherit, WaitCanceled, WaitTimeout,
                      CallWait, CallCancel, ReturnTo
  <2>2. thread[t].pc = "cancel" => canceled[thread[t].target]
    BY <1>3 DEF EnterCanceled, Publish, EndCancel, Inherit, WaitCanceled, WaitTimeout,
                CallWait, CallCancel
  <2>3. ~Owns(t)'
    <3>1. CASE EnterCanceled(t) \/ EndCancel(t)
      <4>1. ASSUME NEW frame, ReturnTo(t, frame)
            PROVE  thread'[t].pc \in {"idle", "run"}
        <5>1. CASE frame = None
          BY <1>0, <4>1, <5>1 DEF ReturnTo, IdleThread
        <5>2. CASE frame # None
          BY <1>0, <4>1, <5>2 DEF ReturnTo, IdleThread
        <5> QED
          BY <5>1, <5>2
      <4>2. thread'[t].pc \in {"idle", "run"}
        BY <3>1, <4>1 DEF EnterCanceled, EndCancel
      <4> QED
        BY <4>2 DEF Owns
    <3>2. CASE Publish(t)
      BY <1>0, <3>2 DEF Publish, Owns, Thread
    <3>3. CASE Inherit(t)
      BY <1>0, <3>3 DEF Inherit, Owns, Thread
    <3>4. CASE WaitCanceled(t) \/ WaitTimeout(t)
      BY <1>0, <3>4 DEF WaitCanceled, WaitTimeout, IdleThread, Owns
    <3>5. ASSUME NEW s \in Signals, CallWait(t, s)
          PROVE  ~Owns(t)'
      BY <1>0, <3>5 DEF CallWait, IdleThread, Owns
    <3>6. ASSUME NEW s \in Signals, NEW r \in Reasons[s], CallCancel(t, s, r)
          PROVE  ~Owns(t)'
      BY <1>0, <3>6 DEF CallCancel, IdleThread, Owns
    <3> QED
      BY <1>3, <3>1, <3>2, <3>3, <3>4, <3>5, <3>6
  <2> QED
    BY <1>1, <2>1, <2>2, <2>3, ThreadStep
<1> QED
  BY <1>2, <1>3

LEMMA EnterCancelInv ==
  ASSUME SlotInv, TypeInv', NEW t \in Threads, EnterCancel(t)
  PROVE  SlotInv'
<1> DEFINE s == thread[t].target
<1>0. /\ OwnersInv /\ LinksInv /\ TablesInv /\ s \in Signals /\ thread \in [Threads -> Thread]
      /\ canceled \in [Signals -> BOOLEAN]
      /\ slots \in [Signals -> [Slots -> Waker \cup {Empty}]]
      /\ toWake \in [Signals -> [Slots -> Waker \cup {Empty}]]
      /\ parents \in [Signals -> SUBSET Handles] /\ toDrop \in [Signals -> SUBSET Handles]
  BY SomeTypes DEF TypeInv, TypeOK, Located, EnterCancel
<1>1. /\ handle' = handle /\ ~canceled[s] /\ canceled'[s]
      /\ slots'[s] = AllEmpty /\ parents'[s] = {}
      /\ toDrop'[s] = parents[s] /\ toDrop[s] = {}
  BY <1>0 DEF EnterCancel, TablesInv
<1>2. \A r \in Signals \ {s} :
        /\ canceled'[r] = canceled[r] /\ slots'[r] = slots[r] /\ toWake'[r] = toWake[r]
        /\ parents'[r] = parents[r] /\ toDrop'[r] = toDrop[r]
  BY <1>0 DEF EnterCancel
<1>3. ~Owns(t)' /\ \A u \in Threads \ {t} : thread'[u] = thread[u]
  BY <1>0 DEF EnterCancel, Owns, IdleThread
<1>4. OwnersInv'
  <2>1. ASSUME NEW u \in Threads, Owns(u)'
        PROVE  Owns(u) /\ thread'[u] = thread[u]
    BY <1>3, <2>1 DEF Owns
  <2> QED
    BY <1>0, <1>1, <2>1 DEF OwnersInv, OwnerOK
<1>5. LinksInv'
  <2>1. \A r \in Signals : parents'[r] \cup toDrop'[r] = parents[r] \cup toDrop[r]
    BY <1>0, <1>1, <1>2
  <2>2. \A h \in Handles : handle[h].state = "linked" => handle[h].child \in Signals
    BY SomeTypes DEF FutureInv, FutureOK, FieldsOK
  <2> QED
    BY <1>0, <1>1, <2>1, <2>2 DEF LinksInv
<1>6. TablesInv'
  BY <1>0, <1>1, <1>2 DEF TablesInv, AllEmpty
<1> QED
  BY <1>4, <1>5, <1>6, EnterCancelFutures DEF SlotInv

LEMMA WakeNextInv ==
  ASSUME SlotInv, TypeInv', NEW t \in Threads, WakeNext(t)
  PROVE  SlotInv'
<1> DEFINE s == thread[t].top
<1>0. /\ OwnersInv /\ LinksInv /\ TablesInv /\ TypeInv /\ s \in Signals
      /\ thread \in [Threads -> Thread]
      /\ toWake \in [Signals -> [Slots -> Waker \cup {Empty}]]
  BY SomeTypes DEF TypeInv, TypeOK, Located, WakeNext
<1>1. PICK i \in Slots : toWake[s][i] # Empty /\ toWake' = [toWake EXCEPT ![s][i] = Empty]
  BY DEF WakeNext
<1>2. UNCHANGED <<handle, canceled, slots, parents, toDrop>> /\ thread[t].pc = "run"
  BY DEF WakeNext, signalVars
<1>3. (\A u \in Threads \ {t} : thread'[u] = thread[u]) /\ ~Owns(t)'
  <2>1. thread' = thread \/ \E th : thread' = [thread EXCEPT ![t] = [@ EXCEPT
           !.pc = "cancel", !.target = th, !.why = reason[s], !.via = s]]
    BY DEF WakeNext
  <2> QED
    BY <1>0, <1>2, <2>1 DEF Owns, Thread
<1>4. OwnersInv'
  <2>1. ASSUME NEW u \in Threads, Owns(u)'
        PROVE  Owns(u) /\ thread'[u] = thread[u]
    BY <1>3, <2>1 DEF Owns
  <2> QED
    BY <1>0, <1>2, <2>1 DEF OwnersInv, OwnerOK
<1>5. TablesInv'
  <2>1. canceled[s]
    BY <1>0, <1>1, TableFacts DEF TablesInv
  <2>2. \A r \in Signals \ {s} : toWake'[r] = toWake[r]
    BY <1>0, <1>1
  <2> QED
    BY <1>0, <1>2, <2>1, <2>2 DEF TablesInv, AllEmpty
<1>6. LinksInv'
  BY <1>0, <1>2 DEF LinksInv
<1> QED
  BY <1>4, <1>5, <1>6, WakeNextFutures DEF SlotInv

(* The handles of the parents are dropped one by one. *)
LEMMA DropParentInv ==
  ASSUME SlotInv, TypeInv', NEW t \in Threads, DropParent(t)
  PROVE  SlotInv'
<1> DEFINE s == thread[t].top
<1>0. /\ LinksInv /\ TablesInv /\ TypeInv /\ FutureInv /\ s \in Signals
      /\ handle \in [Handles -> Handle]
      /\ parents \in [Signals -> SUBSET Handles] /\ toDrop \in [Signals -> SUBSET Handles]
  BY SomeTypes DEF TypeInv, TypeOK, Located, DropParent
<1>1. PICK h \in toDrop[s] :
        /\ slots' = SlotsWithout(h)
        /\ toDrop' = [toDrop EXCEPT ![s] = @ \ {h}]
        /\ handle' = [handle EXCEPT ![h] = AfterDrop(h)]
  BY DEF DropParent
<1>2. UNCHANGED <<canceled, parents, toWake, thread, woken>>
  BY DEF DropParent
<1>3. h \in Handles /\ handle[h].state = "linked" /\ handle[h].child = s
  BY <1>0 DEF LinksInv
<1>4. CallsKept
  BY <1>2, CallsGoOn
<1>5. FutureInv' /\ handle'[h].state \in {"late", "dropped"}
  BY <1>1, <1>2, <1>3, <1>4, DropFutureInv DEF Live
<1>6. \A k \in Handles : k = h \/ handle'[k] = handle[k]
  BY <1>0, <1>1
<1>7. OwnersInv'
  BY <1>2, <1>3, <1>6, OwnersOfOthers
<1>8. LinksInv'
  <2>1. canceled[s] /\ parents[s] = {}
    BY <1>0 DEF TablesInv
  <2>2. /\ h \notin parents'[s] \cup toDrop'[s]
        /\ \A r \in Signals : /\ parents'[r] = parents[r] /\ toDrop'[r] \subseteq toDrop[r]
                              /\ toDrop[r] \ {h} \subseteq toDrop'[r]
    BY <1>0, <1>1, <1>2, <2>1
  <2>3. ASSUME NEW r \in Signals, NEW k \in parents'[r] \cup toDrop'[r]
        PROVE  handle'[k].state = "linked" /\ handle'[k].child = r
    <3>1. k \in Handles /\ handle[k].state = "linked" /\ handle[k].child = r
      BY <1>0, <2>2 DEF LinksInv
    <3>2. k # h
      BY <1>3, <2>2, <2>3, <3>1
    <3> QED
      BY <1>6, <3>1, <3>2
  <2>4. ASSUME NEW k \in Handles, handle'[k].state = "linked"
        PROVE  k \in parents'[handle'[k].child] \cup toDrop'[handle'[k].child]
    <3>1. k # h
      BY <1>5, <2>4
    <3>2. handle'[k] = handle[k]
      BY <1>6, <3>1
    <3>3. handle[k].child \in Signals
      BY <1>0, <2>4, <3>2 DEF FutureInv, FutureOK, FieldsOK
    <3>4. k \in parents[handle[k].child] \cup toDrop[handle[k].child]
      BY <1>0, <2>4, <3>2 DEF LinksInv
    <3> QED
      BY <2>2, <3>1, <3>2, <3>3, <3>4
  <2> QED
    BY <2>3, <2>4 DEF LinksInv
<1>9. TablesInv'
  <2>1. \A r \in Signals : canceled[r] => slots'[r] = slots[r]
    BY <1>0, <1>1 DEF SlotsWithout, TypeInv, TypeOK
  <2>2. \A r \in Signals : toDrop[r] = {} => toDrop'[r] = {}
    BY <1>0, <1>1
  <2> QED
    BY <1>0, <1>2, <2>1, <2>2 DEF TablesInv, AllEmpty
<1> QED
  BY <1>5, <1>7, <1>8, <1>9 DEF SlotInv

(* add_parent_signal drops the handle that the child did not keep. *)
LEMMA UnlinkInv ==
  ASSUME SlotInv, TypeInv', NEW t \in Threads, Unlink(t)
  PROVE  SlotInv'
<1> DEFINE h == thread[t].own
<1>0. /\ OwnersInv /\ TypeInv /\ h \in Handles /\ handle \in [Handles -> Handle]
      /\ thread \in [Threads -> Thread] /\ Owns(t) /\ OwnerOK(t)
      /\ slots \in [Signals -> [Slots -> Waker \cup {Empty}]]
  BY SomeTypes DEF TypeInv, Located, Unlink, Owns, OwnersInv
<1>1. /\ slots' = SlotsWithout(h) /\ handle' = [handle EXCEPT ![h] = AfterDrop(h)]
      /\ thread' = [thread EXCEPT ![t] = IdleThread]
      /\ UNCHANGED <<canceled, parents, toDrop, toWake, woken>> /\ thread[t].pc = "unlink"
  BY DEF Unlink, frameVars
<1>2. handle[h].state = "local"
  BY <1>0 DEF OwnerOK
<1>3. \A u \in Threads \ {t} : thread'[u] = thread[u]
  BY <1>0, <1>1
<1>4. CallsKept
  BY <1>1, <1>3, CallsGoOn
<1>5. FutureInv' /\ handle'[h].state \in {"late", "dropped"}
  BY <1>0, <1>1, <1>2, <1>4, DropFutureInv DEF Live
<1>6. \A k \in Handles : k = h \/ handle'[k] = handle[k]
  BY <1>0, <1>1
<1>7. OwnersInv'
  <2>1. ~Owns(t)'
    BY <1>0, <1>1 DEF Owns, IdleThread
  <2>2. \A u \in Threads \ {t} : Owns(u)' => Owns(u) /\ thread'[u] = thread[u]
    BY <1>3 DEF Owns
  <2> HIDE DEF h
  <2>3. handle[h].state # "local" \/ (Owns(t) /\ thread[t].own = h)
    BY <1>0 DEF h
  <2> QED
    BY <1>6, <2>1, <2>2, <2>3, OwnersKept
<1>8. LinksInv'
  BY <1>1, <1>2, <1>5, <1>6, LinksKept
<1>9. TablesInv'
  <2>1. \A r \in Signals : canceled[r] => slots'[r] = slots[r]
    BY <1>0, <1>1 DEF SlotsWithout
  <2> QED
    BY <1>1, <2>1, TablesKept
<1> QED
  BY <1>5, <1>7, <1>8, <1>9 DEF SlotInv

(* A new handle, or the early return on a canceled parent. *)
LEMMA CallAddParentInv ==
  ASSUME SlotInv, TypeInv', NEW t \in Threads, NEW c \in Signals, NEW p \in Signals,
         CallAddParent(t, c, p)
  PROVE  SlotInv'
<1>0. /\ OwnersInv /\ TypeInv /\ FutureInv /\ handle \in [Handles -> Handle]
      /\ thread \in [Threads -> Thread]
  BY SomeTypes
<1>1. /\ UNCHANGED <<canceled, slots, parents, toDrop, toWake, woken>>
      /\ thread[t].pc = "idle"
  BY DEF CallAddParent, signalVars, frameVars
<1>2. CASE quick[p]
  <2>1. /\ handle' = handle
        /\ thread' = [thread EXCEPT ![t] = [IdleThread EXCEPT !.pc = "inherit", !.target = c, !.via = p]]
    BY <1>2 DEF CallAddParent
  <2>2. (\A u \in Threads \ {t} : thread'[u] = thread[u]) /\ ~Owns(t)'
    BY <1>0, <2>1 DEF Owns, IdleThread
  <2> QED
    BY <1>1, <2>1, <2>2, ThreadStep
<1>3. CASE ~quick[p]
  <2>1. PICK h \in Handles :
          /\ handle[h].state = "unused"
          /\ handle' = [handle EXCEPT ![h] =
               [state |-> "local", sig |-> p, index |-> 0, child |-> c, gen |-> 0]]
          /\ thread' = [thread EXCEPT ![t] =
               [IdleThread EXCEPT !.pc = "register", !.target = c, !.via = p, !.own = h]]
    BY <1>3 DEF CallAddParent
  <2>2. /\ thread'[t].pc = "register" /\ thread'[t].target = c
        /\ thread'[t].via = p /\ thread'[t].own = h
        /\ \A u \in Threads \ {t} : thread'[u] = thread[u]
    BY <1>0, <2>1 DEF IdleThread
  <2> DEFINE f == [state |-> "local", sig |-> p, index |-> 0, child |-> c, gen |-> 0]
  <2>3. /\ f.state = "local" /\ f.sig = p /\ f.index = 0 /\ f.child = c
        /\ handle' = [handle EXCEPT ![h] = f]
    BY <2>1
  <2> HIDE DEF f
  <2>4. handle'[h] = f /\ \A k \in Handles : k = h \/ handle'[k] = handle[k]
    BY <1>0, <2>3
  <2>5. CallsKept
    BY <1>1, <2>2, CallsGoOn
  <2>6. handle[h].index = 0
    BY <1>0, <2>1 DEF FutureInv, FutureOK, FieldsOK
  <2>7. FutureInv'
    BY <1>1, <2>1, <2>3, <2>5, <2>6, NewHandleInv
  <2>8. OwnersInv'
    <3>1. OwnerOK(t)'
      BY <2>2, <2>3, <2>4 DEF OwnerOK
    <3>2. \A u \in Threads \ {t} : Owns(u)' => Owns(u) /\ thread'[u] = thread[u]
      BY <2>2 DEF Owns
    <3>3. \A u \in Threads \ {t} : Owns(u) => thread[u].own # thread'[t].own
      BY <1>0, <2>1, <2>2 DEF OwnersInv, OwnerOK
    <3> HIDE DEF OwnerOK, Owns
    <3> QED
      BY <2>1, <2>4, <3>1, <3>2, <3>3, OwnersKept
  <2>9. LinksInv'
    BY <1>1, <2>1, <2>3, <2>4, LinksKept
  <2>10. TablesInv'
    BY <1>1, TablesKept
  <2> QED
    BY <2>7, <2>8, <2>9, <2>10 DEF SlotInv
<1> QED
  BY <1>2, <1>3

(* set_waker_from_closure on the parent. *)
LEMMA RegisterInv ==
  ASSUME SlotInv, TypeInv', NEW t \in Threads, Register(t)
  PROVE  SlotInv'
<1> DEFINE h == thread[t].own
           p == thread[t].via
<1>0. /\ OwnersInv /\ TypeInv /\ h \in Handles /\ p \in Signals
      /\ handle \in [Handles -> Handle] /\ handle[h] \in Handle
      /\ thread \in [Threads -> Thread] /\ thread[t] \in Thread
      /\ slots \in [Signals -> [Slots -> Waker \cup {Empty}]]
      /\ Owns(t) /\ OwnerOK(t) /\ thread[t].target \in Signals
  BY SomeTypes DEF TypeInv, Located, Register, Owns, OwnersInv
<1>1. /\ UNCHANGED <<canceled, parents, toDrop, toWake, woken>> /\ thread[t].pc = "register"
  BY DEF Register, frameVars
<1>2. /\ handle[h].state = "local" /\ handle[h].sig = p /\ handle[h].index = 0
      /\ handle[h].child = thread[t].target
  BY <1>0, <1>1 DEF OwnerOK
<1>3. CASE canceled[p]
  <2>1. /\ handle' = [handle EXCEPT ![h] = DroppedHandle] /\ slots' = slots
        /\ thread' = [thread EXCEPT ![t] = [@ EXCEPT !.pc = "inherit", !.own = None]]
    BY <1>3 DEF Register
  <2>2. (\A u \in Threads \ {t} : thread'[u] = thread[u]) /\ ~Owns(t)'
    BY <1>0, <2>1 DEF Owns, Thread
  <2>3. CallsKept
    BY <1>1, <2>2, CallsGoOn
  <2>4. DroppedHandle.state = "dropped" /\ DroppedHandle.index = 0
    BY DEF DroppedHandle, UnusedHandle
  <2>5. handle'[h] = DroppedHandle /\ \A k \in Handles : k = h \/ handle'[k] = handle[k]
    BY <1>0, <2>1
  <2> HIDE DEF h
  <2>6. FutureInv'
    BY <1>0, <1>1, <1>2, <2>1, <2>3, <2>4, NewHandleInv
  <2>7. OwnersInv'
    <3>1. \A u \in Threads \ {t} : Owns(u)' => Owns(u) /\ thread'[u] = thread[u]
      BY <2>2 DEF Owns
    <3>2. thread[t].own = h
      BY DEF h
    <3> QED
      BY <1>0, <2>2, <2>5, <3>1, <3>2, OwnersKept
  <2>8. LinksInv'
    BY <1>1, <1>2, <2>4, <2>5, LinksKept
  <2>9. TablesInv'
    BY <1>1, <2>1, TablesKept
  <2> QED
    BY <2>6, <2>7, <2>8, <2>9 DEF SlotInv
<1>4. CASE ~canceled[p]
  <2>1. PICK i \in Slots :
          /\ IsSlotFor(h, p, i)
          /\ slots' = [slots EXCEPT ![p][i] = WakerOf(h)]
          /\ handle' = [handle EXCEPT ![h].index = i]
          /\ thread' = [thread EXCEPT ![t].pc = "store"]
    BY <1>4 DEF Register
  <2> DEFINE f == [handle[h] EXCEPT !.index = i]
  <2>2. /\ f \in Handle /\ f.state = "local" /\ f.sig = p /\ f.index = i
        /\ f.child = thread[t].target /\ f.gen = handle[h].gen
    <3>1. i \in 0..MaxSlots
      BY ConstantsAssumption DEF Slots
    <3> QED
      BY <1>0, <1>2, <3>1 DEF Handle
  <2>3. handle' = [handle EXCEPT ![h] = f]
    BY <1>0, <2>1
  <2>4. slots' = [slots EXCEPT ![p][i] = [owner |-> h, gen |-> f.gen]]
    BY <2>1, <2>2 DEF WakerOf
  <2>5. /\ thread'[t].pc = "store" /\ thread'[t].own = h /\ thread'[t].via = p
        /\ thread'[t].target = thread[t].target
        /\ \A u \in Threads \ {t} : thread'[u] = thread[u]
    BY <1>0, <2>1 DEF Thread
  <2> HIDE DEF f
  <2>6. handle'[h] = f /\ \A k \in Handles : k = h \/ handle'[k] = handle[k]
    BY <1>0, <2>3
  <2>7. CallsKept
    BY <1>1, <2>5, CallsGoOn
  <2>8. FutureInv'
    <3> HIDE DEF h, p
    <3> QED
      BY <1>0, <1>1, <1>2, <1>4, <2>1, <2>2, <2>3, <2>4, <2>7, StoreWakerInv
  <2>9. OwnersInv'
    <3>1. OwnerOK(t)'
      <4>1. i # 0
        BY DEF Slots
      <4> QED
        BY <2>2, <2>5, <2>6, <4>1 DEF OwnerOK
    <3>2. \A u \in Threads \ {t} : Owns(u)' => Owns(u) /\ thread'[u] = thread[u]
      BY <2>5 DEF Owns
    <3>3. \A u \in Threads \ {t} : Owns(u) => thread[u].own # thread'[t].own
      BY <1>0, <2>5 DEF OwnersInv
    <3>4. thread[t].own = h
      OBVIOUS
    <3> HIDE DEF OwnerOK, Owns, h
    <3> QED
      BY <1>0, <2>6, <3>1, <3>2, <3>3, <3>4, OwnersKept
  <2>10. LinksInv'
    <3> HIDE DEF h
    <3> QED
      BY <1>1, <1>2, <2>2, <2>6, LinksKept
  <2>11. TablesInv'
    <3>1. \A r \in Signals : canceled[r] => slots'[r] = slots[r]
      BY <1>0, <1>4, <2>1
    <3> QED
      BY <1>1, <3>1, TablesKept
  <2> QED
    BY <2>8, <2>9, <2>10, <2>11 DEF SlotInv
<1> QED
  BY <1>3, <1>4

(* The child keeps the handle, or the call drops it next. *)
LEMMA StoreInv ==
  ASSUME SlotInv, TypeInv', NEW t \in Threads, Store(t)
  PROVE  SlotInv'
<1> DEFINE h == thread[t].own
           c == thread[t].target
<1>0. /\ OwnersInv /\ LinksInv /\ TypeInv /\ FutureInv /\ TablesInv /\ h \in Handles /\ c \in Signals
      /\ handle \in [Handles -> Handle] /\ handle[h] \in Handle
      /\ thread \in [Threads -> Thread] /\ thread[t] \in Thread
      /\ parents \in [Signals -> SUBSET Handles] /\ toDrop \in [Signals -> SUBSET Handles]
      /\ Owns(t) /\ OwnerOK(t)
  BY SomeTypes DEF TypeInv, Located, Store, Owns, OwnersInv
<1>1. UNCHANGED <<canceled, slots, toDrop, toWake, woken>> /\ thread[t].pc = "store"
  BY DEF Store, frameVars
<1>2. handle[h].state = "local" /\ handle[h].child = c /\ handle[h].index # 0
  BY <1>0, <1>1 DEF OwnerOK
<1>3. CASE canceled[c] \/ AlreadyAdded(c, thread[t].via)
  <2>1. thread' = [thread EXCEPT ![t].pc = "unlink"] /\ UNCHANGED <<parents, handle>>
    BY <1>3 DEF Store
  <2>2. /\ \A u \in Threads \ {t} : thread'[u] = thread[u]
        /\ thread'[t].pc = "unlink" /\ thread'[t].own = thread[t].own
        /\ thread'[t].via = thread[t].via /\ thread'[t].target = thread[t].target
    BY <1>0, <2>1 DEF Thread
  <2> QED
    BY <1>1, <2>1, <2>2, ThreadStep
<1>4. CASE ~(canceled[c] \/ AlreadyAdded(c, thread[t].via))
  <2>1. /\ parents' = [parents EXCEPT ![c] = @ \cup {h}]
        /\ handle' = [handle EXCEPT ![h].state = "linked"]
        /\ thread' = [thread EXCEPT ![t] = IdleThread]
    BY <1>4 DEF Store
  <2> DEFINE f == [handle[h] EXCEPT !.state = "linked"]
  <2>2. /\ f \in Handle /\ f.state = "linked" /\ f.index = handle[h].index
        /\ f.sig = handle[h].sig /\ f.child = handle[h].child /\ f.gen = handle[h].gen
    BY <1>0 DEF Handle, HandleState
  <2>3. handle' = [handle EXCEPT ![h] = f]
    BY <1>0, <2>1
  <2> HIDE DEF f
  <2>4. handle'[h] = f /\ \A k \in Handles : k = h \/ handle'[k] = handle[k]
    BY <1>0, <2>3
  <2>5. (\A u \in Threads \ {t} : thread'[u] = thread[u]) /\ ~Owns(t)'
    BY <1>0, <2>1 DEF Owns, IdleThread
  <2>6. CallsKept
    BY <1>1, <2>5, CallsGoOn
  <2>7. FutureInv'
    <3> HIDE DEF h
    <3> QED
      BY <1>0, <1>1, <1>2, <2>2, <2>3, <2>6, NewOwnerInv
  <2>8. OwnersInv'
    <3>1. \A u \in Threads \ {t} : Owns(u)' => Owns(u) /\ thread'[u] = thread[u]
      BY <2>5 DEF Owns
    <3>2. thread[t].own = h
      OBVIOUS
    <3> HIDE DEF h
    <3> QED
      BY <1>0, <2>4, <2>5, <3>1, <3>2, OwnersKept
  <2>9. LinksInv'
    <3>1. \A s \in Signals : /\ parents[s] \subseteq parents'[s]
                             /\ parents'[s] \subseteq parents[s] \cup {h}
                             /\ h \in parents'[s] \ parents[s] => s = c
      BY <1>0, <2>1
    <3>2. h \in parents'[c] /\ \A s \in Signals : h \notin parents[s] \cup toDrop[s]
      BY <1>0, <1>2, <2>1 DEF LinksInv
    <3>3. ASSUME NEW s \in Signals, NEW k \in parents'[s] \cup toDrop'[s]
          PROVE  handle'[k].state = "linked" /\ handle'[k].child = s
      <4>1. CASE k = h
        <5>1. s = c
          BY <1>1, <3>1, <3>2, <3>3, <4>1
        <5> QED
          BY <1>2, <2>2, <2>4, <4>1, <5>1
      <4>2. CASE k # h
        <5>1. k \in parents[s] \cup toDrop[s] /\ k \in Handles
          BY <1>0, <1>1, <3>1, <3>3, <4>2
        <5> QED
          BY <1>0, <2>4, <4>2, <5>1 DEF LinksInv
      <4> QED
        BY <4>1, <4>2
    <3>4. ASSUME NEW k \in Handles, handle'[k].state = "linked"
          PROVE  k \in parents'[handle'[k].child] \cup toDrop'[handle'[k].child]
      <4>1. CASE k = h
        BY <1>2, <2>2, <2>4, <3>2, <4>1
      <4>2. CASE k # h
        <5>1. handle'[k] = handle[k]
          BY <2>4, <4>2
        <5>2. k \in parents[handle[k].child] \cup toDrop[handle[k].child]
          BY <1>0, <3>4, <5>1 DEF LinksInv
        <5>3. handle[k].child \in Signals
          BY <1>0, <3>4, <5>1 DEF FutureInv, FutureOK, FieldsOK
        <5> QED
          BY <1>1, <3>1, <5>1, <5>2, <5>3
      <4> QED
        BY <4>1, <4>2
    <3> QED
      BY <3>3, <3>4 DEF LinksInv
  <2>10. TablesInv'
    <3>1. \A s \in Signals \ {c} : parents'[s] = parents[s]
      BY <1>0, <2>1
    <3> QED
      BY <1>0, <1>1, <1>4, <3>1 DEF TablesInv, AllEmpty
  <2> QED
    BY <2>7, <2>8, <2>9, <2>10 DEF SlotInv
<1> QED
  BY <1>3, <1>4

(* The futures of other code. *)
LEMMA FutureSlotInv ==
  ASSUME SlotInv, TypeInv', NEW h \in Handles, Future(h)
  PROVE  SlotInv'
<1>0. /\ TypeInv /\ FutureInv /\ handle \in [Handles -> Handle] /\ handle[h] \in Handle
      /\ slots \in [Signals -> [Slots -> Waker \cup {Empty}]]
      /\ canceled \in [Signals -> BOOLEAN]
  BY SomeTypes
<1>1. /\ UNCHANGED <<canceled, parents, toDrop, toWake, thread, woken>>
      /\ handle[h].state \in {"unused", "user"}
  BY DEF Future, SetWaker, DropFuture, Forget, signalVars, frameVars
<1>2. CallsKept
  BY <1>1, CallsGoOn
<1>3. \A k \in Handles : k = h \/ handle'[k] = handle[k]
  BY <1>0 DEF Future, SetWaker, DropFuture, Forget
<1>4. OwnersInv'
  BY <1>1, <1>3, OwnersOfOthers
<1>5. ASSUME NEW s \in Signals, SetWaker(h, s)
      PROVE  SlotInv'
  <2> DEFINE g == IF handle[h].state = "unused" THEN 0 ELSE handle[h].gen + 1
  <2>1. PICK i \in Slots :
          /\ IsSlotFor(h, s, i)
          /\ slots' = [slots EXCEPT ![s][i] = [owner |-> h, gen |-> g]]
          /\ handle' = [handle EXCEPT ![h] =
               [state |-> "user", sig |-> s, index |-> i, child |-> None, gen |-> g]]
    BY <1>5 DEF SetWaker
  <2>2. ~canceled[s] /\ (handle[h].state = "unused" \/ handle[h].sig = s)
    BY <1>5 DEF SetWaker
  <2>3. g \in 0..MaxGen
    BY <1>0, <1>5, ConstantsAssumption DEF SetWaker, Handle
  <2> DEFINE f == [state |-> "user", sig |-> s, index |-> i, child |-> None, gen |-> g]
  <2>4. /\ f \in Handle /\ f.state = "user" /\ f.child = None /\ f.sig = s
        /\ f.index = i /\ f.gen = g
    <3>1. i \in 0..MaxSlots
      BY ConstantsAssumption DEF Slots
    <3> HIDE DEF g
    <3> QED
      BY <2>3, <3>1 DEF Handle, HandleState
  <2>5. handle' = [handle EXCEPT ![h] = f] /\ slots' = [slots EXCEPT ![s][i] = [owner |-> h, gen |-> f.gen]]
    BY <2>1, <2>4
  <2> HIDE DEF f, g
  <2>6. FutureInv'
    BY <1>1, <1>2, <2>1, <2>2, <2>4, <2>5, StoreWakerInv
  <2>7. LinksInv'
    <3>1. handle'[h] = f
      BY <1>0, <2>5
    <3> QED
      BY <1>1, <1>3, <2>4, <3>1, LinksKept
  <2>8. TablesInv'
    <3>1. \A r \in Signals : canceled[r] => slots'[r] = slots[r]
      BY <1>0, <2>1, <2>2
    <3> QED
      BY <1>1, <3>1, TablesKept
  <2> QED
    BY <1>4, <2>6, <2>7, <2>8 DEF SlotInv
<1>6. CASE DropFuture(h)
  <2>1. /\ slots' = SlotsWithout(h) /\ handle' = [handle EXCEPT ![h] = AfterDrop(h)]
        /\ handle[h].state = "user"
    BY <1>6 DEF DropFuture
  <2>2. FutureInv' /\ handle'[h].state \in {"late", "dropped"}
    BY <1>1, <1>2, <2>1, DropFutureInv DEF Live
  <2>3. LinksInv'
    BY <1>1, <1>3, <2>2, LinksKept
  <2>4. TablesInv'
    <3>1. \A r \in Signals : canceled[r] => slots'[r] = slots[r]
      BY <1>0, <2>1 DEF SlotsWithout
    <3> QED
      BY <1>1, <3>1, TablesKept
  <2> QED
    BY <1>4, <2>2, <2>3, <2>4 DEF SlotInv
<1>7. CASE Forget(h)
  <2> DEFINE f == [handle[h] EXCEPT !.state = "forgotten", !.index = 0]
  <2>1. handle' = [handle EXCEPT ![h] = f] /\ slots' = slots /\ handle[h].state = "user"
    BY <1>0, <1>7 DEF Forget, signalVars
  <2>2. /\ f \in Handle /\ f.state = "forgotten" /\ f.index = 0 /\ f.sig = handle[h].sig
        /\ f.child = handle[h].child /\ f.gen = handle[h].gen
    <3>1. 0 \in 0..MaxSlots
      BY ConstantsAssumption
    <3> QED
      BY <1>0, <3>1 DEF Handle, HandleState
  <2> HIDE DEF f
  <2>3. FutureInv'
    BY <1>1, <1>2, <2>1, <2>2, NewOwnerInv
  <2>4. LinksInv'
    <3>1. handle'[h] = f
      BY <1>0, <2>1
    <3> QED
      BY <1>1, <1>3, <2>2, <3>1, LinksKept
  <2>5. TablesInv'
    BY <1>1, <2>1, TablesKept
  <2> QED
    BY <1>4, <2>3, <2>4, <2>5 DEF SlotInv
<1> QED
  BY <1>5, <1>6, <1>7 DEF Future

-------------------------------------------------------------------------------
LEMMA InitSlotInv == Init => SlotInv
<1> SUFFICES ASSUME Init PROVE SlotInv
  OBVIOUS
<1>1. \A h \in Handles : handle[h].state = "unused" /\ handle[h].index = 0
  BY DEF Init, UnusedHandle
<1>2. \A s \in Signals, i \in Slots : slots[s][i] = Empty /\ toWake[s][i] = Empty
  BY DEF Init, AllEmpty
<1>3. FutureInv
  <2>1. woken = {}
    BY DEF Init
  <2> QED
    BY <1>1, <1>2, <2>1 DEF FutureInv, FutureOK, FieldsOK, SlotOwned, NoOrphan, TakenOK,
       SlotKept, UserWoken, ChildFollows, Registered, WokenOK, Live
<1>4. OwnersInv /\ LinksInv /\ TablesInv
  <2>1. OwnersInv
    BY DEF Init, OwnersInv, Owns, IdleThread
  <2>2. LinksInv
    BY <1>1 DEF Init, LinksInv
  <2>3. TablesInv
    BY DEF Init, TablesInv
  <2> QED
    BY <2>1, <2>2, <2>3
<1> QED
  BY <1>3, <1>4, InitTypeInv DEF SlotInv

LEMMA NextSlotInv == SlotInv /\ [Next]_vars => SlotInv'
<1> SUFFICES ASSUME SlotInv, [Next]_vars PROVE SlotInv'
  OBVIOUS
<1>1. TypeInv'
  BY NextTypeInv DEF SlotInv
<1>2. ASSUME NEW t \in Threads, Step(t)
      PROVE  SlotInv'
  BY <1>1, <1>2, QuietSteps, EnterCancelInv, WakeNextInv, DropParentInv, UnlinkInv,
     RegisterInv, StoreInv DEF Step
<1>3. ASSUME NEW t \in Threads, Call(t) \/ WaitTimeout(t)
      PROVE  SlotInv'
  BY <1>1, <1>3, QuietSteps, CallAddParentInv DEF Call
<1>4. ASSUME NEW h \in Handles, Future(h)
      PROVE  SlotInv'
  BY <1>1, <1>4, FutureSlotInv
<1>5. CASE UNCHANGED vars
  <2>1. UNCHANGED <<canceled, slots, parents, toDrop, toWake, handle, thread, woken>>
    BY <1>5 DEF vars, signalVars, frameVars
  <2>2. CallsKept
    BY <2>1, CallsGoOn
  <2>3. FutureInv'
    BY <2>1, <2>2, SameFutures
  <2> QED
    BY <1>1, <2>1, <2>3 DEF SlotInv, OwnersInv, OwnerOK, Owns, LinksInv, TablesInv, AllEmpty
<1> QED
  BY <1>2, <1>3, <1>4, <1>5 DEF Next

LEMMA SlotInvariance == Spec => []SlotInv
BY InitSlotInv, NextSlotInv, PTL DEF Spec

-------------------------------------------------------------------------------
(* A future that remembers a slot is the one whose waker is there, and an  *)
(* occupied slot is remembered or was forgotten on purpose: set_waker and  *)
(* drop never touch the waker of another future.                           *)
THEOREM SlotsCorrect == Spec => []SlotsOwned
<1>1. SlotInv => SlotsOwned
  <2> SUFFICES ASSUME SlotInv PROVE SlotsOwned
    OBVIOUS
  <2>0. TypeInv /\ \A h \in Handles : FutureOK(h)
    BY SomeTypes DEF FutureInv
  <2>1. SlotOwnership
    BY <2>0 DEF SlotOwnership, FutureOK, SlotOwned
  <2>2. NoOrphanSlot
    <3> SUFFICES ASSUME NEW s \in Signals, NEW i \in Slots, slots[s][i] # Empty,
                        NEW h, h = slots[s][i].owner
                 PROVE  /\ handle[h].sig = s
                        /\ slots[s][i] = WakerOf(h)
                        /\ \/ Live(h) /\ handle[h].index = i
                           \/ handle[h].state = "forgotten"
      BY DEF NoOrphanSlot
    <3>1. h \in Handles
      BY <2>0, TableFacts
    <3> QED
      BY <2>0, <3>1 DEF FutureOK, NoOrphan
  <2> QED
    BY <2>1, <2>2 DEF SlotsOwned
<1> QED
  BY <1>1, SlotInvariance, PTL

(* The table of a parent keeps no handle of a canceled child, except those *)
(* that the child's cancel call is about to drop.                          *)
THEOREM LinksCorrect == Spec => []NoLeakedLink
<1>1. SlotInv => NoLeakedLink
  <2> SUFFICES ASSUME SlotInv, NEW s \in Signals, NEW i \in Slots, slots[s][i] # Empty,
                      NEW h, h = slots[s][i].owner,
                      handle[h].state = "linked", canceled[handle[h].child]
               PROVE  h \in toDrop[handle[h].child]
    BY DEF NoLeakedLink
  <2>1. h \in Handles
    BY SomeTypes, TableFacts
  <2>2. handle[h].child \in Signals
    BY <2>1, SomeTypes DEF FutureInv, FutureOK, FieldsOK
  <2>3. h \in parents[handle[h].child] \cup toDrop[handle[h].child]
    BY <2>1, SomeTypes DEF LinksInv
  <2> QED
    BY <2>2, <2>3, SomeTypes DEF TablesInv
<1> QED
  BY <1>1, SlotInvariance, PTL

(* Whatever the order of set_waker, drop, add_parent_signal and cancel, a  *)
(* waker that was accepted is woken, or the running call will wake it.     *)
THEOREM WakeupsCorrect == Spec => []NoLostWakeup
<1>1. SlotInv => NoLostWakeup
  <2> SUFFICES ASSUME SlotInv, NEW h \in Handles
               PROVE  /\ handle[h].state \in {"user", "forgotten"} /\ canceled[handle[h].sig]
                           => WakerOf(h) \in woken \/ WillWake(h)
                      /\ handle[h].state = "linked" /\ canceled[handle[h].sig]
                           /\ ~canceled[handle[h].child]
                           => WillWake(h) \/ CancelingFor(handle[h].child, handle[h].sig)
    BY DEF NoLostWakeup
  <2>1. FutureOK(h)
    BY SomeTypes DEF FutureInv
  <2>2. handle[h].state = "linked" => Registered(h)
    BY <2>1 DEF FutureOK, FieldsOK, Registered
  <2> QED
    BY <2>1, <2>2 DEF FutureOK, UserWoken, ChildFollows
<1> QED
  BY <1>1, SlotInvariance, PTL

(* Only the last waker of a future is woken, only after the signal was     *)
(* canceled, and never that of a future dropped before.                    *)
THEOREM WokenCorrect == Spec => []WokenWakers
<1>1. SlotInv => WokenWakers
  <2> SUFFICES ASSUME SlotInv, NEW w \in woken, NEW h, h = w.owner
               PROVE  /\ handle[h].state \in {"user", "forgotten", "late"}
                      /\ w = WakerOf(h)
                      /\ canceled[handle[h].sig]
    BY DEF WokenWakers
  <2>1. h \in Handles
    BY SomeTypes DEF TypeInv, TypeOK, Waker
  <2> QED
    BY <2>1, SomeTypes DEF FutureInv, FutureOK, WokenOK
<1> QED
  BY <1>1, SlotInvariance, PTL

-------------------------------------------------------------------------------
(* That CancelSignal implements CancelTree.                                *)

(* A call on a child carries the reason of the canceled parent that it is  *)
(* made for, and a handle is only given up for another with its parent.    *)
CallOK(t) ==
  LET s == thread[t].target
      p == thread[t].via IN
  /\ thread[t].pc = "inherit" => canceled[p]
  /\ thread[t].pc = "publish" => canceled[thread[t].top]
  /\ thread[t].pc = "cancel" =>
       \/ p = None /\ thread[t].why \in Reasons[s]
       \/ p \in Signals /\ canceled[p] /\ thread[t].why = reason[p]
  /\ thread[t].pc = "unlink" /\ ~canceled[s] => AlreadyAdded(s, p)

CallsInv ==
  /\ \A t \in Threads : CallOK(t)
  /\ \A s \in Signals : quick[s] => canceled[s]

TreeInv == SlotInv /\ CallsInv

(* What Linked means for a child that is not canceled: a handle with a     *)
(* slot, or a call that is on its way to the child.                        *)
HandleFor(h, c, p) == Registered(h) /\ handle[h].child = c /\ handle[h].sig = p

CallFor(t, c, p) ==
  thread[t].pc \in {"inherit", "cancel"} /\ thread[t].target = c /\ thread[t].via = p

LinkedBy(c, p) ==
  \/ \E h \in Handles : HandleFor(h, c, p)
  \/ \E t \in Threads : CallFor(t, c, p)

LinksMeaning ==
  \A c \in Signals, p \in Signals : ~canceled[c] => (Linked(c, p) <=> LinkedBy(c, p))

CanceledSet == {s \in Signals : canceled[s]}
Links == {l \in Signals \X Signals : ~canceled[l[1]] /\ Linked(l[1], l[2])}

-------------------------------------------------------------------------------
LEMMA SlotsGiveMeaning == SlotInv => LinksMeaning
<1> SUFFICES ASSUME SlotInv, NEW c \in Signals, NEW p \in Signals, ~canceled[c]
             PROVE  Linked(c, p) <=> LinkedBy(c, p)
  BY DEF LinksMeaning
<1>0. TypeInv /\ \A h \in Handles : FutureOK(h)
  BY SomeTypes DEF FutureInv
<1>1. ASSUME NEW h \in Handles, handle[h].state \in {"local", "linked"},
             handle[h].child = c, handle[h].sig = p,
             NEW i \in Slots, WakerOf(h) \in {slots[p][i], toWake[p][i]}
      PROVE  HandleFor(h, c, p)
  <2>1. WakerOf(h) # Empty /\ WakerOf(h).owner = h
    BY <1>0, WakerFacts
  <2>2. CASE handle[h].state = "linked"
    BY <1>0, <1>1, <2>2 DEF FutureOK, FieldsOK, HandleFor, Registered
  <2>3. CASE handle[h].state = "local" /\ WakerOf(h) = slots[p][i]
    BY <1>0, <1>1, <2>1, <2>3 DEF FutureOK, NoOrphan, HandleFor, Registered, Slots
  <2>4. CASE handle[h].state = "local" /\ WakerOf(h) = toWake[p][i]
    BY <1>0, <1>1, <2>1, <2>4 DEF FutureOK, TakenOK, HandleFor, Registered
  <2> QED
    BY <1>1, <2>2, <2>3, <2>4
<1>2. ASSUME NEW h \in Handles, HandleFor(h, c, p)
      PROVE  Linked(c, p)
  <2>1. /\ handle[h].state \in {"local", "linked"} /\ handle[h].child = c /\ handle[h].sig = p
        /\ Registered(h) /\ Live(h) /\ handle[h].index \in Slots
    BY <1>0, <1>2, HandleFacts DEF HandleFor, Registered, Live
  <2>2. CASE ~canceled[p]
    <3>1. slots[p][handle[h].index] = WakerOf(h)
      BY <1>0, <2>1, <2>2 DEF FutureOK, SlotOwned, Registered
    <3> QED
      BY <2>1, <3>1 DEF Linked
  <2>3. CASE canceled[p]
    <3>1. WillWake(h) \/ CancelingFor(c, p)
      BY <1>0, <2>1, <2>3 DEF FutureOK, ChildFollows
    <3>2. CASE WillWake(h)
      BY <2>1, <3>2 DEF WillWake, Linked
    <3>3. CASE CancelingFor(c, p)
      BY <3>3 DEF CancelingFor, Linked
    <3> QED
      BY <3>1, <3>2, <3>3
  <2> QED
    BY <2>2, <2>3
<1>3. (\E t \in Threads : CallFor(t, c, p)) => Linked(c, p)
  BY DEF CallFor, Linked
<1>4. Linked(c, p) => LinkedBy(c, p)
  BY <1>1 DEF Linked, LinkedBy, CallFor
<1> QED
  BY <1>2, <1>3, <1>4 DEF LinkedBy

LEMMA MeaningGoesOn == SlotInv' => LinksMeaning'
BY SlotsGiveMeaning, PTL

(* A step that adds at most the link of c to p. *)
LEMMA LinkStep ==
  ASSUME SlotInv, SlotInv', NEW c \in Signals, NEW p \in Signals,
         UNCHANGED <<canceled, reason>>,
         \A d \in Signals, q \in Signals :
           ~canceled[d] => (LinkedBy(d, q)' <=> (LinkedBy(d, q) \/ (d = c /\ q = p)))
  PROVE  [Tree!Next]_(Tree!vars)
<1>1. \A d \in Signals, q \in Signals :
        ~canceled[d] => (Linked(d, q)' <=> (Linked(d, q) \/ (d = c /\ q = p)))
  BY SlotsGiveMeaning, MeaningGoesOn DEF LinksMeaning
<1>2. CanceledSet' = CanceledSet /\ reason' = reason
  BY DEF CanceledSet
<1>3. CASE canceled[c]
  <2>1. Links' = Links
    BY <1>1, <1>3 DEF Links
  <2> QED
    BY <1>2, <2>1 DEF Tree!vars, CanceledSet, Links
<1>4. CASE ~canceled[c]
  <2>1. Links' = Links \cup {<<c, p>>}
    BY <1>1, <1>4 DEF Links
  <2>2. c \notin CanceledSet
    BY <1>4 DEF CanceledSet
  <2>3. Tree!Link(c, p)
    BY <1>2, <2>1, <2>2 DEF Tree!Link, CanceledSet, Links
  <2> QED
    BY <2>3 DEF Tree!Next
<1> QED
  BY <1>3, <1>4

LEMMA NoLinkStep ==
  ASSUME SlotInv, SlotInv', UNCHANGED <<canceled, reason>>,
         \A d \in Signals, q \in Signals : ~canceled[d] => (LinkedBy(d, q)' <=> LinkedBy(d, q))
  PROVE  [Tree!Next]_(Tree!vars)
<1>1. \A d \in Signals, q \in Signals : ~canceled[d] => (Linked(d, q)' <=> Linked(d, q))
  BY SlotsGiveMeaning, MeaningGoesOn DEF LinksMeaning
<1>2. CanceledSet' = CanceledSet /\ reason' = reason /\ Links' = Links
  BY <1>1 DEF CanceledSet, Links
<1> QED
  BY <1>2 DEF Tree!vars, CanceledSet, Links

-------------------------------------------------------------------------------
(* Nobody takes a handle out of a child that is not canceled. *)
LEMMA AddedKept ==
  ASSUME SlotInv,
         \A c \in Signals : ~canceled'[c] => parents[c] \subseteq parents'[c],
         \A k \in Handles :
           handle[k].state = "linked" =>
             handle'[k].sig = handle[k].sig \/ canceled'[handle[k].child],
         NEW c \in Signals, NEW p \in Signals, ~canceled'[c], AlreadyAdded(c, p)
  PROVE  AlreadyAdded(c, p)'
<1>1. PICK k \in parents[c] : handle[k].sig = p
  BY DEF AlreadyAdded
<1>2. k \in Handles /\ handle[k].state = "linked" /\ handle[k].child = c
  BY SomeTypes DEF LinksInv
<1>3. handle'[k].sig = p /\ k \in parents'[c]
  BY <1>1, <1>2
<1> QED
  BY <1>3 DEF AlreadyAdded

LEMMA CallsStayOK ==
  ASSUME TreeInv, TypeInv',
         \A u \in Threads :
           \/ thread'[u] = thread[u]
           \/ thread'[u].pc \in {"idle", "register", "store", "notify", "run", "wait", "notified"}
           \/ CallOK(u)',
         \A s \in Signals : canceled[s] => canceled'[s] /\ reason'[s] = reason[s],
         \A s \in Signals : quick'[s] => quick[s] \/ canceled'[s],
         \A c \in Signals : ~canceled'[c] => parents[c] \subseteq parents'[c],
         \A k \in Handles :
           handle[k].state = "linked" =>
             handle'[k].sig = handle[k].sig \/ canceled'[handle[k].child]
  PROVE  CallsInv'
<1>0. TypeInv /\ CallsInv /\ SlotInv
  BY SomeTypes DEF TreeInv
<1>1. ASSUME NEW u \in Threads, thread'[u] = thread[u]
      PROVE  CallOK(u)'
  <2> DEFINE s == thread[u].target
             p == thread[u].via
  <2>1. CallOK(u)
    BY <1>0 DEF CallsInv
  <2>2. thread[u].pc \in {"inherit", "unlink"} => s \in Signals /\ p \in Signals
    BY <1>0 DEF TypeInv, Located
  <2>3. thread[u].pc = "publish" => thread[u].top \in Signals
    BY <1>0 DEF TypeInv, Located
  <2>4. thread[u].pc = "unlink" /\ ~canceled'[s] => AlreadyAdded(s, p)'
    <3> SUFFICES ASSUME NEW c, NEW q, c = s, q = p, thread[u].pc = "unlink", ~canceled'[c]
                 PROVE  AlreadyAdded(c, q)'
      BY <1>1 DEF AlreadyAdded
    <3>1. c \in Signals /\ q \in Signals /\ ~canceled[c]
      BY <2>2
    <3>2. AlreadyAdded(c, q)
      BY <2>1, <3>1 DEF CallOK
    <3> QED
      BY <1>0, <3>1, <3>2, AddedKept
  <2>5. /\ thread[u].pc = "inherit" => canceled'[p]
        /\ thread[u].pc = "publish" => canceled'[thread[u].top]
    BY <2>1, <2>2, <2>3 DEF CallOK
  <2>6. thread[u].pc = "cancel" =>
          \/ p = None /\ thread[u].why \in Reasons[s]
          \/ p \in Signals /\ canceled'[p] /\ thread[u].why = reason'[p]
    BY <2>1 DEF CallOK
  <2> QED
    BY <1>1, <2>4, <2>5, <2>6 DEF CallOK, AlreadyAdded
<1>2. ASSUME NEW u \in Threads,
             thread'[u].pc \in {"idle", "register", "store", "notify", "run", "wait", "notified"}
      PROVE  CallOK(u)'
  BY <1>2 DEF CallOK
<1>3. \A s \in Signals : quick'[s] => canceled'[s]
  BY <1>0 DEF CallsInv
<1> QED
  BY <1>1, <1>2, <1>3 DEF CallsInv

(* The tables, flags and reasons stay. *)
LEMMA CallsStaySame ==
  ASSUME TreeInv, TypeInv', UNCHANGED <<canceled, reason, quick>>,
         \A c \in Signals : ~canceled[c] => parents[c] \subseteq parents'[c],
         \A u \in Threads :
           \/ thread'[u] = thread[u]
           \/ thread'[u].pc \in {"idle", "register", "store", "notify", "run", "wait", "notified"}
           \/ CallOK(u)',
         NEW h, \A k \in Handles : k = h \/ handle'[k] = handle[k],
         handle[h].state # "linked" \/ canceled[handle[h].child]
  PROVE  CallsInv'
<1>1. \A k \in Handles :
        handle[k].state = "linked" =>
          handle'[k].sig = handle[k].sig \/ canceled'[handle[k].child]
  OBVIOUS
<1>2. \A s \in Signals : canceled[s] => canceled'[s] /\ reason'[s] = reason[s]
  OBVIOUS
<1>3. \A s \in Signals : quick'[s] => quick[s] \/ canceled'[s]
  OBVIOUS
<1>4. \A c \in Signals : ~canceled'[c] => parents[c] \subseteq parents'[c]
  OBVIOUS
<1> HIDE DEF CallOK
<1> QED
  BY <1>1, <1>2, <1>3, <1>4, CallsStayOK

-------------------------------------------------------------------------------
LEMMA SameLinks ==
  ASSUME TreeInv, SlotInv', UNCHANGED <<canceled, reason>>,
         \A k \in Handles, c \in Signals, p \in Signals :
           ~canceled[c] => (HandleFor(k, c, p)' <=> HandleFor(k, c, p)),
         \A u \in Threads, c \in Signals, p \in Signals :
           ~canceled[c] => (CallFor(u, c, p)' <=> CallFor(u, c, p))
  PROVE  [Tree!Next]_(Tree!vars)
<1>1. \A d \in Signals, q \in Signals : ~canceled[d] => (LinkedBy(d, q)' <=> LinkedBy(d, q))
  BY DEF LinkedBy
<1> HIDE DEF LinkedBy
<1> QED
  BY <1>1, NoLinkStep DEF TreeInv

LEMMA NewCallLink ==
  ASSUME TreeInv, SlotInv', UNCHANGED <<canceled, reason, handle>>,
         NEW t \in Threads, NEW c \in Signals, NEW p \in Signals,
         \A u \in Threads \ {t} : thread'[u] = thread[u],
         \A d \in Signals, q \in Signals : ~CallFor(t, d, q),
         \A d \in Signals, q \in Signals : CallFor(t, d, q)' <=> (d = c /\ q = p)
  PROVE  [Tree!Next]_(Tree!vars)
<1>1. \A d \in Signals, q \in Signals : ~canceled[d] =>
        (LinkedBy(d, q)' <=> (LinkedBy(d, q) \/ (d = c /\ q = p)))
  <2> SUFFICES ASSUME NEW d \in Signals, NEW q \in Signals
               PROVE  LinkedBy(d, q)' <=> (LinkedBy(d, q) \/ (d = c /\ q = p))
    OBVIOUS
  <2>1. \A k \in Handles : HandleFor(k, d, q)' <=> HandleFor(k, d, q)
    BY DEF HandleFor, Registered
  <2>2. \A u \in Threads \ {t} : CallFor(u, d, q)' <=> CallFor(u, d, q)
    BY DEF CallFor
  <2> QED
    BY <2>1, <2>2 DEF LinkedBy
<1> HIDE DEF LinkedBy
<1> QED
  BY <1>1, LinkStep DEF TreeInv

LEMMA NewHandleLink ==
  ASSUME TreeInv, SlotInv', UNCHANGED <<canceled, reason>>,
         NEW h \in Handles, NEW c \in Signals, NEW p \in Signals,
         \A k \in Handles \ {h} : handle'[k] = handle[k],
         \A d \in Signals, q \in Signals : ~HandleFor(h, d, q),
         \A d \in Signals, q \in Signals : HandleFor(h, d, q)' <=> (d = c /\ q = p),
         \A u \in Threads, d \in Signals, q \in Signals : CallFor(u, d, q)' <=> CallFor(u, d, q)
  PROVE  [Tree!Next]_(Tree!vars)
<1>1. \A d \in Signals, q \in Signals : ~canceled[d] =>
        (LinkedBy(d, q)' <=> (LinkedBy(d, q) \/ (d = c /\ q = p)))
  <2> SUFFICES ASSUME NEW d \in Signals, NEW q \in Signals
               PROVE  LinkedBy(d, q)' <=> (LinkedBy(d, q) \/ (d = c /\ q = p))
    OBVIOUS
  <2>1. \A k \in Handles \ {h} : HandleFor(k, d, q)' <=> HandleFor(k, d, q)
    BY DEF HandleFor, Registered
  <2> QED
    BY <2>1 DEF LinkedBy
<1> HIDE DEF LinkedBy
<1> QED
  BY <1>1, LinkStep DEF TreeInv

-------------------------------------------------------------------------------
(* Each step, for CancelTree. *)

LEMMA QuietTree ==
  ASSUME TreeInv, SlotInv', NEW t \in Threads,
         \/ EnterCanceled(t) \/ Publish(t) \/ NotifyAll(t) \/ EndCancel(t)
         \/ WaitCanceled(t) \/ WaitTimeout(t) \/ \E s \in Signals : CallWait(t, s)
  PROVE  CallsInv' /\ [Tree!Next]_(Tree!vars)
<1>0. /\ thread \in [Threads -> Thread] /\ thread[t] \in Thread /\ CallsInv /\ TypeInv' /\ SlotInv
      /\ quick \in [Signals -> BOOLEAN]
  BY SomeTypes DEF TreeInv, SlotInv, TypeInv, TypeOK
<1>1. UNCHANGED <<canceled, reason, parents, handle>>
  BY DEF EnterCanceled, Publish, NotifyAll, EndCancel, WaitCanceled, WaitTimeout,
         CallWait, signalVars
<1>2. /\ thread'[t].pc \in {"idle", "notify", "run", "wait"}
      /\ thread[t].pc \in {"cancel", "publish", "notify", "run", "notified", "wait", "idle"}
      /\ thread[t].pc = "cancel" => canceled[thread[t].target]
  <2>1. CASE EnterCanceled(t) \/ EndCancel(t)
    <3>1. ASSUME NEW frame, ReturnTo(t, frame)
          PROVE  thread'[t].pc \in {"idle", "run"}
      <4>1. CASE frame = None
        BY <1>0, <3>1, <4>1 DEF ReturnTo, IdleThread
      <4>2. CASE frame # None
        BY <1>0, <3>1, <4>2 DEF ReturnTo, IdleThread
      <4> QED
        BY <4>1, <4>2
    <3> QED
      BY <2>1, <3>1 DEF EnterCanceled, EndCancel
  <2>2. CASE Publish(t) \/ NotifyAll(t)
    BY <1>0, <2>2 DEF Publish, NotifyAll, Thread
  <2>3. CASE WaitCanceled(t) \/ WaitTimeout(t)
    BY <1>0, <2>3 DEF WaitCanceled, WaitTimeout, IdleThread
  <2>4. ASSUME NEW s \in Signals, CallWait(t, s)
        PROVE  thread'[t].pc = "wait" /\ thread[t].pc = "idle"
    BY <1>0, <2>4 DEF CallWait, IdleThread
  <2> QED
    BY <2>1, <2>2, <2>3, <2>4
<1>3. \A u \in Threads \ {t} :
        \/ thread'[u] = thread[u]
        \/ thread[u].pc = "wait" /\ thread'[u].pc = "notified"
  <2>1. CASE NotifyAll(t)
    <3> SUFFICES ASSUME NEW u \in Threads \ {t}, thread'[u] # thread[u]
                 PROVE  thread[u].pc = "wait" /\ thread'[u].pc = "notified"
      OBVIOUS
    <3>1. thread'[u] = [thread[u] EXCEPT !.pc = "notified"] /\ thread[u].pc = "wait"
      BY <2>1 DEF NotifyAll, Waits
    <3> QED
      BY <1>0, <3>1 DEF Thread
  <2>2. CASE ~NotifyAll(t)
    BY <1>0, <2>2 DEF EnterCanceled, Publish, EndCancel, WaitCanceled, WaitTimeout,
                      CallWait, ReturnTo
  <2> QED
    BY <2>1, <2>2
<1>4. \A s \in Signals : quick'[s] => quick[s] \/ canceled'[s]
  <2>1. CASE Publish(t)
    <3>1. canceled[thread[t].top] /\ thread[t].top \in Signals
      BY <1>0, <2>1, SomeTypes DEF Publish, CallsInv, CallOK, TypeInv, Located
    <3> QED
      BY <1>0, <1>1, <2>1, <3>1 DEF Publish
  <2>2. CASE ~Publish(t)
    BY <2>2 DEF EnterCanceled, NotifyAll, EndCancel, WaitCanceled, WaitTimeout,
                CallWait, signalVars
  <2> QED
    BY <2>1, <2>2
<1>5. CallsInv'
  <2>1. \A u \in Threads :
          \/ thread'[u] = thread[u]
          \/ thread'[u].pc \in {"idle", "register", "store", "notify", "run", "wait", "notified"}
          \/ CallOK(u)'
    BY <1>2, <1>3
  <2> HIDE DEF CallOK
  <2> QED
    BY <1>0, <1>1, <1>4, <2>1, CallsStayOK
<1>6. [Tree!Next]_(Tree!vars)
  <2>1. \A k \in Handles, c \in Signals, p \in Signals :
          ~canceled[c] => (HandleFor(k, c, p)' <=> HandleFor(k, c, p))
    BY <1>1 DEF HandleFor, Registered
  <2>2. \A u \in Threads, c \in Signals, p \in Signals :
          ~canceled[c] => (CallFor(u, c, p)' <=> CallFor(u, c, p))
    BY <1>2, <1>3 DEF CallFor
  <2> HIDE DEF HandleFor, CallFor
  <2> QED
    BY <1>1, <2>1, <2>2, SameLinks
<1> QED
  BY <1>5, <1>6

LEMMA CallCancelTree ==
  ASSUME TreeInv, SlotInv', NEW t \in Threads, NEW s \in Signals, NEW r \in Reasons[s],
         CallCancel(t, s, r)
  PROVE  CallsInv' /\ [Tree!Next]_(Tree!vars)
<1>0. thread \in [Threads -> Thread] /\ TypeInv' /\ SlotInv
  BY SomeTypes DEF TreeInv, SlotInv
<1>1. UNCHANGED <<canceled, reason, parents, quick, handle>> /\ thread[t].pc = "idle"
  BY DEF CallCancel, signalVars
<1>2. /\ thread'[t].pc = "cancel" /\ thread'[t].target = s /\ thread'[t].why = r
      /\ thread'[t].via = None /\ \A u \in Threads \ {t} : thread'[u] = thread[u]
  BY <1>0 DEF CallCancel, IdleThread
<1>3. CallOK(t)'
  BY <1>2 DEF CallOK
<1>4. CallsInv'
  <2> HIDE DEF CallOK
  <2>1. \A u \in Threads :
          \/ thread'[u] = thread[u]
          \/ thread'[u].pc \in {"idle", "register", "store", "notify", "run", "wait", "notified"}
          \/ CallOK(u)'
    BY <1>2, <1>3
  <2>2. \A z \in Signals : quick'[z] => quick[z] \/ canceled'[z]
    BY <1>1
  <2> QED
    BY <1>0, <1>1, <2>1, <2>2, CallsStayOK
<1>5. [Tree!Next]_(Tree!vars)
  <2>1. \A k \in Handles, c \in Signals, p \in Signals :
          ~canceled[c] => (HandleFor(k, c, p)' <=> HandleFor(k, c, p))
    BY <1>1 DEF HandleFor, Registered
  <2>2. \A u \in Threads, c \in Signals, p \in Signals :
          ~canceled[c] => (CallFor(u, c, p)' <=> CallFor(u, c, p))
    BY <1>1, <1>2, ConstantsAssumption DEF CallFor
  <2> HIDE DEF HandleFor, CallFor
  <2> QED
    BY <1>1, <2>1, <2>2, SameLinks
<1> QED
  BY <1>4, <1>5

LEMMA InheritTree ==
  ASSUME TreeInv, SlotInv', NEW t \in Threads, Inherit(t)
  PROVE  CallsInv' /\ [Tree!Next]_(Tree!vars)
<1>0. /\ thread \in [Threads -> Thread] /\ thread[t] \in Thread /\ TypeInv' /\ SlotInv /\ CallsInv
      /\ thread[t].via \in Signals
  BY SomeTypes DEF TreeInv, SlotInv, TypeInv, Located, Inherit
<1>1. UNCHANGED <<canceled, reason, parents, quick, handle>> /\ thread[t].pc = "inherit"
  BY DEF Inherit, signalVars
<1>2. /\ thread'[t].pc = "cancel" /\ thread'[t].target = thread[t].target
      /\ thread'[t].why = reason[thread[t].via] /\ thread'[t].via = thread[t].via
      /\ \A u \in Threads \ {t} : thread'[u] = thread[u]
  BY <1>0 DEF Inherit, Thread
<1>3. CallOK(t)'
  BY <1>0, <1>1, <1>2 DEF CallOK, CallsInv
<1>4. CallsInv'
  <2> HIDE DEF CallOK
  <2>1. \A u \in Threads :
          \/ thread'[u] = thread[u]
          \/ thread'[u].pc \in {"idle", "register", "store", "notify", "run", "wait", "notified"}
          \/ CallOK(u)'
    BY <1>2, <1>3
  <2>2. \A z \in Signals : quick'[z] => quick[z] \/ canceled'[z]
    BY <1>1
  <2> QED
    BY <1>0, <1>1, <2>1, <2>2, CallsStayOK
<1>5. [Tree!Next]_(Tree!vars)
  <2>1. \A k \in Handles, c \in Signals, p \in Signals :
          ~canceled[c] => (HandleFor(k, c, p)' <=> HandleFor(k, c, p))
    BY <1>1 DEF HandleFor, Registered
  <2>2. \A u \in Threads, c \in Signals, p \in Signals :
          ~canceled[c] => (CallFor(u, c, p)' <=> CallFor(u, c, p))
    BY <1>1, <1>2 DEF CallFor
  <2> HIDE DEF HandleFor, CallFor
  <2> QED
    BY <1>1, <2>1, <2>2, SameLinks
<1> QED
  BY <1>4, <1>5

(* The one step that cancels a signal: Cancel, or Inherit of a parent.     *)
LEMMA EnterCancelTree ==
  ASSUME TreeInv, SlotInv', NEW t \in Threads, EnterCancel(t)
  PROVE  CallsInv' /\ [Tree!Next]_(Tree!vars)
<1>0. /\ thread \in [Threads -> Thread] /\ TypeInv' /\ SlotInv /\ CallsInv /\ thread[t].target \in Signals
      /\ canceled \in [Signals -> BOOLEAN] /\ reason \in [Signals -> Text]
      /\ parents \in [Signals -> SUBSET Handles]
  BY SomeTypes DEF TreeInv, SlotInv, TypeInv, TypeOK, Located, EnterCancel
<1>s. PICK s \in Signals : s = thread[t].target
  BY <1>0
<1>r. PICK r : r = thread[t].why
  OBVIOUS
<1>1. /\ ~canceled[s] /\ canceled'[s] /\ reason' = [reason EXCEPT ![s] = r]
      /\ \A z \in Signals \ {s} : canceled'[z] = canceled[z] /\ parents'[z] = parents[z]
      /\ handle' = handle /\ quick' = quick /\ thread[t].pc = "cancel"
  BY <1>0, <1>s, <1>r DEF EnterCancel
<1>2. /\ thread'[t].pc = "publish" /\ thread'[t].top = s
      /\ \A u \in Threads \ {t} : thread'[u] = thread[u]
  BY <1>0, <1>s, <1>r DEF EnterCancel, IdleThread
<1>3. CallOK(t)'
  BY <1>1, <1>2 DEF CallOK
<1>4. CallsInv'
  <2> HIDE DEF CallOK
  <2>1. \A u \in Threads :
          \/ thread'[u] = thread[u]
          \/ thread'[u].pc \in {"idle", "register", "store", "notify", "run", "wait", "notified"}
          \/ CallOK(u)'
    BY <1>2, <1>3
  <2>2. \A z \in Signals : canceled[z] => canceled'[z] /\ reason'[z] = reason[z]
    BY <1>0, <1>1
  <2>3. \A c \in Signals : ~canceled'[c] => parents[c] \subseteq parents'[c]
    BY <1>1
  <2> QED
    BY <1>0, <1>1, <2>1, <2>2, <2>3, CallsStayOK
<1>5. CanceledSet' = CanceledSet \cup {s} /\ s \notin CanceledSet
  BY <1>0, <1>1 DEF CanceledSet
<1>6. Links' = {l \in Links : l[1] # s}
  <2>1. \A c \in Signals, p \in Signals :
          c # s => (LinkedBy(c, p)' <=> LinkedBy(c, p))
    <3> SUFFICES ASSUME NEW c \in Signals, NEW p \in Signals, c # s
                 PROVE  LinkedBy(c, p)' <=> LinkedBy(c, p)
      OBVIOUS
    <3>1. \A k \in Handles : HandleFor(k, c, p)' <=> HandleFor(k, c, p)
      BY <1>1 DEF HandleFor, Registered
    <3>2. \A u \in Threads : CallFor(u, c, p)' <=> CallFor(u, c, p)
      BY <1>1, <1>2, <1>s DEF CallFor
    <3> QED
      BY <3>1, <3>2 DEF LinkedBy
  <2>2. \A c \in Signals, p \in Signals :
          c # s /\ ~canceled[c] => (Linked(c, p)' <=> Linked(c, p))
    <3> HIDE DEF LinkedBy
    <3> QED
      BY <1>0, <1>1, <2>1, SlotsGiveMeaning, MeaningGoesOn DEF LinksMeaning
  <2> HIDE DEF Linked
  <2>3. \A l \in Signals \X Signals : l \in Links' <=> (l \in Links /\ l[1] # s)
    BY <1>1, <2>2 DEF Links
  <2>4. Links' \subseteq Signals \X Signals /\ Links \subseteq Signals \X Signals
    BY DEF Links
  <2> QED
    BY <2>3, <2>4
<1>7. Tree!BecomeCanceled(s, r)
  BY <1>1, <1>5, <1>6 DEF Tree!BecomeCanceled, CanceledSet, Links
<1>8. CASE thread[t].via = None
  <2>1. r \in Reasons[s]
    BY <1>0, <1>1, <1>8, <1>s, <1>r, ConstantsAssumption DEF CallsInv, CallOK
  <2>2. Tree!Cancel(s)
    BY <1>7, <2>1 DEF Tree!Cancel
  <2> QED
    BY <1>0, <1>4, <2>2 DEF Tree!Next
<1>9. CASE thread[t].via # None
  <2>0. PICK p : p = thread[t].via
    OBVIOUS
  <2>1. p \in Signals /\ canceled[p] /\ r = reason[p]
    BY <1>0, <1>1, <1>9, <1>s, <1>r, <2>0 DEF CallsInv, CallOK
  <2>2. <<s, p>> \in Links /\ p \in CanceledSet
    BY <1>0, <1>1, <1>s, <2>0, <2>1 DEF Links, Linked, CanceledSet
  <2>3. Tree!BecomeCanceled(s, reason[p])
    BY <1>7, <2>1 DEF Tree!BecomeCanceled
  <2>4. Tree!Inherit(s, p)
    BY <2>2, <2>3 DEF Tree!Inherit, Links, CanceledSet
  <2> QED
    BY <1>0, <1>4, <2>1, <2>4 DEF Tree!Next
<1> QED
  BY <1>8, <1>9

LEMMA DropParentTree ==
  ASSUME TreeInv, SlotInv', NEW t \in Threads, DropParent(t)
  PROVE  CallsInv' /\ [Tree!Next]_(Tree!vars)
<1>0. /\ TypeInv' /\ SlotInv /\ LinksInv /\ TablesInv /\ thread[t].top \in Signals
      /\ handle \in [Handles -> Handle]
      /\ toDrop \in [Signals -> SUBSET Handles]
  BY SomeTypes DEF TreeInv, SlotInv, TypeInv, Located, DropParent
<1>1. PICK h \in toDrop[thread[t].top] : handle' = [handle EXCEPT ![h] = AfterDrop(h)]
  BY DEF DropParent
<1>2. UNCHANGED <<canceled, reason, parents, quick, thread>>
  BY DEF DropParent
<1>3. h \in Handles /\ handle[h].child = thread[t].top /\ canceled[handle[h].child]
  BY <1>0 DEF LinksInv, TablesInv
<1>4. \A k \in Handles : k = h \/ handle'[k] = handle[k]
  BY <1>0, <1>1
<1>5. CallsInv'
  <2> HIDE DEF CallOK
  <2> QED
    BY <1>0, <1>2, <1>3, <1>4, CallsStaySame
<1>6. handle'[h].child \in {handle[h].child, None}
  BY <1>0, <1>1, <1>3 DEF AfterDrop, DroppedHandle, UnusedHandle, Handle
<1>7. [Tree!Next]_(Tree!vars)
  <2>1. \A k \in Handles, c \in Signals, p \in Signals :
          ~canceled[c] => (HandleFor(k, c, p)' <=> HandleFor(k, c, p))
    BY <1>3, <1>4, <1>6, ConstantsAssumption DEF HandleFor, Registered
  <2>2. \A u \in Threads, c \in Signals, p \in Signals :
          ~canceled[c] => (CallFor(u, c, p)' <=> CallFor(u, c, p))
    BY <1>2 DEF CallFor
  <2> HIDE DEF HandleFor, CallFor
  <2> QED
    BY <1>2, <2>1, <2>2, SameLinks
<1> QED
  BY <1>5, <1>7

LEMMA WakeNextTree ==
  ASSUME TreeInv, SlotInv', NEW t \in Threads, WakeNext(t)
  PROVE  CallsInv' /\ [Tree!Next]_(Tree!vars)
<1>0. /\ thread \in [Threads -> Thread] /\ TypeInv' /\ TypeInv /\ SlotInv /\ TablesInv
      /\ thread[t].top \in Signals
  BY SomeTypes DEF TreeInv, SlotInv, TypeInv, Located, WakeNext
<1>1. /\ UNCHANGED <<canceled, reason, parents, quick, handle>> /\ thread[t].pc = "run"
  BY DEF WakeNext, signalVars
<1>s. PICK s \in Signals : s = thread[t].top
  BY <1>0
<1>2. PICK i \in Slots :
        /\ toWake[s][i] # Empty
        /\ IF handle[toWake[s][i].owner].child = None
             THEN UNCHANGED thread
             ELSE thread' = [thread EXCEPT ![t] =
                       [@ EXCEPT !.pc = "cancel", !.target = handle[toWake[s][i].owner].child,
                                 !.why = reason[s], !.via = s]]
  BY <1>s DEF WakeNext
<1>k. PICK k \in Handles : k = toWake[s][i].owner
  BY <1>0, <1>2, TableFacts
<1>3. canceled[s] /\ handle[k].child \in Signals \cup {None}
  BY <1>0, <1>2, TableFacts, HandleFacts DEF TablesInv
<1>4. CASE handle[k].child = None
  <2>1. thread' = thread
    BY <1>2, <1>4, <1>k
  <2>2. CallsInv'
    <3> HIDE DEF CallOK
    <3>1. \A z \in Signals : quick'[z] => quick[z] \/ canceled'[z]
      BY <1>1
    <3> QED
      BY <1>0, <1>1, <2>1, <3>1, CallsStayOK
  <2>3. \A h \in Handles, c \in Signals, p \in Signals :
          ~canceled[c] => (HandleFor(h, c, p)' <=> HandleFor(h, c, p))
    BY <1>1 DEF HandleFor, Registered
  <2>4. \A u \in Threads, c \in Signals, p \in Signals :
          ~canceled[c] => (CallFor(u, c, p)' <=> CallFor(u, c, p))
    BY <2>1 DEF CallFor
  <2> HIDE DEF HandleFor, CallFor
  <2> QED
    BY <1>1, <2>2, <2>3, <2>4, SameLinks
<1>5. CASE handle[k].child # None
  <2>c. PICK c \in Signals : c = handle[k].child
    BY <1>3, <1>5
  <2>1. thread' = [thread EXCEPT ![t] =
          [@ EXCEPT !.pc = "cancel", !.target = c, !.why = reason[s], !.via = s]]
    BY <1>2, <1>5, <1>k, <2>c
  <2>2. thread[t] \in Thread
    BY <1>0
  <2>3. /\ thread'[t].pc = "cancel" /\ thread'[t].target = c
        /\ thread'[t].why = reason[s] /\ thread'[t].via = s
        /\ \A u \in Threads \ {t} : thread'[u] = thread[u]
    BY <1>0, <2>1, <2>2 DEF Thread
  <2>4. CallOK(t)'
    BY <1>1, <1>3, <2>3 DEF CallOK
  <2>5. CallsInv'
    <3> HIDE DEF CallOK
    <3>1. \A u \in Threads :
            \/ thread'[u] = thread[u]
            \/ thread'[u].pc \in {"idle", "register", "store", "notify", "run", "wait", "notified"}
            \/ CallOK(u)'
      BY <2>3, <2>4
    <3>2. \A z \in Signals : quick'[z] => quick[z] \/ canceled'[z]
      BY <1>1
    <3> QED
      BY <1>0, <1>1, <3>1, <3>2, CallsStayOK
  <2>6. \A d \in Signals, q \in Signals : ~CallFor(t, d, q)
    BY <1>1 DEF CallFor
  <2>7. \A d \in Signals, q \in Signals : CallFor(t, d, q)' <=> (d = c /\ q = s)
    BY <2>3 DEF CallFor
  <2> HIDE DEF CallFor
  <2> QED
    BY <1>1, <2>3, <2>5, <2>6, <2>7, NewCallLink
<1> QED
  BY <1>4, <1>5

LEMMA CallAddParentTree ==
  ASSUME TreeInv, SlotInv', NEW t \in Threads, NEW c \in Signals, NEW p \in Signals,
         CallAddParent(t, c, p)
  PROVE  CallsInv' /\ [Tree!Next]_(Tree!vars)
<1>0. /\ thread \in [Threads -> Thread] /\ TypeInv' /\ SlotInv /\ CallsInv
      /\ handle \in [Handles -> Handle]
  BY SomeTypes DEF TreeInv, SlotInv
<1>1. UNCHANGED <<canceled, reason, parents, quick>> /\ thread[t].pc = "idle"
  BY DEF CallAddParent, signalVars
<1>2. CASE quick[p]
  <2>1. /\ handle' = handle
        /\ thread' = [thread EXCEPT ![t] = [IdleThread EXCEPT !.pc = "inherit", !.target = c, !.via = p]]
    BY <1>2 DEF CallAddParent
  <2>2. /\ thread'[t].pc = "inherit" /\ thread'[t].target = c /\ thread'[t].via = p
        /\ \A u \in Threads \ {t} : thread'[u] = thread[u]
    BY <1>0, <2>1 DEF IdleThread
  <2>3. CallOK(t)'
    BY <1>0, <1>1, <1>2, <2>2 DEF CallOK, CallsInv
  <2>4. CallsInv'
    <3> HIDE DEF CallOK
    <3>1. \A u \in Threads :
            \/ thread'[u] = thread[u]
            \/ thread'[u].pc \in {"idle", "register", "store", "notify", "run", "wait", "notified"}
            \/ CallOK(u)'
      BY <2>2, <2>3
    <3>2. \A z \in Signals : quick'[z] => quick[z] \/ canceled'[z]
      BY <1>1
    <3> QED
      BY <1>0, <1>1, <2>1, <3>1, <3>2, CallsStayOK
  <2>5. \A d \in Signals, q \in Signals : ~CallFor(t, d, q)
    BY <1>1 DEF CallFor
  <2>6. \A d \in Signals, q \in Signals : CallFor(t, d, q)' <=> (d = c /\ q = p)
    BY <2>2 DEF CallFor
  <2> HIDE DEF CallFor
  <2> QED
    BY <1>1, <2>1, <2>2, <2>4, <2>5, <2>6, NewCallLink
<1>3. CASE ~quick[p]
  <2>1. PICK h \in Handles :
          /\ handle[h].state = "unused"
          /\ handle' = [handle EXCEPT ![h] =
               [state |-> "local", sig |-> p, index |-> 0, child |-> c, gen |-> 0]]
          /\ thread' = [thread EXCEPT ![t] =
               [IdleThread EXCEPT !.pc = "register", !.target = c, !.via = p, !.own = h]]
    BY <1>3 DEF CallAddParent
  <2>2. thread'[t].pc = "register" /\ \A u \in Threads \ {t} : thread'[u] = thread[u]
    BY <1>0, <2>1 DEF IdleThread
  <2>3. handle'[h].index = 0 /\ \A k \in Handles : k = h \/ handle'[k] = handle[k]
    BY <1>0, <2>1
  <2>4. CallsInv'
    <3> HIDE DEF CallOK
    <3>1. \A u \in Threads :
            \/ thread'[u] = thread[u]
            \/ thread'[u].pc \in {"idle", "register", "store", "notify", "run", "wait", "notified"}
            \/ CallOK(u)'
      BY <2>2
    <3>2. handle[h].state # "linked"
      BY <2>1
    <3> QED
      BY <1>0, <1>1, <2>3, <3>1, <3>2, CallsStaySame
  <2>5. \A k \in Handles, d \in Signals, q \in Signals :
          ~canceled[d] => (HandleFor(k, d, q)' <=> HandleFor(k, d, q))
    BY <2>1, <2>3 DEF HandleFor, Registered
  <2>6. \A u \in Threads, d \in Signals, q \in Signals :
          ~canceled[d] => (CallFor(u, d, q)' <=> CallFor(u, d, q))
    BY <1>1, <2>2 DEF CallFor
  <2> HIDE DEF HandleFor, CallFor
  <2> QED
    BY <1>1, <2>4, <2>5, <2>6, SameLinks
<1> QED
  BY <1>2, <1>3

LEMMA RegisterTree ==
  ASSUME TreeInv, SlotInv', NEW t \in Threads, Register(t)
  PROVE  CallsInv' /\ [Tree!Next]_(Tree!vars)
<1>0. /\ thread \in [Threads -> Thread] /\ thread[t] \in Thread
      /\ TypeInv' /\ SlotInv /\ OwnersInv /\ handle \in [Handles -> Handle]
      /\ thread[t].own \in Handles /\ thread[t].via \in Signals /\ thread[t].target \in Signals
      /\ Owns(t) /\ OwnerOK(t)
  BY SomeTypes DEF TreeInv, SlotInv, TypeInv, Located, Register, Owns, OwnersInv
<1>h. PICK h \in Handles : h = thread[t].own
  BY <1>0
<1>p. PICK p \in Signals, c \in Signals : p = thread[t].via /\ c = thread[t].target
  BY <1>0
<1>1. UNCHANGED <<canceled, reason, parents, quick>> /\ thread[t].pc = "register"
  BY DEF Register
<1>2. /\ handle[h].state = "local" /\ handle[h].sig = p
      /\ handle[h].child = c /\ handle[h].index = 0
  BY <1>0, <1>1, <1>h, <1>p DEF OwnerOK
<1>3. CASE canceled[p]
  <2>1. /\ handle' = [handle EXCEPT ![h] = DroppedHandle]
        /\ thread' = [thread EXCEPT ![t] = [@ EXCEPT !.pc = "inherit", !.own = None]]
    BY <1>3, <1>h, <1>p DEF Register
  <2>2. /\ thread'[t].pc = "inherit" /\ thread'[t].target = c /\ thread'[t].via = p
        /\ \A u \in Threads \ {t} : thread'[u] = thread[u]
    BY <1>0, <1>p, <2>1 DEF Thread
  <2>3. handle'[h] = DroppedHandle /\ \A k \in Handles : k = h \/ handle'[k] = handle[k]
    BY <1>0, <2>1
  <2>4. CallOK(t)'
    BY <1>1, <1>3, <2>2 DEF CallOK
  <2>5. CallsInv'
    <3> HIDE DEF CallOK
    <3>1. \A u \in Threads :
            \/ thread'[u] = thread[u]
            \/ thread'[u].pc \in {"idle", "register", "store", "notify", "run", "wait", "notified"}
            \/ CallOK(u)'
      BY <2>2, <2>4
    <3>2. handle[h].state # "linked"
      BY <1>2
    <3> QED
      BY <1>0, <1>1, <2>3, <3>1, <3>2, CallsStaySame
  <2>6. \A d \in Signals, q \in Signals : ~canceled[d] =>
          (LinkedBy(d, q)' <=> (LinkedBy(d, q) \/ (d = c /\ q = p)))
    <3> SUFFICES ASSUME NEW d \in Signals, NEW q \in Signals
                 PROVE  LinkedBy(d, q)' <=> (LinkedBy(d, q) \/ (d = c /\ q = p))
      OBVIOUS
    <3>1. \A k \in Handles : HandleFor(k, d, q)' <=> HandleFor(k, d, q)
      BY <1>2, <2>3 DEF HandleFor, Registered, DroppedHandle, UnusedHandle
    <3>2. \A u \in Threads \ {t} : CallFor(u, d, q)' <=> CallFor(u, d, q)
      BY <2>2 DEF CallFor
    <3>3. ~CallFor(t, d, q) /\ (CallFor(t, d, q)' <=> (d = c /\ q = p))
      BY <1>1, <2>2 DEF CallFor
    <3> QED
      BY <3>1, <3>2, <3>3 DEF LinkedBy
  <2> HIDE DEF LinkedBy
  <2> QED
    BY <1>0, <1>1, <2>5, <2>6, LinkStep
<1>4. CASE ~canceled[p]
  <2>1. PICK i \in Slots :
          /\ handle' = [handle EXCEPT ![h].index = i]
          /\ thread' = [thread EXCEPT ![t].pc = "store"]
    BY <1>4, <1>h, <1>p DEF Register
  <2>2. thread'[t].pc = "store" /\ \A u \in Threads \ {t} : thread'[u] = thread[u]
    BY <1>0, <2>1 DEF Thread
  <2>3. /\ handle'[h].state = "local" /\ handle'[h].child = c /\ handle'[h].sig = p
        /\ handle'[h].index = i /\ i # 0
        /\ \A k \in Handles : k = h \/ handle'[k] = handle[k]
    BY <1>0, <1>2, <2>1 DEF Handle, Slots
  <2>4. CallsInv'
    <3> HIDE DEF CallOK
    <3>1. \A u \in Threads :
            \/ thread'[u] = thread[u]
            \/ thread'[u].pc \in {"idle", "register", "store", "notify", "run", "wait", "notified"}
            \/ CallOK(u)'
      BY <2>2
    <3>2. handle[h].state # "linked"
      BY <1>2
    <3> QED
      BY <1>0, <1>1, <2>3, <3>1, <3>2, CallsStaySame
  <2>5. /\ \A d \in Signals, q \in Signals : ~HandleFor(h, d, q)
        /\ \A d \in Signals, q \in Signals : HandleFor(h, d, q)' <=> (d = c /\ q = p)
    BY <1>2, <2>3 DEF HandleFor, Registered
  <2>6. \A u \in Threads, d \in Signals, q \in Signals : CallFor(u, d, q)' <=> CallFor(u, d, q)
    BY <1>1, <2>2 DEF CallFor
  <2>7. \A k \in Handles \ {h} : handle'[k] = handle[k]
    BY <2>3
  <2> HIDE DEF HandleFor, CallFor
  <2> QED
    BY <1>1, <2>4, <2>5, <2>6, <2>7, NewHandleLink
<1> QED
  BY <1>3, <1>4

LEMMA StoreTree ==
  ASSUME TreeInv, SlotInv', NEW t \in Threads, Store(t)
  PROVE  CallsInv' /\ [Tree!Next]_(Tree!vars)
<1>0. /\ thread \in [Threads -> Thread] /\ thread[t] \in Thread
      /\ TypeInv' /\ SlotInv /\ OwnersInv /\ handle \in [Handles -> Handle]
      /\ parents \in [Signals -> SUBSET Handles]
      /\ thread[t].own \in Handles /\ thread[t].via \in Signals /\ thread[t].target \in Signals
      /\ Owns(t) /\ OwnerOK(t)
  BY SomeTypes DEF TreeInv, SlotInv, TypeInv, Located, Store, Owns, OwnersInv
<1>h. PICK h \in Handles : h = thread[t].own
  BY <1>0
<1>p. PICK p \in Signals, c \in Signals : p = thread[t].via /\ c = thread[t].target
  BY <1>0
<1>1. UNCHANGED <<canceled, reason, quick>> /\ thread[t].pc = "store"
  BY DEF Store
<1>2. handle[h].state = "local"
  BY <1>0, <1>h DEF OwnerOK
<1>3. /\ thread'[t].pc \in {"idle", "unlink"} /\ CallOK(t)'
      /\ \A u \in Threads \ {t} : thread'[u] = thread[u]
      /\ \A d \in Signals : parents[d] \subseteq parents'[d]
      /\ \A k \in Handles : k = h \/ handle'[k] = handle[k]
      /\ \A d \in Signals, q \in Signals : HandleFor(h, d, q)' <=> HandleFor(h, d, q)
  <2>1. CASE canceled[c] \/ AlreadyAdded(c, p)
    <3>1. thread' = [thread EXCEPT ![t].pc = "unlink"] /\ UNCHANGED <<parents, handle>>
      BY <1>p, <2>1 DEF Store
    <3>2. /\ \A u \in Threads \ {t} : thread'[u] = thread[u]
          /\ thread'[t].pc = "unlink" /\ thread'[t].target = c /\ thread'[t].via = p
      BY <1>0, <1>p, <3>1 DEF Thread
    <3>3. CallOK(t)'
      BY <1>1, <2>1, <3>1, <3>2 DEF CallOK, AlreadyAdded
    <3> QED
      BY <3>1, <3>2, <3>3 DEF HandleFor, Registered
  <2>2. CASE ~(canceled[c] \/ AlreadyAdded(c, p))
    <3>1. /\ parents' = [parents EXCEPT ![c] = @ \cup {h}]
          /\ handle' = [handle EXCEPT ![h].state = "linked"]
          /\ thread' = [thread EXCEPT ![t] = IdleThread]
      BY <1>h, <1>p, <2>2 DEF Store
    <3>2. (\A u \in Threads \ {t} : thread'[u] = thread[u]) /\ thread'[t].pc = "idle"
      BY <1>0, <3>1 DEF IdleThread
    <3>3. CallOK(t)'
      BY <3>2 DEF CallOK
    <3>4. /\ \A k \in Handles : k = h \/ handle'[k] = handle[k]
          /\ handle'[h].state = "linked" /\ handle'[h].child = handle[h].child
          /\ handle'[h].sig = handle[h].sig /\ handle'[h].index = handle[h].index
      BY <1>0, <3>1 DEF Handle
    <3>5. \A d \in Signals, q \in Signals : HandleFor(h, d, q)' <=> HandleFor(h, d, q)
      BY <1>2, <3>4 DEF HandleFor, Registered
    <3>6. \A d \in Signals : parents[d] \subseteq parents'[d]
      BY <1>0, <3>1
    <3> QED
      BY <3>2, <3>3, <3>4, <3>5, <3>6
  <2> QED
    BY <2>1, <2>2
<1>4. CallsInv'
  <2> HIDE DEF CallOK
  <2>1. \A u \in Threads :
          \/ thread'[u] = thread[u]
          \/ thread'[u].pc \in {"idle", "register", "store", "notify", "run", "wait", "notified"}
          \/ CallOK(u)'
    BY <1>3
  <2>2. handle[h].state # "linked"
    BY <1>2
  <2> QED
    BY <1>0, <1>1, <1>3, <2>1, <2>2, CallsStaySame
<1>5. \A k \in Handles, d \in Signals, q \in Signals :
        ~canceled[d] => (HandleFor(k, d, q)' <=> HandleFor(k, d, q))
  BY <1>3 DEF HandleFor, Registered
<1>6. \A u \in Threads, d \in Signals, q \in Signals :
        ~canceled[d] => (CallFor(u, d, q)' <=> CallFor(u, d, q))
  BY <1>1, <1>3 DEF CallFor
<1> HIDE DEF HandleFor, CallFor
<1> QED
  BY <1>1, <1>4, <1>5, <1>6, SameLinks

(* The handle is not needed: its child is canceled or has another one.     *)
LEMMA UnlinkTree ==
  ASSUME TreeInv, SlotInv', NEW t \in Threads, Unlink(t)
  PROVE  CallsInv' /\ [Tree!Next]_(Tree!vars)
<1>0. /\ thread \in [Threads -> Thread]
      /\ TypeInv' /\ SlotInv /\ OwnersInv /\ LinksInv /\ FutureInv /\ CallsInv
      /\ handle \in [Handles -> Handle] /\ parents \in [Signals -> SUBSET Handles]
      /\ thread[t].own \in Handles /\ Owns(t) /\ OwnerOK(t)
  BY SomeTypes DEF TreeInv, SlotInv, TypeInv, Located, Unlink, Owns, OwnersInv
<1>h. PICK h \in Handles : h = thread[t].own
  BY <1>0
<1>1. /\ UNCHANGED <<canceled, reason, parents, quick>> /\ thread[t].pc = "unlink"
      /\ handle' = [handle EXCEPT ![h] = AfterDrop(h)]
      /\ thread' = [thread EXCEPT ![t] = IdleThread]
  BY <1>h DEF Unlink
<1>2. /\ handle[h].state = "local" /\ handle[h].sig = thread[t].via
      /\ handle[h].child = thread[t].target
  BY <1>0, <1>h DEF OwnerOK
<1>3. /\ thread'[t].pc = "idle" /\ \A u \in Threads \ {t} : thread'[u] = thread[u]
      /\ \A k \in Handles : k = h \/ handle'[k] = handle[k]
  BY <1>0, <1>1 DEF IdleThread
<1>4. handle'[h].state \in {"late", "dropped"}
  BY <1>0, <1>1 DEF AfterDrop, DroppedHandle, UnusedHandle, Handle
<1>5. CallsInv'
  <2> HIDE DEF CallOK
  <2>1. \A u \in Threads :
          \/ thread'[u] = thread[u]
          \/ thread'[u].pc \in {"idle", "register", "store", "notify", "run", "wait", "notified"}
          \/ CallOK(u)'
    BY <1>3
  <2>2. handle[h].state # "linked"
    BY <1>2
  <2> QED
    BY <1>0, <1>1, <1>3, <2>1, <2>2, CallsStaySame
<1>6. \A d \in Signals, q \in Signals : ~canceled[d] => (LinkedBy(d, q)' <=> LinkedBy(d, q))
  <2> SUFFICES ASSUME NEW d \in Signals, NEW q \in Signals, ~canceled[d]
               PROVE  LinkedBy(d, q)' <=> LinkedBy(d, q)
    OBVIOUS
  <2>1. \A k \in Handles \ {h} : HandleFor(k, d, q)' <=> HandleFor(k, d, q)
    BY <1>3 DEF HandleFor, Registered
  <2>2. \A u \in Threads : CallFor(u, d, q)' <=> CallFor(u, d, q)
    BY <1>1, <1>3 DEF CallFor
  <2>3. ~HandleFor(h, d, q)'
    BY <1>4 DEF HandleFor, Registered
  <2>4. HandleFor(h, d, q) => \E k \in Handles \ {h} : HandleFor(k, d, q)
    <3> SUFFICES ASSUME handle[h].child = d, handle[h].sig = q
                 PROVE  \E k \in Handles \ {h} : HandleFor(k, d, q)
      BY DEF HandleFor
    <3>1. AlreadyAdded(thread[t].target, thread[t].via)
      BY <1>0, <1>1, <1>2 DEF CallsInv, CallOK
    <3>2. PICK k \in parents[d] : handle[k].sig = q
      BY <1>2, <3>1 DEF AlreadyAdded
    <3>3. k \in Handles /\ handle[k].state = "linked" /\ handle[k].child = d
      BY <1>0, <3>2 DEF LinksInv
    <3>4. handle[k].index # 0
      BY <1>0, <3>3 DEF FutureInv, FutureOK, FieldsOK
    <3> QED
      BY <1>2, <3>2, <3>3, <3>4 DEF HandleFor, Registered
  <2> HIDE DEF HandleFor, CallFor
  <2> QED
    BY <2>1, <2>2, <2>3, <2>4 DEF LinkedBy
<1> HIDE DEF LinkedBy
<1> QED
  BY <1>0, <1>1, <1>5, <1>6, NoLinkStep

(* The futures of other code are no links. *)
LEMMA FutureTree ==
  ASSUME TreeInv, SlotInv', NEW h \in Handles, Future(h)
  PROVE  CallsInv' /\ [Tree!Next]_(Tree!vars)
<1>0. /\ TypeInv' /\ SlotInv /\ handle \in [Handles -> Handle] /\ handle[h] \in Handle
  BY SomeTypes DEF TreeInv, SlotInv
<1>1. UNCHANGED <<canceled, reason, parents, quick, thread>> /\ handle[h].state \in {"unused", "user"}
  BY DEF Future, SetWaker, DropFuture, Forget, signalVars
<1>2. \A k \in Handles : k = h \/ handle'[k] = handle[k]
  BY <1>0 DEF Future, SetWaker, DropFuture, Forget
<1>3. handle'[h].state \in {"user", "late", "dropped", "forgotten"}
  <2>1. ASSUME NEW s \in Signals, SetWaker(h, s)
        PROVE  handle'[h].state = "user"
    BY <1>0, <2>1 DEF SetWaker
  <2>2. CASE DropFuture(h)
    BY <1>0, <2>2 DEF DropFuture, AfterDrop, DroppedHandle, UnusedHandle, Handle
  <2>3. CASE Forget(h)
    BY <1>0, <2>3 DEF Forget, Handle
  <2> QED
    BY <2>1, <2>2, <2>3 DEF Future
<1>4. CallsInv'
  <2> HIDE DEF CallOK
  <2> QED
    BY <1>0, <1>1, <1>2, CallsStaySame
<1>5. \A k \in Handles, d \in Signals, q \in Signals :
        ~canceled[d] => (HandleFor(k, d, q)' <=> HandleFor(k, d, q))
  BY <1>1, <1>2, <1>3 DEF HandleFor, Registered
<1>6. \A u \in Threads, d \in Signals, q \in Signals :
        ~canceled[d] => (CallFor(u, d, q)' <=> CallFor(u, d, q))
  BY <1>1 DEF CallFor
<1> HIDE DEF HandleFor, CallFor
<1> QED
  BY <1>1, <1>4, <1>5, <1>6, SameLinks

-------------------------------------------------------------------------------
LEMMA InitTree == Init => TreeInv /\ Tree!Init
<1> SUFFICES ASSUME Init PROVE TreeInv /\ Tree!Init
  OBVIOUS
<1>1. SlotInv
  BY InitSlotInv
<1>2. CallsInv
  BY DEF Init, CallsInv, CallOK, IdleThread
<1>3. CanceledSet = {} /\ reason = [s \in Signals |-> NoReason]
  BY DEF Init, CanceledSet
<1>4. Links = {}
  <2>1. \A c \in Signals, p \in Signals : ~LinkedBy(c, p)
    BY DEF Init, LinkedBy, HandleFor, Registered, CallFor, UnusedHandle, IdleThread
  <2>2. \A c \in Signals, p \in Signals : ~canceled[c] => ~Linked(c, p)
    BY <1>1, <2>1, SlotsGiveMeaning DEF LinksMeaning
  <2> HIDE DEF Linked
  <2> QED
    BY <2>2 DEF Links
<1> QED
  BY <1>1, <1>2, <1>3, <1>4 DEF TreeInv, Tree!Init, CanceledSet, Links

LEMMA NextTree == TreeInv /\ [Next]_vars => TreeInv' /\ [Tree!Next]_(Tree!vars)
<1> SUFFICES ASSUME TreeInv, [Next]_vars
             PROVE  CallsInv' /\ SlotInv' /\ [Tree!Next]_(Tree!vars)
  BY DEF TreeInv
<1>1. SlotInv'
  BY NextSlotInv DEF TreeInv
<1>2. ASSUME NEW t \in Threads, Step(t)
      PROVE  CallsInv' /\ [Tree!Next]_(Tree!vars)
  BY <1>1, <1>2, QuietTree, EnterCancelTree, DropParentTree, WakeNextTree, RegisterTree,
     InheritTree, StoreTree, UnlinkTree DEF Step
<1>3. ASSUME NEW t \in Threads, Call(t) \/ WaitTimeout(t)
      PROVE  CallsInv' /\ [Tree!Next]_(Tree!vars)
  BY <1>1, <1>3, QuietTree, CallCancelTree, CallAddParentTree DEF Call
<1>4. ASSUME NEW h \in Handles, Future(h)
      PROVE  CallsInv' /\ [Tree!Next]_(Tree!vars)
  BY <1>1, <1>4, FutureTree
<1>5. CASE UNCHANGED vars
  <2>1. UNCHANGED <<canceled, reason, parents, quick, slots, toWake, handle, thread>>
    BY <1>5 DEF vars, signalVars, frameVars
  <2>2. CallsInv'
    BY <2>1 DEF TreeInv, CallsInv, CallOK, AlreadyAdded
  <2>3. \A d \in Signals, q \in Signals : LinkedBy(d, q)' <=> LinkedBy(d, q)
    BY <2>1 DEF LinkedBy, HandleFor, CallFor, Registered
  <2> HIDE DEF LinkedBy
  <2> QED
    BY <1>1, <2>1, <2>2, <2>3, NoLinkStep DEF TreeInv
<1> QED
  BY <1>1, <1>2, <1>3, <1>4, <1>5 DEF Next

(* The calls on signals with all their races implement the promise of      *)
(* CancelTree, for every number of signals, threads, futures and slots: a  *)
(* signal is canceled once, with the reason given or its parent's, and a   *)
(* link is only lost with the child's cancellation.                        *)
THEOREM SignalsImplementTree == Spec => ImplementsTree
<1>1. Init => TreeInv /\ Tree!Init
  BY InitTree
<1>2. TreeInv /\ [Next]_vars => TreeInv' /\ [Tree!Next]_(Tree!vars)
  BY NextTree
<1> QED
  BY <1>1, <1>2, PTL DEF Spec, ImplementsTree, Tree!Spec
===============================================================================
