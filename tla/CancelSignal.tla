----------------------------- MODULE CancelSignal -----------------------------
(***************************************************************************)
(* cancellation.rs: cancel signals shared by threads.  A signal holds,     *)
(* behind a mutex, a flag, a reason, a table of wakers (one slot for each  *)
(* registered WaitForCancelSignalFuture) and the handles by which it hangs *)
(* in the tables of its parents.  The first cancel call takes the table    *)
(* and the handles out of the mutex, drops the handles and then runs the   *)
(* wakers one by one; the waker of a linked child cancels the child, so    *)
(* calls nest.                                                             *)
(*                                                                         *)
(* One action is one critical section or one lock-free access.  The        *)
(* running call of _cancel_with_reason on a signal exists at most once for *)
(* each signal, so a thread's stack is kept as one frame per signal        *)
(* (caller, toDrop, toWake) and the innermost frame of the thread (top).   *)
(***************************************************************************)
EXTENDS Naturals

CONSTANTS Signals,   \* the cancel signals
          Threads,   \* threads that call the methods
          Handles,   \* the WaitForCancelSignalFuture values ever created
          Reasons,   \* for each signal the reasons that callers cancel it with
          NoReason,  \* the empty reason, also the one of cancel()
          None,      \* no signal, no thread, no handle
          Empty,     \* an empty slot
          MaxSlots,  \* bound: slots of a table
          MaxGen     \* bound: wakers set one after the other by one future

ASSUME ConstantsAssumption ==
  /\ None \notin Signals \cup Threads \cup Handles
  /\ MaxSlots \in Nat
  /\ MaxGen \in Nat
  /\ Empty \notin [owner : Handles, gen : 0..MaxGen]

VARIABLES canceled,  \* state.canceled of each signal
          reason,    \* state.reason
          slots,     \* state.wakers
          parents,   \* state.parents
          lock,      \* the thread inside _cancel_with_reason's critical section
          quick,     \* the atomic copy of canceled
          caller,    \* frame: the signal whose waker made this call
          toDrop,    \* frame: taken parent handles not yet dropped
          toWake,    \* frame: taken wakers not yet woken
          handle,    \* the futures
          thread,    \* what each thread is doing
          woken      \* the wakers of users that were woken

signalVars == <<canceled, reason, slots, parents, lock, quick>>
frameVars == <<caller, toDrop, toWake>>
vars == <<signalVars, frameVars, handle, thread, woken>>

-------------------------------------------------------------------------------
Slots == 1..MaxSlots
Waker == [owner : Handles, gen : 0..MaxGen]
AllEmpty == [i \in Slots |-> Empty]

(* "local" is a handle that add_parent_signal has not stored yet, "linked" *)
(* one stored in its child, "user" one that other code owns.  A future     *)
(* dropped after its signal was canceled is "late": its waker may still be *)
(* in the taken table.                                                     *)
HandleState ==
  {"unused", "local", "linked", "user", "forgotten", "dropped", "late"}

(* index is 0 where the code has usize::MAX; child is the signal that the  *)
(* handle's closure cancels, None for a user's waker.                      *)
Handle == [state : HandleState, sig : Signals \cup {None}, index : 0..MaxSlots,
           child : Signals \cup {None}, gen : 0..MaxGen]

UnusedHandle ==
  [state |-> "unused", sig |-> None, index |-> 0, child |-> None, gen |-> 0]

DroppedHandle == [UnusedHandle EXCEPT !.state = "dropped"]

PC == {"idle", "cancel", "publish", "notify", "run",
       "register", "inherit", "store", "unlink", "wait", "notified"}

Text == (UNION {Reasons[s] : s \in Signals}) \cup {NoReason}

(* target and why are the arguments of the next or current call, via the   *)
(* parent on whose behalf it is made, own the handle that it created.      *)
Thread == [pc : PC, top : Signals \cup {None}, target : Signals \cup {None},
           why : Text, via : Signals \cup {None},
           own : Handles \cup {None}]

IdleThread ==
  [pc |-> "idle", top |-> None, target |-> None, why |-> NoReason,
   via |-> None, own |-> None]

Live(h) == handle[h].state \in {"local", "linked", "user"}
WakerOf(h) == [owner |-> h, gen |-> handle[h].gen]

Init ==
  /\ canceled = [s \in Signals |-> FALSE]
  /\ reason = [s \in Signals |-> NoReason]
  /\ slots = [s \in Signals |-> AllEmpty]
  /\ parents = [s \in Signals |-> {}]
  /\ lock = [s \in Signals |-> None]
  /\ quick = [s \in Signals |-> FALSE]
  /\ caller = [s \in Signals |-> None]
  /\ toDrop = [s \in Signals |-> {}]
  /\ toWake = [s \in Signals |-> AllEmpty]
  /\ handle = [h \in Handles |-> UnusedHandle]
  /\ thread = [t \in Threads |-> IdleThread]
  /\ woken = {}

-------------------------------------------------------------------------------
(* Mutant: the search does not ask whether the slot is empty. *)
IsFirstSlotFor(h, s, i) ==
  IF handle[h].index # 0 THEN i = handle[h].index ELSE i = 1

(* The slot that set_waker uses for h: the one it has, else the first that *)
(* is empty.  Pushing to the Vec is taking the first slot never used.      *)
IsSlotFor(h, s, i) ==
  IF handle[h].index # 0
    THEN i = handle[h].index
    ELSE slots[s][i] = Empty /\ \A j \in 1..(i - 1) : slots[s][j] # Empty

(* WaitForCancelSignalFuture::drop may proceed: it has no slot, sees the   *)
(* signal canceled without the lock, or gets the lock.                     *)
CanUnregister(h) ==
  \/ handle[h].index = 0
  \/ quick[handle[h].sig]
  \/ lock[handle[h].sig] = None

(* The tables after WaitForCancelSignalFuture::drop of h. *)
SlotsWithout(h) ==
  IF handle[h].index = 0 \/ canceled[handle[h].sig]
    THEN slots
    ELSE [slots EXCEPT ![handle[h].sig][handle[h].index] = Empty]

AfterDrop(h) ==
  IF canceled[handle[h].sig] THEN [handle[h] EXCEPT !.state = "late"] ELSE DroppedHandle

-------------------------------------------------------------------------------
(* _cancel_with_reason *)

(* The innermost call of t on its own signal is over: back to the waker    *)
(* loop of the frame above, or out of the outermost call.                  *)
ReturnTo(t, frame) ==
  thread' = [thread EXCEPT ![t] = IF frame = None
                                    THEN IdleThread
                                    ELSE [IdleThread EXCEPT !.pc = "run", !.top = frame]]

(* cancel, cancel_with_reason and the drop of a CancelOnDrop. *)
CallCancel(t, s, r) ==
  /\ thread[t].pc = "idle"
  /\ thread' = [thread EXCEPT ![t] = [IdleThread EXCEPT !.pc = "cancel", !.target = s, !.why = r]]
  /\ UNCHANGED <<signalVars, frameVars, handle, woken>>

EnterCanceled(t) ==
  /\ thread[t].pc = "cancel"
  /\ lock[thread[t].target] = None
  /\ canceled[thread[t].target]
  /\ ReturnTo(t, thread[t].top)
  /\ UNCHANGED <<signalVars, frameVars, handle, woken>>

(* Mutant: the handles of the parents are not taken.                       *)
EnterCancelForgetsParents(t) ==
  LET s == thread[t].target IN
  /\ thread[t].pc = "cancel"
  /\ lock[s] = None
  /\ ~canceled[s]
  /\ canceled' = [canceled EXCEPT ![s] = TRUE]
  /\ reason' = [reason EXCEPT ![s] = thread[t].why]
  /\ toWake' = [toWake EXCEPT ![s] = slots[s]]
  /\ slots' = [slots EXCEPT ![s] = AllEmpty]
  /\ lock' = [lock EXCEPT ![s] = t]
  /\ caller' = [caller EXCEPT ![s] = thread[t].top]
  /\ thread' = [thread EXCEPT ![t] = [IdleThread EXCEPT !.pc = "publish", !.top = s]]
  /\ UNCHANGED <<quick, parents, toDrop, handle, woken>>

(* Inside the lock, up to the store to quick: the flag, the reason, and    *)
(* both tables taken out.                                                  *)
EnterCancel(t) ==
  LET s == thread[t].target IN
  /\ thread[t].pc = "cancel"
  /\ lock[s] = None
  /\ ~canceled[s]
  /\ canceled' = [canceled EXCEPT ![s] = TRUE]
  /\ reason' = [reason EXCEPT ![s] = thread[t].why]
  /\ toWake' = [toWake EXCEPT ![s] = slots[s]]
  /\ toDrop' = [toDrop EXCEPT ![s] = parents[s]]
  /\ slots' = [slots EXCEPT ![s] = AllEmpty]
  /\ parents' = [parents EXCEPT ![s] = {}]
  /\ lock' = [lock EXCEPT ![s] = t]
  /\ caller' = [caller EXCEPT ![s] = thread[t].top]
  /\ thread' = [thread EXCEPT ![t] = [IdleThread EXCEPT !.pc = "publish", !.top = s]]
  /\ UNCHANGED <<quick, handle, woken>>

(* Mutant: the guard lives until the end of the function. *)
PublishKeepingLock(t) ==
  /\ thread[t].pc = "publish"
  /\ quick' = [quick EXCEPT ![thread[t].top] = TRUE]
  /\ thread' = [thread EXCEPT ![t].pc = "notify"]
  /\ UNCHANGED <<canceled, reason, slots, parents, lock, frameVars, handle, woken>>

(* The store to quick and the unlock. *)
Publish(t) ==
  /\ thread[t].pc = "publish"
  /\ quick' = [quick EXCEPT ![thread[t].top] = TRUE]
  /\ lock' = [lock EXCEPT ![thread[t].top] = None]
  /\ thread' = [thread EXCEPT ![t].pc = "notify"]
  /\ UNCHANGED <<canceled, reason, slots, parents, frameVars, handle, woken>>

Waits(u, s) == thread[u].pc = "wait" /\ thread[u].target = s

(* condvar.notify_all *)
NotifyAll(t) ==
  LET s == thread[t].top IN
  /\ thread[t].pc = "notify"
  /\ thread' = [u \in Threads |->
                  IF u = t THEN [thread[u] EXCEPT !.pc = "run"]
                  ELSE IF Waits(u, s) THEN [thread[u] EXCEPT !.pc = "notified"]
                  ELSE thread[u]]
  /\ UNCHANGED <<signalVars, frameVars, handle, woken>>

(* drop(parents): each handle leaves the table of its parent. *)
DropParent(t) ==
  LET s == thread[t].top IN
  /\ thread[t].pc = "run"
  /\ \E h \in toDrop[s] :
       /\ CanUnregister(h)
       /\ slots' = SlotsWithout(h)
       /\ toDrop' = [toDrop EXCEPT ![s] = @ \ {h}]
       /\ handle' = [handle EXCEPT ![h] = AfterDrop(h)]
  /\ UNCHANGED <<canceled, reason, parents, lock, quick, caller, toWake, thread, woken>>

(* The next waker of the loop over the taken table.  A child's closure     *)
(* reads parent.reason() and calls _cancel_with_reason on the child.       *)
WakeNext(t) ==
  LET s == thread[t].top IN
  /\ thread[t].pc = "run"
  /\ toDrop[s] = {}
  /\ \E i \in Slots :
       LET w == toWake[s][i] IN
       /\ w # Empty
       /\ \A j \in 1..(i - 1) : toWake[s][j] = Empty
       /\ toWake' = [toWake EXCEPT ![s][i] = Empty]
       /\ IF handle[w.owner].child = None
            THEN /\ woken' = woken \cup {w}
                 /\ UNCHANGED thread
            ELSE /\ lock[s] = None
                 /\ thread' = [thread EXCEPT ![t] =
                                  [@ EXCEPT !.pc = "cancel", !.target = handle[w.owner].child,
                                            !.why = reason[s], !.via = s]]
                 /\ UNCHANGED woken
  /\ UNCHANGED <<signalVars, caller, toDrop, handle>>

EndCancel(t) ==
  LET s == thread[t].top IN
  /\ thread[t].pc = "run"
  /\ toDrop[s] = {}
  /\ toWake[s] = AllEmpty
  /\ ReturnTo(t, caller[s])
  /\ caller' = [caller EXCEPT ![s] = None]
  /\ UNCHANGED <<signalVars, toDrop, toWake, handle, woken>>

-------------------------------------------------------------------------------
(* add_parent_signal: t links the child c to the parent p. *)

(* The early return on parent.check(), or a fresh handle. *)
CallAddParent(t, c, p) ==
  /\ thread[t].pc = "idle"
  /\ IF quick[p]
       THEN /\ thread' = [thread EXCEPT ![t] = [IdleThread EXCEPT !.pc = "inherit", !.target = c, !.via = p]]
            /\ UNCHANGED handle
       ELSE \E h \in Handles :
              /\ handle[h].state = "unused"
              /\ handle' = [handle EXCEPT ![h] = [state |-> "local", sig |-> p, index |-> 0, child |-> c, gen |-> 0]]
              /\ thread' = [thread EXCEPT ![t] = [IdleThread EXCEPT !.pc = "register", !.target = c, !.via = p, !.own = h]]
  /\ UNCHANGED <<signalVars, frameVars, woken>>

(* Mutant: set_waker does not look at canceled under the lock. *)
RegisterUnchecked(t) ==
  LET h == thread[t].own
      p == thread[t].via IN
  /\ thread[t].pc = "register"
  /\ lock[p] = None
  /\ \E i \in Slots :
       /\ IsSlotFor(h, p, i)
       /\ slots' = [slots EXCEPT ![p][i] = WakerOf(h)]
       /\ handle' = [handle EXCEPT ![h].index = i]
       /\ thread' = [thread EXCEPT ![t].pc = "store"]
  /\ UNCHANGED <<canceled, reason, parents, lock, quick, frameVars, woken>>

(* set_waker_from_closure on the parent. *)
Register(t) ==
  LET h == thread[t].own
      p == thread[t].via IN
  /\ thread[t].pc = "register"
  /\ lock[p] = None
  /\ IF canceled[p]
       THEN /\ handle' = [handle EXCEPT ![h] = DroppedHandle]
            /\ thread' = [thread EXCEPT ![t] = [@ EXCEPT !.pc = "inherit", !.own = None]]
            /\ UNCHANGED slots
       ELSE \E i \in Slots :
              /\ IsSlotFor(h, p, i)
              /\ slots' = [slots EXCEPT ![p][i] = WakerOf(h)]
              /\ handle' = [handle EXCEPT ![h].index = i]
              /\ thread' = [thread EXCEPT ![t].pc = "store"]
  /\ UNCHANGED <<canceled, reason, parents, lock, quick, frameVars, woken>>

(* Mutant: the child is canceled with cancel(), which gives no reason. *)
InheritNoReason(t) ==
  /\ thread[t].pc = "inherit"
  /\ lock[thread[t].via] = None
  /\ thread' = [thread EXCEPT ![t].pc = "cancel"]
  /\ UNCHANGED <<signalVars, frameVars, handle, woken>>

(* parent.reason(), then _cancel_with_reason on the child. *)
Inherit(t) ==
  /\ thread[t].pc = "inherit"
  /\ lock[thread[t].via] = None
  /\ thread' = [thread EXCEPT ![t] = [@ EXCEPT !.pc = "cancel", !.why = reason[thread[t].via]]]
  /\ UNCHANGED <<signalVars, frameVars, handle, woken>>

AlreadyAdded(c, p) == \E h \in parents[c] : handle[h].sig = p

(* The child keeps the handle unless it is canceled or has that parent. *)
Store(t) ==
  LET c == thread[t].target IN
  /\ thread[t].pc = "store"
  /\ lock[c] = None
  /\ IF canceled[c] \/ AlreadyAdded(c, thread[t].via)
       THEN /\ thread' = [thread EXCEPT ![t].pc = "unlink"]
            /\ UNCHANGED <<parents, handle>>
       ELSE /\ parents' = [parents EXCEPT ![c] = @ \cup {thread[t].own}]
            /\ handle' = [handle EXCEPT ![thread[t].own].state = "linked"]
            /\ thread' = [thread EXCEPT ![t] = IdleThread]
  /\ UNCHANGED <<canceled, reason, slots, lock, quick, frameVars, woken>>

(* The local handle is dropped when add_parent_signal returns. *)
Unlink(t) ==
  LET h == thread[t].own IN
  /\ thread[t].pc = "unlink"
  /\ CanUnregister(h)
  /\ slots' = SlotsWithout(h)
  /\ handle' = [handle EXCEPT ![h] = AfterDrop(h)]
  /\ thread' = [thread EXCEPT ![t] = IdleThread]
  /\ UNCHANGED <<canceled, reason, parents, lock, quick, frameVars, woken>>

-------------------------------------------------------------------------------
(* Futures of other code: one owner each, so their methods do not race     *)
(* with each other, only with the signal.                                  *)

(* wait_future, poll and set_waker: a first waker, or one that replaces    *)
(* the last.  Nothing is stored when the signal is canceled.               *)
SetWaker(h, s) ==
  /\ \/ handle[h].state = "unused"
     \/ handle[h].state = "user" /\ handle[h].sig = s /\ handle[h].gen < MaxGen
  /\ lock[s] = None
  /\ ~canceled[s]
  /\ LET g == IF handle[h].state = "unused" THEN 0 ELSE handle[h].gen + 1 IN
     \E i \in Slots :
       /\ IsSlotFor(h, s, i)
       /\ slots' = [slots EXCEPT ![s][i] = [owner |-> h, gen |-> g]]
       /\ handle' = [handle EXCEPT ![h] = [state |-> "user", sig |-> s, index |-> i, child |-> None, gen |-> g]]
  /\ UNCHANGED <<canceled, reason, parents, lock, quick, frameVars, thread, woken>>

(* Mutant: drop forgets to clear the slot. *)
DropKeepingSlot(h) ==
  /\ handle[h].state = "user"
  /\ CanUnregister(h)
  /\ handle' = [handle EXCEPT ![h] = AfterDrop(h)]
  /\ UNCHANGED <<signalVars, frameVars, thread, woken>>

DropFuture(h) ==
  /\ handle[h].state = "user"
  /\ CanUnregister(h)
  /\ slots' = SlotsWithout(h)
  /\ handle' = [handle EXCEPT ![h] = AfterDrop(h)]
  /\ UNCHANGED <<canceled, reason, parents, lock, quick, frameVars, thread, woken>>

(* forget: the waker stays in the table and nobody owns the slot. *)
Forget(h) ==
  /\ handle[h].state = "user"
  /\ handle' = [handle EXCEPT ![h] = [@ EXCEPT !.state = "forgotten", !.index = 0]]
  /\ UNCHANGED <<signalVars, frameVars, thread, woken>>

-------------------------------------------------------------------------------
(* wait_timeout.  A call that finds the signal canceled returns at once.   *)

(* Mutant: the condition is not looked at before the first sleep. *)
CallWaitUnchecked(t, s) ==
  /\ thread[t].pc = "idle"
  /\ lock[s] = None
  /\ thread' = [thread EXCEPT ![t] = [IdleThread EXCEPT !.pc = "wait", !.target = s]]
  /\ UNCHANGED <<signalVars, frameVars, handle, woken>>

CallWait(t, s) ==
  /\ thread[t].pc = "idle"
  /\ lock[s] = None
  /\ ~canceled[s]
  /\ thread' = [thread EXCEPT ![t] = [IdleThread EXCEPT !.pc = "wait", !.target = s]]
  /\ UNCHANGED <<signalVars, frameVars, handle, woken>>

WaitCanceled(t) ==
  /\ thread[t].pc = "notified"
  /\ lock[thread[t].target] = None
  /\ thread' = [thread EXCEPT ![t] = IdleThread]
  /\ UNCHANGED <<signalVars, frameVars, handle, woken>>

(* The duration is over: the call returns Ok if the signal is not canceled *)
(* and an error otherwise.                                                 *)
WaitTimeout(t) ==
  /\ thread[t].pc = "wait"
  /\ lock[thread[t].target] = None
  /\ thread' = [thread EXCEPT ![t] = IdleThread]
  /\ UNCHANGED <<signalVars, frameVars, handle, woken>>

-------------------------------------------------------------------------------
Call(t) ==
  \/ \E s \in Signals : \E r \in Reasons[s] : CallCancel(t, s, r)
  \/ \E c, p \in Signals : CallAddParent(t, c, p)
  \/ \E s \in Signals : CallWait(t, s)

(* The steps of a call that was made; a thread that runs takes them. *)
Step(t) ==
  \/ EnterCanceled(t) \/ EnterCancel(t) \/ Publish(t) \/ NotifyAll(t)
  \/ DropParent(t) \/ WakeNext(t) \/ EndCancel(t)
  \/ Register(t) \/ Inherit(t) \/ Store(t) \/ Unlink(t)
  \/ WaitCanceled(t)

Future(h) ==
  \/ \E s \in Signals : SetWaker(h, s)
  \/ DropFuture(h)
  \/ Forget(h)

Next ==
  \/ \E t \in Threads : Call(t) \/ Step(t) \/ WaitTimeout(t)
  \/ \E h \in Handles : Future(h)

Spec == Init /\ [][Next]_vars

(* A thread inside a call is scheduled again.  Nothing forces a call, a    *)
(* timeout (it may be days away) or a step of a future's owner.            *)
FairSpec == Spec /\ \A t \in Threads : WF_vars(Step(t))

-------------------------------------------------------------------------------
TypeOK ==
  /\ canceled \in [Signals -> BOOLEAN]
  /\ reason \in [Signals -> Text]
  /\ slots \in [Signals -> [Slots -> Waker \cup {Empty}]]
  /\ parents \in [Signals -> SUBSET Handles]
  /\ lock \in [Signals -> Threads \cup {None}]
  /\ quick \in [Signals -> BOOLEAN]
  /\ caller \in [Signals -> Signals \cup {None}]
  /\ toDrop \in [Signals -> SUBSET Handles]
  /\ toWake \in [Signals -> [Slots -> Waker \cup {Empty}]]
  /\ handle \in [Handles -> Handle]
  /\ thread \in [Threads -> Thread]
  /\ woken \in SUBSET Waker

-------------------------------------------------------------------------------
(* The slot index in a future is only meaningful while nobody else can get *)
(* that slot: set_waker on the future and its drop touch that slot without *)
(* asking whose waker it holds (lines 134 and 177).  While the signal is   *)
(* not canceled, the slot of a live future holds that future's last waker. *)
SlotOwnership ==
  \A h \in Handles :
    LET s == handle[h].sig IN
    Live(h) /\ handle[h].index # 0 /\ ~canceled[s]
      => slots[s][handle[h].index] = WakerOf(h)

(* No slot outlives its future: an occupied slot is the one slot of a live *)
(* future of that signal, or its future was forgotten on purpose.          *)
NoOrphanSlot ==
  \A s \in Signals, i \in Slots :
    slots[s][i] # Empty =>
      LET h == slots[s][i].owner IN
      /\ handle[h].sig = s
      /\ slots[s][i] = WakerOf(h)
      /\ \/ Live(h) /\ handle[h].index = i
         \/ handle[h].state = "forgotten"

(* The table of wakers and the slots that futures remember agree. *)
SlotsOwned == SlotOwnership /\ NoOrphanSlot

(* A canceled child leaves the table of every parent: whatever slot it     *)
(* still has belongs to a handle that the running cancel call will drop.   *)
(* Without this each new_child_signal would grow its parent for ever.      *)
NoLeakedLink ==
  \A s \in Signals, i \in Slots :
    slots[s][i] # Empty =>
      LET h == slots[s][i].owner IN
      handle[h].state = "linked" /\ canceled[handle[h].child]
        => h \in toDrop[handle[h].child]

WillWake(h) == \E i \in Slots : toWake[handle[h].sig][i] = WakerOf(h)

CancelingFor(c, p) ==
  \E t \in Threads : thread[t].pc = "cancel" /\ thread[t].target = c /\ thread[t].via = p

(* No registration is lost in the race between set_waker and the cancel    *)
(* call: once the signal is canceled, every waker that was accepted and    *)
(* not dropped was woken or is in the taken table; the waker of a linked   *)
(* child may also have turned into a running call on the child.            *)
NoLostWakeup ==
  \A h \in Handles :
    LET s == handle[h].sig
        c == handle[h].child IN
    /\ handle[h].state \in {"user", "forgotten"} /\ canceled[s]
         => WakerOf(h) \in woken \/ WillWake(h)
    /\ handle[h].state = "linked" /\ canceled[s] /\ ~canceled[c]
         => WillWake(h) \/ CancelingFor(c, s)

(* A waker that was replaced, or whose future was dropped before the       *)
(* signal was canceled, is never woken, and none is woken before that.     *)
WokenWakers ==
  \A w \in woken :
    LET h == w.owner IN
    /\ handle[h].state \in {"user", "forgotten", "late"}
    /\ w = WakerOf(h)
    /\ canceled[handle[h].sig]

(* The links of the abstract specification: the parent's table or the      *)
(* taken table has the child's waker, or a call is about to cancel it.     *)
Linked(c, p) ==
  \/ \E h \in Handles :
       /\ handle[h].state \in {"local", "linked"}
       /\ handle[h].child = c /\ handle[h].sig = p
       /\ \E i \in Slots : WakerOf(h) \in {slots[p][i], toWake[p][i]}
  \/ \E t \in Threads :
       thread[t].pc \in {"inherit", "cancel"} /\ thread[t].target = c /\ thread[t].via = p

(* The calls on signals with all their races implement the promise of      *)
(* CancelTree: a signal is canceled once, with the given reason or with    *)
(* its parent's, and a link is only lost with the child's cancellation.    *)
Tree == INSTANCE CancelTree WITH
          canceled <- {s \in Signals : canceled[s]},
          links <- {l \in Signals \X Signals : ~canceled[l[1]] /\ Linked(l[1], l[2])}

ImplementsTree == Tree!Spec

(* A linked child of a canceled signal is canceled in the end. *)
Propagation == Tree!Propagation

(* Every call returns: neither the nested cancel calls, nor links that     *)
(* form a cycle, nor two threads that cancel two ends of a link at the     *)
(* same time block each other.  wait_timeout may wait for ever.            *)
CallsReturn ==
  \A t \in Threads :
    thread[t].pc \notin {"idle", "wait"} ~> thread[t].pc \in {"idle", "wait"}

(* wait_timeout does not sleep through a cancellation, however long the    *)
(* duration is.                                                            *)
WaitersReturn ==
  \A t \in Threads, s \in Signals : (Waits(t, s) /\ canceled[s]) ~> ~Waits(t, s)
===============================================================================
