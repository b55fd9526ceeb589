------------------------------ MODULE CancelTree ------------------------------
(***************************************************************************)
(* What a graph of cancel signals promises its users, without locks, slots *)
(* or threads.  A signal is canceled once, by a call or because a parent   *)
(* was canceled; in the second case it carries the parent's reason.  A     *)
(* link between a child and a parent exists from the moment the parent     *)
(* knows of it and disappears only when the child is canceled.             *)
(* CancelSignal implements this specification.                             *)
(***************************************************************************)
CONSTANTS Signals,   \* the cancel signals
          Reasons,   \* for each signal the texts a caller may give
          NoReason   \* the empty reason

VARIABLES canceled,  \* the set of canceled signals
          reason,    \* the reason of each signal
          links      \* pairs <<child, parent>> of children not yet canceled

vars == <<canceled, reason, links>>

Init ==
  /\ canceled = {}
  /\ reason = [s \in Signals |-> NoReason]
  /\ links = {}

(* s becomes canceled with reason r and forgets its parents. *)
BecomeCanceled(s, r) ==
  /\ s \notin canceled
  /\ canceled' = canceled \cup {s}
  /\ reason' = [reason EXCEPT ![s] = r]
  /\ links' = {l \in links : l[1] # s}

Cancel(s) == \E r \in Reasons[s] : BecomeCanceled(s, r)

Inherit(c, p) ==
  /\ <<c, p>> \in links
  /\ p \in canceled
  /\ BecomeCanceled(c, reason[p])

Link(c, p) ==
  /\ c \notin canceled
  /\ links' = links \cup {<<c, p>>}
  /\ UNCHANGED <<canceled, reason>>

Next == \E c, p \in Signals : Cancel(c) \/ Inherit(c, p) \/ Link(c, p)

Spec == Init /\ [][Next]_vars

(* A child with a canceled parent is canceled in the end.  Not a property  *)
(* of Spec alone: it is the liveness that an implementation must add.      *)
Propagation ==
  \A c, p \in Signals : (<<c, p>> \in links /\ p \in canceled) ~> (c \in canceled)
===============================================================================
