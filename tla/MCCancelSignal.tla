---------------------------- MODULE MCCancelSignal ----------------------------
(* Bounds for CancelSignal. *)
EXTENDS CancelSignal, TLC

CONSTANTS s1, s2, s3, t1, t2, h1, h2, h3, r1

Symmetry == Permutations({t1, t2}) \cup Permutations({h1, h2, h3}) \cup Permutations({s1, s2})
TreeSymmetry == Permutations({t1, t2}) \cup Permutations({h1, h2})

NoReasons == [s \in Signals |-> {NoReason}]

(* s1 is only canceled with a reason, s2 only without one and s3 only by   *)
(* its parents.                                                            *)
TreeReasons == (s1 :> {r1}) @@ (s2 :> {NoReason}) @@ (s3 :> {})
===============================================================================
