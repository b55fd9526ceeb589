------------------------------ MODULE ReadStream ------------------------------
(***************************************************************************)
(* What a reader of the MFT is promised (Read and Seek of the standard     *)
(* library): it reads the bytes at its position, and then is behind them;  *)
(* a read may give less than was asked for, or fail and change nothing.    *)
(* The byte at a position is that position.                                *)
(***************************************************************************)
EXTENDS Integers, Sequences

CONSTANTS Size,   \* bytes of the volume
          MaxRead \* bound: bytes that are asked for at once

VARIABLES position,
          bytes     \* what the last operation has read

vars == <<position, bytes>>

Init == position = 0 /\ bytes = <<>>

Read(n) ==
  \E len \in 0..n :
    /\ position + len <= Size
    /\ bytes' = [i \in 1..len |-> position + i - 1]
    /\ position' = position + len

Seek(p) ==
  /\ position' = p
  /\ bytes' = <<>>

(* A seek before the start is refused. *)
Fail ==
  /\ bytes' = <<>>
  /\ UNCHANGED position

Next ==
  \/ \E n \in 1..MaxRead : Read(n)
  \/ \E p \in 0..Size : Seek(p)
  \/ Fail

Spec == Init /\ [][Next]_vars
===============================================================================
