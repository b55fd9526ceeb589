---------------------------- MODULE MCBackupCommand ----------------------------
(***************************************************************************)
(* One run for the command and for the reader of the volume below it: they *)
(* share no state but the bytes that are read, so that a behaviour is of   *)
(* one or of the other.                                                    *)
(***************************************************************************)
EXTENDS BackupCommand, MftReader

VARIABLE user \* "scan" or "reader"

NameRank == [n \in Names |-> CASE n = "a" -> 1 [] n = "b" -> 2 [] OTHER -> 3]

(* The third name is one like "a\b\". *)
NameSplit == [n \in Names |-> IF n = "c" THEN <<"a", "b", "">> ELSE <<n>>]

MCInit ==
  /\ BackupInit
  /\ ReaderInit
  /\ user \in {"scan", "reader"}
  /\ user = "scan" => raw = 0

MCNext ==
  /\ UNCHANGED user
  /\ \/ user = "scan" /\ Next /\ UNCHANGED readerVars
     \/ user = "reader" /\ ReaderNext /\ UNCHANGED vars

MCSpec == MCInit /\ [][MCNext]_<<vars, readerVars, user>>
===============================================================================
