------------------------------- MODULE PathFiles -------------------------------
(***************************************************************************)
(* What a client of the WebDAV file system sees: paths that lead to        *)
(* directories and to files with contents, and open files that stay with   *)
(* their file when it is moved.  WebDavMemFs implements this.              *)
(***************************************************************************)
EXTENDS Integers, SequencesExt

CONSTANTS Handles, Paths, Bytes, Positions

VARIABLES files,  \* directories and files by path
          opened  \* the files that are open, by handle

vars == <<files, opened>>

Closed == [isOpen |-> FALSE, path |-> <<>>, gone |-> FALSE, append |-> FALSE]
Directory == [isDir |-> TRUE, data |-> <<>>]
EmptyFile == [isDir |-> FALSE, data |-> <<>>]

Init ==
  /\ files = [p \in {<<>>} |-> Directory]
  /\ opened = [h \in Handles |-> Closed]

Put(p, file) == [q \in DOMAIN files \cup {p} |-> IF q = p THEN file ELSE files[q]]

Exists(p) == p \in DOMAIN files
IsFree(p) == p # <<>> /\ ~Exists(p) /\ Exists(Front(p)) /\ files[Front(p)].isDir
IsFile(p) == Exists(p) /\ ~files[p].isDir
Childless(p) == \A q \in DOMAIN files : ~IsStrictPrefix(p, q)

(* Where handles are when the file at p is gone. *)
GoneFrom(p) ==
  [h \in Handles |-> IF opened[h].isOpen /\ ~opened[h].gone /\ opened[h].path = p
                       THEN [opened[h] EXCEPT !.gone = TRUE, !.path = <<>>] ELSE opened[h]]

(* data with buf written at a position, zeros up to there if it is short. *)
Overlay(data, at, buf) ==
  [i \in 1..Max({Len(data), at + Len(buf)}) |->
     IF i \in at + 1..at + Len(buf) THEN buf[i - at]
     ELSE IF i <= Len(data) THEN data[i] ELSE 0]

MakeDir(p) ==
  /\ IsFree(p)
  /\ files' = Put(p, Directory)
  /\ UNCHANGED opened

Open(h, p, append) ==
  /\ \/ IsFile(p) /\ files' \in {files, [files EXCEPT ![p] = EmptyFile]}
     \/ IsFree(p) /\ files' = Put(p, EmptyFile)
  /\ opened' = [opened EXCEPT ![h] =
                  [isOpen |-> TRUE, path |-> p, gone |-> FALSE, append |-> append]]

Close(h) ==
  /\ opened' = [opened EXCEPT ![h] = Closed]
  /\ UNCHANGED files

(* A write changes the file that was opened and nothing else. *)
Write(h, at, b) ==
  LET f == opened[h] IN
  /\ f.isOpen /\ ~f.gone
  /\ IsFile(f.path)
  /\ f.append => at = Len(files[f.path].data)
  /\ files' = [files EXCEPT ![f.path].data = Overlay(@, at, <<b>>)]
  /\ UNCHANGED opened

Delete(p) ==
  /\ p # <<>>
  /\ Childless(p)
  /\ files' = [q \in DOMAIN files \ {p} |-> files[q]]
  /\ opened' = GoneFrom(p)

(* All that is below p moves along, and so do open files. *)
Move(p, q) ==
  LET moved(x) == IF IsPrefix(p, x) THEN q \o SubSeq(x, Len(p) + 1, Len(x)) ELSE x
      after == GoneFrom(q) IN
  /\ p # <<>>
  /\ ~IsPrefix(p, q)
  /\ IsFree(q) \/ (Exists(q) /\ Childless(q))
  /\ DOMAIN files' = {moved(x) : x \in DOMAIN files \ {q}}
  /\ \A x \in DOMAIN files \ {q} : files'[moved(x)] = files[x]
  /\ opened' = [h \in Handles |->
                  IF after[h].isOpen /\ ~after[h].gone
                    THEN [after[h] EXCEPT !.path = moved(@)] ELSE after[h]]

Copy(p, q) ==
  /\ IsFree(q) \/ IsFile(q)
  /\ files' = Put(q, files[p])
  /\ UNCHANGED opened

Next ==
  \/ \E h \in Handles :
       \/ Close(h)
       \/ \E b \in Bytes, at \in Positions : Write(h, at, b)
       \/ \E p \in Paths, append \in BOOLEAN : Open(h, p, append)
  \/ \E p \in Paths : MakeDir(p)
  \/ \E p \in DOMAIN files : Delete(p)
  \/ \E p \in DOMAIN files, q \in Paths : Copy(p, q) \/ Move(p, q)

Spec == Init /\ [][Next]_vars
===============================================================================
