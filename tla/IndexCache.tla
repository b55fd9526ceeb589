------------------------------ MODULE IndexCache ------------------------------
(***************************************************************************)
(* AutoCompressedFsIndex of mount.rs and its CompressibleFsIndex: the      *)
(* index that the WebDAV server answers from.  Requests that run at the    *)
(* same time share it as an Arc, which they clone under the mutex of the   *)
(* cache and keep after it.  To save memory the cache can give its own Arc *)
(* up (compress is public; no command calls it): it then keeps the         *)
(* compressed records, and a Weak by which it finds the index again as     *)
(* long as a request still has it.                                         *)
(*                                                                         *)
(* Indexes are numbered in the order in which they are built.              *)
(***************************************************************************)
EXTENDS Naturals

CONSTANTS Requests, \* requests that the server is answering
          MaxBuilt  \* bound: indexes that are built

ASSUME CacheAssumption == MaxBuilt \in Nat \ {0}

VARIABLES mode,  \* "available" or "compressed"
          index, \* the index that the cache refers to, weakly when compressed
          using, \* the index that each request has, 0 for none
          built  \* indexes built so far

cacheVars == <<mode, index, using, built>>

(* from_compressed builds the first index; the data it was built from is   *)
(* freed, as nobody keeps more than a Weak to it.                          *)
CacheInit ==
  /\ mode = "available"
  /\ index = 1
  /\ using = [r \in Requests |-> 0]
  /\ built = 1

InUse(i) == \E r \in Requests : using[r] = i

(* Mutant: the index is always built again. *)
FoundNever == mode = "available"

(* Weak::upgrade *)
Found == mode = "available" \/ InUse(index)

(* fs_index and decompressed_index *)
Acquire(r) ==
  /\ using[r] = 0
  /\ Found \/ built < MaxBuilt
  /\ mode' = "available"
  /\ index' = IF Found THEN index ELSE built + 1
  /\ built' = IF Found THEN built ELSE built + 1
  /\ using' = [using EXCEPT ![r] = index']

(* get_directory_info or get_metadata returns. *)
Release(r) ==
  /\ using[r] # 0
  /\ using' = [using EXCEPT ![r] = 0]
  /\ UNCHANGED <<mode, index, built>>

(* compress and compressed_data: the records are compressed again. *)
Compress ==
  /\ mode = "available"
  /\ mode' = "compressed"
  /\ UNCHANGED <<index, using, built>>

CacheNext ==
  \/ \E r \in Requests : Acquire(r) \/ Release(r)
  \/ Compress

CacheSpec == CacheInit /\ [][CacheNext]_cacheVars

-------------------------------------------------------------------------------
CacheTypeOK ==
  /\ mode \in {"available", "compressed"}
  /\ built \in Nat \ {0}
  /\ index \in 1..built
  /\ using \in [Requests -> 0..built]

(* There is never more than one index in memory, however compressions,     *)
(* requests that go on across them and new requests interleave: who has    *)
(* one has the one that the cache has or would find again.                 *)
OneIndexInMemory == \A r \in Requests : using[r] \in {0, index}
===============================================================================
