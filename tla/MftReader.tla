------------------------------- MODULE MftReader -------------------------------
(***************************************************************************)
(* What parse_mft reads a volume through: MftCache (backup/mft.rs) around  *)
(* a BufReader around a SectorReader (backup/sector_reader.rs), which only *)
(* reads whole sectors and only from the start of one, and relies on being *)
(* put there by a seek.  BufReader is external: its capacity is a sector.  *)
(*                                                                         *)
(* The byte at a position of the volume is that position.                  *)
(***************************************************************************)
EXTENDS Integers, SequencesExt

CONSTANTS Sector,  \* sector_size of the SectorReader, capacity of the BufReader
          Size,    \* bytes of the volume
          MaxRead, \* bound: bytes that are asked for at once
          MaxCached \* bound: reads that are kept in the cache

ASSUME ReaderAssumption ==
  /\ Sector \in Nat \ {0}
  /\ Size \in Nat /\ MaxRead \in Nat /\ MaxCached \in Nat

VARIABLES raw,    \* position of the volume itself
          stream, \* stream_position of the SectorReader
          buffer, \* what the BufReader has read and not given out yet
          cached, \* MftCache: reads that are kept, with the position of each
          keeps,  \* cache_read_values
          got     \* what the last operation has read

readerVars == <<raw, stream, buffer, cached, keeps, got>>

Bytes(from, len) == [i \in 1..len |-> from + i - 1]

(* The volume was read with another SectorReader before (Ntfs::new). *)
ReaderInit ==
  /\ raw \in 0..Size
  /\ stream = 0
  /\ buffer = <<>>
  /\ cached = <<>>
  /\ keeps = TRUE
  /\ got = <<>>

-------------------------------------------------------------------------------
AlignDown(n) == (n \div Sector) * Sector

(* Also a number that is aligned becomes larger. *)
AlignUp(n) == AlignDown(n) + Sector

(* SectorReader::read of n bytes, from the volume at position at: it does  *)
(* not seek.  All sectors must be there (read_exact).                      *)
Start == stream - AlignDown(stream)
Wanted(n) == AlignUp(Start + n)
SectorFails(at, n) == at + Wanted(n) > Size
SectorBytes(at, n) == SubSeq(Bytes(at, Wanted(n)), Start + 1, Start + n)

(* BufReader::stream_position and ::seek, through SectorReader::seek. *)
Position == stream - Len(buffer)

(* Mutant: the volume is left where it is. *)
Unmoved(n) == raw

(* SectorReader::seek: the volume is put at the start of a sector. *)
Aligned(n) == AlignDown(n)

(* Asking for the position seeks by zero, and the buffer is kept. *)
Realigned == Aligned(stream)

SeekTo(p) ==
  /\ raw' = Aligned(p)
  /\ stream' = p
  /\ buffer' = <<>>

(* MftCache::read. *)
Hits == {i \in DOMAIN cached : Position >= cached[i].at
                                 /\ Position < cached[i].at + Len(cached[i].data)}

ReadCached(n) ==
  /\ \E i \in Hits :
       /\ \A j \in Hits : i <= j
       /\ LET hit == cached[i]
              offset == Position - hit.at
              len == IF n < Len(hit.data) - offset THEN n ELSE Len(hit.data) - offset IN
          /\ got' = SubSeq(hit.data, offset + 1, offset + len)
          /\ SeekTo(Position + len)
  /\ UNCHANGED <<cached, keeps>>

(* The position is asked for before the data is read. *)
KeptAt(data) == [at |-> Position, data |-> data]

Keep(data) ==
  cached' = IF keeps /\ data # <<>> THEN Append(cached, KeptAt(data)) ELSE cached

(* A read past the buffer, of a sector or more, does not use the buffer. *)
Bypass(n) ==
  /\ Hits = {}
  /\ buffer = <<>> /\ n >= Sector
  /\ ~SectorFails(Realigned, n)
  /\ got' = SectorBytes(Realigned, n)
  /\ raw' = Realigned + Wanted(n)
  /\ stream' = stream + n
  /\ Keep(got')
  /\ UNCHANGED <<buffer, keeps>>

Buffered(data, rest, n) ==
  LET len == IF n < Len(data) THEN n ELSE Len(data) IN
  /\ got' = SubSeq(data, 1, len)
  /\ buffer' = SubSeq(data, len + 1, Len(data))
  /\ stream' = rest
  /\ Keep(got')
  /\ UNCHANGED keeps

FromBuffer(n) ==
  /\ Hits = {}
  /\ buffer # <<>>
  /\ Buffered(buffer, stream, n)
  /\ raw' = Realigned

Fill(n) ==
  /\ Hits = {}
  /\ buffer = <<>> /\ n < Sector
  /\ ~SectorFails(Realigned, Sector)
  /\ Buffered(SectorBytes(Realigned, Sector), stream + Sector, n)
  /\ raw' = Realigned + Wanted(Sector)

(* Where a read that fails leaves the volume is not specified.  The sector *)
(* after the last byte must be there too.                                  *)
ReadFails(n) ==
  /\ Hits = {}
  /\ buffer = <<>>
  /\ SectorFails(Realigned, IF n < Sector THEN Sector ELSE n)
  /\ raw' \in 0..Size
  /\ got' = <<>>
  /\ UNCHANGED <<stream, buffer, cached, keeps>>

(* From the start, or by an offset from the position. *)
Seek(p) ==
  /\ SeekTo(p)
  /\ got' = <<>>
  /\ UNCHANGED <<cached, keeps>>

(* The bitmap has been read; from here on nothing is added to the cache. *)
StopKeeping ==
  /\ keeps
  /\ keeps' = FALSE
  /\ got' = <<>>
  /\ UNCHANGED <<raw, stream, buffer, cached>>

ReaderNext ==
  \/ \E n \in 1..MaxRead :
       \/ ReadCached(n)
       \/ /\ keeps => Len(cached) < MaxCached
          /\ Bypass(n) \/ FromBuffer(n) \/ Fill(n)
       \/ ReadFails(n)
  \/ \E p \in 0..Size : Seek(p)
  \/ StopKeeping

ReaderSpec == ReaderInit /\ [][ReaderNext]_readerVars

-------------------------------------------------------------------------------
Stream == INSTANCE ReadStream WITH position <- Position, bytes <- got

(* Whatever the reads and seeks: a read gives the bytes at the position,   *)
(* neither from the cache, nor from the buffer, nor from a volume that is  *)
(* elsewhere because of the sectors read ahead or a read that failed.      *)
ImplementsStream == Stream!Spec
===============================================================================
