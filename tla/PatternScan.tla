----------------------------- MODULE PatternScan -----------------------------
(***************************************************************************)
(* ScanProcessForPatternGlobal (scan_pattern.hpp): look for a byte pattern *)
(* in every committed readable region of a process, a chunk at a time.     *)
(* The last patternSize - 1 bytes of a chunk (tail) are put before the     *)
(* next one, so that an occurrence across two chunks is found, once.       *)
(*                                                                         *)
(* A chunk that cannot be read is skipped together with the tail.  The     *)
(* memory does not change during the scan.  One action is one call of      *)
(* VirtualQueryEx or one chunk read.                                       *)
(***************************************************************************)
EXTENDS Integers, Sequences, FiniteSetsExt

CONSTANTS
  Bytes,
  Patterns,    \* patterns looked for
  ChunkSizes,  \* chunk sizes asked for
  MinChunk,    \* the least chunk size (0x1000)
  Maps,        \* address spaces: sequences of [start, size, scanned, lost]
               \* records in the order of their addresses, lost being offsets
               \* of bytes that cannot be read after all
  HitLimits    \* maxHits; 0 is no limit

VARIABLES
  map, memory,           \* the address space and its bytes, fixed
  pattern, chunkSize, maxHits,
  pc,
  region,                \* index of the region being scanned
  readAddr,              \* offset of the next chunk in the region
  tail,
  outHits

args == <<map, memory, pattern, chunkSize, maxHits>>
vars == <<args, pc, region, readAddr, tail, outHits>>

Addresses(m) == UNION {m[r].start..(m[r].start + m[r].size - 1) : r \in DOMAIN m}

\* The chunk size is raised to the least one and to the pattern's length.
EffectiveChunk(asked, p) == Max({asked, MinChunk, Len(p)})

Init ==
  /\ map \in Maps
  /\ memory \in [Addresses(map) -> Bytes]
  /\ pattern \in Patterns
  /\ \E asked \in ChunkSizes : chunkSize = EffectiveChunk(asked, pattern)
  /\ maxHits \in HitLimits
  /\ pc = "query" /\ region = 0 /\ readAddr = 0
  /\ tail = <<>>
  /\ outHits = <<>>

\* VirtualQueryEx for the region after the last one; regions that are not
\* committed and readable, or are shorter than the pattern, are passed over.
QueryRegion ==
  /\ pc = "query"
  /\ region' = region + 1
  /\ readAddr' = 0
  /\ tail' = <<>>
  /\ pc' = IF region + 1 > Len(map) THEN "done"
           ELSE IF map[region + 1].scanned /\ map[region + 1].size >= Len(pattern) THEN "chunk"
           ELSE "query"
  /\ UNCHANGED <<args, outHits>>

ChunkLength == Min({chunkSize, map[region].size - readAddr})

ReadFails == \E o \in map[region].lost : o >= readAddr /\ o < readAddr + ChunkLength

\* The bytes compared: tail, then the chunk.
Window == tail \o [k \in 1..ChunkLength |-> memory[map[region].start + readAddr + k - 1]]

\* tail for the next chunk.
Keep(w) == SubSeq(w, Len(w) - Min({Len(pattern) - 1, Len(w)}) + 1, Len(w))

AddressIn(k) == map[region].start + readAddr - Len(tail) + k - 1

MatchesAt(w, k) ==
  /\ k + Len(pattern) - 1 <= Len(w)
  /\ \A j \in 1..Len(pattern) : w[k + j - 1] = pattern[j]

Full(hits) == maxHits # 0 /\ Len(hits) >= maxHits

\* outHits after the places of window w, up to maxHits.
HitsAfter(w) ==
  LET hits[k \in 0..Len(w)] ==
        IF k = 0 THEN outHits
        ELSE IF MatchesAt(w, k) /\ ~ Full(hits[k - 1]) THEN Append(hits[k - 1], AddressIn(k))
        ELSE hits[k - 1]
  IN  hits[Len(w)]

NextChunk(t) ==
  /\ tail' = t
  /\ readAddr' = readAddr + ChunkLength
  /\ pc' = IF readAddr + ChunkLength < map[region].size THEN "chunk" ELSE "query"

\* Mutant: the tail outlives a chunk that cannot be read.
SkipKeepingTail ==
  /\ pc = "chunk"
  /\ ReadFails
  /\ NextChunk(tail)
  /\ UNCHANGED <<args, region, outHits>>

SkipChunk ==
  /\ pc = "chunk"
  /\ ReadFails
  /\ NextChunk(<<>>)
  /\ UNCHANGED <<args, region, outHits>>

ScanChunk ==
  /\ pc = "chunk"
  /\ ~ ReadFails
  /\ outHits' = HitsAfter(Window)
  /\ IF Full(outHits')
       THEN pc' = "done" /\ UNCHANGED <<readAddr, tail>>
       ELSE NextChunk(Keep(Window))
  /\ UNCHANGED <<args, region>>

\* The scan has returned.
Finished == pc = "done" /\ UNCHANGED vars

Next == QueryRegion \/ SkipChunk \/ ScanChunk \/ Finished

Spec == Init /\ [][Next]_vars

(***************************************************************************)
(* Properties.                                                             *)
(***************************************************************************)

\* The reference: where the pattern is, within one scanned region and clear
\* of every chunk with a byte that cannot be read.
Lost(r) == {o \div chunkSize : o \in map[r].lost}

Occurrences ==
  UNION {
    {map[r].start + o : o \in
       {o \in 0..(map[r].size - 1) :
          /\ map[r].scanned /\ o + Len(pattern) <= map[r].size
          /\ \A k \in 1..Len(pattern) : /\ memory[map[r].start + o + k - 1] = pattern[k]
                                        /\ (o + k - 1) \div chunkSize \notin Lost(r)}}
    : r \in 1..Len(map)}

\* When the scan returns, its hits are the occurrences in ascending order,
\* each once, cut off at the limit: none is missed where two chunks meet and
\* none is made up of bytes from either side of a chunk that was skipped.
HitsAreOccurrences ==
  pc = "done" =>
    /\ \A i, j \in DOMAIN outHits : i < j => outHits[i] < outHits[j]
    /\ Range(outHits) \subseteq Occurrences
    /\ \A o \in Occurrences \ Range(outHits) : Full(outHits) /\ o > outHits[Len(outHits)]
    /\ maxHits # 0 => Len(outHits) <= maxHits
==============================================================================
