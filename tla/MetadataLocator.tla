--------------------------- MODULE MetadataLocator ----------------------------
(***************************************************************************)
(* ExportMetadataByScore (metadata/export.hpp): find the pointer to the    *)
(* metadata image in the .data sections of a module                        *)
(* (FindMetadataPointerByScore), take the size of what it points to from   *)
(* its header, and copy it.                                                *)
(*                                                                         *)
(* One action is one read of target memory.  Reads of the module's own     *)
(* sections, of pages and of bytes may fail at any time.  Pages collected  *)
(* from a chunk are looked at in the order of an unordered_map: any order. *)
(***************************************************************************)
EXTENDS MetadataHeader

CONSTANTS
  None,
  Blobs,      \* places words of the module point to
  PageOf,     \* the page of each
  Fits,       \* whether a header at that place lies within its page
  HeaderAt,   \* the words found there, as a header
  Modules,    \* modules looked at: [size, sections, word], word by offset
  Word,       \* bytes of a word (8)
  ChunkSize,  \* chunkSize
  MaxPages,   \* maxPages
  ReadSize    \* readChunkSize

VARIABLES
  module,    \* the module, fixed
  pc,
  section,   \* index of the section being scanned
  offset,    \* of the current chunk in it
  off,       \* of the current word in the chunk
  front,     \* what the first word of chunkBuf holds
  pageMap,   \* candidates by page: sequences of [at, to]
  best,      \* the best candidate so far: [at, to, score]
  expired,   \* maxSeconds have passed
  copied,    \* bytes in out
  ok,        \* what the call returned
  missed     \* history: places whose pointer or page could not be read

vars == <<module, pc, section, offset, off, front, pageMap, best, expired, copied, ok, missed>>

NotFound == [at |-> 0, to |-> None, score |-> 0]
Score(b) == IF Fits[b] THEN ScoreMetadataHeader(HeaderAt[b]) ELSE 0

\* A section of size 0, or one that runs past the image, is taken to its end.
Clipped(s) ==
  LET room == module.size - s.rva
  IN  [s EXCEPT !.size = IF s.size = 0 \/ s.size > room THEN room ELSE s.size]

\* scanSections: those called .data that start within the image.
ScanSections == {i \in DOMAIN module.sections : module.sections[i].data /\ module.sections[i].rva < module.size}

Init ==
  /\ module \in Modules
  /\ pc = "sections"
  /\ section = 1 /\ offset = 0 /\ off = 0
  /\ front = None /\ pageMap = <<>> /\ best = NotFound
  /\ expired = FALSE /\ copied = 0 /\ ok = FALSE /\ missed = {}

\* ReadModuleSections, which may fail.
ReadSections ==
  /\ pc = "sections"
  /\ pc' \in {"chunk", "returned"}
  /\ UNCHANGED <<module, section, offset, off, front, pageMap, best, expired, copied, ok, missed>>

Scanned == Clipped(module.sections[section])
ToRead == Min({ChunkSize, Scanned.size - offset})
ChunkAt == Scanned.rva + offset

\* Mutant: the last word of a chunk is left out.
LimitBelow == IF ToRead > Word THEN ToRead - Word - 1 ELSE 0

\* The last position in the chunk that is looked at.
Limit == IF ToRead >= Word THEN ToRead - Word ELSE 0

WordAt(a) == module.word[a]
PlacesIn(a, n) == {WordAt(a + k) : k \in {k \in 0..(n - Word) : k % Word = 0}} \ {None}

\* Out of time, or the section is done or not wanted: the next one.
NextSection ==
  /\ pc = "chunk"
  /\ section <= Len(module.sections)
  /\ expired \/ section \notin ScanSections \/ offset >= Scanned.size
  /\ section' = section + 1
  /\ offset' = 0
  /\ UNCHANGED <<module, pc, off, front, pageMap, best, expired, copied, ok, missed>>

ReadChunk ==
  /\ pc = "chunk"
  /\ section \in ScanSections
  /\ ~ expired
  /\ offset < Scanned.size
  /\ \/ /\ pc' = "word" /\ off' = 0
        /\ front' = IF ToRead >= Word THEN WordAt(ChunkAt) ELSE front
        /\ UNCHANGED <<offset, missed>>
     \/ /\ offset' = offset + ToRead
        /\ missed' = missed \cup PlacesIn(ChunkAt, ToRead)
        /\ UNCHANGED <<pc, off, front>>
  /\ UNCHANGED <<module, section, pageMap, best, expired, copied, ok>>

\* The word at off.  A chunk shorter than a word leaves a part of the one
\* before it in the buffer.
Found == IF ToRead >= Word THEN {WordAt(ChunkAt + off)} ELSE {front, None}

Added(p) ==
  LET page == PageOf[p]
      cand == [at |-> ChunkAt + off, to |-> p]
  IN  [q \in DOMAIN pageMap \cup {page} |->
         IF q # page THEN pageMap[q]
         ELSE IF q \in DOMAIN pageMap THEN Append(pageMap[q], cand) ELSE <<cand>>]

LookAtWord ==
  /\ pc = "word"
  /\ off <= Limit
  /\ \E p \in Found : pageMap' = IF p = None THEN pageMap ELSE Added(p)
  /\ off' = off + Word
  /\ pc' = IF Cardinality(DOMAIN pageMap') >= MaxPages \/ off' > Limit THEN "page" ELSE "word"
  /\ UNCHANGED <<module, section, offset, front, best, expired, copied, ok, missed>>

\* Mutant: the last candidate that is one at all is kept.
LastOf(b, cands) ==
  LET some == {k \in DOMAIN cands : Score(cands[k].to) > 0}
      last == cands[Max(some)]
  IN  IF some = {} THEN b ELSE [at |-> last.at, to |-> last.to, score |-> Score(last.to)]

\* best after the candidates of one page: the first with the highest score, if
\* that is higher.
BestOf(b, cands) ==
  LET score(k) == Score(cands[k].to)
      first(k) == \A j \in DOMAIN cands : score(j) < score(k) \/ (score(j) = score(k) /\ k <= j)
  IN  IF \A k \in DOMAIN cands : score(k) <= b.score THEN b
      ELSE LET k == CHOOSE k \in DOMAIN cands : first(k)
           IN  [at |-> cands[k].at, to |-> cands[k].to, score |-> score(k)]

Without(page) == [q \in DOMAIN pageMap \ {page} |-> pageMap[q]]

\* validatePages, page by page.  Once there is a best, the page just read
\* ends the search if the last byte of best can be read.
ReadPage ==
  /\ pc = "page"
  /\ \E page \in DOMAIN pageMap :
       /\ best' = BestOf(best, pageMap[page])
       /\ pageMap' = Without(page)
       /\ IF best' = NotFound THEN UNCHANGED pc ELSE pc' \in {pc, "found"}
  /\ UNCHANGED <<module, section, offset, off, front, expired, copied, ok, missed>>

PageUnreadable ==
  /\ pc = "page"
  /\ \E page \in DOMAIN pageMap :
       /\ pageMap' = Without(page)
       /\ missed' = missed \cup {c.to : c \in Range(pageMap[page])}
  /\ UNCHANGED <<module, pc, section, offset, off, front, best, expired, copied, ok>>

\* All pages done: a best is returned even when its last byte was unreadable.
PagesDone ==
  /\ pc = "page"
  /\ pageMap = <<>>
  /\ IF best # NotFound THEN pc' = "found" /\ UNCHANGED offset
     ELSE IF off > Limit THEN pc' = "chunk" /\ offset' = offset + ToRead
     ELSE pc' = "word" /\ UNCHANGED offset
  /\ UNCHANGED <<module, section, off, front, pageMap, best, expired, copied, ok, missed>>

NothingFound ==
  /\ pc = "chunk"
  /\ section > Len(module.sections)
  /\ pc' = "returned"
  /\ UNCHANGED <<module, section, offset, off, front, pageMap, best, expired, copied, ok, missed>>

\* CalcTotalSizeFromHeader, whose reads may fail.
TotalSize == CalcTotalSizeFromHeader(HeaderAt[best.to])

ReadTotal ==
  /\ pc = "found"
  /\ pc' \in IF TotalSize = 0 THEN {"returned"} ELSE {"region", "returned"}
  /\ UNCHANGED <<module, section, offset, off, front, pageMap, best, expired, copied, ok, missed>>

\* Mutant: what has been copied is left when a read fails.
KeepOut == copied

\* out.clear()
ClearOut == 0

\* ReadMetadataRegion, chunk by chunk.
CopyRegion ==
  /\ pc = "region"
  /\ copied < TotalSize
  /\ \/ copied' = copied + Min({ReadSize, TotalSize - copied}) /\ UNCHANGED pc
     \/ copied' = ClearOut /\ pc' = "returned"
  /\ UNCHANGED <<module, section, offset, off, front, pageMap, best, expired, ok, missed>>

RegionDone ==
  /\ pc = "region"
  /\ copied = TotalSize
  /\ ok' = TRUE
  /\ pc' = "returned"
  /\ UNCHANGED <<module, section, offset, off, front, pageMap, best, expired, copied, missed>>

Expire ==
  /\ pc \in {"chunk", "word", "page"}
  /\ ~ expired
  /\ expired' = TRUE
  /\ UNCHANGED <<module, pc, section, offset, off, front, pageMap, best, copied, ok, missed>>

Returned == pc = "returned" /\ UNCHANGED vars

Next ==
  \/ ReadSections \/ NextSection \/ ReadChunk \/ LookAtWord \/ ReadPage \/ PageUnreadable
  \/ PagesDone \/ NothingFound \/ ReadTotal \/ CopyRegion \/ RegionDone \/ Expire \/ Returned

Spec == Init /\ [][Next]_vars

(***************************************************************************)
(* Properties.                                                             *)
(***************************************************************************)

\* The reference: words of the module that lie in a scanned section.
WordsOf(s) == {a \in s.rva..(s.rva + s.size - Word) : (a - s.rva) % Word = 0}
ScannedWords == UNION {WordsOf(Clipped(module.sections[i])) : i \in ScanSections}

\* The words of a section that ends in a part of a word are looked at with
\* what the buffer held before.
RaggedEnds ==
  LET end(s) == s.rva + s.size - (s.size % Word)
  IN  {end(s) : s \in {x \in {Clipped(module.sections[i]) : i \in ScanSections} : x.size % Word # 0}}

\* The pointer that is reported is where it is said to be, in a section that
\* was to be scanned, however chunks and sections were skipped before; and no
\* other header of the page it points into has a higher score.
FoundIsGenuine ==
  best # NotFound =>
    /\ best.score = Score(best.to)
    /\ \/ best.at \in ScannedWords /\ WordAt(best.at) = best.to
       \/ best.at \in RaggedEnds
    /\ pc = "found" =>
         \A a \in WordsOf(Scanned) :
           /\ WordAt(a) # None /\ PageOf[WordAt(a)] = PageOf[best.to]
           /\ a \in ChunkAt..(ChunkAt + off - Word)
           => Score(WordAt(a)) <= best.score \/ WordAt(a) \in missed

\* A search that ran out of neither time nor luck misses nothing: when it
\* returns empty-handed, every pointer to a header lay in a chunk, or its
\* header in a page, that could not be read.  Giving up pages collected so far
\* (maxPages) loses none.
NothingPassedOver ==
  pc = "returned" /\ best = NotFound /\ ~ expired /\ section > Len(module.sections) =>
    \A a \in ScannedWords : WordAt(a) # None /\ Score(WordAt(a)) > 0 => WordAt(a) \in missed

\* The caller gets the whole image or nothing, also when a read in the middle
\* fails; whole means up to the end of the last table, as the score had it.
ExportAllOrNothing ==
  pc = "returned" =>
    IF ok THEN /\ copied = MaxEndOf(HeaderAt[best.to])
               /\ \A t \in Used(HeaderAt[best.to]) : EndOf(HeaderAt[best.to], t) <= copied
    ELSE copied = 0
===============================================================================
