----------------------------- MODULE HostMemory -----------------------------
(***************************************************************************)
(* Memory of the own process: LocalMemoryAccessor (Read, Write) and the    *)
(* snapshot of a module (SafeHostMemory.cpp).  Both look at a range region *)
(* by region before they copy it, under a handler for what can no longer   *)
(* be accessed by then: other threads change the protection of a page      *)
(* between any two steps, in the middle of a copy too.                     *)
(*                                                                         *)
(* A page is one unit of memory and holds its own number.                  *)
(***************************************************************************)
EXTENDS Integers

CONSTANTS
  Pages,      \* pages 1..Pages
  CopyChunk,  \* pages the snapshot copies under one handler (64 KiB)
  Changes     \* bound: changes of protection during a call

Page == 1..Pages
Protections == {"none", "guard", "read", "write"}

VARIABLES
  pc, op,
  first, size,   \* the range
  prot,          \* page -> protection; none: not committed, or no access
  cursor,        \* next page to look at or to copy
  regionEnd,     \* snapshot: first page behind the region
  copyEnd,       \* first page behind what is being copied
  buffer,        \* page -> 0 or what was copied (read, snapshot), or written (write)
  result,
  \* history of the call, not in the code
  lost,          \* pages that could not be accessed at some time, or not be told of
  changes

vars == <<pc, op, first, size, prot, cursor, regionEnd, copyEnd, buffer, result, lost, changes>>

\* What the processor allows; a guard page nothing.
Accessible(o, p) == p = "write" \/ (o # "write" /\ p = "read")

\* Mutant: writable pages are forgotten among those that can be read.
AllowsOwn(o, p) == p = IF o = "write" THEN "write" ELSE "read"

\* RegionAllowsRead, RegionAllowsWrite
RegionAllows(o, p) == p = "write" \/ (o # "write" /\ p = "read")

Inaccessible(o, pr) == {p \in Page : ~ Accessible(o, pr[p])}

Last == first + size - 1

Init ==
  /\ pc = "idle" /\ op = "read" /\ first = 1 /\ size = 0
  /\ prot \in [Page -> Protections]
  /\ cursor = 1 /\ regionEnd = 1 /\ copyEnd = 1
  /\ buffer = [p \in Page |-> 0] /\ result = FALSE /\ lost = {} /\ changes = 0

\* A range of no bytes, or one that wraps, is refused at once.
Call ==
  /\ pc = "idle"
  /\ op' \in {"read", "write", "snapshot"}
  /\ first' \in Page /\ size' \in 0..(Pages + 1 - first')
  /\ buffer' = [p \in Page |-> 0]
  /\ cursor' = first' /\ regionEnd' = first' /\ copyEnd' = first'
  /\ lost' = Inaccessible(op', prot) /\ changes' = 0
  /\ result' = FALSE
  /\ pc' = IF size' = 0 THEN "idle" ELSE IF op' = "snapshot" THEN "region" ELSE "check"
  /\ UNCHANGED prot

\* Another thread.
Protect ==
  /\ pc # "idle" /\ changes < Changes
  /\ \E p \in Page, to \in Protections \ {"guard"} :
       prot[p] # to /\ prot' = [prot EXCEPT ![p] = to]
  /\ lost' = lost \cup Inaccessible(op, prot')
  /\ changes' = changes + 1
  /\ UNCHANGED <<pc, op, first, size, cursor, regionEnd, copyEnd, buffer, result>>

call == <<op, first, size, changes>>
Return(r) == pc' = "idle" /\ result' = r

\* First page behind the region of page p, as VirtualQuery reports it: it
\* begins with the page asked for.
EndOfRegion(p) ==
  CHOOSE e \in (p + 1)..(Pages + 1) :
    /\ \A q \in p..(e - 1) : prot[q] = prot[p]
    /\ e <= Pages => prot[e] # prot[p]

Lower(a, b) == IF a < b THEN a ELSE b

\* RangeCommitted, one region.
CheckRegion ==
  /\ pc = "check"
  /\ IF RegionAllows(op, prot[cursor])
       THEN /\ IF EndOfRegion(cursor) > Last
                 THEN cursor' = first /\ copyEnd' = Last + 1 /\ pc' = "copy"
                 ELSE cursor' = EndOfRegion(cursor) /\ UNCHANGED <<copyEnd, pc>>
            /\ UNCHANGED result
       ELSE Return(FALSE) /\ UNCHANGED <<cursor, copyEnd>>
  /\ UNCHANGED <<call, prot, regionEnd, buffer, lost>>

\* VirtualQuery fails: the snapshot passes over a page (0x1000).
QueryFails ==
  /\ pc \in {"check", "region"} /\ cursor <= Last
  /\ lost' = lost \cup {cursor}
  /\ IF op = "snapshot"
       THEN cursor' = cursor + 1 /\ UNCHANGED <<pc, result>>
       ELSE Return(FALSE) /\ UNCHANGED cursor
  /\ UNCHANGED <<call, prot, regionEnd, copyEnd, buffer>>

\* SehCopy, SehWrite, one page.  Touching a guard page takes the guard off it.
CopyPage ==
  /\ pc = "copy" /\ cursor < copyEnd /\ Accessible(op, prot[cursor])
  /\ buffer' = [buffer EXCEPT ![cursor] = cursor]
  /\ cursor' = cursor + 1
  /\ UNCHANGED <<call, pc, prot, regionEnd, copyEnd, result, lost>>

\* Mutant: the rest of the region is given up with the chunk.
SkipRegion == regionEnd

\* Where the copy goes on after a fault: behind the chunk.
SkipChunk == copyEnd

Fault ==
  /\ pc = "copy" /\ cursor < copyEnd /\ ~ Accessible(op, prot[cursor])
  /\ prot' = IF prot[cursor] = "guard" THEN [prot EXCEPT ![cursor] = "write"] ELSE prot
  /\ IF op = "snapshot"
       THEN cursor' = SkipChunk /\ UNCHANGED <<pc, result>>
       ELSE Return(FALSE) /\ UNCHANGED cursor
  /\ UNCHANGED <<call, regionEnd, copyEnd, buffer, lost>>

Copied ==
  /\ pc = "copy" /\ cursor >= copyEnd
  /\ IF op = "snapshot" THEN pc' = "chunk" /\ UNCHANGED result ELSE Return(TRUE)
  /\ UNCHANGED <<call, prot, cursor, regionEnd, copyEnd, buffer, lost>>

\* HostMemoryTrySnapshotRange, one region: one that cannot be read stays zero.
SnapshotRegion ==
  /\ pc = "region"
  /\ IF cursor > Last
       THEN Return(TRUE) /\ UNCHANGED <<cursor, regionEnd>>
       ELSE /\ regionEnd' = Lower(EndOfRegion(cursor), Last + 1)
            /\ IF RegionAllows("read", prot[cursor])
                 THEN pc' = "chunk" /\ UNCHANGED cursor
                 ELSE cursor' = regionEnd' /\ UNCHANGED pc
            /\ UNCHANGED result
  /\ UNCHANGED <<call, prot, copyEnd, buffer, lost>>

SnapshotChunk ==
  /\ pc = "chunk"
  /\ IF cursor < regionEnd
       THEN copyEnd' = Lower(cursor + CopyChunk, regionEnd) /\ pc' = "copy"
       ELSE pc' = "region" /\ UNCHANGED copyEnd
  /\ UNCHANGED <<call, prot, cursor, regionEnd, buffer, result, lost>>

Next ==
  \/ Call \/ Protect \/ CheckRegion \/ CopyPage \/ Fault \/ Copied
  \/ SnapshotRegion \/ SnapshotChunk \/ QueryFails

Spec == Init /\ [][Next]_vars

(***************************************************************************)
(* Properties.                                                             *)
(***************************************************************************)
Range == first..Last

\* Read and Write that return true have had every page of the range, and they
\* do when nobody takes one away; whatever else happens they return.
AccessExact ==
  pc = "idle" /\ op # "snapshot" =>
    /\ result => \A p \in Range : buffer[p] = p
    /\ size > 0 /\ lost \cap Range = {} => result

\* A snapshot is always taken, and a page of it is missing only if the page
\* could not be read at some time or VirtualQuery failed for it, or that is so
\* of one before it in the same chunk.
SnapshotComplete ==
  pc = "idle" /\ op = "snapshot" /\ size > 0 =>
    /\ result
    /\ \A p \in Range : buffer[p] = 0 => \E q \in lost \cap Range : q <= p /\ p - q < CopyChunk
==============================================================================
