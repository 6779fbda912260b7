------------------------------- MODULE GomTag -------------------------------
(***************************************************************************)
(* The first GameObject of a tag (gom_search_common.hpp) and the two       *)
(* searches for a bucket it can use (gom_bucket.hpp).                      *)
(*                                                                         *)
(* A slot of the target's table is the words mask, key and head.  To erase *)
(* a tag the target writes only the mask, so that key and head stay what   *)
(* they were; the list a head leads to may then serve another tag.  The    *)
(* search by tag compares keys alone.                                      *)
(*                                                                         *)
(* One action is one read and the code up to the next one.  The table does *)
(* not move here (GomWalk has it move); manager, table and count are one   *)
(* step.  Any read may fail.                                               *)
(***************************************************************************)
EXTENDS Integers, Sequences

CONSTANTS
  Tags, Hash,       \* keys, and CalHashmaskThrougTag of each
  Objects, TagOf,   \* GameObjects, and the tag each has
  Lists, HeadWord,  \* list heads, and what each has where a node has its object
  SlotCount,
  Null, Deleted     \* the zero word; the mask of a slot that is not in use

VARIABLES
  pc,
  slots,    \* target: per slot the words of a bucket
  members,  \* target: per list head, the objects on its list
  asked,    \* the tag or the mask asked for, and which of the two it is
  bi, mask, bucket, head, first, result,
  \* history of the call, not in the code
  calm,     \* the target has not moved
  erased,   \* the slot taken was not in use, or has been erased since
  empty,    \* the list was empty when its first node was read
  unread    \* a read of the call has failed

locals == <<asked, bi, mask, bucket, head, first, result, empty>>
vars == <<pc, slots, members, locals, calm, erased, unread>>

Unused == [mask |-> Deleted, key |-> Null, head |-> Null]
InUse(s) == s.mask # Deleted
Holders(t) == {i \in 1..SlotCount : InUse(slots[i]) /\ slots[i].key = t}

Nobody == [by |-> "none", what |-> Null]

NoCall ==
  /\ asked = Nobody /\ bi = 1 /\ mask = Null /\ bucket = 0
  /\ head = Null /\ first = Null /\ result = Null /\ empty = FALSE

Init ==
  /\ pc = "idle"
  /\ slots = [i \in 1..SlotCount |-> Unused]
  /\ members = [l \in Lists |-> <<>>]
  /\ NoCall
  /\ calm = FALSE /\ erased = FALSE /\ unread = FALSE

(***************************************************************************)
(* The call.                                                               *)
(***************************************************************************)
Target == UNCHANGED <<slots, members, calm>>

\* What a read that is good or not leaves behind.
After(good) == unread' = (unread \/ ~ good)

\* Manager, table and count: without them the call is over.
Begin ==
  /\ pc = "idle"
  /\ asked' \in [by : {"tag"}, what : Tags] \cup [by : {"mask"}, what : {Hash[t] : t \in Tags}]
  /\ \E good \in BOOLEAN :
       /\ After(good)
       /\ pc' = IF ~ good THEN "done" ELSE IF asked'.by = "tag" THEN "key" ELSE "mask"
  /\ calm' = TRUE
  /\ UNCHANGED <<slots, members, bi, mask, bucket, head, first, result, erased, empty>>

Return ==
  /\ pc = "done"
  /\ pc' = "idle"
  /\ asked' = Nobody /\ bi' = 1 /\ mask' = Null /\ bucket' = 0
  /\ head' = Null /\ first' = Null /\ result' = Null /\ empty' = FALSE
  /\ calm' = FALSE /\ erased' = FALSE /\ unread' = FALSE
  /\ UNCHANGED <<slots, members>>

\* Mutant: every slot in use will do.
AnyKey(s) == InUse(s)

\* key == expectedKey
HasKey(s) == s.key = asked.what

NextSlot(p) ==
  /\ bi' = bi + 1
  /\ pc' = IF bi < SlotCount THEN p ELSE "done"

\* FindBucketThroughTag, one slot; one that cannot be read is passed over.
LookAtKey ==
  /\ pc = "key"
  /\ \E good \in BOOLEAN :
       /\ After(good)
       /\ IF good /\ HasKey(slots[bi])
            THEN /\ bucket' = bi
                 /\ erased' = ~ InUse(slots[bi])
                 /\ pc' = "head"
                 /\ UNCHANGED bi
            ELSE NextSlot("key") /\ UNCHANGED <<bucket, erased>>
  /\ Target /\ UNCHANGED <<asked, mask, head, first, result, empty>>

\* Mutant: the mask of the slot is taken for granted.
AnyMask(s) == TRUE

\* mask == hashMask
HasMask(s) == s.mask = asked.what

\* FindBucketThroughHashmask, one slot: the mask,
LookAtMask ==
  /\ pc = "mask"
  /\ \E good \in BOOLEAN :
       /\ After(good)
       /\ IF good /\ HasMask(slots[bi])
            THEN mask' = asked.what /\ pc' = "maskkey" /\ UNCHANGED bi
            ELSE NextSlot("mask") /\ UNCHANGED mask
  /\ Target /\ UNCHANGED <<asked, bucket, head, first, result, erased, empty>>

\* then the key it must be the hash of.
LookAtMaskKey ==
  /\ pc = "maskkey"
  /\ \E good \in BOOLEAN :
       /\ After(good)
       /\ IF good /\ slots[bi].key # Null /\ Hash[slots[bi].key] = mask
            THEN /\ bucket' = bi
                 /\ erased' = ~ InUse(slots[bi])
                 /\ pc' = "done"
                 /\ UNCHANGED bi
            ELSE NextSlot("mask") /\ UNCHANGED <<bucket, erased>>
  /\ mask' = Null
  /\ Target /\ UNCHANGED <<asked, head, first, result, empty>>

\* GetBucketListHead of the slot found.
ReadHead ==
  /\ pc = "head"
  /\ \E good \in BOOLEAN :
       /\ After(good)
       /\ head' = IF good THEN slots[bucket].head ELSE Null
  /\ pc' = IF head' = Null THEN "done" ELSE "first"
  /\ Target /\ UNCHANGED <<asked, bi, mask, bucket, first, result, erased, empty>>

\* Mutant: the list is entered from behind.
FromBehind(l) == IF members[l] = <<>> THEN l ELSE members[l][Len(members[l])]

\* The word next of a head: itself when the list is empty.
NextOf(l) == IF members[l] = <<>> THEN l ELSE Head(members[l])

\* GetListNodeFirst.
ReadFirst ==
  /\ pc = "first"
  /\ \E good \in BOOLEAN :
       /\ After(good)
       /\ first' = IF good THEN NextOf(head) ELSE Null
  /\ empty' = (first' = head)
  /\ pc' = IF first' = Null THEN "done" ELSE "native"
  /\ Target /\ UNCHANGED <<asked, bi, mask, bucket, head, result, erased>>

\* GetListNodeNative; nothing compares the node with the head.
ReadNative ==
  /\ pc = "native"
  /\ \E good \in BOOLEAN :
       /\ After(good)
       /\ result' = IF ~ good THEN Null ELSE IF first \in Lists THEN HeadWord[first] ELSE first
  /\ pc' = "done"
  /\ Target /\ UNCHANGED <<asked, bi, mask, bucket, head, first, erased, empty>>

Reader ==
  LookAtKey \/ LookAtMask \/ LookAtMaskKey \/ ReadHead \/ ReadFirst \/ ReadNative

(***************************************************************************)
(* The target.                                                             *)
(***************************************************************************)
InsertTag(t, i, l) ==
  /\ Holders(t) = {} /\ ~ InUse(slots[i])
  /\ members[l] = <<>>
  /\ \A j \in 1..SlotCount : InUse(slots[j]) => slots[j].head # l
  /\ slots' = [slots EXCEPT ![i] = [mask |-> Hash[t], key |-> t, head |-> l]]
  /\ UNCHANGED <<members, erased>>

\* Only a tag whose list is empty.
EraseTag(i) ==
  /\ InUse(slots[i]) /\ members[slots[i].head] = <<>>
  /\ slots' = [slots EXCEPT ![i].mask = Deleted]
  /\ erased' = (erased \/ i = bucket)
  /\ UNCHANGED members

AddObject(o) ==
  \E i \in Holders(TagOf[o]) :
    LET l == slots[i].head IN
    /\ \A k \in 1..Len(members[l]) : members[l][k] # o
    /\ members' = [members EXCEPT ![l] = <<o>> \o @]
    /\ UNCHANGED <<slots, erased>>

RemoveFirst(l) ==
  /\ members[l] # <<>>
  /\ members' = [members EXCEPT ![l] = Tail(@)]
  /\ UNCHANGED <<slots, erased>>

TargetStep ==
  /\ pc # "done"
  /\ \/ \E t \in Tags, i \in 1..SlotCount, l \in Lists : InsertTag(t, i, l)
     \/ \E i \in 1..SlotCount : EraseTag(i)
     \/ \E o \in Objects : AddObject(o)
     \/ \E l \in Lists : RemoveFirst(l)
  /\ calm' = FALSE
  /\ UNCHANGED <<pc, locals, unread>>

Next == Begin \/ Reader \/ Return \/ TargetStep

(***************************************************************************)
(* Properties.                                                             *)
(***************************************************************************)

\* The first slot with the key of the tag is one in use.
TaggedBy(i, t) ==
  /\ InUse(slots[i]) /\ slots[i].key = t
  /\ \A j \in 1..(i - 1) : slots[j].key # t

\* When every read is good, a target that stands still and has the tag in use,
\* in the first slot with its key and on a list that is not empty, gives the
\* first object of it; one that has no such key gives nothing.
TagFound ==
  (pc = "done" /\ calm /\ ~ unread /\ asked.by = "tag") =>
    /\ \A i \in 1..SlotCount :
         LET l == slots[i].head IN
         TaggedBy(i, asked.what) /\ members[l] # <<>> => result = members[l][1]
    /\ (\A i \in 1..SlotCount : slots[i].key # asked.what) => result = Null

\* Whatever the target does meanwhile and whichever reads fail, an answer that
\* is not an object of the tag comes from a slot that was erased or is the word
\* of the head of an empty list, never from another tag's slot.
WrongOnlyFromErasedOrEmpty ==
  (pc = "done" /\ result # Null) =>
    \/ result \in Objects /\ TagOf[result] = asked.what
    \/ erased \/ empty

\* The search by mask finds a slot in use whose tag has that hash, although
\* slots keep their keys when they are erased; the first of them, and one if
\* there is one, when every read is good.
MaskFound ==
  (pc = "done" /\ calm /\ asked.by = "mask") =>
    LET found == {i \in 1..SlotCount : slots[i].mask = asked.what} IN
    /\ bucket = 0 \/ bucket \in found
    /\ ~ unread => IF found = {} THEN bucket = 0 ELSE \A i \in found : bucket \in 1..i
==============================================================================
