------------------------------ MODULE MCContext -------------------------------
(***************************************************************************)
(* Context with up to two process ids and up to three process instances:   *)
(* two IL2CPP games and another program, which has no GameAssembly.dll.    *)
(* The games have theirs at different addresses or at the same one.        *)
(***************************************************************************)
EXTENDS Context, Integers, Sequences, TLC

VARIABLES
  world,
  \* FieldOffsets; its other variables have names of Context's
  types, step, at, slot, classFields, table, asked, current, visited, offset, unread, path

fieldVars == <<types, step, at, slot, classFields, table, asked, current, visited, offset, unread, path>>
allVars == <<world, vars, fieldVars>>

CONSTANTS game, update, other

MCInstances == {game, update, other}
MCTwo == {game, update}
MCIl2Cpp == {game, update}

MCSameBaseTwo == game :> 1 @@ update :> 1
MCMixedBase == game :> 1 @@ update :> 2 @@ other :> 1

(***************************************************************************)
(* FieldOffsets on metadata with a struct, three types of one name in      *)
(* different namespaces, of which each is the parent of the next, in three *)
(* orders; with nested types that have the same names, in a row or         *)
(* crosswise; and with no field at all.                                    *)
(***************************************************************************)
Type(ns, name, byval, parent, fields) ==
  [ns |-> ns, name |-> name, byval |-> byval, parent |-> parent, interface |-> FALSE, fields |-> fields]
Field(name, raw) == [name |-> name, raw |-> raw]

Struct == <<Type("System", "ValueType", 1, -1, <<>>), Type("A", "Pos", 2, 1, <<Field("x", 16), Field("y", 20)>>)>>
Same ==
  <<Type("A", "B", 3, -1, <<Field("x", 16)>>), Type("C", "B", 4, 3, <<Field("y", 24), Field("z", -1)>>),
    Type("D", "B", 5, 4, <<Field("x", 32)>>), Type("D", "E", 6, 5, <<>>)>>
Nested ==
  <<Type("", "State", 1, 2, <<>>), Type("", "State", 2, 3, <<Field("y", 16)>>),
    Type("N", "State", 3, -1, <<Field("x", 16)>>)>>
Crosswise ==
  <<Type("", "State", 1, 2, <<Field("y", 16)>>), Type("", "Base", 2, -1, <<>>),
    Type("", "Base", 3, 4, <<Field("x", 16)>>), Type("", "State", 4, -1, <<>>)>>

MCMetadata ==
  {Struct \o Same, <<Same[3], Same[2], Same[1], Same[4]>>, <<Same[4], Same[2], Same[3], Same[1]>>,
   Nested, Crosswise, <<Type("A", "B", 1, -1, <<>>)>>}
MCQuestions ==
  {<<"A", "Pos">>, <<"", "Pos">>, <<"", "B">>, <<"D", "B">>, <<"", "E">>, <<"", "State">>, <<"N", "State">>}
    \X {"x", "y", "z"}

CONSTANTS Metadata, Questions, HeaderSize

Fields == INSTANCE FieldOffsets WITH pc <- step

\* A type is as many levels below its topmost parent as its parent, and one.
Depths(m, d) ==
  \A i, j \in DOMAIN m : m[i].parent >= 0 /\ m[j].byval = m[i].parent => d[i] = d[j] + 1

\* Metadata of a compiled program: types and fields have names, the fields of
\* a type different ones; each type has an index of its own and is not its own
\* parent's parent; an interface has no parent.  Types may have the same name.
ASSUME MetadataAssumption ==
  /\ HeaderSize \in Nat
  /\ \A m \in Metadata :
       /\ m \in Fields!TypeDefs
       /\ \A i, j \in DOMAIN m : m[i].byval = m[j].byval /\ m[i].byval >= 0 => i = j
       /\ \A i \in DOMAIN m :
            /\ m[i].name # "" /\ (m[i].interface => m[i].parent < 0)
            /\ \A s \in DOMAIN m[i].fields : m[i].fields[s].name # ""
            /\ \A s, t \in DOMAIN m[i].fields : m[i].fields[s].name = m[i].fields[t].name => s = t
       /\ \E d \in [DOMAIN m -> 0..Len(m)] : Depths(m, d)

FieldIdle ==
  /\ types = "idle" /\ step = "idle" /\ at = "idle" /\ slot = "idle" /\ classFields = "idle" /\ table = "idle"
  /\ asked = "idle" /\ current = "idle" /\ visited = "idle" /\ offset = "idle" /\ unread = "idle" /\ path = "idle"

\* The offset served is that of the nearest type that has the field; a short
\* name stands for a type only if it is the only one; the search ends.
OffsetIsNearest ==
  world = "fields" => Fields!NearestIsServed /\ Fields!AliasIsUnique /\ Fields!NoTypeTwice

ContextInit == world = "context" /\ Init /\ FieldIdle
ContextNext == world = "context" /\ Next /\ UNCHANGED <<world, fieldVars>>
ContextSpec == ContextInit /\ [][ContextNext]_allVars

AllInit ==
  \/ ContextInit
  \/ world = "fields" /\ Fields!Init /\ Init
FieldsNext == world = "fields" /\ Fields!Next /\ UNCHANGED <<world, vars>>
AllNext == ContextNext \/ FieldsNext
AllSpec == AllInit /\ [][AllNext]_allVars
===============================================================================
