---------------------------- MODULE FieldOffsets ----------------------------
(***************************************************************************)
(* The table of field offsets (init/field_offset): how it is built from    *)
(* the metadata and the offset arrays of the target, of which every read   *)
(* may fail, and how a field is looked for, by the name of its type or by  *)
(* the part of it behind the namespace, through the parents of that type.  *)
(* Context has when the table is kept and dropped.                         *)
(*                                                                         *)
(* A name is a pair of namespace and name.  The metadata gives a nested    *)
(* type no namespace, so several types may have one name.                  *)
(***************************************************************************)
EXTENDS Integers, Sequences, FiniteSets, FiniteSetsExt, Functions

CONSTANTS
  Metadata,   \* sequences of types (see TypeDefs)
  Questions,  \* pairs of a name and a field that may be asked for
  HeaderSize  \* of a boxed value, which offsets in a struct count (0x10)

\* parent is the byval index of a type, or something else in the table of
\* types (-1 for none).  raw is the word in the offset array of the type.
TypeDefs ==
  Seq([ns : STRING, name : STRING, byval : Int, parent : Int, interface : BOOLEAN,
       fields : Seq([name : STRING, raw : Int])])

VARIABLES
  types,
  pc,          \* "idle", "type", "field", "resolve", "walk"
  at,          \* the type to come, and its field
  slot,
  classFields,
  table,       \* RuntimeState, with ambiguousAliases
  asked,
  current,     \* currentType
  visited,
  offset,      \* the answer, or NoOffset
  unread,      \* history: the fields whose offsets could not be read
  path         \* history: the types looked at

buildVars == <<at, slot, classFields, table, unread>>
walkVars == <<asked, current, visited, offset, path>>
vars == <<types, pc, buildVars, walkVars>>

NoOffset == -1

FullName(d) == <<d.ns, d.name>>
ShortName(d) == <<"", d.name>>
Unnamed == <<"", "">>

\* BuildTypeFullNameAndByvalMapFromBytes: the last type with an index counts.
ByvalToFullName(b) ==
  LET with == {i \in DOMAIN types : types[i].byval = b}
  IN  IF b < 0 \/ with = {} THEN Unnamed ELSE FullName(types[Max(with)])

\* ResolveTypeKind, as far as it matters.
IsValueType(d) ==
  ~ d.interface /\ ByvalToFullName(d.parent) \in {<<"System", "Enum">>, <<"System", "ValueType">>}

\* f[k] = v
With(f, k, v) == [x \in DOMAIN f \cup {k} |-> IF x = k THEN v ELSE f[x]]

\* emplace: what is there stays.
Emplace(f, k, v) == IF k \in DOMAIN f THEN f ELSE With(f, k, v)

EmptyTable == [fields |-> <<>>, alias |-> <<>>, parent |-> <<>>, known |-> {}, ambiguous |-> {}]

Init ==
  /\ types \in Metadata
  /\ pc = "idle"
  /\ at = 1 /\ slot = 1 /\ classFields = <<>> /\ table = EmptyTable /\ unread = {}
  /\ asked = <<>> /\ current = Unnamed /\ visited = {} /\ offset = NoOffset /\ path = <<>>

\* Mutant: an alias is not remembered as ambiguous, and the third type with it
\* gets it.
AliasDropped(alias) == table.ambiguous
AmbiguousWith(alias) == table.ambiguous \cup {alias}

\* AddAliasCandidate: the table with an alias more, or with one less.
WithAlias(alias, full) ==
  LET known == alias \in DOMAIN table.alias
  IN  IF alias = full \/ alias = Unnamed \/ alias \in table.ambiguous THEN table
      ELSE IF ~ known THEN [table EXCEPT !.alias = With(@, alias, full)]
      ELSE IF table.alias[alias] = full THEN table
      ELSE [table EXCEPT !.alias = Restrict(@, DOMAIN @ \ {alias}), !.ambiguous = AmbiguousWith(alias)]

\* TryGetFieldOffset: the table is built unless it is there.
TryGetFieldOffset ==
  /\ pc = "idle"
  /\ asked' \in Questions
  /\ offset' = NoOffset /\ visited' = {} /\ path' = <<>> /\ current' = Unnamed
  /\ IF table.fields # <<>> THEN pc' = "resolve" /\ UNCHANGED buildVars
     ELSE /\ pc' = "type"
          /\ at' = 1 /\ table' = EmptyTable /\ unread' = {}
          /\ UNCHANGED <<slot, classFields>>
  /\ UNCHANGED types

\* One type of BuildRuntimeState, up to the address of its offset array, which
\* may not be readable, or 0.
EnterType ==
  /\ pc = "type"
  /\ at \in DOMAIN types
  /\ LET d      == types[at]
         full   == FullName(d)
         parent == ByvalToFullName(d.parent)
     IN  IF full = Unnamed THEN at' = at + 1 /\ UNCHANGED <<pc, slot, classFields, table, unread>>
         ELSE
           /\ table' = [WithAlias(ShortName(d), full) EXCEPT
                          !.known = @ \cup {full},
                          !.parent = IF parent = Unnamed THEN @ ELSE Emplace(@, full, parent)]
           /\ slot' = 1 /\ classFields' = <<>>
           /\ \/ d.fields # <<>> /\ pc' = "field" /\ UNCHANGED <<at, unread>>
              \/ at' = at + 1 /\ unread' = unread \cup ({at} \X DOMAIN d.fields) /\ UNCHANGED pc
  /\ UNCHANGED <<types, walkVars>>

\* Mutant: a field right behind the header keeps its offset.
AdjustedAbove(d, raw) == IF IsValueType(d) /\ raw > HeaderSize THEN raw - HeaderSize ELSE raw
Adjusted(d, raw) == IF IsValueType(d) /\ raw >= HeaderSize THEN raw - HeaderSize ELSE raw

ReadField ==
  /\ pc = "field"
  /\ slot \in DOMAIN types[at].fields
  /\ LET d == types[at]
         f == d.fields[slot]
     IN  \/ unread' = unread \cup {<<at, slot>>} /\ UNCHANGED classFields
         \/ /\ classFields' = IF f.name = "" \/ f.raw < 0 THEN classFields
                              ELSE With(classFields, f.name, Adjusted(d, f.raw))
            /\ UNCHANGED unread
  /\ slot' = slot + 1
  /\ UNCHANGED <<types, pc, at, table, walkVars>>

LeaveType ==
  /\ pc = "field"
  /\ slot \notin DOMAIN types[at].fields
  /\ table' = IF classFields = <<>> THEN table
              ELSE [table EXCEPT !.fields = Emplace(@, FullName(types[at]), classFields)]
  /\ at' = at + 1
  /\ pc' = "type"
  /\ UNCHANGED <<types, slot, classFields, unread, walkVars>>

\* A table without a field is not kept, and is built again next time.
TableBuilt ==
  /\ pc = "type"
  /\ at \notin DOMAIN types
  /\ IF table.fields = <<>> THEN table' = EmptyTable /\ pc' = "idle" ELSE pc' = "resolve" /\ UNCHANGED table
  /\ UNCHANGED <<types, at, slot, classFields, unread, walkVars>>

TryResolveFullTypeName ==
  /\ pc = "resolve"
  /\ LET n == asked[1]
     IN  IF n \in table.known THEN current' = n /\ pc' = "walk"
         ELSE IF n \in DOMAIN table.alias THEN current' = table.alias[n] /\ pc' = "walk"
         ELSE pc' = "idle" /\ UNCHANGED current
  /\ UNCHANGED <<types, buildVars, asked, visited, offset, path>>

\* Mutant: nothing is remembered of the way.
AnyType(t) == TRUE
NotVisited(t) == t \notin visited

VisitType ==
  /\ pc = "walk"
  /\ IF ~ NotVisited(current) THEN pc' = "idle" /\ UNCHANGED <<visited, path, offset, current>>
     ELSE
       /\ visited' = visited \cup {current}
       /\ path' = Append(path, current)
       /\ IF current \in DOMAIN table.fields /\ asked[2] \in DOMAIN table.fields[current]
            THEN offset' = table.fields[current][asked[2]] /\ pc' = "idle" /\ UNCHANGED current
          ELSE IF current \in DOMAIN table.parent
            THEN current' = table.parent[current] /\ UNCHANGED <<pc, offset>>
          ELSE pc' = "idle" /\ UNCHANGED <<current, offset>>
  /\ UNCHANGED <<types, buildVars, asked>>

Next ==
  \/ TryGetFieldOffset \/ EnterType \/ ReadField \/ LeaveType \/ TableBuilt
  \/ TryResolveFullTypeName \/ VisitType

Spec == Init /\ [][Next]_vars

(***************************************************************************)
(* Properties.                                                             *)
(***************************************************************************)

Named(n) == {i \in DOMAIN types : FullName(types[i]) = n}

\* The types an unqualified name may stand for.
Behind(n) == {FullName(types[i]) : i \in {j \in DOMAIN types : ShortName(types[j]) = n}}

\* The types from i up, while their parents are types of the metadata: the
\* least set with i that has the parents of what it has.
Parents(i) == {j \in DOMAIN types : types[i].parent >= 0 /\ types[j].byval = types[i].parent}
Chain(i) ==
  {j \in DOMAIN types : \A s \in SUBSET DOMAIN types : (i \in s /\ \A k \in s : Parents(k) \subseteq s) => j \in s}

\* The nearest of them that declares an instance field.
Declaring(i, f) ==
  {j \in Chain(i) : \E s \in DOMAIN types[j].fields : types[j].fields[s].name = f /\ types[j].fields[s].raw >= 0}
OffsetIn(j, f) ==
  LET s == CHOOSE s \in DOMAIN types[j].fields : types[j].fields[s].name = f
      raw == types[j].fields[s].raw
      boxed == \E p \in Parents(j) : FullName(types[p]) \in {<<"System", "ValueType">>, <<"System", "Enum">>}
  IN  IF boxed /\ raw - HeaderSize >= 0 THEN raw - HeaderSize ELSE raw
Nearest(i, f) ==
  LET from == Declaring(i, f)
  IN  IF from = {} THEN NoOffset ELSE OffsetIn(CHOOSE j \in from : \A k \in from : k \in Chain(j), f)

Answered == pc = "idle" /\ asked # <<>> /\ table.fields # <<>>

\* Where every type has a name of its own, the answer is the offset of the
\* field in the nearest type upwards that has it, if that field of these types
\* could be read; what could not be read of other types, or of their other
\* fields, makes no difference.
NearestIsServed ==
  Answered /\ (\A i, j \in DOMAIN types : FullName(types[i]) = FullName(types[j]) => i = j) =>
    \A i \in Named(asked[1]) :
      (\A p \in unread : p[1] \in Chain(i) => types[p[1]].fields[p[2]].name # asked[2]) =>
        offset = Nearest(i, asked[2])

\* A name without namespace that is none of a type itself stands for a type if
\* that is the only one, wherever the others are in the metadata.
AliasIsUnique ==
  Answered /\ Named(asked[1]) = {} =>
    IF Cardinality(Behind(asked[1])) = 1 THEN path # <<>> /\ path[1] \in Behind(asked[1]) ELSE path = <<>>

\* Parents are found by name, and types of the same name may make them go
\* round: no type is looked at twice, so the search ends.
NoTypeTwice == IsInjective(path)
=============================================================================
