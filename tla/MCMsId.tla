------------------------------- MODULE MCMsId --------------------------------
(***************************************************************************)
(* The registry of objects: its enumeration (extended here), the search    *)
(* for objects of a class that is built on it, and the scan for the        *)
(* registry.  A behaviour is one of them: world says which.  Variables of  *)
(* the others keep the value Idle.                                         *)
(***************************************************************************)
EXTENDS MsIdEnumerate, TLC

VARIABLES
  world,
  \* FindObjects
  phase, present, since, reported, asked, found, bare,
  \* MsIdScan
  image, manager, entries, word, table, expected, batch, objCount, bestObjCount, bestAddr,
  standing, step

Idle == "idle"

findVars == <<phase, present, since, reported, asked, found, bare>>
scanVars == <<image, manager, entries, word, table, expected, batch, objCount, bestObjCount, bestAddr,
              standing, step>>
allVars == <<world, vars, findVars, scanVars>>

FindIdle == phase = Idle /\ present = Idle /\ since = Idle /\ reported = Idle
            /\ asked = Idle /\ found = Idle /\ bare = Idle
ScanIdle ==
  /\ image = Idle /\ manager = Idle /\ entries = Idle /\ word = Idle /\ table = Idle
  /\ expected = Idle /\ batch = Idle /\ objCount = Idle /\ bestObjCount = Idle
  /\ bestAddr = Idle /\ standing = Idle /\ step = Idle

(***************************************************************************)
(* MsIdEnumerate with two objects of a class derived from                  *)
(* ScriptableObject, a table of one slot and one of three.  Only           *)
(* ScriptableObjects are asked for.                                        *)
(***************************************************************************)
CONSTANTS o1, o2, small, large, go, so, asset

MCObjects == {o1, o2}
MCTables == {small, large}
MCCapacity == small :> 1 @@ large :> 3
MCClasses == {go, so, asset}
MCLineage == go :> <<go>> @@ so :> <<so>> @@ asset :> <<asset, so>>
MCClassOf == o1 :> asset @@ o2 :> asset
MCOptions == {[onlyGo |-> FALSE, onlySo |-> TRUE]}

\* Bounds: erased entries that still lie in a table, objects destroyed.
MaxErased == 1
MaxGone == 1
ErasedOf(t) == {i \in 1..MCCapacity[t] : ~ slots[t][i].live /\ slots[t][i] # Empty}
Erased == UNION {{t} \X ErasedOf(t) : t \in MCTables}
Bounded == Cardinality(Erased) <= MaxErased /\ Cardinality(gone) <= MaxGone

ASSUME LimitsAssumption == LimitsHold

EnumerateInit == world = "enumerate" /\ Init /\ FindIdle /\ ScanIdle
EnumerateNext == world = "enumerate" /\ Next /\ UNCHANGED <<world, findVars, scanVars>>

(***************************************************************************)
(* FindObjects with objects of the classes A.B.T, B.T, T and B.U.          *)
(***************************************************************************)
CONSTANTS
  Listable,                \* objects an enumeration may report
  NamespaceOf, ClassName,  \* of their classes
  NameParts,               \* what names are made of
  Sought                   \* what may be asked for

MCListable == 1..4
MCNamespaceOf == 1 :> <<"A", "B">> @@ 2 :> <<"B">> @@ 3 :> <<>> @@ 4 :> <<"B">>
MCClassName == 1 :> <<"T">> @@ 2 :> <<"T">> @@ 3 :> <<"T">> @@ 4 :> <<"U">>
MCSought == [ns : {<<>>, <<"B">>, <<"A", "B">>}, class : {<<"T">>, <<>>}]

\* An object has a class with a name; names are sequences of parts.
ASSUME FindAssumption ==
  \A o \in Listable : NamespaceOf[o] \in Seq(NameParts) /\ ClassName[o] \in Seq(NameParts) \ {<<>>}

Find == INSTANCE FindObjects WITH
  Things <- Listable, Namespace <- NamespaceOf, ClassName <- ClassName, Queries <- Sought, seen <- since

FindsInit == world = "find" /\ Find!FindInit /\ Init /\ ScanIdle
FindsNext ==
  world = "find" /\ Find!FindNext
  /\ UNCHANGED <<world, vars, scanVars>>

\* Of what the enumeration reports, exactly the objects of the class and the
\* namespace asked for are found, as long as no class name has a dot.
FoundIsAsked == world = "find" => Find!FoundIsAsked

(***************************************************************************)
(* MsIdScan over two sections of three words that may point to the         *)
(* registry and to three things that are none: a table with an object, one *)
(* whose header promises more than is there, and one with a broken header. *)
(***************************************************************************)
CONSTANTS
  Images,                  \* modules, by their sections
  Sets, Registry,          \* what a word may point to, and the registry
  RegistrySlots,           \* the size of its table
  HeaderOf, TableOf,       \* header and table of each other set
  Managers, Near, Batch,
  MaxCount, MaxScanned,    \* limits of a plausible header
  NoSet                    \* a word that leads to no readable memory

Sec(w, l, ws) == [wanted |-> w, lost |-> l, words |-> ws]
Head3(c, n) == [capacity |-> c, count |-> n]

MCImages ==
  {<<Sec(w, l, <<a, "real", b>>), Sec(TRUE, FALSE, <<c, "real">>)>> :
     w \in BOOLEAN, l \in BOOLEAN, a \in {"one", "none"}, b \in {"vast", "none"}, c \in {"broken"}}
MCHeaderOf == "one" :> Head3(1, 1) @@ "vast" :> Head3(9, 8) @@ "broken" :> Head3(0, 1)
MCTableOf == "one" :> <<"object">> @@ "vast" :> <<"object", "empty", "empty">> @@ "broken" :> <<"object">>

\* Sections are sequences of words; headers and tables may be anything; the
\* registry is no larger than the scan takes for plausible.
ASSUME ScanAssumption ==
  /\ Images \subseteq Seq([wanted : BOOLEAN, lost : BOOLEAN, words : Seq(Sets \cup {NoSet})])
  /\ Registry \in Sets /\ NoSet \notin Sets
  /\ HeaderOf \in [Sets \ {Registry} -> [capacity : Nat, count : Nat]]
  /\ TableOf \in [Sets \ {Registry} -> Seq({"empty", "erased", "object"})]
  /\ Batch \in Nat \ {0} /\ MaxCount \in Nat /\ MaxScanned \in Nat
  /\ RegistrySlots \in Nat /\ RegistrySlots <= MaxCount /\ RegistrySlots <= MaxScanned

Scan == INSTANCE MsIdScan WITH
  Slots <- RegistrySlots, MaxCapacity <- MaxScanned, Null <- NoSet, pc <- step, at <- word, capacity <- table

ScansInit == world = "scan" /\ Scan!Init /\ Init /\ FindIdle
ScansNext == world = "scan" /\ Scan!Next /\ UNCHANGED <<world, vars, findVars>>

\* The scan ends at a word that points to the registry, if the objects that
\* stay there and can be read are more than anything else seems to have.
RegistryFound == world = "scan" => Scan!RegistryFound

AllInit == EnumerateInit \/ FindsInit \/ ScansInit
AllNext == EnumerateNext \/ FindsNext \/ ScansNext
AllSpec == AllInit /\ [][AllNext]_allVars
==============================================================================
