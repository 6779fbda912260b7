----------------------------- MODULE FindObjects -----------------------------
(***************************************************************************)
(* FindObjectsOfTypeAll (find_objects_of_type_all.hpp, init/msid.hpp):     *)
(* every object an enumeration of the registry reports goes through a      *)
(* callback that keeps those of the class asked for.  The enumeration is   *)
(* the one of ObjectListing.                                               *)
(*                                                                         *)
(* The callback gets a full name, namespace and class with a dot between,  *)
(* and takes it apart at the last dot.  A name is the sequence of the      *)
(* parts its dots separate.                                                *)
(***************************************************************************)
EXTENDS ObjectListing, Sequences, Naturals

CONSTANTS
  Namespace, ClassName,  \* of the class of each object
  Queries                \* [ns, class]: what is asked for; no namespace is any

VARIABLES
  asked,  \* targetNs, targetCn
  found,  \* out, as a set
  bare    \* history: things reported whose namespace could not be read

findVars == <<listingVars, asked, found, bare>>

Nothing == [ns |-> <<>>, class |-> <<>>]

FindInit == Init /\ asked = Nothing /\ found = {} /\ bare = {}

\* Without a context, a slot or a class name the call returns at once.
Find ==
  /\ Start
  /\ asked' \in Queries
  /\ (asked'.class = <<>> => phase' = "answered")
  /\ UNCHANGED <<found, bare>>

\* ns.empty() ? cn : ns + "." + cn, where ns stays empty if it cannot be read.
NamespaceRead(o) == IF o \in bare THEN <<>> ELSE Namespace[o]
FullName(o) == NamespaceRead(o) \o ClassName[o]

\* Mutant: the name is taken apart at the first dot.
AtFirstDot(n) == IF Len(n) = 1 THEN [ns |-> <<>>, class |-> n]
                               ELSE [ns |-> <<n[1]>>, class |-> Tail(n)]

\* rfind('.')
AtLastDot(n) == [ns |-> SubSeq(n, 1, Len(n) - 1), class |-> <<n[Len(n)]>>]

Matches(n) == n.class = asked.class /\ (asked.ns = <<>> \/ n.ns = asked.ns)

\* What was read of a class stays with the call.
Callback(o) ==
  /\ ReportOne(o)
  /\ bare' \in {bare, bare \cup {o}}
  /\ o \in reported => bare' = bare
  /\ found' = IF Matches(AtLastDot(FullName(o)')) THEN found \cup {o} ELSE found
  /\ UNCHANGED asked

Answered == Answer /\ UNCHANGED <<asked, found, bare>>
Taken == Clear /\ asked' = Nothing /\ found' = {} /\ bare' = {}
Moves == Change /\ phase # "answered" /\ UNCHANGED <<asked, found, bare>>

FindNext == Find \/ (\E o \in Things : Callback(o)) \/ Answered \/ Taken \/ Moves

\* Of the objects the enumeration reports, those are found that are of the
\* class and the namespace asked for, nested namespaces included, as long as
\* no name of a class has a dot in it.  An object whose namespace could not be
\* read is found only when none is asked for.
FoundIsAsked ==
  \A o \in reported :
    Len(ClassName[o]) = 1 =>
      (o \in found <=> /\ ClassName[o] = asked.class
                       /\ asked.ns = <<>> \/ (asked.ns = Namespace[o] /\ o \notin bare))
==============================================================================
