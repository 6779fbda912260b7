---------------------------- MODULE MetadataHeader ----------------------------
(***************************************************************************)
(* The header of an IL2CPP metadata image and the score the locator gives  *)
(* it (metadata/header/header_parser.hpp).  A header is its version and,   *)
(* per table, the words offset and size.  Words have Width values and wrap *)
(* round when they are added, as std::uint32_t does.                       *)
(***************************************************************************)
EXTENDS Integers, Sequences, FiniteSetsExt

CONSTANTS
  Others,        \* the tables besides strings, images and assemblies (28)
  Width,         \* 2^32
  Align,         \* 4
  MinOffset,     \* 0x100
  MinTables,     \* 6
  MinEnd,        \* 0x20000
  MaxEnd,        \* 0x40000000
  ImageRecord,   \* 0x28
  AssemblyRecord,\* 0x40
  MaxRecords,    \* 200000
  ScorePage,     \* 0x1000
  Required,      \* requiredVersion, 0 for any
  Strict         \* strictVersion

HeaderTables == {"string", "images", "assemblies"} \cup Others

Headers == [version : 0..(Width - 1), offset : [HeaderTables -> 0..(Width - 1)],
            size : [HeaderTables -> 0..(Width - 1)]]

\* Mutant: the sum is computed in a wider type.
EndUnwrapped(h, t) == h.offset[t] + h.size[t]

\* o + s in std::uint32_t.
EndOf(h, t) == (h.offset[t] + h.size[t]) % Width

Used(h) == {t \in HeaderTables : h.size[t] # 0}

MaxEndOf(h) == Max({0} \cup {EndOf(h, t) : t \in Used(h)})

VersionFits(h) ==
  IF Required # 0 THEN h.version = Required ELSE Strict => h.version \in 10..100

OffsetFits(o) == o % Align = 0 /\ o >= MinOffset

\* A table of whole records, neither empty nor too many.
RecordsFit(h, t, record) ==
  /\ h.size[t] # 0 /\ h.offset[t] # 0
  /\ OffsetFits(h.offset[t])
  /\ h.size[t] % record = 0
  /\ h.size[t] \div record \in 1..MaxRecords

\* Everything ScoreMetadataHeader asks of a header.
Acceptable(h) ==
  /\ VersionFits(h)
  /\ h.offset["string"] # 0 /\ h.size["string"] # 0 /\ OffsetFits(h.offset["string"])
  /\ RecordsFit(h, "images", ImageRecord)
  /\ RecordsFit(h, "assemblies", AssemblyRecord)
  /\ \A t \in Used(h) : h.offset[t] # 0 /\ OffsetFits(h.offset[t])
  /\ Cardinality(Used(h)) >= MinTables
  /\ MaxEndOf(h) \in MinEnd..MaxEnd
  /\ \A t \in {"string", "images", "assemblies"} : EndOf(h, t) <= MaxEndOf(h)

\* score, 0 for a header that is refused.
ScoreMetadataHeader(h) ==
  IF ~ Acceptable(h) THEN 0
  ELSE 100000 * Cardinality(Used(h)) + MaxEndOf(h) \div ScorePage
       + Min({h.size["string"], MaxEnd}) \div ScorePage
       + Min({h.size["images"] \div ImageRecord, MaxRecords})
       + Min({h.size["assemblies"] \div AssemblyRecord, MaxRecords})

\* CalcTotalSizeFromHeader; 0 is its failure.
CalcTotalSizeFromHeader(h) == MaxEndOf(h)
===============================================================================
