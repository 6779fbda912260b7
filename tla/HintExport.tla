----------------------------- MODULE HintExport -----------------------------
(***************************************************************************)
(* The metadata hint of a module in another process (hint_export.hpp,      *)
(* hint_json.hpp) and the file it is written to.  The target runs: from    *)
(* any step on it may be gone, and every read may fail on its own.  Some   *)
(* failures end the export, others leave a field of the hint at zero.      *)
(***************************************************************************)
EXTENDS Naturals

CONSTANTS
  Targets,         \* modules: the words an export reads
  ImageRecord,     \* 0x28
  AssemblyRecord,  \* 0x40
  Null             \* null in the document

VARIABLES
  pc,
  target,    \* the module exported from
  version,   \* required of the header; 0: any, and then strictly (TVersion)
  hint,      \* MetadataHint
  document,  \* outJson; Null when empty
  file       \* as this export found it ("old"), truncated ("open"), "new"

vars == <<pc, target, version, hint, document, file>>

Fields == {"modulePath", "moduleSize", "peImageBase", "metaBase", "totalSize", "magic", "version",
           "imagesCount", "assembliesCount", "codeRegistration", "metadataRegistration",
           "codeRegistrationRva", "metadataRegistrationRva", "codeGenModules"}

\* Fields written as they are; the others are null when they are zero.
Plain == {"moduleSize", "metaBase", "totalSize", "magic", "version"}

NoHint == [f \in Fields |-> 0]

Init ==
  /\ pc = "idle" /\ target \in Targets /\ version \in {0, 1}
  /\ hint = NoHint /\ document = Null /\ file = "old"

kept == <<target, version>>
Set(assigned) == hint' = [f \in Fields |-> IF f \in DOMAIN assigned THEN assigned[f] ELSE hint[f]]
Is(f, v) == [x \in {f} |-> v]
Return == pc' = "idle"

\* outHint and outJson are cleared; without a module base nothing is done.
Export ==
  /\ pc = "idle"
  /\ hint' = NoHint /\ document' = Null /\ file' = "old"
  /\ IF target.base = 0 THEN Return ELSE pc' = "path"
  /\ UNCHANGED kept

\* An unknown process id or an unlisted module leaves the path empty.
TryQueryModulePath ==
  /\ pc = "path"
  /\ \E listed \in BOOLEAN : Set(IF listed THEN Is("modulePath", target.modulePath) ELSE <<>>)
  /\ pc' = "sections"
  /\ UNCHANGED <<kept, document, file>>

ReadModuleSections ==
  /\ pc = "sections"
  /\ \E good \in BOOLEAN :
       IF good THEN Set(Is("moduleSize", target.moduleSize)) /\ pc' = "base"
               ELSE Return /\ UNCHANGED hint
  /\ UNCHANGED <<kept, document, file>>

ReadModuleImageBase ==
  /\ pc = "base"
  /\ \E good \in BOOLEAN : Set(IF good THEN Is("peImageBase", target.peImageBase) ELSE <<>>)
  /\ pc' = "metadata"
  /\ UNCHANGED <<kept, document, file>>

FindMetadataPointerByScore ==
  /\ pc = "metadata"
  /\ \E good \in BOOLEAN :
       IF good /\ version \in {0, target.version}
         THEN Set(Is("metaBase", target.metaBase)) /\ pc' = "total"
         ELSE Return /\ UNCHANGED hint
  /\ UNCHANGED <<kept, document, file>>

CalcTotalSizeFromHeader ==
  /\ pc = "total"
  /\ \E good \in BOOLEAN :
       IF good THEN Set(Is("totalSize", target.totalSize)) /\ pc' = "words"
               ELSE Return /\ UNCHANGED hint
  /\ UNCHANGED <<kept, document, file>>

\* Mutant: the number of assemblies is taken from the images' size.
AssembliesOfImages(read) ==
  LET size == IF "images" \in read THEN target.imagesSize ELSE 0
  IN  IF size % AssemblyRecord = 0 THEN size \div AssemblyRecord ELSE 0

\* A size that is no multiple of the record's, or was not read, gives no count.
AssembliesCount(read) ==
  LET size == IF "assemblies" \in read THEN target.assembliesSize ELSE 0
  IN  IF size % AssemblyRecord = 0 THEN size \div AssemblyRecord ELSE 0

ImagesCount(read) ==
  LET size == IF "images" \in read THEN target.imagesSize ELSE 0
  IN  IF size % ImageRecord = 0 THEN size \div ImageRecord ELSE 0

\* Four reads whose results are not looked at.
ReadHeaderWords ==
  /\ pc = "words"
  /\ \E read \in SUBSET {"magic", "version", "images", "assemblies"} :
       Set([magic |-> IF "magic" \in read THEN target.magic ELSE 0,
            version |-> IF "version" \in read THEN target.version ELSE 0,
            imagesCount |-> ImagesCount(read), assembliesCount |-> AssembliesCount(read)])
  /\ pc' = "registrations"
  /\ UNCHANGED <<kept, document, file>>

\* One of the registrations may be missing.
FindIl2CppRegistrations ==
  /\ pc = "registrations"
  /\ \E found \in SUBSET {"code", "metadata"} :
       LET code == IF "code" \in found THEN target.codeRegistration ELSE 0
           meta == IF "metadata" \in found THEN target.metadataRegistration ELSE 0
           Rva(va) == IF va # 0 /\ va >= target.base THEN va - target.base ELSE 0
       IN  Set([codeRegistration |-> code, metadataRegistration |-> meta,
                codeRegistrationRva |-> Rva(code), metadataRegistrationRva |-> Rva(meta)])
  /\ pc' = "modules"
  /\ UNCHANGED <<kept, document, file>>

\* The array that the code registration names, if the version is known by which
\* the registration is laid out; modules found without it have no array.
CollectCodeGenModules ==
  /\ pc = "modules"
  /\ \E good \in BOOLEAN :
       Set(IF good /\ hint.version # 0 /\ hint.codeRegistration # 0
             THEN Is("codeGenModules", target.codeGenModules) ELSE <<>>)
  /\ pc' = "json"
  /\ UNCHANGED <<kept, document, file>>

\* A path that cannot be converted to UTF-8 becomes null.
BuildMetadataHintJson ==
  /\ pc = "json"
  /\ \E converted \in BOOLEAN :
       document' = [f \in Fields |->
                      IF (f \notin Plain /\ hint[f] = 0) \/ (f = "modulePath" /\ ~ converted)
                        THEN Null ELSE hint[f]]
  /\ pc' = "open"
  /\ UNCHANGED <<kept, hint, file>>

\* Mutant: the file is opened before there is a document.
OpenFirst ==
  /\ pc \in {"path", "open"}
  /\ IF pc = "open"
       THEN \E good \in BOOLEAN : IF good THEN pc' = "write" /\ file' = "open" ELSE Return /\ UNCHANGED file
       ELSE UNCHANGED pc /\ file' = "open"
  /\ UNCHANGED <<kept, hint, document>>

OpenFile ==
  /\ pc = "open"
  /\ \E good \in BOOLEAN : IF good THEN pc' = "write" /\ file' = "open" ELSE Return /\ UNCHANGED file
  /\ UNCHANGED <<kept, hint, document>>

WriteFile ==
  /\ pc = "write"
  /\ \E good \in BOOLEAN : file' = IF good THEN "new" ELSE "open"
  /\ Return
  /\ UNCHANGED <<kept, hint, document>>

Next ==
  \/ Export \/ TryQueryModulePath \/ ReadModuleSections \/ ReadModuleImageBase
  \/ FindMetadataPointerByScore \/ CalcTotalSizeFromHeader \/ ReadHeaderWords
  \/ FindIl2CppRegistrations \/ CollectCodeGenModules \/ BuildMetadataHintJson \/ OpenFile \/ WriteFile

Spec == Init /\ [][Next]_vars

(***************************************************************************)
(* Properties.                                                             *)
(***************************************************************************)
Count(size, record) == IF size % record = 0 THEN size \div record ELSE 0

TrueValue(f) ==
  CASE f = "imagesCount" -> Count(target.imagesSize, ImageRecord)
    [] f = "assembliesCount" -> Count(target.assembliesSize, AssemblyRecord)
    [] f = "codeRegistrationRva" -> target.codeRegistration - target.base
    [] f = "metadataRegistrationRva" -> target.metadataRegistration - target.base
    [] OTHER -> target[f]

\* What a hint says of the module is so: a failed read leaves a field out (null,
\* or zero where the document has no null) and makes none of the others wrong.
HintTellsTruth ==
  document # Null =>
    \A f \in Fields : document[f] = TrueValue(f) \/ document[f] = IF f \in Plain THEN 0 ELSE Null

\* A hint that was there is lost only when a document is ready to take its
\* place: an export that fails before leaves it alone.
OldUntilReady == file = "old" \/ document # Null
==============================================================================
