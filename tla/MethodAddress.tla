---------------------------- MODULE MethodAddress ----------------------------
(***************************************************************************)
(* Where the code of a method is: for one method of a running target       *)
(* (ResolveMethodAddress, method_resolver.hpp) and for all of them in      *)
(* dump.cs (dumpsdk/dump_cs.hpp, dump_writer.hpp); and what the metadata   *)
(* says of a method (metadata_methods.hpp), of which two layouts or more   *)
(* have to be told apart.                                                  *)
(*                                                                         *)
(* A type belongs to an image, the image to the code generation module of  *)
(* the same name but for path, case and extension, and the low bits of a   *)
(* method's token, its row, are the place of its pointer there.  One       *)
(* action is one read, which may fail, of an image, a pointer or the       *)
(* pointers of a module; or the methods of one type.                       *)
(***************************************************************************)
EXTENDS Integers, Sequences, Functions, FiniteSetsExt

CONSTANTS
  Targets,      \* see TargetType
  Key,          \* NormalizeAssemblyKey of each name; "" of ""
  ViewSearch,   \* layouts looked for: [layouts, sample, limit, whole], a layout being
  DumpSearch,   \*   words of a record and of what is before its token
  Rows,         \* of tokens that ResolveMethodAddress is asked for
  Indices,      \* of methods that ReadMethodDefView is asked for
  MaxImages,    \* the most images metadata is taken to have (300000)
  MaxPointers,  \* 4000000
  Width         \* 2^32

\* words: the metadata from its method table on; positive is a token with that
\* row, and any other word has its low bits negated.  size: words of the table,
\* of which the metadata may lack the end.  layout: the one it really has.
\* types: 0 is the first, as in images.  modules: codeGenModuleList of the hint,
\* where no pointers is an address that is zero.  hint: whether its bases are
\* there.
TargetType ==
  [images : Seq([name : STRING, start : Int, count : Int]), types : Seq([first : Nat, count : Nat]),
   words : Seq(Int), size : Nat, layout : [stride : Nat, token : Nat],
   modules : Seq([name : STRING, pointers : Seq(Nat)]),
   sections : Seq([rva : Nat, size : Nat, raw : Nat]), base : Nat, hint : BOOLEAN]

VARIABLES
  target,
  pc,        \* "idle", "header", "image", "pointer", "module", "type";
             \* "failed", "resolved", "viewed", "written"
  asked,     \* [type, row] of a call to resolve, [method] of one that is viewed
  turn,      \* the image, module or type to come
  images,    \* MetadataImageInfo read so far, by index
  pointers,  \* modulePointers
  diskSecs,
  answers,   \* [type, row, va, rva, fileOffset]: the answer, or lines of dump.cs
  unread     \* history: some read of the call has failed

vars == <<target, pc, asked, turn, images, pointers, diskSecs, answers, unread>>

Nothing == [nothing |-> TRUE]

\* The table f with v as the entry of k.
With(f, k, v) == [x \in DOMAIN f \cup {k} |-> IF x = k THEN v ELSE f[x]]

\* Sections of a file, of which the headers may end early.
Sections == {SubSeq(target.sections, 1, n) : n \in 0..Len(target.sections)}

Init ==
  /\ target \in Targets
  /\ pc = "idle"
  /\ asked = Nothing /\ turn = 1 /\ images = <<>> /\ pointers = <<>> /\ diskSecs = <<>> /\ answers = {}
  /\ unread = FALSE

(***************************************************************************)
(* Images, sections and methods.                                           *)
(***************************************************************************)
Usable(image) == image.start >= 0 /\ image.count > 0

End(image) == image.start + image.count

\* Mutant: the type behind an image is its own.
CoveredUpTo(image) == image.start..End(image)
Covered(image) == image.start..(End(image) - 1)

\* BuildTypeDefIndexToImageNameMap: later images overwrite earlier ones.
ImageNameOf(t) ==
  LET covering == {k \in DOMAIN images : t \in Covered(images[k])}
  IN  IF covering = {} THEN "" ELSE images[Max(covering)].name

\* TryRvaToFileOffset in its two versions.
FileOffset(secs, rva) ==
  LET holding == {k \in DOMAIN secs : secs[k].size # 0 /\ rva \in secs[k].rva..(secs[k].rva + secs[k].size - 1)}
      s       == secs[Min(holding)]
  IN  IF rva = 0 \/ holding = {} THEN 0
      ELSE IF s.raw = 0 THEN 0 ELSE s.raw + rva - s.rva

Rva(va) == IF va >= target.base THEN va - target.base ELSE 0

\* The cast to 32 bits comes before the sections are looked at.
Answer(t, row, va, secs) ==
  [type |-> t, row |-> row, va |-> va, rva |-> Rva(va), fileOffset |-> FileOffset(secs, Rva(va) % Width)]

IsLikelyMethodToken(w) == w > 0
TokenRowId(w) == IF w > 0 THEN w ELSE -w

\* Words of record m of the table of target t, by a layout.
Holds(t, layout, m) == (m + 1) * layout.stride <= Len(t.words)
TypeOf(t, layout, m) == TokenRowId(t.words[m * layout.stride + 2])
TokenAt(layout, m) == m * layout.stride + layout.token + 1
RowOf(t, layout, m) == TokenRowId(t.words[TokenAt(layout, m)])

\* Records that look like methods; whole: only of records that do not end
\* behind the metadata.
Tokens(t, search, layout) ==
  LET count == t.size \div layout.stride
  IN  {m \in 0..(Min({count, search.sample}) - 1) :
         /\ TokenAt(layout, m) <= Len(t.words)
         /\ search.whole => Holds(t, layout, m)
         /\ IsLikelyMethodToken(t.words[TokenAt(layout, m)])}
Hits(t, search, l) == Cardinality(Tokens(t, search, search.layouts[l]))

\* Layouts the size of the table allows.
Possible(t, search) ==
  {l \in DOMAIN search.layouts :
     /\ t.size % search.layouts[l].stride = 0
     /\ t.size \div search.layouts[l].stride \in 1..search.limit}

\* Mutant: the first layout the size allows.
FirstPossible(t, search) == Min(Possible(t, search))

\* DetectMethodDefLayout, DetectMethodDefLayoutFullFromHeader: the one with the
\* most tokens, the first of equals.
BestPossible(t, search) ==
  Min({l \in Possible(t, search) : \A k \in Possible(t, search) : Hits(t, search, k) <= Hits(t, search, l)})

Detected(t, search) == search.layouts[BestPossible(t, search)]

(***************************************************************************)
(* ResolveMethodAddress.                                                   *)
(***************************************************************************)
Resolve(t, row) ==
  /\ pc = "idle"
  /\ asked' = [type |-> t, row |-> row]
  /\ pc' = IF target.hint THEN "header" ELSE "failed"
  /\ UNCHANGED <<target, turn, images, pointers, diskSecs, answers, unread>>

\* ReadMetadataHeaderFieldsFromMemory; no images, or too many, end the call.
ReadHeader ==
  /\ pc = "header"
  /\ \/ pc' = (IF Len(target.images) \in 1..MaxImages THEN "image" ELSE "failed") /\ UNCHANGED unread
     \/ pc' = "failed" /\ unread' = TRUE
  /\ UNCHANGED <<target, asked, turn, images, pointers, diskSecs, answers>>

\* One turn of ReadImagesFromMemory.  An image of which a word is not read is
\* left out; one whose name is not read has none.
ReadImage ==
  /\ pc = "image"
  /\ turn <= Len(target.images)
  /\ LET image == target.images[turn]
         unnamed == [image EXCEPT !.name = ""]
     IN  \/ /\ images' = IF Usable(image) THEN With(images, turn, image) ELSE images
            /\ UNCHANGED unread
         \/ /\ images' \in {images, IF Usable(image) THEN With(images, turn, unnamed) ELSE images}
            /\ unread' = TRUE
  /\ turn' = turn + 1
  /\ UNCHANGED <<target, pc, asked, pointers, diskSecs, answers>>

\* FindCodeGenModuleForImage: the first of that key, 0 for none.
FindCodeGenModuleForImage(name) ==
  LET named == {m \in DOMAIN target.modules : Key[target.modules[m].name] = Key[name]}
  IN  IF Key[name] = "" \/ named = {} THEN 0 ELSE Min(named)

\* The images are read: where the pointer should be.
FindPointer ==
  /\ pc = "image"
  /\ turn > Len(target.images)
  /\ LET m == FindCodeGenModuleForImage(ImageNameOf(asked.type))
     IN  /\ turn' = m
         /\ pc' = IF m # 0 /\ asked.row \in 1..Len(target.modules[m].pointers) THEN "pointer" ELSE "failed"
  /\ UNCHANGED <<target, asked, images, pointers, diskSecs, answers, unread>>

\* Mutant: rows are counted from 0.
PointerFromZero(m, row) == IF row < Len(m.pointers) THEN m.pointers[row + 1] ELSE 0
PointerAt(m, row) == m.pointers[row]

\* The pointer, and with it the sections of the file, as far as that can be read.
ReadPointer ==
  /\ pc = "pointer"
  /\ LET va == PointerAt(target.modules[turn], asked.row)
     IN  \/ /\ pc' = "failed" /\ unread' = (unread \/ va # 0)
            /\ UNCHANGED <<answers, diskSecs>>
         \/ /\ va # 0
            /\ pc' = "resolved"
            /\ diskSecs' \in Sections
            /\ answers' = {Answer(asked.type, asked.row, va, diskSecs')}
            /\ UNCHANGED unread
  /\ UNCHANGED <<target, asked, turn, images, pointers>>

(***************************************************************************)
(* dump.cs.  The metadata has been copied; images are read from the copy.  *)
(* Sections are those of the file, as far as it can be read.               *)
(***************************************************************************)
Dump ==
  /\ pc = "idle"
  /\ target.hint
  /\ pc' = "module"
  /\ images' = IF Len(target.images) \in 1..MaxImages
                 THEN [k \in {i \in DOMAIN target.images : Usable(target.images[i])} |-> target.images[k]]
                 ELSE <<>>
  /\ diskSecs' \in Sections
  /\ UNCHANGED <<target, asked, turn, pointers, answers, unread>>

\* One turn of the loop that fills modulePointers; a later module of one key
\* takes the place of an earlier one.
ReadModule ==
  /\ pc = "module"
  /\ turn <= Len(target.modules)
  /\ LET m == target.modules[turn]
         wanted == Key[m.name] # "" /\ Len(m.pointers) \in 1..MaxPointers
     IN  \/ pointers' = (IF wanted THEN With(pointers, Key[m.name], m.pointers) ELSE pointers) /\ UNCHANGED unread
         \/ wanted /\ unread' = TRUE /\ UNCHANGED pointers
  /\ turn' = turn + 1
  /\ UNCHANGED <<target, pc, asked, images, diskSecs, answers>>

DetectLayout ==
  /\ pc = "module"
  /\ turn > Len(target.modules)
  /\ pc' = IF Possible(target, DumpSearch) = {} THEN "failed" ELSE "type"
  /\ turn' = 1
  /\ UNCHANGED <<target, asked, images, pointers, diskSecs, answers, unread>>

\* The pointer of a row of type t as the table of modules has it.
PointerOf(t, row) ==
  LET key == Key[ImageNameOf(t)]
  IN  IF row # 0 /\ key # "" /\ key \in DOMAIN pointers
        THEN IF row <= Len(pointers[key]) THEN pointers[key][row] ELSE 0
      ELSE 0

\* The methods of one type, up to the first that is not in the metadata.
MethodsOf(t) ==
  LET first == target.types[t + 1].first
  IN  {m \in first..(first + target.types[t + 1].count - 1) :
         \A k \in first..m : Holds(target, Detected(target, DumpSearch), k)}

\* A method's line in dump.cs.
Line(t, m) ==
  LET row == RowOf(target, Detected(target, DumpSearch), m) IN Answer(t, row, PointerOf(t, row), diskSecs)

WriteMethods ==
  /\ pc = "type"
  /\ turn <= Len(target.types)
  /\ answers' = answers \cup {Line(turn - 1, m) : m \in MethodsOf(turn - 1)}
  /\ turn' = turn + 1
  /\ UNCHANGED <<target, pc, asked, images, pointers, diskSecs, unread>>

Written ==
  /\ pc = "type"
  /\ turn > Len(target.types)
  /\ pc' = "written"
  /\ UNCHANGED <<target, asked, turn, images, pointers, diskSecs, answers, unread>>

(***************************************************************************)
(* DetectMethodDefLayout and ReadMethodDefView.                            *)
(***************************************************************************)
View(m) ==
  /\ pc = "idle"
  /\ asked' = [method |-> m]
  /\ LET layout == Detected(target, ViewSearch)
     IN  IF Possible(target, ViewSearch) # {} /\ Holds(target, layout, m)
           THEN pc' = "viewed" /\ answers' = {[type |-> TypeOf(target, layout, m), row |-> RowOf(target, layout, m)]}
         ELSE pc' = "failed" /\ UNCHANGED answers
  /\ UNCHANGED <<target, turn, images, pointers, diskSecs, unread>>

Next ==
  \/ \E t \in 0..Len(target.types), row \in Rows : Resolve(t, row)
  \/ ReadHeader \/ ReadImage \/ FindPointer \/ ReadPointer
  \/ Dump \/ ReadModule \/ DetectLayout \/ WriteMethods \/ Written
  \/ \E m \in Indices : View(m)

(***************************************************************************)
(* Properties.  What is true of a target: its images do not overlap, its   *)
(* modules have different keys.                                            *)
(***************************************************************************)
TypesOf(image) == image.start..(image.start + image.count - 1)

Disjoint ==
  /\ \A k, l \in DOMAIN target.images : k # l => TypesOf(target.images[k]) \cap TypesOf(target.images[l]) = {}
  /\ \A k, l \in DOMAIN target.modules :
       k # l => Key[target.modules[k].name] # Key[target.modules[l].name]

\* Rows of the methods of type t, by the layout the table has.
RowsOf(t) ==
  {RowOf(target, target.layout, m) :
     m \in {k \in target.types[t + 1].first..(target.types[t + 1].first + target.types[t + 1].count - 1) :
              Holds(target, target.layout, k)}}

\* <<type, row, va>> of everything that has code in the target.
Code ==
  LET named  == {image \in Range(target.images) : Usable(image) /\ image.name # ""}
      pairs  == {x \in named \X Range(target.modules) : Key[x[1].name] = Key[x[2].name]}
      of(image, m) == {<<t, row, m.pointers[row]>> : t \in TypesOf(image), row \in DOMAIN m.pointers}
  IN  {c \in UNION {of(x[1], x[2]) : x \in pairs} : c[3] # 0}

\* Where the file has what is at rva of the module.
InFile(rva) ==
  {s.raw + rva - s.rva : s \in {x \in Range(target.sections) : x.raw # 0 /\ rva \in x.rva..(x.rva + x.size - 1)}}

\* An address that is returned or written in dump.cs is that of a method of
\* that row and type, whatever could not be read in between, and an offset is
\* where the file has it, if it is in the module.
AddressIsOfMethod ==
  pc \in {"resolved", "written"} /\ Disjoint =>
    \A a \in {x \in answers : x.va # 0} :
      /\ <<a.type, a.row, a.va>> \in Code
      /\ a.rva # 0 => a.va = target.base + a.rva
      /\ a.fileOffset # 0 /\ a.rva < Width => a.fileOffset \in InFile(a.rva)

\* Where nothing was unreadable, every method that has code gets its address,
\* from a call that asks for it and in dump.cs.
AddressesAreAll ==
  Disjoint /\ ~ unread /\ target.hint =>
    /\ pc = "failed" /\ "row" \in DOMAIN asked =>
         ~ \E c \in Code : c[1] = asked.type /\ c[2] = asked.row
    /\ pc = "written" /\ target.layout \in Range(DumpSearch.layouts) =>
         \A c \in Code : c[2] \in RowsOf(c[1]) => \E a \in answers : <<a.type, a.row, a.va>> = c

\* A method in dump.cs is one of its type, and one that is viewed is the one
\* asked for: of the layouts the size allows, the right one is taken.
MethodIsOfType ==
  /\ pc = "written" /\ target.layout \in Range(DumpSearch.layouts) =>
       \A a \in answers : a.row \in RowsOf(a.type)
  /\ pc = "viewed" /\ target.layout \in Range(ViewSearch.layouts)
       /\ asked.method < target.size \div target.layout.stride =>
         answers = {[type |-> TypeOf(target, target.layout, asked.method),
                     row |-> RowOf(target, target.layout, asked.method)]}
==============================================================================
