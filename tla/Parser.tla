------------------------------- MODULE Parser -------------------------------
(***************************************************************************)
(* The module parser of fa_wasm.c: a cursor over a file or a buffer, the   *)
(* scan of the sections and one loader for each table of the module, which *)
(* the embedder calls one after the other, and the bodies that are read    *)
(* much later, when the runtime wants them.                                *)
(*                                                                         *)
(* A stream is a sequence of items: a LEB128 number, a byte or the bytes   *)
(* of a name each count as one, and sizes and offsets count items.  The    *)
(* stream may end early.  A LEB128 number read past the end is 0 and no    *)
(* error, a byte is an error.  Allocation does not fail here.              *)
(***************************************************************************)
EXTENDS Format, SequencesExt

CONSTANT Files   \* the streams by name

(* A stream is a file or a buffer of numbers.  It may be what a module is  *)
(* written with, whole or cut after any item, which the properties compare *)
(* it with; the loaders know nothing of that.                              *)
ASSUME StreamsAssumption ==
  \A n \in DOMAIN Files : Files[n].stream \in Seq(Nat) /\ Files[n].isFile \in BOOLEAN
ASSUME FormedAssumption ==
  \A n \in DOMAIN Files :
    LET f == Files[n]
    IN  f.formed =>
          /\ LaidOut(f.items, f.written, f.layout)
          /\ Len(f.stream) <= Len(f.items)
          /\ \A k \in 1 .. Len(f.stream) : f.stream[k] = f.items[k]
          /\ f.declared = Stated(f.written)
ASSUME WholeAssumption ==
  \A n \in DOMAIN Files :
    Files[n].whole => Files[n].formed /\ Len(Files[n].stream) = Len(Files[n].items)

VARIABLES
  input,      \* the stream in use, its name and whether a file holds it
  sections,   \* module->sections
  module,     \* the tables of the module, by the name of their loader
  result,     \* what each loader returned: "none", "ok" or "fail"
  body        \* the function whose body was loaded last and the body

vars == <<input, sections, module, result, body>>

Loaders == {"types", "functions", "exports", "tables", "memories", "globals",
            "elements", "data"}

NoBody == [fn |-> -1, items |-> <<>>]

(* The tables keep their shape, sections come one after the other, and     *)
(* what the function table of a buffer points at lies inside the buffer,   *)
(* unless it is one that was left behind when the loader failed.           *)
TypeOK ==
  /\ DOMAIN module = Loaders
  /\ result \in [Loaders \cup {"header", "sections"} -> {"none", "ok", "fail"}]
  /\ \A k \in 1 .. Len(sections) - 1 : sections[k].offset < sections[k + 1].offset
  /\ result["functions"] # "fail" =>
       \A f \in Range(module["functions"]) :
         input.isFile \/ f.offset + f.size <= Len(input.stream)
  /\ body.fn \in Int

-----------------------------------------------------------------------------
(* The stream.                                                             *)

Stream == input.stream
Size == Len(Stream)

(* Defect: a buffer too may be positioned past its end.                    *)
BugCanSeek(p) == TRUE

(* wasm_stream_seek: a file may be positioned past its end. *)
CanSeek(p) == input.isFile \/ p <= Size

Here(p) == p < Size
Next1(p) == IF Here(p) THEN p + 1 ELSE p

(* read_uleb128 and its siblings: the value of a number that is not there. *)
Number(p) == IF Here(p) THEN Stream[p + 1] ELSE 0

(* What was read: whether it is there, where it ends and what it is.       *)
Got(ok, p, v) == [ok |-> ok, at |-> p, val |-> v]
Byte(p) == Got(Here(p), Next1(p), Number(p))

(* read_string: no bytes are NULL, which 0 stands for; -1 is a name whose  *)
(* bytes are not there.                                                    *)
NameAt(q, len) ==
  IF len = 0 THEN Got(TRUE, q, 0)
  ELSE Got(TRUE, Next1(q), IF Here(q) THEN Number(q) ELSE -1)
Name(p) == NameAt(Next1(p), Number(p))

(* A vector of value types: each is a byte.                                *)
BytesAt(q, end) ==
  IF end <= Size THEN Got(TRUE, end, SubSeq(Stream, q + 1, end))
  ELSE Got(FALSE, Size, <<>>)
Bytes(p) == BytesAt(Next1(p), Next1(p) + Number(p))

(* Defect: the maximum of a table or a memory is not skipped.              *)
BugLimits(p) ==
  Got(TRUE, Next1(Next1(p)),
      [flags |-> Number(p), initial |-> Number(Next1(p)), max |-> 0])

(* Flags, initial size and maximum of a table or of a memory; bit 0 of the *)
(* flags says there is a maximum.                                          *)
Limits(p) ==
  LET bounded == Number(p) % 2 = 1  q == Next1(p)
  IN  Got(TRUE, IF bounded THEN Next1(Next1(q)) ELSE Next1(q),
          [flags |-> Number(p), initial |-> Number(q),
           max |-> IF bounded THEN Number(Next1(q)) ELSE 0])

(* A constant expression of one instruction.                               *)
Constant(p, ops) ==
  Got(Here(p + 2) /\ Number(p) \in ops /\ Number(p + 2) = End, p + 3,
      <<Number(p), Number(p + 1)>>)

(* wasm_read_init_expr_offset: an integer, 0 or more.                      *)
Offset(p) ==
  Got(Constant(p, {65, 66}).ok /\ Number(p + 1) >= 0, p + 3, Number(p + 1))

(* A field of an entry; "index" is a number whose absence is an error.     *)
Field(what, p) ==
  CASE what = "number" -> Got(TRUE, Next1(p), Number(p))
    [] what = "index" -> Got(Here(p), Next1(p), Number(p))
    [] what = "byte" -> Byte(p)
    [] what = "name" -> Name(p)
    [] what = "bytes" -> Bytes(p)
    [] what = "limits" -> Limits(p)
    [] what = "offset" -> Offset(p)
    [] what = "constant" -> Constant(p, Consts \cup {GlobalGet})

Then(w, x) == IF w.ok THEN Got(x.ok, x.at, Append(w.val, x.val)) ELSE w

(* Fields one after the other, up to the first that is not there.          *)
Read(p, shape) ==
  LET R[j \in 0 .. Len(shape)] ==
        IF j = 0 THEN Got(TRUE, p, <<>>)
        ELSE LET w == R[j-1] IN Then(w, Field(shape[j], w.at))
  IN  R[Len(shape)]

Accept(r, allowed, v) == IF r.ok /\ allowed THEN Got(TRUE, r.at, v)
                         ELSE Got(FALSE, r.at, <<>>)

(* The first section of a kind, if any. *)
Has(id) == \E k \in 1 .. Len(sections) : sections[k].type = SectionId[id]
First(id) ==
  CHOOSE k \in 1 .. Len(sections) :
    /\ sections[k].type = SectionId[id]
    /\ \A j \in 1 .. k - 1 : sections[j].type # SectionId[id]
At(id) == sections[First(id)].offset

-----------------------------------------------------------------------------
(* The import section, which four of the loaders walk on their own.        *)

(* One entry: names, kind and what the kind brings along.                  *)
Brings(kind) == CASE kind = Kinds.function -> <<"number">>
                  [] kind = Kinds.table -> <<"byte", "limits">>
                  [] kind = Kinds.memory -> <<"limits">>
                  [] kind = Kinds.global -> <<"byte", "byte">>
ImportOf(head, desc) ==
  Got(desc.ok, desc.at,
      [kind |-> head[3], name |-> <<head[1], head[2]>>, desc |-> desc.val])
Import(p) ==
  LET head == Read(p, <<"name", "name", "byte">>)
  IN  IF head.ok /\ head.val[3] <= 3
      THEN ImportOf(head.val, Read(head.at, Brings(head.val[3])))
      ELSE Got(FALSE, head.at, <<>>)

(* What each of the four walks refuses.                                    *)
Unnamed(e) == -1 \in Range(e.name)
Refused(loader, e) ==
  CASE loader = "globals" -> /\ e.kind = Kinds.global
                             /\ e.desc[1] \notin ValTypes \/ e.desc[2] > 1
    [] loader = "tables" -> Unnamed(e) \/ (e.kind = Kinds.table /\ e.desc[1] \notin RefTypes)
    [] OTHER -> Unnamed(e)

Step(loader, w, e) ==
  IF w.ok THEN Got(e.ok /\ ~ Refused(loader, e.val), e.at, Append(w.val, e.val)) ELSE w

Walk(loader) ==
  LET W[j \in 0 .. Number(At("import"))] ==
        IF j = 0 THEN Got(TRUE, Next1(At("import")), <<>>)
        ELSE LET w == W[j-1] IN Step(loader, w, Import(w.at))
  IN  IF Has("import") THEN W[Number(At("import"))] ELSE Got(TRUE, 0, <<>>)

(* The import half of each of the four loaders.                            *)
ImportedFunctions == Walk("functions")
ImportedTables == Walk("tables")
ImportedMemories == Walk("memories")
ImportedGlobals == Walk("globals")

-----------------------------------------------------------------------------
(* The entries of the sections, which the loaders below read.              *)

FunctionType(p) ==
  LET r == Read(p, <<"byte", "bytes", "bytes">>)
  IN  Accept(r, r.val[1] = 96, <<r.val[2], r.val[3]>>)

(* Size and offset of a body, which is skipped by a seek.                  *)
CodeEntry(p) ==
  Got(CanSeek(Next1(p) + Number(p)), Next1(p) + Number(p),
      [offset |-> Next1(p), size |-> Number(p)])

(* Name, kind and index.                                                   *)
Export(p) == Read(p, <<"name", "byte", "number">>)

DefinedTable(p) ==
  LET r == Read(p, <<"byte", "limits">>) IN Accept(r, r.val[1] \in RefTypes, r.val)

(* The flags are a byte here and a number in an import.                    *)
DefinedMemory(p) == Got(Here(p), Limits(p).at, <<Limits(p).val>>)

DefinedGlobal(p) ==
  LET r == Read(p, <<"byte", "byte", "constant">>)
  IN  Accept(r, r.val[1] \in ValTypes /\ r.val[2] <= 1, r.val)

(* wasm_read_element_expr_ref: the globals must have been loaded.          *)
Known(index, type) ==
  /\ index < Len(module["globals"])
  /\ module["globals"][index + 1] # <<>>
  /\ module["globals"][index + 1][1] = type
  /\ module["globals"][index + 1][2] = 0
ElementExpr(p, type) ==
  Got(/\ Here(p + 2) /\ Number(p + 2) = End
      /\ \/ Number(p) = RefNull /\ Number(p + 1) = type
         \/ Number(p) = RefFunc /\ type = FUNCREF
         \/ Number(p) = GlobalGet /\ Known(Number(p + 1), type),
      p + 3, <<Number(p), Number(p + 1)>>)
ElementItem(p, exprs, type) ==
  IF exprs THEN ElementExpr(p, type) ELSE Got(Here(p), p + 1, <<RefFunc, Number(p)>>)
ElementItems(p, n, exprs, type) ==
  LET E[k \in 0 .. n] ==
        IF k = 0 THEN Got(TRUE, p, <<>>)
        ELSE LET w == E[k-1] IN Then(w, ElementItem(w.at, exprs, type))
  IN  E[n]

(* The flags of a segment are three bits: not active, an explicit table or *)
(* declarative, and expressions instead of function indices.  All but the  *)
(* plainest segment have a kind or a type.                                 *)
Active(flags) == flags % 2 = 0
Explicit(flags) == (flags \div 2) % 2 = 1
SegmentShape(flags) ==
  <<"number">> \o (IF Active(flags) /\ Explicit(flags) THEN <<"index">> ELSE <<>>)
  \o (IF Active(flags) THEN <<"offset">> ELSE <<>>)
  \o (IF flags = 0 THEN <<>> ELSE <<"byte">>) \o <<"index">>
SegmentOf(flags, head, kind, items) ==
  Got(items.ok, items.at,
      [table |-> IF Active(flags) /\ Explicit(flags) THEN head[2] ELSE 0,
       offset |-> IF Active(flags) THEN head[IF Explicit(flags) THEN 3 ELSE 2] ELSE 0,
       passive |-> ~ Active(flags) /\ ~ Explicit(flags),
       declarative |-> ~ Active(flags) /\ Explicit(flags),
       type |-> IF flags < 4 THEN FUNCREF ELSE kind,
       items |-> items.val])
SegmentBody(flags, head, kind) ==
  IF head.ok /\ kind \in (IF flags < 4 THEN {0, FUNCREF} ELSE RefTypes)
  THEN SegmentOf(flags, head.val, kind,
                 ElementItems(head.at, Last(head.val), flags >= 4,
                              IF flags < 4 THEN FUNCREF ELSE kind))
  ELSE Got(FALSE, head.at, <<>>)
SegmentHead(flags, head) ==
  SegmentBody(flags, head, IF flags = 0 THEN FUNCREF ELSE head.val[Len(head.val) - 1])
ElementSegment(p) ==
  IF Number(p) <= 7 THEN SegmentHead(Number(p), Read(p, SegmentShape(Number(p))))
  ELSE Got(FALSE, p, <<>>)

(* The bytes of a segment are one item.                                    *)
DataShape(flags) ==
  <<"number">> \o (IF flags = 2 THEN <<"number">> ELSE <<>>)
  \o (IF flags = 1 THEN <<>> ELSE <<"offset">>) \o <<"number">>
DataOf(flags, head, bytes) ==
  Got(bytes.ok, bytes.at,
      [memory |-> IF flags = 2 THEN head[2] ELSE 0,
       offset |-> IF flags = 1 THEN 0 ELSE head[Len(head) - 1],
       passive |-> flags = 1, size |-> Last(head), bytes |-> bytes.val])
DataHead(flags, head) ==
  IF head.ok
  THEN DataOf(flags, head.val, IF Last(head.val) = 0 THEN Got(TRUE, head.at, 0)
                               ELSE Byte(head.at))
  ELSE Got(FALSE, head.at, <<>>)
DataSegment(p) ==
  IF Number(p) <= 2 THEN DataHead(Number(p), Read(p, DataShape(Number(p))))
  ELSE Got(FALSE, p, <<>>)

Item(id, p) ==
  CASE id = "type" -> FunctionType(p)
    [] id = "function" -> Field("number", p)
    [] id = "code" -> CodeEntry(p)
    [] id = "export" -> Export(p)
    [] id = "table" -> DefinedTable(p)
    [] id = "memory" -> DefinedMemory(p)
    [] id = "global" -> DefinedGlobal(p)
    [] id = "element" -> ElementSegment(p)
    [] id = "data" -> DataSegment(p)

(* A section is a count and that many entries; they are read up to the     *)
(* first that is refused.                                                  *)
Entries(id) ==
  LET E[j \in 0 .. Number(At(id))] ==
        IF j = 0 THEN Got(TRUE, Next1(At(id)), <<>>)
        ELSE LET w == E[j-1] IN Then(w, Item(id, w.at))
  IN  E[Number(At(id))]

-----------------------------------------------------------------------------
(* The loaders.  Each positions the cursor itself, so where an earlier     *)
(* call left it does not matter.  One that fails may have replaced its     *)
(* table with one that is partly filled.                                   *)

Done(loader, table, ok) ==
  /\ module' = [module EXCEPT ![loader] = table]
  /\ result' = [result EXCEPT ![loader] = IF ok THEN "ok" ELSE "fail"]
  /\ UNCHANGED <<input, sections, body>>

Failed(loader) == Done(loader, module[loader], FALSE)

Init ==
  /\ input \in {[name |-> n, stream |-> Files[n].stream, isFile |-> Files[n].isFile] :
                n \in DOMAIN Files}
  /\ sections = <<>>
  /\ module = [l \in Loaders |-> <<>>]
  /\ result = [l \in Loaders \cup {"header", "sections"} |-> "none"]
  /\ body = NoBody

(* wasm_load_header: magic and version are one item each. *)
LoadHeader ==
  /\ result' = [result EXCEPT !["header"] = IF Size >= 2 THEN "ok" ELSE "fail"]
  /\ UNCHANGED <<input, sections, module, body>>

(* Where the section that begins at p ends, or -1 when the scan stops at p.*)
SectionEnd(p) ==
  IF Here(p) /\ CanSeek(Next1(p + 1) + Number(p + 1))
  THEN Next1(p + 1) + Number(p + 1)
  ELSE -1

SectionsFrom(q) ==
  LET Found[p \in 0 .. Size] ==
        IF p = Size \/ SectionEnd(p) < 0 THEN <<>>
        ELSE <<[type |-> Number(p), offset |-> Next1(p + 1)]>>
             \o (IF SectionEnd(p) < Size THEN Found[SectionEnd(p)] ELSE <<>>)
  IN  Found[q]

(* wasm_scan_sections: both its passes find the same sections.             *)
ScanSections ==
  /\ result["header"] = "ok"
  /\ sections' = SectionsFrom(2)
  /\ result' = [result EXCEPT !["sections"] = "ok"]
  /\ UNCHANGED <<input, module, body>>

Scanned == result["sections"] = "ok"

(* The table of n entries the entries were read into: the rest is zero.    *)
DoneWith(loader, imported, id, d) ==
  Done(loader,
       imported \o [k \in 1 .. Number(At(id)) |-> IF k <= Len(d.val) THEN d.val[k] ELSE <<>>],
       d.ok)

(* wasm_load_types, wasm_load_exports: without the section they fail.      *)
LoadRequired(loader, id) ==
  /\ Scanned
  /\ IF Has(id) THEN DoneWith(loader, <<>>, id, Entries(id)) ELSE Failed(loader)
LoadTypes == LoadRequired("types", "type")
LoadExports == LoadRequired("exports", "export")

Function(type, imported, name, offset, size) ==
  [type |-> type, imported |-> imported, name |-> name, offset |-> offset,
   size |-> size]

(* Defect: the bodies are given to the functions from the first import on. *)
BugWithBodies(imported, types, bodies) ==
  [k \in 1 .. Len(imported) + Len(types) |->
     LET b == IF k <= Len(bodies) THEN bodies[k] ELSE [offset |-> 0, size |-> 0]
     IN  IF k <= Len(imported)
         THEN Function(imported[k].desc[1], TRUE, imported[k].name, b.offset, b.size)
         ELSE Function(types[k - Len(imported)], FALSE, <<>>, b.offset, b.size)]

(* The function table: imports first, then definitions with their bodies. *)
WithBodies(imported, types, bodies) ==
  [k \in 1 .. Len(imported) + Len(types) |->
     IF k <= Len(imported)
     THEN Function(imported[k].desc[1], TRUE, imported[k].name, 0, 0)
     ELSE LET d == k - Len(imported)
              b == IF d <= Len(bodies) THEN bodies[d] ELSE [offset |-> 0, size |-> 0]
          IN  Function(types[d], FALSE, <<>>, b.offset, b.size)]

(* wasm_load_functions *)
FunctionsOf(imported, types, code) ==
  IF Has("function") /\ Has("code") /\ Number(At("code")) # Len(types)
  THEN Done("functions", WithBodies(imported, types, <<>>), FALSE)
  ELSE Done("functions", WithBodies(imported, types, code.val), code.ok)
LoadFunctions ==
  LET w == ImportedFunctions IN
  /\ Scanned
  /\ IF ~ w.ok THEN Failed("functions")
     ELSE FunctionsOf(Chosen(w.val, "function"),
                      IF Has("function") THEN Entries("function").val ELSE <<>>,
                      IF Has("function") /\ Has("code") THEN Entries("code")
                      ELSE Got(TRUE, 0, <<>>))

(* Imports of a kind and then the definitions of its section.              *)
LoadBoth(loader, id, w, imported) ==
  /\ Scanned
  /\ IF ~ w.ok THEN Failed(loader)
     ELSE IF Has(id) THEN DoneWith(loader, imported, id, Entries(id))
     ELSE Done(loader, imported, TRUE)

(* wasm_load_tables, wasm_load_memories, wasm_load_globals: an imported    *)
(* global has no initialiser.                                              *)
LoadTables ==
  LoadBoth("tables", "table", ImportedTables, Descs(Chosen(ImportedTables.val, "table")))
LoadMemories ==
  LoadBoth("memories", "memory", ImportedMemories,
           Descs(Chosen(ImportedMemories.val, "memory")))
LoadGlobals ==
  LoadBoth("globals", "global", ImportedGlobals,
           Uninitialised(Descs(Chosen(ImportedGlobals.val, "global"))))

(* wasm_load_elements, wasm_load_data: the sections are optional.          *)
LoadOptional(loader, id) ==
  /\ Scanned
  /\ IF Has(id) THEN DoneWith(loader, <<>>, id, Entries(id)) ELSE Done(loader, <<>>, TRUE)
LoadElements == LoadOptional("elements", "element")
LoadData == LoadOptional("data", "data")

(* The stream holds the whole body. *)
Whole(f) == f.offset + f.size <= Size

(* wasm_load_function_body *)
LoadBody(i) ==
  LET f == module["functions"][i] IN
  /\ i <= Len(module["functions"])
  /\ ~ f.imported /\ f.size > 0
  /\ CanSeek(f.offset)
  /\ body' = IF Whole(f)
             THEN [fn |-> i, items |-> SubSeq(Stream, f.offset + 1, f.offset + f.size)]
             ELSE NoBody
  /\ UNCHANGED <<input, sections, module, result>>

Next ==
  \/ LoadHeader \/ ScanSections
  \/ LoadTypes \/ LoadFunctions \/ LoadExports \/ LoadTables \/ LoadMemories
  \/ LoadGlobals \/ LoadElements \/ LoadData
  \/ \E i \in 1 .. Len(module["functions"]) : LoadBody(i)

Spec == Init /\ [][Next]_vars

-----------------------------------------------------------------------------
(* What a loader has left, in the terms of the declarations: a function    *)
(* has a body instead of the place of one.                                 *)
Loaded(loader) ==
  IF loader # "functions" THEN module[loader]
  ELSE [k \in DOMAIN module["functions"] |->
          LET f == module["functions"][k]
          IN  [type |-> f.type, imported |-> f.imported, name |-> f.name,
               body |-> SubSeq(Stream, f.offset + 1, f.offset + f.size)]]

(* The loaders that may refuse a whole stream: two that want their section *)
(* to be there, and the elements, which look at the globals.               *)
MayRefuse(loader) ==
  \/ loader \in {"types", "exports"} /\ Files[input.name].declared[loader] = <<>>
  \/ loader = "elements" /\ result["globals"] # "ok"

(* A stream that is whole is read as it was written, whatever the order    *)
(* and the repetition of the loaders, from a file and from a buffer: each  *)
(* of the four walks over the imports skips exactly what is not its own,   *)
(* imports come before definitions, bodies belong to the functions they    *)
(* were written for, and nothing is refused but what MayRefuse says.       *)
LoadersExact ==
  [][Files[input.name].whole =>
       \A l \in Loaders : result'[l] # result[l] =>
         \/ result'[l] = "ok" /\ Loaded(l)' = Files[input.name].declared[l]
         \/ result'[l] = "fail" /\ MayRefuse(l)]_vars

(* What is handed out and what was declared.                               *)
HandedOut(f) ==
  LET d == f.declared["functions"][body.fn]
  IN  /\ body.items = d.body
      /\ module["functions"][body.fn].type = d.type
      /\ result["types"] # "none" =>
           module["types"][d.type + 1] = f.declared["types"][d.type + 1]
AsDeclared(f) == body # NoBody /\ f.formed => HandedOut(f)

(* A stream that ends early may load, because a number past the end is 0   *)
(* and no error; but no function is run that was not written: a body that  *)
(* is handed out is complete, and its function has the type it was given.  *)
RunnableAsDeclared == AsDeclared(Files[input.name])
=============================================================================
