------------------------------- MODULE Format -------------------------------
(***************************************************************************)
(* The binary format: what a module declares and the items its sections    *)
(* are written with.  The items of an entry follow one another; an entry   *)
(* follows the one before it, and a section the section before it.         *)
(***************************************************************************)
EXTENDS Integers, Sequences, Functions

SectionId == [custom |-> 0, type |-> 1, import |-> 2, function |-> 3, table |-> 4,
              memory |-> 5, global |-> 6, export |-> 7, element |-> 9, code |-> 10,
              data |-> 11]
Kinds == [function |-> 0, table |-> 1, memory |-> 2, global |-> 3]

FUNCREF == 112
EXTERNREF == 111
RefTypes == {FUNCREF, EXTERNREF}
ValTypes == 123 .. 127 \cup RefTypes
Consts == {65, 66, 67, 68}
GlobalGet == 35
RefNull == 208
RefFunc == 210
End == 11

(* The imports of a kind, in their order.                                  *)
Chosen(list, kind) ==
  LET C[k \in 0 .. Len(list)] ==
        IF k = 0 THEN <<>>
        ELSE IF list[k].kind = Kinds[kind] THEN Append(C[k-1], list[k]) ELSE C[k-1]
  IN  C[Len(list)]

-----------------------------------------------------------------------------
(* What may be declared.                                                   *)

IsList(s) == Len(s) \in Nat /\ s = [k \in 1 .. Len(s) |-> s[k]]
IsName(x) == x \in Nat
IsLimits(l) ==
  /\ l = [flags |-> l.flags, initial |-> l.initial, max |-> l.max]
  /\ l.flags \in Nat /\ l.initial \in Nat /\ l.max \in Nat
  /\ l.flags % 2 = 0 => l.max = 0
IsTable(t) == t = <<t[1], t[2]>> /\ t[1] \in RefTypes /\ IsLimits(t[2])
IsMemory(m) == m = <<m[1]>> /\ IsLimits(m[1])
IsImport(e) ==
  /\ e = [kind |-> e.kind, name |-> <<e.name[1], e.name[2]>>, desc |-> e.desc]
  /\ IsName(e.name[1]) /\ IsName(e.name[2])
  /\ \/ e.kind = Kinds.function /\ e.desc = <<e.desc[1]>> /\ e.desc[1] \in Nat
     \/ e.kind = Kinds.table /\ IsTable(e.desc)
     \/ e.kind = Kinds.memory /\ IsMemory(e.desc)
     \/ /\ e.kind = Kinds.global /\ e.desc = <<e.desc[1], e.desc[2]>>
        /\ e.desc[1] \in ValTypes /\ e.desc[2] \in {0, 1}
IsFunctionType(t) == t = <<t[1], t[2]>> /\ t[1] \in Seq(Nat) /\ t[2] \in Seq(Nat)
IsFunction(f) == f = <<f[1], f[2]>> /\ f[1] \in Nat /\ f[2] \in Seq(Nat)
IsGlobal(g) ==
  /\ g = <<g[1], g[2], <<g[3][1], g[3][2]>>>>
  /\ g[1] \in ValTypes /\ g[2] \in {0, 1}
  /\ g[3][1] \in Consts \cup {GlobalGet} /\ g[3][2] \in Nat
IsExport(e) ==
  e = <<e[1], e[2], e[3]>> /\ IsName(e[1]) /\ e[2] \in Nat /\ e[3] \in Nat

(* An element that refers to a global takes it from the globals declared:  *)
(* one of its type that does not change.                                   *)
IsElement(x, type, globals) ==
  /\ x = <<x[1], x[2]>> /\ x[2] \in Nat
  /\ \/ x[1] = RefFunc /\ type = FUNCREF
     \/ x[1] = RefNull /\ x[2] = type
     \/ /\ x[1] = GlobalGet /\ x[2] < Len(globals)
        /\ globals[x[2] + 1][1] = type /\ globals[x[2] + 1][2] = 0
IsSegment(s, globals) ==
  /\ s = [table |-> s.table, offset |-> s.offset, passive |-> s.passive,
          declarative |-> s.declarative, type |-> s.type, items |-> s.items]
  /\ s.table \in Nat /\ s.offset \in Nat /\ s.type \in RefTypes
  /\ s.passive \in BOOLEAN /\ s.declarative \in BOOLEAN /\ ~ (s.passive /\ s.declarative)
  /\ s.passive \/ s.declarative => s.table = 0 /\ s.offset = 0
  /\ IsList(s.items)
  /\ \A k \in 1 .. Len(s.items) : IsElement(s.items[k], s.type, globals)
IsData(s) ==
  /\ s = [memory |-> s.memory, offset |-> s.offset, passive |-> s.passive,
          size |-> s.size, bytes |-> s.bytes]
  /\ s.memory \in Nat /\ s.offset \in Nat /\ s.passive \in BOOLEAN
  /\ s.size \in Nat /\ s.bytes \in Nat
  /\ s.passive => s.memory = 0 /\ s.offset = 0
  /\ s.size = 0 => s.bytes = 0

-----------------------------------------------------------------------------
(* What the entries are written with.                                      *)

NameItems(name) == IF name = 0 THEN <<0>> ELSE <<1, name>>
LimitItems(l) == <<l.flags, l.initial>> \o (IF l.flags % 2 = 1 THEN <<l.max>> ELSE <<>>)
TableItems(t) == <<t[1]>> \o LimitItems(t[2])
MemoryItems(m) == LimitItems(m[1])
DescItems(e) ==
  CASE e.kind = Kinds.table -> TableItems(e.desc)
    [] e.kind = Kinds.memory -> MemoryItems(e.desc)
    [] OTHER -> e.desc
ImportItems(e) ==
  NameItems(e.name[1]) \o NameItems(e.name[2]) \o <<e.kind>> \o DescItems(e)
BytesItems(list) == <<Len(list)>> \o list
FunctionTypeItems(t) == <<96>> \o BytesItems(t[1]) \o BytesItems(t[2])
GlobalItems(g) == <<g[1], g[2], g[3][1], g[3][2], End>>
ExportItems(e) == NameItems(e[1]) \o <<e[2], e[3]>>
CodeItems(f) == BytesItems(f[2])

(* A segment of flags 4 carries its type, as the loader reads it and the   *)
(* tests of the loader write it (test_externref_table_active_null_elem_expr*)
(* of src/test/main.c); WebAssembly has no type there.                     *)
AsExpressions(s) ==
  s.type # FUNCREF \/ \E k \in 1 .. Len(s.items) : s.items[k][1] # RefFunc
SegmentFlags(s) ==
  (IF s.passive \/ s.declarative THEN 1 ELSE 0)
  + (IF s.declarative \/ s.table # 0 THEN 2 ELSE 0)
  + (IF AsExpressions(s) THEN 4 ELSE 0)
SegmentHeadItems(s) ==
  <<SegmentFlags(s)>> \o (IF s.table # 0 THEN <<s.table>> ELSE <<>>)
  \o (IF s.passive \/ s.declarative THEN <<>> ELSE <<65, s.offset, End>>)
  \o (IF AsExpressions(s) THEN <<s.type>> ELSE IF SegmentFlags(s) = 0 THEN <<>> ELSE <<0>>)
  \o <<Len(s.items)>>
ElementItem3(x, k) == CASE k = 0 -> x[1] [] k = 1 -> x[2] [] k = 2 -> End
SegmentItems(s) ==
  SegmentHeadItems(s) \o
  (IF AsExpressions(s)
   THEN [k \in 1 .. 3 * Len(s.items) |-> ElementItem3(s.items[(k + 2) \div 3], (k - 1) % 3)]
   ELSE [k \in 1 .. Len(s.items) |-> s.items[k][2]])
DataItems(s) ==
  (IF s.passive THEN <<1>>
   ELSE (IF s.memory # 0 THEN <<2, s.memory>> ELSE <<0>>) \o <<66, s.offset, End>>)
  \o <<s.size>> \o (IF s.size = 0 THEN <<>> ELSE <<s.bytes>>)

-----------------------------------------------------------------------------
(* The entries of a section; a function has one in each of two.            *)
Listed(m, id) ==
  CASE id = "type" -> m.types [] id = "import" -> m.imports
    [] id \in {"function", "code"} -> m.functions
    [] id = "table" -> m.tables [] id = "memory" -> m.memories
    [] id = "global" -> m.globals [] id = "export" -> m.exports
    [] id = "element" -> m.elements [] id = "data" -> m.data
EntryItems(id, e) ==
  CASE id = "type" -> FunctionTypeItems(e) [] id = "import" -> ImportItems(e)
    [] id = "function" -> <<e[1]>> [] id = "code" -> CodeItems(e)
    [] id = "table" -> TableItems(e) [] id = "memory" -> MemoryItems(e)
    [] id = "global" -> GlobalItems(e) [] id = "export" -> ExportItems(e)
    [] id = "element" -> SegmentItems(e) [] id = "data" -> DataItems(e)
SectionNames == {"type", "import", "function", "table", "memory", "global", "export",
                 "element", "code", "data"}

(* What a module states.  The import section is in the order of the        *)
(* declaration; the tables list the imports of each kind before the        *)
(* definitions.                                                            *)
Descs(list) == [k \in 1 .. Len(list) |-> list[k].desc]
Uninitialised(g) == [k \in 1 .. Len(g) |-> <<g[k][1], g[k][2], <<>>>>]
ImportsStated(list) ==
  [k \in 1 .. Len(list) |-> [type |-> list[k].desc[1], imported |-> TRUE,
                             name |-> list[k].name, body |-> <<>>]]
FunctionsStated(list) ==
  [k \in 1 .. Len(list) |-> [type |-> list[k][1], imported |-> FALSE,
                             name |-> <<>>, body |-> list[k][2]]]
GlobalsStated(m) == Uninitialised(Descs(Chosen(m.imports, "global"))) \o m.globals
Stated(m) ==
  [types |-> m.types,
   functions |-> ImportsStated(Chosen(m.imports, "function")) \o FunctionsStated(m.functions),
   exports |-> m.exports,
   tables |-> Descs(Chosen(m.imports, "table")) \o m.tables,
   memories |-> Descs(Chosen(m.imports, "memory")) \o m.memories,
   globals |-> GlobalsStated(m),
   elements |-> m.elements,
   data |-> m.data]

IsEntry(m, id, e) ==
  CASE id = "type" -> IsFunctionType(e) [] id = "import" -> IsImport(e)
    [] id \in {"function", "code"} -> IsFunction(e)
    [] id = "table" -> IsTable(e) [] id = "memory" -> IsMemory(e)
    [] id = "global" -> IsGlobal(e) [] id = "export" -> IsExport(e)
    [] id = "element" -> IsSegment(e, GlobalsStated(m)) [] id = "data" -> IsData(e)

-----------------------------------------------------------------------------
(* How they are laid out.                                                  *)

WrittenAt(items, p, list) ==
  /\ p + Len(list) <= Len(items)
  /\ \A k \in 1 .. Len(list) : items[p + k] = list[k]

(* The entries, each of them at its place; one more place for their end.   *)
EntriesAt(items, m, id, places, start, end) ==
  LET list == Listed(m, id)
  IN  /\ WrittenAt(items, start, <<Len(list)>>)
      /\ places \in [1 .. Len(list) + 1 -> Nat]
      /\ places[1] = start + 1 /\ places[Len(list) + 1] = end
      /\ \A k \in 1 .. Len(list) :
           /\ IsEntry(m, id, list[k])
           /\ WrittenAt(items, places[k], EntryItems(id, list[k]))
           /\ places[k + 1] = places[k] + Len(EntryItems(id, list[k]))

(* The sections in the order of their numbers, but for custom ones, which  *)
(* may be anywhere; a section without entries may be left out.             *)
LaidOut(items, m, layout) ==
  LET n == Len(layout.ids)
  IN  /\ items \in Seq(Nat)
      /\ \A id \in SectionNames :
           /\ IsList(Listed(m, id))
           /\ Listed(m, id) # <<>> => \E k \in 1 .. n : layout.ids[k] = id
      /\ layout.ids \in Seq(SectionNames \cup {"custom"})
      /\ layout.starts \in [1 .. n + 1 -> Nat]
      /\ layout.starts[1] = 2 /\ layout.starts[n + 1] = Len(items)
      /\ \A k \in 1 .. n :
           LET id == layout.ids[k]  start == layout.starts[k]  end == layout.starts[k + 1]
           IN  /\ start + 2 <= end
               /\ WrittenAt(items, start, <<SectionId[id], end - start - 2>>)
               /\ id # "custom" => EntriesAt(items, m, id, layout.places[k], start + 2, end)
               /\ \A j \in 1 .. k - 1 :
                    id # "custom" /\ layout.ids[j] # "custom" =>
                      SectionId[layout.ids[j]] < SectionId[id]
=============================================================================
