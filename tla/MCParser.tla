------------------------------ MODULE MCParser ------------------------------
(* Streams written from declarations, in the binary format of WebAssembly  *)
(* and in the order of sections it asks for; whole, or cut after any item. *)
EXTENDS Decoding, TLC

(* The places of entries that are written one after the other from p on.  *)
PlacesFrom(p, list, Op(_)) ==
  LET P[k \in 1 .. Len(list) + 1] == IF k = 1 THEN p ELSE P[k-1] + Len(Op(list[k-1]))
  IN  P

(* Sections are ids; those without entries are left out.                   *)
Custom == <<0, 3, 1, 900, 901>>
Order == <<"type", "import", "function", "table", "memory", "global", "export", "element",
           "code", "data">>
Ids(m) == (IF m.custom THEN <<"custom">> ELSE <<>>)
          \o SelectSeq(Order, LAMBDA id : Listed(m, id) # <<>>)
Content(m, id) ==
  <<Len(Listed(m, id))>>
  \o FlattenSeq([k \in DOMAIN Listed(m, id) |-> EntryItems(id, Listed(m, id)[k])])
Section(m, id) ==
  IF id = "custom" THEN Custom ELSE <<SectionId[id], Len(Content(m, id))>> \o Content(m, id)

Encoded(m) ==
  <<1836278016, 1>> \o FlattenSeq([k \in DOMAIN Ids(m) |-> Section(m, Ids(m)[k])])
Layout(m) ==
  LET ids == Ids(m)
      starts == PlacesFrom(2, ids, LAMBDA id : Section(m, id))
      Places(k) == PlacesFrom(starts[k] + 3, Listed(m, ids[k]), LAMBDA e : EntryItems(ids[k], e))
  IN  [ids |-> ids, starts |-> starts,
       places |-> [k \in DOMAIN ids |-> IF ids[k] = "custom" THEN <<>> ELSE Places(k)]]

-----------------------------------------------------------------------------
I32 == 127
I64 == 126

(* Bodies written from instructions: an opcode, its sub-opcode if it has a *)
(* prefix, and its immediates, each with what it is for.  A memory argument*)
(* begins with its memory if there are several, as the tests write it;     *)
(* table.init names its table first, as the decoder reads it, where        *)
(* WebAssembly names the segment first.  Values are opcodes that open and  *)
(* close blocks, so that a reader that loses its place goes astray.        *)
Ins(op, given) ==
  [op |-> op, sub |-> 0, immediates |-> Range(given),
   items |-> <<op>> \o [k \in DOMAIN given |-> given[k][2]]]
Sub(prefix, sub, given) ==
  [op |-> prefix, sub |-> sub, immediates |-> Range(given) \cup {<<"sub", sub>>},
   items |-> <<prefix, sub>> \o [k \in DOMAIN given |-> given[k][2]]]
Context(op, values) == Ins(op, [k \in DOMAIN values |-> <<k, values[k]>>])
All(ops, Op(_)) == [k \in DOMAIN ops |-> Op(ops[k])]
Smaller(a, b) == IF a < b THEN a ELSE b
Upto(a, b) == [k \in 1 .. b - a + 1 |-> a + k - 1]

OpenBlock == Context(\h02, <<64>>)
EndIns == Context(End, <<>>)
ElseIns == Context(Else, <<>>)
AccessArgs(m) == (IF m > 1 THEN <<<<"memory", 1>>>> ELSE <<>>) \o <<<<"align", 2>>, <<"offset", End>>>>

Indexed ==
  All(Upto(\h20, \h24), LAMBDA op : Ins(op, <<<<"index", End>>>>))
  \o All(<<\h10, \hD2>>, LAMBDA op : Ins(op, <<<<"function", 4>>>>))
  \o All(<<\h25, \h26>>, LAMBDA op : Ins(op, <<<<"table", End>>>>))
  \o All(Upto(\h41, \h44), LAMBDA op : Ins(op, <<<<"value", End>>>>))
  \o <<Ins(CallIndirect, <<<<"type", End>>, <<"table", 2>>>>), Ins(\hD0, <<<<"type", EXTERNREF>>>>)>>
  \o All(<<\h1A, \h1B, \hD1, \h45, \h6A, \hC4>>, LAMBDA op : Ins(op, <<>>))
Control ==
  <<OpenBlock, Context(\h04, <<2>>), Context(\h0C, <<1>>), Context(\h03, <<64>>),
    Context(\h0D, <<2>>), EndIns, ElseIns, Context(\h04, <<64>>), ElseIns,
    Context(BrTable, <<3, End, 5, 2, 0>>), EndIns, Context(BrTable, <<0, 3>>), EndIns,
    Context(\h00, <<>>), Context(\h01, <<>>), Context(\h0F, <<>>), EndIns>>
Bulks ==
  All(Upto(0, 7), LAMBDA s : Sub(Bulk, s, <<>>))
  \o <<Sub(Bulk, 8, <<<<"data", End>>, <<"memory", 2>>>>), Sub(Bulk, 9, <<<<"data", End>>>>),
       Sub(Bulk, 10, <<<<"target", End>>, <<"source", 2>>>>), Sub(Bulk, 11, <<<<"memory", 4>>>>),
       Sub(Bulk, 12, <<<<"table", 2>>, <<"element", End>>>>), Sub(Bulk, 13, <<<<"element", End>>>>),
       Sub(Bulk, 14, <<<<"target", 4>>, <<"source", End>>>>)>>
  \o All(Upto(15, 17), LAMBDA s : Sub(Bulk, s, <<<<"table", End>>>>))
Accesses(m) ==
  All(Upto(\h28, \h3E), LAMBDA op : Ins(op, AccessArgs(m)))
  \o All(<<\h3F, \h40>>, LAMBDA op : Ins(op, <<<<"memory", End>>>>))
  \o All(Upto(\h00, \h0B) \o <<\h5C, \h5D>>, LAMBDA s : Sub(Vector, s, AccessArgs(m)))
LaneArgs(m) == AccessArgs(m) \o <<<<"lane", 1>>>>
Vectors ==
  All(<<\h0C, \h0D>>, LAMBDA s : Sub(Vector, s, <<<<"bytes", End>>>>))
  \o All(Upto(\h15, \h22), LAMBDA s : Sub(Vector, s, <<<<"lane", 1>>>>))
  \o All(Upto(\h0E, \h14) \o Upto(\h23, \h53) \o Upto(\h5E, \h111),
         LAMBDA s : Sub(Vector, s, <<>>))

(* Bodies of one block with a few instructions each; and two of a lane     *)
(* access.                                                                 *)
Enclosed(instrs) == <<OpenBlock>> \o instrs \o <<EndIns, EndIns>>
LaneBody(m, s) == Enclosed(<<Sub(Vector, s, LaneArgs(m))>>)
Few == 32
InBlocks(instrs) ==
  [k \in 1 .. (Len(instrs) + Few - 1) \div Few |->
     Enclosed(SubSeq(instrs, Few * (k - 1) + 1, Smaller(Few * k, Len(instrs))))]
WholeBodies(m) ==
  <<Control \o <<EndIns>>>> \o InBlocks(Indexed \o Bulks) \o InBlocks(Vectors)
  \o (IF m = 0 THEN <<>>
      ELSE InBlocks(Accesses(m)) \o <<LaneBody(m, \h54), LaneBody(m, \h5B)>>)

(* The last instruction of a body, of every form, to be cut anywhere.      *)
Forms(m) ==
  All(<<Ins(\h20, <<<<"index", 1>>>>), Context(\h0C, <<1>>), Context(BrTable, <<2, 0, 1, 0>>),
        Ins(CallIndirect, <<<<"type", 1>>, <<"table", 0>>>>),
        Ins(\hD0, <<<<"type", FUNCREF>>>>), Ins(\h43, <<<<"value", 1>>>>),
        Ins(\h28, AccessArgs(m)), Sub(Bulk, 10, <<<<"target", 1>>, <<"source", 0>>>>),
        Sub(Vector, \h0C, <<<<"bytes", 1>>>>), Sub(Vector, \h15, <<<<"lane", 1>>>>),
        Sub(Vector, \h00, AccessArgs(m))>>, LAMBDA x : <<x>>)
  \o <<<<OpenBlock, EndIns>>>>

(* A body of instrs after d declarations of locals, without its last cut   *)
(* items.                                                                  *)
Locals(d) == <<d>> \o FlattenSeq([k \in 1 .. d |-> <<End, I32>>])
BodyOf(d, instrs, cut) ==
  LET before == Len(Locals(d))
      S[k \in 1 .. Len(instrs) + 1] == IF k = 1 THEN before ELSE S[k-1] + Len(instrs[k-1].items)
      items == Locals(d) \o FlattenSeq([k \in DOMAIN instrs |-> instrs[k].items])
  IN  [instrs |-> instrs, starts |-> S, items |-> SubSeq(items, 1, Len(items) - cut)]
Bodies(m) == [k \in DOMAIN WholeBodies(m) |-> BodyOf(k % 3, WholeBodies(m)[k], 0)]
CutBodies(m) ==
  FlattenSeq([k \in DOMAIN Forms(m) |->
                LET last == Forms(m)[k]
                IN  [c \in 1 .. Len(BodyOf(0, last, 0).items) - 1 |->
                       BodyOf(1, <<EndIns>> \o last, c - 1)]])
  \o [c \in 1 .. 3 |-> BodyOf(1, <<>>, c)]

Bounded(n, m) == [flags |-> 1, initial |-> n, max |-> m]
Open(n) == [flags |-> 0, initial |-> n, max |-> 0]
Import1(kind, desc) ==
  [kind |-> Kinds[kind], name |-> <<500, 501>>, desc |-> desc]
Segment(table, offset, mode, type, items) ==
  [table |-> table, offset |-> offset, passive |-> mode = "passive",
   declarative |-> mode = "declarative", type |-> type, items |-> items]
Data(memory, offset, passive, size, bytes) ==
  [memory |-> memory, offset |-> offset, passive |-> passive, size |-> size,
   bytes |-> bytes]

SmallBodies == <<BodyOf(0, <<EndIns>>, 0), BodyOf(0, <<Ins(\h41, <<<<"value", 9>>>>), EndIns>>, 0)>>
SmallFunctions == <<<<1, SmallBodies[1].items>>, <<0, SmallBodies[2].items>>>>

AnImport == <<Import1("function", <<1>>), Import1("table", <<FUNCREF, Bounded(1, 2)>>),
              Import1("memory", <<[flags |-> 5, initial |-> 1, max |-> 3]>>),
              Import1("memory", <<Open(2)>>), Import1("global", <<FUNCREF, 0>>)>>

(* Everything a module may have, with any three of the imports. *)
Full(imports) ==
  [custom |-> TRUE,
   types |-> <<<<<<>>, <<I32>>>>, <<<<I32, I64>>, <<>>>>>>,
   imports |-> imports,
   functions |-> SmallFunctions,
   tables |-> <<<<EXTERNREF, Bounded(0, 4)>>, <<FUNCREF, Open(1)>>>>,
   memories |-> <<<<Bounded(1, 1)>>, <<[flags |-> 4, initial |-> 7, max |-> 0]>>>>,
   globals |-> <<<<I32, 1, <<65, 9>>>>, <<FUNCREF, 0, <<GlobalGet, 0>>>>>>,
   exports |-> <<<<600, 0, 1>>, <<0, 2, 0>>>>,
   elements |-> <<Segment(0, 1, "active", FUNCREF, <<<<RefFunc, 1>>>>),
                  Segment(1, 0, "active", FUNCREF, <<<<RefNull, FUNCREF>>, <<RefFunc, 0>>>>),
                  Segment(0, 0, "passive", EXTERNREF, <<<<RefNull, EXTERNREF>>>>),
                  Segment(0, 0, "declarative", FUNCREF, <<<<RefFunc, 0>>>>)>>,
   data |-> <<Data(0, 3, FALSE, 2, 700), Data(1, 0, FALSE, 0, 0), Data(0, 0, TRUE, 1, 701)>>]

(* The same with an element that takes a reference from a global. *)
Referring(m) ==
  [m EXCEPT !.elements =
     <<Segment(0, 0, "passive", FUNCREF, <<<<GlobalGet, Len(Stated(m).globals) - 1>>>>)>>]

Small ==
  [custom |-> FALSE, types |-> <<<<<<>>, <<I32>>>>, <<<<I32>>, <<>>>>>>,
   imports |-> <<Import1("function", <<1>>)>>,
   functions |-> SmallFunctions,
   tables |-> <<>>, memories |-> <<>>, globals |-> <<>>, exports |-> <<>>,
   elements |-> <<>>, data |-> <<Data(0, 0, TRUE, 1, 701)>>]
ImportsOnly == [Small EXCEPT !.types = <<>>, !.functions = <<>>, !.data = <<>>,
                             !.imports = <<Import1("global", <<I32, 1>>),
                                           Import1("function", <<0>>)>>]

(* Functions with these bodies and m memories, and nothing else.           *)
Holding(m, bodies) ==
  [Small EXCEPT !.imports = <<>>, !.data = <<>>,
                !.functions = [k \in DOMAIN bodies |-> <<0, bodies[k].items>>],
                !.memories = [k \in 1 .. m |-> <<Open(1)>>]]

(* A stream is named by its module, where it is cut and what holds it.     *)
Orders == {x \in [1 .. 3 -> DOMAIN AnImport] : \A j, k \in 1 .. 3 : x[j] = x[k] => j = k}
BodiesOf(name) ==
  CASE name \in Orders \cup {<<"imports only">>} -> SmallBodies
    [] name[1] = "bodies" -> Bodies(name[2])
    [] name[1] = "cut bodies" -> CutBodies(name[2])
    [] OTHER -> SmallBodies
ModuleOf(name) ==
  IF name \in Orders THEN Full([k \in 1 .. 3 |-> AnImport[name[k]]])
  ELSE CASE name = <<"referring">> -> Referring(Full(<<>>))
         [] name = <<"imports only">> -> ImportsOnly
         [] name = <<"no imports">> -> [Small EXCEPT !.imports = <<>>]
         [] name[1] \in {"bodies", "cut bodies"} -> Holding(name[2], BodiesOf(name))
         [] OTHER -> Small

Names == {<<n, 0, f>> : n \in Orders \cup {<<"referring">>, <<"imports only">>, <<"no imports">>},
                        f \in BOOLEAN}
         \cup {<<<<"small">>, c, f>> : c \in 0 .. Len(Encoded(Small)) - 1, f \in BOOLEAN}
         \cup {<<<<"bodies", m>>, 0, FALSE>> : m \in 0 .. 2}
         \cup {<<<<"cut bodies", m>>, 0, FALSE>> : m \in 1 .. 2}

(* Streams that no module is written with: the size of a body is one more  *)
(* than what is there; a section ends in the middle of the next.           *)
NoData == [Small EXCEPT !.data = <<>>]
Overlong ==
  LET items == Encoded(NoData)  last == Len(items) - Len(SmallBodies[2].items)
  IN  [items EXCEPT ![last] = @ + 1]
Overlapping == [Encoded(Small) EXCEPT ![4] = @ + 2]
Malformed == {<<<<"overlong">>, 0, f>> : f \in BOOLEAN} \cup {<<<<"overlapping">>, 0, f>> : f \in BOOLEAN}

(* TLC computes a definition once, but not the one a constant stands for.  *)
Streams ==
  [n \in Names \cup Malformed |->
     LET m == ModuleOf(n[1])
         items == CASE n[1] = <<"overlong">> -> Overlong
                    [] n[1] = <<"overlapping">> -> Overlapping
                    [] OTHER -> Encoded(m)
     IN  [stream |-> SubSeq(items, 1, Len(items) - n[2]), isFile |-> n[3],
          formed |-> n \in Names, whole |-> n \in Names /\ n[2] = 0,
          items |-> items, written |-> m, layout |-> Layout(m), declared |-> Stated(m),
          code |-> SelectSeq(m.imports, LAMBDA e : e.kind = Kinds.function) \o BodiesOf(n[1])]]
MCFiles == Streams
=============================================================================
