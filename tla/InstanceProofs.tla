--------------------------- MODULE InstanceProofs ---------------------------
(* Proofs about Instance, for any modules, arrays, names and references    *)
(* that satisfy its assumptions.                                           *)
EXTENDS Instance, DataLemmas

-----------------------------------------------------------------------------
(* Operators.                                                              *)

(* Writing references in a row keeps an array an array of the same length. *)
LEMMA WrittenType ==
  ASSUME NEW c \in Seq(Refs), NEW at, NEW n, NEW refs,
         \A i \in DOMAIN c : i \in at + 1 .. at + n => refs[i - at] \in Refs
  PROVE  /\ Written(c, at, n, refs) \in Seq(Refs)
         /\ Len(Written(c, at, n, refs)) = Len(c)
         /\ DOMAIN Written(c, at, n, refs) = DOMAIN c
<1>1. Len(c) \in Nat /\ DOMAIN c = 1 .. Len(c) /\ \A i \in 1 .. Len(c) : c[i] \in Refs
  BY LenProperties
<1>2. Written(c, at, n, refs) \in [1 .. Len(c) -> Refs]
  BY <1>1 DEF Written
<1>3. QED
  BY <1>1, <1>2, FunctionIsSeq

(* The same for the array of a table, the others as they were.             *)
LEMMA PokedType ==
  ASSUME TypeOK, NEW t \in DOMAIN tables, NEW at, NEW n, NEW refs,
         \A i \in DOMAIN cells[tables[t].data] :
           i \in at + 1 .. at + n => refs[i - at] \in Refs
  PROVE  /\ Poked(t, at, n, refs) \in [Arrays -> Seq(Refs)]
         /\ \A a \in Arrays : Len(Poked(t, at, n, refs)[a]) = Len(cells[a])
<1>1. tables[t].data \in Arrays
  <2>1. tables \in Seq([data : Arrays, size : Nat, owns : BOOLEAN])
    BY DEF TypeOK
  <2>2. tables[t] \in [data : Arrays, size : Nat, owns : BOOLEAN]
    BY <2>1, LenProperties, ElementOfSeq
  <2>3. QED
    BY <2>2
<1>2. cells[tables[t].data] \in Seq(Refs)
  BY <1>1 DEF TypeOK
<1>3. /\ Written(cells[tables[t].data], at, n, refs) \in Seq(Refs)
      /\ Len(Written(cells[tables[t].data], at, n, refs)) = Len(cells[tables[t].data])
  BY <1>2, WrittenType
<1>4. QED
  BY <1>1, <1>3 DEF Poked, TypeOK

(* When nothing is attached any more, every variable has its type.         *)
LEMMA EmptiedType ==
  ASSUME NEW c \in [Arrays -> Seq(Refs)], NEW end,
         \A a \in HostArrays : Len(c[a]) = Length[a],
         bindings \in [Names -> Bindings \cup {NULL}],
         Emptied(c, end)
  PROVE  TypeOK'
<1>1. /\ module' = NULL /\ tables' = <<>> /\ dropped' = <<>>
      /\ globals' = <<>> /\ traps' = <<>> /\ bindings' = bindings
      /\ cells' = [a \in Arrays |-> IF a \in HostArrays THEN c[a] ELSE <<>>]
  BY DEF Emptied, HostsOnly
<1>2. cells' \in [Arrays -> Seq(Refs)]
  BY <1>1
<1>3. \A a \in HostArrays : Len(cells'[a]) = Length[a]
  BY <1>1 DEF Arrays
<1>4. QED
  BY <1>1, <1>2, <1>3 DEF TypeOK

-----------------------------------------------------------------------------
(* What the variables are together: the lists are those of the module, and *)
(* an attachment in progress is of a module.                               *)
Steps == Nat \ {0}
Shape ==
  /\ op.kind \in {"idle", "answered", "segments", "globals"}
  /\ module = NULL =>
       /\ tables = <<>> /\ dropped = <<>> /\ globals = <<>> /\ traps = <<>>
       /\ op.kind \in {"idle", "answered"}
  /\ module # NULL =>
       /\ Len(tables) = Len(module.tables)
       /\ Len(dropped) = Len(module.elements)
       /\ globals = <<>> \/ Len(globals) = Len(module.globals)
  /\ op.kind = "segments" => op = [kind |-> "segments", at |-> op.at] /\ op.at \in Steps
  /\ op.kind = "globals" =>
       /\ op = [kind |-> "globals", at |-> op.at, kept |-> op.kept, attaching |-> op.attaching]
       /\ op.at \in Steps /\ op.attaching \in BOOLEAN
       /\ op.kept \in [DOMAIN module.globals -> Values \cup {NoValue}]
       /\ Len(globals) = Len(module.globals)

(* What is resolved is a reference.                                        *)
LEMMA ResolvedType ==
  ASSUME TypeOK, Shape, module # NULL,
         NEW k \in DOMAIN module.elements, NEW j \in DOMAIN module.elements[k].inits,
         NEW type, Resolved(module.elements[k].inits[j], type) # Unresolved
  PROVE  /\ Resolved(module.elements[k].inits[j], type) \in Refs
         /\ Sound(type, Resolved(module.elements[k].inits[j], type))
<1> DEFINE e == module.elements[k].inits[j]
           r == Resolved(e, type)
<1>1. module \in Modules
  BY DEF TypeOK
<1>2. \A i \in DOMAIN globals : globals[i].of \in Refs
  <2>1. \A v \in Values \cup {NoValue} : v.of \in Refs
    <3>1. \A n \in Words : Number(n).of \in Refs
      BY RefsAssumption DEF Number
    <3>2. \A x \in Refs : Reference(x).of \in Refs
      BY DEF Reference
    <3>3. NoValue.of \in Refs
      BY RefsAssumption DEF NoValue
    <3>4. QED
      BY <3>1, <3>2, <3>3 DEF Values
  <2>2. \A i \in DOMAIN globals : globals[i] \in Values \cup {NoValue}
    BY LenProperties DEF TypeOK
  <2>3. QED
    BY <2>1, <2>2
<1>3. e.kind = "value" => e.of \in Refs
  BY <1>1, ModulesAssumption
<1>4. QED
  BY <1>2, <1>3 DEF Resolved

-----------------------------------------------------------------------------
(* Type correctness, step by step.                                         *)

(* The steps of an attachment, and of setting up globals.                  *)
LEMMA AttachingType ==
  ASSUME TypeOK, Shape,
         \/ SkipSegment \/ DeclareSegment \/ ApplySegment
         \/ StartGlobals \/ InitGlobal \/ GlobalsSet \/ FinishAttach
  PROVE  TypeOK' /\ Shape'
<1> USE DEF Steps
<1>1. op.kind \in {"segments", "globals"}
  BY DEF SkipSegment, DeclareSegment, ApplySegment, StartGlobals, InitGlobal,
         GlobalsSet, FinishAttach, Placing
<1>2. module # NULL /\ module \in Modules
  BY <1>1 DEF Shape, TypeOK
<1>3. /\ module.tables \in Seq(TableDecls) /\ module.globals \in Seq(Globals)
      /\ module.elements \in Seq(Segments) /\ module.functions \in Seq(Nat)
  BY <1>2, ModulesAssumption DEF ModuleRecords
<1>4. /\ Len(module.elements) \in Nat /\ DOMAIN module.elements = 1 .. Len(module.elements)
      /\ Len(module.globals) \in Nat /\ DOMAIN module.globals = 1 .. Len(module.globals)
      /\ Len(module.functions) \in Nat /\ DOMAIN module.functions = 1 .. Len(module.functions)
      /\ Len(dropped) \in Nat /\ DOMAIN dropped = 1 .. Len(dropped)
      /\ Len(globals) \in Nat /\ DOMAIN globals = 1 .. Len(globals)
  BY <1>3, LenProperties DEF TypeOK
<1>5. ASSUME NEW c \in [Arrays -> Seq(Refs)], \A a \in HostArrays : Len(c[a]) = Length[a],
             Refused(c)
      PROVE  TypeOK' /\ Shape'
  <2>1. TypeOK'
    BY <1>5, EmptiedType DEF Refused, TypeOK
  <2>2. Shape'
    BY <1>5 DEF Refused, Emptied, Shape, Answer
  <2>3. QED
    BY <2>1, <2>2
<1>6. cells \in [Arrays -> Seq(Refs)] /\ \A a \in HostArrays : Len(cells[a]) = Length[a]
  BY DEF TypeOK
<1>7. ASSUME NEW k \in DOMAIN dropped PROVE [dropped EXCEPT ![k] = TRUE] \in Seq(BOOLEAN)
             /\ Len([dropped EXCEPT ![k] = TRUE]) = Len(dropped)
  <2>1. /\ Len(dropped) \in Nat /\ k \in 1 .. Len(dropped)
        /\ dropped \in [1 .. Len(dropped) -> BOOLEAN]
    BY <1>7, LenProperties DEF TypeOK
  <2>2. [dropped EXCEPT ![k] = TRUE] \in [1 .. Len(dropped) -> BOOLEAN]
    <3> DEFINE yes == TRUE
    <3>1. yes \in BOOLEAN
      OBVIOUS
    <3> HIDE DEF yes
    <3>2. [dropped EXCEPT ![k] = yes] \in [1 .. Len(dropped) -> BOOLEAN]
      BY <2>1, <3>1
    <3>3. QED
      BY <3>2 DEF yes
  <2>3. QED
    BY <2>1, <2>2, FunctionIsSeq
<1>a. ASSUME op.kind = "segments", NextSegment
      PROVE  op' = [kind |-> "segments", at |-> op.at + 1] /\ op.at + 1 \in Steps
  <2>1. op = [kind |-> "segments", at |-> op.at] /\ op.at \in Steps
    BY <1>a DEF Shape
  <2>2. op' = [op EXCEPT !.at = op.at + 1]
    BY <1>a DEF NextSegment
  <2>3. QED
    BY <2>1, <2>2
<1>b. ASSUME op.kind = "segments", NextSegment, Len(dropped') = Len(dropped),
             UNCHANGED <<module, tables, globals, traps>>
      PROVE  Shape'
  <2>1. module' = module /\ tables' = tables /\ globals' = globals
    BY <1>b
  <2>2. /\ Len(tables') = Len(module'.tables)
        /\ Len(dropped') = Len(module'.elements)
        /\ globals' = <<>> \/ Len(globals') = Len(module'.globals)
    BY <1>2, <1>b, <2>1 DEF Shape
  <2>3. op'.kind = "segments" /\ op' = [kind |-> "segments", at |-> op'.at] /\ op'.at \in Steps
    BY <1>a, <1>b
  <2>4. QED
    BY <1>2, <2>1, <2>2, <2>3 DEF Shape
<1>8. CASE SkipSegment
  <2>1. /\ op.kind = "segments" /\ NextSegment
        /\ UNCHANGED <<module, tables, cells, dropped, globals, traps, bindings>>
    BY <1>8 DEF SkipSegment, Placing
  <2>2. TypeOK'
    BY <2>1 DEF TypeOK
  <2>3. Shape'
    BY <1>b, <2>1
  <2>4. QED
    BY <2>2, <2>3
<1>9. CASE DeclareSegment
  <2>1. op.at \in DOMAIN dropped
    BY <1>9, <1>2, <1>4 DEF DeclareSegment, Placing, Shape
  <2>2. dropped' \in Seq(BOOLEAN) /\ Len(dropped') = Len(dropped)
    BY <1>9, <1>7, <2>1 DEF DeclareSegment, Drop
  <2>3. /\ op.kind = "segments" /\ NextSegment
        /\ UNCHANGED <<module, tables, cells, globals, traps, bindings>>
    BY <1>9 DEF DeclareSegment, Placing
  <2>4. TypeOK'
    BY <2>2, <2>3 DEF TypeOK
  <2>5. Shape'
    BY <1>b, <2>2, <2>3
  <2>6. QED
    BY <2>4, <2>5
<1>10. CASE ApplySegment
  <2> DEFINE s == module.elements[op.at]
             refs == References(s)
  <2>1. op.at \in DOMAIN module.elements /\ op.at \in DOMAIN dropped
    BY <1>10, <1>2, <1>4 DEF ApplySegment, Placing, Shape
  <2>2. s \in Segments
    BY <1>3, <2>1, ElementOfSeq, LenProperties
  <2>3. Len(s.inits) \in Nat /\ DOMAIN s.inits = 1 .. Len(s.inits)
    BY <2>2, LenProperties DEF Segments
  <2>4. DOMAIN refs = DOMAIN s.inits
    BY DEF References
  <2>5. CASE Refused(cells)
    BY <1>5, <1>6, <2>5
  <2>6. ASSUME NEW n \in 0 .. Len(refs), Fits(s), Leads(refs, n)
        PROVE  /\ s.table \in DOMAIN tables
               /\ Poked(s.table, s.offset, n, refs) \in [Arrays -> Seq(Refs)]
               /\ \A a \in Arrays : Len(Poked(s.table, s.offset, n, refs)[a]) = Len(cells[a])
    <3>1. s.table \in DOMAIN tables /\ s.offset \in Nat
      BY <2>2, <2>6 DEF Fits, Segments
    <3>2. refs \in [1 .. Len(s.inits) -> {refs[j] : j \in 1 .. Len(s.inits)}]
      BY <2>3 DEF References
    <3>4. Len(refs) = Len(s.inits)
      BY <2>3, <3>2, FunctionIsSeq
    <3>5. \A j \in 1 .. n : refs[j] \in Refs
      <4>1. SUFFICES ASSUME NEW j \in 1 .. n PROVE refs[j] \in Refs
        OBVIOUS
      <4>2. j \in DOMAIN s.inits /\ refs[j] # Unresolved
        BY <2>3, <2>6, <3>4 DEF Leads
      <4>3. refs[j] = Resolved(s.inits[j], s.type)
        BY <4>2 DEF References
      <4>4. QED
        BY <1>2, <2>1, <4>2, <4>3, ResolvedType
    <3>6. DOMAIN cells[tables[s.table].data] \subseteq Nat
      <4> DEFINE T == [data : Arrays, size : Nat, owns : BOOLEAN]
                 k == s.table
      <4>1. tables \in Seq(T) /\ k \in DOMAIN tables
        BY <3>1 DEF TypeOK
      <4>2. tables[s.table] \in T
        <5> HIDE DEF T, k
        <5>1. k \in 1 .. Len(tables)
          BY <4>1, LenProperties
        <5>2. tables[k] \in T
          BY <4>1, <5>1, ElementOfSeq
        <5>3. QED
          BY <5>2 DEF k
      <4>3. cells[tables[s.table].data] \in Seq(Refs)
        BY <1>6, <4>2
      <4> DEFINE c == cells[tables[s.table].data]
      <4>4. DOMAIN c = 1 .. Len(c) /\ Len(c) \in Nat
        BY <4>3, LenProperties
      <4> HIDE DEF c
      <4>5. DOMAIN c \subseteq Nat
        BY <4>4
      <4>6. QED
        BY <4>5 DEF c
    <3>7. ASSUME NEW i \in DOMAIN cells[tables[s.table].data],
                 i \in s.offset + 1 .. s.offset + n
          PROVE  refs[i - s.offset] \in Refs
      <4>1. n \in Int /\ s.offset \in Int /\ i \in Int
        BY <2>3, <3>1, <3>4, <3>6, <3>7
      <4>2. i - s.offset \in 1 .. n
        BY <3>7, <4>1
      <4>3. QED
        BY <3>5, <4>2
    <3>8. QED
      BY <3>1, <3>7, PokedType
  <2>7. CASE \E n \in 0 .. Len(refs) : /\ Fits(s) /\ Leads(refs, n)
                                      /\ Refused(Poked(s.table, s.offset, n, refs))
    <3>1. PICK n \in 0 .. Len(refs) : /\ Fits(s) /\ Leads(refs, n)
                                     /\ Refused(Poked(s.table, s.offset, n, refs))
      BY <2>7
    <3>2. /\ Poked(s.table, s.offset, n, refs) \in [Arrays -> Seq(Refs)]
          /\ \A a \in HostArrays : Len(Poked(s.table, s.offset, n, refs)[a]) = Length[a]
      BY <1>6, <2>6, <3>1 DEF Arrays
    <3>3. QED
      BY <1>5, <3>1, <3>2
  <2>8. CASE \E n \in 0 .. Len(refs) :
               /\ Fits(s) /\ Leads(refs, n)
               /\ cells' = Poked(s.table, s.offset, n, refs)
               /\ Drop(op.at) /\ NextSegment
               /\ UNCHANGED <<module, tables, globals, traps, bindings>>
    <3>1. PICK n \in 0 .. Len(refs) :
               /\ Fits(s) /\ Leads(refs, n)
               /\ cells' = Poked(s.table, s.offset, n, refs)
               /\ Drop(op.at) /\ NextSegment
               /\ UNCHANGED <<module, tables, globals, traps, bindings>>
      BY <2>8
    <3>2. cells' \in [Arrays -> Seq(Refs)] /\ \A a \in Arrays : Len(cells'[a]) = Len(cells[a])
      BY <2>6, <3>1
    <3>3. dropped' \in Seq(BOOLEAN) /\ Len(dropped') = Len(dropped)
      BY <1>7, <2>1, <3>1 DEF Drop
    <3>4. \A u \in DOMAIN tables : tables[u].data \in Arrays
      <4>1. tables \in Seq([data : Arrays, size : Nat, owns : BOOLEAN])
        BY DEF TypeOK
      <4>2. \A u \in DOMAIN tables : tables[u] \in [data : Arrays, size : Nat, owns : BOOLEAN]
        BY <4>1, LenProperties, ElementOfSeq
      <4>3. QED
        BY <4>2
    <3>5. TypeOK'
      BY <3>1, <3>2, <3>3, <3>4 DEF TypeOK, Arrays
    <3>6. Shape'
      <4>1. op.kind = "segments"
        BY <1>10 DEF ApplySegment, Placing
      <4>2. QED
        BY <1>b, <3>1, <3>3, <4>1
    <3>7. QED
      BY <3>5, <3>6
  <2>9. QED
    BY <1>10, <2>5, <2>7, <2>8 DEF ApplySegment
<1>11. Cleared \in [1 .. Len(module.globals) -> Values \cup {NoValue}]
       /\ Cleared \in Seq(Values \cup {NoValue}) /\ Len(Cleared) = Len(module.globals)
  <2>1. Cleared \in [1 .. Len(module.globals) -> Values \cup {NoValue}]
    BY <1>4 DEF Cleared
  <2>2. QED
    BY <1>4, <2>1, FunctionIsSeq
<1>12. CASE StartGlobals
  <2>1. CASE Refused(cells)
    BY <1>5, <1>6, <2>1
  <2>2. CASE Evaluates(Cleared, TRUE)
    <3>1. TypeOK'
      BY <1>11, <2>2 DEF Evaluates, TypeOK
    <3>2. Shape'
      BY <1>2, <1>4, <1>11, <2>2 DEF Evaluates, Shape
    <3>3. QED
      BY <3>1, <3>2
  <2>3. QED
    BY <1>12, <2>1, <2>2 DEF StartGlobals
<1>13. CASE InitGlobal
  <2> DEFINE g == module.globals[op.at]
             v == Initialised(g, op.at)
  <2>1. op.kind = "globals" /\ op.at \in DOMAIN module.globals /\ op.at \in DOMAIN globals
    BY <1>2, <1>4, <1>13 DEF InitGlobal, Shape
  <2>2. CASE GlobalsFail
    <3>1. CASE op.attaching
      BY <1>5, <1>6, <2>2, <3>1 DEF GlobalsFail
    <3>2. CASE ~ op.attaching
      <4>1. TypeOK'
        BY <2>2, <3>2 DEF GlobalsFail, GlobalsLost, TypeOK
      <4>2. Shape'
        BY <1>2, <2>2, <3>2 DEF GlobalsFail, GlobalsLost, Shape, Trapped, Answer
      <4>3. QED
        BY <4>1, <4>2
    <3>3. QED
      BY <3>1, <3>2
  <2>3. CASE /\ v # NoValue /\ globals' = [globals EXCEPT ![op.at] = v]
             /\ op' = [op EXCEPT !.at = @ + 1]
             /\ UNCHANGED <<module, tables, cells, dropped, traps, bindings>>
    <3>1. /\ \A n \in Words : Number(n) \in Values
          /\ \A r \in Refs : Reference(r) \in Values
      BY DEF Values
    <3>2. \A i \in DOMAIN globals : globals[i] \in Values \cup {NoValue}
      BY LenProperties DEF TypeOK
    <3>3. op.kept[op.at] \in Values \cup {NoValue}
      BY <2>1 DEF Shape
    <3>4. Default(g.type) \in Values
      BY <3>1, RefsAssumption DEF Default
    <3>5. g.init.kind = "const" => Number(g.init.of) \in Values
      BY <1>2, <2>1, <3>1, ModulesAssumption
    <3>6. g.init.kind = "get" => g.init.of \in DOMAIN globals
      <4>1. g.init.kind = "get" => g.init.of \in DOMAIN module.globals
        BY <1>2, <2>1, ModulesAssumption
      <4>2. DOMAIN globals = DOMAIN module.globals
        BY <1>4, <2>1 DEF Shape
      <4>3. QED
        BY <4>1, <4>2
    <3>7. v \in Values
      BY <2>3, <3>2, <3>3, <3>4, <3>5, <3>6 DEF Initialised
    <3>8. globals' \in [1 .. Len(globals) -> Values \cup {NoValue}]
      BY <1>4, <2>3, <3>2, <3>7
    <3>9. globals' \in Seq(Values \cup {NoValue})
      BY <1>4, <3>8, FunctionIsSeq
    <3>10. Len(globals') = Len(globals)
      BY <1>4, <3>8, FunctionIsSeq
    <3>11. TypeOK'
      BY <2>3, <3>9 DEF TypeOK
    <3>12. Shape'
      BY <1>2, <2>1, <2>3, <3>10 DEF Shape
    <3>13. QED
      BY <3>11, <3>12
  <2>4. QED
    BY <1>13, <2>2, <2>3 DEF InitGlobal
<1>14. CASE GlobalsSet
  <2>1. TypeOK'
    BY <1>14 DEF GlobalsSet, TypeOK
  <2>2. Shape'
    BY <1>2, <1>14 DEF GlobalsSet, Done, Answer, Shape
  <2>3. QED
    BY <2>1, <2>2
<1>15. CASE FinishAttach
  <2>1. CASE Refused(cells)
    BY <1>5, <1>6, <2>1
  <2>2. CASE /\ traps' = [f \in DOMAIN module.functions |-> FALSE] /\ op' = Attached
             /\ UNCHANGED <<module, tables, cells, dropped, globals, bindings>>
    <3>1. traps' \in [1 .. Len(module.functions) -> BOOLEAN]
      BY <1>4, <2>2
    <3>2. traps' \in Seq(BOOLEAN)
      BY <1>4, <3>1, FunctionIsSeq
    <3>3. TypeOK'
      BY <2>2, <3>2 DEF TypeOK
    <3>4. Shape'
      BY <1>2, <2>2 DEF Shape, Attached, Answer
    <3>5. QED
      BY <3>3, <3>4
  <2>3. QED
    BY <1>15, <2>1, <2>2 DEF FinishAttach
<1>16. QED
  BY <1>8, <1>9, <1>10, <1>12, <1>13, <1>14, <1>15

(* A table points to an array there is, with the cells its size says.      *)
LEMMA TablesType ==
  ASSUME TypeOK, NEW t \in DOMAIN tables
  PROVE  /\ tables[t] \in [data : Arrays, size : Nat, owns : BOOLEAN]
         /\ cells[tables[t].data] \in Seq(Refs)
         /\ Len(cells[tables[t].data]) \in Nat
         /\ DOMAIN cells[tables[t].data] = 1 .. Len(cells[tables[t].data])
         /\ \A i \in Nat : i < tables[t].size => Holds(t, i) \in Refs
<1>1. tables[t] \in [data : Arrays, size : Nat, owns : BOOLEAN]
  <2>1. tables \in Seq([data : Arrays, size : Nat, owns : BOOLEAN])
    BY DEF TypeOK
  <2>2. QED
    BY <2>1, LenProperties, ElementOfSeq
<1>2. cells[tables[t].data] \in Seq(Refs)
  BY <1>1 DEF TypeOK
<1>3. /\ Len(cells[tables[t].data]) \in Nat
      /\ DOMAIN cells[tables[t].data] = 1 .. Len(cells[tables[t].data])
      /\ \A i \in 1 .. Len(cells[tables[t].data]) : cells[tables[t].data][i] \in Refs
  BY <1>2, LenProperties
<1>4. tables[t].size <= Len(cells[tables[t].data]) /\ tables[t].size \in Nat
  BY <1>1 DEF TypeOK
<1>5. ASSUME NEW i \in Nat, i < tables[t].size PROVE Holds(t, i) \in Refs
  <2>1. i + 1 \in 1 .. Len(cells[tables[t].data])
    BY <1>3, <1>4, <1>5
  <2>2. QED
    BY <1>3, <2>1 DEF Holds
<1>6. QED
  BY <1>1, <1>2, <1>3, <1>5

(* The embedder's steps.                                                   *)
LEMMA EmbedderType ==
  ASSUME TypeOK, Shape, Embedder
  PROVE  TypeOK' /\ Shape'
<1> USE DEF Steps
<1>1. /\ Len(tables) \in Nat /\ DOMAIN tables = 1 .. Len(tables)
      /\ Len(globals) \in Nat /\ DOMAIN globals = 1 .. Len(globals)
      /\ Len(traps) \in Nat /\ DOMAIN traps = 1 .. Len(traps)
      /\ \A t \in DOMAIN tables : tables[t] \in [data : Arrays, size : Nat, owns : BOOLEAN]
  BY LenProperties, TablesType DEF TypeOK
<1>2. cells \in [Arrays -> Seq(Refs)] /\ \A a \in HostArrays : Len(cells[a]) = Length[a]
  BY DEF TypeOK
<1>3. ASSUME NEW end, end.kind = "answered", Emptied(cells, end)
      PROVE  TypeOK' /\ Shape'
  <2>1. TypeOK'
    BY <1>2, <1>3, EmptiedType DEF TypeOK
  <2>2. Shape'
    BY <1>3 DEF Emptied, Shape
  <2>3. QED
    BY <2>1, <2>2
<1>4. ASSUME NEW m \in Modules, AttachModule(m) PROVE TypeOK' /\ Shape'
  <2>1. CASE Refused(cells)
    BY <1>3, <2>1 DEF Refused, Answer
  <2>2. CASE ~ Refused(cells)
    <3>1. /\ \A i \in DOMAIN m.tables :
               ~ OwnsTable(m, i) => Provides(bindings[m.tables[i].name], m.tables[i])
          /\ module' = m
          /\ tables' = [i \in DOMAIN m.tables |->
                          IF OwnsTable(m, i) THEN Owned(i, m.tables[i].initial)
                          ELSE Viewed(bindings[m.tables[i].name])]
          /\ cells' = [a \in DOMAIN cells |->
                         IF a \in HostArrays THEN cells[a]
                         ELSE IF OwnsTable(m, a) THEN Zeroed(m.tables[a].initial)
                         ELSE <<>>]
          /\ dropped' = [k \in DOMAIN m.elements |-> FALSE]
          /\ globals' = <<>> /\ traps' = <<>>
          /\ op' = [kind |-> "segments", at |-> 1]
          /\ bindings' = bindings
      BY <1>4, <2>2 DEF AttachModule
    <3>2. /\ m.tables \in Seq(TableDecls) /\ m.elements \in Seq(Segments)
          /\ Len(m.tables) \in Nat /\ DOMAIN m.tables = 1 .. Len(m.tables)
          /\ Len(m.elements) \in Nat /\ DOMAIN m.elements = 1 .. Len(m.elements)
          /\ \A i \in DOMAIN m.tables : m.tables[i] \in TableDecls
      BY ModulesAssumption, LenProperties, ElementOfSeq DEF ModuleRecords
    <3>3. ASSUME NEW i \in DOMAIN m.tables
          PROVE  /\ tables'[i] \in [data : Arrays, size : Nat, owns : BOOLEAN]
                 /\ tables'[i].size <= Len(cells'[tables'[i].data])
      <4>1. CASE OwnsTable(m, i)
        <5>1. i \in OwnArrays /\ i \in Arrays /\ i \notin HostArrays
          BY <3>2, HostAssumption DEF OwnArrays, Arrays
        <5>2. m.tables[i].initial \in Nat
          BY <3>2 DEF TableDecls
        <5>3. tables'[i] = Owned(i, m.tables[i].initial)
          BY <3>1, <4>1
        <5>4. cells'[i] = Zeroed(m.tables[i].initial)
          BY <1>2, <3>1, <4>1, <5>1
        <5>5. Len(Zeroed(m.tables[i].initial)) = m.tables[i].initial
          BY <5>2 DEF Zeroed
        <5>6. QED
          BY <5>1, <5>2, <5>3, <5>4, <5>5 DEF Owned
      <4>2. CASE ~ OwnsTable(m, i)
        <5> DEFINE b == bindings[m.tables[i].name]
        <5>1. m.tables[i].name \in Names
          BY <3>2, <4>2 DEF OwnsTable, TableDecls
        <5>2. b \in Bindings
          BY <3>1, <4>2, <5>1 DEF Provides, TypeOK
        <5>3. tables'[i] = Viewed(b)
          BY <3>1, <4>2
        <5>4. b.data \in HostArrays /\ b.size \in Nat /\ b.size <= Length[b.data]
          BY <5>2 DEF Bindings
        <5>5. cells'[b.data] = cells[b.data] /\ b.data \in Arrays
          BY <1>2, <3>1, <5>4 DEF Arrays
        <5>6. Len(cells[b.data]) = Length[b.data]
          BY <1>2, <5>4
        <5>7. QED
          BY <5>3, <5>4, <5>5, <5>6 DEF Viewed
      <4>3. QED
        BY <4>1, <4>2
    <3>4. tables' \in Seq([data : Arrays, size : Nat, owns : BOOLEAN])
      <4>1. tables' \in [1 .. Len(m.tables) -> [data : Arrays, size : Nat, owns : BOOLEAN]]
        BY <3>1, <3>2, <3>3
      <4>2. QED
        BY <3>2, <4>1, FunctionIsSeq
    <3>5. cells' \in [Arrays -> Seq(Refs)] /\ \A a \in HostArrays : Len(cells'[a]) = Length[a]
      <4>1. ASSUME NEW a \in Arrays, OwnsTable(m, a) PROVE Zeroed(m.tables[a].initial) \in Seq(Refs)
        <5>1. m.tables[a].initial \in Nat
          BY <3>2, <4>1 DEF OwnsTable, TableDecls
        <5>2. Zeroed(m.tables[a].initial) \in [1 .. m.tables[a].initial -> Refs]
          BY <5>1, RefsAssumption DEF Zeroed
        <5>3. QED
          BY <5>1, <5>2, FunctionIsSeq
      <4>2. <<>> \in Seq(Refs)
        OBVIOUS
      <4>3. QED
        BY <1>2, <3>1, <4>1, <4>2 DEF Arrays
    <3>6. dropped' \in Seq(BOOLEAN) /\ Len(dropped') = Len(m.elements)
      <4>1. dropped' \in [1 .. Len(m.elements) -> BOOLEAN]
        BY <3>1, <3>2
      <4>2. QED
        BY <3>2, <4>1, FunctionIsSeq
    <3>7. Len(tables') = Len(m.tables) /\ DOMAIN tables' = DOMAIN m.tables
      <4>1. DOMAIN tables' = DOMAIN m.tables
        BY <3>1
      <4>2. QED
        BY <3>2, <3>4, <4>1, LenProperties
    <3>8. TypeOK'
      <4>1. \A t \in DOMAIN tables' : tables'[t].size <= Len(cells'[tables'[t].data])
        BY <3>3, <3>7
      <4>2. module' \in Modules /\ bindings' \in [Names -> Bindings \cup {NULL}]
        BY <3>1 DEF TypeOK
      <4>3. globals' = <<>> /\ traps' = <<>>
        BY <3>1
      <4>4. QED
        BY <3>4, <3>5, <3>6, <4>1, <4>2, <4>3 DEF TypeOK
    <3>9. Shape'
      BY <3>1, <3>6, <3>7, NullAssumption DEF Shape
    <3>10. QED
      BY <3>8, <3>9
  <2>3. QED
    BY <2>1, <2>2
<1>5. CASE DetachModule
  BY <1>3, <1>5 DEF DetachModule, Done, Answer
<1>6. ASSUME NEW name \in Names, NEW a \in HostArrays, NEW n \in 0 .. Length[a],
             BindImportedTable(name, [data |-> a, size |-> n])
      PROVE  TypeOK' /\ Shape'
  <2> DEFINE b == [data |-> a, size |-> n]
  <2>1. /\ bindings' = [bindings EXCEPT ![name] = b]
        /\ tables' = [i \in DOMAIN tables |->
                        IF i \in Asking(name) THEN Viewed(b) ELSE tables[i]]
        /\ UNCHANGED <<module, cells, dropped, globals, traps, op>>
    BY <1>6 DEF BindImportedTable
  <2>2. n \in Nat /\ n <= Length[a] /\ a \in Arrays
    BY LengthAssumption DEF Arrays
  <2>3. b \in Bindings
    BY <2>2 DEF Bindings
  <2>4. Viewed(b) \in [data : Arrays, size : Nat, owns : BOOLEAN]
    BY <2>2 DEF Viewed
  <2>5. tables' \in [1 .. Len(tables) -> [data : Arrays, size : Nat, owns : BOOLEAN]]
    BY <1>1, <2>1, <2>4
  <2>6. tables' \in Seq([data : Arrays, size : Nat, owns : BOOLEAN])
    BY <1>1, <2>5, FunctionIsSeq
  <2>7. Len(tables') = Len(tables) /\ DOMAIN tables' = DOMAIN tables
    BY <1>1, <2>5, FunctionIsSeq
  <2>8. ASSUME NEW t \in DOMAIN tables'
        PROVE  tables'[t].size <= Len(cells'[tables'[t].data])
    <3>1. CASE t \in Asking(name)
      <4>1. tables'[t] = Viewed(b)
        BY <2>1, <2>7, <2>8, <3>1
      <4>2. Len(cells'[a]) = Length[a]
        BY <1>2, <2>1
      <4>3. QED
        BY <2>2, <4>1, <4>2 DEF Viewed
    <3>2. CASE t \notin Asking(name)
      BY <2>1, <2>7, <2>8, <3>2 DEF TypeOK
    <3>3. QED
      BY <3>1, <3>2
  <2>9. TypeOK'
    BY <2>1, <2>3, <2>6, <2>8 DEF TypeOK
  <2>10. Shape'
    <3>1. module = NULL => tables' = <<>>
      BY <1>1, <2>1, <2>7 DEF Shape
    <3>2. QED
      BY <2>1, <2>7, <3>1 DEF Shape
  <2>11. QED
    BY <2>9, <2>10
<1>7. ASSUME NEW a \in HostArrays, NEW i \in Indices, NEW r \in Refs, HostWrites(a, i, r)
      PROVE  TypeOK' /\ Shape'
  <2>1. cells[a] \in Seq(Refs) /\ a \in Arrays
    BY <1>2 DEF Arrays
  <2>2. i \in Nat
    BY IndicesAssumption
  <2>3. ASSUME NEW j \in DOMAIN cells[a], j \in i + 1 .. i + 1 PROVE <<r>>[j - i] \in Refs
    <3>1. j - i = 1
      BY <2>2, <2>3
    <3>2. QED
      BY <3>1
  <2>4. /\ Written(cells[a], i, 1, <<r>>) \in Seq(Refs)
        /\ Len(Written(cells[a], i, 1, <<r>>)) = Len(cells[a])
    BY <2>1, <2>3, WrittenType
  <2>5. /\ cells' = [cells EXCEPT ![a] = Written(cells[a], i, 1, <<r>>)]
        /\ UNCHANGED <<module, tables, dropped, globals, traps, bindings, op>>
    BY <1>7 DEF HostWrites
  <2>6. cells' \in [Arrays -> Seq(Refs)] /\ \A x \in Arrays : Len(cells'[x]) = Len(cells[x])
    BY <1>2, <2>1, <2>4, <2>5
  <2>7. TypeOK'
    BY <1>1, <2>5, <2>6 DEF TypeOK, Arrays
  <2>8. Shape'
    BY <2>5 DEF Shape
  <2>9. QED
    BY <2>7, <2>8
<1>8. ASSUME NEW i \in DOMAIN globals, NEW v \in Values,
             SetImportedGlobal(i, v) \/ SetImportedGlobalStarved(i, v)
      PROVE  TypeOK' /\ Shape'
  <2>1. module # NULL /\ module \in Modules /\ Len(globals) = Len(module.globals)
    <3>1. globals # <<>>
      OBVIOUS
    <3>2. QED
      BY <1>1, <3>1 DEF Shape, TypeOK
  <2>2. /\ Len(module.globals) \in Nat /\ DOMAIN module.globals = 1 .. Len(module.globals)
    BY <2>1, ModulesAssumption, LenProperties DEF ModuleRecords
  <2>3. DOMAIN globals = DOMAIN module.globals
    BY <1>1, <2>1, <2>2
  <2>4. Cleared \in Seq(Values \cup {NoValue}) /\ Len(Cleared) = Len(module.globals)
    <3>1. Cleared \in [1 .. Len(module.globals) -> Values \cup {NoValue}]
      BY <2>2 DEF Cleared
    <3>2. QED
      BY <2>2, <3>1, FunctionIsSeq
  <2>5. Kept([globals EXCEPT ![i] = v]) \in [DOMAIN module.globals -> Values \cup {NoValue}]
    <3>1. \A j \in DOMAIN globals : globals[j] \in Values \cup {NoValue}
      BY LenProperties DEF TypeOK
    <3>2. QED
      BY <2>3, <3>1 DEF Kept
  <2>6. CASE Evaluates(Kept([globals EXCEPT ![i] = v]), FALSE)
    <3> DEFINE kept == Kept([globals EXCEPT ![i] = v])
    <3>1. TypeOK'
      BY <2>4, <2>6 DEF Evaluates, TypeOK
    <3>2. /\ kept \in [DOMAIN module.globals -> Values \cup {NoValue}]
          /\ op' = [kind |-> "globals", at |-> 1, kept |-> kept, attaching |-> FALSE]
      BY <2>5, <2>6 DEF Evaluates
    <3> HIDE DEF kept
    <3>3. /\ module' = module /\ module # NULL /\ tables' = tables /\ dropped' = dropped
          /\ Len(globals') = Len(module.globals)
      BY <2>1, <2>4, <2>6 DEF Evaluates
    <3>4. Shape'
      BY <3>2, <3>3 DEF Shape
    <3>5. QED
      BY <3>1, <3>4
  <2>7. CASE GlobalsLost
    <3>1. TypeOK'
      BY <2>7 DEF GlobalsLost, TypeOK
    <3>2. Shape'
      BY <1>1, <2>1, <2>7 DEF GlobalsLost, Shape, Trapped, Answer
    <3>3. QED
      BY <3>1, <3>2
  <2>8. CASE SetImportedGlobalStarved(i, v)
    <3>1. [globals EXCEPT ![i] = v] \in [1 .. Len(globals) -> Values \cup {NoValue}]
      BY LenProperties DEF TypeOK
    <3>2. globals' \in Seq(Values \cup {NoValue}) /\ Len(globals') = Len(globals)
      BY <2>8, <3>1, LenProperties, FunctionIsSeq DEF SetImportedGlobalStarved, TypeOK
    <3>3. TypeOK'
      BY <2>8, <3>2 DEF SetImportedGlobalStarved, TypeOK
    <3>4. Shape'
      BY <1>1, <2>1, <2>8, <3>2 DEF SetImportedGlobalStarved, Shape, Trapped, Answer
    <3>5. QED
      BY <3>3, <3>4
  <2>9. QED
    BY <1>8, <2>6, <2>7, <2>8 DEF SetImportedGlobal
<1>9. ASSUME traps' \in [1 .. Len(traps) -> BOOLEAN],
              UNCHANGED <<module, tables, cells, dropped, globals, bindings, op>>
       PROVE  TypeOK' /\ Shape'
  <2>1. traps' \in Seq(BOOLEAN)
    BY <1>1, <1>9, FunctionIsSeq
  <2>2. TypeOK'
    BY <1>9, <2>1 DEF TypeOK
  <2>3. module = NULL => traps' = <<>>
    BY <1>1, <1>9 DEF Shape
  <2>4. Shape'
    BY <1>9, <2>3 DEF Shape
  <2>5. QED
    BY <2>2, <2>4
<1>10. ASSUME NEW f \in DOMAIN traps, NEW enabled \in BOOLEAN, SetFunctionTrap(f, enabled)
       PROVE  TypeOK' /\ Shape'
  <2>1. traps \in [1 .. Len(traps) -> BOOLEAN]
    BY <1>1, LenProperties DEF TypeOK
  <2>2. traps' \in [1 .. Len(traps) -> BOOLEAN]
    BY <1>10, <2>1 DEF SetFunctionTrap
  <2>3. QED
    BY <1>9, <1>10, <2>2 DEF SetFunctionTrap
<1>11. CASE ClearFunctionTraps
  <2>1. traps' \in [1 .. Len(traps) -> BOOLEAN]
    BY <1>1, <1>11 DEF ClearFunctionTraps
  <2>2. QED
    BY <1>9, <1>11, <2>1 DEF ClearFunctionTraps
<1>12. QED
  BY <1>4, <1>5, <1>6, <1>7, <1>8, <1>10, <1>11 DEF Embedder

(* The instructions.  Only a table of the runtime's own grows, and that is *)
(* what TablesInForce says of a table that owns its array.                 *)
LEMMA ProgramType ==
  ASSUME TypeOK, Shape, TablesInForce, Program
  PROVE  TypeOK' /\ Shape'
<1>1. op.kind = "idle" /\ module # NULL /\ module \in Modules
  BY DEF Program, Running, Idle, TypeOK
<1>2. /\ Len(tables) \in Nat /\ DOMAIN tables = 1 .. Len(tables)
      /\ Len(globals) \in Nat /\ DOMAIN globals = 1 .. Len(globals)
      /\ Len(dropped) \in Nat /\ DOMAIN dropped = 1 .. Len(dropped)
  BY LenProperties DEF TypeOK
<1>3. /\ module.elements \in Seq(Segments) /\ module.tables \in Seq(TableDecls)
      /\ DOMAIN module.elements = DOMAIN dropped /\ DOMAIN module.tables = DOMAIN tables
      /\ \A k \in DOMAIN module.elements : module.elements[k] \in Segments
  <2>1. module.elements \in Seq(Segments) /\ module.tables \in Seq(TableDecls)
    BY <1>1, ModulesAssumption DEF ModuleRecords
  <2>2. /\ DOMAIN module.elements = 1 .. Len(module.elements)
        /\ DOMAIN module.tables = 1 .. Len(module.tables)
        /\ \A k \in DOMAIN module.elements : module.elements[k] \in Segments
    BY <2>1, LenProperties, ElementOfSeq
  <2>3. Len(tables) = Len(module.tables) /\ Len(dropped) = Len(module.elements)
    BY <1>1 DEF Shape
  <2>4. QED
    BY <1>2, <2>1, <2>2, <2>3
<1>4. ASSUME NEW got, Gives(Answer(got)) PROVE TypeOK' /\ Shape'
  <2>1. TypeOK'
    BY <1>4 DEF Gives, TypeOK
  <2>2. Shape'
    BY <1>1, <1>4 DEF Gives, Answer, Shape
  <2>3. QED
    BY <2>1, <2>2
<1>5. ASSUME Gives(Trapped) PROVE TypeOK' /\ Shape'
  BY <1>4, <1>5 DEF Trapped
<1>6. ASSUME NEW t \in DOMAIN tables, NEW at \in Nat, NEW n \in Nat, NEW refs,
             \A j \in 1 .. n : refs[j] \in Refs,
             cells' = Poked(t, at, n, refs), op'.kind = "answered",
             UNCHANGED <<module, tables, dropped, globals, traps, bindings>>
      PROVE  TypeOK' /\ Shape'
  <2>1. ASSUME NEW i \in DOMAIN cells[tables[t].data], i \in at + 1 .. at + n
        PROVE  refs[i - at] \in Refs
    <3>1. i - at \in 1 .. n
      BY <2>1
    <3>2. QED
      BY <1>6, <3>1
  <2>2. cells' \in [Arrays -> Seq(Refs)] /\ \A a \in Arrays : Len(cells'[a]) = Len(cells[a])
    BY <1>6, <2>1, PokedType
  <2>3. \A u \in DOMAIN tables : tables[u].data \in Arrays
    BY TablesType
  <2>4. TypeOK'
    BY <1>6, <2>2, <2>3 DEF TypeOK, Arrays
  <2>5. Shape'
    BY <1>1, <1>6 DEF Shape
  <2>6. QED
    BY <2>4, <2>5
<1>7. ASSUME NEW i \in DOMAIN module.globals, GlobalGet(i) PROVE TypeOK' /\ Shape'
  BY <1>4, <1>5, <1>7 DEF GlobalGet
<1>8. ASSUME NEW i \in DOMAIN module.globals, NEW v \in Values, GlobalSet(i, v)
      PROVE  TypeOK' /\ Shape'
  <2>1. CASE Gives(Trapped)
    BY <1>5, <2>1
  <2>2. CASE /\ i \in DOMAIN globals
             /\ globals' = [globals EXCEPT ![i] = v] /\ op' = Done
             /\ UNCHANGED <<module, tables, cells, dropped, traps, bindings>>
    <3>1. \A j \in DOMAIN globals : globals[j] \in Values \cup {NoValue}
      BY LenProperties DEF TypeOK
    <3>2. globals' \in [1 .. Len(globals) -> Values \cup {NoValue}]
      BY <1>2, <2>2, <3>1, LenProperties DEF TypeOK
    <3>3. globals' \in Seq(Values \cup {NoValue})
      BY <1>2, <3>2, FunctionIsSeq
    <3>4. Len(globals') = Len(globals)
      BY <1>2, <3>2, FunctionIsSeq
    <3>5. TypeOK'
      BY <2>2, <3>3 DEF TypeOK
    <3>6. globals # <<>>
      BY <2>2
    <3>7. Shape'
      BY <1>1, <2>2, <3>4, <3>6 DEF Shape, Done, Answer
    <3>8. QED
      BY <3>5, <3>7
  <2>3. QED
    BY <1>8, <2>1, <2>2 DEF GlobalSet
<1>9. ASSUME NEW t \in DOMAIN tables, TableSize(t) PROVE TypeOK' /\ Shape'
  BY <1>4, <1>9 DEF TableSize
<1>10. ASSUME NEW t \in DOMAIN tables, NEW i \in Indices, TableGet(t, i)
       PROVE  TypeOK' /\ Shape'
  BY <1>4, <1>5, <1>10 DEF TableGet
<1>11. ASSUME NEW t \in DOMAIN tables, NEW i \in Indices, NEW type, CallIndirect(t, i, type)
       PROVE  TypeOK' /\ Shape'
  BY <1>4, <1>5, <1>11 DEF CallIndirect
<1>12. ASSUME NEW t \in DOMAIN tables, NEW i \in Indices, NEW r \in Refs, TableSet(t, i, r)
       PROVE  TypeOK' /\ Shape'
  <2>1. CASE Gives(Trapped)
    BY <1>5, <2>1
  <2>2. CASE Writes(Poked(t, i, 1, <<r>>))
    <3>1. i \in Nat /\ \A j \in 1 .. 1 : <<r>>[j] \in Refs
      BY IndicesAssumption
    <3>2. /\ cells' = Poked(t, i, 1, <<r>>) /\ op'.kind = "answered"
          /\ UNCHANGED <<module, tables, dropped, globals, traps, bindings>>
      BY <2>2 DEF Writes, Done, Answer
    <3>3. QED
      BY <1>6, <3>1, <3>2
  <2>3. QED
    BY <1>12, <2>1, <2>2 DEF TableSet
<1>13. ASSUME NEW t \in DOMAIN tables, NEW i \in Indices, NEW n \in Indices, NEW r \in Refs,
              TableFill(t, i, n, r)
       PROVE  TypeOK' /\ Shape'
  <2> DEFINE refs == [j \in 1 .. n |-> r]
  <2>1. CASE Gives(Trapped)
    BY <1>5, <2>1
  <2>2. CASE Writes(Poked(t, i, n, refs))
    <3>1. i \in Nat /\ n \in Nat /\ \A j \in 1 .. n : refs[j] \in Refs
      BY IndicesAssumption
    <3>2. /\ cells' = Poked(t, i, n, refs) /\ op'.kind = "answered"
          /\ UNCHANGED <<module, tables, dropped, globals, traps, bindings>>
      BY <2>2 DEF Writes, Done, Answer
    <3> HIDE DEF refs
    <3>3. QED
      BY <1>6, <3>1, <3>2
  <2>3. QED
    BY <1>13, <2>1, <2>2 DEF TableFill
<1>14. ASSUME NEW d \in DOMAIN tables, NEW s \in DOMAIN tables,
              NEW dst \in Indices, NEW src \in Indices, NEW n \in Indices,
              TableCopy(d, s, dst, src, n)
       PROVE  TypeOK' /\ Shape'
  <2> DEFINE refs == [j \in 1 .. n |-> Holds(s, src + j - 1)]
  <2>1. CASE Gives(Trapped)
    BY <1>5, <2>1
  <2>2. CASE src + n <= tables[s].size /\ Writes(Poked(d, dst, n, refs))
    <3>1. dst \in Nat /\ src \in Nat /\ n \in Nat
      BY IndicesAssumption
    <3>2. ASSUME NEW j \in 1 .. n PROVE refs[j] \in Refs
      <4>1. tables[s].size \in Nat
        BY TablesType
      <4>2. src + j - 1 \in Nat /\ src + j - 1 < tables[s].size
        BY <2>2, <3>1, <4>1
      <4>3. QED
        BY <4>2, TablesType
    <3>3. /\ cells' = Poked(d, dst, n, refs) /\ op'.kind = "answered"
          /\ UNCHANGED <<module, tables, dropped, globals, traps, bindings>>
      BY <2>2 DEF Writes, Done, Answer
    <3> HIDE DEF refs
    <3>4. QED
      BY <1>6, <3>1, <3>2, <3>3
  <2>3. QED
    BY <1>14, <2>1, <2>2 DEF TableCopy
<1>15. ASSUME NEW t \in DOMAIN tables, NEW k \in DOMAIN dropped,
              NEW dst \in Indices, NEW src \in Indices, NEW n \in Indices,
              TableInit(t, k, dst, src, n)
       PROVE  TypeOK' /\ Shape'
  <2> DEFINE s == module.elements[k]
             refs == [j \in 1 .. n |-> Resolved(s.inits[src + j], s.type)]
  <2>1. CASE Gives(Trapped)
    BY <1>5, <2>1
  <2>2. CASE /\ src + n <= Len(s.inits)
             /\ \E done \in 0 .. n :
                  /\ Leads(refs, done)
                  /\ cells' = Poked(t, dst, done, refs)
                  /\ op' = IF done = n THEN Done ELSE Trapped
                  /\ UNCHANGED <<module, tables, dropped, globals, traps, bindings>>
    <3>1. PICK done \in 0 .. n :
            /\ Leads(refs, done)
            /\ cells' = Poked(t, dst, done, refs)
            /\ op' = IF done = n THEN Done ELSE Trapped
            /\ UNCHANGED <<module, tables, dropped, globals, traps, bindings>>
      BY <2>2
    <3>2. dst \in Nat /\ src \in Nat /\ n \in Nat /\ done \in Nat /\ done <= n
      BY IndicesAssumption
    <3>3. k \in DOMAIN module.elements /\ s.inits \in Seq(Inits)
      BY <1>3 DEF Segments
    <3>4. ASSUME NEW j \in 1 .. done PROVE refs[j] \in Refs
      <4>1. j \in 1 .. n /\ refs[j] # Unresolved
        <5> HIDE DEF refs
        <5>1. j \in 1 .. n
          BY <3>2
        <5>2. refs[j] # Unresolved
          BY <3>1 DEF Leads
        <5>3. QED
          BY <5>1, <5>2
      <4>2. src + j \in DOMAIN s.inits
        <5>1. DOMAIN s.inits = 1 .. Len(s.inits) /\ Len(s.inits) \in Nat
          BY <3>3, LenProperties
        <5>2. src + j \in 1 .. Len(s.inits)
          BY <2>2, <3>2, <4>1, <5>1
        <5>3. QED
          BY <5>1, <5>2
      <4>3. refs[j] = Resolved(s.inits[src + j], s.type)
        BY <4>1
      <4>4. QED
        BY <1>1, <3>3, <4>1, <4>2, <4>3, ResolvedType
    <3>5. op'.kind = "answered"
      BY <3>1 DEF Done, Trapped, Answer
    <3> HIDE DEF refs
    <3>6. QED
      BY <1>6, <3>1, <3>2, <3>4, <3>5
  <2>3. QED
    BY <1>15, <2>1, <2>2 DEF TableInit
<1>16. ASSUME NEW k \in DOMAIN dropped, ElemDrop(k) PROVE TypeOK' /\ Shape'
  <2>1. /\ dropped' = [dropped EXCEPT ![k] = TRUE] /\ op' = Done
        /\ UNCHANGED <<module, tables, cells, globals, traps, bindings>>
    BY <1>16 DEF ElemDrop, Drop
  <2>2. dropped' \in [1 .. Len(dropped) -> BOOLEAN]
    BY <1>2, <2>1, LenProperties DEF TypeOK
  <2>3. dropped' \in Seq(BOOLEAN)
    BY <1>2, <2>2, FunctionIsSeq
  <2>4. Len(dropped') = Len(dropped)
    BY <1>2, <2>2, FunctionIsSeq
  <2>5. TypeOK'
    BY <2>1, <2>3 DEF TypeOK
  <2>6. Shape'
    BY <1>1, <2>1, <2>4 DEF Shape, Done, Answer
  <2>7. QED
    BY <2>5, <2>6
<1>17. ASSUME NEW t \in DOMAIN tables, NEW delta \in Indices, NEW r \in Refs, TableGrow(t, delta, r)
       PROVE  TypeOK' /\ Shape'
  <2>1. CASE \E got : Gives(Answer(got))
    BY <1>4, <2>1
  <2>2. CASE Gives(Trapped)
    BY <1>5, <2>2
  <2>3. CASE (delta = 0 \/ Growable(t, delta)) /\ Grown(t, delta, r)
    <3> DEFINE more == [j \in 1 .. delta |-> r]
               a == tables[t].data
    <3>1. delta \in Nat
      BY IndicesAssumption
    <3>2. more \in Seq(Refs) /\ Len(more) = delta
      <4>1. more \in [1 .. delta -> Refs]
        OBVIOUS
      <4>2. QED
        BY <3>1, <4>1, FunctionIsSeq
    <3>3. /\ tables[t] \in [data : Arrays, size : Nat, owns : BOOLEAN]
          /\ cells[a] \in Seq(Refs) /\ Len(cells[a]) \in Nat
      BY TablesType
    <3> HIDE DEF more
    <3>4. cells[a] \o more \in Seq(Refs) /\ Len(cells[a] \o more) = Len(cells[a]) + delta
      BY <3>2, <3>3, ConcatProperties
    <3>5. /\ cells' = [cells EXCEPT ![a] = cells[a] \o more]
          /\ tables' = [tables EXCEPT ![t].size = tables[t].size + delta]
          /\ op' = Answer(<<"grew", t, tables[t].size>>)
          /\ UNCHANGED <<module, dropped, globals, traps, bindings>>
      BY <2>3 DEF Grown, more
    <3>6. cells' \in [Arrays -> Seq(Refs)]
      BY <3>3, <3>4, <3>5 DEF TypeOK
    <3>7. a \in HostArrays => delta = 0
      <4>1. SUFFICES ASSUME Growable(t, delta) PROVE a \notin HostArrays
        BY <2>3
      <4>2. tables[t].owns
        BY <4>1 DEF Growable
      <4>3. CASE module.tables[t].name = NULL
        <5>1. tables[t] = Owned(t, Len(cells[t]))
          BY <4>3 DEF TablesInForce
        <5>2. a = t /\ t \in Nat
          BY <1>2, <5>1 DEF Owned
        <5>3. QED
          BY <5>2, HostAssumption
      <4>4. CASE module.tables[t].name # NULL
        <5>1. tables[t] = Viewed(bindings[module.tables[t].name])
          BY <4>4 DEF TablesInForce
        <5>2. ~ tables[t].owns
          BY <5>1 DEF Viewed
        <5>3. QED
          BY <4>2, <5>2
      <4>5. QED
        BY <4>3, <4>4
    <3>8. \A x \in HostArrays : Len(cells'[x]) = Length[x]
      <4>1. \A x \in HostArrays : x \in Arrays /\ Len(cells[x]) = Length[x] /\ Length[x] \in Nat
        BY LengthAssumption DEF TypeOK, Arrays
      <4>2. a \in HostArrays => Len(cells'[a]) = Len(cells[a])
        BY <3>1, <3>3, <3>4, <3>5, <3>6, <3>7
      <4>3. \A x \in Arrays : x # a => cells'[x] = cells[x]
        BY <3>5 DEF TypeOK
      <4>4. QED
        BY <4>1, <4>2, <4>3
    <3>9. /\ DOMAIN tables' = DOMAIN tables
          /\ \A u \in DOMAIN tables : u # t => tables'[u] = tables[u]
          /\ tables'[t] = [tables[t] EXCEPT !.size = tables[t].size + delta]
      BY <3>5
    <3>10. /\ tables'[t] \in [data : Arrays, size : Nat, owns : BOOLEAN]
           /\ tables'[t].data = a /\ tables'[t].size = tables[t].size + delta
      BY <3>1, <3>3, <3>9
    <3>11. \A u \in DOMAIN tables : tables'[u] \in [data : Arrays, size : Nat, owns : BOOLEAN]
      BY <3>9, <3>10, TablesType
    <3>12. /\ tables' \in Seq([data : Arrays, size : Nat, owns : BOOLEAN])
           /\ Len(tables') = Len(tables)
      <4>2. tables' = [u \in 1 .. Len(tables) |-> tables'[u]]
        BY <1>2, <3>5
      <4>3. tables' \in [1 .. Len(tables) -> [data : Arrays, size : Nat, owns : BOOLEAN]]
        BY <1>2, <3>11, <4>2
      <4>4. QED
        BY <1>2, <4>3, FunctionIsSeq
    <3>13. ASSUME NEW u \in DOMAIN tables' PROVE tables'[u].size <= Len(cells'[tables'[u].data])
      <4>1. /\ tables[u].size \in Nat /\ tables[u].data \in Arrays
            /\ Len(cells[tables[u].data]) \in Nat
            /\ tables[u].size <= Len(cells[tables[u].data])
        BY <3>9, TablesType DEF TypeOK
      <4>2. CASE u = t
        <5>1. cells'[a] = cells[a] \o more
          BY <3>3, <3>5 DEF TypeOK
        <5>2. QED
          BY <3>1, <3>4, <3>10, <4>1, <4>2, <5>1
      <4>3. CASE u # t
        <5>1. Len(cells'[tables[u].data]) >= Len(cells[tables[u].data])
          <6>1. CASE tables[u].data = a
            <7>1. cells'[a] = cells[a] \o more
              BY <3>3, <3>5 DEF TypeOK
            <7>2. QED
              BY <3>1, <3>3, <3>4, <6>1, <7>1
          <6>2. CASE tables[u].data # a
            <7>1. cells'[tables[u].data] = cells[tables[u].data]
              BY <3>5, <4>1, <6>2 DEF TypeOK
            <7>2. QED
              BY <4>1, <7>1
          <6>3. QED
            BY <6>1, <6>2
        <5>2. Len(cells'[tables[u].data]) \in Nat
          BY <3>6, <4>1, LenProperties
        <5>3. QED
          BY <3>9, <4>1, <4>3, <5>1, <5>2
      <4>4. QED
        BY <4>2, <4>3
    <3>14. TypeOK'
      BY <3>5, <3>6, <3>8, <3>12, <3>13 DEF TypeOK
    <3>15. Shape'
      BY <1>1, <3>5, <3>12 DEF Shape, Answer
    <3>16. QED
      BY <3>14, <3>15
  <2>4. QED
    BY <1>17, <2>1, <2>2, <2>3 DEF TableGrow
<1>18. QED
  BY <1>7, <1>8, <1>9, <1>10, <1>11, <1>12, <1>13, <1>14, <1>15, <1>16, <1>17 DEF Program

-----------------------------------------------------------------------------
(* A step keeps tables within their limits and apart from each other: what *)
(* is bound under a name and what the tables of that name view change      *)
(* together, or neither does.                                              *)
LEMMA TablesStep ==
  ASSUME TypeOK, Shape, TablesInForce, [Next]_vars, TypeOK', Shape'
  PROVE  TablesInForce'
<1>decls. \A t \in DOMAIN tables : module.tables[t] \in TableDecls
  <2>1. SUFFICES ASSUME tables # <<>> PROVE \A t \in DOMAIN tables : module.tables[t] \in TableDecls
    OBVIOUS
  <2>2. module # NULL
    BY <2>1 DEF Shape
  <2>3. module.tables \in Seq(TableDecls) /\ Len(tables) = Len(module.tables)
    BY <2>2, ModulesAssumption DEF TypeOK, Shape, ModuleRecords
  <2>4. DOMAIN tables = DOMAIN module.tables
    BY <2>3, LenProperties DEF TypeOK
  <2>5. QED
    BY <2>3, <2>4, LenProperties, ElementOfSeq
<1>1. ASSUME UNCHANGED <<module, tables, bindings>>,
             \A t \in DOMAIN tables : Len(cells'[tables[t].data]) = Len(cells[tables[t].data])
      PROVE  TablesInForce'
  <2>1. \A t \in DOMAIN tables : module.tables[t].name = NULL => tables[t].data = t
    BY DEF TablesInForce, Owned
  <2>2. QED
    BY <1>1, <2>1 DEF TablesInForce, Viewed
<1>2. ASSUME tables' = <<>> PROVE TablesInForce'
  <2>1. DOMAIN tables' = {}
    BY <1>2
  <2>2. QED
    BY <2>1 DEF TablesInForce
<1>3. ASSUME NEW t \in DOMAIN tables, NEW at, NEW n, NEW refs, cells' = Poked(t, at, n, refs)
      PROVE  \A u \in DOMAIN tables : Len(cells'[tables[u].data]) = Len(cells[tables[u].data])
  <2> DEFINE a == tables[t].data
  <2>1. cells'[a] = Written(cells[a], at, n, refs) /\ \A x \in Arrays : x # a => cells'[x] = cells[x]
    BY <1>3, TablesType DEF Poked, TypeOK
  <2>2. cells'[a] \in Seq(Refs) /\ DOMAIN cells'[a] = DOMAIN cells[a]
    <3>1. DOMAIN Written(cells[a], at, n, refs) = DOMAIN cells[a]
      BY DEF Written
    <3>2. a \in Arrays
      BY TablesType
    <3>3. QED
      BY <2>1, <3>1, <3>2 DEF TypeOK
  <2>3. Len(cells'[a]) = Len(cells[a])
    BY <2>2, TablesType, LenProperties
  <2>4. QED
    BY <2>1, <2>3, TablesType
<1>4. CASE UNCHANGED vars
  BY <1>1, <1>4 DEF vars
<1>5. CASE SkipSegment \/ DeclareSegment \/ GlobalsSet \/ Settle
  BY <1>1, <1>5 DEF SkipSegment, DeclareSegment, GlobalsSet, Settle
<1>6. CASE ApplySegment
  <2> DEFINE s == module.elements[op.at]
             refs == References(s)
  <2>1. CASE \E c : Refused(c)
    BY <1>2, <2>1 DEF Refused, Emptied
  <2>2. CASE /\ Fits(s)
             /\ \E n \in 0 .. Len(refs) : cells' = Poked(s.table, s.offset, n, refs)
             /\ UNCHANGED <<module, tables, bindings>>
    <3>1. s.table \in DOMAIN tables
      BY <2>2 DEF Fits
    <3>2. QED
      BY <1>1, <1>3, <2>2, <3>1
  <2>3. QED
    BY <1>6, <2>1, <2>2 DEF ApplySegment
<1>7. CASE StartGlobals \/ InitGlobal \/ FinishAttach
  <2>1. CASE Refused(cells)
    BY <1>2, <2>1 DEF Refused, Emptied
  <2>2. CASE UNCHANGED <<module, tables, cells, bindings>>
    BY <1>1, <2>2
  <2>3. QED
    BY <1>7, <2>1, <2>2
       DEF StartGlobals, Evaluates, InitGlobal, GlobalsFail, GlobalsLost, FinishAttach
<1>8. ASSUME NEW m \in Modules, AttachModule(m) PROVE TablesInForce'
  <2>1. CASE Refused(cells)
    BY <1>2, <2>1 DEF Refused, Emptied
  <2>2. CASE ~ Refused(cells)
    <3>1. /\ \A i \in DOMAIN m.tables :
               ~ OwnsTable(m, i) => Provides(bindings[m.tables[i].name], m.tables[i])
          /\ module' = m
          /\ tables' = [i \in DOMAIN m.tables |->
                          IF OwnsTable(m, i) THEN Owned(i, m.tables[i].initial)
                          ELSE Viewed(bindings[m.tables[i].name])]
          /\ cells' = [a \in DOMAIN cells |->
                         IF a \in HostArrays THEN cells[a]
                         ELSE IF OwnsTable(m, a) THEN Zeroed(m.tables[a].initial)
                         ELSE <<>>]
          /\ bindings' = bindings
      BY <1>8, <2>2 DEF AttachModule
    <3>2. /\ DOMAIN m.tables \subseteq Nat
          /\ \A i \in DOMAIN m.tables : m.tables[i] \in TableDecls
      <4>1. m.tables \in Seq(TableDecls)
        BY ModulesAssumption DEF ModuleRecords
      <4>2. QED
        BY <4>1, LenProperties, ElementOfSeq
    <3>3. ASSUME NEW i \in DOMAIN m.tables, m.tables[i].name = NULL
          PROVE  /\ tables'[i] = Owned(i, Len(cells'[i]))
                 /\ tables'[i].size \in m.tables[i].initial .. m.tables[i].max
      <4>1. i \in Arrays /\ i \notin HostArrays
        BY <3>2, HostAssumption DEF OwnArrays, Arrays
      <4>2. OwnsTable(m, i)
        BY <3>3 DEF OwnsTable
      <4>3. m.tables[i].initial \in Nat /\ m.tables[i].max \in Nat
        BY <3>2 DEF TableDecls
      <4>4. m.tables[i].initial <= m.tables[i].max
        BY ModulesAssumption
      <4>5. cells'[i] = Zeroed(m.tables[i].initial)
        BY <3>1, <4>1, <4>2 DEF TypeOK
      <4>6. Len(Zeroed(m.tables[i].initial)) = m.tables[i].initial
        BY <4>3 DEF Zeroed
      <4>7. tables'[i] = Owned(i, m.tables[i].initial)
        BY <3>1, <4>2
      <4>8. QED
        BY <4>3, <4>4, <4>5, <4>6, <4>7 DEF Owned
    <3>4. ASSUME NEW i \in DOMAIN m.tables, m.tables[i].name # NULL
          PROVE  /\ bindings'[m.tables[i].name] # NULL
                 /\ tables'[i] = Viewed(bindings'[m.tables[i].name])
                 /\ tables'[i].size \in m.tables[i].initial .. m.tables[i].max
      <4> DEFINE b == bindings[m.tables[i].name]
      <4>1. ~ OwnsTable(m, i) /\ Provides(b, m.tables[i]) /\ tables'[i] = Viewed(b)
        BY <3>1, <3>4 DEF OwnsTable
      <4>2. /\ m.tables[i].initial \in Nat /\ m.tables[i].max \in Nat
            /\ m.tables[i].name \in Names
        BY <3>2, <3>4 DEF TableDecls
      <4>3. b \in Bindings
        BY <4>1, <4>2 DEF Provides, TypeOK
      <4>4. b.size \in Nat
        BY <4>3 DEF Bindings
      <4>5. b # NULL /\ b.size \in m.tables[i].initial .. m.tables[i].max
        BY <4>1, <4>2, <4>4 DEF Provides
      <4>6. tables'[i].size = b.size
        BY <4>1 DEF Viewed
      <4>7. bindings'[m.tables[i].name] = b
        BY <3>1
      <4> HIDE DEF b
      <4>8. QED
        BY <4>1, <4>5, <4>6, <4>7
    <3>5. DOMAIN tables' = DOMAIN m.tables
      BY <3>1
    <3>6. QED
      BY <3>1, <3>3, <3>4, <3>5 DEF TablesInForce
  <2>3. QED
    BY <2>1, <2>2
<1>9. CASE DetachModule
  BY <1>2, <1>9 DEF DetachModule, Emptied
<1>10. ASSUME NEW name \in Names, NEW a \in HostArrays, NEW n \in 0 .. Length[a],
              BindImportedTable(name, [data |-> a, size |-> n])
       PROVE  TablesInForce'
  <2> DEFINE b == [data |-> a, size |-> n]
  <2>1. /\ Accepted(name, b)
        /\ bindings' = [bindings EXCEPT ![name] = b]
        /\ tables' = [i \in DOMAIN tables |->
                        IF i \in Asking(name) THEN Viewed(b) ELSE tables[i]]
        /\ module' = module /\ cells' = cells
    BY <1>10 DEF BindImportedTable
  <2>2. NULL \notin Names
    BY NullAssumption
  <2>3. ASSUME NEW t \in DOMAIN tables, t \in Asking(name)
        PROVE  /\ module'.tables[t].name # NULL /\ bindings'[module'.tables[t].name] # NULL
               /\ tables'[t] = Viewed(bindings'[module'.tables[t].name])
               /\ tables'[t].size \in module'.tables[t].initial .. module'.tables[t].max
    <3>1. module.tables[t].name = name /\ name # NULL
      BY <2>2, <2>3 DEF Asking
    <3>2. bindings'[name] = b
      BY <2>1 DEF TypeOK
    <3>3. Provides(b, module.tables[t])
      BY <2>1, <2>3 DEF Accepted
    <3>4. tables'[t] = Viewed(b)
      BY <2>1, <2>3
    <3>5. module.tables[t].initial \in Nat /\ module.tables[t].max \in Nat
      BY <1>decls DEF TableDecls
    <3>6. n \in Nat /\ b.size = n
      BY LengthAssumption
    <3>7. n \in module.tables[t].initial .. module.tables[t].max /\ b # NULL
      BY <3>3, <3>5, <3>6 DEF Provides
    <3>8. tables'[t].size = n
      BY <3>4 DEF Viewed
    <3> HIDE DEF b
    <3>9. QED
      BY <2>1, <3>1, <3>2, <3>4, <3>7, <3>8
  <2>4. ASSUME NEW t \in DOMAIN tables, t \notin Asking(name)
        PROVE  /\ module' = module /\ cells' = cells /\ tables'[t] = tables[t]
               /\ bindings'[module.tables[t].name] = bindings[module.tables[t].name]
    <3>1. module.tables[t].name # name
      BY <2>4 DEF Asking
    <3>2. QED
      BY <2>1, <2>4, <3>1 DEF TypeOK
  <2>5. DOMAIN tables' = DOMAIN tables
    BY <2>1
  <2>6. QED
    BY <2>3, <2>4, <2>5 DEF TablesInForce
<1>11. ASSUME NEW a \in HostArrays, NEW i \in Indices, NEW r \in Refs, HostWrites(a, i, r)
       PROVE  TablesInForce'
  <2>1. \A x \in HostArrays : Len(cells'[x]) = Len(cells[x])
    BY DEF TypeOK
  <2>2. \A x \in Arrays : x # a => cells'[x] = cells[x]
    BY <1>11 DEF HostWrites, TypeOK
  <2>3. \A t \in DOMAIN tables : Len(cells'[tables[t].data]) = Len(cells[tables[t].data])
    BY <2>1, <2>2, TablesType
  <2>4. QED
    BY <1>1, <1>11, <2>3 DEF HostWrites
<1>12. CASE UNCHANGED <<module, tables, cells, bindings>>
  BY <1>1, <1>12
<1>13. CASE Embedder
  <2>1. ASSUME NEW i \in DOMAIN globals, NEW v \in Values,
               SetImportedGlobal(i, v) \/ SetImportedGlobalStarved(i, v)
        PROVE  UNCHANGED <<module, tables, cells, bindings>>
    BY <2>1 DEF SetImportedGlobal, SetImportedGlobalStarved, Evaluates, GlobalsLost
  <2>2. ASSUME NEW f \in DOMAIN traps, NEW enabled \in BOOLEAN, SetFunctionTrap(f, enabled)
        PROVE  UNCHANGED <<module, tables, cells, bindings>>
    BY <2>2 DEF SetFunctionTrap
  <2>3. ClearFunctionTraps => UNCHANGED <<module, tables, cells, bindings>>
    BY DEF ClearFunctionTraps
  <2>4. QED
    BY <1>8, <1>9, <1>10, <1>11, <1>12, <1>13, <2>1, <2>2, <2>3 DEF Embedder
<1>14. ASSUME NEW t \in DOMAIN tables, NEW delta \in Indices, NEW r \in Refs,
              TableGrow(t, delta, r)
       PROVE  TablesInForce'
  <2>1. CASE \E got : Gives(got)
    BY <1>12, <2>1 DEF Gives
  <2>2. CASE (delta = 0 \/ Growable(t, delta)) /\ Grown(t, delta, r)
    <3> DEFINE more == [j \in 1 .. delta |-> r]
               a == tables[t].data
    <3>1. delta \in Nat
      BY IndicesAssumption
    <3>2. more \in Seq(Refs) /\ Len(more) = delta
      <4>1. more \in [1 .. delta -> Refs]
        OBVIOUS
      <4>2. QED
        BY <3>1, <4>1, FunctionIsSeq
    <3>3. /\ tables[t] \in [data : Arrays, size : Nat, owns : BOOLEAN]
          /\ cells[a] \in Seq(Refs) /\ Len(cells[a]) \in Nat
      BY TablesType
    <3>4. /\ cells' = [cells EXCEPT ![a] = cells[a] \o more]
          /\ tables' = [tables EXCEPT ![t].size = tables[t].size + delta]
          /\ UNCHANGED <<module, bindings>>
      BY <2>2 DEF Grown
    <3> HIDE DEF more
    <3>5. cells'[a] = cells[a] \o more /\ Len(cells'[a]) = Len(cells[a]) + delta
      <4>1. Len(cells[a] \o more) = Len(cells[a]) + delta
        BY <3>2, <3>3, ConcatProperties
      <4>2. QED
        BY <3>3, <3>4, <4>1 DEF TypeOK
    <3>6. /\ DOMAIN tables' = DOMAIN tables
          /\ \A u \in DOMAIN tables : u # t => tables'[u] = tables[u]
          /\ tables'[t] = [tables[t] EXCEPT !.size = tables[t].size + delta]
      BY <3>4
    <3>7. \A u \in DOMAIN tables : module.tables[u].name = NULL =>
            tables[u] = Owned(u, Len(cells[u])) /\ tables[u].data = u
      BY DEF TablesInForce, Owned
    <3>8. ASSUME NEW u \in DOMAIN tables, u # t, module.tables[u].name = NULL
          PROVE  cells'[u] = cells[u]
      <4>1. u \in Arrays
        BY <3>7, <3>8, TablesType
      <4>2. a # u
        <5>1. CASE module.tables[t].name = NULL
          BY <3>7, <3>8, <5>1
        <5>2. CASE module.tables[t].name # NULL
          <6>1. a \in HostArrays
            <7> DEFINE b == bindings[module.tables[t].name]
            <7>1. b # NULL /\ tables[t] = Viewed(b)
              BY <5>2 DEF TablesInForce
            <7>2. module.tables[t].name \in Names
              BY <1>decls, <5>2 DEF TableDecls
            <7>3. b \in Bindings
              BY <7>1, <7>2 DEF TypeOK
            <7>4. QED
              BY <7>1, <7>3 DEF Viewed, Bindings
          <6>2. u \notin HostArrays
            <7>1. DOMAIN tables = 1 .. Len(tables) /\ Len(tables) \in Nat
              BY LenProperties DEF TypeOK
            <7>2. u \in Nat
              BY <7>1
            <7>3. QED
              BY <7>2, HostAssumption
          <6>3. QED
            BY <6>1, <6>2
        <5>3. QED
          BY <5>1, <5>2
      <4>3. QED
        BY <3>4, <4>1, <4>2 DEF TypeOK
    <3>9. CASE module.tables[t].name = NULL
      <4>1. tables[t].size = Len(cells[a]) /\ a = t /\ tables[t].owns = TRUE
        BY <3>7, <3>9 DEF Owned
      <4>2. tables'[t] = Owned(t, Len(cells'[t]))
        <5>1. tables[t] = [data |-> t, size |-> Len(cells[t]), owns |-> TRUE]
          BY <3>7, <3>9 DEF Owned
        <5>2. tables'[t] = [data |-> t, size |-> Len(cells[t]) + delta, owns |-> TRUE]
          <6>1. ASSUME NEW d, NEW n, NEW m, NEW o
                PROVE  [[data |-> d, size |-> n, owns |-> o] EXCEPT !.size = m]
                         = [data |-> d, size |-> m, owns |-> o]
            OBVIOUS
          <6>2. tables[t].size = Len(cells[t])
            BY <4>1
          <6>3. tables'[t] = [[data |-> t, size |-> Len(cells[t]), owns |-> TRUE]
                               EXCEPT !.size = Len(cells[t]) + delta]
            BY <3>6, <5>1, <6>2, Zenon
          <6>4. QED
            BY <6>1, <6>3, Zenon
        <5>3. QED
          BY <3>5, <4>1, <5>2 DEF Owned
      <4>3. tables[t].size \in module.tables[t].initial .. module.tables[t].max
        BY <3>9 DEF TablesInForce
      <4>4. tables[t].size + delta \in module.tables[t].initial .. module.tables[t].max
        <5>1. module.tables[t].initial \in Nat /\ module.tables[t].max \in Nat
          BY <1>decls DEF TableDecls
        <5>2. delta = 0 \/ tables[t].size + delta <= module.tables[t].max
          BY <2>2 DEF Growable
        <5>3. QED
          BY <3>1, <4>3, <5>1, <5>2
      <4>5. tables'[t].size = tables[t].size + delta
        BY <3>3, <3>6
      <4>6. QED
        <5>1. ASSUME NEW u \in DOMAIN tables, u # t, module.tables[u].name = NULL
              PROVE  /\ tables'[u] = Owned(u, Len(cells'[u]))
                     /\ tables'[u].size \in module.tables[u].initial .. module.tables[u].max
          BY <3>6, <3>8, <5>1 DEF TablesInForce
        <5>2. ASSUME NEW u \in DOMAIN tables, u # t, module.tables[u].name # NULL
              PROVE  /\ bindings'[module.tables[u].name] # NULL
                     /\ tables'[u] = Viewed(bindings'[module.tables[u].name])
                     /\ tables'[u].size \in module.tables[u].initial .. module.tables[u].max
          BY <3>4, <3>6, <5>2 DEF TablesInForce
        <5>3. /\ tables'[t] = Owned(t, Len(cells'[t]))
              /\ tables'[t].size \in module.tables[t].initial .. module.tables[t].max
          BY <4>2, <4>4, <4>5
        <5>4. module' = module /\ DOMAIN tables' = DOMAIN tables
          BY <3>4, <3>6
        <5>5. QED
          BY <3>9, <5>1, <5>2, <5>3, <5>4 DEF TablesInForce
    <3>10. CASE module.tables[t].name # NULL
      <4>1. ~ tables[t].owns
        BY <3>10 DEF TablesInForce, Viewed
      <4>2. delta = 0
        BY <2>2, <4>1 DEF Growable
      <4>3. tables'[t] = tables[t]
        BY <3>3, <3>6, <4>2
      <4>4. \A u \in DOMAIN tables : tables'[u] = tables[u]
        BY <3>6, <4>3
      <4>5. ASSUME NEW u \in DOMAIN tables, module.tables[u].name = NULL
            PROVE  /\ tables'[u] = Owned(u, Len(cells'[u]))
                   /\ tables'[u].size \in module.tables[u].initial .. module.tables[u].max
        <5>1. u # t
          BY <3>10, <4>5
        <5>2. tables[u] = Owned(u, Len(cells[u]))
              /\ tables[u].size \in module.tables[u].initial .. module.tables[u].max
          BY <4>5 DEF TablesInForce
        <5>3. QED
          BY <3>8, <4>4, <4>5, <5>1, <5>2
      <4>6. ASSUME NEW u \in DOMAIN tables, module.tables[u].name # NULL
            PROVE  /\ bindings'[module.tables[u].name] # NULL
                   /\ tables'[u] = Viewed(bindings'[module.tables[u].name])
                   /\ tables'[u].size \in module.tables[u].initial .. module.tables[u].max
        BY <3>4, <4>4, <4>6 DEF TablesInForce
      <4>7. module' = module /\ DOMAIN tables' = DOMAIN tables
        BY <3>4, <3>6
      <4>8. QED
        BY <4>5, <4>6, <4>7 DEF TablesInForce
    <3>11. QED
      BY <3>9, <3>10
  <2>3. QED
    BY <1>14, <2>1, <2>2 DEF TableGrow
<1>15. CASE Program
  <2>1. ASSUME NEW t \in DOMAIN tables, NEW at, NEW n, NEW refs, Writes(Poked(t, at, n, refs))
        PROVE  TablesInForce'
    BY <1>1, <1>3, <2>1 DEF Writes
  <2>2. ASSUME NEW got, Gives(got) PROVE TablesInForce'
    BY <1>12, <2>2 DEF Gives
  <2>3. ASSUME NEW i \in DOMAIN module.globals, GlobalGet(i) PROVE TablesInForce'
    BY <2>2, <2>3 DEF GlobalGet
  <2>4. ASSUME NEW i \in DOMAIN module.globals, NEW v \in Values, GlobalSet(i, v)
        PROVE  TablesInForce'
    BY <1>12, <2>2, <2>4 DEF GlobalSet
  <2>5. ASSUME NEW t \in DOMAIN tables, TableSize(t) PROVE TablesInForce'
    BY <2>2, <2>5 DEF TableSize
  <2>6. ASSUME NEW t \in DOMAIN tables, NEW i \in Indices, TableGet(t, i) PROVE TablesInForce'
    BY <2>2, <2>6 DEF TableGet
  <2>7. ASSUME NEW t \in DOMAIN tables, NEW i \in Indices, NEW type, CallIndirect(t, i, type)
        PROVE  TablesInForce'
    BY <2>2, <2>7 DEF CallIndirect
  <2>8. ASSUME NEW t \in DOMAIN tables, NEW i \in Indices, NEW r \in Refs, TableSet(t, i, r)
        PROVE  TablesInForce'
    BY <2>1, <2>2, <2>8 DEF TableSet
  <2>9. ASSUME NEW t \in DOMAIN tables, NEW i \in Indices, NEW n \in Indices, NEW r \in Refs,
               TableFill(t, i, n, r)
        PROVE  TablesInForce'
    BY <2>1, <2>2, <2>9 DEF TableFill
  <2>10. ASSUME NEW t \in DOMAIN tables, NEW s \in DOMAIN tables,
                NEW dst \in Indices, NEW src \in Indices, NEW n \in Indices,
                TableCopy(t, s, dst, src, n)
         PROVE  TablesInForce'
    BY <2>1, <2>2, <2>10 DEF TableCopy
  <2>11. ASSUME NEW t \in DOMAIN tables, NEW k \in DOMAIN dropped,
                NEW dst \in Indices, NEW src \in Indices, NEW n \in Indices,
                TableInit(t, k, dst, src, n)
         PROVE  TablesInForce'
    <3> DEFINE refs == [j \in 1 .. n |-> Resolved(module.elements[k].inits[src + j],
                                                 module.elements[k].type)]
    <3>1. CASE Gives(Trapped)
      BY <2>2, <3>1
    <3>2. CASE \E done \in 0 .. n :
                 /\ cells' = Poked(t, dst, done, refs)
                 /\ UNCHANGED <<module, tables, dropped, globals, traps, bindings>>
      BY <1>1, <1>3, <3>2
    <3>3. QED
      BY <2>11, <3>1, <3>2 DEF TableInit
  <2>12. ASSUME NEW k \in DOMAIN dropped, ElemDrop(k) PROVE TablesInForce'
    BY <1>12, <2>12 DEF ElemDrop
  <2>13. QED
    BY <1>14, <1>15, <2>3, <2>4, <2>5, <2>6, <2>7, <2>8, <2>9, <2>10, <2>11, <2>12 DEF Program
<1>16. QED
  BY <1>4, <1>5, <1>6, <1>7, <1>13, <1>15 DEF Next

-----------------------------------------------------------------------------
(* The invariant by which the theorems are proved: the types hold because  *)
(* the lists are those of the module and only a table of the runtime's own *)
(* grows, and neither of the three is kept without the others.             *)
IInv == TypeOK /\ Shape /\ TablesInForce

(* Every state the runtime reaches satisfies the invariant, for any        *)
(* modules and any host.                                                   *)
THEOREM Invariance == Spec => []IInv
<1>1. Init => IInv
  <2> SUFFICES ASSUME Init PROVE IInv
    OBVIOUS
  <2>1. cells \in [Arrays -> Seq(Refs)] /\ \A a \in HostArrays : Len(cells[a]) = Length[a]
    <3>1. \A a \in HostArrays : Zeroed(Length[a]) \in Seq(Refs) /\ Len(Zeroed(Length[a])) = Length[a]
      <4>1. \A n \in Nat : Zeroed(n) \in [1 .. n -> Refs]
        BY RefsAssumption DEF Zeroed
      <4>2. \A n \in Nat : Zeroed(n) \in Seq(Refs) /\ Len(Zeroed(n)) = n
        BY <4>1, FunctionIsSeq
      <4>3. QED
        BY <4>2, LengthAssumption
    <3>2. <<>> \in Seq(Refs)
      OBVIOUS
    <3>3. cells = [a \in Arrays |-> IF a \in HostArrays THEN Zeroed(Length[a]) ELSE <<>>]
      BY DEF Init
    <3>4. QED
      BY <3>1, <3>2, <3>3 DEF Arrays
  <2>2. bindings \in [Names -> Bindings \cup {NULL}]
    BY DEF Init
  <2>3. TypeOK
    <3>1. /\ module = NULL /\ tables = <<>> /\ dropped = <<>> /\ globals = <<>>
          /\ traps = <<>>
      BY DEF Init
    <3>2. /\ tables \in Seq([data : Arrays, size : Nat, owns : BOOLEAN])
          /\ DOMAIN tables = {}
      BY <3>1
    <3>3. /\ dropped \in Seq(BOOLEAN) /\ globals \in Seq(Values \cup {NoValue})
          /\ traps \in Seq(BOOLEAN)
      BY <3>1
    <3>4. QED
      BY <2>1, <2>2, <3>1, <3>2, <3>3 DEF TypeOK
  <2>4. Shape
    BY DEF Init, Shape, Idle
  <2>5. TablesInForce
    <3>1. DOMAIN tables = {}
      BY DEF Init
    <3>2. QED
      BY <3>1 DEF TablesInForce
  <2>6. QED
    BY <2>3, <2>4, <2>5 DEF IInv
<1>2. IInv /\ [Next]_vars => IInv'
  <2> SUFFICES ASSUME IInv, [Next]_vars PROVE IInv'
    OBVIOUS
  <2>1. TypeOK /\ Shape /\ TablesInForce
    BY DEF IInv
  <2>2. ASSUME UNCHANGED <<module, tables, cells, dropped, globals, traps, bindings>>,
               op'.kind \in {"idle", "answered"}
        PROVE  TypeOK' /\ Shape'
    <3>1. TypeOK'
      BY <2>1, <2>2 DEF TypeOK
    <3>2. Shape'
      BY <2>1, <2>2 DEF Shape
    <3>3. QED
      BY <3>1, <3>2
  <2>3. ASSUME Settle PROVE TypeOK' /\ Shape'
    <3>1. /\ op' = [kind |-> "idle"]
          /\ UNCHANGED <<module, tables, cells, dropped, globals, traps, bindings>>
      BY <2>3 DEF Settle, Idle
    <3>2. op'.kind \in {"idle", "answered"}
      BY <3>1
    <3>3. QED
      BY <2>2, <3>1, <3>2
  <2>4. ASSUME UNCHANGED vars PROVE TypeOK' /\ Shape'
    <3>1. TypeOK'
      BY <2>1, <2>4 DEF TypeOK, vars
    <3>2. Shape'
      <4>1. UNCHANGED <<module, tables, dropped, globals, traps, op>>
        BY <2>4 DEF vars
      <4>2. QED
        BY <2>1, <4>1, Zenon DEF Shape
    <3>3. QED
      BY <3>1, <3>2
  <2>5. TypeOK' /\ Shape'
    BY <2>1, <2>3, <2>4, AttachingType, EmbedderType, ProgramType DEF Next
  <2>6. TablesInForce'
    BY <2>1, <2>5, TablesStep
  <2>7. QED
    BY <2>5, <2>6 DEF IInv
<1>3. QED
  BY <1>1, <1>2, PTL DEF Spec

(* Every variable keeps its type: a table always has the cells its size    *)
(* says, and no array ever holds anything but references.                  *)
THEOREM TypeCorrect == Spec => []TypeOK
<1>1. IInv => TypeOK
  BY DEF IInv
<1>2. QED
  BY <1>1, Invariance, PTL

(* An imported table views what is bound under its name, within the limits *)
(* of every import of the name, and the runtime's own tables stay within   *)
(* theirs, each with an array of its own.                                  *)
THEOREM TablesCorrect == Spec => []TablesInForce
<1>1. IInv => TablesInForce
  BY DEF IInv
<1>2. QED
  BY <1>1, Invariance, PTL

-----------------------------------------------------------------------------
(* What is written into a table of functions is null, a function of the    *)
(* module or what some table held, unless the host writes it, and the      *)
(* program is given and calls only functions that exist.                   *)
THEOREM ReferencesCorrect == Spec => ReferencesChecked
<1> DEFINE HostStep == \E a \in HostArrays, i \in Indices, r \in Refs : HostWrites(a, i, r)
<1>1. ASSUME IInv, Next, ~ HostStep PROVE Sourced /\ Given
  <2>1. TypeOK /\ Shape /\ TablesInForce
    BY <1>1 DEF IInv
  <2>2. ASSUME op'.kind # "answered" PROVE Given
    BY <2>2 DEF Given
  <2>3. ASSUME NEW got, op' = Answer(got), got[1] \notin {"ref", "call"} PROVE Given
    BY <2>3 DEF Given, Answer
  <2>4. Trapped = Answer(<<"trap">>) /\ <<"trap">>[1] \notin {"ref", "call"}
    BY DEF Trapped
  <2>5. Done = Answer(<<"done">>) /\ <<"done">>[1] \notin {"ref", "call"}
    BY DEF Done
  <2>6. Attached = Answer(<<"attached">>) /\ <<"attached">>[1] \notin {"ref", "call"}
    BY DEF Attached
  <2>7. <<"refused">>[1] \notin {"ref", "call"}
    OBVIOUS
  <2>8. ASSUME cells' = cells PROVE Sourced
    BY <2>8 DEF Sourced, Changed
  <2>9. ASSUME NEW t \in DOMAIN tables, NEW at \in Nat, NEW n \in Nat, NEW refs,
               \A j \in 1 .. n : Sound(TypeOf(t), refs[j]) \/ Held(refs[j]),
               \/ cells' = Poked(t, at, n, refs)
               \/ cells' = HostsOnly(Poked(t, at, n, refs))
        PROVE  Sourced
    <3> DEFINE p == Poked(t, at, n, refs)
    <3>1. /\ DOMAIN p = DOMAIN cells /\ tables[t].data \in DOMAIN cells
          /\ \A a \in DOMAIN cells : a # tables[t].data => p[a] = cells[a]
          /\ p[tables[t].data] = Written(cells[tables[t].data], at, n, refs)
      BY <2>1, TablesType DEF Poked, TypeOK
    <3>2. SUFFICES ASSUME NEW a \in DOMAIN cells, NEW i \in DOMAIN cells'[a], Changed(a, i)
                   PROVE  \/ cells'[a][i] = 0 \/ SeenAs("externref", a)
                          \/ cells'[a][i] \in DOMAIN module.functions \/ Held(cells'[a][i])
      BY DEF Sourced
    <3> HIDE DEF p
    <3>3. cells'[a] = p[a]
      <4>1. CASE cells' = p
        BY <4>1
      <4>2. CASE cells' = HostsOnly(p)
        <5>1. cells'[a] = IF a \in HostArrays THEN p[a] ELSE <<>>
          BY <3>1, <4>2 DEF HostsOnly
        <5>2. DOMAIN cells'[a] # {}
          OBVIOUS
        <5>3. a \in HostArrays
          BY <5>1, <5>2
        <5>4. QED
          BY <5>1, <5>3
      <4>3. QED
        BY <2>9, <4>1, <4>2 DEF p
    <3>4. a = tables[t].data
      BY <3>1, <3>2, <3>3 DEF Changed
    <3>5. /\ i \in DOMAIN cells[a] /\ i \in at + 1 .. at + n
          /\ cells'[a][i] = refs[i - at]
      BY <3>1, <3>2, <3>3, <3>4 DEF Changed, Written
    <3>6. i - at \in 1 .. n
      <4>1. DOMAIN cells[a] = 1 .. Len(cells[a])
        BY <2>1, <3>4, TablesType
      <4>2. i \in Int
        BY <3>5
      <4>3. QED
        BY <3>5, <4>2
    <3>7. CASE Held(refs[i - at])
      BY <3>5, <3>7
    <3>8. CASE Sound(TypeOf(t), refs[i - at])
      <4>1. TypeOf(t) \in RefTypes
        <5>1. module # NULL
          BY <2>1 DEF Shape
        <5>2. module.tables \in Seq(TableDecls) /\ Len(tables) = Len(module.tables)
          BY <2>1, <5>1, ModulesAssumption DEF TypeOK, Shape, ModuleRecords
        <5>3. DOMAIN tables = DOMAIN module.tables
          BY <2>1, <5>2, LenProperties DEF TypeOK
        <5>4. module.tables[t] \in TableDecls
          BY <5>2, <5>3, LenProperties, ElementOfSeq
        <5>5. QED
          BY <5>4 DEF TypeOf, TableDecls
      <4>2. CASE TypeOf(t) = "externref"
        BY <3>4, <4>2 DEF SeenAs
      <4>3. CASE TypeOf(t) = "funcref"
        BY <3>5, <3>8, <4>3 DEF Sound
      <4>4. QED
        BY <4>1, <4>2, <4>3 DEF RefTypes
    <3>9. QED
      BY <2>9, <3>6, <3>7, <3>8
  <2>10. ASSUME NEW end, Emptied(cells, end) PROVE Sourced
    <3>1. \A a \in DOMAIN cells : cells'[a] = cells[a] \/ cells'[a] = <<>>
      BY <2>10 DEF Emptied, HostsOnly
    <3>2. QED
      BY <3>1 DEF Sourced, Changed
  <2>11. ASSUME NEW c, Refused(c) PROVE Given
    BY <2>3, <2>7, <2>11 DEF Refused, Emptied
  <2>12. CASE SkipSegment \/ DeclareSegment \/ Evaluates(Cleared, TRUE)
    <3>1. cells' = cells /\ op'.kind # "answered"
      <4>1. CASE Evaluates(Cleared, TRUE)
        BY <4>1 DEF Evaluates
      <4>2. CASE SkipSegment \/ DeclareSegment
        <5>1. op = [kind |-> "segments", at |-> op.at] /\ op' = [op EXCEPT !.at = @ + 1]
          BY <2>1, <4>2 DEF SkipSegment, DeclareSegment, Placing, NextSegment, Shape
        <5>2. op'.kind = "segments"
          BY <5>1
        <5>3. QED
          BY <4>2, <5>2 DEF SkipSegment, DeclareSegment
      <4>3. QED
        BY <2>12, <4>1, <4>2
    <3>2. QED
      BY <2>2, <2>8, <3>1
  <2>13. CASE ApplySegment
    <3> DEFINE s == module.elements[op.at]
               refs == References(s)
    <3>1. module # NULL /\ op.kind = "segments" /\ op.at \in DOMAIN module.elements
      <4>1. op.kind = "segments" /\ op.at <= Len(module.elements)
        BY <2>13 DEF ApplySegment, Placing
      <4>2. module # NULL /\ op.at \in Nat \ {0}
        BY <2>1, <4>1 DEF Shape, Steps
      <4>3. module.elements \in Seq(Segments)
        BY <2>1, <4>2, ModulesAssumption DEF TypeOK, ModuleRecords
      <4>4. QED
        BY <4>1, <4>2, <4>3, LenProperties
    <3>2. s \in Segments
      <4>1. module.elements \in Seq(Segments)
        BY <2>1, <3>1, ModulesAssumption DEF TypeOK, ModuleRecords
      <4>2. QED
        BY <3>1, <4>1, LenProperties, ElementOfSeq
    <3>3. s.offset \in Nat /\ Len(s.inits) \in Nat /\ DOMAIN s.inits = 1 .. Len(s.inits)
      BY <3>2, LenProperties DEF Segments
    <3>4. Len(refs) = Len(s.inits)
      <4>1. refs \in [1 .. Len(s.inits) -> {refs[j] : j \in 1 .. Len(s.inits)}]
        BY <3>3 DEF References
      <4>2. QED
        BY <3>3, <4>1, FunctionIsSeq
    <3>5. ASSUME NEW n \in 0 .. Len(refs), Fits(s), Leads(refs, n),
                 \/ cells' = Poked(s.table, s.offset, n, refs)
                 \/ cells' = HostsOnly(Poked(s.table, s.offset, n, refs))
          PROVE  Sourced
      <4>1. s.table \in DOMAIN tables /\ s.type = TypeOf(s.table) /\ n \in Nat
        BY <3>3, <3>4, <3>5 DEF Fits
      <4>2. ASSUME NEW j \in 1 .. n PROVE Sound(TypeOf(s.table), refs[j])
        <5>1. j \in DOMAIN s.inits /\ refs[j] # Unresolved
          BY <3>3, <3>4, <3>5 DEF Leads
        <5>2. refs[j] = Resolved(s.inits[j], s.type)
          BY <5>1 DEF References
        <5>3. QED
          BY <2>1, <3>1, <4>1, <5>1, <5>2, ResolvedType
      <4> HIDE DEF refs, s
      <4>3. QED
        BY <2>9, <3>3, <3>5, <4>1, <4>2
    <3>6. CASE Refused(cells)
      BY <2>10, <2>11, <3>6 DEF Refused
    <3>7. CASE \E n \in 0 .. Len(refs) : /\ Fits(s) /\ Leads(refs, n)
                                        /\ Refused(Poked(s.table, s.offset, n, refs))
      <4>1. PICK n \in 0 .. Len(refs) : /\ Fits(s) /\ Leads(refs, n)
                                       /\ Refused(Poked(s.table, s.offset, n, refs))
        BY <3>7
      <4>2. cells' = HostsOnly(Poked(s.table, s.offset, n, refs))
        BY <4>1 DEF Refused, Emptied
      <4> HIDE DEF refs, s
      <4>3. QED
        BY <2>11, <3>5, <4>1, <4>2
    <3>8. CASE /\ \E n \in 0 .. Len(refs) : /\ Fits(s) /\ Leads(refs, n)
                                            /\ cells' = Poked(s.table, s.offset, n, refs)
               /\ NextSegment
      <4>1. op'.kind = "segments"
        <5>1. op = [kind |-> "segments", at |-> op.at] /\ op' = [op EXCEPT !.at = @ + 1]
          BY <2>1, <3>1, <3>8 DEF NextSegment, Shape
        <5>2. QED
          BY <5>1
      <4>2. Sourced
        BY <3>5, <3>8
      <4>3. QED
        BY <2>2, <4>1, <4>2
    <3>9. QED
      BY <2>13, <3>6, <3>7, <3>8 DEF ApplySegment
  <2>14. CASE InitGlobal
    <3>1. CASE Refused(cells)
      BY <2>10, <2>11, <3>1 DEF Refused
    <3>2. CASE cells' = cells /\ op' = Trapped
      BY <2>3, <2>4, <2>8, <3>2
    <3>3. CASE cells' = cells /\ op' = [op EXCEPT !.at = @ + 1]
      <4>1. op = [kind |-> "globals", at |-> op.at, kept |-> op.kept, attaching |-> op.attaching]
        BY <2>1, <2>14 DEF InitGlobal, Shape
      <4>2. op'.kind = "globals"
        BY <3>3, <4>1
      <4>3. QED
        BY <2>2, <2>8, <3>3, <4>2
    <3>4. QED
      BY <2>14, <3>1, <3>2, <3>3 DEF InitGlobal, GlobalsFail, GlobalsLost
  <2>15. CASE GlobalsSet
    BY <2>3, <2>5, <2>8, <2>15 DEF GlobalsSet
  <2>16. CASE FinishAttach
    <3>1. CASE Refused(cells)
      BY <2>10, <2>11, <3>1 DEF Refused
    <3>2. CASE cells' = cells /\ op' = Attached
      BY <2>3, <2>6, <2>8, <3>2
    <3>3. QED
      BY <2>16, <3>1, <3>2 DEF FinishAttach
  <2>17. CASE Settle
    BY <2>2, <2>8, <2>17 DEF Settle, Idle
  <2>18. CASE Embedder
    <3>1. ASSUME NEW m \in Modules, AttachModule(m) PROVE Sourced /\ Given
      <4>1. CASE Refused(cells)
        BY <2>10, <2>11, <4>1 DEF Refused
      <4>2. CASE ~ Refused(cells)
        <5>1. /\ op' = [kind |-> "segments", at |-> 1]
              /\ cells' = [a \in DOMAIN cells |->
                             IF a \in HostArrays THEN cells[a]
                             ELSE IF OwnsTable(m, a) THEN Zeroed(m.tables[a].initial)
                             ELSE <<>>]
          BY <3>1, <4>2 DEF AttachModule
        <5>2. \A a \in DOMAIN cells : \A i \in DOMAIN cells'[a] :
                cells'[a] = cells[a] \/ cells'[a][i] = 0
          BY <5>1 DEF Zeroed
        <5>3. Sourced
          BY <5>2 DEF Sourced, Changed
        <5>4. QED
          BY <2>2, <5>1, <5>3
      <4>3. QED
        BY <4>1, <4>2
    <3>2. CASE DetachModule
      BY <2>3, <2>5, <2>10, <3>2 DEF DetachModule, Emptied
    <3>3. ASSUME NEW name \in Names, NEW b, BindImportedTable(name, b) PROVE Sourced /\ Given
      BY <2>2, <2>8, <3>3 DEF BindImportedTable, Idle
    <3>4. ASSUME NEW i \in DOMAIN globals, NEW v \in Values,
                 SetImportedGlobal(i, v) \/ SetImportedGlobalStarved(i, v)
          PROVE  Sourced /\ Given
      <4>1. CASE Evaluates(Kept([globals EXCEPT ![i] = v]), FALSE)
        BY <2>2, <2>8, <4>1 DEF Evaluates
      <4>2. CASE GlobalsLost \/ SetImportedGlobalStarved(i, v)
        BY <2>3, <2>4, <2>8, <4>2 DEF GlobalsLost, SetImportedGlobalStarved
      <4>3. QED
        BY <3>4, <4>1, <4>2 DEF SetImportedGlobal
    <3>5. ASSUME NEW f \in DOMAIN traps, NEW enabled \in BOOLEAN, SetFunctionTrap(f, enabled)
          PROVE  Sourced /\ Given
      BY <2>2, <2>8, <3>5 DEF SetFunctionTrap, Idle
    <3>6. CASE ClearFunctionTraps
      BY <2>2, <2>8, <3>6 DEF ClearFunctionTraps, Idle
    <3>7. QED
      BY <1>1, <2>18, <3>1, <3>2, <3>3, <3>4, <3>5, <3>6 DEF Embedder
  <2>19. CASE Program
    <3>1. module # NULL
      BY <2>19 DEF Program, Running
    <3>2. ASSUME NEW got, Gives(Answer(got)), got[1] \notin {"ref", "call"}
          PROVE  Sourced /\ Given
      BY <2>3, <2>8, <3>2 DEF Gives
    <3>3. ASSUME Gives(Trapped) PROVE Sourced /\ Given
      BY <2>4, <3>2, <3>3
    <3>4. ASSUME NEW t \in DOMAIN tables, NEW at \in Nat, NEW n \in Nat, NEW refs,
                 \A j \in 1 .. n : Sound(TypeOf(t), refs[j]) \/ Held(refs[j]),
                 Writes(Poked(t, at, n, refs))
          PROVE  Sourced /\ Given
      BY <2>3, <2>5, <2>9, <3>4 DEF Writes
    <3>5. ASSUME NEW i \in DOMAIN module.globals, GlobalGet(i) PROVE Sourced /\ Given
      <4>1. \A x : <<"global", i, x>>[1] \notin {"ref", "call"}
        OBVIOUS
      <4>2. QED
        BY <3>2, <3>3, <3>5, <4>1 DEF GlobalGet
    <3>6. ASSUME NEW i \in DOMAIN module.globals, NEW v \in Values, GlobalSet(i, v)
          PROVE  Sourced /\ Given
      <4>1. CASE cells' = cells /\ op' = Done
        BY <2>3, <2>5, <2>8, <4>1
      <4>2. QED
        BY <3>3, <3>6, <4>1 DEF GlobalSet
    <3>7. ASSUME NEW t \in DOMAIN tables, TableSize(t) PROVE Sourced /\ Given
      <4>1. <<"size", t, tables[t].size>>[1] \notin {"ref", "call"}
        OBVIOUS
      <4>2. QED
        BY <3>2, <3>7, <4>1 DEF TableSize
    <3>8. ASSUME NEW t \in DOMAIN tables, NEW i \in Indices, TableGet(t, i)
          PROVE  Sourced /\ Given
      <4>1. CASE Gives(Trapped)
        BY <3>3, <4>1
      <4>2. CASE /\ Sound(TypeOf(t), Holds(t, i))
                 /\ Gives(Answer(<<"ref", t, Holds(t, i)>>))
        <5>1. op' = Answer(<<"ref", t, Holds(t, i)>>) /\ cells' = cells
          BY <4>2 DEF Gives
        <5>2. op'.got = <<"ref", t, Holds(t, i)>>
          BY <5>1 DEF Answer
        <5>3. op'.got[1] = "ref" /\ op'.got[2] = t /\ op'.got[3] = Holds(t, i)
          BY <5>2
        <5>4. Given
          BY <4>2, <5>3 DEF Given, Sound
        <5>5. QED
          BY <2>8, <5>1, <5>4
      <4>3. QED
        BY <3>8, <4>1, <4>2 DEF TableGet
    <3>9. ASSUME NEW t \in DOMAIN tables, NEW i \in Indices, NEW type, CallIndirect(t, i, type)
          PROVE  Sourced /\ Given
      <4>1. CASE Gives(Trapped)
        BY <3>3, <4>1
      <4>2. CASE /\ module.functions[Holds(t, i)] = type
                 /\ Gives(Answer(<<"call", type, Holds(t, i)>>))
        <5>1. op' = Answer(<<"call", type, Holds(t, i)>>) /\ cells' = cells
          BY <4>2 DEF Gives
        <5>2. op'.got = <<"call", type, Holds(t, i)>>
          BY <5>1 DEF Answer
        <5>3. op'.got[1] = "call" /\ op'.got[2] = type /\ op'.got[3] = Holds(t, i)
          BY <5>2
        <5>4. Given
          BY <4>2, <5>3 DEF Given
        <5>5. QED
          BY <2>8, <5>1, <5>4
      <4>3. QED
        BY <3>9, <4>1, <4>2 DEF CallIndirect
    <3>10. ASSUME NEW t \in DOMAIN tables, NEW i \in Indices, NEW r \in Refs, TableSet(t, i, r)
           PROVE  Sourced /\ Given
      <4>1. CASE Gives(Trapped)
        BY <3>3, <4>1
      <4>2. CASE Sound(TypeOf(t), r) /\ Writes(Poked(t, i, 1, <<r>>))
        <5>1. i \in Nat /\ 1 \in Nat /\ \A j \in 1 .. 1 : Sound(TypeOf(t), <<r>>[j])
          <6>1. \A j \in 1 .. 1 : <<r>>[j] = r
            OBVIOUS
          <6>2. i \in Nat /\ 1 \in Nat
            BY IndicesAssumption
          <6>3. QED
            BY <4>2, <6>1, <6>2
        <5>2. QED
          BY <3>4, <4>2, <5>1
      <4>3. QED
        BY <3>10, <4>1, <4>2 DEF TableSet, Settable
    <3>11. ASSUME NEW t \in DOMAIN tables, NEW i \in Indices, NEW n \in Indices, NEW r \in Refs,
                  TableFill(t, i, n, r)
           PROVE  Sourced /\ Given
      <4> DEFINE refs == [j \in 1 .. n |-> r]
      <4>1. CASE Gives(Trapped)
        BY <3>3, <4>1
      <4>2. CASE Sound(TypeOf(t), r) /\ Writes(Poked(t, i, n, refs))
        <5>1. i \in Nat /\ n \in Nat
          BY IndicesAssumption
        <5>2. \A j \in 1 .. n : Sound(TypeOf(t), refs[j])
          BY <4>2
        <5> HIDE DEF refs
        <5>3. QED
          BY <3>4, <4>2, <5>1, <5>2
      <4>3. QED
        BY <3>11, <4>1, <4>2 DEF TableFill, Fillable
    <3>12. ASSUME NEW t \in DOMAIN tables, NEW s \in DOMAIN tables,
                  NEW dst \in Indices, NEW src \in Indices, NEW n \in Indices,
                  TableCopy(t, s, dst, src, n)
           PROVE  Sourced /\ Given
      <4> DEFINE refs == [j \in 1 .. n |-> Holds(s, src + j - 1)]
      <4>1. CASE Gives(Trapped)
        BY <3>3, <4>1
      <4>2. CASE src + n <= tables[s].size /\ Writes(Poked(t, dst, n, refs))
        <5>1. dst \in Nat /\ src \in Nat /\ n \in Nat /\ tables[s].size \in Nat
          BY <2>1, IndicesAssumption, TablesType
        <5>2. ASSUME NEW j \in 1 .. n PROVE Held(refs[j])
          <6>1. src + j - 1 \in 0 .. tables[s].size - 1
            BY <4>2, <5>1
          <6>2. refs[j] = Holds(s, src + j - 1)
            OBVIOUS
          <6>3. QED
            BY <6>1, <6>2 DEF Held
        <5> HIDE DEF refs
        <5>3. QED
          BY <3>4, <4>2, <5>1, <5>2
      <4>3. QED
        BY <3>12, <4>1, <4>2 DEF TableCopy
    <3>13. ASSUME NEW t \in DOMAIN tables, NEW k \in DOMAIN dropped,
                  NEW dst \in Indices, NEW src \in Indices, NEW n \in Indices,
                  TableInit(t, k, dst, src, n)
           PROVE  Sourced /\ Given
      <4> DEFINE s == module.elements[k]
                 refs == [j \in 1 .. n |-> Resolved(s.inits[src + j], s.type)]
      <4>1. CASE Gives(Trapped)
        BY <3>3, <4>1
      <4>2. CASE /\ src + n <= Len(s.inits) /\ s.type = TypeOf(t)
                 /\ \E done \in 0 .. n :
                      /\ Leads(refs, done)
                      /\ cells' = Poked(t, dst, done, refs)
                      /\ op' = IF done = n THEN Done ELSE Trapped
        <5>1. PICK done \in 0 .. n :
                /\ Leads(refs, done)
                /\ cells' = Poked(t, dst, done, refs)
                /\ op' = IF done = n THEN Done ELSE Trapped
          BY <4>2
        <5>2. dst \in Nat /\ src \in Nat /\ n \in Nat /\ done \in Nat /\ done <= n
          BY IndicesAssumption
        <5>3. k \in DOMAIN module.elements /\ s.inits \in Seq(Inits)
          <6>1. module.elements \in Seq(Segments) /\ Len(dropped) = Len(module.elements)
            BY <2>1, <3>1, ModulesAssumption DEF TypeOK, Shape, ModuleRecords
          <6>2. DOMAIN dropped = DOMAIN module.elements
            BY <2>1, <6>1, LenProperties DEF TypeOK
          <6>3. s \in Segments
            BY <6>1, <6>2, LenProperties, ElementOfSeq
          <6>4. QED
            BY <6>2, <6>3 DEF Segments
        <5>4. ASSUME NEW j \in 1 .. done PROVE Sound(TypeOf(t), refs[j])
          <6>1. j \in 1 .. n /\ refs[j] # Unresolved
            <7>1. j \in 1 .. n
              BY <5>2
            <7> HIDE DEF refs
            <7>2. refs[j] # Unresolved
              BY <5>1 DEF Leads
            <7>3. QED
              BY <7>1, <7>2
          <6>2. DOMAIN s.inits = 1 .. Len(s.inits) /\ Len(s.inits) \in Nat
            BY <5>3, LenProperties
          <6>3. src + j \in DOMAIN s.inits
            <7>1. src \in Nat /\ n \in Nat /\ src + n <= Len(s.inits)
              BY <4>2, <5>2, <6>2
            <7> HIDE DEF s
            <7>2. src + j \in 1 .. Len(s.inits)
              BY <6>1, <6>2, <7>1
            <7>3. QED
              BY <6>2, <7>2
          <6>4. refs[j] = Resolved(s.inits[src + j], s.type)
            BY <6>1
          <6>5. QED
            BY <2>1, <3>1, <4>2, <5>3, <6>1, <6>3, <6>4, ResolvedType
        <5>5. Given
          BY <2>3, <2>4, <2>5, <5>1
        <5> HIDE DEF refs
        <5>6. Sourced
          BY <2>9, <5>1, <5>2, <5>4
        <5>7. QED
          BY <5>5, <5>6
      <4>3. QED
        BY <3>13, <4>1, <4>2 DEF TableInit
    <3>14. ASSUME NEW k \in DOMAIN dropped, ElemDrop(k) PROVE Sourced /\ Given
      BY <2>3, <2>5, <2>8, <3>14 DEF ElemDrop
    <3>15. ASSUME NEW t \in DOMAIN tables, NEW delta \in Indices, NEW r \in Refs,
                  TableGrow(t, delta, r)
           PROVE  Sourced /\ Given
      <4>1. CASE Gives(Trapped)
        BY <3>3, <4>1
      <4>2. CASE Gives(Answer(<<"grew", t, -1>>))
        <5>1. <<"grew", t, -1>>[1] \notin {"ref", "call"}
          OBVIOUS
        <5>2. QED
          BY <3>2, <4>2, <5>1
      <4>3. CASE Sound(TypeOf(t), r) /\ Grown(t, delta, r)
        <5> DEFINE more == [j \in 1 .. delta |-> r]
                   d == tables[t].data
        <5>1. delta \in Nat
          BY IndicesAssumption
        <5>2. more \in Seq(Refs) /\ Len(more) = delta /\ \A j \in 1 .. delta : more[j] = r
          <6>1. more \in [1 .. delta -> Refs]
            OBVIOUS
          <6>2. QED
            BY <5>1, <6>1, FunctionIsSeq
        <5>3. cells[d] \in Seq(Refs) /\ Len(cells[d]) \in Nat /\ d \in DOMAIN cells
              /\ DOMAIN cells[d] = 1 .. Len(cells[d])
          BY <2>1, TablesType DEF TypeOK
        <5>4. cells' = [cells EXCEPT ![d] = cells[d] \o more]
              /\ op' = Answer(<<"grew", t, tables[t].size>>)
          BY <4>3 DEF Grown
        <5> HIDE DEF more
        <5>5. /\ cells[d] \o more \in Seq(Refs)
              /\ Len(cells[d] \o more) = Len(cells[d]) + delta
              /\ \A i \in 1 .. Len(cells[d]) + delta :
                   (cells[d] \o more)[i] = IF i <= Len(cells[d]) THEN cells[d][i]
                                           ELSE more[i - Len(cells[d])]
          <6> DEFINE c == cells[d]
          <6>1. c \in Seq(Refs) /\ more \in Seq(Refs) /\ Len(more) = delta
            BY <5>2, <5>3
          <6> HIDE DEF c
          <6>2. /\ c \o more \in Seq(Refs) /\ Len(c \o more) = Len(c) + delta
                /\ \A i \in 1 .. Len(c) + delta :
                     (c \o more)[i] = IF i <= Len(c) THEN c[i] ELSE more[i - Len(c)]
            BY <6>1, ConcatProperties
          <6>3. QED
            BY <6>2 DEF c
        <5>6. ASSUME NEW a \in DOMAIN cells, NEW i \in DOMAIN cells'[a], Changed(a, i)
              PROVE  cells'[a][i] = r /\ a = d
          <6>1. a = d
            BY <5>4, <5>6 DEF Changed
          <6>2. cells'[a] = cells[d] \o more
            BY <5>3, <5>4, <6>1
          <6>3. i \in 1 .. Len(cells[d]) + delta
            BY <5>5, <6>2, LenProperties
          <6>4. ~ (i <= Len(cells[d]))
            BY <5>3, <5>5, <5>6, <6>1, <6>2, <6>3 DEF Changed
          <6>5. i - Len(cells[d]) \in 1 .. delta
            BY <5>1, <5>3, <6>3, <6>4
          <6>6. QED
            BY <5>2, <5>5, <6>1, <6>2, <6>3, <6>4, <6>5
        <5>7. TypeOf(t) = "externref" \/ r = 0 \/ r \in DOMAIN module.functions
          <6>1. TypeOf(t) \in RefTypes
            <7>1. module.tables \in Seq(TableDecls) /\ Len(tables) = Len(module.tables)
              BY <2>1, <3>1, ModulesAssumption DEF TypeOK, Shape, ModuleRecords
            <7>2. DOMAIN tables = DOMAIN module.tables
              BY <2>1, <7>1, LenProperties DEF TypeOK
            <7>3. module.tables[t] \in TableDecls
              BY <7>1, <7>2, LenProperties, ElementOfSeq
            <7>4. QED
              BY <7>3 DEF TypeOf, TableDecls
          <6>2. QED
            BY <4>3, <6>1 DEF Sound, RefTypes
        <5>8. Sourced
          BY <5>6, <5>7 DEF Sourced, SeenAs
        <5>9. <<"grew", t, tables[t].size>>[1] \notin {"ref", "call"}
          OBVIOUS
        <5>10. QED
          BY <2>3, <5>4, <5>8, <5>9
      <4>4. QED
        BY <3>15, <4>1, <4>2, <4>3 DEF TableGrow
    <3>16. QED
      BY <2>19, <3>5, <3>6, <3>7, <3>8, <3>9, <3>10, <3>11, <3>12, <3>13, <3>14, <3>15 DEF Program
  <2>20. CASE StartGlobals
    <3>1. CASE Refused(cells)
      BY <2>10, <2>11, <3>1 DEF Refused
    <3>2. QED
      BY <2>12, <2>20, <3>1 DEF StartGlobals
  <2>21. QED
    BY <1>1, <2>12, <2>13, <2>14, <2>15, <2>16, <2>17, <2>18, <2>19, <2>20 DEF Next
<1>2. IInv /\ [Next]_vars => [HostStep \/ (Sourced /\ Given)]_vars
  BY <1>1
<1>3. QED
  BY <1>2, Invariance, PTL DEF Spec, ReferencesChecked

-----------------------------------------------------------------------------
(* While globals are set up, those done are as they have to be, read only  *)
(* from those before them, and what is kept of the old ones fits.          *)
Read(i) == /\ ~ module.globals[i].imported
           /\ module.globals[i].init.kind # "const"
EInv ==
  /\ op.kind # "globals" =>
       \A i \in DOMAIN globals : Read(i) => module.globals[i].init.kind = "get"
  /\ op.kind = "globals" =>
       \A i \in DOMAIN module.globals :
         /\ i < op.at =>
              /\ Follows(i)
              /\ Read(i) => /\ module.globals[i].init.kind = "get"
                            /\ module.globals[i].init.of < i
         /\ op.kept[i] # NoValue => Matches(op.kept[i], module.globals[i].type)

(* What a step has to show.                                                *)
Starved == \E i \in DOMAIN globals, v \in Values : SetImportedGlobalStarved(i, v)
Agreed == EInv' /\ (GlobalsAgree => GlobalsAgree' \/ Starved)

(* An immutable global has the value its initialiser gives now, also after *)
(* the embedder has set the imported one it is read from: each evaluation  *)
(* that is completed makes it so, and only a setting that runs out of      *)
(* memory once the value is written takes it away.                         *)
THEOREM GlobalsCorrect == Spec => GlobalsFollow
<1>1. Init => EInv
  BY DEF Init, EInv, Idle
<1>2. IInv /\ IInv' /\ EInv /\ [Next]_vars => Agreed
  <2> SUFFICES ASSUME IInv, IInv', EInv, [Next]_vars PROVE Agreed
    OBVIOUS
  <2>1. TypeOK /\ Shape /\ Shape'
    BY DEF IInv
  <2>2. ASSUME globals' = <<>>, op'.kind # "globals" PROVE Agreed
    <3>1. DOMAIN globals' = {}
      BY <2>2
    <3>2. EInv' /\ GlobalsAgree'
      BY <2>2, <3>1 DEF EInv, GlobalsAgree
    <3>3. QED
      BY <3>2 DEF Agreed
  <2>3. ASSUME UNCHANGED <<module, globals>>, op.kind # "globals", op'.kind # "globals"
        PROVE  Agreed
    <3>1. EInv'
      BY <2>3 DEF EInv, Read
    <3>2. GlobalsAgree => GlobalsAgree'
      BY <2>3 DEF GlobalsAgree, Follows, Sound
    <3>3. QED
      BY <3>1, <3>2 DEF Agreed
  <2>4. ASSUME NEW c, Refused(c) PROVE Agreed
    BY <2>2, <2>4 DEF Refused, Emptied, Answer
  <2>5. ASSUME op.kind \in {"segments", "globals"}
        PROVE  /\ module \in Modules /\ module.globals \in Seq(Globals)
               /\ Len(module.globals) \in Nat
               /\ DOMAIN module.globals = 1 .. Len(module.globals)
               /\ op.kind = "globals" => DOMAIN globals = DOMAIN module.globals
    <3>1. module \in Modules
      BY <2>1, <2>5 DEF Shape, TypeOK
    <3>2. module.globals \in Seq(Globals)
      BY <3>1, ModulesAssumption DEF ModuleRecords
    <3>3. /\ Len(module.globals) \in Nat /\ DOMAIN module.globals = 1 .. Len(module.globals)
          /\ DOMAIN globals = 1 .. Len(globals)
      BY <2>1, <3>2, LenProperties DEF TypeOK
    <3>4. op.kind = "globals" => Len(globals) = Len(module.globals)
      BY <2>1 DEF Shape
    <3>5. QED
      BY <3>1, <3>2, <3>3, <3>4
  <2>6. CASE UNCHANGED vars
    <3>1. EInv'
      BY <2>6 DEF vars, EInv, Follows, Sound, Read
    <3>2. GlobalsAgree => GlobalsAgree'
      BY <2>6 DEF vars, GlobalsAgree, Follows, Sound
    <3>3. QED
      BY <3>1, <3>2 DEF Agreed
  <2>7. CASE SkipSegment \/ DeclareSegment
    <3>1. op.kind = "segments" /\ op = [kind |-> "segments", at |-> op.at]
      BY <2>1, <2>7 DEF SkipSegment, DeclareSegment, Placing, Shape
    <3>2. op' = [op EXCEPT !.at = @ + 1]
      BY <2>7 DEF SkipSegment, DeclareSegment, NextSegment
    <3>3. op'.kind = "segments"
      BY <3>1, <3>2
    <3>4. QED
      BY <2>3, <2>7, <3>1, <3>3 DEF SkipSegment, DeclareSegment
  <2>8. CASE ApplySegment
    <3>1. CASE \E c : Refused(c)
      BY <2>4, <3>1
    <3>2. CASE NextSegment /\ UNCHANGED <<module, globals>>
      <4>1. op.kind = "segments" /\ op = [kind |-> "segments", at |-> op.at]
        BY <2>1, <2>8 DEF ApplySegment, Placing, Shape
      <4>2. op'.kind = "segments"
        BY <3>2, <4>1 DEF NextSegment
      <4>3. QED
        BY <2>3, <3>2, <4>1, <4>2
    <3>3. QED
      BY <2>8, <3>1, <3>2 DEF ApplySegment
  <2>9. ASSUME NEW kept, NEW attaching,
               op' = [kind |-> "globals", at |-> 1, kept |-> kept, attaching |-> attaching],
               module' = module, DOMAIN module.globals \subseteq Nat \ {0},
               \A i \in DOMAIN module.globals :
                 kept[i] # NoValue => Matches(kept[i], module.globals[i].type)
        PROVE  Agreed
    <3>1. op'.kind = "globals" /\ op'.at = 1 /\ op'.kept = kept
      BY <2>9
    <3>2. \A i \in DOMAIN module.globals : ~ (i < 1)
      BY <2>9
    <3>3. EInv' /\ GlobalsAgree'
      BY <2>9, <3>1, <3>2 DEF EInv, GlobalsAgree
    <3>4. QED
      BY <3>3 DEF Agreed
  <2>10. CASE StartGlobals
    <3>1. DOMAIN module.globals \subseteq Nat \ {0}
      BY <2>5, <2>10 DEF StartGlobals
    <3>2. CASE Refused(cells)
      BY <2>4, <3>2
    <3>3. CASE Evaluates(Cleared, TRUE)
      <4>1. /\ op' = [kind |-> "globals", at |-> 1, kept |-> Cleared, attaching |-> TRUE]
            /\ module' = module
        BY <3>3 DEF Evaluates
      <4>2. \A i \in DOMAIN module.globals : Cleared[i] = NoValue
        BY DEF Cleared
      <4>3. QED
        BY <2>9, <3>1, <4>1, <4>2
    <3>4. QED
      BY <2>10, <3>2, <3>3 DEF StartGlobals
  <2>11. CASE InitGlobal
    <3> DEFINE g == module.globals[op.at]
               v == Initialised(g, op.at)
    <3>1. op.kind = "globals" /\ op.at \in DOMAIN module.globals /\ op.at \in DOMAIN globals
          /\ DOMAIN globals = DOMAIN module.globals /\ module \in Modules
          /\ DOMAIN module.globals \subseteq Nat
      <4>1. op.kind = "globals" /\ op.at <= Len(module.globals) /\ op.at \in Nat \ {0}
        BY <2>1, <2>11 DEF InitGlobal, Shape, Steps
      <4>2. QED
        BY <2>5, <4>1
    <3>2. CASE GlobalsFail
      <4>1. CASE op.attaching
        BY <2>4, <3>2, <4>1 DEF GlobalsFail
      <4>2. CASE ~ op.attaching
        BY <2>2, <3>2, <4>2 DEF GlobalsFail, GlobalsLost, Trapped, Answer
      <4>3. QED
        BY <4>1, <4>2
    <3>3. CASE /\ v # NoValue /\ Sound(g.type, v.of)
               /\ globals' = [globals EXCEPT ![op.at] = v]
               /\ op' = [op EXCEPT !.at = @ + 1]
               /\ module' = module
      <4>1. /\ op = [kind |-> "globals", at |-> op.at, kept |-> op.kept,
                    attaching |-> op.attaching]
        BY <2>1, <3>1 DEF Shape
      <4>2. op'.kind = "globals" /\ op'.at = op.at + 1 /\ op'.kept = op.kept
        BY <3>3, <4>1
      <4>3. globals'[op.at] = v /\ \A i \in DOMAIN globals : i # op.at => globals'[i] = globals[i]
        BY <3>1, <3>3
      <4>4. ~ g.imported /\ g.init.kind # "const" =>
              g.init.kind = "get" /\ g.init.of < op.at /\ g.init.of \in DOMAIN globals
                /\ v = globals[g.init.of] /\ module.globals[g.init.of].type = g.type
        <5>1. g.init.kind = "get" => g.init.of \in DOMAIN module.globals
          BY <3>1, ModulesAssumption
        <5>2. QED
          BY <3>1, <3>3, <5>1 DEF Initialised
      <4>5. Matches(v, g.type)
        <5>1. CASE g.imported
          <6>1. op.kept[op.at] # NoValue => Matches(op.kept[op.at], g.type)
            BY <3>1 DEF EInv
          <6>2. Matches(Default(g.type), g.type)
            BY DEF Matches, Default, Number, Reference
          <6>3. QED
            BY <5>1, <6>1, <6>2 DEF Initialised
        <5>2. CASE ~ g.imported /\ g.init.kind = "const"
          <6>1. g.type = "i32"
            BY <3>1, <5>2, ModulesAssumption
          <6>2. v = Number(g.init.of)
            BY <5>2 DEF Initialised
          <6>3. QED
            BY <6>1, <6>2 DEF Matches, Number
        <5>3. CASE ~ g.imported /\ g.init.kind # "const"
          <6>1. Follows(g.init.of)
            BY <3>1, <4>4, <5>3 DEF EInv
          <6>2. QED
            BY <4>4, <5>3, <6>1 DEF Follows
        <5>4. QED
          BY <5>1, <5>2, <5>3
      <4>6. ASSUME NEW i \in DOMAIN module.globals, i = op.at PROVE Follows(i)'
        <5>1. Matches(globals'[op.at], g.type) /\ Sound(g.type, globals'[op.at].of)
          BY <3>3, <4>3, <4>5
        <5>2. ~ g.imported =>
                globals'[op.at] = IF g.init.kind = "const" THEN Number(g.init.of)
                                  ELSE globals'[g.init.of]
          <6>1. CASE g.init.kind = "const"
            BY <4>3, <6>1 DEF Initialised
          <6>2. CASE g.init.kind # "const"
            <7>1. SUFFICES ASSUME ~ g.imported PROVE globals'[op.at] = globals'[g.init.of]
              BY <6>2
            <7>2. g.init.of # op.at
              BY <3>1, <4>4, <6>2, <7>1
            <7>3. QED
              BY <4>3, <4>4, <6>2, <7>1, <7>2
          <6>3. QED
            BY <6>1, <6>2
        <5>3. QED
          BY <3>3, <4>6, <5>1, <5>2 DEF Follows, Sound
      <4>7. ASSUME NEW i \in DOMAIN module.globals, i < op.at PROVE Follows(i)'
        <5> DEFINE h == module.globals[i]
        <5>1. /\ Follows(i)
              /\ ~ h.imported /\ h.init.kind # "const" => h.init.of < i
          BY <3>1, <4>7 DEF EInv, Read
        <5>2. globals'[i] = globals[i]
          BY <3>1, <4>3, <4>7
        <5>3. ~ h.imported /\ h.init.kind # "const" /\ ~ h.mutable =>
                globals'[h.init.of] = globals[h.init.of]
          <6>1. SUFFICES ASSUME ~ h.imported, h.init.kind # "const"
                         PROVE  globals'[h.init.of] = globals[h.init.of]
            OBVIOUS
          <6>2. h.init.of # op.at
            <7>1. i \in Nat /\ op.at \in Nat
              BY <3>1
            <7>2. h.init.of < i
              BY <5>1, <6>1
            <7>3. QED
              BY <4>7, <7>1, <7>2
          <6>3. QED
            BY <3>3, <6>2
        <5>4. QED
          BY <3>3, <5>1, <5>2, <5>3 DEF Follows, Sound
      <4>8. ASSUME NEW i \in DOMAIN module.globals, i < op.at + 1
            PROVE  /\ Follows(i)'
                   /\ Read(i) => /\ module.globals[i].init.kind = "get"
                                 /\ module.globals[i].init.of < i
        <5>1. i \in Nat /\ op.at \in Nat
          BY <3>1
        <5>2. CASE i < op.at
          <6>1. Read(i) => /\ module.globals[i].init.kind = "get"
                           /\ module.globals[i].init.of < i
            BY <3>1, <5>2 DEF EInv
          <6>2. QED
            BY <4>7, <5>2, <6>1
        <5>3. CASE i = op.at
          BY <4>4, <4>6, <5>3 DEF Read
        <5>4. QED
          BY <4>8, <5>1, <5>2, <5>3
      <4>9. \A i \in DOMAIN module.globals :
              op.kept[i] # NoValue => Matches(op.kept[i], module.globals[i].type)
        BY <3>1 DEF EInv
      <4>10. EInv' /\ GlobalsAgree'
        BY <3>3, <4>2, <4>8, <4>9 DEF EInv, GlobalsAgree, Read
      <4>11. QED
        BY <4>10 DEF Agreed
    <3>4. QED
      BY <2>11, <3>2, <3>3 DEF InitGlobal
  <2>12. ASSUME UNCHANGED <<module, globals>>, op.kind = "globals",
                op.at > Len(module.globals), op'.kind = "answered"
         PROVE  Agreed
    <3>1. DOMAIN globals = DOMAIN module.globals /\ DOMAIN module.globals = 1 .. Len(module.globals)
          /\ Len(module.globals) \in Nat
      BY <2>5, <2>12
    <3>2. op.at \in Nat
      BY <2>1, <2>12 DEF Shape, Steps
    <3>3. \A i \in DOMAIN globals : i < op.at
      BY <2>12, <3>1, <3>2
    <3>4. \A i \in DOMAIN globals : Follows(i)
      BY <2>12, <3>1, <3>3 DEF EInv
    <3>5. \A i \in DOMAIN globals' : Follows(i)'
      BY <2>12, <3>4 DEF Follows, Sound
    <3>6. \A i \in DOMAIN globals' : (Read(i) => module.globals[i].init.kind = "get")'
      BY <2>12, <3>1, <3>3 DEF EInv, Read
    <3>7. EInv' /\ GlobalsAgree'
      BY <2>12, <3>5, <3>6 DEF EInv, GlobalsAgree
    <3>8. QED
      BY <3>7 DEF Agreed
  <2>13. CASE GlobalsSet
    BY <2>12, <2>13 DEF GlobalsSet, Done, Answer
  <2>14. CASE FinishAttach
    <3>1. CASE Refused(cells)
      BY <2>4, <3>1
    <3>2. CASE op' = Attached /\ UNCHANGED <<module, globals>>
      BY <2>12, <2>14, <3>2 DEF FinishAttach, Attached, Answer
    <3>3. QED
      BY <2>14, <3>1, <3>2 DEF FinishAttach
  <2>15. CASE Settle
    BY <2>3, <2>15 DEF Settle, Idle
  <2>16. CASE Embedder
    <3>1. ASSUME NEW m \in Modules, AttachModule(m) PROVE Agreed
      <4>1. CASE Refused(cells)
        BY <2>4, <4>1
      <4>2. CASE globals' = <<>> /\ op' = [kind |-> "segments", at |-> 1]
        BY <2>2, <4>2
      <4>3. QED
        BY <3>1, <4>1, <4>2 DEF AttachModule
    <3>2. CASE DetachModule
      BY <2>2, <3>2 DEF DetachModule, Emptied, Done, Answer
    <3>3. ASSUME op = Idle, UNCHANGED <<module, globals, op>> PROVE Agreed
      BY <2>3, <3>3 DEF Idle
    <3>4. ASSUME NEW i \in DOMAIN globals, NEW v \in Values, SetImportedGlobal(i, v) PROVE Agreed
      <4> DEFINE kept == Kept([globals EXCEPT ![i] = v])
      <4>1. DOMAIN globals = DOMAIN module.globals /\ DOMAIN module.globals \subseteq Nat \ {0}
        <5>1. globals # <<>>
          OBVIOUS
        <5>2. module # NULL /\ Len(globals) = Len(module.globals)
          BY <2>1, <5>1 DEF Shape
        <5>3. module.globals \in Seq(Globals)
          BY <2>1, <5>2, ModulesAssumption DEF TypeOK, ModuleRecords
        <5>4. /\ DOMAIN globals = 1 .. Len(globals) /\ Len(globals) \in Nat
              /\ DOMAIN module.globals = 1 .. Len(module.globals)
          BY <2>1, <5>3, LenProperties DEF TypeOK
        <5>5. QED
          BY <5>2, <5>4
      <4>2. \A j \in DOMAIN module.globals :
              kept[j] # NoValue => Matches(kept[j], module.globals[j].type)
        BY <4>1 DEF Kept
      <4> HIDE DEF kept
      <4>3. CASE Evaluates(kept, FALSE)
        <5>1. /\ op' = [kind |-> "globals", at |-> 1, kept |-> kept, attaching |-> FALSE]
              /\ module' = module
          BY <4>3 DEF Evaluates
        <5>2. QED
          BY <2>9, <4>1, <4>2, <5>1
      <4>4. CASE GlobalsLost
        BY <2>2, <4>4 DEF GlobalsLost, Trapped, Answer
      <4>5. QED
        BY <3>4, <4>3, <4>4 DEF SetImportedGlobal, kept
    <3>6. ASSUME NEW i \in DOMAIN globals, NEW v \in Values, SetImportedGlobalStarved(i, v)
          PROVE  Agreed
      <4>1. op.kind # "globals"
        BY <3>6 DEF SetImportedGlobalStarved, Importable, Idle
      <4>2. /\ DOMAIN globals' = DOMAIN globals /\ op'.kind = "answered" /\ module' = module
        BY <3>6 DEF SetImportedGlobalStarved, Trapped, Answer
      <4>3. EInv'
        BY <4>1, <4>2 DEF EInv, Read
      <4>4. Starved
        BY <3>6 DEF Starved
      <4>5. QED
        BY <4>3, <4>4 DEF Agreed
    <3>5. QED
      BY <2>16, <3>1, <3>2, <3>3, <3>4, <3>6
         DEF Embedder, BindImportedTable, HostWrites, SetFunctionTrap, ClearFunctionTraps
  <2>17. CASE Program
    <3>1. op.kind = "idle" /\ module \in Modules
      BY <2>1, <2>17 DEF Program, Running, Idle, TypeOK
    <3>2. ASSUME UNCHANGED <<module, globals>>, op'.kind = "answered" PROVE Agreed
      BY <2>3, <3>1, <3>2
    <3>5. ASSUME NEW got, Gives(Answer(got)) PROVE Agreed
      BY <3>2, <3>5 DEF Gives, Answer
    <3>6. ASSUME Gives(Trapped) PROVE Agreed
      BY <3>5, <3>6 DEF Trapped
    <3>7. ASSUME NEW c, Writes(c) PROVE Agreed
      BY <3>2, <3>7 DEF Writes, Done, Answer
    <3>3. ASSUME NEW i \in DOMAIN module.globals, NEW v \in Values, GlobalSet(i, v) PROVE Agreed
      <4>1. CASE Gives(Trapped)
        BY <3>6, <4>1
      <4>2. CASE /\ i \in DOMAIN globals /\ module.globals[i].mutable
                 /\ Matches(v, module.globals[i].type)
                 /\ globals' = [globals EXCEPT ![i] = v] /\ op' = Done
                 /\ module' = module
        <5>1. GlobalsAgree => \A j \in DOMAIN globals : Follows(j)
          BY <3>1 DEF GlobalsAgree
        <5>2. \A j \in DOMAIN module.globals : module.globals[j].init.kind = "get" =>
                ~ module.globals[module.globals[j].init.of].mutable
          BY <3>1, ModulesAssumption
        <5>3. DOMAIN globals = DOMAIN module.globals
          <6>1. module # NULL /\ globals # <<>>
            BY <2>17, <4>2 DEF Program, Running
          <6>2. Len(globals) = Len(module.globals) /\ module.globals \in Seq(Globals)
            BY <2>1, <3>1, <6>1, ModulesAssumption DEF Shape, ModuleRecords
          <6>3. QED
            BY <2>1, <6>2, LenProperties DEF TypeOK
        <5>4. ASSUME GlobalsAgree, NEW j \in DOMAIN globals PROVE Follows(j)'
          <6>1. CASE j = i
            BY <4>2, <6>1 DEF Follows
          <6>2. CASE j # i
            <7> DEFINE h == module.globals[j]
            <7>1. globals'[j] = globals[j]
              BY <4>2, <6>2
            <7>2. ~ h.mutable /\ ~ h.imported /\ h.init.kind # "const" =>
                    globals'[h.init.of] = globals[h.init.of]
              <8>1. SUFFICES ASSUME ~ h.imported, h.init.kind # "const"
                             PROVE  globals'[h.init.of] = globals[h.init.of]
                OBVIOUS
              <8>2. h.init.kind = "get"
                BY <3>1, <8>1 DEF EInv, Read
              <8>3. h.init.of # i
                BY <4>2, <5>2, <5>3, <8>2
              <8>4. QED
                BY <4>2, <8>3
            <7>3. QED
              BY <4>2, <5>1, <5>4, <7>1, <7>2 DEF Follows, Sound
          <6>3. QED
            BY <6>1, <6>2
        <5>6. \A j \in DOMAIN globals : (Read(j) => module.globals[j].init.kind = "get")'
          BY <3>1, <4>2 DEF EInv, Read
        <5>7. op'.kind = "answered" /\ DOMAIN globals' = DOMAIN globals
          BY <4>2 DEF Done, Answer
        <5>8. EInv'
          BY <5>6, <5>7 DEF EInv
        <5>9. GlobalsAgree => GlobalsAgree'
          BY <5>4, <5>7 DEF GlobalsAgree
        <5>10. QED
          BY <5>8, <5>9 DEF Agreed
      <4>3. QED
        BY <3>3, <4>1, <4>2 DEF GlobalSet
    <3>8. ASSUME NEW i, GlobalGet(i) PROVE Agreed
      BY <3>5, <3>6, <3>8 DEF GlobalGet
    <3>9. ASSUME NEW t, TableSize(t) PROVE Agreed
      BY <3>5, <3>9 DEF TableSize
    <3>10. ASSUME NEW t, NEW i, TableGet(t, i) PROVE Agreed
      BY <3>5, <3>6, <3>10 DEF TableGet
    <3>11. ASSUME NEW t, NEW i, NEW type, CallIndirect(t, i, type) PROVE Agreed
      BY <3>5, <3>6, <3>11 DEF CallIndirect
    <3>12. ASSUME NEW t, NEW i, NEW r, TableSet(t, i, r) PROVE Agreed
      BY <3>6, <3>7, <3>12 DEF TableSet
    <3>13. ASSUME NEW t, NEW i, NEW n, NEW r, TableFill(t, i, n, r) PROVE Agreed
      BY <3>6, <3>7, <3>13 DEF TableFill
    <3>14. ASSUME NEW t, NEW s, NEW dst, NEW src, NEW n, TableCopy(t, s, dst, src, n) PROVE Agreed
      BY <3>6, <3>7, <3>14 DEF TableCopy
    <3>15. ASSUME NEW t, NEW k, NEW dst, NEW src, NEW n, TableInit(t, k, dst, src, n) PROVE Agreed
      <4>1. CASE UNCHANGED <<module, globals>> /\ op' \in {Done, Trapped}
        BY <3>2, <4>1 DEF Done, Trapped, Answer
      <4>2. QED
        BY <3>6, <3>15, <4>1 DEF TableInit
    <3>16. ASSUME NEW k, ElemDrop(k) PROVE Agreed
      BY <3>2, <3>16 DEF ElemDrop, Done, Answer
    <3>17. ASSUME NEW t, NEW delta, NEW r, TableGrow(t, delta, r) PROVE Agreed
      <4>1. CASE Grown(t, delta, r)
        BY <3>2, <4>1 DEF Grown, Answer
      <4>2. QED
        BY <3>5, <3>6, <3>17, <4>1 DEF TableGrow
    <3>18. QED
      BY <2>17, <3>3, <3>8, <3>9, <3>10, <3>11, <3>12, <3>13, <3>14, <3>15, <3>16, <3>17
         DEF Program
  <2>18. QED
    BY <2>6, <2>7, <2>8, <2>10, <2>11, <2>13, <2>14, <2>15, <2>16, <2>17 DEF Next
<1>3. IInv /\ IInv' /\ EInv /\ [Next]_vars => EInv'
  BY <1>2 DEF Agreed
<1>4. IInv /\ IInv' /\ EInv /\ [Next]_vars =>
        [GlobalsAgree =>
           \/ GlobalsAgree'
           \/ \E i \in DOMAIN globals, v \in Values : SetImportedGlobalStarved(i, v)]_vars
  BY <1>2 DEF Agreed, Starved
<1>5. QED
  BY <1>1, <1>3, <1>4, Invariance, PTL DEF Spec, GlobalsFollow

-----------------------------------------------------------------------------
(* While a module is attached, a cell is as the segments before the n-th   *)
(* leave it: what the last of those over it says, or as it was made.       *)
Over(a, i, n) == {k \in 1 .. n - 1 : Covers(module.elements[k], a, i)}
Says(k, i) == module.elements[k].inits[i - module.elements[k].offset].of
Laid(a, i, n) ==
  \/ Over(a, i, n) = {} /\ (a \in HostArrays \/ cells[a][i] = 0)
  \/ \E k \in Over(a, i, n) : /\ \A l \in Over(a, i, n) : l <= k
                              /\ cells[a][i] = Says(k, i)

(* And so are the marks of the segments, the tables as they were made.     *)
Placed(n) ==
  /\ n \in 1 .. Len(module.elements) + 1
  /\ \A a \in Arrays : \A i \in DOMAIN cells[a] : Laid(a, i, n)
  /\ \A t \in DOMAIN module.tables :
       tables[t].owns => tables[t].size = module.tables[t].initial
  /\ dropped = [k \in DOMAIN module.elements |->
                  k < n /\ module.elements[k].mode # "passive"]
DInv ==
  /\ AttachedAsDeclared
  /\ op.kind = "segments" => Placed(op.at) /\ globals = <<>>
  /\ op.kind = "globals" => (op.attaching => Placed(Len(module.elements) + 1))

(* Nothing is left of a module that could not be attached, or is detached. *)
LEMMA EmptiedDeclared ==
  ASSUME NEW c, DOMAIN c = Arrays, NEW got, got # <<"attached">>, Emptied(c, Answer(got))
  PROVE  DInv'
<1>1. /\ module' = NULL /\ tables' = <<>> /\ dropped' = <<>> /\ globals' = <<>> /\ traps' = <<>>
      /\ cells' = [a \in Arrays |-> IF a \in HostArrays THEN c[a] ELSE <<>>]
      /\ op' = [kind |-> "answered", got |-> got]
  BY DEF Emptied, HostsOnly, Answer
<1>2. op'.kind = "answered" /\ op' # Attached
  BY <1>1 DEF Attached, Answer
<1>3. \A a \in DOMAIN cells' : a \in HostArrays \/ cells'[a] = <<>>
  BY <1>1
<1>4. AttachedAsDeclared'
  BY <1>1, <1>2, <1>3 DEF AttachedAsDeclared
<1>5. QED
  BY <1>2, <1>4 DEF DInv

(* A step that does not end an attachment owes nothing but an empty state  *)
(* where there is no module.                                               *)
LEMMA NothingDeclared ==
  ASSUME module' # NULL, op'.kind \in {"idle", "answered"}, op' # Attached
  PROVE  DInv'
BY DEF DInv, AttachedAsDeclared

(* A segment that is done with covers its cells, and leaves the others.    *)
LEMMA SegmentDone ==
  ASSUME NEW n \in 1 .. Len(module.elements), Placed(n), Len(module.elements) \in Nat,
         DOMAIN module.elements = 1 .. Len(module.elements),
         UNCHANGED <<module, tables>>,
         \A a \in Arrays : DOMAIN cells'[a] = DOMAIN cells[a],
         \A a \in Arrays : \A i \in DOMAIN cells[a] :
           cells'[a][i] = IF Covers(module.elements[n], a, i) THEN Says(n, i) ELSE cells[a][i],
         dropped' = [k \in DOMAIN dropped |->
                       IF k = n THEN module.elements[n].mode # "passive" ELSE dropped[k]]
  PROVE  Placed(n + 1)'
<1> DEFINE N == Len(module.elements)
<1>1. n \in 1 .. N /\ N \in Nat /\ DOMAIN module.elements = 1 .. N
  OBVIOUS
<1>2. /\ n + 1 \in 1 .. N + 1 /\ 1 .. n + 1 - 1 = (1 .. n - 1) \cup {n}
      /\ \A k \in 1 .. n - 1 : k <= n
      /\ \A k \in 1 .. N : k < n + 1 <=> k < n \/ k = n
      /\ ~ (n < n)
  BY <1>1
<1> HIDE DEF N
<1>3. \A s, a, i : Covers(s, a, i)' <=> Covers(s, a, i)
  BY DEF Covers
<1>4. ASSUME NEW a \in Arrays, NEW i \in DOMAIN cells[a] PROVE Laid(a, i, n + 1)'
  <2> DEFINE c == Covers(module.elements[n], a, i)
  <2>1. Over(a, i, n + 1)' = IF c THEN Over(a, i, n) \cup {n} ELSE Over(a, i, n)
    <3>1. Over(a, i, n + 1)' = {k \in (1 .. n - 1) \cup {n} : Covers(module.elements[k], a, i)}
      BY <1>2, <1>3 DEF Over
    <3>2. QED
      BY <3>1, Zenon DEF Over
  <2>2. Laid(a, i, n)
    BY <1>4 DEF Placed
  <2>3. CASE c
    <3>1. n \in Over(a, i, n + 1)'
      BY <2>1, <2>3
    <3>2. \A l \in Over(a, i, n + 1)' : l <= n
      BY <1>1, <1>2, <2>1, <2>3 DEF Over
    <3>3. cells'[a][i] = Says(n, i)'
      BY <1>4, <2>3 DEF Says
    <3>4. QED
      BY <3>1, <3>2, <3>3 DEF Laid
  <2>4. CASE ~ c
    <3>1. Over(a, i, n + 1)' = Over(a, i, n) /\ cells'[a][i] = cells[a][i]
      BY <1>4, <2>1, <2>4
    <3>2. \A k : Says(k, i)' = Says(k, i)
      BY DEF Says
    <3>3. QED
      BY <2>2, <3>1, <3>2 DEF Laid
  <2>5. QED
    BY <2>3, <2>4
<1>5. dropped' = [k \in DOMAIN module.elements |->
                    k < n + 1 /\ module.elements[k].mode # "passive"]
  <2>1. dropped = [k \in DOMAIN module.elements |->
                     k < n /\ module.elements[k].mode # "passive"]
    BY DEF Placed
  <2>2. QED
    BY <1>1, <1>2, <2>1
<1>6. QED
  BY <1>2, <1>4, <1>5 DEF Placed, N

(* The steps that place segments.                                          *)
LEMMA SegmentsDeclared ==
  ASSUME TypeOK, Shape, DInv, SkipSegment \/ DeclareSegment \/ ApplySegment
  PROVE  DInv'
<1>1. op.kind = "segments" /\ module # NULL /\ module \in Modules
  BY DEF SkipSegment, DeclareSegment, ApplySegment, Placing, Shape, TypeOK
<1>2. module.elements \in Seq(Segments)
  BY <1>1, ModulesAssumption DEF ModuleRecords
<1>3. /\ Len(module.elements) \in Nat /\ DOMAIN module.elements = 1 .. Len(module.elements)
  BY <1>2, LenProperties
<1>4. Placed(op.at) /\ globals = <<>>
  BY <1>1 DEF DInv
<1>5. PICK k \in 1 .. Len(module.elements) : k = op.at
  <2>1. op.at \in 1 .. Len(module.elements) + 1 /\ op.at <= Len(module.elements)
    BY <1>4 DEF Placed, SkipSegment, DeclareSegment, ApplySegment, Placing
  <2>2. QED
    BY <1>3, <2>1
<1> DEFINE s == module.elements[k]
           refs == References(s)
<1>6. s \in Segments
  BY <1>2, <1>3, <1>5, ElementOfSeq
<1>7. dropped = [l \in DOMAIN module.elements |->
                   l < k /\ module.elements[l].mode # "passive"]
  BY <1>4, <1>5 DEF Placed
<1>8. k \in DOMAIN dropped /\ dropped[k] = FALSE
  <2>1. ~ (k < k)
    BY <1>3, <1>5
  <2>2. QED
    BY <1>3, <1>5, <1>7, <2>1
<1>9. ASSUME NextSegment, UNCHANGED <<module, globals>>, Placed(k + 1)' PROVE DInv'
  <2>1. op = [kind |-> "segments", at |-> op.at]
    BY <1>1 DEF Shape
  <2>2. op' = [kind |-> "segments", at |-> k + 1]
    BY <1>5, <1>9, <2>1 DEF NextSegment
  <2>3. /\ op'.kind = "segments" /\ op'.at = k + 1 /\ op' # Attached
        /\ module' # NULL /\ globals' = <<>>
    BY <1>1, <1>4, <1>9, <2>2 DEF Attached, Answer
  <2>4. QED
    BY <1>9, <2>3 DEF DInv, AttachedAsDeclared
<1>10. ASSUME NEW c, DOMAIN c = Arrays, Refused(c) PROVE DInv'
  <2>1. <<"refused">> # <<"attached">>
    OBVIOUS
  <2>2. QED
    BY <1>10, <2>1, EmptiedDeclared DEF Refused
<1>11. DOMAIN cells = Arrays
  BY DEF TypeOK
<1> HIDE DEF s, refs
<1>12. ASSUME UNCHANGED <<module, tables, cells>>, s.mode # "active",
              dropped' = IF s.mode = "passive" THEN dropped ELSE [dropped EXCEPT ![k] = TRUE]
       PROVE  Placed(k + 1)'
  <2>1. \A a, i : ~ Covers(s, a, i)
    BY <1>12 DEF Covers
  <2>2. dropped' = [l \in DOMAIN dropped |-> IF l = k THEN s.mode # "passive" ELSE dropped[l]]
    <3>1. CASE s.mode = "passive"
      BY <1>7, <1>8, <1>12, <3>1
    <3>2. CASE s.mode # "passive"
      BY <1>12, <3>2
    <3>3. QED
      BY <3>1, <3>2
  <2>3. QED
    BY <1>3, <1>4, <1>5, <1>12, <2>1, <2>2, SegmentDone DEF s
<1>13. CASE SkipSegment
  <2>1. /\ s.mode = "passive" /\ NextSegment
        /\ UNCHANGED <<module, tables, cells, dropped, globals>>
    BY <1>5, <1>13 DEF SkipSegment, Placing, s
  <2>2. Placed(k + 1)'
    BY <1>12, <2>1
  <2>3. QED
    BY <1>9, <2>1, <2>2
<1>14. CASE DeclareSegment
  <2>1. /\ s.mode = "declarative" /\ NextSegment
        /\ dropped' = [dropped EXCEPT ![k] = TRUE]
        /\ UNCHANGED <<module, tables, cells, globals>>
    BY <1>5, <1>14 DEF DeclareSegment, Placing, Drop, s
  <2>2. Placed(k + 1)'
    BY <1>12, <2>1
  <2>3. QED
    BY <1>9, <2>1, <2>2
<1>15. CASE ApplySegment
  <2>1. CASE Refused(cells)
    BY <1>10, <1>11, <2>1
  <2>2. CASE \E n : Refused(Poked(s.table, s.offset, n, refs))
    <3>1. PICK n : Refused(Poked(s.table, s.offset, n, refs))
      BY <2>2
    <3>2. DOMAIN Poked(s.table, s.offset, n, refs) = Arrays
      BY <1>11 DEF Poked
    <3>3. QED
      BY <1>10, <3>1, <3>2
  <2>3. CASE \E n \in 0 .. Len(refs) :
               /\ Fits(s) /\ Leads(refs, n) /\ n = Len(refs)
               /\ cells' = Poked(s.table, s.offset, n, refs)
               /\ Drop(k) /\ NextSegment
               /\ UNCHANGED <<module, tables, globals, traps, bindings>>
    <3> DEFINE n == Len(refs)
               d == tables[s.table].data
    <3>1. /\ Fits(s) /\ Leads(refs, n)
          /\ cells' = Poked(s.table, s.offset, n, refs)
          /\ dropped' = [dropped EXCEPT ![k] = TRUE] /\ NextSegment
          /\ UNCHANGED <<module, tables, globals>>
      BY <2>3 DEF Drop
    <3>2. /\ s.mode = "active" /\ s.offset \in Nat
          /\ Len(s.inits) \in Nat /\ DOMAIN s.inits = 1 .. Len(s.inits)
      BY <1>5, <1>6, <1>15, LenProperties DEF Segments, ApplySegment, Placing, s
    <3>3. n = Len(s.inits) /\ \A j \in 1 .. n : refs[j] = Resolved(s.inits[j], s.type)
      <4>1. refs \in [1 .. Len(s.inits) -> {refs[j] : j \in 1 .. Len(s.inits)}]
        BY <3>2 DEF References, refs
      <4>2. Len(refs) = Len(s.inits)
        BY <3>2, <4>1, FunctionIsSeq
      <4>3. QED
        BY <3>2, <4>2 DEF References, refs
    <3>4. n \in Nat /\ DOMAIN s.inits = 1 .. n
      BY <3>2, <3>3
    <3>5. \A j \in 1 .. n : refs[j] # Unresolved
      BY <3>1 DEF Leads
    <3> HIDE DEF n
    <3>6. ASSUME NEW j \in 1 .. n PROVE refs[j] = s.inits[j].of
      <4>1. DOMAIN globals = {}
        BY <1>4
      <4>2. QED
        BY <3>3, <3>5, <3>6, <4>1 DEF Resolved
    <3>7. d \in Arrays
      <4> DEFINE T == [data : Arrays, size : Nat, owns : BOOLEAN]
                 t == s.table
      <4>1. t \in DOMAIN tables /\ tables \in Seq(T)
        BY <3>1 DEF Fits, TypeOK
      <4>2. \A a \in T : a.data \in Arrays
        OBVIOUS
      <4> HIDE DEF T, t
      <4>3. tables[t] \in T
        BY <4>1, LenProperties, ElementOfSeq
      <4>4. QED
        BY <4>2, <4>3 DEF t
    <3>8. cells' = [cells EXCEPT ![d] = Written(cells[d], s.offset, n, refs)]
      BY <3>1 DEF Poked, n
    <3> HIDE DEF d
    <3>9. \A a \in Arrays : DOMAIN cells'[a] = DOMAIN cells[a]
      BY <1>11, <3>7, <3>8 DEF Written
    <3>10. ASSUME NEW a \in Arrays, NEW i \in DOMAIN cells[a]
           PROVE  cells'[a][i] = IF Covers(s, a, i) THEN Says(k, i) ELSE cells[a][i]
      <4>1. i \in Nat
        <5> DEFINE c == cells[a]
        <5>1. c \in Seq(Refs)
          BY DEF TypeOK
        <5> HIDE DEF c
        <5>2. DOMAIN c = 1 .. Len(c) /\ Len(c) \in Nat
          BY <5>1, LenProperties
        <5>3. DOMAIN c \subseteq Nat
          BY <5>2
        <5>4. QED
          BY <5>3 DEF c
      <4>2. i \in s.offset + 1 .. s.offset + n <=> i - s.offset \in 1 .. n
        BY <3>2, <3>4, <4>1
      <4>3. Covers(s, a, i) <=> a = d /\ i - s.offset \in 1 .. n
        BY <3>2, <3>4 DEF Covers, d
      <4>4. CASE a = d /\ i - s.offset \in 1 .. n
        <5>1. cells'[a][i] = refs[i - s.offset]
          BY <1>11, <3>7, <3>8, <4>2, <4>4 DEF Written
        <5>2. QED
          BY <3>6, <4>3, <4>4, <5>1 DEF Says, s
      <4>5. CASE ~ (a = d /\ i - s.offset \in 1 .. n)
        <5>1. cells'[a][i] = cells[a][i]
          BY <1>11, <3>7, <3>8, <4>2, <4>5 DEF Written
        <5>2. QED
          BY <4>3, <4>5, <5>1
      <4>6. QED
        BY <4>4, <4>5
    <3>11. dropped' = [l \in DOMAIN dropped |-> IF l = k THEN s.mode # "passive" ELSE dropped[l]]
      BY <3>1, <3>2
    <3>12. Placed(k + 1)'
      BY <1>3, <1>4, <1>5, <3>1, <3>9, <3>10, <3>11, SegmentDone DEF s
    <3>13. QED
      BY <1>9, <3>1, <3>12
  <2>4. QED
    BY <1>5, <1>15, <2>1, <2>2, <2>3, Zenon DEF ApplySegment, s, refs
<1>16. QED
  BY <1>13, <1>14, <1>15

(* What has been placed stays while tables, cells and marks do.            *)
LEMMA PlacedStays ==
  ASSUME NEW n, Placed(n), UNCHANGED <<module, tables, cells, dropped>>
  PROVE  Placed(n)'
<1>1. \A a, i : Over(a, i, n)' = Over(a, i, n)
  BY DEF Over, Covers
<1>2. \A k, i : Says(k, i)' = Says(k, i)
  BY DEF Says
<1>3. ASSUME NEW a, NEW i, Laid(a, i, n) PROVE Laid(a, i, n)'
  BY <1>1, <1>2, <1>3 DEF Laid
<1>4. QED
  BY <1>3 DEF Placed

(* When all segments are placed, the last one over a cell has its say.     *)
LEMMA AllPlaced ==
  ASSUME NEW N \in Nat, DOMAIN module.elements = 1 .. N, NEW a, NEW i, Laid(a, i, N + 1)
  PROVE  AsDeclared(a, i)
<1> DEFINE over == {k \in DOMAIN module.elements : Covers(module.elements[k], a, i)}
           last == CHOOSE k \in over : \A l \in over : l <= k
<1>1. Over(a, i, N + 1) = over
  <2>1. N + 1 - 1 = N
    OBVIOUS
  <2>2. QED
    BY <2>1 DEF Over
<1>2. over \subseteq Nat
  OBVIOUS
<1>3. AsDeclared(a, i) = IF over = {} THEN a \in HostArrays \/ cells[a][i] = 0
                         ELSE cells[a][i] = Says(last, i)
  BY DEF AsDeclared, Says
<1> HIDE DEF over
<1>4. CASE over = {}
  BY <1>1, <1>3, <1>4 DEF Laid
<1>5. CASE over # {}
  <2>1. PICK k \in over : (\A l \in over : l <= k) /\ cells[a][i] = Says(k, i)
    BY <1>1, <1>5 DEF Laid
  <2>2. last \in over /\ \A l \in over : l <= last
    BY <2>1
  <2>3. last = k
    <3>1. last <= k /\ k <= last /\ last \in Nat /\ k \in Nat
      BY <1>2, <2>1, <2>2
    <3> HIDE DEF last
    <3>2. QED
      BY <3>1
  <2>4. QED
    BY <1>3, <1>5, <2>1, <2>3
<1>6. QED
  BY <1>4, <1>5

(* Nothing of the module before is in the way of the next one.             *)
LEMMA AttachDeclared ==
  ASSUME TypeOK, NEW m \in Modules, AttachModule(m)
  PROVE  DInv'
<1>1. DOMAIN cells = Arrays
  BY DEF TypeOK
<1>2. CASE Refused(cells)
  <2>1. <<"refused">> # <<"attached">>
    OBVIOUS
  <2>2. QED
    BY <1>1, <1>2, <2>1, EmptiedDeclared DEF Refused
<1>3. CASE ~ Refused(cells)
  <2>1. /\ module' = m
        /\ tables' = [i \in DOMAIN m.tables |->
                        IF OwnsTable(m, i) THEN Owned(i, m.tables[i].initial)
                        ELSE Viewed(bindings[m.tables[i].name])]
        /\ cells' = [a \in Arrays |->
                       IF a \in HostArrays THEN cells[a]
                       ELSE IF OwnsTable(m, a) THEN Zeroed(m.tables[a].initial)
                       ELSE <<>>]
        /\ dropped' = [k \in DOMAIN m.elements |-> FALSE]
        /\ globals' = <<>>
        /\ op' = [kind |-> "segments", at |-> 1]
    BY <1>1, <1>3 DEF AttachModule
  <2>2. op'.kind = "segments" /\ op'.at = 1 /\ op' # Attached /\ module' # NULL
    BY <2>1, NullAssumption DEF Attached, Answer
  <2>3. Len(m.elements) \in Nat /\ DOMAIN m.elements = 1 .. Len(m.elements)
    <3>1. m.elements \in Seq(Segments)
      BY ModulesAssumption DEF ModuleRecords
    <3>2. QED
      BY <3>1, LenProperties
  <2>4. ASSUME NEW a \in Arrays, NEW i \in DOMAIN cells'[a] PROVE Laid(a, i, 1)'
    <3>1. Over(a, i, 1)' = {}
      <4>1. 1 .. 1 - 1 = {}
        OBVIOUS
      <4>2. QED
        BY <4>1 DEF Over
    <3>2. a \in HostArrays \/ cells'[a][i] = 0
      <4>1. SUFFICES ASSUME a \notin HostArrays PROVE cells'[a][i] = 0
        OBVIOUS
      <4>2. CASE OwnsTable(m, a)
        <5>1. cells'[a] = Zeroed(m.tables[a].initial)
          BY <2>1, <4>1, <4>2
        <5>2. QED
          BY <2>4, <5>1 DEF Zeroed
      <4>3. CASE ~ OwnsTable(m, a)
        <5>1. cells'[a] = <<>>
          BY <2>1, <4>1, <4>3
        <5>2. QED
          BY <2>4, <5>1
      <4>4. QED
        BY <4>2, <4>3
    <3>3. QED
      BY <3>1, <3>2 DEF Laid
  <2>5. \A t \in DOMAIN m.tables : tables'[t].owns => tables'[t].size = m.tables[t].initial
    BY <2>1 DEF Owned, Viewed
  <2>6. dropped' = [k \in DOMAIN m.elements |-> k < 1 /\ m.elements[k].mode # "passive"]
    <3>1. \A k \in DOMAIN m.elements : ~ (k < 1)
      BY <2>3
    <3>2. QED
      BY <2>1, <3>1
  <2>7. Placed(1)'
    <3>1. 1 \in 1 .. Len(m.elements) + 1
      BY <2>3
    <3>2. QED
      BY <2>1, <2>4, <2>5, <2>6, <3>1 DEF Placed
  <2>8. QED
    BY <2>1, <2>2, <2>7 DEF DInv, AttachedAsDeclared
<1>4. QED
  BY <1>2, <1>3

(* Setting up globals touches nothing that was placed.                     *)
LEMMA GlobalsDeclared ==
  ASSUME TypeOK, Shape, DInv,
         StartGlobals \/ InitGlobal \/ GlobalsSet \/ FinishAttach
  PROVE  DInv'
<1>1. /\ op.kind \in {"segments", "globals"} /\ module # NULL /\ module \in Modules
      /\ op.kind = "segments" => StartGlobals
      /\ op.kind = "globals" => InitGlobal \/ GlobalsSet \/ FinishAttach
  BY DEF StartGlobals, InitGlobal, GlobalsSet, FinishAttach, Shape, TypeOK
<1>2. PICK N \in Nat : N = Len(module.elements) /\ DOMAIN module.elements = 1 .. N
  <2>1. module.elements \in Seq(Segments)
    BY <1>1, ModulesAssumption DEF ModuleRecords
  <2>2. QED
    BY <2>1, LenProperties
<1>3. ASSUME Refused(cells) PROVE DInv'
  <2>1. <<"refused">> # <<"attached">>
    OBVIOUS
  <2>2. DOMAIN cells = Arrays
    BY DEF TypeOK
  <2>3. QED
    BY <1>3, <2>1, <2>2, EmptiedDeclared DEF Refused
<1>4. ASSUME NEW got, got # <<"attached">>, op' = Answer(got), module' = module PROVE DInv'
  <2>1. op'.kind = "answered" /\ op' # Attached
    BY <1>4 DEF Answer, Attached
  <2>2. QED
    BY <1>1, <1>4, <2>1, NothingDeclared
<1>5. ASSUME Placed(N + 1), UNCHANGED <<module, tables, cells, dropped>>
      PROVE  Placed(Len(module.elements) + 1)'
  <2>1. Placed(N + 1)'
    BY <1>5, PlacedStays
  <2>2. N = Len(module'.elements)
    BY <1>2, <1>5
  <2>3. QED
    BY <2>1, <2>2
<1>6. ASSUME NEW kept, NEW at, NEW attaching, UNCHANGED <<module, tables, cells, dropped>>,
             op' = [kind |-> "globals", at |-> at, kept |-> kept, attaching |-> attaching],
             attaching => Placed(N + 1)
      PROVE  DInv'
  <2>1. op'.kind = "globals" /\ op'.attaching = attaching /\ op' # Attached /\ module' # NULL
    BY <1>1, <1>6 DEF Attached, Answer
  <2>2. attaching => Placed(Len(module.elements) + 1)'
    BY <1>5, <1>6
  <2>3. QED
    BY <2>1, <2>2 DEF DInv, AttachedAsDeclared
<1>7. CASE Evaluates(Cleared, TRUE) /\ StartGlobals
  <2>1. Placed(op.at) /\ op.at > Len(module.elements)
    BY <1>7 DEF DInv, StartGlobals
  <2>2. op.at = N + 1
    <3>1. op.at \in 1 .. N + 1 /\ op.at > N
      BY <1>2, <2>1 DEF Placed
    <3>2. QED
      BY <3>1
  <2>3. Placed(N + 1)
    BY <2>1, <2>2
  <2>4. /\ op' = [kind |-> "globals", at |-> 1, kept |-> Cleared, attaching |-> TRUE]
        /\ UNCHANGED <<module, tables, cells, dropped>>
    BY <1>7 DEF Evaluates
  <2>5. QED
    BY <1>6, <2>3, <2>4
<1>8. ASSUME op.kind = "globals", op.attaching PROVE Placed(N + 1)
  BY <1>2, <1>8 DEF DInv
<1>9. CASE InitGlobal
  <2>1. CASE GlobalsFail
    <3>1. <<"trap">> # <<"attached">>
      OBVIOUS
    <3>2. CASE op.attaching
      BY <1>3, <2>1, <3>2 DEF GlobalsFail
    <3>3. CASE ~ op.attaching
      BY <1>4, <2>1, <3>1, <3>3 DEF GlobalsFail, GlobalsLost, Trapped
    <3>4. QED
      BY <3>2, <3>3
  <2>2. CASE op' = [op EXCEPT !.at = @ + 1] /\ UNCHANGED <<module, tables, cells, dropped>>
    <3>1. /\ op.kind = "globals"
          /\ op = [kind |-> "globals", at |-> op.at, kept |-> op.kept,
                   attaching |-> op.attaching]
      BY <1>9 DEF InitGlobal, Shape
    <3>2. op' = [kind |-> "globals", at |-> op.at + 1, kept |-> op.kept,
                 attaching |-> op.attaching]
      BY <2>2, <3>1
    <3>3. op.attaching => Placed(N + 1)
      BY <1>8, <3>1
    <3>4. QED
      BY <1>6, <2>2, <3>2, <3>3
  <2>3. QED
    BY <1>9, <2>1, <2>2 DEF InitGlobal
<1>10. CASE GlobalsSet
  <2>1. <<"done">> # <<"attached">>
    OBVIOUS
  <2>2. QED
    BY <1>4, <1>10, <2>1 DEF GlobalsSet, Done
<1>11. CASE FinishAttach
  <2>1. CASE Refused(cells)
    BY <1>3, <2>1
  <2>2. CASE /\ traps' = [f \in DOMAIN module.functions |-> FALSE]
             /\ op' = Attached
             /\ UNCHANGED <<module, tables, cells, dropped, globals, bindings>>
    <3>1. op.kind = "globals" /\ Placed(N + 1)
      BY <1>8, <1>11 DEF FinishAttach
    <3>2. Placed(N + 1)' /\ module' = module
      BY <2>2, <3>1, PlacedStays
    <3>3. DOMAIN module'.elements = 1 .. N
      BY <1>2, <3>2
    <3>4. /\ DOMAIN tables = DOMAIN module.tables /\ DOMAIN globals = DOMAIN module.globals
          /\ \A t \in DOMAIN tables :
               tables[t].data \in Arrays /\ 1 .. tables[t].size \subseteq DOMAIN cells[tables[t].data]
      <4> DEFINE T == [data : Arrays, size : Nat, owns : BOOLEAN]
      <4>1. /\ tables \in Seq(T) /\ module.tables \in Seq(TableDecls)
            /\ globals \in Seq(Values \cup {NoValue}) /\ module.globals \in Seq(Globals)
            /\ Len(tables) = Len(module.tables) /\ Len(globals) = Len(module.globals)
        BY <1>1, <3>1, ModulesAssumption DEF ModuleRecords, TypeOK, Shape
      <4>2. ASSUME NEW t \in DOMAIN tables
            PROVE  tables[t].data \in Arrays /\ 1 .. tables[t].size \subseteq DOMAIN cells[tables[t].data]
        <5>1. tables[t] \in T
          <6> HIDE DEF T
          <6>1. QED
            BY <4>1, LenProperties, ElementOfSeq
        <5>2. tables[t].data \in Arrays /\ tables[t].size \in Nat
          BY <5>1
        <5>3. PICK c : c = cells[tables[t].data]
          OBVIOUS
        <5>4. c \in Seq(Refs) /\ tables[t].size <= Len(c)
          BY <5>2, <5>3 DEF TypeOK
        <5>5. DOMAIN c = 1 .. Len(c) /\ Len(c) \in Nat
          BY <5>4, LenProperties
        <5>6. QED
          BY <5>2, <5>3, <5>4, <5>5
      <4> HIDE DEF T
      <4>3. DOMAIN tables = DOMAIN module.tables /\ DOMAIN globals = DOMAIN module.globals
        BY <4>1, LenProperties
      <4>4. QED
        BY <4>2, <4>3
    <3>5. ASSUME NEW t \in DOMAIN module'.tables, NEW i \in 1 .. tables'[t].size
          PROVE  AsDeclared(tables[t].data, i)'
      <4>1. PICK a \in Arrays : a = tables[t].data /\ i \in DOMAIN cells[a]
        BY <2>2, <3>4, <3>5
      <4>2. Laid(a, i, N + 1)
        BY <3>1, <4>1 DEF Placed
      <4>3. AsDeclared(a, i)
        BY <1>2, <4>2, AllPlaced
      <4>4. AsDeclared(a, i)'
        BY <2>2, <4>3 DEF AsDeclared, Covers
      <4>5. QED
        BY <2>2, <4>1, <4>4
    <3>6. \A t \in DOMAIN module'.tables :
            tables'[t].owns => tables'[t].size = module'.tables[t].initial
      BY <3>2 DEF Placed
    <3>7. dropped' = [k \in DOMAIN module'.elements |-> module'.elements[k].mode # "passive"]
      <4>1. dropped' = [k \in DOMAIN module'.elements |->
                          k < N + 1 /\ module'.elements[k].mode # "passive"]
        BY <3>2 DEF Placed
      <4>2. \A k \in DOMAIN module'.elements : k < N + 1
        BY <3>3
      <4>3. QED
        BY <4>1, <4>2
    <3>8. DOMAIN globals' = DOMAIN module'.globals
      BY <2>2, <3>4
    <3>9. traps' = [f \in DOMAIN module'.functions |-> FALSE]
      BY <2>2
    <3>10. AttachedAsDeclared'
      BY <1>1, <3>2, <3>5, <3>6, <3>7, <3>8, <3>9 DEF AttachedAsDeclared
    <3>11. op'.kind = "answered"
      BY <2>2 DEF Attached, Answer
    <3>12. QED
      BY <3>10, <3>11 DEF DInv
  <2>3. QED
    BY <1>11, <2>1, <2>2 DEF FinishAttach
<1>12. CASE StartGlobals
  BY <1>3, <1>7, <1>12 DEF StartGlobals
<1>13. QED
  BY <1>9, <1>10, <1>11, <1>12

(* An instruction ends no attachment, and runs in a module.                *)
LEMMA ProgramDeclared ==
  ASSUME Program
  PROVE  DInv'
<1>1. module # NULL
  BY DEF Program, Running
<1>2. ASSUME NEW got, got # <<"attached">>, op' = Answer(got), module' = module PROVE DInv'
  <2>1. op'.kind = "answered" /\ op' # Attached
    BY <1>2 DEF Answer, Attached
  <2>2. QED
    BY <1>1, <1>2, <2>1, NothingDeclared
<1>3. /\ <<"trap">> # <<"attached">> /\ <<"done">> # <<"attached">>
      /\ \A a, b : <<"global", a, b>> # <<"attached">> /\ <<"size", a, b>> # <<"attached">>
                   /\ <<"ref", a, b>> # <<"attached">> /\ <<"call", a, b>> # <<"attached">>
                   /\ <<"grew", a, b>> # <<"attached">>
  OBVIOUS
<1>4. ASSUME Gives(Trapped) PROVE DInv'
  BY <1>2, <1>3, <1>4 DEF Gives, Trapped
<1>5. ASSUME NEW c, Writes(c) PROVE DInv'
  BY <1>2, <1>3, <1>5 DEF Writes, Done
<1>6. ASSUME NEW i, GlobalGet(i) PROVE DInv'
  BY <1>2, <1>3, <1>4, <1>6 DEF GlobalGet, Gives
<1>7. ASSUME NEW i, NEW v, GlobalSet(i, v) PROVE DInv'
  BY <1>2, <1>3, <1>4, <1>7 DEF GlobalSet, Done
<1>8. ASSUME NEW t, TableSize(t) PROVE DInv'
  BY <1>2, <1>3, <1>8 DEF TableSize, Gives
<1>9. ASSUME NEW t, NEW i, TableGet(t, i) PROVE DInv'
  BY <1>2, <1>3, <1>4, <1>9 DEF TableGet, Gives
<1>10. ASSUME NEW t, NEW i, NEW type, CallIndirect(t, i, type) PROVE DInv'
  BY <1>2, <1>3, <1>4, <1>10 DEF CallIndirect, Gives
<1>11. ASSUME NEW t, NEW i, NEW r, TableSet(t, i, r) PROVE DInv'
  BY <1>4, <1>5, <1>11 DEF TableSet
<1>12. ASSUME NEW t, NEW i, NEW n, NEW r, TableFill(t, i, n, r) PROVE DInv'
  BY <1>4, <1>5, <1>12 DEF TableFill
<1>13. ASSUME NEW t, NEW s, NEW dst, NEW src, NEW n, TableCopy(t, s, dst, src, n) PROVE DInv'
  BY <1>4, <1>5, <1>13 DEF TableCopy
<1>14. ASSUME NEW t, NEW k, NEW dst, NEW src, NEW n, TableInit(t, k, dst, src, n) PROVE DInv'
  <2>1. CASE module' = module /\ op' \in {Done, Trapped}
    BY <1>2, <1>3, <2>1 DEF Done, Trapped
  <2>2. QED
    BY <1>4, <1>14, <2>1 DEF TableInit
<1>15. ASSUME NEW k, ElemDrop(k) PROVE DInv'
  BY <1>2, <1>3, <1>15 DEF ElemDrop, Done
<1>16. ASSUME NEW t, NEW delta, NEW r, TableGrow(t, delta, r) PROVE DInv'
  <2>1. CASE Grown(t, delta, r)
    BY <1>2, <1>3, <2>1 DEF Grown
  <2>2. CASE Gives(Answer(<<"grew", t, -1>>))
    BY <1>2, <1>3, <2>2 DEF Gives
  <2>3. QED
    BY <1>4, <1>16, <2>1, <2>2 DEF TableGrow
<1>17. QED
  BY <1>6, <1>7, <1>8, <1>9, <1>10, <1>11, <1>12, <1>13, <1>14, <1>15, <1>16 DEF Program

(* Attaching is all or nothing.  When it succeeds, tables, segments,       *)
(* globals and traps are as the module declares, a later segment over an   *)
(* earlier one; when it fails, nothing is left but in arrays of the host.  *)
THEOREM AttachmentCorrect == Spec => []AttachedAsDeclared
<1>1. Init => DInv
  BY DEF Init, DInv, AttachedAsDeclared, Idle, Attached, Answer
<1>2. IInv /\ DInv /\ [Next]_vars => DInv'
  <2> SUFFICES ASSUME IInv, DInv, [Next]_vars PROVE DInv'
    OBVIOUS
  <2>1. TypeOK /\ Shape
    BY DEF IInv
  <2>2. ASSUME op' = Idle, module' = module,
               module = NULL =>
                 /\ UNCHANGED <<tables, dropped, globals, traps>>
                 /\ DOMAIN cells' = DOMAIN cells
                 /\ \A a \in DOMAIN cells : a \in HostArrays \/ cells'[a] = cells[a]
        PROVE  DInv'
    <3>1. op'.kind = "idle" /\ op' # Attached
      BY <2>2 DEF Idle, Attached, Answer
    <3>2. CASE module # NULL
      BY <2>2, <3>1, <3>2, NothingDeclared
    <3>3. CASE module = NULL
      BY <2>2, <3>1, <3>3 DEF DInv, AttachedAsDeclared
    <3>4. QED
      BY <3>2, <3>3
  <2>3. CASE UNCHANGED vars
    <3>1. AttachedAsDeclared'
      <4>1. AttachedAsDeclared
        BY DEF DInv
      <4>2. UNCHANGED <<module, tables, cells, dropped, globals, traps, op>>
        BY <2>3 DEF vars
      <4>3. ASSUME NEW a, NEW i, AsDeclared(a, i) PROVE AsDeclared(a, i)'
        BY <4>2, <4>3 DEF AsDeclared, Covers
      <4>4. QED
        BY <4>1, <4>2, <4>3 DEF AttachedAsDeclared
    <3>2. \A n : Placed(n) => Placed(n)'
      BY <2>3, PlacedStays DEF vars
    <3>3. op' = op /\ globals' = globals /\ module' = module
      BY <2>3 DEF vars
    <3>4. op'.kind = "segments" => Placed(op.at)' /\ globals' = <<>>
      <4>1. PICK n : n = op.at
        OBVIOUS
      <4>2. QED
        BY <3>2, <3>3, <4>1 DEF DInv
    <3>5. op'.kind = "globals" => (op'.attaching => Placed(Len(module.elements) + 1)')
      <4>1. PICK n : n = Len(module.elements) + 1
        OBVIOUS
      <4>2. QED
        BY <3>2, <3>3, <4>1 DEF DInv
    <3>6. QED
      BY <3>1, <3>4, <3>5 DEF DInv
  <2>4. CASE SkipSegment \/ DeclareSegment \/ ApplySegment
    BY <2>1, <2>4, SegmentsDeclared
  <2>5. CASE StartGlobals \/ InitGlobal \/ GlobalsSet \/ FinishAttach
    BY <2>1, <2>5, GlobalsDeclared
  <2>6. CASE Program
    BY <2>6, ProgramDeclared
  <2>7. CASE Settle
    BY <2>2, <2>7 DEF Settle
  <2>8. CASE Embedder
    <3>1. ASSUME NEW m \in Modules, AttachModule(m) PROVE DInv'
      BY <2>1, <3>1, AttachDeclared
    <3>2. CASE DetachModule
      <4>1. <<"done">> # <<"attached">>
        OBVIOUS
      <4>2. DOMAIN cells = Arrays
        BY <2>1 DEF TypeOK
      <4>3. QED
        BY <3>2, <4>1, <4>2, EmptiedDeclared DEF DetachModule, Done
    <3>3. ASSUME NEW name, NEW b, BindImportedTable(name, b) PROVE DInv'
      <4>1. module = NULL => tables' = tables
        <5>1. SUFFICES ASSUME module = NULL PROVE tables' = tables
          OBVIOUS
        <5>2. tables = <<>>
          BY <2>1, <5>1 DEF Shape
        <5>3. DOMAIN tables = {}
          BY <5>2
        <5>4. tables' = [i \in DOMAIN tables |->
                           IF i \in Asking(name) THEN Viewed(b) ELSE tables[i]]
          BY <3>3 DEF BindImportedTable
        <5>5. tables' = [i \in {} |-> tables[i]] /\ tables = [i \in {} |-> tables[i]]
          BY <5>2, <5>3, <5>4
        <5>6. QED
          BY <5>5
      <4>2. QED
        BY <2>2, <3>3, <4>1 DEF BindImportedTable
    <3>4. ASSUME NEW a \in HostArrays, NEW i, NEW r, HostWrites(a, i, r) PROVE DInv'
      <4>1. /\ cells' = [cells EXCEPT ![a] = Written(@, i, 1, <<r>>)]
            /\ op' = Idle /\ UNCHANGED <<module, tables, dropped, globals, traps>>
        BY <3>4 DEF HostWrites
      <4>2. /\ DOMAIN cells' = DOMAIN cells
            /\ \A b \in DOMAIN cells : b \in HostArrays \/ cells'[b] = cells[b]
        BY <4>1
      <4>3. QED
        BY <2>2, <4>1, <4>2
    <3>5. ASSUME NEW i \in DOMAIN globals, NEW v,
                 SetImportedGlobal(i, v) \/ SetImportedGlobalStarved(i, v)
          PROVE  DInv'
      <4>1. module # NULL
        BY <2>1 DEF Shape
      <4>2. CASE Evaluates(Kept([globals EXCEPT ![i] = v]), FALSE)
        <5>1. /\ op' = [kind |-> "globals", at |-> 1,
                        kept |-> Kept([globals EXCEPT ![i] = v]), attaching |-> FALSE]
              /\ module' = module
          BY <4>2 DEF Evaluates
        <5>2. op'.kind = "globals" /\ ~ op'.attaching /\ op' # Attached
          BY <5>1 DEF Attached, Answer
        <5>3. QED
          BY <4>1, <5>1, <5>2 DEF DInv, AttachedAsDeclared
      <4>3. CASE GlobalsLost \/ SetImportedGlobalStarved(i, v)
        <5>1. op' = Trapped /\ module' = module
          BY <4>3 DEF GlobalsLost, SetImportedGlobalStarved
        <5>2. op'.kind = "answered" /\ op' # Attached
          <6>1. <<"trap">> # <<"attached">>
            OBVIOUS
          <6>2. QED
            BY <5>1, <6>1 DEF Trapped, Attached, Answer
        <5>3. QED
          BY <4>1, <5>1, <5>2 DEF DInv, AttachedAsDeclared
      <4>4. QED
        BY <3>5, <4>2, <4>3 DEF SetImportedGlobal
    <3>6. ASSUME NEW f \in DOMAIN traps, NEW e, SetFunctionTrap(f, e) PROVE DInv'
      <4>1. module # NULL
        BY <2>1 DEF Shape
      <4>2. QED
        BY <2>2, <3>6, <4>1 DEF SetFunctionTrap
    <3>7. CASE ClearFunctionTraps
      <4>1. module = NULL => traps' = traps
        <5>1. SUFFICES ASSUME module = NULL PROVE traps' = traps
          OBVIOUS
        <5>2. traps = <<>> /\ DOMAIN traps = {}
          BY <2>1, <5>1 DEF Shape
        <5>3. traps' = [f \in {} |-> FALSE] /\ traps = [f \in {} |-> FALSE]
          BY <3>7, <5>2 DEF ClearFunctionTraps
        <5>4. QED
          BY <5>3
      <4>2. QED
        BY <2>2, <3>7, <4>1 DEF ClearFunctionTraps
    <3>8. QED
      BY <2>8, <3>1, <3>2, <3>3, <3>4, <3>5, <3>6, <3>7 DEF Embedder
  <2>9. QED
    BY <2>3, <2>4, <2>5, <2>6, <2>7, <2>8 DEF Next
<1>3. DInv => AttachedAsDeclared
  BY DEF DInv
<1>4. QED
  BY <1>1, <1>2, <1>3, Invariance, PTL DEF Spec
=============================================================================
