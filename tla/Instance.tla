------------------------------ MODULE Instance ------------------------------
(* What fa_Runtime_attachModule makes of a module, apart from its          *)
(* memories and its programs: tables, element segments, globals and        *)
(* function traps; what the instructions of fa_ops.c do to them, and what  *)
(* the embedder does to them between instructions.                         *)
(*                                                                         *)
(* A table is a record that points to an array of references: one of the   *)
(* runtime's own, which only this table uses, or one of the host, which    *)
(* several tables may view and the host may write.  A reference is 0 for   *)
(* null, and function n of the module is n, counted from 1.                *)
(*                                                                         *)
(* Attaching goes segment by segment and then global by global, and each   *)
(* step may be the last: nothing else runs meanwhile.  An instruction is   *)
(* one step, which leaves in `op' what it gives back.  An operand of the   *)
(* wrong kind, or a missing one, traps before anything is done and is left *)
(* out, as are tables and segments the parser does not produce.            *)
EXTENDS Integers, Sequences

CONSTANTS Modules,     \* the modules there are to attach
          HostArrays,  \* the host's arrays of references
          Length,      \* the number of cells of each
          Names,       \* the names imports ask for
          Refs,        \* references, and contents of numbers
          Words,       \* those of them that an i32 may be
          Indices,     \* operands: positions and counts
          NULL

ASSUME RefsAssumption == Refs \subseteq Nat /\ Words \subseteq Refs /\ 0 \in Words
ASSUME IndicesAssumption == Indices \subseteq Nat
ASSUME LengthAssumption == Length \in [HostArrays -> Nat]
ASSUME HostAssumption == \A a \in HostArrays : a \notin Nat
ASSUME NullAssumption == NULL \notin Names /\ NULL \notin Modules

(* A module as the parser leaves it: functions by their types, tables with *)
(* the name of the import or NULL, element segments by what they are for.  *)
(* A table without a maximum has the largest number there is.              *)
RefTypes == {"funcref", "externref"}
TableDecls == [type : RefTypes, name : Names \cup {NULL}, initial : Nat, max : Nat]
Inits == [kind : {"value", "global"}, of : Nat]
Segments == [mode : {"active", "passive", "declarative"}, type : RefTypes,
             table : Nat, offset : Nat, inits : Seq(Inits)]
Globals == [type : RefTypes \cup {"i32"}, mutable : BOOLEAN, imported : BOOLEAN,
            init : [kind : {"none", "const", "get"}, of : Nat]]
ModuleRecords == [functions : Seq(Nat), tables : Seq(TableDecls),
                  globals : Seq(Globals), elements : Seq(Segments)]

(* What WebAssembly demands of limits and initialisers, and the contents   *)
(* the model knows.                                                        *)
ASSUME ModulesAssumption ==
  /\ Modules \subseteq ModuleRecords
  /\ \A m \in Modules :
       /\ \A t \in DOMAIN m.tables : m.tables[t].initial <= m.tables[t].max
       /\ \A k \in DOMAIN m.elements : \A j \in DOMAIN m.elements[k].inits :
            m.elements[k].inits[j].kind = "value" => m.elements[k].inits[j].of \in Refs
       /\ \A i \in DOMAIN m.globals :
            LET init == m.globals[i].init
            IN /\ init.kind = "const" =>
                     init.of \in Words /\ m.globals[i].type = "i32"
               /\ init.kind = "get" => /\ init.of \in DOMAIN m.globals
                                      /\ ~ m.globals[init.of].mutable

(* Own arrays have the numbers of the tables they are for. *)
OwnArrays == UNION {DOMAIN m.tables : m \in Modules}
Arrays == HostArrays \cup OwnArrays

VARIABLES module,    \* fa_Runtime.module
          tables,    \* fa_Runtime.tables
          cells,     \* what each array holds; own arrays have numbers
          dropped,   \* elem_segments_dropped
          globals,   \* fa_Runtime.globals, <<>> when there are none
          traps,     \* function_traps
          bindings,  \* host_table_bindings, by name
          op         \* the attachment in progress, or what was last done

vars == <<module, tables, cells, dropped, globals, traps, bindings, op>>

Idle == [kind |-> "idle"]
Answer(a) == [kind |-> "answered", got |-> a]
Trapped == Answer(<<"trap">>)
Done == Answer(<<"done">>)
Attached == Answer(<<"attached">>)

NoValue == [kind |-> "invalid", of |-> 0]
Number(n) == [kind |-> "i32", of |-> n]
Reference(r) == [kind |-> "ref", of |-> r]
Values == {Number(n) : n \in Words} \cup {Reference(r) : r \in Refs}

Matches(v, type) == v.kind = IF type = "i32" THEN "i32" ELSE "ref"
Default(type) == IF type = "i32" THEN Number(0) ELSE Reference(0)

(* runtime_validate_table_ref_value and its twin for globals *)
Sound(type, r) == type = "funcref" /\ r # 0 => r \in DOMAIN module.functions

TypeOf(t) == module.tables[t].type
Holds(t, i) == cells[tables[t].data][i + 1]

(* References in a row, n of them. *)
Written(c, at, n, refs) ==
  [i \in DOMAIN c |-> IF i \in at + 1 .. at + n THEN refs[i - at] ELSE c[i]]
Poked(t, at, n, refs) == [cells EXCEPT ![tables[t].data] = Written(@, at, n, refs)]

(* Only the host's arrays outlive an attachment. *)
HostsOnly(c) == [a \in DOMAIN c |-> IF a \in HostArrays THEN c[a] ELSE <<>>]

Emptied(c, end) ==
    /\ module' = NULL /\ tables' = <<>> /\ dropped' = <<>>
    /\ globals' = <<>> /\ traps' = <<>>
    /\ cells' = HostsOnly(c)
    /\ op' = end
    /\ UNCHANGED bindings

Bindings == {b \in [data : HostArrays, size : Nat] : b.size <= Length[b.data]}

Refused(c) == Emptied(c, Answer(<<"refused">>))

-----------------------------------------------------------------------------
(* Attaching.                                                              *)

Provides(b, t) == b # NULL /\ t.initial <= b.size /\ b.size <= t.max

Viewed(b) == [data |-> b.data, size |-> b.size, owns |-> FALSE]
Owned(i, n) == [data |-> i, size |-> n, owns |-> TRUE]

Zeroed(n) == [i \in 1 .. n |-> 0]
OwnsTable(m, i) == i \in DOMAIN m.tables /\ m.tables[i].name = NULL

(* Detaches first.  Memories and data segments, which come before tables   *)
(* and before element segments, may refuse the module too.                 *)
AttachModule(m) ==
    /\ op = Idle
    /\ \/ Refused(cells)
       \/ /\ \A i \in DOMAIN m.tables :
               ~ OwnsTable(m, i) => Provides(bindings[m.tables[i].name], m.tables[i])
          /\ module' = m
          /\ tables' = [i \in DOMAIN m.tables |->
                          IF OwnsTable(m, i) THEN Owned(i, m.tables[i].initial)
                          ELSE Viewed(bindings[m.tables[i].name])]
          /\ cells' = [a \in DOMAIN cells |->
                         IF a \in HostArrays THEN cells[a]
                         ELSE IF OwnsTable(m, a) THEN Zeroed(m.tables[a].initial)
                         ELSE <<>>]
          /\ dropped' = [k \in DOMAIN m.elements |-> FALSE]
          /\ globals' = <<>> /\ traps' = <<>>
          /\ op' = [kind |-> "segments", at |-> 1]
          /\ UNCHANGED bindings

(* runtime_resolve_element_ref, and the check that follows it *)
Unresolved == -1
Resolved(e, type) ==
  LET r == IF e.kind = "value" THEN e.of
           ELSE IF e.of \in DOMAIN globals /\ module.globals[e.of].type = type
                THEN globals[e.of].of ELSE Unresolved
  IN IF Sound(type, r) THEN r ELSE Unresolved

(* References are written until one cannot be resolved. *)
BugLeads(refs, n) == n = Len(refs)
Leads(refs, n) == /\ \A j \in 1 .. n : refs[j] # Unresolved
                  /\ n < Len(refs) => refs[n + 1] = Unresolved

References(s) == [j \in DOMAIN s.inits |-> Resolved(s.inits[j], s.type)]

Placing(mode) ==
    /\ op.kind = "segments" /\ op.at <= Len(module.elements)
    /\ module.elements[op.at].mode = mode

NextSegment == op' = [op EXCEPT !.at = @ + 1]
BugDrop(k) == UNCHANGED dropped
Drop(k) == dropped' = [dropped EXCEPT ![k] = TRUE]

SkipSegment ==
    /\ Placing("passive")
    /\ NextSegment
    /\ UNCHANGED <<module, tables, cells, dropped, globals, traps, bindings>>

DeclareSegment ==
    /\ Placing("declarative")
    /\ Drop(op.at) /\ NextSegment
    /\ UNCHANGED <<module, tables, cells, globals, traps, bindings>>

Fits(s) == /\ s.table \in DOMAIN tables /\ s.type = TypeOf(s.table)
           /\ s.offset + Len(s.inits) <= tables[s.table].size

ApplySegment ==
    /\ Placing("active")
    /\ LET s == module.elements[op.at]
           refs == References(s)
       IN \/ /\ ~ Fits(s)
             /\ Refused(cells)
          \/ /\ Fits(s)
             /\ \E n \in 0 .. Len(refs) :
                  /\ Leads(refs, n)
                  /\ \/ /\ n < Len(refs)
                        /\ Refused(Poked(s.table, s.offset, n, refs))
                     \/ /\ n = Len(refs)
                        /\ cells' = Poked(s.table, s.offset, n, refs)
                        /\ Drop(op.at) /\ NextSegment
                        /\ UNCHANGED <<module, tables, globals, traps, bindings>>

-----------------------------------------------------------------------------
(* Globals, when attaching and again whenever the embedder sets one.       *)

(* What is kept of the globals there were: the imported ones. *)
Kept(gs) == [i \in DOMAIN gs |->
               IF module.globals[i].imported /\ Matches(gs[i], module.globals[i].type)
               THEN gs[i] ELSE NoValue]

Cleared == [i \in DOMAIN module.globals |-> NoValue]

Evaluates(kept, attaching) ==
    /\ op' = [kind |-> "globals", at |-> 1, kept |-> kept, attaching |-> attaching]
    /\ globals' = Cleared
    /\ UNCHANGED <<module, tables, cells, dropped, traps, bindings>>

GlobalsLost ==
    /\ globals' = <<>> /\ op' = Trapped
    /\ UNCHANGED <<module, tables, cells, dropped, traps, bindings>>

(* The array of the globals may not be allocated. *)
StartGlobals ==
    /\ op.kind = "segments" /\ op.at > Len(module.elements)
    /\ \/ Evaluates(Cleared, TRUE)
       \/ module.globals # <<>> /\ Refused(cells)

Importable(i, v) ==
    /\ op = Idle /\ i \in DOMAIN globals
    /\ module.globals[i].imported /\ Matches(v, module.globals[i].type)

(* fa_Runtime_setImportedGlobal.  The old array is given up before the new *)
(* one is allocated.                                                       *)
SetImportedGlobal(i, v) ==
    /\ Importable(i, v)
    /\ Evaluates(Kept([globals EXCEPT ![i] = v]), FALSE) \/ GlobalsLost

(* The value is written first: when there is no memory to save what is     *)
(* kept, it stays there, unchecked, and nothing is evaluated.              *)
SetImportedGlobalStarved(i, v) ==
    /\ Importable(i, v)
    /\ globals' = [globals EXCEPT ![i] = v] /\ op' = Trapped
    /\ UNCHANGED <<module, tables, cells, dropped, traps, bindings>>

(* The value of global i, known when those before it are. *)
BugInitialised(g, i) ==
  IF g.imported THEN IF op.kept[i] # NoValue THEN op.kept[i] ELSE Default(g.type)
  ELSE IF g.init.kind = "const" THEN Number(g.init.of)
  ELSE IF module.globals[g.init.of].imported THEN Default(g.type)
  ELSE globals[g.init.of]
Initialised(g, i) ==
  IF g.imported THEN IF op.kept[i] # NoValue THEN op.kept[i] ELSE Default(g.type)
  ELSE IF g.init.kind = "const" THEN Number(g.init.of)
  ELSE IF g.init.kind = "get" /\ g.init.of < i /\ module.globals[g.init.of].type = g.type
       THEN globals[g.init.of]
  ELSE NoValue

GlobalsFail ==
    IF op.attaching THEN Refused(cells) ELSE GlobalsLost

InitGlobal ==
    /\ op.kind = "globals" /\ op.at <= Len(module.globals)
    /\ LET g == module.globals[op.at]
           v == Initialised(g, op.at)
       IN IF v # NoValue /\ Sound(g.type, v.of)
          THEN /\ globals' = [globals EXCEPT ![op.at] = v]
               /\ op' = [op EXCEPT !.at = @ + 1]
               /\ UNCHANGED <<module, tables, cells, dropped, traps, bindings>>
          ELSE GlobalsFail

GlobalsSet ==
    /\ op.kind = "globals" /\ op.at > Len(module.globals) /\ ~ op.attaching
    /\ op' = Done
    /\ UNCHANGED <<module, tables, cells, dropped, globals, traps, bindings>>

(* The cache of programs comes last, and may fail to be prescanned. *)
FinishAttach ==
    /\ op.kind = "globals" /\ op.at > Len(module.globals) /\ op.attaching
    /\ \/ Refused(cells)
       \/ /\ traps' = [f \in DOMAIN module.functions |-> FALSE]
          /\ op' = Attached
          /\ UNCHANGED <<module, tables, cells, dropped, globals, bindings>>

-----------------------------------------------------------------------------
(* The embedder, between instructions.                                     *)

DetachModule == op = Idle /\ Emptied(cells, Done)

(* fa_Runtime_bindImportedTable.  A binding that one of the imports of its *)
(* name refuses changes nothing.                                           *)
Asking(name) == {i \in DOMAIN tables : module.tables[i].name = name}
BugAccepted(name, b) ==
  Asking(name) # {} => \E i \in Asking(name) : Provides(b, module.tables[i])
Accepted(name, b) == \A i \in Asking(name) : Provides(b, module.tables[i])

BindImportedTable(name, b) ==
    /\ op = Idle
    /\ Accepted(name, b)
    /\ bindings' = [bindings EXCEPT ![name] = b]
    /\ tables' = [i \in DOMAIN tables |->
                    IF i \in Asking(name) THEN Viewed(b) ELSE tables[i]]
    /\ UNCHANGED <<module, cells, dropped, globals, traps, op>>

(* The arrays of the host are its own. *)
HostWrites(a, i, r) ==
    /\ op = Idle
    /\ cells' = [cells EXCEPT ![a] = Written(@, i, 1, <<r>>)]
    /\ UNCHANGED <<module, tables, dropped, globals, traps, bindings, op>>

SetFunctionTrap(f, enabled) ==
    /\ op = Idle /\ f \in DOMAIN traps
    /\ traps' = [traps EXCEPT ![f] = enabled]
    /\ UNCHANGED <<module, tables, cells, dropped, globals, bindings, op>>

ClearFunctionTraps ==
    /\ op = Idle
    /\ traps' = [f \in DOMAIN traps |-> FALSE]
    /\ UNCHANGED <<module, tables, cells, dropped, globals, bindings, op>>

Embedder ==
    \/ \E m \in Modules : AttachModule(m)
    \/ DetachModule
    \/ \E name \in Names, a \in HostArrays : \E n \in 0 .. Length[a] :
         BindImportedTable(name, [data |-> a, size |-> n])
    \/ \E a \in HostArrays, i \in Indices, r \in Refs : HostWrites(a, i, r)
    \/ \E i \in DOMAIN globals, v \in Values :
         SetImportedGlobal(i, v) \/ SetImportedGlobalStarved(i, v)
    \/ \E f \in DOMAIN traps, enabled \in BOOLEAN : SetFunctionTrap(f, enabled)
    \/ ClearFunctionTraps

-----------------------------------------------------------------------------
(* Instructions.                                                           *)

Running == op = Idle /\ module # NULL

Gives(got) ==
    /\ op' = got
    /\ UNCHANGED <<module, tables, cells, dropped, globals, traps, bindings>>

Writes(c) ==
    /\ cells' = c /\ op' = Done
    /\ UNCHANGED <<module, tables, dropped, globals, traps, bindings>>

GlobalGet(i) ==
    /\ Running
    /\ IF i \in DOMAIN globals THEN Gives(Answer(<<"global", i, globals[i].of>>))
       ELSE Gives(Trapped)

GlobalSet(i, v) ==
    /\ Running
    /\ IF /\ i \in DOMAIN globals /\ module.globals[i].mutable
          /\ Matches(v, module.globals[i].type)
       THEN /\ globals' = [globals EXCEPT ![i] = v] /\ op' = Done
            /\ UNCHANGED <<module, tables, cells, dropped, traps, bindings>>
       ELSE Gives(Trapped)

TableSize(t) == Running /\ Gives(Answer(<<"size", t, tables[t].size>>))

TableGet(t, i) ==
    /\ Running
    /\ IF i < tables[t].size /\ Sound(TypeOf(t), Holds(t, i))
       THEN Gives(Answer(<<"ref", t, Holds(t, i)>>)) ELSE Gives(Trapped)

(* call_indirect up to the call itself *)
CallIndirect(t, i, type) ==
    /\ Running
    /\ IF /\ TypeOf(t) = "funcref" /\ i < tables[t].size
          /\ Holds(t, i) \in DOMAIN module.functions
          /\ module.functions[Holds(t, i)] = type
       THEN Gives(Answer(<<"call", type, Holds(t, i)>>)) ELSE Gives(Trapped)

Settable(t, i, r) == i < tables[t].size /\ Sound(TypeOf(t), r)

TableSet(t, i, r) ==
    /\ Running
    /\ IF Settable(t, i, r) THEN Writes(Poked(t, i, 1, <<r>>)) ELSE Gives(Trapped)

BugFillable(t, start, n, r) == start + n <= tables[t].size
Fillable(t, start, n, r) == start + n <= tables[t].size /\ Sound(TypeOf(t), r)

TableFill(t, start, n, r) ==
    /\ Running
    /\ IF Fillable(t, start, n, r)
       THEN Writes(Poked(t, start, n, [j \in 1 .. n |-> r])) ELSE Gives(Trapped)

TableCopy(d, s, dst, src, n) ==
    /\ Running
    /\ IF src + n <= tables[s].size /\ dst + n <= tables[d].size
       THEN Writes(Poked(d, dst, n, [j \in 1 .. n |-> Holds(s, src + j - 1)]))
       ELSE Gives(Trapped)

(* The only instruction that may trap with a part of its work done. *)
TableInit(t, k, dst, src, n) ==
    /\ Running
    /\ LET s == module.elements[k]
           refs == [j \in 1 .. n |-> Resolved(s.inits[src + j], s.type)]
       IN IF /\ ~ dropped[k] /\ s.mode = "passive" /\ s.type = TypeOf(t)
             /\ src + n <= Len(s.inits) /\ dst + n <= tables[t].size
          THEN \E done \in 0 .. n :
                 /\ Leads(refs, done)
                 /\ cells' = Poked(t, dst, done, refs)
                 /\ op' = IF done = n THEN Done ELSE Trapped
                 /\ UNCHANGED <<module, tables, dropped, globals, traps, bindings>>
          ELSE Gives(Trapped)

ElemDrop(k) ==
    /\ Running
    /\ Drop(k) /\ op' = Done
    /\ UNCHANGED <<module, tables, cells, globals, traps, bindings>>

(* realloc may fail. *)
Growable(t, delta) == tables[t].owns /\ tables[t].size + delta <= module.tables[t].max

Grown(t, delta, r) ==
    /\ cells' = [cells EXCEPT ![tables[t].data] = @ \o [j \in 1 .. delta |-> r]]
    /\ tables' = [tables EXCEPT ![t].size = @ + delta]
    /\ op' = Answer(<<"grew", t, tables[t].size>>)
    /\ UNCHANGED <<module, dropped, globals, traps, bindings>>

TableGrow(t, delta, r) ==
    /\ Running
    /\ \/ /\ ~ Sound(TypeOf(t), r)
          /\ Gives(Trapped)
       \/ /\ Sound(TypeOf(t), r) /\ delta # 0
          /\ Gives(Answer(<<"grew", t, -1>>))
       \/ /\ Sound(TypeOf(t), r) /\ (delta = 0 \/ Growable(t, delta))
          /\ Grown(t, delta, r)

Program ==
    /\ Running
    /\ \/ \E i \in DOMAIN module.globals :
            GlobalGet(i) \/ \E v \in Values : GlobalSet(i, v)
       \/ \E t \in DOMAIN tables :
            \/ TableSize(t)
            \/ \E i \in Indices : TableGet(t, i)
            \/ \E i \in Indices, f \in DOMAIN module.functions :
                 CallIndirect(t, i, module.functions[f])
            \/ \E i \in Indices, r \in Refs : TableSet(t, i, r) \/ TableGrow(t, i, r)
            \/ \E i, n \in Indices, r \in Refs : TableFill(t, i, n, r)
            \/ \E s \in DOMAIN tables, dst, src, n \in Indices :
                 TableCopy(t, s, dst, src, n)
            \/ \E k \in DOMAIN dropped, dst, src, n \in Indices :
                 TableInit(t, k, dst, src, n)
       \/ \E k \in DOMAIN dropped : ElemDrop(k)

(* Whoever asked has the answer. *)
Settle ==
    /\ op.kind = "answered" /\ op' = Idle
    /\ UNCHANGED <<module, tables, cells, dropped, globals, traps, bindings>>

-----------------------------------------------------------------------------

Init ==
    /\ module = NULL /\ tables = <<>> /\ dropped = <<>> /\ globals = <<>>
    /\ traps = <<>> /\ op = Idle
    /\ cells = [a \in Arrays |->
                  IF a \in HostArrays THEN Zeroed(Length[a]) ELSE <<>>]
    /\ bindings = [name \in Names |-> NULL]

Next ==
    \/ SkipSegment \/ DeclareSegment \/ ApplySegment
    \/ StartGlobals \/ InitGlobal \/ GlobalsSet \/ FinishAttach
    \/ Embedder \/ Program \/ Settle

Spec == Init /\ [][Next]_vars

-----------------------------------------------------------------------------
(* Properties.                                                             *)

(* Every variable keeps its type: what a table points to exists and has    *)
(* the cells its size says, and nothing that is not a reference is ever    *)
(* written into one.                                                       *)
TypeOK ==
    /\ module \in Modules \cup {NULL}
    /\ tables \in Seq([data : Arrays, size : Nat, owns : BOOLEAN])
    /\ cells \in [Arrays -> Seq(Refs)]
    /\ dropped \in Seq(BOOLEAN)
    /\ globals \in Seq(Values \cup {NoValue})
    /\ traps \in Seq(BOOLEAN)
    /\ bindings \in [Names -> Bindings \cup {NULL}]
    /\ \A a \in HostArrays : Len(cells[a]) = Length[a]
    /\ \A t \in DOMAIN tables : tables[t].size <= Len(cells[tables[t].data])

(* Attaching is all or nothing.  When it succeeds the tables hold what the *)
(* active segments say, the later over the earlier even where two tables   *)
(* view one array, the segments that cannot be used again are dropped, and *)
(* no trap of the module before is left.  When it fails, at whatever step, *)
(* nothing is left of it but what it wrote into arrays of the host.        *)
Covers(s, a, i) == s.mode = "active" /\ tables[s.table].data = a
                   /\ i - s.offset \in DOMAIN s.inits
AsDeclared(a, i) ==
  LET over == {k \in DOMAIN module.elements : Covers(module.elements[k], a, i)}
      last == CHOOSE k \in over : \A l \in over : l <= k
      s == module.elements[last]
  IN IF over = {} THEN a \in HostArrays \/ cells[a][i] = 0
     ELSE cells[a][i] = s.inits[i - s.offset].of
AttachedAsDeclared ==
    /\ op = Attached =>
         /\ \A t \in DOMAIN module.tables : \A i \in 1 .. tables[t].size :
              AsDeclared(tables[t].data, i)
         /\ \A t \in DOMAIN module.tables : tables[t].owns =>
              tables[t].size = module.tables[t].initial
         /\ DOMAIN globals = DOMAIN module.globals
         /\ dropped = [k \in DOMAIN module.elements |->
                         module.elements[k].mode # "passive"]
         /\ traps = [f \in DOMAIN module.functions |-> FALSE]
    /\ module = NULL =>
         /\ tables = <<>> /\ dropped = <<>> /\ globals = <<>> /\ traps = <<>>
         /\ \A a \in DOMAIN cells : a \in HostArrays \/ cells[a] = <<>>

(* Every imported table views exactly what is bound under its name, within *)
(* the limits of each import of that name: a rebinding that one of them    *)
(* refuses changes none.  A table of the runtime's own stays within its    *)
(* maximum and shares its array with no other.                             *)
TablesInForce ==
    \A t \in DOMAIN tables :
      LET d == module.tables[t]
      IN IF d.name = NULL
         THEN /\ tables[t] = Owned(t, Len(cells[t]))
              /\ tables[t].size \in d.initial .. d.max
         ELSE /\ bindings[d.name] # NULL /\ tables[t] = Viewed(bindings[d.name])
              /\ tables[t].size \in d.initial .. d.max

(* What the globals say of each other: an immutable global has the value   *)
(* its initialiser gives now, also after the embedder has set the imported *)
(* one it is read from, and a reference among them is to a function of the *)
(* module.  Every evaluation that is completed makes it so, whatever was   *)
(* there before, and nothing takes it away but a fa_Runtime_setImported-   *)
(* Global that runs out of memory once it has written the value.           *)
Follows(i) ==
  LET g == module.globals[i]
  IN /\ Matches(globals[i], g.type)
     /\ ~ g.mutable => Sound(g.type, globals[i].of)
     /\ ~ g.mutable /\ ~ g.imported =>
          globals[i] = IF g.init.kind = "const" THEN Number(g.init.of)
                       ELSE globals[g.init.of]
GlobalsAgree == op.kind # "globals" => \A i \in DOMAIN globals : Follows(i)
GlobalsFollow ==
    [][GlobalsAgree =>
         \/ GlobalsAgree'
         \/ \E i \in DOMAIN globals, v \in Values : SetImportedGlobalStarved(i, v)]_vars

(* Nothing but the host makes a bad function reference.  A cell of a table *)
(* of functions that changes gets null, a function of the module or what   *)
(* another table held; and whatever the host wrote there, the program is   *)
(* only given, and only calls, functions that exist, of the type asked.    *)
SeenAs(type, a) == \E t \in DOMAIN tables : tables[t].data = a /\ TypeOf(t) = type
Changed(a, i) == i \notin DOMAIN cells[a] \/ cells'[a][i] # cells[a][i]
Held(r) == \E t \in DOMAIN tables : \E i \in 0 .. tables[t].size - 1 : Holds(t, i) = r
Sourced ==
    \A a \in DOMAIN cells : \A i \in DOMAIN cells'[a] :
      Changed(a, i) =>
        \/ cells'[a][i] = 0 \/ SeenAs("externref", a)
        \/ cells'[a][i] \in DOMAIN module.functions \/ Held(cells'[a][i])
Given ==
    /\ op'.kind = "answered" /\ op'.got[1] = "ref" /\ TypeOf(op'.got[2]) = "funcref" =>
         op'.got[3] \in {0} \cup DOMAIN module.functions
    /\ op'.kind = "answered" /\ op'.got[1] = "call" =>
         module.functions[op'.got[3]] = op'.got[2]
ReferencesChecked ==
    [][\/ \E a \in HostArrays, i \in Indices, r \in Refs : HostWrites(a, i, r)
       \/ Sourced /\ Given]_vars

(* ROADMAP.md:29 says that an element read from a global is resolved when  *)
(* an active segment is placed, as it is for table.init.  So a segment     *)
(* that fits is not refused for an element that names a global of its type.*)
Nameable(e, type) ==
  IF e.kind = "value" THEN Sound(type, e.of)
  ELSE e.of \in DOMAIN module.globals /\ module.globals[e.of].type = type
ActiveGlobalsResolved ==
    [][op.kind = "segments" /\ op.at <= Len(module.elements) /\ module' = NULL =>
         LET s == module.elements[op.at]
         IN ~ Fits(s) \/ \E j \in DOMAIN s.inits : ~ Nameable(s.inits[j], s.type)]_vars
=============================================================================
