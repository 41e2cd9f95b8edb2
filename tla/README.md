# Verification of fayasm

fayasm (`src/`) is a WebAssembly runtime in C for desktop and small devices. This
directory keeps TLA+ models of its stateful parts, the TLC runs that check them on
small instances, and proofs for every instance, checked by TLAPS.

## 1. Inventory of the system

One thread runs everything. The embedder calls the API, the API runs the execution
loop, the loop calls back into the embedder (host functions, trap hook, spill and load
hooks), and a callback may call the API again. Nothing runs in parallel and there is
no timer; what is hard is the order of calls, what a callback changes under its
caller, failure half way, and byte, page and height arithmetic at its limits.

| part | state it keeps | operations | works with |
|---|---|---|---|
| JIT program cache (`fa_runtime.c` 1563-2270) | per function: recorded opcodes, prepared program, ready, spilled, bytes; the running total, eviction cursor, prescanned flag | record, prepare, prescan, reserve and evict, spill, load, look up | the loop, spill hooks, `fa_jit.c` |
| JIT decision (`fa_jit.c`) | tier, budget, statistics | probe, score, update | cache, environment variables |
| Interpreter (`fa_runtime.c` 1262-1400, 2553-3130, 3863-5000) | call frames with pc and control frames, operand stack of the job | decode and execute, branch, call, return | cache, operations, host functions |
| Operations (`fa_ops.c`) | none; they act on the job and the instance | 256 opcodes, bulk and SIMD sub-opcodes | register window, memories, tables |
| Register window, operand stack (`fa_job.c`) | a list of at most four immediates; a stack of values | push, pop, evict the oldest | decoder, operations |
| Linear memory (`fa_runtime.c` 264-478, 663-685, 917-1040, 1176-1210, 3633-3834; `fa_ops.c` 697-737, 1236-1403, 2945-3096, 6541-6675) | buffer, size, owner and spilled mark of each; host bindings; dropped segments | load, store, fill, copy, init, size, grow; spill, load, save, restore; bind | operations, memory hooks, attach |
| Tables and element segments | references, size, host bindings, dropped segments | get, set, grow, fill, copy, init | `call_indirect`, attach |
| Instance (`fa_Runtime_attachModule`) | module, stream, globals, function bindings, traps | attach, detach, bind, set a global | everything above |
| Trap hooks | a flag per function | set, clear, check at a call | calls |
| Spill envelopes (`fa_jit.c` 326-420) | none | write, read | cache and memory hooks |
| Module parser (`fa_wasm.c`), instruction stream | the tables of a module | load sections | instance |
| Samples, tests, architecture macros, list | | | |

What makes each correct:

- **JIT cache**: the operation that is dispatched is the one of the instruction that
  was decoded; the byte total is the sum over the table and stays within the budget;
  making room for a function does not cost it its own program; a function marked as
  spilled can be recovered; every sweep and retry ends.
- **Interpreter**: control goes where the nesting of the blocks says and fails only
  where the program may fail; before each instruction operands and control frames are
  what validation says; a job leaves its results and nothing else.
- **Linear memory**: an instruction sees and does the same wherever the bytes are; no
  buffer is freed twice, freed though it is the host's or, but where an import without
  bytes is bound over, lost; sizes stay within the declared limits; rebinding is all or
  nothing.
- **Instance, tables**: a failed attach leaves nothing behind; tables hold what the
  segments say and view what is bound; globals agree with their initialisers as long as
  memory does not run out; no bad function reference reaches the program, whatever the host writes.
- **Decoding**: every reader of a body finds the same instructions, and each handler
  gets the immediates of its own.
- **Parser**: a whole stream yields what was declared, whatever the order of imports
  and of loaders; a cut one never yields a function that was not written.
- **Operations**: the result is the one WebAssembly defines, and a trap takes nothing
  from the stack.

`PROJECT.json` lists the components with what is left out of each, and the hazards at
the lines where they bite; those without a property say
why.

## 2. Plan

Most important behaviour first. Done:

1. `JitCache` and `JitCacheProofs`: the part with the most state and the most callers.
2. `Bodies`, `ControlFlow`, `Interpreter`, `BodiesProofs`, `InterpreterProofs`: the loop
   against structured control.
3. `Contents`, `LinearMemory`, `RuntimeMemory`, `RuntimeMemoryProofs`: memories against
   an abstract memory. `DataLemmas` has what the proof modules need of data.
4. `Format`, `Parser`, `ParserProofs`: sections and loaders against what a stream was
   written from, `Format` being how it is written.
5. `Numbers`, `Operands`, `Scalar`, `Simd`, `WasmNumerics`, `Numeric`, `NumericProofs`:
   the operations against facts about their results.
6. `Instance` and `InstanceProofs`: attaching, tables, segments, globals, host tables.
7. `Decoding`, on top of `Parser`: the three readers of immediates, and the register
   window between the decoder and the handlers.

To do, in this order:

8. Bindings of functions by name and host functions that call the API from within a
   job, with the job's own stack among what they may change.
9. `JitCache` and `RuntimeMemory` composed at the grain of a handler, for a memory hook
   that spills the program that is being executed.
10. The score of `fa_jit_score_advantage` and what may change the tier.

## 3. What each module models

### JitCache

`pc` is the position of the thread: an instruction goes through `fetch`, `maybe`,
`prepare`, `lookup` and `dispatch`; `reserve` is the eviction loop, one turn an
action, because it calls the spill hook; `prescan` is the scan, one instruction an
action. `recorded[f]` stands for `offsets`, `opcodes` and `pc_to_index` of the entry
at once; `program`, `ready`, `spilled`, `programBytes` are its other fields, and
`store` is what the embedder keeps. `Install` is release-then-assign, as the code does
it in `runtime_jit_prepare_program`, in `runtime_jit_cache_load_entry` and in the
prescan. `Attach` is `fa_Runtime_attachModule` as far as the cache is concerned;
`StartJob` may come from a host function of another job.

The decision is a choice within what `fa_jit_decide` guarantees: no budget without
resources, the tier off without a budget, and inside a job a tier that only rises,
since statistics only grow (`Rise`). Which instruction comes next is any of any
function: the theorems hold for every control flow.

### Interpreter

A frame is function, pc and control frames. One turn of the loop is one action,
errors and the unwinding of frames included. A body is a sequence of instructions;
values are known by their types, conditions are free, `div` stands for every
operation that can fault, `apply` for the others. `Scan` is `runtime_scan_block`;
`Branched` and `Carry` are the two halves of `runtime_branch_to_label`. The module is
not validated by the runtime, so `Bodies` has WebAssembly's validation as the
reference, and `Valid` is an assumption on the modules (`ValidAssumption`): what an
invalid body does is outside. `ControlFlow` is the abstract
specification: calls and places only, no operands, no record of entered blocks;
`StructuredControl` is the refinement.

### RuntimeMemory

A memory is its `fa_RuntimeMemory`: `data` is a buffer, of the allocator or of the
host; `heap` says what each buffer holds. `op` is the instruction in progress: it has
its memories loaded in order (`Ensure`, then the hook), and only then takes its
operands, checks bounds and acts. The load hook is a state, in which the embedder may
spill, save and restore any memory and rebind imports; putting the bytes back is its
own call of `DeserializeMemory`, as `samples/esp32-trap` does it. `Top` is
`UINT64_MAX`: sums are taken modulo `Top + 1`, so a check that could wrap does.
`MaxBytes` is `INT_MAX`. A host may bind no bytes (`NULL` in `HostMemories`) to an
import that needs none; a copy can be put back into such an import, which then owns the
buffer (`Replaceable`), and binding it again overwrites the pointer (`OfHost`). `Lost` is
what is lost this way. Attaching is one action with its failures (`AttachFails`),
because nothing of the embedder runs inside it.

`LinearMemory` is the abstract specification: objects with a size and cells; that of an
import is the host's, or its own while the host gives it nothing. The
record of an instruction that ended carries what was asked, so that a wrapped address
is not taken for the one it wrapped to. The mapping takes the cells of a memory from
its buffer, from the embedder's file while it is spilled, or from the host's buffer.

### Parser

A stream is a sequence of items: a byte, a whole LEB128 number, a name, the bytes of a
segment; reading past its end gives 0 for a number and an error for a byte, as
`wasm_stream_read` and the number readers do. `Got` is where a reader
stopped and what it brought. The import section is walked by four loaders, each with a
copy of the loop; the copies skip the same fields, so one operator (`Walk`) stands for
them, with what each refuses on its own (`Refused`). A loader is one action and keeps what it had read when it fails, as
the tables of `WasmModule` do. Files seek and buffers do not go past their end
(`CanSeek`). `Format` says what a module may declare, the items its sections are written
with and where they stand (`LaidOut`). A stream of `Files` is any sequence of numbers
(`StreamsAssumption`); one that is `formed` is what a declaration is written with, cut
after any item (`FormedAssumption`), and the declaration is the reference; one that is
`whole` is not cut (`WholeAssumption`). `MCParser` writes such streams, and some that are
not.

`TypeOK` bounds the functions of a table that was loaded, not of one whose loader
failed: that one is left with the sizes it had read, and the last may reach past the end
of a buffer (streams `overlong` and `overlapping`). `wasm_load_function_body` then finds
too few bytes and hands out nothing.

### Decoding

It extends `Parser`: once the loaders have been called, a body they handed out is
prescanned or run. `SkipTable`, `PrescanTable` and `DecodeTable` are the three switches
over opcodes, of `runtime_skip_immediates`, `runtime_prescan_skip_immediates` and
`runtime_decode_instruction`, each translated on its own; `Scan` is
`runtime_scan_block`, `Prescan` is `runtime_jit_prescan_function`. One instruction is
two actions: it is decoded, which pushes its immediates (`Keep` is
`runtime_push_reg_value`, where the oldest of more than `Window` fall out), and run,
which pops them as the handler of `fa_ops.c` does (`Takes`, `TakesBulk`,
`TakesVector`), each for something: an offset, a lane, a table. Where the instructions
were written, and what each immediate was written as, comes from the declarations of
`MCParser`. Control falls through, since where it goes is the matter of `Interpreter`.

### Numbers, Operands, Scalar, Simd, Numeric

One instruction on one stack. `Operands` is how a handler takes operands, puts them
back and answers; `Scalar` and `Simd` have one action for each handler or family of
macro cases, with the same order of checks, and compute as the code computes: in 64
bits, cut when pushed. `WasmNumerics` says what WebAssembly asks, not by computing it but
by what is true of operands and result (a quotient q has |x - qy| < |y|, a rotation
has each bit where it should be), so that an error of the code is not repeated in its
reference. Floats are numbers of halves, infinities and NaN; arithmetic on them is the
term that C evaluates, and the properties say that it is the right function of the right
operands. Signed overflow of 64-bit `+`, `-` and `*` is undefined in C and
taken to wrap; a remainder that is undefined and a cast that is undefined answer with
anything or end the program (`status = "dead"`).

### Instance

`op` says what is going on: attaching goes through `segments`, one at a time, and
`globals`, one at a time, and each step may be the last (`Refused`), with everything the
lists of resets in `fa_Runtime_attachModule` take back (`Emptied`). Tables point to
arrays: `cells[t]` is the array of own table t, the others are the host's, and several
tables may view one. `Leads` is the one idea behind active segments and `table.init`:
references are written until one cannot be resolved. `SetImportedGlobal` runs the
same steps as attaching, over the imported values it keeps; without memory for the new
globals it leaves none, and without memory to save what is kept
(`SetImportedGlobalStarved`) it has written the value and evaluates nothing. Instructions are one step
each; what they give back stays in `op` until `Settle`, so that properties can speak
of it. The host writes what it likes into its arrays at any time. What memories, data
segments, other allocations and the prescan may do to an attachment is a refusal that may come
where the code has it.

## 4. Runs

| run | what it shows | distinct states |
|---|---|---|
| `jit_cache` | everything the cache promises within one attachment, with hooks that come, go and fail | 1.1 million |
| `jit_prescan_reboot` | with every function prescanned, a store that outlives the attachment is safe; every reservation, scan and instruction ends | 49 thousand |
| `jit_reboot` | without the prescan it is not (finding) | counterexample |
| `interpreter` | operands, control frames, results, structured control, and that a job ends or loops | 99 thousand: all bodies of up to 7 instructions over five alphabets |
| `interpreter_nested` | a call with operands under its arguments loses them (finding) | counterexample |
| `memory` | two memories, three buffers: spilling and growth under every instruction | 1.3 million |
| `memory_imports` | rebinding, host memories without bytes, and failing attachments | 2.7 million, up to the names of free buffers |
| `parser` | what loaders leave of whole and of cut streams; that whatever reads a body finds the instructions it was written from, and each handler its own immediates | 116 thousand |
| `numeric` | every handler at the operands where something changes | 54 thousand |
| `numeric_trunc` | truncations at the ends of the range (finding) | counterexample |
| `instance` | attaching, failing to attach, rebinding, globals, running out of memory, every instruction on tables | 322 thousand |
| `instance_active_globals` | an active segment that reads a global (finding) | counterexample |

Bounds, and why they are enough:

- `jit_cache`: three functions, two of them with two instructions. Two are needed for
  eviction, a third for a cursor that passes the requester; two instructions for two
  recording orders and for a program that is a proper prefix. The budget of three
  operations holds one long program or a long and a short one. `OpBytes` is 1 because
  only sums are compared. One opcode has no operation and one function cannot be
  scanned, so that every failure is met.
- `jit_prescan_reboot`: chunks of one operation, one of them per scan, and budgets that
  hold three programs, one or none. With the last a job under a shrunken budget can
  neither load a spilled program nor prepare it, the one way to the load in
  `runtime_jit_lookup_prepared`.
- `interpreter`: seven instructions hold two nested blocks with a branch out of both;
  the alphabets separate blocks, ifs, calls, loops with parameters, and loops with ifs.
  An if within an if, each with or without an else, is longer than that and is
  written out (`NestedIfs`).
  `MaxCallDepth` is 2, reached by a callee that calls back. `Supported` leaves out
  the two forms in which the runtime differs from WebAssembly: calls with operands
  under the arguments (run `interpreter_nested`) and branches to a loop with results
  and no parameters (`test_loop_label_result` expects what the code does).
- `memory`: a page is one cell, and addresses, lengths and growth run from 0 to `Top`,
  which is 2, so that every sum that can wrap does. Three buffers for two memories and
  a growth that needs both the old and the new one. `memory_imports` has a host
  memory of one page, one of two and one of none, for imports of up to one and of up to
  two. There `MaxBytes` is 1, so that copies have a page at most, and the buffers are a
  symmetry set: no constant and no property but safety ones tells them apart, and the
  choice of a free buffer (`Fresh`) is of no consequence, since free ones are alike.
  The imports there have no minimum, so that buffers are lost: `LostByRebind` says where,
  and `NoBufferLost` is checked in `memory`.
- `parser`: every order of three out of five imports, one of each kind and two memories,
  which is every pair of kinds in both orders with something before or after; a small
  module with functions and data cut after each of its items; modules without imports, of
  imports only and with an element read from a global; one with a body longer than the
  stream and one with sections that overlap; each as a file and as a buffer.
  Bodies have every opcode and sub-opcode, in blocks, with no memory, one and two, and
  immediates that are the opcodes of `end`, `else` and blocks, so that a reader that
  loses its place goes astray; one instruction of each form is cut after each of its
  items. `Window` is the program's 4.
- `numeric`: a byte has two bits, so that widths are 8 and 16 bits and lanes 2 to 16:
  their relations are the program's, and ranges are short enough to take both their
  ends. Operands are the numbers next to the ends and to 0, amounts around the width,
  floats a half away from each limit, infinities and not-a-numbers, vectors of extreme
  lanes and vectors whose lanes all differ, addresses around the end of the memory, and stacks too short or of the
  wrong kinds. The widest floats of the program, whose neighbours are further apart
  than 1, are beyond halves; the limits of 64 bits are taken as exact.
- `instance`: host arrays of one and of two cells, so that a rebinding may be too small;
  references and functions up to 2, one more than most modules have functions; 32-bit
  globals of 0 and 1 (`Words`); a global of the host whose function the module may not
  have, read by a passive segment; eight modules, five of which are refused, for a reason that comes later in each: a segment
  too long, a segment of the wrong type, a function that does not exist after some were
  written, an element read from a global, a global read from a later one. Mistyped
  operands trap before anything is done and are left out.

Fairness. `Spec` of `JitCache` and of `Interpreter` has weak fairness of the loop: it
runs on the caller's thread and waits for nothing. Nothing is assumed of the embedder
and of the choice of instructions, and hooks return (a hook that never returns stops
the runtime as well). `RuntimeMemory`, `Parser`, `Numeric` and `Instance` have no
liveness property and no fairness: their actions are calls that end by themselves.
No run turns off the check for deadlock.

Every property of a passing run has a mutant in `PROJECT.json`: a definition the same
run would refute. They stand before the definition they change, named `Bug...`.

## 5. Findings

- **A program stored before a reboot runs another instruction's operation**
  (`jit_reboot`). `runtime_jit_cache_load_entry` installs what the hook returns without
  comparing it with the recording, and programs are indexed by first execution. Stored
  after one branch and loaded after a run that took the other, the program is wrong.
  Prescanning at attach makes the order the same in every boot (`jit_prescan_reboot`).
- **A call discards the operands of its caller** (`interpreter_nested`).
  `runtime_push_frame` gives the outermost control frame the height 0, and the operand
  stack is shared by all frames.

- **Truncations trap next to the limits** (`numeric_trunc`). `trunc_f64_to_i32` compares
  the operand with the limits before its fraction is dropped: `i32.trunc_f64_s` traps on
  2147483647.5 and -2147483648.5 and `i32.trunc_f64_u` on -0.5, where the saturating
  form, which is said to mirror it, does not clamp.
- **An active element segment cannot read a global** (`instance_active_globals`).
  Segments are placed before globals are initialised, so the module is refused; a
  passive segment with the same element works.

All four were reproduced with the library built from `src/`.

Two failures are left as they are in the code and named as exceptions of a property, at
the step where they happen:

- An import bound to no bytes is given a buffer by a restored copy; binding it again
  overwrites the pointer and the buffer is lost (`fa_runtime.c` 3812-3831, 429-432).
  `LostByRebind` says that this is the only way to lose one.
- `fa_Runtime_setImportedGlobal` writes the value and then fails to allocate
  (`fa_runtime.c` 3337, 794-796): it returns an error, with the new value in place,
  unchecked, and globals that still have what they read from the old one.
  `GlobalsFollow` says that this is the only way to such globals.

The results of four families of instructions are not those of WebAssembly, and no test or
document says which they should be. `ScalarExact` and `LanesExact` demand what the code
answers, so that they hold for every operand:

- `min` and `max` of NaN and a number are the number, for scalars (`fa_ops.c` 2618-2623)
  and for lanes (5959-5962): `fmin` and `fmax` drop NaN, WebAssembly does not.
- `pmin` and `pmax` are NaN if either operand is (3617-3643); in WebAssembly they are the
  first operand when only the second is NaN.
- `narrow_u` reads the lanes it narrows as unsigned (5028-5029, 5289-5290): a lane below
  zero becomes the largest one, in WebAssembly 0.
- `i8x16.relaxed_swizzle` takes every index modulo 16 (6172-6174); WebAssembly has 0 for
  an index of 128 or more.

The models know vector instructions by the names in the comments of `fa_ops.c`. From 0x67
on the numbers are not those of the binary format (0x67 is `i8x16.shl`, there
`f32x4.ceil`), and vectors have no `ceil`, `floor`, `trunc` and `nearest`.

Where the code differs from WebAssembly and the tests expect it, the models follow the
code: branches to a loop with results and no parameters carry the results
(`test_loop_label_result`), and an element segment with flags 4 has a type, which
WebAssembly has only for flags 5 to 7 (`test_externref_table_active_null_elem_expr`), so
that a standard segment of that form is misread or refused. `table.init` reads its
table before its segment, where WebAssembly has the segment first; `MCParser` writes it
as the decoder reads it. And with several memories a lane access (`v128.load8_lane`
and the seven after it) has five immediates, one more than the window holds: its memory
falls out and it always traps. `ImmediatesExact` has this as its one exception
(`TooWide`). Both were reproduced with the library.

## 6. Proofs

`JitCacheProofs` proves, for every number of functions, every body, budget, chunk
limit and set of opcodes:

| theorem | property |
|---|---|
| `TypeCorrect` | `TypeOK` |
| `EntriesConsistent` | `EntryConsistent` |
| `GrowthBounded` | `GrowthWithinBudget` |
| `RequesterProtected` | `RequesterKeepsProgram` |
| `SpilledStays` | `SpilledUntilReloaded` |
| `TotalAccounted` | `BytesAccounted` |
| `DispatchCorrect`, `SpilledCorrect` | `DispatchFaithful`, `SpilledRecoverable`, if the store does not outlive the attachment |

Assumptions are those of the module: a positive number of functions and sizes, bodies
that are sequences of opcodes. The two last theorems assume `~StorePersists`; the run
`jit_reboot` shows that they need it.

The argument. `TypeOK` is inductive. Nothing else is by itself:

- `GrowthWithinBudget`, `RequesterKeepsProgram` and `SpilledUntilReloaded` depend on
  what a reservation was made for when it ends, many steps after it began.
  `ThreadState` ties the reservation to the thread: what is needed is the size of what
  is coming, and the function has a record.
- `EntrySteps` says once what a step can do to programs (nothing, clear, evict one,
  install one); every proof about programs is a case split on it.
- `DispatchFaithful` needs that every program is a prefix of the opcodes recorded.
  That holds only if what the store holds is a prefix too, and what a load in
  progress brings. `Prefixes` joins the four, and `StepPrefixes` shows first that
  recording more disturbs none of them.
- `BytesAccounted` speaks of a sum over a table of any size. The sum is a recursive
  function; `BytesBelowSum` gets what is needed of it from `SetInduction` (`DataLemmas`),
  which states induction over numbers for a set, as induction over an operator is out
  of the provers' reach.

`InstanceProofs` proves, for all modules, host arrays, names, references and operands:

| theorem | property |
|---|---|
| `TypeCorrect` | `TypeOK` |
| `TablesCorrect` | `TablesInForce` |
| `ReferencesCorrect` | `ReferencesChecked` |
| `GlobalsCorrect` | `GlobalsFollow` |
| `AttachmentCorrect` | `AttachedAsDeclared` |

Assumptions are those of the module: references and operands are natural numbers, an
array of the host is not a number, limits have their minimum below their maximum, an
initialiser is a 32-bit constant or reads an immutable global of the module.

The argument. Neither `TypeOK` nor `TablesInForce` is inductive. Growing a table
keeps every other table within its array only if no other table has that array, which is
what `TablesInForce` says of own tables; it in turn needs that an own table is one the
module declares, and that while segments and globals are set up there is a module of
which `op` is a position. `IInv` is the three together, with `Shape` for the last, and
`Invariance` is proved with one lemma for each group of actions. `ReferencesCorrect`
needs no more than `IInv`: a step writes a reference only through `Sound` or out of
another table. `GlobalsCorrect` needs that, while globals are being evaluated, those
done already agree with their initialisers, and that these read only from those done
(`EInv`); the value of one that is still to be set is never looked at. So every evaluation
that is completed ends in agreement, also one after the failure that left none
(`Starved`), and no other step touches an immutable global.
`AttachmentCorrect` carries through the attachment what the segments so far have made of
every cell of every array (`Laid`): what the last of them over it says, or as it was
made. That such a last one exists is part of `Laid`, so each segment only has to be
later than those before it, and the `CHOOSE` of the property is resolved once, when
all are placed (`AllPlaced`). Elements are written as they are in the segment because
there are no globals yet that one could be read from; this is also why the finding of
run `instance_active_globals` holds. `DInv` says the same of the marks of segments and of the
sizes of tables, and of nothing else than the host's arrays being left where there is
no module.

`RuntimeMemoryProofs` proves, for all memories, buffers, host memories, names, limits,
page sizes, segments and widths of access:

| theorem | property |
|---|---|
| `TypeCorrect` | `TypeOK` |
| `BuffersCorrect` | `NoBufferLost` |
| `LossConfined` | `LostByRebind` |
| `GoneCorrect` | `GoneIsSpilled` |
| `BindingCorrect` | `BindingInForce` |
| `LimitsCorrect` | `WithinLimits`, if no memory is declared with a maximum below its initial size |

Assumptions are those of the module: the buffers of malloc, those of the host and NULL
differ from each other and from the mark of a name that is not bound, and a freed buffer
from the contents of one; a page has at least one cell; imports are memories; limits are natural numbers;
segments name memories. `LimitsCorrect` assumes more, because the code compares the
initial size of a memory of the module's own with nothing (`fa_runtime.c` 925-1030,
`fa_wasm.c` 1200-1216): such a memory starts, and stays, above its maximum.

The argument. None of the six is inductive; all follow from `IInv`, which has a part
for the memories and one for the instruction in progress.

- A memory is what the module declares (`Placed`): none without a module; an import has
  exactly the host memory bound under its name, or a buffer of its own if that has no
  bytes (`MayOwn`); an own memory has a buffer that holds its
  cells, or is empty or spilled. A restored copy may change the size, so what the
  embedder holds must keep the limits too (`CopyOf`).
- No two memories own one buffer (`Separate`). That none is lost is said of steps: every
  step under `IInv` leaves `Lost` as it was or smaller, or is a rebinding (`NextSteps`),
  and an import with a minimum never owns a buffer, so that a module of such imports has
  none to lose. Growing and restoring take a new buffer while the old one is still in use; `BuffersHeld` says that a buffer in use is not free, so that the new
  one is another, and `Refilled` that freeing the old one then loses nothing.
- Attaching places memories and writes the segments, by a function that is recursive
  over them; `WrittenFills` shows with `SetInduction` that after any number of segments
  every buffer still holds cells of its memory's size.

The same module proves that `RuntimeMemory` implements `LinearMemory`, under the
mapping at the end of `RuntimeMemory`:

| theorem | property |
|---|---|
| `Implements` | `LinearMemorySpec` |

Assumptions are those of the module; for this theorem it states two more: an object is
either a memory or a host memory, and no host memory or segment is larger than the
largest address, as their sizes are `size_t` and `Top` is the largest 64-bit number.

The argument. Every step under `IInv` is an instruction of `LinearMemory`, a step of its
embedder, or shows nothing.

- `View` reads the mapping off the invariant: the object behind a memory has the
  memory's size and, while the bytes are at hand, what its buffer holds. Loading and
  spilling move bytes without changing the view (`SameView`, `ReplacedView`): the copy
  in the embedder's file stands for the buffer, as the invariant says whose it is.
- An instruction that passes the bounds check is within the object although the sums
  are taken modulo `Top + 1` (`Bounds`), and writes to one object, also when two
  imports share it (`Overwritten`).
- Growing needs one fact that `IInv` does not have: a memory that has been loaded
  is at hand when the instruction acts (`AtHand`). Without it a growth could start from
  zeros where the memory had bytes.
- Attaching writes the segments one after the other, both in the code's buffers and in
  the objects of `LinearMemory`; `AttachedView` follows the two functions with
  `SetInduction`, also for the attachment that fails at some segment, which leaves what
  it wrote in host memories.

`InterpreterProofs` proves, for all valid modules of any number of functions, every
limit of calls and every set of trapped functions:

| theorem | property |
|---|---|
| `TypeCorrect` | `TypeOK` |
| `OperandsCorrect`, `ControlCorrect`, `ResultsCorrect` | `OperandsAgree`, `ControlAgrees`, `ResultsDelivered`, if every module is `Supported` |
| `StructuredCorrect` | `StructuredControl`, the refinement of `ControlFlow`, under the same condition |

Assumptions are those of the module, which says that functions the runtime executes are
valid. All but the first theorem assume `Runnable`: no module is of the two forms in
which the runtime differs from WebAssembly, calls with operands under the arguments and
branches to a loop with results and no parameters. `MCModules` is filtered by the same
`Supported`; the run `interpreter_nested` shows what happens without the first.

The argument has two halves. `BodiesProofs` is about the reference alone. Validation
counts the open blocks with a stack and `Bodies` finds them by nesting; `AroundFound`,
`AroundInOrder` and `LabelFound` show that they are the same blocks in the same order,
so that a label names the block validation says. Its heart is that what lies under a
block does not change while the block is open (`Kept`), so that a height noted when the
block was entered is right when it is left. Both need induction along the body, which
is `SetInduction` again.

`InterpreterProofs` shows of the code that a frame whose control frames are the open
blocks (`Framed`) still has them after each instruction:

- `ScanFound`: the scan that is made when a block is entered, which counts openers and
  ends, stops at the end that closes the block.
- `LandsAt`: after a branch, which pops control frames and unwinds to the height noted in
  the one it names, the frame is what validation says at the target, although it came
  there by another way than the text.
- `Agreeing` is the invariant: every call frame is `Sound`, every one but the last
  waits at the instruction after its call with no operands of its own left (`Waits`),
  and the operand stack is what validation has for the running one. A frame that waits
  matters because `End` and `Return` unwind to a height that counts from nothing; this is
  where `Supported` is needed.
- One lemma for each instruction says what its turn leaves and where it goes (`Went`,
  `Stopped`, `Made`). `AgreeingStep` has the invariant from them, and `StructuredStep`
  that each is a step of `ControlFlow`; popping a frame that is past its end shows
  nothing.

`NumericProofs` proves, for every width of a byte, instruction, stack and vector:

| theorem | property |
|---|---|
| `OperandsKept` | `TrapKeepsOperands` |

Assumptions: that of `Numbers` on the width, and `CasesAssumption`, that the vector
instructions which lose what they took have the operands validation gives them (a scalar
or an address, and the vector above it for a store or a lane). What the stack holds is
not assumed. The argument. Whatever an instruction computes, its handler either answers,
puts back what it took, or loses some of it (`AnswerKeeps`, `PutBackKeeps`, `LoseKeeps`),
and a store writes the bytes it was given at the address under them (`StoreKeeps`). What
is put back is what was there because a stack is its lower part and its last elements in
their order (`SplitIsWhole`); what is lost is no more than the instruction takes.

`ParserProofs` proves, for all streams, well formed or not, in files and in buffers:

| theorem | property |
|---|---|
| `TypeCorrect` | `TypeOK` |
| `RunnableCorrect` | `RunnableAsDeclared` |
| `LoadersCorrect` | `LoadersExact` |

Assumptions: `StreamsAssumption` for `TypeCorrect`; for `RunnableCorrect` also
`FormedAssumption`, since it compares a stream that is `formed` with its declaration; for
`LoadersCorrect` also `WholeAssumption`. They say what `formed` and `whole` mean, not what
the program does; what a module may declare (`LaidOut` in `Format`) is all they restrict.

The argument. Loaders are folds over a section, and each fold is a recursive function;
`ReadSteps`, `EntriesSteps` and `WalkSteps` get from `SetInduction` that there is one and
what a step of it does. Places only grow from one read to the next (`ReadTyped`), so that
the sections `SectionsFrom` finds are in order (`SectionsFromAscend`), and a code entry
that was skipped by a seek in a buffer lies inside it (`CodeTyped`, `TableInside`).
For `RunnableCorrect`, the scan of a stream that is cut finds every section that is
whole, and nothing that is not a section of the layout (`SectionsFind`). A field reads
what it was written with, so an entry does (`ImportEntry`, `FunctionTypeEntry`), so a
section that is whole does (`KindRead`). A function has a place for its body only if the
stream reaches the code section; then the types, imports and functions, which come
before it, are whole (`WholeBeforeCode`), and the table has the functions and the types
of the declaration. The code section itself may be cut: the entries that are there are
the first ones, and a body that is whole is the one written (`CodePartial`). `Kept` is
the invariant: it also says that a body outlives the table it came from only to meet one
like it, since a loader that is called again finds the same.

For `LoadersCorrect`, every section of a whole stream is whole (`WholeEverywhere`), and
each kind of entry is read back from the numbers it was written with: `ExportBack`,
`TableBack`, `MemoryBack`, `GlobalBack`, `DataBack`, `ImportsRead` for the four walks over
the imports, and `SegmentBack`, where the flags decide what the head has (`HeadRead`) and
whether the elements are indices or expressions (`ElementsBack`). `TableExact` joins the
types, the imports and the bodies to the functions. So a loader leaves what was declared
(`LoadExactly`). An element may be the value of a global, which its loader looks up in
what the loader of the globals left; that the globals, once loaded, are those declared is
therefore part of the invariant (`WholeInv`, which adds `GlobalsKept` to the one of
`RunnableCorrect`), and elements may be refused before that.

Only model-checked: `InstructionCompletes` and `JobEndsOrLoops` (liveness);
`ImmediatesExact` of `Decoding`, and `TypeOK`, `ScalarExact` and `LanesExact` of
`Numeric`, which compare recursive definitions and tables of operations with a reference
over data that the runs enumerate.

## 7. Abstractions and what is not modelled

- `Interpreter`, `JitCache` and `Instance` count instructions, `Decoding` numbers and
  bytes; LEB128 below the number, so an overlong one, is in none. `Decoding` does not
  look up what an index refers to, so it has no trap but that for a missing immediate.
- Jobs: one at a time in `Interpreter`. `JitCache` has a job started by a host
  function; a host function that runs the very job it was called from is a hazard
  without a property.
- A hook that is not set is a hook that fails. The hooks and the snapshots of a memory
  use one file for each memory, as in `samples/esp32-trap`; a snapshot of another
  module's memory is outside.
- A bulk operation of no bytes may answer either way in `LinearMemory`: the code
  traps on a memory without pages and succeeds beyond the end, unlike WebAssembly.
- 32-bit and 64-bit memories differ only in the types of their operands here.
- malloc returns any free buffer; which one is chosen once, as buffers are alike.
- Attaching, and so replacing a module, happens between instructions, not in a hook.
- Not modelled: the tables that give an opcode its handler, the microcode probe and the
  instructions on references (`op_ref_*`), which test or push one value; function
  bindings by name and dynamic libraries; the bytes of envelopes; the instruction
  stream, which only tests use; the command line runner, which parses arguments; the
  scoring and the environment overrides of the JIT.
- In `Numeric`, rounding, the bits of floats and the sign of zero are left out.
- In `Parser`, failing allocations, the contents of custom sections and printing are
  left out, and a number is read whole.
- In `Instance`, indices of tables and segments exist, as the parser and validation leave
  them, and a hook that changes traps while it is called is left out.
