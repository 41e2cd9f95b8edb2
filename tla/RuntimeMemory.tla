--------------------------- MODULE RuntimeMemory ----------------------------
(* The linear memories of fa_runtime.c and the instructions of fa_ops.c    *)
(* that use them.  A memory is a record that points to a buffer: one of    *)
(* its own, which the embedder may move out to a file and back through     *)
(* hooks, or one of the host, which the embedder may replace while the     *)
(* module is attached.  The load hook is the embedder's code: while it     *)
(* runs it may spill other memories, take and put back copies, and rebind  *)
(* imports.                                                                *)
(*                                                                         *)
(* One thread runs all of it.  An instruction is `op' from its start until *)
(* it is `ended' and gone, and whatever the embedder does in a hook falls  *)
(* between.  A hook that is not set is a hook that fails.                  *)
EXTENDS Contents

CONSTANTS Buffers,      \* what malloc can return
          HostBuffers,  \* the embedder's own
          HostSize,     \* cells of each, whole pages or not
          Imported,     \* the memories that are imports
          Names,        \* the names imports ask for
          NameOf,       \* the name of each import
          Top,          \* UINT64_MAX
          MaxBytes,     \* INT_MAX, the most malloc is asked for
          Widths,       \* bytes of a load or store
          NULL, Freed, Unbound

ASSUME NullAssumption == NULL \notin Buffers \cup HostBuffers
ASSUME UnboundAssumption == Unbound \notin HostBuffers \cup {NULL}
ASSUME BufferAssumption == Buffers \cap HostBuffers = {}
ASSUME FreedAssumption == \A n \in 0 .. Top : Freed \notin [0 .. n - 1 -> Cell]
ASSUME HostAssumption == HostSize \in [HostBuffers -> 0 .. Top]
ASSUME ObjectAssumption == Memories \cap HostBuffers = {}
ASSUME ImportAssumption == Imported \subseteq Memories /\ NameOf \in [Imported -> Names]
ASSUME TopAssumption == Top \in Nat /\ MaxBytes \in 0 .. Top
ASSUME WidthAssumption == Widths \subseteq 1 .. Top
ASSUME LengthAssumption == \A g \in DOMAIN Segments : Segments[g].size <= Top

VARIABLES attached,   \* a module is attached
          memory,     \* fa_Runtime.memories
          heap,       \* what each buffer holds
          bindings,   \* host_memory_bindings, by name
          file,       \* what the embedder's hooks wrote of each memory
          dropped,    \* data_segments_dropped
          op          \* the instruction or the load in progress

vars == <<attached, memory, heap, bindings, file, dropped, op>>

Done == <<"done">>
Failed == <<"failed">>
Value(c) == <<"value", c>>
Pages(n) == <<"pages", n>>
NoFile == [size |-> -1]
Idle == [kind |-> "idle"]

NoMemory == [data |-> NULL, size |-> 0, owns |-> FALSE, spilled |-> FALSE]

Data(m) == heap[memory[m].data]

(* malloc may fail.  Which free buffer it returns is of no consequence.    *)
Free(h) == {b \in Buffers : h[b] = Freed}

Fresh(h) == CHOOSE b \in Free(h) : TRUE

Released(h, gone) == [b \in DOMAIN h |-> IF b \in gone THEN Freed ELSE h[b]]

Waiting == op.kind \in {"access", "copy", "load"}

Hooking == Waiting /\ op.loading

(* The embedder acts between instructions, from a host function for        *)
(* example, and inside the load hook.                                      *)
Embedder == attached /\ (op = Idle \/ Hooking)

-----------------------------------------------------------------------------
(* Instructions.  Each first has its memories loaded, in the order of      *)
(* `needs', and only then takes its other operands off the stack.          *)

Begin(kind, needs) ==
    /\ op = Idle /\ attached
    /\ op' = [kind |-> kind, needs |-> needs, at |-> 1, loading |-> FALSE]
    /\ UNCHANGED <<attached, memory, heap, bindings, file, dropped>>

(* It ends with an answer to what was asked of which memories. *)
Ended(asked, got) == op' = [kind |-> "ended", asked |-> asked, got |-> got]

StartAccess(m) == Begin("access", <<m>>)

(* memory.copy has its source loaded, then its destination. *)
StartCopy(d, s) == Begin("copy", <<s, d>>)

(* fa_Runtime_loadMemory, called by the embedder *)
StartLoadMemory(m) == memory[m].owns /\ Begin("load", <<m>>)

Needing == Waiting /\ ~op.loading /\ op.at <= Len(op.needs)

Loaded(m) == memory' = [memory EXCEPT ![m].spilled = FALSE]

(* A memory cannot be loaded: the instruction fails, whatever it was.      *)
Abandon ==
    IF op.kind = "load" THEN op' = Idle ELSE Ended(<<"any", op.needs[op.at]>>, Failed)

(* fa_Runtime_ensureMemoryLoaded and fa_Runtime_loadMemory up to the hook: *)
(* only the second marks an empty memory, and calls the hook for a memory  *)
(* that is gone without being marked as spilled.                           *)
Ensure ==
    /\ Needing
    /\ LET m == op.needs[op.at]
       IN \/ /\ memory[m].size = 0
             /\ IF op.kind = "load" THEN Loaded(m) ELSE UNCHANGED memory
             /\ op' = [op EXCEPT !.at = @ + 1]
          \/ /\ memory[m].size # 0 /\ memory[m].data # NULL
             /\ Loaded(m)
             /\ op' = [op EXCEPT !.at = @ + 1]
          \/ /\ memory[m].size # 0 /\ memory[m].data = NULL
             /\ op.kind = "load" \/ memory[m].spilled
             /\ op' = [op EXCEPT !.loading = TRUE]
             /\ UNCHANGED memory
          \/ /\ memory[m].size # 0 /\ memory[m].data = NULL
             /\ op.kind # "load" /\ ~memory[m].spilled
             /\ Abandon
             /\ UNCHANGED memory
    /\ UNCHANGED <<attached, heap, bindings, file, dropped>>

(* The load hook returns.  What it says it did is not what it did: a       *)
(* success without bytes is a trap, and a failure may have brought them.   *)
HookSucceeds ==
    /\ Hooking
    /\ LET m == op.needs[op.at]
       IN \/ /\ memory[m].data # NULL
             /\ Loaded(m)
             /\ op' = [op EXCEPT !.loading = FALSE, !.at = @ + 1]
          \/ /\ memory[m].data = NULL
             /\ Abandon
             /\ UNCHANGED memory
    /\ UNCHANGED <<attached, heap, bindings, file, dropped>>

HookFails ==
    /\ Hooking
    /\ Abandon
    /\ UNCHANGED <<attached, memory, heap, bindings, file, dropped>>

Performing(kind) == Waiting /\ ~op.loading /\ op.at > Len(op.needs) /\ op.kind = kind

LoadMemoryDone ==
    /\ Performing("load")
    /\ op' = Idle
    /\ UNCHANGED <<attached, memory, heap, bindings, file, dropped>>

Plus(a, b) == (a + b) % (Top + 1)

(* memory_bounds_check *)
BoundsCheck(m, a, n) ==
    /\ memory[m].data # NULL
    /\ n = 0 \/ (a <= Top - n /\ Plus(a, n) <= memory[m].size)

(* n cells of d are written from address a of memory m, or none if they do *)
(* not fit.                                                                *)
WriteOrTrap(fits, asked, m, a, d, n) ==
    \/ /\ fits
       /\ heap' = [heap EXCEPT ![memory[m].data] = Overlay(@, a, d, n)]
       /\ Ended(asked, Done)
    \/ ~fits /\ UNCHANGED heap /\ Ended(asked, Failed)

(* Mutant of Reaches: the sum of operand and offset may wrap around.       *)
BugReachesWraps(m, base, offset, n) == BoundsCheck(m, Plus(base, offset), n)

(* The address of a load or store: the operand and the offset of the       *)
(* instruction.                                                            *)
Reaches(m, base, offset, n) ==
    offset <= Top - base /\ BoundsCheck(m, Plus(base, offset), n)

Load ==
    /\ Performing("access")
    /\ LET m == op.needs[1]
       IN \E base, offset \in 0 .. Top, n \in Widths :
            Ended(<<"load", m, base + offset, n>>,
                  IF Reaches(m, base, offset, n)
                  THEN Value(Slice(Data(m), Plus(base, offset), n)) ELSE Failed)
    /\ UNCHANGED <<attached, memory, heap, bindings, file, dropped>>

Store ==
    /\ Performing("access")
    /\ LET m == op.needs[1]
       IN \E base, offset \in 0 .. Top, n \in Widths : \E d \in [0 .. n - 1 -> Cell] :
            WriteOrTrap(Reaches(m, base, offset, n), <<"store", m, base + offset, n, d>>,
                        m, Plus(base, offset), d, n)
    /\ UNCHANGED <<attached, memory, bindings, file, dropped>>

Fill ==
    /\ Performing("access")
    /\ LET m == op.needs[1]
       IN \E a, n \in 0 .. Top, v \in Cell :
            WriteOrTrap(BoundsCheck(m, a, n), <<"fill", m, a, n, v>>,
                        m, a, [i \in 0 .. n - 1 |-> v], n)
    /\ UNCHANGED <<attached, memory, bindings, file, dropped>>

Copy ==
    /\ Performing("copy")
    /\ LET s == op.needs[1]
           d == op.needs[2]
       IN \E sa, da, n \in 0 .. Top :
            WriteOrTrap(BoundsCheck(s, sa, n) /\ BoundsCheck(d, da, n), <<"copy", d, s, da, sa, n>>,
                        d, da, Slice(Data(s), sa, n), n)
    /\ UNCHANGED <<attached, memory, bindings, file, dropped>>

(* memory.init from data segment g *)
InitFrom ==
    /\ Performing("access")
    /\ LET m == op.needs[1]
       IN \E g \in DOMAIN Segments, a, sa, n \in 0 .. Top :
            LET fits == /\ g \notin dropped
                        /\ sa <= Top - n
                        /\ Plus(sa, n) <= Segments[g].size
                        /\ BoundsCheck(m, a, n)
            IN WriteOrTrap(fits, <<"init", m, g, a, sa, n>>,
                           m, a, Slice(Segments[g].bytes, sa, n), n)
    /\ UNCHANGED <<attached, memory, bindings, file, dropped>>

DataDrop(g) ==
    /\ op = Idle /\ attached
    /\ dropped' = dropped \cup {g}
    /\ Ended(<<"drop", g>>, Done)
    /\ UNCHANGED <<attached, memory, heap, bindings, file>>

(* memory.size does not need the bytes. *)
MemorySize(m) ==
    /\ op = Idle /\ attached
    /\ Ended(<<"size", m>>, Pages(memory[m].size \div PageCells))
    /\ UNCHANGED <<attached, memory, heap, bindings, file, dropped>>

(* Mutant of Growable: the maximum is compared with the size before.       *)
BugGrowableOneMore(m, pages, new) ==
    /\ memory[m].owns
    /\ new >= pages
    /\ pages <= MaxPages[m]
    /\ new <= Top \div PageCells
    /\ new * PageCells <= MaxBytes

Growable(m, pages, new) ==
    /\ memory[m].owns
    /\ new >= pages
    /\ new <= MaxPages[m]
    /\ new <= Top \div PageCells
    /\ new * PageCells <= MaxBytes

(* Mutant of GrowTo: the new pages are not there.                          *)
BugGrowToUnfilled(m, new) ==
    LET b == Fresh(heap)
        old == memory[m].data
    IN /\ heap' = [x \in DOMAIN heap |->
                    IF x = b THEN (IF old = NULL THEN Blank(0) ELSE heap[old])
                    ELSE IF x = old THEN Freed ELSE heap[x]]
       /\ memory' = [memory EXCEPT ![m].data = b, ![m].size = new * PageCells]

(* The new buffer is made before the old one goes.                         *)
GrowTo(m, new) ==
    LET b == Fresh(heap)
        old == memory[m].data
        bytes == IF old = NULL THEN Blank(new * PageCells)
                 ELSE Extended(heap[old], memory[m].size, new * PageCells)
    IN /\ heap' = [Released(heap, {old}) EXCEPT ![b] = bytes]
       /\ memory' = [memory EXCEPT ![m].data = b, ![m].size = new * PageCells]

(* memory.grow may be refused for want of memory, whatever it asks for.    *)
Grow ==
    /\ Performing("access")
    /\ LET m == op.needs[1]
           pages == memory[m].size \div PageCells
       IN \E delta \in 0 .. Top :
            \/ /\ delta = 0
               /\ Ended(<<"grow", m, 0>>, Pages(pages))
               /\ UNCHANGED <<memory, heap>>
            \/ /\ delta # 0 /\ Growable(m, pages, Plus(pages, delta)) /\ Free(heap) # {}
               /\ GrowTo(m, Plus(pages, delta))
               /\ Ended(<<"grow", m, delta>>, Pages(pages))
            \/ /\ delta # 0
               /\ Ended(<<"grow", m, delta>>, Pages(-1))
               /\ UNCHANGED <<memory, heap>>
    /\ UNCHANGED <<attached, bindings, file, dropped>>

(* The loop goes on to the next instruction, or the job is over.           *)
Retire ==
    /\ op.kind = "ended"
    /\ op' = Idle
    /\ UNCHANGED <<attached, memory, heap, bindings, file, dropped>>

-----------------------------------------------------------------------------
(* The embedder's calls, between instructions and inside the load hook.    *)

Copied(m) == [size |-> memory[m].size,
              cells |-> IF memory[m].data = NULL THEN Blank(0) ELSE Data(m)]

(* Mutant of SpillMemory: the memory is not marked when its buffer goes.   *)
BugSpillMemoryUnmarked(m) ==
    /\ Embedder /\ memory[m].owns
    /\ memory[m].size # 0 /\ memory[m].data # NULL
    /\ file' = [file EXCEPT ![m] = Copied(m)]
    /\ heap' = Released(heap, {memory[m].data})
    /\ memory' = [memory EXCEPT ![m].data = NULL]
    /\ UNCHANGED <<attached, bindings, dropped, op>>

(* fa_Runtime_spillMemory: the buffer goes only when the hook has the      *)
(* bytes.  A hook that fails may have ruined its file.                     *)
SpillMemory(m) ==
    /\ Embedder /\ memory[m].owns
    /\ \/ /\ memory[m].size = 0
          /\ Loaded(m)
          /\ UNCHANGED <<heap, file>>
       \/ /\ memory[m].size # 0 /\ memory[m].data = NULL
          /\ memory' = [memory EXCEPT ![m].spilled = TRUE]
          /\ UNCHANGED <<heap, file>>
       \/ /\ memory[m].size # 0 /\ memory[m].data # NULL
          /\ file' = [file EXCEPT ![m] = Copied(m)]
          /\ heap' = Released(heap, {memory[m].data})
          /\ memory' = [memory EXCEPT ![m].data = NULL, ![m].spilled = TRUE]
       \/ /\ memory[m].size # 0 /\ memory[m].data # NULL
          /\ file' = [file EXCEPT ![m] = NoFile]
          /\ UNCHANGED <<memory, heap>>
    /\ UNCHANGED <<attached, bindings, dropped, op>>

(* fa_Runtime_serializeMemory to the file the hooks use: a memory that is  *)
(* spilled has no bytes to capture.                                        *)
SerializeMemory(m) ==
    /\ Embedder
    /\ memory[m].data # NULL \/ memory[m].size = 0
    /\ file' = [file EXCEPT ![m] = Copied(m)]
    /\ UNCHANGED <<attached, memory, heap, bindings, dropped, op>>

(* A host buffer is never replaced.                                        *)
Replaceable(m) == memory[m].owns \/ memory[m].data = NULL

(* Mutant of DeserializeMemory: the old buffer is not freed.               *)
BugDeserializeMemoryLeaks(m) ==
    /\ Embedder
    /\ file[m] # NoFile /\ file[m].size <= MaxBytes
    /\ Replaceable(m)
    /\ file[m].size # 0 /\ Free(heap) # {}
    /\ heap' = [heap EXCEPT ![Fresh(heap)] = file[m].cells]
    /\ memory' = [memory EXCEPT ![m] = [data |-> Fresh(heap), size |-> file[m].size,
                                        owns |-> TRUE, spilled |-> FALSE]]
    /\ UNCHANGED <<attached, bindings, file, dropped, op>>

(* fa_Runtime_deserializeMemory.  The load hook is a call of this for the  *)
(* memory it is asked for.  An import without a buffer has one of its own  *)
(* afterwards.                                                             *)
DeserializeMemory(m) ==
    /\ Embedder
    /\ file[m] # NoFile /\ file[m].size <= MaxBytes
    /\ Replaceable(m)
    /\ file[m].size # 0 => Free(heap) # {}
    /\ LET b == IF file[m].size = 0 THEN NULL ELSE Fresh(heap)
       IN /\ heap' = [x \in DOMAIN heap |->
                        IF x = b THEN file[m].cells
                        ELSE IF x = memory[m].data THEN Freed ELSE heap[x]]
          /\ memory' = [memory EXCEPT ![m] = [data |-> b, size |-> file[m].size,
                                              owns |-> TRUE, spilled |-> FALSE]]
    /\ UNCHANGED <<attached, bindings, file, dropped, op>>

(* A host memory is a buffer or, with no bytes, none.                      *)
HostMemories == HostBuffers \cup {NULL}
HostBytes(b) == IF b = NULL THEN 0 ELSE HostSize[b]

(* Mutant of Fits: the maximum is not checked.                             *)
BugFitsAnyMaximum(m, b) ==
    HostBytes(b) % PageCells = 0 /\ HostBytes(b) >= MinPages[m] * PageCells

(* runtime_validate_imported_memory_binding                                *)
Fits(m, b) ==
    /\ HostBytes(b) % PageCells = 0
    /\ HostBytes(b) >= MinPages[m] * PageCells
    /\ HostBytes(b) <= MaxPages[m] * PageCells

OfHost(b) == [data |-> b, size |-> HostBytes(b), owns |-> FALSE, spilled |-> FALSE]

(* Mutant of BindImportedMemory: an import is rebound as soon as it fits,  *)
(* and one that does not fit refuses the binding.                          *)
BugBindImportedMemoryEach(name, b) ==
    LET asking == {m \in Imported : NameOf[m] = name}
        fit == \A m \in asking : Fits(m, b)
    IN /\ op = Idle \/ Hooking
       /\ bindings' = IF attached => fit THEN [bindings EXCEPT ![name] = b] ELSE bindings
       /\ memory' = [m \in Memories |->
            IF attached /\ m \in asking /\ Fits(m, b) THEN OfHost(b) ELSE memory[m]]
       /\ UNCHANGED <<attached, heap, file, dropped, op>>

(* fa_Runtime_bindImportedMemory: every import of that name takes the      *)
(* buffer, or none does and the binding stays what it was.  A buffer that  *)
(* an import had of its own, from a copy put back, is not freed.           *)
BindImportedMemory(name, b) ==
    LET asking == {m \in Imported : NameOf[m] = name}
    IN /\ op = Idle \/ Hooking
       /\ attached => \A m \in asking : Fits(m, b)
       /\ bindings' = [bindings EXCEPT ![name] = b]
       /\ memory' = [m \in Memories |-> IF attached /\ m \in asking THEN OfHost(b) ELSE memory[m]]
       /\ UNCHANGED <<attached, heap, file, dropped, op>>

-----------------------------------------------------------------------------
(* Instances.  Attaching detaches first.                                   *)

(* Mutant of Buffered: whose buffer it is goes unnoticed.                  *)
BugBufferedAnyone == {memory[m].data : m \in Memories} \ {NULL}

Buffered == {memory[m].data : m \in {x \in Memories : memory[x].owns}} \ {NULL}

Detached == Released(heap, Buffered)

(* runtime_memory_init: imports are bound and fit, and the other memories  *)
(* have each a buffer of zeros.                                            *)
Bound(m) == bindings[NameOf[m]] # Unbound /\ Fits(m, bindings[NameOf[m]])

Placements ==
    LET mine == {m \in Memories \ Imported : MinPages[m] > 0}
    IN {f \in [mine -> Free(Detached)] :
          /\ \A m, n \in mine : m # n => f[m] # f[n]
          /\ \A m \in mine : MinPages[m] * PageCells <= MaxBytes
          /\ \A m \in Imported : Bound(m)}

Placement == CHOOSE f \in Placements : TRUE

Initial(f) ==
    [m \in Memories |->
        IF m \in Imported THEN OfHost(bindings[NameOf[m]])
        ELSE [data |-> IF m \in DOMAIN f THEN f[m] ELSE NULL,
              size |-> MinPages[m] * PageCells, owns |-> TRUE, spilled |-> FALSE]]

Zeroed(f) ==
    [b \in DOMAIN heap |->
        IF \E m \in DOMAIN f : f[m] = b
        THEN Blank(MinPages[CHOOSE m \in DOMAIN f : f[m] = b] * PageCells)
        ELSE Detached[b]]

(* runtime_segments_init: the active segments in order, up to the first    *)
(* that does not fit.                                                      *)
SegmentFits(f, g) ==
    LET m == Initial(f)[Segments[g].memory]
    IN \/ Segments[g].passive
       \/ m.data # NULL /\ Segments[g].offset + Segments[g].size <= m.size

Written(f) ==
    LET after[g \in 0 .. Len(Segments)] ==
            IF g = 0 THEN Zeroed(f)
            ELSE IF Segments[g].passive \/ \E i \in 1 .. g : ~SegmentFits(f, i) THEN after[g - 1]
            ELSE LET s == Segments[g]
                 IN [after[g - 1] EXCEPT ![Initial(f)[s.memory].data] =
                        Overlay(@, s.offset, s.bytes, s.size)]
    IN after[Len(Segments)]

AttachModule ==
    /\ op = Idle
    /\ Placements # {}
    /\ \A g \in DOMAIN Segments : SegmentFits(Placement, g)
    /\ memory' = Initial(Placement)
    /\ heap' = Written(Placement)
    /\ attached' = TRUE
    /\ dropped' = {g \in DOMAIN Segments : ~Segments[g].passive}
    /\ UNCHANGED <<bindings, file, op>>

Reset ==
    /\ op = Idle
    /\ attached' = FALSE
    /\ memory' = [m \in Memories |-> NoMemory]
    /\ dropped' = {}
    /\ UNCHANGED <<bindings, file, op>>

DetachModule == attached /\ Reset /\ heap' = Detached

(* Mutant of AttachFails: what the memories were given is not released.    *)
BugAttachFailsLeaks == Reset /\ Placements # {} /\ heap' = Written(Placement)

(* The module cannot be attached: an allocation fails before the segments  *)
(* are written, or one of them does not fit, or something after them       *)
(* fails.  Everything is released, and the host's buffers keep what was    *)
(* written.                                                                *)
AttachFails ==
    /\ Reset
    /\ \/ heap' = Detached
       \/ /\ Placements # {}
          /\ heap' = Released(Written(Placement), {Placement[m] : m \in DOMAIN Placement})

-----------------------------------------------------------------------------
Init ==
    /\ attached = FALSE
    /\ memory = [m \in Memories |-> NoMemory]
    /\ heap = [b \in Buffers \cup HostBuffers |->
                 IF b \in HostBuffers THEN Blank(HostSize[b]) ELSE Freed]
    /\ bindings = [n \in Names |-> Unbound]
    /\ file = [m \in Memories |-> NoFile]
    /\ dropped = {}
    /\ op = Idle

Next ==
    \/ \E m \in Memories :
        \/ StartAccess(m) \/ StartLoadMemory(m) \/ MemorySize(m)
        \/ SpillMemory(m) \/ SerializeMemory(m) \/ DeserializeMemory(m)
        \/ \E s \in Memories : StartCopy(m, s)
    \/ Ensure \/ HookSucceeds \/ HookFails \/ LoadMemoryDone
    \/ Load \/ Store \/ Fill \/ Copy \/ InitFrom \/ Grow \/ Retire
    \/ \E g \in DOMAIN Segments : DataDrop(g)
    \/ \E name \in Names, b \in HostMemories : BindImportedMemory(name, b)
    \/ DetachModule \/ AttachModule \/ AttachFails

Spec == Init /\ [][Next]_vars

-----------------------------------------------------------------------------
(* Every variable has its type: a buffer holds as many cells as the memory *)
(* that points to it says (fa_RuntimeMemory).                              *)
TypeOK ==
    /\ attached \in BOOLEAN
    /\ memory \in [Memories -> [data : Buffers \cup HostBuffers \cup {NULL}, size : Nat,
                                owns : BOOLEAN, spilled : BOOLEAN]]
    /\ \A m \in Memories : memory[m].data # NULL => Data(m) \in [0 .. memory[m].size - 1 -> Cell]
    /\ bindings \in [Names -> HostMemories \cup {Unbound}]
    /\ \A m \in Memories : file[m] # NoFile => file[m].cells \in [0 .. file[m].size - 1 -> Cell]
    /\ dropped \subseteq DOMAIN Segments
    /\ Waiting => /\ op.needs \in Seq(Memories)
                  /\ op.at \in 1 .. Len(op.needs) + 1
                  /\ op.loading => op.at <= Len(op.needs)

(* The buffers that malloc returned, that nobody freed and that no memory  *)
(* points to.                                                              *)
Lost == {b \in Buffers : heap[b] # Freed} \ {memory[m].data : m \in Memories}

(* Every buffer has exactly one owner: no memory points to a freed one, to *)
(* one of the host as its own or to one of another memory, the host's are  *)
(* never freed, and none is lost, whatever growing, spilling, restoring,   *)
(* rebinding and a failing attach free and allocate                        *)
(* (fa_RuntimeMemory.owns_data).  None is lost, that is, of a module whose *)
(* imports have a page or more: an import of no pages may be bound to a    *)
(* host memory without a buffer, and LostByRebind is about it.             *)
NoBufferLost ==
    /\ (\A m \in Imported : MinPages[m] > 0) => Lost = {}
    /\ \A b \in HostBuffers : heap[b] # Freed
    /\ \A m \in Memories : memory[m].data # NULL =>
        /\ Data(m) # Freed
        /\ memory[m].owns <=> memory[m].data \in Buffers
        /\ memory[m].owns => \A n \in Memories \ {m} : memory[n].data # memory[m].data

(* The one way to lose a buffer, of any module: an import bound to no      *)
(* bytes is given a buffer of its own, by a copy put back or by growing    *)
(* after one, and is then bound again, which overwrites the pointer        *)
(* (runtime_apply_attached_memory_rebind).  No other step loses one, and   *)
(* that one no other buffer than those of the imports it binds.            *)
BuffersOf(name) == {memory[m].data : m \in {i \in Imported : NameOf[i] = name}}
LostByRebind ==
    [][\/ Lost' \subseteq Lost
       \/ \E name \in Names, b \in HostMemories :
            BindImportedMemory(name, b) /\ Lost' \subseteq Lost \cup BuffersOf(name)]_vars

(* A memory whose bytes are not at hand is marked as spilled, so that the  *)
(* next access asks the hook for them instead of trapping for good         *)
(* (fa_Runtime_ensureMemoryLoaded).                                        *)
GoneIsSpilled ==
    \A m \in Memories : memory[m].size # 0 /\ memory[m].data = NULL => memory[m].spilled

(* While a module is attached its imports have the buffer that was bound   *)
(* last under their name: all of them take a new one, or none does when it *)
(* does not fit one of them (runtime_apply_attached_memory_rebind).  Only  *)
(* an import that was bound to no bytes may have one of its own instead.   *)
BindingInForce ==
    attached => \A m \in Imported :
        LET b == bindings[NameOf[m]]
        IN memory[m].data = b \/ (b = NULL /\ memory[m].owns)

(* No growth, rebind, spill or restored copy takes a memory outside the    *)
(* limits its module declares (runtime_memory_grow,                        *)
(* runtime_validate_imported_memory_binding).                              *)
WithinLimits ==
    attached => \A m \in Memories :
        /\ memory[m].size % PageCells = 0
        /\ memory[m].size \div PageCells \in MinPages[m] .. MaxPages[m]

(* What stands behind each memory, seen as linear memory: a host buffer,   *)
(* or an object of the memory's own.  The cells of a memory without a      *)
(* buffer are those of the embedder's file.                                *)
objectOf == [m \in Memories |-> IF memory[m].data \in HostBuffers THEN memory[m].data ELSE m]

sizeOf == [x \in Memories \cup HostBuffers |->
            IF x \in HostBuffers THEN HostSize[x]
            ELSE IF objectOf[x] = x THEN memory[x].size ELSE 0]

cellsOf == [x \in Memories \cup HostBuffers |->
            IF x \in HostBuffers THEN heap[x]
            ELSE IF objectOf[x] # x \/ memory[x].size = 0 THEN Blank(0)
            ELSE IF memory[x].data # NULL THEN Data(x)
            ELSE IF file[x] # NoFile THEN file[x].cells ELSE Blank(0)]

(* A memory is not at hand before its load hook has returned.              *)
residentOf == [m \in Memories |->
                /\ memory[m].data # NULL
                /\ ~(Hooking /\ op.needs[op.at] = m)]

eventOf == IF op.kind = "ended" THEN op ELSE Idle

Linear == INSTANCE LinearMemory WITH
    object <- objectOf, size <- sizeOf, cells <- cellsOf, resident <- residentOf,
    saved <- file, event <- eventOf,
    Objects <- Memories \cup HostBuffers

(* The memories implement linear memory: what an instruction sees and does *)
(* does not depend on where the bytes are, which buffer holds them, or     *)
(* what the embedder does in the load hook (fa_Runtime_ensureMemoryLoaded  *)
(* and the memory instructions of fa_ops.c).                               *)
LinearMemorySpec == Linear!Spec
=============================================================================
