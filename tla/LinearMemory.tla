---------------------------- MODULE LinearMemory ----------------------------
(* What the linear memories of an instance promise, whatever is done with  *)
(* the bytes behind them.  A memory is an object with a size and cells; an *)
(* imported memory is an object of the host, which two imports may share,  *)
(* or of its own when the host gives it nothing.                           *)
(* An instruction answers from the cells and changes them, or fails and    *)
(* changes nothing.  It may fail out of bounds, which is the trap of       *)
(* WebAssembly, or while a memory it needs is not resident.                *)
EXTENDS Contents

CONSTANTS Objects,  \* the memories themselves and the host's
          Imported  \* the memories that are imports

VARIABLES object,     \* the object behind each memory
          size,       \* cells of each object
          cells,      \* what each object holds
          resident,   \* whether the bytes of each memory are at hand
          saved,      \* what the embedder keeps of each memory
          dropped,    \* the data segments that are gone
          event       \* the instruction that has just ended, if one has

Nothing == [size |-> -1]
Quiet == [kind |-> "idle"]
Done == <<"done">>
Failed == <<"failed">>
Value(c) == <<"value", c>>
Pages(n) == <<"pages", n>>

Untouched == UNCHANGED <<object, size, cells, saved, dropped>>

Within(m, a, n) == a + n <= size[object[m]]

Ends(asked, got) == event' = [kind |-> "ended", asked |-> asked, got |-> got]

Writes(m, a, d, n) ==
    /\ cells' = [cells EXCEPT ![object[m]] = Overlay(@, a, d, n)]
    /\ UNCHANGED <<object, size, saved, dropped>>

(* An instruction that fails has one of its memories out of bounds or not  *)
(* resident.  A bulk operation of no bytes may fail or not, whatever its   *)
(* addresses.                                                              *)
Access(asked, fits, ms, effect, got) ==
    \/ fits /\ effect /\ Ends(asked, got)
    \/ ~fits /\ Ends(asked, Failed) /\ Untouched
    \/ (\E m \in ms : ~resident[m]) /\ Ends(asked, Failed) /\ Untouched

Bulk(asked, n, fits, ms, effect) ==
    \/ Access(asked, fits, ms, effect, Done)
    \/ n = 0 /\ (Ends(asked, Done) \/ Ends(asked, Failed)) /\ Untouched

Load(m, a, n) ==
    Access(<<"load", m, a, n>>, Within(m, a, n), {m}, Untouched,
           Value(Slice(cells[object[m]], a, n)))

Store(m, a, n, d) ==
    Access(<<"store", m, a, n, d>>, Within(m, a, n), {m}, Writes(m, a, d, n), Done)

Fill(m, a, n, v) ==
    Bulk(<<"fill", m, a, n, v>>, n, Within(m, a, n), {m},
         Writes(m, a, [i \in 0 .. n - 1 |-> v], n))

Copy(d, s, da, sa, n) ==
    Bulk(<<"copy", d, s, da, sa, n>>, n, Within(s, sa, n) /\ Within(d, da, n), {s, d},
         Writes(d, da, Slice(cells[object[s]], sa, n), n))

InitFrom(m, g, a, sa, n) ==
    Bulk(<<"init", m, g, a, sa, n>>, n,
         g \notin dropped /\ sa + n <= Segments[g].size /\ Within(m, a, n), {m},
         Writes(m, a, Slice(Segments[g].bytes, sa, n), n))

DataDrop(g) ==
    /\ Ends(<<"drop", g>>, Done)
    /\ dropped' = dropped \cup {g}
    /\ UNCHANGED <<object, size, cells, saved>>

MemorySize(m) ==
    Ends(<<"size", m>>, Pages(size[object[m]] \div PageCells)) /\ Untouched

(* Growing answers the old size and only adds zeros, or answers -1 and     *)
(* does nothing.  Growing by nothing does not answer -1.                   *)
Grow(m, delta) ==
    LET old == size[object[m]] \div PageCells
        new == (old + delta) * PageCells
    IN \/ /\ Ends(<<"grow", m, delta>>, Pages(old))
          /\ delta # 0 => old + delta <= MaxPages[m]
          /\ size' = [size EXCEPT ![object[m]] = new]
          /\ cells' = [cells EXCEPT ![object[m]] = Extended(@, old * PageCells, new)]
          /\ UNCHANGED <<object, saved, dropped>>
       \/ Ends(<<"grow", m, delta>>, Pages(-1)) /\ delta # 0 /\ Untouched

(* Whatever it was, the instruction needed a memory that is not resident.  *)
Unreachable(m) == Ends(<<"any", m>>, Failed) /\ ~resident[m] /\ Untouched

(* What was asked and what came of it are in the event. *)
Instruction ==
    /\ event' # Quiet
    /\ LET q == event'.asked
       IN \/ q[1] = "load" /\ Load(q[2], q[3], q[4])
          \/ q[1] = "store" /\ Store(q[2], q[3], q[4], q[5])
          \/ q[1] = "fill" /\ Fill(q[2], q[3], q[4], q[5])
          \/ q[1] = "copy" /\ Copy(q[2], q[3], q[4], q[5], q[6])
          \/ q[1] = "init" /\ InitFrom(q[2], q[3], q[4], q[5], q[6])
          \/ q[1] = "drop" /\ DataDrop(q[2])
          \/ q[1] = "size" /\ MemorySize(q[2])
          \/ q[1] = "grow" /\ Grow(q[2], q[3])
          \/ q[1] = "any" /\ Unreachable(q[2])

-----------------------------------------------------------------------------
(* The embedder keeps a copy of a memory or loses it, puts it back,        *)
(* rebinds imports to other objects, and starts and ends instances.        *)

Save(m) ==
    /\ saved' = [saved EXCEPT ![m] = [size |-> size[object[m]], cells |-> cells[object[m]]]]
    /\ UNCHANGED <<object, size, cells, dropped>>

Lose(m) ==
    /\ saved' = [saved EXCEPT ![m] = Nothing]
    /\ UNCHANGED <<object, size, cells, dropped>>

Restore(m) ==
    /\ saved[m] # Nothing
    /\ object[m] = m
    /\ size' = [size EXCEPT ![m] = saved[m].size]
    /\ cells' = [cells EXCEPT ![m] = saved[m].cells]
    /\ UNCHANGED <<object, saved, dropped>>

(* An import that is rebound shows nothing of its own any more.            *)
Rebind ==
    \E ms \in SUBSET Imported :
        /\ object' \in [Memories -> Objects]
        /\ \A m \in Memories : object'[m] # object[m] => m \in ms
        /\ \A m \in ms : object'[m] \notin Memories \ {m}
        /\ size' = [x \in Objects |-> IF x \in ms THEN 0 ELSE size[x]]
        /\ cells' = [x \in Objects |-> IF x \in ms THEN Blank(0) ELSE cells[x]]
        /\ UNCHANGED <<saved, dropped>>

(* A new instance has zeros in its own memories, then its active segments  *)
(* written in order; these may reach the host's objects too.               *)
Started(o, s, k) ==
    LET hosts == Objects \ Memories
        written[i \in 0 .. Len(Segments)] ==
            IF i = 0 THEN [x \in Objects |-> IF x \in hosts THEN cells[x] ELSE Blank(s[x])]
            ELSE IF Segments[i].passive \/ i > k THEN written[i - 1]
            ELSE LET g == Segments[i]
                 IN [written[i - 1] EXCEPT ![o[g.memory]] = Overlay(@, g.offset, g.bytes, g.size)]
    IN written[Len(Segments)]

InitialSize(o) ==
    [x \in Objects |-> IF x \notin Memories THEN size[x]
                       ELSE IF o[x] = x THEN MinPages[x] * PageCells ELSE 0]

StartInstance ==
    /\ object' \in [Memories -> Objects]
    /\ size' = InitialSize(object')
    /\ \A i \in DOMAIN Segments : ~Segments[i].passive =>
        Segments[i].offset + Segments[i].size <= size'[object'[Segments[i].memory]]
    /\ cells' = Started(object', size', Len(Segments))
    /\ dropped' = {i \in DOMAIN Segments : ~Segments[i].passive}
    /\ UNCHANGED saved

(* An instance that ends leaves nothing, and one that could not be started *)
(* leaves what its first segments wrote to the host's objects.             *)
EndInstance ==
    /\ object' = [m \in Memories |-> m]
    /\ size' = [x \in Objects |-> IF x \in Memories THEN 0 ELSE size[x]]
    /\ \E o \in [Memories -> Objects], k \in 0 .. Len(Segments) :
        cells' = [x \in Objects |-> IF x \in Memories THEN Blank(0)
                                    ELSE Started(o, InitialSize(o), k)[x]]
    /\ dropped' = {}
    /\ UNCHANGED saved

(* Moving bytes in or out, and going on to the next instruction, change    *)
(* nothing here.                                                           *)
Paging == event' = Quiet /\ Untouched

Embedder ==
    /\ event' = Quiet
    /\ \/ \E m \in Memories : Save(m) \/ Lose(m) \/ Restore(m)
       \/ Rebind
       \/ StartInstance
       \/ EndInstance

Init ==
    /\ object = [m \in Memories |-> m]
    /\ \A m \in Memories : size[m] = 0 /\ cells[m] = Blank(0)
    /\ resident \in [Memories -> BOOLEAN]
    /\ saved = [m \in Memories |-> Nothing]
    /\ dropped = {}
    /\ event = Quiet

Next ==
    /\ resident' \in [Memories -> BOOLEAN]
    /\ Paging \/ Embedder \/ Instruction

Spec == Init /\ [][Next]_<<object, size, cells, resident, saved, dropped, event>>
=============================================================================
