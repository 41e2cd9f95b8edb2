------------------------ MODULE RuntimeMemoryProofs -------------------------
(***************************************************************************)
(* Theorems about RuntimeMemory for any memories, buffers, names, limits,  *)
(* segments and page size.  The inductive invariant has a part about the   *)
(* instruction in progress and a part about the memories, the buffers and  *)
(* the embedder's files; the properties the runs check follow from it, and *)
(* at the end that RuntimeMemory implements LinearMemory.                  *)
(***************************************************************************)
EXTENDS RuntimeMemory, DataLemmas

-----------------------------------------------------------------------------
(* The inductive invariant.                                                *)

Cells(n) == [0 .. n - 1 -> Cell]

(* A number of cells that memory m may have.  A module that declares less  *)
(* at most than at first is not refused: it has what it has at first.      *)
Allowed(m, n) ==
  /\ n \in Nat /\ n % PageCells = 0
  /\ MinPages[m] <= n \div PageCells
  /\ n \div PageCells <= MaxPages[m] \/ n \div PageCells = MinPages[m]

(* A memory of the module's own: its buffer, if it has one, is one of      *)
(* malloc's that holds its cells, and without one it is empty or spilled.  *)
OwnMemory(m, x, h) ==
  /\ x = [data |-> x.data, size |-> x.size, owns |-> TRUE, spilled |-> x.spilled]
  /\ x.data \in Buffers \cup {NULL} /\ x.spilled \in BOOLEAN
  /\ Allowed(m, x.size) /\ x.size <= MaxBytes
  /\ x.data = NULL => x.size = 0 \/ x.spilled
  /\ x.data # NULL => h[x.data] \in Cells(x.size)

(* A copy in the embedder's hands was made of memory m.                    *)
CopyOf(m, y) ==
  y # NoFile =>
    /\ y = [size |-> y.size, cells |-> y.cells]
    /\ Allowed(m, y.size) /\ y.cells \in Cells(y.size)

(* Memory m is what is bound to its name, or its buffer is its own.  An    *)
(* import has one of its own only when it is bound to no bytes.            *)
MayOwn(m) == m \in Imported => bindings[NameOf[m]] = NULL /\ MinPages[m] = 0
Placed(m) ==
  IF ~ attached THEN memory[m] = NoMemory
  ELSE IF memory[m].owns THEN OwnMemory(m, memory[m], heap) /\ MayOwn(m)
  ELSE /\ m \in Imported
       /\ bindings[NameOf[m]] \in HostMemories /\ Fits(m, bindings[NameOf[m]])
       /\ memory[m] = OfHost(bindings[NameOf[m]])

(* No two memories share a buffer of malloc's.                             *)
Separate ==
  \A m, n \in Memories : m # n /\ memory[m].data \in Buffers => memory[m].data # memory[n].data

StateInv ==
  /\ attached \in BOOLEAN /\ dropped \subseteq DOMAIN Segments
  /\ bindings \in [Names -> HostMemories \cup {Unbound}]
  /\ file = [m \in Memories |-> file[m]] /\ \A m \in Memories : CopyOf(m, file[m])
  /\ heap = [b \in Buffers \cup HostBuffers |-> heap[b]]
  /\ \A b \in HostBuffers : heap[b] \in Cells(HostSize[b])
  /\ memory = [m \in Memories |-> memory[m]] /\ \A m \in Memories : Placed(m)
  /\ Separate

(* The instruction in progress, of an attached module, and how many        *)
(* memories its kind needs.                                                *)
OpInv ==
  /\ op.kind \in {"idle", "ended", "access", "copy", "load"}
  /\ op.kind = "idle" => op = Idle
  /\ ~ attached => op = Idle
  /\ Waiting =>
       /\ op = [kind |-> op.kind, needs |-> op.needs, at |-> op.at, loading |-> op.loading]
       /\ op.needs \in Seq(Memories) /\ op.loading \in BOOLEAN
       /\ op.at \in 1 .. Len(op.needs) + 1 /\ (op.loading => op.at <= Len(op.needs))
       /\ Len(op.needs) = IF op.kind = "copy" THEN 2 ELSE 1

IInv == StateInv /\ OpInv

(* A step keeps the invariant and loses no buffer.                         *)
StateKept == StateInv' /\ Lost' \subseteq Lost
Kept == IInv' /\ Lost' \subseteq Lost

(* The heap h is one for memories `given', but for what is lost already.   *)
Holds(given, h) ==
  /\ h = [b \in Buffers \cup HostBuffers |-> h[b]]
  /\ \A b \in HostBuffers : h[b] \in Cells(HostSize[b])
  /\ \A m \in Memories : given[m].data # NULL => h[given[m].data] \in Cells(given[m].size)
  /\ \A b \in Buffers : h[b] # Freed => b \in Lost \/ \E m \in Memories : given[m].data = b

-----------------------------------------------------------------------------
(* Operators.                                                              *)

(* Whole pages, and the sizes between two numbers of pages.                *)
LEMMA WholePages ==
  ASSUME NEW n \in Nat
  PROVE  /\ n * PageCells \in Nat
         /\ (n * PageCells) % PageCells = 0
         /\ (n * PageCells) \div PageCells = n
         /\ \A lo, hi \in Nat : lo * PageCells <= n /\ n <= hi * PageCells =>
              n \div PageCells \in lo .. hi
<1>1. PageCells \in Nat /\ PageCells > 0
  BY PageAssumption
<1>2. n * PageCells \in Nat
  BY <1>1
<1>3. (n * PageCells) % PageCells = 0
  BY <1>1, <1>2
<1>4. (n * PageCells) \div PageCells = n
  BY <1>1, <1>2
<1>5. ASSUME NEW lo \in Nat, NEW hi \in Nat, lo * PageCells <= n, n <= hi * PageCells
      PROVE  n \div PageCells \in lo .. hi
  <2> DEFINE q == n \div PageCells
             r == n % PageCells
  <2>1. q \in Nat /\ r \in 0 .. PageCells - 1 /\ n = q * PageCells + r
    BY <1>1
  <2>2. lo <= q
    BY <1>1, <1>5, <2>1
  <2>3. q <= hi
    BY <1>1, <1>5, <2>1
  <2>4. QED
    BY <2>1, <2>2, <2>3
<1>6. QED
  BY <1>2, <1>3, <1>4, <1>5

(* A host's memory is not owned.                                           *)
LEMMA HostOwned == \A b : ~ OfHost(b).owns /\ OfHost(b).data = b /\ OfHost(b).size = HostBytes(b)
<1>1. ASSUME NEW b, NEW n PROVE LET x == [data |-> b, size |-> n, owns |-> FALSE, spilled |-> FALSE]
                                IN ~ x.owns /\ x.data = b /\ x.size = n
  OBVIOUS
<1>2. QED
  BY <1>1, Zenon DEF OfHost

(* The sizes of host memories.                                             *)
LEMMA HostSizes ==
  /\ \A b \in HostMemories : HostBytes(b) \in 0 .. Top
  /\ \A b \in HostBuffers : b # NULL /\ HostBytes(b) = HostSize[b] /\ HostSize[b] \in 0 .. Top
  /\ HostBytes(NULL) = 0 /\ Unbound \notin HostMemories
BY HostAssumption, NullAssumption, TopAssumption, UnboundAssumption DEF HostMemories, HostBytes

(* Writing cells, taking a slice of them and adding zeros makes cells.     *)
LEMMA CellTypes ==
  ASSUME NEW n \in Nat, NEW c \in Cells(n)
  PROVE  /\ \A a, k \in Nat : \A d \in Cells(k) : Overlay(c, a, d, k) \in Cells(n)
         /\ \A a, k \in Nat : k = 0 \/ a + k <= n => Slice(c, a, k) \in Cells(k)
         /\ \A k \in Nat : Extended(c, n, k) \in Cells(k)
<1> USE DEF Cells
<1>1. ASSUME NEW a \in Nat, NEW k \in Nat, NEW d \in Cells(k)
      PROVE  Overlay(c, a, d, k) \in Cells(n)
  BY DEF Overlay
<1>2. ASSUME NEW a \in Nat, NEW k \in Nat, k = 0 \/ a + k <= n
      PROVE  Slice(c, a, k) \in Cells(k)
  BY <1>2 DEF Slice
<1>3. ASSUME NEW k \in Nat
      PROVE  Extended(c, n, k) \in Cells(k)
  BY CellAssumption DEF Extended
<1>4. QED
  BY <1>1, <1>2, <1>3

(* A step that replaces memory m, and only the buffers that no other       *)
(* memory points to.                                                       *)
Replaces(m, x) ==
  /\ memory' = [memory EXCEPT ![m] = x]
  /\ heap' = [b \in Buffers \cup HostBuffers |-> heap'[b]]
  /\ \A n \in Memories \ {m} : memory[n].data \in Buffers =>
        memory[n].data # x.data /\ heap'[memory[n].data] = heap[memory[n].data]
  /\ \A b \in HostBuffers : heap'[b] = heap[b]
  /\ \A b \in Buffers : heap'[b] # Freed =>
        b \in Lost \/ b = x.data \/ \E n \in Memories \ {m} : memory[n].data = b
  /\ file' = [n \in Memories |-> file'[n]] /\ \A n \in Memories : CopyOf(n, file'[n])
  /\ attached' = attached /\ bindings' = bindings /\ dropped' = dropped

(* It keeps the invariant when m may have a buffer of its own.             *)
LEMMA OneReplaced ==
  ASSUME StateInv, attached, NEW m \in Memories, MayOwn(m),
         NEW x, OwnMemory(m, x, heap'), Replaces(m, x)
  PROVE  StateKept
<1> USE DEF Replaces
<1>1. /\ memory' = [n \in Memories |-> memory'[n]] /\ memory'[m] = x
      /\ \A n \in Memories \ {m} : memory'[n] = memory[n]
  BY DEF StateInv
<1>2. ASSUME NEW n \in Memories PROVE Placed(n)'
  <2>1. CASE n = m
    <3>1. x.owns
      BY DEF OwnMemory
    <3>2. QED
      BY <1>1, <2>1, <3>1 DEF Placed, MayOwn
  <2>2. CASE n # m /\ ~ memory[n].owns
    BY <1>1, <2>2 DEF StateInv, Placed
  <2>3. CASE n # m /\ memory[n].owns
    <3>1. OwnMemory(n, memory[n], heap) /\ MayOwn(n)
      BY <2>3 DEF StateInv, Placed
    <3>2. OwnMemory(n, memory[n], heap')
      BY <2>3, <3>1 DEF OwnMemory
    <3>3. QED
      BY <1>1, <2>3, <3>1, <3>2 DEF Placed, MayOwn
  <2>4. QED
    BY <2>1, <2>2, <2>3
<1>3. Separate'
  <2>1. SUFFICES ASSUME NEW i \in Memories, NEW j \in Memories, i # j,
                        memory'[i].data \in Buffers, memory'[i].data = memory'[j].data
                 PROVE  FALSE
    BY DEF Separate
  <2>2. CASE i # m /\ j # m
    BY <1>1, <2>1, <2>2 DEF StateInv, Separate
  <2>3. CASE i = m
    BY <1>1, <2>1, <2>3
  <2>4. CASE j = m
    BY <1>1, <2>1, <2>4
  <2>5. QED
    BY <2>2, <2>3, <2>4
<1>4. Lost' \subseteq Lost
  <2>1. ASSUME NEW b \in Lost' PROVE b \in Lost
    <3>1. b \in Buffers /\ heap'[b] # Freed /\ \A n \in Memories : memory'[n].data # b
      BY DEF Lost
    <3>2. \/ b \in Lost
          \/ b = x.data
          \/ \E n \in Memories \ {m} : memory[n].data = b
      BY <3>1
    <3>3. QED
      BY <1>1, <3>1, <3>2
  <2>2. QED
    BY <2>1
<1>5. \A b \in HostBuffers : heap'[b] \in Cells(HostSize[b])
  BY DEF StateInv
<1>6. /\ attached' \in BOOLEAN /\ dropped' \subseteq DOMAIN Segments
      /\ bindings' \in [Names -> HostMemories \cup {Unbound}]
  BY DEF StateInv
<1>7. QED
  BY <1>1, <1>2, <1>3, <1>4, <1>5, <1>6 DEF StateInv, StateKept

(* What is known of a memory of an attached module.                        *)
LEMMA MemoryFacts ==
  ASSUME StateInv, attached, NEW m \in Memories
  PROVE  /\ memory[m] = [data |-> memory[m].data, size |-> memory[m].size,
                         owns |-> memory[m].owns, spilled |-> memory[m].spilled]
         /\ memory[m].size \in Nat /\ Allowed(m, memory[m].size)
         /\ memory[m].spilled \in BOOLEAN /\ memory[m].owns \in BOOLEAN
         /\ ~ memory[m].owns => m \in Imported
         /\ Replaceable(m) => MayOwn(m)
         /\ memory[m].data # NULL =>
              /\ memory[m].data \in IF memory[m].owns THEN Buffers ELSE HostBuffers
              /\ heap[memory[m].data] \in Cells(memory[m].size)
         /\ memory[m].data = NULL => memory[m].size = 0 \/ memory[m].spilled
<1>1. CASE memory[m].owns
  <2>1. OwnMemory(m, memory[m], heap) /\ MayOwn(m)
    BY <1>1 DEF StateInv, Placed
  <2> DEFINE x == memory[m]
  <2>2. /\ x = [data |-> x.data, size |-> x.size, owns |-> TRUE, spilled |-> x.spilled]
        /\ x.data \in Buffers \cup {NULL} /\ x.spilled \in BOOLEAN
        /\ Allowed(m, x.size) /\ (x.data = NULL => x.size = 0 \/ x.spilled)
        /\ (x.data # NULL => heap[x.data] \in Cells(x.size))
    BY <2>1 DEF OwnMemory
  <2> HIDE DEF x
  <2>3. x.owns = TRUE /\ x.size \in Nat
    BY <2>2 DEF Allowed
  <2>4. x = [data |-> x.data, size |-> x.size, owns |-> x.owns, spilled |-> x.spilled]
    BY <2>2, <2>3
  <2>5. QED
    BY <1>1, <2>1, <2>2, <2>3, <2>4 DEF x, Replaceable
<1>2. CASE ~ memory[m].owns
  <2> DEFINE b == bindings[NameOf[m]]
             n == HostBytes(b)
  <2>1. m \in Imported /\ b \in HostMemories /\ Fits(m, b) /\ memory[m] = OfHost(b)
    BY <1>2 DEF StateInv, Placed
  <2>2. n \in Nat /\ MinPages[m] \in Nat /\ MaxPages[m] \in Nat
    BY <2>1, HostSizes, LimitAssumption, TopAssumption
  <2>3. Allowed(m, n)
    <3>1. /\ n \in Nat /\ n % PageCells = 0
          /\ MinPages[m] * PageCells <= n /\ n <= MaxPages[m] * PageCells
      BY <2>1, <2>2, PageAssumption DEF Fits
    <3> HIDE DEF n
    <3>2. n \div PageCells \in MinPages[m] .. MaxPages[m]
      BY <2>2, <3>1, WholePages
    <3>3. QED
      BY <3>1, <3>2 DEF Allowed
  <2>4. b # NULL => b \in HostBuffers /\ heap[b] \in Cells(n)
    BY <2>1, HostSizes DEF StateInv, HostMemories
  <2>5. b = NULL => n = 0 /\ MinPages[m] = 0
    <3>1. b = NULL => n = 0 /\ MinPages[m] * PageCells <= 0
      BY <2>1, HostSizes DEF Fits
    <3>2. QED
      BY <2>2, <3>1, PageAssumption
  <2> DEFINE x == memory[m]
  <2>6. x = [data |-> b, size |-> n, owns |-> FALSE, spilled |-> FALSE]
    BY <2>1 DEF OfHost
  <2> HIDE DEF x, n
  <2>7. x.data = b /\ x.size = n /\ x.owns = FALSE /\ x.spilled = FALSE
    BY <2>6
  <2>8. x = [data |-> x.data, size |-> x.size, owns |-> x.owns, spilled |-> x.spilled]
    BY <2>6, <2>7
  <2>9. Replaceable(m) => MayOwn(m)
    BY <2>5, <2>7 DEF x, Replaceable, MayOwn
  <2>10. QED
    BY <2>1, <2>2, <2>3, <2>4, <2>5, <2>7, <2>8, <2>9 DEF x
<1>3. QED
  BY <1>1, <1>2

-----------------------------------------------------------------------------
(* Steps.                                                                  *)

(* However an instruction starts, waits, goes on and ends, what is in      *)
(* progress stays well formed.                                             *)
LEMMA OpMoves ==
  ASSUME OpInv, attached' = attached,
         \/ op' = Idle
         \/ op' = op
         \/ attached /\ \E asked, got : Ended(asked, got)
         \/ attached /\ \E m \in Memories : \/ op' = [kind |-> "access", needs |-> <<m>>,
                                                      at |-> 1, loading |-> FALSE]
                                            \/ op' = [kind |-> "load", needs |-> <<m>>,
                                                      at |-> 1, loading |-> FALSE]
         \/ attached /\ \E s, d \in Memories : op' = [kind |-> "copy", needs |-> <<s, d>>,
                                                      at |-> 1, loading |-> FALSE]
         \/ /\ Waiting /\ op.at <= Len(op.needs)
            /\ \/ op' = [op EXCEPT !.at = @ + 1] /\ ~ op.loading
               \/ op' = [op EXCEPT !.loading = TRUE]
               \/ op' = [op EXCEPT !.loading = FALSE, !.at = @ + 1]
  PROVE  OpInv'
<1>1. CASE op' = Idle
  BY <1>1 DEF OpInv, Idle, Waiting
<1>2. CASE op' = op
  BY <1>2 DEF OpInv, Waiting
<1>3. CASE attached /\ \E asked, got : Ended(asked, got)
  BY <1>3 DEF OpInv, Ended, Waiting
<1>4. ASSUME attached, NEW kind \in {"access", "load", "copy"}, NEW needs \in Seq(Memories),
             Len(needs) = IF kind = "copy" THEN 2 ELSE 1,
             op' = [kind |-> kind, needs |-> needs, at |-> 1, loading |-> FALSE]
      PROVE  OpInv'
  BY <1>4 DEF OpInv, Waiting
<1>5. \A m, n \in Memories : /\ <<m>> \in Seq(Memories) /\ Len(<<m>>) = 1
                             /\ <<m, n>> \in Seq(Memories) /\ Len(<<m, n>>) = 2
  OBVIOUS
<1>6. ASSUME Waiting, op.at <= Len(op.needs),
             NEW at \in {op.at, op.at + 1}, NEW loading \in BOOLEAN,
             loading => at = op.at,
             op' = [kind |-> op.kind, needs |-> op.needs, at |-> at, loading |-> loading]
      PROVE  OpInv'
  <2>1. Len(op.needs) \in Nat /\ op.needs \in Seq(Memories) /\ op.at \in 1 .. Len(op.needs) + 1
    BY <1>6, LenProperties DEF OpInv
  <2>2. at \in 1 .. Len(op.needs) + 1 /\ (loading => at <= Len(op.needs))
    BY <1>6, <2>1
  <2>3. op'.kind = op.kind /\ op'.needs = op.needs /\ op'.at = at /\ op'.loading = loading
    BY <1>6
  <2>4. op.kind \in {"access", "copy", "load"}
    BY <1>6 DEF Waiting
  <2>5. attached
    BY <2>4 DEF OpInv, Idle
  <2>6. QED
    BY <1>6, <2>1, <2>2, <2>3, <2>4, <2>5 DEF OpInv
<1>7. CASE /\ Waiting /\ op.at <= Len(op.needs)
           /\ \/ op' = [op EXCEPT !.at = @ + 1] /\ ~ op.loading
              \/ op' = [op EXCEPT !.loading = TRUE]
              \/ op' = [op EXCEPT !.loading = FALSE, !.at = @ + 1]
  <2>1. /\ op = [kind |-> op.kind, needs |-> op.needs, at |-> op.at, loading |-> op.loading]
        /\ op.loading \in BOOLEAN
    BY <1>7 DEF OpInv
  <2>2. CASE op' = [op EXCEPT !.at = @ + 1] /\ ~ op.loading
    <3>1. op' = [kind |-> op.kind, needs |-> op.needs, at |-> op.at + 1, loading |-> FALSE]
      BY <2>1, <2>2
    <3>2. QED
      BY <1>6, <1>7, <3>1
  <2>3. CASE op' = [op EXCEPT !.loading = TRUE]
    <3>1. op' = [kind |-> op.kind, needs |-> op.needs, at |-> op.at, loading |-> TRUE]
      BY <2>1, <2>3
    <3>2. QED
      BY <1>6, <1>7, <3>1
  <2>4. CASE op' = [op EXCEPT !.loading = FALSE, !.at = @ + 1]
    <3>1. op' = [kind |-> op.kind, needs |-> op.needs, at |-> op.at + 1, loading |-> FALSE]
      BY <2>1, <2>4
    <3>2. QED
      BY <1>6, <1>7, <3>1
  <2>5. QED
    BY <1>7, <2>2, <2>3, <2>4
<1>8. QED
  BY <1>1, <1>2, <1>3, <1>4, <1>5, <1>7

(* Nothing of the memories changes, but that a segment may be dropped or   *)
(* a copy made.                                                            *)
LEMMA StateSame ==
  ASSUME StateInv, dropped' \subseteq DOMAIN Segments,
         UNCHANGED <<attached, memory, heap, bindings>>,
         \/ file' = file
         \/ file' = [m \in Memories |-> file'[m]] /\ \A m \in Memories : CopyOf(m, file'[m])
  PROVE  StateKept
<1>1. \A m \in Memories : Placed(m)'
  BY DEF StateInv, Placed, MayOwn
<1>2. Separate' /\ Lost' = Lost
  BY DEF StateInv, Separate, Lost
<1>3. QED
  BY <1>1, <1>2 DEF StateInv, StateKept

(* A memory that is empty or has its buffer is marked as not spilled.      *)
LEMMA LoadedKeeps ==
  ASSUME StateInv, attached, NEW m \in Memories, Loaded(m),
         memory[m].size = 0 \/ memory[m].data # NULL,
         UNCHANGED <<attached, heap, bindings, file, dropped>>
  PROVE  StateKept
<1> DEFINE y == memory[m]
           no == FALSE
           x == [data |-> y.data, size |-> y.size, owns |-> y.owns, spilled |-> no]
<1>1. /\ y = [data |-> y.data, size |-> y.size, owns |-> y.owns, spilled |-> y.spilled]
      /\ y.size = 0 \/ y.data # NULL
  BY MemoryFacts
<1>2. memory' = [memory EXCEPT ![m] = [y EXCEPT !.spilled = no]]
  BY DEF Loaded
<1> HIDE DEF y, no
<1>3. [y EXCEPT !.spilled = no] = x
  <2>1. [[data |-> y.data, size |-> y.size, owns |-> y.owns, spilled |-> y.spilled]
          EXCEPT !.spilled = no] = x
    OBVIOUS
  <2> HIDE DEF x
  <2>2. QED
    BY <1>1, <2>1, Zenon
<1>4. memory' = [memory EXCEPT ![m] = x]
  BY <1>2, <1>3, Zenon
<1>5. x.data = y.data /\ x.size = y.size /\ x.owns = y.owns /\ x.spilled = no
  OBVIOUS
<1> HIDE DEF x
<1>6. CASE ~ y.owns
  <2>1. x = y
    <3> DEFINE b == bindings[NameOf[m]]
               n == HostBytes(b)
    <3>1. y = [data |-> b, size |-> n, owns |-> FALSE, spilled |-> no]
      BY <1>6 DEF StateInv, Placed, OfHost, y, no
    <3> HIDE DEF b, n
    <3>2. y.spilled = no
      BY <3>1
    <3>3. QED
      BY <1>1, <3>2 DEF x
  <2>2. memory' = memory
    BY <1>4, <2>1 DEF StateInv, y
  <2>3. QED
    BY <2>2, StateSame DEF StateInv
<1>7. CASE y.owns
  <2>1. OwnMemory(m, y, heap) /\ MayOwn(m)
    BY <1>7 DEF StateInv, Placed, y
  <2>2. x = [data |-> x.data, size |-> x.size, owns |-> TRUE, spilled |-> x.spilled]
    <3>1. y.owns = TRUE
      BY <2>1 DEF OwnMemory
    <3>2. x = [data |-> x.data, size |-> x.size, owns |-> y.owns, spilled |-> x.spilled]
      BY <1>5 DEF x
    <3>3. QED
      BY <3>1, <3>2, Zenon
  <2>3. OwnMemory(m, x, heap')
    BY <1>1, <1>5, <2>1, <2>2 DEF OwnMemory, no
  <2>4. \A n \in Memories \ {m} : memory[n].data \in Buffers =>
          memory[n].data # x.data /\ heap'[memory[n].data] = heap[memory[n].data]
    BY <1>5 DEF StateInv, Separate, y
  <2>5. \A b \in Buffers : heap'[b] # Freed =>
          b \in Lost \/ b = x.data \/ \E n \in Memories \ {m} : memory[n].data = b
    BY <1>5 DEF Lost, y
  <2>6. heap' = [b \in Buffers \cup HostBuffers |-> heap'[b]]
        /\ \A b \in HostBuffers : heap'[b] = heap[b]
    BY DEF StateInv
  <2>7. file' = [n \in Memories |-> file'[n]] /\ \A n \in Memories : CopyOf(n, file'[n])
    BY DEF StateInv
  <2>8. attached' = attached /\ bindings' = bindings /\ dropped' = dropped
    OBVIOUS
  <2>9. Replaces(m, x)
    BY <1>4, <2>4, <2>5, <2>6, <2>7, <2>8 DEF Replaces
  <2>10. QED
    BY <2>1, <2>3, <2>9, OneReplaced
<1>8. QED
  BY <1>6, <1>7

(* Starting an instruction, having its memories loaded, and the            *)
(* instructions that only answer.                                          *)
LEMMA LoadingSteps ==
  ASSUME IInv,
         \/ \E m \in Memories : \/ StartAccess(m) \/ StartLoadMemory(m) \/ MemorySize(m)
                                \/ \E s \in Memories : StartCopy(m, s)
         \/ Ensure \/ HookSucceeds \/ HookFails \/ LoadMemoryDone \/ Load \/ Retire
         \/ \E g \in DOMAIN Segments : DataDrop(g)
  PROVE  Kept
<1>1. StateInv /\ OpInv
  BY DEF IInv
<1>2. Waiting => /\ attached /\ op.needs \in Seq(Memories) /\ op.loading \in BOOLEAN
                 /\ op.at \in Nat /\ op.at >= 1 /\ Len(op.needs) \in Nat
                 /\ (op.at <= Len(op.needs) => op.needs[op.at] \in Memories)
                 /\ (op.loading => op.at <= Len(op.needs))
  <2>1. ASSUME Waiting
        PROVE  /\ attached /\ op.needs \in Seq(Memories) /\ op.loading \in BOOLEAN
               /\ op.at \in 1 .. Len(op.needs) + 1 /\ (op.loading => op.at <= Len(op.needs))
    BY <1>1, <2>1 DEF OpInv, Waiting, Idle
  <2>2. Waiting => Len(op.needs) \in Nat
    BY <2>1, LenProperties
  <2>3. QED
    BY <2>1, <2>2, ElementOfSeq
<1>3. ASSUME UNCHANGED <<attached, memory, heap, bindings, file, dropped>>, OpInv'
      PROVE  Kept
  BY <1>1, <1>3, StateSame DEF IInv, Kept, StateKept, StateInv
<1>4. ASSUME NEW m \in Memories, \/ StartAccess(m) \/ StartLoadMemory(m)
                                 \/ \E s \in Memories : StartCopy(m, s)
      PROVE  Kept
  <2>1. UNCHANGED <<attached, memory, heap, bindings, file, dropped>> /\ attached
    BY <1>4 DEF StartAccess, StartLoadMemory, StartCopy, Begin
  <2>2. \/ op' = [kind |-> "access", needs |-> <<m>>, at |-> 1, loading |-> FALSE]
        \/ op' = [kind |-> "load", needs |-> <<m>>, at |-> 1, loading |-> FALSE]
        \/ \E s \in Memories : op' = [kind |-> "copy", needs |-> <<s, m>>,
                                      at |-> 1, loading |-> FALSE]
    BY <1>4 DEF StartAccess, StartLoadMemory, StartCopy, Begin
  <2>3. OpInv'
    BY <1>1, <2>1, <2>2, OpMoves
  <2>4. QED
    BY <1>3, <2>1, <2>3
<1>5. ASSUME NEW m \in Memories, MemorySize(m) PROVE Kept
  <2>1. UNCHANGED <<attached, memory, heap, bindings, file, dropped>> /\ attached
        /\ \E asked, got : Ended(asked, got)
    BY <1>5 DEF MemorySize
  <2>2. QED
    BY <1>1, <1>3, <2>1, OpMoves
<1>6. CASE Ensure
  <2> DEFINE m == op.needs[op.at]
  <2>1. /\ Waiting /\ ~ op.loading /\ op.at <= Len(op.needs) /\ attached /\ m \in Memories
        /\ UNCHANGED <<attached, heap, bindings, file, dropped>>
    BY <1>2, <1>6 DEF Ensure, Needing
  <2>2. /\ \/ UNCHANGED memory
           \/ Loaded(m) /\ (memory[m].size = 0 \/ memory[m].data # NULL)
        /\ \/ op' = [op EXCEPT !.at = @ + 1] \/ op' = [op EXCEPT !.loading = TRUE]
           \/ op' = Idle \/ \E asked, got : Ended(asked, got)
    BY <1>6 DEF Ensure, Abandon
  <2> HIDE DEF m
  <2>3. OpInv'
    BY <1>1, <2>1, <2>2, OpMoves
  <2>4. StateKept
    <3>1. CASE UNCHANGED memory
      BY <1>1, <1>3, <2>1, <2>3, <3>1 DEF IInv, Kept, StateKept
    <3>2. CASE Loaded(m) /\ (memory[m].size = 0 \/ memory[m].data # NULL)
      BY <1>1, <2>1, <3>2, LoadedKeeps
    <3>3. QED
      BY <2>2, <3>1, <3>2
  <2>5. QED
    BY <2>3, <2>4 DEF IInv, Kept, StateKept
<1>7. CASE HookSucceeds
  <2> DEFINE m == op.needs[op.at]
  <2>1. /\ Waiting /\ op.loading /\ op.at <= Len(op.needs) /\ attached /\ m \in Memories
        /\ UNCHANGED <<attached, heap, bindings, file, dropped>>
    BY <1>2, <1>7 DEF HookSucceeds, Hooking
  <2>2. \/ UNCHANGED memory /\ (op' = Idle \/ \E asked, got : Ended(asked, got))
        \/ /\ Loaded(m) /\ memory[m].data # NULL
           /\ op' = [op EXCEPT !.loading = FALSE, !.at = @ + 1]
    BY <1>7 DEF HookSucceeds, Abandon
  <2> HIDE DEF m
  <2>3. OpInv'
    BY <1>1, <2>1, <2>2, OpMoves
  <2>4. StateKept
    <3>1. CASE UNCHANGED memory
      BY <1>1, <1>3, <2>1, <2>3, <3>1 DEF IInv, Kept, StateKept
    <3>2. CASE Loaded(m) /\ memory[m].data # NULL
      BY <1>1, <2>1, <3>2, LoadedKeeps
    <3>3. QED
      BY <2>2, <3>1, <3>2
  <2>5. QED
    BY <2>3, <2>4 DEF IInv, Kept, StateKept
<1>8. CASE HookFails \/ LoadMemoryDone \/ Load \/ Retire
  <2>1. UNCHANGED <<attached, memory, heap, bindings, file, dropped>>
    BY <1>8 DEF HookFails, LoadMemoryDone, Load, Retire
  <2>2. op' = Idle \/ (Waiting /\ \E asked, got : Ended(asked, got))
    BY <1>8 DEF HookFails, LoadMemoryDone, Load, Retire, Abandon, Hooking, Performing
  <2>3. QED
    BY <1>1, <1>2, <1>3, <2>1, <2>2, OpMoves
<1>9. ASSUME NEW g \in DOMAIN Segments, DataDrop(g) PROVE Kept
  <2>1. /\ attached /\ \E asked, got : Ended(asked, got)
        /\ dropped' = dropped \cup {g} /\ UNCHANGED <<attached, memory, heap, bindings, file>>
    BY <1>9 DEF DataDrop
  <2>2. OpInv'
    BY <1>1, <2>1, OpMoves
  <2>3. dropped' \subseteq DOMAIN Segments
    BY <1>1, <2>1 DEF StateInv
  <2>4. QED
    BY <1>1, <2>1, <2>2, <2>3, StateSame DEF IInv, Kept, StateKept
<1>10. QED
  BY <1>4, <1>5, <1>6, <1>7, <1>8, <1>9

(* The instructions that write cells: all of them are within a buffer, or  *)
(* nothing is written.                                                     *)
LEMMA WriteSteps ==
  ASSUME IInv, Store \/ Fill \/ Copy \/ InitFrom
  PROVE  Kept
(* A step that writes cells into the buffer of one memory, which may be    *)
(* the buffer of the host that several imports view.                       *)
<1>written. ASSUME StateInv, attached, NEW m \in Memories, memory[m].data # NULL,
                   NEW c \in Cells(memory[m].size),
                   heap' = [heap EXCEPT ![memory[m].data] = c],
                   UNCHANGED <<attached, memory, bindings, file, dropped>>
            PROVE  StateKept
  <2> USE <1>written
  <2> DEFINE d == memory[m].data
  <2>1. d \in IF memory[m].owns THEN Buffers ELSE HostBuffers
    BY MemoryFacts
  <2>2. /\ heap' = [b \in Buffers \cup HostBuffers |-> heap'[b]]
        /\ heap'[d] = c /\ \A b \in Buffers \cup HostBuffers : b # d => heap'[b] = heap[b]
    BY <2>1 DEF StateInv
  <2>3. \A b \in HostBuffers : heap'[b] \in Cells(HostSize[b])
    <3>1. SUFFICES ASSUME NEW b \in HostBuffers, b = d PROVE c \in Cells(HostSize[b])
      BY <2>2 DEF StateInv
    <3>2. ~ memory[m].owns
      BY <2>1, <3>1, BufferAssumption
    <3>3. memory[m].size = HostSize[b]
      <4>1. memory[m] = OfHost(bindings[NameOf[m]])
        BY <3>2 DEF StateInv, Placed
      <4>2. /\ memory[m].data = bindings[NameOf[m]]
            /\ memory[m].size = HostBytes(bindings[NameOf[m]])
        BY <4>1 DEF OfHost
      <4>3. QED
        BY <3>1, <4>2, HostSizes
    <3>4. QED
      BY <3>3
  <2>4. ASSUME NEW n \in Memories PROVE Placed(n)'
    <3>1. CASE ~ memory[n].owns
      BY <3>1 DEF StateInv, Placed
    <3>2. CASE memory[n].owns
      <4>1. OwnMemory(n, memory[n], heap) /\ MayOwn(n)
        BY <3>2 DEF StateInv, Placed
      <4>2. memory[n].data # NULL => heap'[memory[n].data] \in Cells(memory[n].size)
        <5>1. CASE n = m
          BY <2>2, <5>1
        <5>2. CASE n # m /\ memory[n].data # NULL
          <6>1. memory[n].data \in Buffers /\ memory[n].data # d
            BY <4>1, <5>2 DEF OwnMemory, StateInv, Separate
          <6>2. QED
            BY <2>2, <4>1, <5>2, <6>1 DEF OwnMemory
        <5>3. QED
          BY <5>1, <5>2
      <4>3. OwnMemory(n, memory[n], heap')
        BY <4>1, <4>2 DEF OwnMemory
      <4>4. QED
        BY <3>2, <4>1, <4>3 DEF Placed, MayOwn
    <3>3. QED
      BY <3>1, <3>2
  <2>5. Lost' \subseteq Lost
    <3>1. ASSUME NEW b \in Lost' PROVE b \in Lost
      <4>1. b \in Buffers /\ heap'[b] # Freed /\ \A n \in Memories : memory[n].data # b
        BY DEF Lost
      <4>2. heap'[b] = heap[b]
        BY <2>2, <4>1
      <4>3. QED
        BY <4>1, <4>2 DEF Lost
    <3>2. QED
      BY <3>1
  <2>6. Separate' /\ memory' = [n \in Memories |-> memory'[n]]
    BY DEF StateInv, Separate
  <2>7. file' = [n \in Memories |-> file'[n]] /\ \A n \in Memories : CopyOf(n, file'[n])
    BY DEF StateInv
  <2>8. /\ attached' \in BOOLEAN /\ dropped' \subseteq DOMAIN Segments
        /\ bindings' \in [Names -> HostMemories \cup {Unbound}]
    BY DEF StateInv
  <2>9. QED
    BY <2>2, <2>3, <2>4, <2>5, <2>6, <2>7, <2>8 DEF StateInv, StateKept
<1>1. StateInv /\ OpInv
  BY DEF IInv
<1>2. ASSUME NEW kind \in {"access", "copy"}, Performing(kind)
      PROVE  /\ attached /\ op.needs[1] \in Memories
             /\ kind = "copy" => op.needs[2] \in Memories
  <2>1. Waiting /\ op.kind = kind
    BY <1>2 DEF Performing
  <2>2. /\ attached /\ op.needs \in Seq(Memories)
        /\ Len(op.needs) = IF kind = "copy" THEN 2 ELSE 1
    BY <1>1, <2>1 DEF OpInv, Idle
  <2>3. QED
    BY <2>2, ElementOfSeq
<1>3. \A a, n \in 0 .. Top : a <= Top - n => Plus(a, n) = a + n
  BY TopAssumption DEF Plus
<1>4. \A a, n \in 0 .. Top : Plus(a, n) \in Nat
  BY TopAssumption DEF Plus
<1>5. ASSUME NEW m \in Memories, attached, NEW a \in Nat, NEW n \in Nat, NEW d,
             \/ /\ memory[m].data # NULL /\ d \in Cells(n)
                /\ heap' = [heap EXCEPT ![memory[m].data] = Overlay(@, a, d, n)]
             \/ heap' = heap,
             \E asked, got : Ended(asked, got),
             UNCHANGED <<attached, memory, bindings, file, dropped>>
      PROVE  Kept
  <2>1. OpInv'
    BY <1>1, <1>5, OpMoves
  <2>2. CASE heap' = heap
    BY <1>1, <1>5, <2>1, <2>2, StateSame DEF IInv, Kept, StateKept, StateInv
  <2>3. CASE /\ memory[m].data # NULL /\ d \in Cells(n)
             /\ heap' = [heap EXCEPT ![memory[m].data] = Overlay(@, a, d, n)]
    <3> DEFINE b == memory[m].data
               c == Overlay(heap[b], a, d, n)
    <3>1. memory[m].size \in Nat /\ heap[b] \in Cells(memory[m].size)
      BY <1>1, <1>5, <2>3, MemoryFacts
    <3>2. c \in Cells(memory[m].size)
      BY <1>5, <2>3, <3>1, CellTypes
    <3>3. heap' = [heap EXCEPT ![b] = c]
      BY <2>3
    <3> HIDE DEF c
    <3>4. StateKept
      BY <1>1, <1>5, <2>3, <3>2, <3>3, <1>written
    <3>5. QED
      BY <2>1, <3>4 DEF IInv, Kept, StateKept
  <2>4. QED
    BY <1>5, <2>2, <2>3
<1>6. CASE Store
  <2> DEFINE m == op.needs[1]
  <2>0. PICK base \in 0 .. Top, offset \in 0 .. Top, n \in Widths : \E d \in Cells(n) :
          WriteOrTrap(Reaches(m, base, offset, n), <<"store", m, base + offset, n, d>>,
                      m, Plus(base, offset), d, n)
    BY <1>6 DEF Store, Cells
  <2>1. PICK d \in Cells(n) :
          WriteOrTrap(Reaches(m, base, offset, n), <<"store", m, base + offset, n, d>>,
                      m, Plus(base, offset), d, n)
    BY <2>0
  <2>2. attached /\ m \in Memories /\ UNCHANGED <<attached, memory, bindings, file, dropped>>
    BY <1>2, <1>6 DEF Store
  <2>3. n \in Nat /\ Plus(base, offset) \in Nat
    BY <1>4, WidthAssumption, TopAssumption
  <2>4. /\ \/ /\ memory[m].data # NULL
              /\ heap' = [heap EXCEPT ![memory[m].data] = Overlay(@, Plus(base, offset), d, n)]
           \/ heap' = heap
        /\ \E asked, got : Ended(asked, got)
    BY <2>1 DEF WriteOrTrap, Reaches, BoundsCheck
  <2>5. QED
    BY <1>5, <2>2, <2>3, <2>4
<1>7. CASE Fill
  <2> DEFINE m == op.needs[1]
  <2>1. PICK a \in 0 .. Top, n \in 0 .. Top, v \in Cell :
          WriteOrTrap(BoundsCheck(m, a, n), <<"fill", m, a, n, v>>,
                      m, a, [i \in 0 .. n - 1 |-> v], n)
    BY <1>7 DEF Fill
  <2>2. attached /\ m \in Memories /\ UNCHANGED <<attached, memory, bindings, file, dropped>>
    BY <1>2, <1>7 DEF Fill
  <2> DEFINE d == [i \in 0 .. n - 1 |-> v]
  <2>3. n \in Nat /\ a \in Nat /\ d \in Cells(n)
    BY TopAssumption DEF Cells
  <2>4. /\ \/ /\ memory[m].data # NULL
              /\ heap' = [heap EXCEPT ![memory[m].data] = Overlay(@, a, d, n)]
           \/ heap' = heap
        /\ \E asked, got : Ended(asked, got)
    BY <2>1 DEF WriteOrTrap, BoundsCheck
  <2> HIDE DEF d
  <2>5. QED
    BY <1>5, <2>2, <2>3, <2>4
<1>8. CASE Copy
  <2> DEFINE s == op.needs[1]
             m == op.needs[2]
  <2>1. PICK sa \in 0 .. Top, da \in 0 .. Top, n \in 0 .. Top :
          WriteOrTrap(BoundsCheck(s, sa, n) /\ BoundsCheck(m, da, n), <<"copy", m, s, da, sa, n>>,
                      m, da, Slice(Data(s), sa, n), n)
    BY <1>8 DEF Copy
  <2>2. /\ attached /\ s \in Memories /\ m \in Memories
        /\ UNCHANGED <<attached, memory, bindings, file, dropped>>
    BY <1>2, <1>8 DEF Copy
  <2> DEFINE d == Slice(Data(s), sa, n)
  <2>3. n \in Nat /\ da \in Nat /\ sa \in Nat
    BY TopAssumption
  <2>4. /\ \/ /\ memory[m].data # NULL /\ BoundsCheck(s, sa, n)
              /\ heap' = [heap EXCEPT ![memory[m].data] = Overlay(@, da, d, n)]
           \/ heap' = heap
        /\ \E asked, got : Ended(asked, got)
    BY <2>1 DEF WriteOrTrap, BoundsCheck
  <2>5. BoundsCheck(s, sa, n) => d \in Cells(n)
    <3>1. SUFFICES ASSUME BoundsCheck(s, sa, n) PROVE d \in Cells(n)
      OBVIOUS
    <3>2. memory[s].data # NULL /\ (n = 0 \/ sa + n <= memory[s].size)
      BY <1>3, <3>1 DEF BoundsCheck
    <3>3. memory[s].size \in Nat /\ Data(s) \in Cells(memory[s].size)
      BY <1>1, <2>2, <3>2, MemoryFacts DEF Data
    <3>4. QED
      BY <2>3, <3>2, <3>3, CellTypes
  <2> HIDE DEF d
  <2>6. QED
    BY <1>5, <2>2, <2>3, <2>4, <2>5
<1>9. CASE InitFrom
  <2> DEFINE m == op.needs[1]
             Fitting(g, a, sa, n) == /\ g \notin dropped
                                     /\ sa <= Top - n
                                     /\ Plus(sa, n) <= Segments[g].size
                                     /\ BoundsCheck(m, a, n)
  <2>1. PICK g \in DOMAIN Segments, a \in 0 .. Top, sa \in 0 .. Top, n \in 0 .. Top :
          WriteOrTrap(Fitting(g, a, sa, n), <<"init", m, g, a, sa, n>>,
                      m, a, Slice(Segments[g].bytes, sa, n), n)
    BY <1>9 DEF InitFrom
  <2>2. attached /\ m \in Memories /\ UNCHANGED <<attached, memory, bindings, file, dropped>>
    BY <1>2, <1>9 DEF InitFrom
  <2> DEFINE d == Slice(Segments[g].bytes, sa, n)
  <2>3. n \in Nat /\ a \in Nat /\ sa \in Nat
    BY TopAssumption
  <2>4. /\ \/ /\ Fitting(g, a, sa, n)
              /\ heap' = [heap EXCEPT ![memory[m].data] = Overlay(@, a, d, n)]
           \/ heap' = heap
        /\ \E asked, got : Ended(asked, got)
    BY <2>1 DEF WriteOrTrap
  <2>5. Fitting(g, a, sa, n) => memory[m].data # NULL /\ d \in Cells(n)
    <3>1. SUFFICES ASSUME Fitting(g, a, sa, n) PROVE memory[m].data # NULL /\ d \in Cells(n)
      OBVIOUS
    <3>2. memory[m].data # NULL /\ sa + n <= Segments[g].size
      BY <1>3, <3>1 DEF BoundsCheck
    <3>3. Segments[g].size \in Nat /\ Segments[g].bytes \in Cells(Segments[g].size)
      BY SegmentAssumption DEF Cells
    <3>4. QED
      BY <2>3, <3>2, <3>3, CellTypes
  <2> HIDE DEF d, Fitting
  <2>6. QED
    BY <1>5, <2>2, <2>3, <2>4, <2>5
<1>10. QED
  BY <1>6, <1>7, <1>8, <1>9

(* The buffer of a memory is not a freed one.                              *)
LEMMA BuffersHeld ==
  ASSUME StateInv, NEW m \in Memories, memory[m].data \in Buffers
  PROVE  attached /\ memory[m].owns /\ heap[memory[m].data] # Freed
<1>1. attached
  <2>1. ~ attached => memory[m] = NoMemory
    BY DEF StateInv, Placed
  <2>2. NoMemory.data = NULL
    BY DEF NoMemory
  <2>3. QED
    BY <2>1, <2>2, NullAssumption
<1>2. memory[m].owns
  BY <1>1, NullAssumption, BufferAssumption, MemoryFacts
<1>3. OwnMemory(m, memory[m], heap)
  BY <1>1, <1>2 DEF StateInv, Placed
<1>4. /\ memory[m].size \in 0 .. Top
      /\ heap[memory[m].data] \in [0 .. memory[m].size - 1 -> Cell]
  BY <1>3, NullAssumption, TopAssumption DEF OwnMemory, Allowed, Cells
<1>5. QED
  BY <1>1, <1>2, <1>4, FreedAssumption

(* A memory that may have a buffer of its own gets another or none, and    *)
(* the one it had is freed.                                                *)
LEMMA Refilled ==
  ASSUME StateInv, attached, NEW m \in Memories, Replaceable(m),
         NEW x, OwnMemory(m, x, heap'), x.data \in Free(heap) \cup {NULL},
         NEW bytes,
         heap' = [b \in Buffers \cup HostBuffers |->
                   IF b = x.data THEN bytes
                   ELSE IF b = memory[m].data THEN Freed ELSE heap[b]],
         memory' = [memory EXCEPT ![m] = x],
         file' = [n \in Memories |-> file'[n]] /\ \A n \in Memories : CopyOf(n, file'[n]),
         attached' = attached /\ bindings' = bindings /\ dropped' = dropped
  PROVE  StateKept
<1> DEFINE old == memory[m].data
<1>1. old \in Buffers \cup {NULL} /\ x.data \in Buffers \cup {NULL} /\ MayOwn(m)
  BY MemoryFacts DEF Free, Replaceable
<1>2. heap' = [b \in Buffers \cup HostBuffers |-> heap'[b]]
  OBVIOUS
<1>3. ASSUME NEW n \in Memories \ {m}, memory[n].data \in Buffers
      PROVE  memory[n].data # x.data /\ heap'[memory[n].data] = heap[memory[n].data]
  <2>1. memory[n].data # old
    BY <1>3 DEF StateInv, Separate
  <2>2. heap[memory[n].data] # Freed
    BY <1>3, BuffersHeld
  <2>3. memory[n].data # x.data
    BY <1>3, <2>2, NullAssumption DEF Free
  <2>4. QED
    BY <1>3, <2>1, <2>3
<1>4. \A b \in HostBuffers : heap'[b] = heap[b]
  BY <1>1, NullAssumption, BufferAssumption
<1>5. ASSUME NEW b \in Buffers, heap'[b] # Freed, b # x.data
      PROVE  b \in Lost \/ \E n \in Memories \ {m} : memory[n].data = b
  <2>1. b # old /\ heap[b] # Freed
    BY <1>5
  <2>2. QED
    BY <2>1 DEF Lost
<1>6. Replaces(m, x)
  BY <1>2, <1>3, <1>4, <1>5 DEF Replaces
<1>7. QED
  BY <1>1, <1>6, OneReplaced

(* memory.grow: within the maximum, to a buffer that has the old cells and *)
(* zeros, or not at all.                                                   *)
LEMMA GrowSteps ==
  ASSUME IInv, Grow
  PROVE  Kept
<1>1. StateInv /\ OpInv
  BY DEF IInv
<1> DEFINE m == op.needs[1]
           pages == memory[m].size \div PageCells
<1>2. attached /\ m \in Memories
  <2>1. Waiting /\ op.kind = "access"
    BY DEF Grow, Performing
  <2>2. attached /\ op.needs \in Seq(Memories) /\ Len(op.needs) = 1
    BY <1>1, <2>1 DEF OpInv, Idle
  <2>3. QED
    BY <2>2, ElementOfSeq
<1>3. UNCHANGED <<attached, bindings, file, dropped>>
  BY DEF Grow
<1>4. /\ \E asked, got : Ended(asked, got)
      /\ \/ UNCHANGED <<memory, heap>>
         \/ \E new \in Nat : Growable(m, pages, new) /\ Free(heap) # {} /\ GrowTo(m, new)
  <2>1. pages \in Nat
    <3>1. memory[m].size \in Nat
      BY <1>1, <1>2, MemoryFacts
    <3>2. QED
      BY <3>1, PageAssumption
  <2>2. \A delta \in 0 .. Top : Plus(pages, delta) \in Nat
    BY <2>1, TopAssumption DEF Plus
  <2> HIDE DEF pages
  <2>3. QED
    BY <2>2 DEF Grow, pages
<1> HIDE DEF m
<1>5. OpInv'
  BY <1>1, <1>2, <1>3, <1>4, OpMoves
<1>6. CASE UNCHANGED <<memory, heap>>
  BY <1>1, <1>3, <1>5, <1>6, StateSame DEF IInv, Kept, StateKept, StateInv
<1>7. ASSUME NEW new \in Nat, Growable(m, pages, new), Free(heap) # {}, GrowTo(m, new)
      PROVE  StateKept
  <2> DEFINE y == memory[m]
             b == Fresh(heap)
             s == new * PageCells
             bytes == IF y.data = NULL THEN Blank(s) ELSE Extended(heap[y.data], y.size, s)
             x == [data |-> b, size |-> s, owns |-> y.owns, spilled |-> y.spilled]
  <2>1. /\ y = [data |-> y.data, size |-> y.size, owns |-> y.owns, spilled |-> y.spilled]
        /\ y.size \in Nat /\ Allowed(m, y.size) /\ y.spilled \in BOOLEAN
        /\ y.owns \in BOOLEAN
        /\ y.data # NULL => heap[y.data] \in Cells(y.size)
    BY <1>1, <1>2, MemoryFacts
  <2>2. Replaceable(m) /\ y.owns = TRUE
    BY <1>2, <1>7, <2>1 DEF Growable, Replaceable
  <2>3. b \in Free(heap) /\ b \in Buffers /\ heap[b] = Freed /\ b # NULL
    BY <1>7, NullAssumption DEF Fresh, Free
  <2>4. new \in Nat /\ new >= pages /\ new <= MaxPages[m] /\ s <= MaxBytes
    BY <1>7 DEF Growable
  <2>5. s \in Nat /\ s % PageCells = 0 /\ s \div PageCells = new
    BY <2>4, WholePages
  <2>6. Allowed(m, s)
    <3>1. pages \in Nat /\ MinPages[m] <= pages /\ MinPages[m] \in Nat
      BY <1>2, <2>1, PageAssumption, LimitAssumption DEF Allowed
    <3>2. QED
      BY <2>4, <2>5, <3>1 DEF Allowed
  <2>7. bytes \in Cells(s)
    BY <2>1, <2>5, CellTypes, CellAssumption DEF Blank, Cells
  <2>8. memory' = [memory EXCEPT ![m] = x]
    <3>1. memory' = [memory EXCEPT ![m] = [[y EXCEPT !.data = b] EXCEPT !.size = s]]
      BY <1>1, <1>2, <1>7 DEF GrowTo, StateInv
    <3> HIDE DEF y, b, s
    <3>2. [[data |-> y.data, size |-> y.size, owns |-> y.owns, spilled |-> y.spilled]
            EXCEPT !.data = b]
          = [data |-> b, size |-> y.size, owns |-> y.owns, spilled |-> y.spilled]
      OBVIOUS
    <3>3. [[data |-> b, size |-> y.size, owns |-> y.owns, spilled |-> y.spilled]
            EXCEPT !.size = s] = x
      OBVIOUS
    <3> HIDE DEF x
    <3>4. QED
      BY <2>1, <3>1, <3>2, <3>3, Zenon
  <2>9. heap' = [c \in Buffers \cup HostBuffers |->
                   IF c = b THEN bytes ELSE IF c = y.data THEN Freed ELSE heap[c]]
    <3>1. heap' = [Released(heap, {y.data}) EXCEPT ![b] = bytes]
      BY <1>7 DEF GrowTo
    <3>2. Released(heap, {y.data}) = [c \in Buffers \cup HostBuffers |->
                                       IF c = y.data THEN Freed ELSE heap[c]]
      BY <1>1 DEF StateInv, Released
    <3> HIDE DEF y, b, bytes
    <3>3. QED
      BY <2>3, <3>1, <3>2
  <2>10. x.data = b /\ x.size = s /\ x.spilled = y.spilled
    OBVIOUS
  <2> HIDE DEF y, b, s, bytes
  <2>11. x = [data |-> x.data, size |-> x.size, owns |-> TRUE, spilled |-> x.spilled]
    BY <2>2, <2>10, Zenon
  <2> HIDE DEF x
  <2>12. OwnMemory(m, x, heap')
    BY <2>1, <2>3, <2>4, <2>6, <2>7, <2>9, <2>10, <2>11 DEF OwnMemory
  <2>13. file' = [n \in Memories |-> file'[n]] /\ \A n \in Memories : CopyOf(n, file'[n])
    BY <1>1, <1>3 DEF StateInv
  <2>14. QED
    BY <1>1, <1>2, <1>3, <2>2, <2>3, <2>8, <2>9, <2>10, <2>12, <2>13, Refilled DEF y
<1>8. QED
  BY <1>4, <1>5, <1>6, <1>7 DEF IInv, Kept, StateKept

(* Spilling, capturing and restoring, between instructions and inside the  *)
(* load hook.                                                              *)
LEMMA EmbedderSteps ==
  ASSUME IInv,
         \E m \in Memories : SpillMemory(m) \/ SerializeMemory(m) \/ DeserializeMemory(m)
  PROVE  Kept
<1>1. StateInv /\ OpInv
  BY DEF IInv
<1>2. ASSUME attached' = attached, op' = op, StateKept PROVE Kept
  BY <1>1, <1>2, OpMoves DEF IInv, Kept, StateKept
<1>3. ASSUME NEW m \in Memories, NEW c, CopyOf(m, c), file' = [file EXCEPT ![m] = c]
      PROVE  file' = [n \in Memories |-> file'[n]] /\ \A n \in Memories : CopyOf(n, file'[n])
  BY <1>1, <1>3 DEF StateInv
<1>4. ASSUME NEW m \in Memories, attached, memory[m].data # NULL \/ memory[m].size = 0
      PROVE  CopyOf(m, Copied(m))
  <2> DEFINE c == Copied(m)
  <2>1. memory[m].size \in Nat /\ Allowed(m, memory[m].size)
    BY <1>1, <1>4, MemoryFacts
  <2>2. IF memory[m].data = NULL THEN memory[m].size = 0 ELSE Data(m) \in Cells(memory[m].size)
    BY <1>1, <1>4, MemoryFacts DEF Data
  <2>3. Blank(0) \in Cells(0)
    BY DEF Blank, Cells
  <2>4. c = [size |-> c.size, cells |-> c.cells] /\ c.size = memory[m].size
        /\ c.cells \in Cells(memory[m].size)
    BY <2>2, <2>3 DEF Copied
  <2> HIDE DEF c
  <2>5. CopyOf(m, c)
    BY <2>1, <2>4 DEF CopyOf
  <2>6. QED
    BY <2>5 DEF c
<1>5. ASSUME NEW m \in Memories, SpillMemory(m) PROVE Kept
  <2> DEFINE y == memory[m]
             yes == TRUE
  <2>1. /\ attached /\ y.owns /\ UNCHANGED <<attached, bindings, dropped, op>>
    BY <1>5 DEF SpillMemory, Embedder
  <2>2. /\ y = [data |-> y.data, size |-> y.size, owns |-> y.owns, spilled |-> y.spilled]
        /\ Replaceable(m) /\ y.owns = TRUE /\ OwnMemory(m, y, heap)
    BY <1>1, <2>1, MemoryFacts DEF StateInv, Placed, Replaceable
  <2>3. CASE y.size = 0 /\ Loaded(m) /\ UNCHANGED <<heap, file>>
    <3>1. StateKept
      BY <1>1, <2>1, <2>3, LoadedKeeps
    <3>2. QED
      BY <1>2, <2>1, <3>1
  <2>4. ASSUME y.size # 0, NEW x,
               x = [data |-> NULL, size |-> y.size, owns |-> y.owns, spilled |-> yes],
               memory' = [memory EXCEPT ![m] = x],
               heap' = Released(heap, {y.data}),
               \/ file' = file
               \/ y.data # NULL /\ file' = [file EXCEPT ![m] = Copied(m)]
        PROVE  Kept
    <3>1. x.data = NULL /\ x.size = y.size /\ x.owns = TRUE /\ x.spilled = TRUE
      BY <2>2, <2>4
    <3>2. x = [data |-> x.data, size |-> x.size, owns |-> TRUE, spilled |-> x.spilled]
      BY <2>2, <2>4, <3>1, Zenon
    <3>3. OwnMemory(m, x, heap')
      BY <2>2, <3>1, <3>2 DEF OwnMemory
    <3>4. file' = [n \in Memories |-> file'[n]] /\ \A n \in Memories : CopyOf(n, file'[n])
      BY <1>1, <1>3, <1>4, <2>1, <2>4 DEF StateInv
    <3>5. heap' = [b \in Buffers \cup HostBuffers |->
                    IF b = x.data THEN Freed ELSE IF b = y.data THEN Freed ELSE heap[b]]
      BY <1>1, <2>4, <3>1, NullAssumption DEF Released, StateInv
    <3>6. /\ Replaceable(m) /\ x.data \in Free(heap) \cup {NULL}
          /\ memory' = [memory EXCEPT ![m] = x]
          /\ attached' = attached /\ bindings' = bindings /\ dropped' = dropped
      BY <2>1, <2>2, <2>4, <3>1
    <3>7. StateKept
      BY <1>1, <2>1, <3>3, <3>4, <3>5, <3>6, Refilled
    <3>8. QED
      BY <1>2, <2>1, <3>7
  <2>5. CASE /\ y.size # 0 /\ y.data = NULL
             /\ memory' = [memory EXCEPT ![m].spilled = TRUE]
             /\ UNCHANGED <<heap, file>>
    <3> DEFINE x == [data |-> NULL, size |-> y.size, owns |-> y.owns, spilled |-> yes]
    <3>1. memory' = [memory EXCEPT ![m] = [y EXCEPT !.spilled = yes]]
      BY <2>5
    <3>2. heap' = Released(heap, {y.data})
      BY <1>1, <2>5, NullAssumption DEF Released, StateInv
    <3> HIDE DEF y, yes
    <3>3. [[data |-> NULL, size |-> y.size, owns |-> y.owns, spilled |-> y.spilled]
            EXCEPT !.spilled = yes] = x
      OBVIOUS
    <3> HIDE DEF x
    <3>4. memory' = [memory EXCEPT ![m] = x]
      BY <2>2, <2>5, <3>1, <3>3, Zenon
    <3>5. QED
      BY <2>4, <2>5, <3>2, <3>4 DEF x
  <2>6. CASE /\ y.size # 0 /\ y.data # NULL
             /\ file' = [file EXCEPT ![m] = Copied(m)]
             /\ heap' = Released(heap, {y.data})
             /\ memory' = [memory EXCEPT ![m].data = NULL, ![m].spilled = TRUE]
    <3> DEFINE x == [data |-> NULL, size |-> y.size, owns |-> y.owns, spilled |-> yes]
    <3>1. memory' = [memory EXCEPT ![m] = [[y EXCEPT !.data = NULL] EXCEPT !.spilled = yes]]
      BY <1>1, <2>6 DEF StateInv
    <3> HIDE DEF y, yes
    <3>2. [[data |-> y.data, size |-> y.size, owns |-> y.owns, spilled |-> y.spilled]
            EXCEPT !.data = NULL]
          = [data |-> NULL, size |-> y.size, owns |-> y.owns, spilled |-> y.spilled]
      OBVIOUS
    <3>3. [[data |-> NULL, size |-> y.size, owns |-> y.owns, spilled |-> y.spilled]
            EXCEPT !.spilled = yes] = x
      OBVIOUS
    <3> HIDE DEF x
    <3>4. memory' = [memory EXCEPT ![m] = x]
      BY <2>2, <3>1, <3>2, <3>3, Zenon
    <3>5. QED
      BY <2>4, <2>6, <3>4 DEF x
  <2>7. CASE /\ file' = [file EXCEPT ![m] = NoFile] /\ UNCHANGED <<memory, heap>>
    <3>1. file' = [n \in Memories |-> file'[n]] /\ \A n \in Memories : CopyOf(n, file'[n])
      BY <1>3, <2>7 DEF CopyOf
    <3>2. StateKept
      BY <1>1, <2>1, <2>7, <3>1, StateSame DEF StateInv
    <3>3. QED
      BY <1>2, <2>1, <3>2
  <2>8. QED
    BY <1>5, <2>3, <2>5, <2>6, <2>7 DEF SpillMemory
<1>6. ASSUME NEW m \in Memories, SerializeMemory(m) PROVE Kept
  <2>1. /\ attached /\ (memory[m].data # NULL \/ memory[m].size = 0)
        /\ file' = [file EXCEPT ![m] = Copied(m)]
        /\ UNCHANGED <<attached, memory, heap, bindings, dropped, op>>
    BY <1>6 DEF SerializeMemory, Embedder
  <2>2. file' = [n \in Memories |-> file'[n]] /\ \A n \in Memories : CopyOf(n, file'[n])
    BY <1>3, <1>4, <2>1
  <2>3. StateKept
    BY <1>1, <2>1, <2>2, StateSame DEF StateInv
  <2>4. QED
    BY <1>2, <2>1, <2>3
<1>7. ASSUME NEW m \in Memories, DeserializeMemory(m) PROVE Kept
  <2> DEFINE y == file[m]
             b == IF y.size = 0 THEN NULL ELSE Fresh(heap)
             x == [data |-> b, size |-> y.size, owns |-> TRUE, spilled |-> FALSE]
  <2>1. /\ attached /\ y # NoFile /\ y.size <= MaxBytes
        /\ Replaceable(m)
        /\ y.size # 0 => Free(heap) # {}
        /\ heap' = [c \in DOMAIN heap |-> IF c = b THEN y.cells
                                          ELSE IF c = memory[m].data THEN Freed ELSE heap[c]]
        /\ memory' = [memory EXCEPT ![m] = x]
        /\ UNCHANGED <<attached, bindings, file, dropped, op>>
    BY <1>7 DEF DeserializeMemory, Embedder
  <2>2. Allowed(m, y.size) /\ y.cells \in Cells(y.size)
    BY <1>1, <2>1 DEF StateInv, CopyOf
  <2>4. b \in Free(heap) \cup {NULL} /\ (b = NULL => y.size = 0) /\ (b # NULL => b \in Buffers)
    BY <2>1, NullAssumption DEF Fresh, Free
  <2>5. DOMAIN heap = Buffers \cup HostBuffers
    BY <1>1 DEF StateInv
  <2>6. x.data = b /\ x.size = y.size /\ x.spilled = FALSE
    OBVIOUS
  <2>7. x = [data |-> x.data, size |-> x.size, owns |-> TRUE, spilled |-> x.spilled]
    BY <2>6, Zenon
  <2> HIDE DEF x, b
  <2>8. heap' = [c \in Buffers \cup HostBuffers |->
                  IF c = x.data THEN y.cells
                  ELSE IF c = memory[m].data THEN Freed ELSE heap[c]]
    BY <2>1, <2>5, <2>6
  <2>9. OwnMemory(m, x, heap')
    BY <2>1, <2>2, <2>4, <2>6, <2>7, <2>8 DEF OwnMemory
  <2>10. file' = [n \in Memories |-> file'[n]] /\ \A n \in Memories : CopyOf(n, file'[n])
    BY <1>1, <2>1 DEF StateInv
  <2> HIDE DEF y
  <2>11. StateKept
    BY <1>1, <2>1, <2>4, <2>6, <2>8, <2>9, <2>10, Refilled
  <2>12. QED
    BY <1>2, <2>1, <2>11
<1>8. QED
  BY <1>5, <1>6, <1>7

(* Binding an import may lose the buffers of the imports it binds.         *)
LEMMA BindSteps ==
  ASSUME IInv, NEW name \in Names, NEW b \in HostMemories, BindImportedMemory(name, b)
  PROVE  IInv' /\ Lost' \subseteq Lost \cup BuffersOf(name)
<1>1. StateInv /\ OpInv
  BY DEF IInv
<1> DEFINE asking == {m \in Imported : NameOf[m] = name}
<1>2. /\ attached => \A m \in asking : Fits(m, b)
      /\ bindings' = [bindings EXCEPT ![name] = b]
      /\ memory' = [m \in Memories |->
                     IF attached /\ m \in asking THEN OfHost(b) ELSE memory[m]]
      /\ UNCHANGED <<attached, heap, file, dropped, op>>
  BY DEF BindImportedMemory
<1>3. ASSUME NEW m \in Memories, attached, m \in asking
      PROVE  memory'[m] = OfHost(b) /\ memory'[m].data \notin Buffers
  <2>1. memory'[m] = OfHost(b)
    BY <1>2, <1>3
  <2>2. memory'[m].data = b
    BY <2>1 DEF OfHost
  <2>3. QED
    BY <2>1, <2>2, BufferAssumption, NullAssumption DEF HostMemories
<1>4. ASSUME NEW m \in Memories, ~ (attached /\ m \in asking)
      PROVE  memory'[m] = memory[m]
  BY <1>2, <1>4
<1>5. ASSUME NEW m \in Memories PROVE Placed(m)'
  <2>1. CASE attached /\ m \in asking
    <3>1. bindings'[NameOf[m]] = b /\ Fits(m, b) /\ m \in Imported
      BY <1>1, <1>2, <2>1 DEF StateInv
    <3>2. memory'[m] = OfHost(b) /\ ~ memory'[m].owns
      BY <1>3, <2>1, HostOwned
    <3>3. QED
      BY <1>2, <2>1, <3>1, <3>2 DEF Placed
  <2>2. CASE ~ (attached /\ m \in asking)
    <3>1. memory'[m] = memory[m]
      BY <1>4, <2>2
    <3>2. attached /\ m \in Imported => bindings'[NameOf[m]] = bindings[NameOf[m]]
      BY <1>1, <1>2, <2>2, ImportAssumption DEF StateInv
    <3>3. QED
      BY <1>1, <1>2, <3>1, <3>2 DEF StateInv, Placed, MayOwn
  <2>3. QED
    BY <2>1, <2>2
<1>6. Separate'
  <2>1. SUFFICES ASSUME NEW i \in Memories, NEW j \in Memories, i # j,
                        memory'[i].data \in Buffers, memory'[i].data = memory'[j].data
                 PROVE  FALSE
    BY DEF Separate
  <2>2. memory'[i] = memory[i] /\ memory'[j] = memory[j]
    BY <1>3, <1>4, <2>1
  <2>3. QED
    BY <1>1, <2>1, <2>2 DEF StateInv, Separate
<1>7. ASSUME NEW c \in Lost', c \notin Lost
      PROVE  c \in BuffersOf(name)
  <2>1. PICK m \in Memories : memory[m].data = c
    BY <1>2, <1>7 DEF Lost
  <2>2. memory'[m].data # c
    BY <1>7 DEF Lost
  <2>3. m \in asking
    BY <1>4, <2>1, <2>2
  <2>4. QED
    BY <2>1, <2>3 DEF BuffersOf
<1>8. memory' = [m \in Memories |-> memory'[m]]
      /\ bindings' \in [Names -> HostMemories \cup {Unbound}]
  BY <1>1, <1>2 DEF StateInv
<1>9. StateInv'
  BY <1>1, <1>2, <1>5, <1>6, <1>8 DEF StateInv
<1>10. OpInv'
  BY <1>1, <1>2, OpMoves
<1>11. QED
  BY <1>7, <1>9, <1>10 DEF IInv

-----------------------------------------------------------------------------
(* Attaching and detaching.                                                *)

(* Detaching frees every buffer of malloc's that is not lost, and none of  *)
(* the host's.                                                             *)
LEMMA DetachedFrees ==
  ASSUME StateInv
  PROVE  Detached = [b \in Buffers \cup HostBuffers |->
                      IF b \in Buffers \ Lost THEN Freed ELSE heap[b]]
<1>1. ASSUME NEW b \in Buffers, heap[b] # Freed, b \notin Lost
      PROVE  b \in Buffered
  <2>1. PICK m \in Memories : memory[m].data = b
    BY <1>1 DEF Lost
  <2>2. memory[m].owns /\ b # NULL
    BY <2>1, BuffersHeld, NullAssumption
  <2>3. QED
    BY <2>1, <2>2 DEF Buffered
<1>2. Buffered \subseteq Buffers \ Lost
  <2>0. \A m \in Memories : memory[m].data \notin Lost
    BY DEF Lost
  <2>1. SUFFICES ASSUME NEW m \in Memories, memory[m].owns, memory[m].data # NULL
                 PROVE  memory[m].data \in Buffers
    BY <2>0 DEF Buffered
  <2>2. attached
    <3>1. ~ attached => memory[m] = NoMemory
      BY DEF StateInv, Placed
    <3>2. NoMemory.data = NULL
      BY DEF NoMemory
    <3>3. QED
      BY <2>1, <3>1, <3>2
  <2>3. QED
    BY <2>1, <2>2, MemoryFacts
<1>3. Detached = [b \in Buffers \cup HostBuffers |-> IF b \in Buffered THEN Freed ELSE heap[b]]
  BY DEF StateInv, Detached, Released
<1> HIDE DEF Buffered
<1>4. \A b \in Buffers \cup HostBuffers :
        (IF b \in Buffered THEN Freed ELSE heap[b])
        = (IF b \in Buffers \ Lost THEN Freed ELSE heap[b])
  BY <1>1, <1>2
<1>5. QED
  BY <1>3, <1>4

(* What a placement gives each memory: a buffer of its own of as many      *)
(* cells as it declares, or the buffer of the host bound to its name.      *)
LEMMA PlacementFacts ==
  ASSUME StateInv, NEW f \in Placements
  PROVE  /\ DOMAIN f = {m \in Memories \ Imported : MinPages[m] > 0}
         /\ \A m \in DOMAIN f : f[m] \in Buffers /\ Detached[f[m]] = Freed
         /\ \A m, n \in DOMAIN f : m # n => f[m] # f[n]
         /\ Initial(f) = [m \in Memories |-> Initial(f)[m]]
         /\ \A m \in Imported : /\ bindings[NameOf[m]] \in HostMemories
                                /\ Fits(m, bindings[NameOf[m]])
                                /\ Initial(f)[m] = OfHost(bindings[NameOf[m]])
         /\ \A m \in Memories \ Imported :
              /\ Initial(f)[m] = [data |-> IF m \in DOMAIN f THEN f[m] ELSE NULL,
                                  size |-> MinPages[m] * PageCells,
                                  owns |-> TRUE, spilled |-> FALSE]
              /\ Allowed(m, MinPages[m] * PageCells) /\ MinPages[m] * PageCells <= MaxBytes
              /\ m \notin DOMAIN f => MinPages[m] * PageCells = 0
         /\ \A m \in Imported : /\ Initial(f)[m].data = bindings[NameOf[m]]
                                /\ Initial(f)[m].size = HostBytes(bindings[NameOf[m]])
         /\ \A m \in Memories \ Imported :
              /\ Initial(f)[m].data = IF m \in DOMAIN f THEN f[m] ELSE NULL
              /\ Initial(f)[m].size = MinPages[m] * PageCells
<1> DEFINE mine == {m \in Memories \ Imported : MinPages[m] > 0}
<1>1. /\ f \in [mine -> Free(Detached)]
      /\ \A m, n \in mine : m # n => f[m] # f[n]
      /\ \A m \in mine : MinPages[m] * PageCells <= MaxBytes
      /\ \A m \in Imported : Bound(m)
  BY DEF Placements
<1>2. Free(Detached) \subseteq Buffers /\ \A b \in Free(Detached) : Detached[b] = Freed
  BY DEF Free
<1>3. Initial(f) = [m \in Memories |-> Initial(f)[m]]
  BY DEF Initial
<1>4. ASSUME NEW m \in Imported
      PROVE  /\ bindings[NameOf[m]] \in HostMemories /\ Fits(m, bindings[NameOf[m]])
             /\ Initial(f)[m] = OfHost(bindings[NameOf[m]])
  <2>1. m \in Memories /\ NameOf[m] \in Names
    BY ImportAssumption
  <2>2. bindings[NameOf[m]] \in HostMemories /\ Fits(m, bindings[NameOf[m]])
    BY <1>1, <2>1 DEF Bound, StateInv
  <2>3. QED
    BY <2>1, <2>2 DEF Initial
<1>5. ASSUME NEW m \in Memories \ Imported
      PROVE  /\ Initial(f)[m] = [data |-> IF m \in DOMAIN f THEN f[m] ELSE NULL,
                                 size |-> MinPages[m] * PageCells,
                                 owns |-> TRUE, spilled |-> FALSE]
             /\ Allowed(m, MinPages[m] * PageCells) /\ MinPages[m] * PageCells <= MaxBytes
             /\ m \notin DOMAIN f => MinPages[m] * PageCells = 0
  <2>1. MinPages[m] \in Nat
    BY LimitAssumption
  <2>2. Allowed(m, MinPages[m] * PageCells)
    BY <2>1, WholePages DEF Allowed
  <2>3. m \notin DOMAIN f => MinPages[m] * PageCells = 0
    <3>1. m \notin DOMAIN f => MinPages[m] = 0
      BY <1>1, <2>1
    <3>2. 0 * PageCells = 0
      BY PageAssumption
    <3>3. QED
      BY <3>1, <3>2
  <2>4. MinPages[m] * PageCells <= MaxBytes
    <3>1. CASE m \in DOMAIN f
      BY <1>1, <3>1
    <3>2. CASE m \notin DOMAIN f
      BY <2>3, <3>2, TopAssumption
    <3>3. QED
      BY <3>1, <3>2
  <2>5. QED
    BY <2>2, <2>3, <2>4 DEF Initial
<1> DEFINE given == Initial(f)
<1> HIDE DEF given
<1>6. ASSUME NEW m, NEW b, given[m] = OfHost(b)
      PROVE  given[m].data = b /\ given[m].size = HostBytes(b)
  BY <1>6 DEF OfHost
<1>7. ASSUME NEW m, NEW d, NEW k,
             given[m] = [data |-> d, size |-> k, owns |-> TRUE, spilled |-> FALSE]
      PROVE  given[m].data = d /\ given[m].size = k
  BY <1>7
<1>8. ASSUME NEW m \in Imported
      PROVE  /\ given[m].data = bindings[NameOf[m]]
             /\ given[m].size = HostBytes(bindings[NameOf[m]])
  BY <1>4, <1>6, Zenon DEF given
<1>9. ASSUME NEW m \in Memories \ Imported
      PROVE  /\ given[m].data = IF m \in DOMAIN f THEN f[m] ELSE NULL
             /\ given[m].size = MinPages[m] * PageCells
  <2> DEFINE d == IF m \in DOMAIN f THEN f[m] ELSE NULL
             k == MinPages[m] * PageCells
  <2>1. given[m] = [data |-> d, size |-> k, owns |-> TRUE, spilled |-> FALSE]
    BY <1>5, Zenon DEF given
  <2> HIDE DEF d, k
  <2>2. given[m].data = d /\ given[m].size = k
    BY <1>7, <2>1, Zenon
  <2>3. QED
    BY <2>2 DEF d, k
<1>10. QED
  BY <1>1, <1>2, <1>3, <1>4, <1>5, <1>8, <1>9 DEF given

(* Attaching gives each memory its cells: zeros, and the segments that fit *)
(* over them.                                                              *)
LEMMA WrittenFills ==
  ASSUME StateInv, NEW f \in Placements
  PROVE  /\ Holds(Initial(f), Written(f))
         /\ \A b \in HostBuffers : Zeroed(f)[b] = heap[b]
         /\ \A m \in DOMAIN f : Zeroed(f)[f[m]] = Blank(MinPages[m] * PageCells)
         /\ \E a :
              /\ a = [g \in 0 .. Len(Segments) |->
                       IF g = 0 THEN Zeroed(f)
                       ELSE IF Segments[g].passive \/ \E i \in 1 .. g : ~ SegmentFits(f, i)
                       THEN a[g-1]
                       ELSE [a[g-1] EXCEPT ![Initial(f)[Segments[g].memory].data] =
                               Overlay(@, Segments[g].offset, Segments[g].bytes,
                                       Segments[g].size)]]
              /\ \A g \in 0 .. Len(Segments) : Holds(Initial(f), a[g])
              /\ Written(f) = a[Len(Segments)]
<1> DEFINE given == Initial(f)
           at(g) == given[Segments[g].memory].data
           skipped(g) == Segments[g].passive \/ \E i \in 1 .. g : ~ SegmentFits(f, i)
           next(h, g) == IF skipped(g) THEN h
                         ELSE [h EXCEPT ![at(g)] = Overlay(@, Segments[g].offset,
                                                           Segments[g].bytes, Segments[g].size)]
           n == Len(Segments)
           P(a) == a = [g \in 0 .. n |-> IF g = 0 THEN Zeroed(f) ELSE next(a[g-1], g)]
<1>1. /\ DOMAIN f \subseteq Memories \ Imported
      /\ \A m \in DOMAIN f : f[m] \in Buffers /\ f[m] # NULL
      /\ \A m, k \in DOMAIN f : m # k => f[m] # f[k]
      /\ \A m \in Imported : /\ bindings[NameOf[m]] \in HostMemories
                             /\ given[m].data = bindings[NameOf[m]]
                             /\ given[m].size = HostBytes(bindings[NameOf[m]])
      /\ \A m \in Memories \ Imported :
           /\ given[m].size = MinPages[m] * PageCells
           /\ given[m].data = IF m \in DOMAIN f THEN f[m] ELSE NULL
  <2> HIDE DEF given
  <2>1. /\ DOMAIN f \subseteq Memories \ Imported
        /\ \A m \in DOMAIN f : f[m] \in Buffers /\ f[m] # NULL
        /\ \A m, k \in DOMAIN f : m # k => f[m] # f[k]
    <3>1. /\ DOMAIN f = {m \in Memories \ Imported : MinPages[m] > 0}
          /\ \A m \in DOMAIN f : f[m] \in Buffers
          /\ \A m, k \in DOMAIN f : m # k => f[m] # f[k]
      BY PlacementFacts, Zenon
    <3>2. QED
      BY <3>1, NullAssumption
  <2>2. \A m \in Imported : /\ bindings[NameOf[m]] \in HostMemories
                            /\ given[m].data = bindings[NameOf[m]]
                            /\ given[m].size = HostBytes(bindings[NameOf[m]])
    BY PlacementFacts, Zenon DEF given
  <2>3. \A m \in Memories \ Imported :
           /\ given[m].size = MinPages[m] * PageCells
           /\ given[m].data = IF m \in DOMAIN f THEN f[m] ELSE NULL
    BY PlacementFacts, Zenon DEF given
  <2>4. QED
    BY <2>1, <2>2, <2>3
<1>2. \A m, k \in Memories : given[m].data # NULL /\ given[m].data = given[k].data =>
        given[m].size = given[k].size
  BY <1>1, BufferAssumption, NullAssumption DEF HostMemories
<1>3. /\ Holds(given, Zeroed(f))
      /\ \A b \in HostBuffers : Zeroed(f)[b] = heap[b]
      /\ \A m \in DOMAIN f : Zeroed(f)[f[m]] = Blank(MinPages[m] * PageCells)
  <2> DEFINE z == Zeroed(f)
  <2>1. /\ z = [b \in Buffers \cup HostBuffers |-> z[b]]
        /\ \A m \in DOMAIN f : z[f[m]] = Blank(MinPages[m] * PageCells)
        /\ \A b \in Buffers \cup HostBuffers :
             ~ (\E m \in DOMAIN f : f[m] = b) =>
                z[b] = IF b \in Buffers \ Lost THEN Freed ELSE heap[b]
    <3>1. /\ z = [b \in Buffers \cup HostBuffers |-> z[b]]
          /\ \A b \in Buffers \cup HostBuffers :
               z[b] = IF \E m \in DOMAIN f : f[m] = b
                      THEN Blank(MinPages[CHOOSE m \in DOMAIN f : f[m] = b] * PageCells)
                      ELSE Detached[b]
      BY DEF Zeroed, StateInv
    <3>2. ASSUME NEW m \in DOMAIN f PROVE (CHOOSE k \in DOMAIN f : f[k] = f[m]) = m
      <4> DEFINE c == CHOOSE k \in DOMAIN f : f[k] = f[m]
      <4>1. c \in DOMAIN f /\ f[c] = f[m]
        OBVIOUS
      <4> HIDE DEF c
      <4>2. c = m
        BY <1>1, <4>1
      <4>3. QED
        BY <4>2 DEF c
    <3>3. ASSUME NEW m \in DOMAIN f PROVE z[f[m]] = Blank(MinPages[m] * PageCells)
      <4> HIDE DEF z
      <4>1. f[m] \in Buffers \cup HostBuffers /\ \E k \in DOMAIN f : f[k] = f[m]
        BY <1>1
      <4>2. z[f[m]] = Blank(MinPages[CHOOSE k \in DOMAIN f : f[k] = f[m]] * PageCells)
        BY <3>1, <4>1, Zenon
      <4>3. QED
        BY <3>2, <4>2, Zenon
    <3>4. \A b \in Buffers \cup HostBuffers :
            Detached[b] = IF b \in Buffers \ Lost THEN Freed ELSE heap[b]
      BY DetachedFrees
    <3> HIDE DEF z
    <3>5. QED
      BY <3>1, <3>3, <3>4
  <2> HIDE DEF z, given
  <2>2. \A b \in HostBuffers : z[b] = heap[b] /\ heap[b] \in Cells(HostSize[b])
    <3>1. ASSUME NEW b \in HostBuffers
          PROVE  z[b] = heap[b] /\ heap[b] \in Cells(HostSize[b])
      <4>1. b \notin Buffers /\ ~ (\E m \in DOMAIN f : f[m] = b)
        BY <1>1, BufferAssumption
      <4>2. heap[b] \in Cells(HostSize[b])
        BY DEF StateInv
      <4>3. QED
        BY <2>1, <4>1, <4>2
    <3>2. QED
      BY <3>1
  <2>3. ASSUME NEW m \in Memories, given[m].data # NULL
        PROVE  z[given[m].data] \in Cells(given[m].size)
    <3>1. CASE m \in Imported
      <4>1. given[m].data \in HostBuffers /\ given[m].size = HostSize[given[m].data]
        BY <1>1, <2>3, <3>1, HostSizes DEF HostMemories
      <4>2. QED
        BY <2>2, <4>1
    <3>2. CASE m \notin Imported
      <4>1. m \in DOMAIN f /\ given[m].data = f[m] /\ given[m].size = MinPages[m] * PageCells
        BY <1>1, <2>3, <3>2
      <4>2. Blank(given[m].size) \in Cells(given[m].size)
        BY CellAssumption DEF Blank, Cells
      <4>3. QED
        BY <2>1, <4>1, <4>2
    <3>3. QED
      BY <3>1, <3>2
  <2>4. ASSUME NEW b \in Buffers, z[b] # Freed
        PROVE  b \in Lost \/ \E m \in Memories : given[m].data = b
    <3>1. b \in Lost \/ \E m \in DOMAIN f : f[m] = b
      BY <2>1, <2>4
    <3>2. QED
      BY <1>1, <3>1
  <2>5. Holds(given, z)
    BY <2>1, <2>2, <2>3, <2>4 DEF Holds
  <2>6. QED
    BY <2>1, <2>2, <2>5 DEF z
<1>4. ASSUME NEW g \in 1 .. n, NEW h, Holds(given, h)
      PROVE  Holds(given, next(h, g))
  <2>1. CASE skipped(g)
    BY <1>4, <2>1
  <2>2. CASE ~ skipped(g)
    <3> DEFINE s == Segments[g]
               d == given[s.memory].data
               c == Overlay(h[d], s.offset, s.bytes, s.size)
               after == [h EXCEPT ![d] = c]
    <3>1. s.memory \in Memories /\ s.offset \in Nat /\ s.size \in Nat /\ s.bytes \in Cells(s.size)
      BY SegmentAssumption DEF Cells
    <3>2. d # NULL
      BY <2>2, SegmentAssumption DEF SegmentFits
    <3>3. next(h, g) = after
      BY <2>2
    <3> HIDE DEF next, skipped, given, s
    <3>4. h[d] \in Cells(given[s.memory].size)
      BY <1>4, <3>1, <3>2 DEF Holds
    <3>5. given[s.memory].size \in Nat
      <4>1. \A b \in HostMemories : HostBytes(b) \in Nat
        BY HostSizes, TopAssumption
      <4>2. \A m \in Memories : MinPages[m] * PageCells \in Nat
        BY LimitAssumption, PageAssumption
      <4>3. QED
        BY <1>1, <3>1, <4>1, <4>2
    <3>6. c \in Cells(given[s.memory].size)
      BY <3>1, <3>4, <3>5, CellTypes
    <3>7. d \in Buffers \cup HostBuffers
      BY <1>1, <3>1, <3>2 DEF HostMemories
    <3> HIDE DEF c
    <3>8. /\ after = [b \in Buffers \cup HostBuffers |-> after[b]] /\ after[d] = c
          /\ \A b \in Buffers \cup HostBuffers : b # d => after[b] = h[b]
      BY <1>4, <3>7 DEF Holds
    <3> HIDE DEF after
    <3>9. ASSUME NEW b \in HostBuffers PROVE after[b] \in Cells(HostSize[b])
      <4>1. CASE b # d
        BY <1>4, <3>8, <4>1 DEF Holds
      <4>2. CASE b = d
        <5>1. given[s.memory].size = HostSize[b]
          BY <1>1, <3>1, <3>2, <4>2, BufferAssumption, HostSizes
        <5>2. QED
          BY <3>6, <3>8, <4>2, <5>1
      <4>3. QED
        BY <4>1, <4>2
    <3>10. ASSUME NEW m \in Memories, given[m].data # NULL
           PROVE  after[given[m].data] \in Cells(given[m].size)
      <4>1. CASE given[m].data = d
        BY <1>2, <3>1, <3>6, <3>8, <3>10, <4>1
      <4>2. CASE given[m].data # d
        BY <1>1, <1>4, <3>8, <3>10, <4>2 DEF Holds, HostMemories
      <4>3. QED
        BY <4>1, <4>2
    <3>11. \A b \in Buffers : after[b] # Freed =>
             b \in Lost \/ \E m \in Memories : given[m].data = b
      BY <1>4, <3>1, <3>8 DEF Holds
    <3>12. Holds(given, after)
      BY <3>8, <3>9, <3>10, <3>11 DEF Holds
    <3>13. QED
      BY <3>3, <3>12
  <2>3. QED
    BY <2>1, <2>2
<1>5. n \in Nat
  BY SegmentAssumption
<1>6. Written(f) = (CHOOSE a : P(a))[n]
  BY DEF Written
<1> HIDE DEF given, next, n
<1>7. \E a : P(a)
  <2> DEFINE Is(a, k) == a = [g \in 0 .. k |-> IF g = 0 THEN Zeroed(f) ELSE next(a[g-1], g)]
             S == {k \in Nat : \E a : Is(a, k)}
  <2>1. 0 \in S
    <3> DEFINE a == [g \in 0 .. 0 |-> Zeroed(f)]
    <3>1. Is(a, 0)
      OBVIOUS
    <3>2. QED
      BY <3>1
  <2>2. ASSUME NEW k \in Nat, k \in S PROVE k + 1 \in S
    <3>1. PICK a : Is(a, k)
      BY <2>2
    <3> DEFINE b == [g \in 0 .. k + 1 |-> IF g = k + 1 THEN next(a[k], k + 1) ELSE a[g]]
    <3>2. ASSUME NEW g \in 0 .. k + 1
          PROVE  b[g] = IF g = 0 THEN Zeroed(f) ELSE next(b[g-1], g)
      <4>1. CASE g = k + 1
        BY <4>1
      <4>2. CASE g # k + 1
        <5>1. g \in 0 .. k /\ b[g] = a[g] /\ (g # 0 => b[g-1] = a[g-1])
          BY <4>2
        <5>2. a[g] = IF g = 0 THEN Zeroed(f) ELSE next(a[g-1], g)
          BY <3>1, <5>1
        <5>3. QED
          BY <5>1, <5>2
      <4>3. QED
        BY <4>1, <4>2
    <3>3. Is(b, k + 1)
      BY <3>2
    <3> HIDE DEF b, Is
    <3>4. \E c : Is(c, k + 1)
      BY <3>3
    <3>5. QED
      BY <3>4
  <2>3. n \in S
    BY <1>5, <2>1, <2>2, SetInduction
  <2>4. QED
    BY <2>3
<1>8. PICK a : P(a) /\ Written(f) = a[n]
  BY <1>6, <1>7
<1>9. \A g \in 0 .. n : Holds(given, a[g])
  <2> DEFINE S == {k \in Nat : k <= n => Holds(given, a[k])}
  <2>1. 0 \in S
    <3>1. a[0] = Zeroed(f)
      BY <1>5, <1>8
    <3>2. QED
      BY <1>3, <3>1
  <2>2. ASSUME NEW k \in Nat, k \in S PROVE k + 1 \in S
    <3>1. SUFFICES ASSUME k + 1 <= n PROVE Holds(given, a[k+1])
      OBVIOUS
    <3>2. Holds(given, a[k]) /\ k + 1 \in 1 .. n
      BY <1>5, <2>2, <3>1
    <3>3. a[k+1] = next(a[k], k + 1)
      BY <1>5, <1>8, <3>2
    <3>4. QED
      BY <1>4, <3>2, <3>3
  <2>3. Nat \subseteq S
    BY <2>1, <2>2, SetInduction
  <2>4. QED
    BY <1>5, <2>3
<1>10. \E b : P(b) /\ (\A g \in 0 .. n : Holds(given, b[g])) /\ Written(f) = b[n]
  BY <1>8, <1>9
<1>11. Holds(given, Written(f))
  BY <1>5, <1>8, <1>9
<1>12. QED
  BY <1>3, <1>10, <1>11, Zenon DEF given, next, n

(* Attaching, detaching and attaching in vain.                             *)
LEMMA AttachSteps ==
  ASSUME IInv, AttachModule \/ DetachModule \/ AttachFails
  PROVE  Kept
<1>1. StateInv /\ OpInv
  BY DEF IInv
<1>2. op = Idle /\ op' = Idle /\ UNCHANGED <<bindings, file>>
  BY DEF AttachModule, DetachModule, AttachFails, Reset
<1>3. OpInv'
  BY <1>2 DEF OpInv, Idle, Waiting
<1>4. /\ file' = [m \in Memories |-> file'[m]] /\ \A m \in Memories : CopyOf(m, file'[m])
      /\ bindings' \in [Names -> HostMemories \cup {Unbound}]
  BY <1>1, <1>2 DEF StateInv
<1>5. ASSUME Placements # {} PROVE Placement \in Placements
  BY <1>5 DEF Placement
<1>6. CASE AttachModule
  <2> DEFINE f == Placement
             given == Initial(f)
  <2>1. /\ f \in Placements /\ memory' = given /\ heap' = Written(f) /\ attached' = TRUE
        /\ dropped' \subseteq DOMAIN Segments
    BY <1>5, <1>6 DEF AttachModule
  <2> HIDE DEF f
  <2>2. Holds(given, heap')
    BY <1>1, <2>1, WrittenFills
  <2>3. given = [m \in Memories |-> given[m]]
    BY <1>1, <2>1, PlacementFacts, Zenon
  <2>4. ASSUME NEW m \in Imported
        PROVE  /\ bindings[NameOf[m]] \in HostMemories /\ Fits(m, bindings[NameOf[m]])
               /\ given[m] = OfHost(bindings[NameOf[m]])
               /\ given[m].data \in HostMemories
    <3>1. /\ bindings[NameOf[m]] \in HostMemories /\ Fits(m, bindings[NameOf[m]])
          /\ given[m] = OfHost(bindings[NameOf[m]])
      BY <1>1, <2>1, PlacementFacts, Zenon
    <3> HIDE DEF given
    <3>2. given[m].data = bindings[NameOf[m]]
      BY <3>1 DEF OfHost
    <3>3. QED
      BY <3>1, <3>2
  <2>5. ASSUME NEW m \in Memories \ Imported
        PROVE  /\ OwnMemory(m, given[m], heap')
               /\ given[m].data = IF m \in DOMAIN f THEN f[m] ELSE NULL
    <3> DEFINE d == IF m \in DOMAIN f THEN f[m] ELSE NULL
               k == MinPages[m] * PageCells
               x == given[m]
    <3>1. /\ x = [data |-> d, size |-> k, owns |-> TRUE, spilled |-> FALSE]
          /\ Allowed(m, k) /\ k <= MaxBytes /\ (m \notin DOMAIN f => k = 0)
      BY <1>1, <2>1, PlacementFacts, Zenon
    <3>2. \A n \in DOMAIN f : f[n] \in Buffers
      BY <1>1, <2>1, PlacementFacts, Zenon
    <3>3. d \in Buffers \cup {NULL} /\ (d = NULL => k = 0)
      BY <3>1, <3>2, NullAssumption
    <3>4. x.data # NULL => heap'[x.data] \in Cells(x.size)
      BY <2>2 DEF Holds
    <3> HIDE DEF given, d, k, x
    <3>5. x.data = d /\ x.size = k /\ x.spilled = FALSE
      BY <3>1
    <3>6. x = [data |-> x.data, size |-> x.size, owns |-> TRUE, spilled |-> x.spilled]
      BY <3>1, <3>5, Zenon
    <3>7. OwnMemory(m, x, heap')
      BY <3>1, <3>3, <3>4, <3>5, <3>6 DEF OwnMemory
    <3>8. QED
      BY <3>5, <3>7 DEF d, x
  <2>6. ASSUME NEW i \in Memories, NEW j \in Memories, i # j,
               given[i].data \in Buffers, given[i].data = given[j].data
        PROVE  FALSE
    <3>1. i \notin Imported /\ j \notin Imported
      BY <2>4, <2>6, BufferAssumption, NullAssumption DEF HostMemories
    <3>2. i \in DOMAIN f /\ j \in DOMAIN f /\ f[i] = f[j]
      BY <2>5, <2>6, <3>1, NullAssumption
    <3>3. \A m, n \in DOMAIN f : m # n => f[m] # f[n]
      BY <1>1, <2>1, PlacementFacts, Zenon
    <3>4. QED
      BY <2>6, <3>2, <3>3
  <2> HIDE DEF given
  <2>7. ASSUME NEW m \in Memories PROVE Placed(m)'
    <3>1. CASE m \in Imported
      <4>1. ~ given[m].owns
        BY <2>4, <3>1, HostOwned
      <4>2. QED
        BY <1>2, <2>1, <2>4, <3>1, <4>1 DEF Placed
    <3>2. CASE m \notin Imported
      <4>1. given[m].owns /\ OwnMemory(m, given[m], heap')
        BY <2>5, <3>2 DEF OwnMemory
      <4>2. QED
        BY <2>1, <3>2, <4>1 DEF Placed, MayOwn
    <3>3. QED
      BY <3>1, <3>2
  <2>8. Separate'
    BY <2>1, <2>6 DEF Separate
  <2>9. /\ heap' = [b \in Buffers \cup HostBuffers |-> heap'[b]]
        /\ \A b \in HostBuffers : heap'[b] \in Cells(HostSize[b])
        /\ Lost' \subseteq Lost
    BY <2>1, <2>2 DEF Holds, Lost
  <2>10. StateKept
    BY <1>4, <2>1, <2>3, <2>7, <2>8, <2>9 DEF StateInv, StateKept
  <2>11. QED
    BY <1>3, <2>10 DEF IInv, Kept, StateKept
<1>7. ASSUME Reset,
             heap' = [b \in Buffers \cup HostBuffers |-> heap'[b]],
             \A b \in Buffers : heap'[b] = Freed \/ b \in Lost,
             \A b \in HostBuffers : heap'[b] \in Cells(HostSize[b])
      PROVE  Kept
  <2>1. /\ attached' = FALSE /\ memory' = [m \in Memories |-> NoMemory] /\ dropped' = {}
    BY <1>7 DEF Reset
  <2>2. \A m \in Memories : Placed(m)'
    BY <2>1 DEF Placed
  <2>3. Separate'
    BY <2>1, NullAssumption DEF Separate, NoMemory
  <2>4. Lost' \subseteq Lost
    BY <1>7 DEF Lost
  <2>5. memory' = [m \in Memories |-> memory'[m]]
    BY <2>1
  <2>6. StateKept
    BY <1>4, <1>7, <2>1, <2>2, <2>3, <2>4, <2>5 DEF StateInv, StateKept
  <2>7. QED
    BY <1>3, <2>6 DEF IInv, Kept, StateKept
<1>8. CASE Reset /\ heap' = Detached
  <2>1. heap' = [b \in Buffers \cup HostBuffers |->
                  IF b \in Buffers \ Lost THEN Freed ELSE heap[b]]
    BY <1>1, <1>8, DetachedFrees
  <2>2. \A b \in HostBuffers : heap[b] \in Cells(HostSize[b]) /\ b \notin Buffers
    BY <1>1, BufferAssumption DEF StateInv
  <2>3. QED
    BY <1>7, <1>8, <2>1, <2>2
<1>9. CASE /\ Reset /\ Placements # {}
           /\ heap' = Released(Written(Placement), {Placement[m] : m \in DOMAIN Placement})
  <2> DEFINE f == Placement
             h == Written(f)
             given == Initial(f)
             gone == {f[m] : m \in DOMAIN f}
  <2>1. f \in Placements
    BY <1>5, <1>9
  <2>2. heap' = [b \in DOMAIN h |-> IF b \in gone THEN Freed ELSE h[b]]
    BY <1>9 DEF Released
  <2> HIDE DEF f
  <2>3. Holds(given, h)
    BY <1>1, <2>1, WrittenFills
  <2>4. gone \subseteq Buffers
    <3>1. \A m \in DOMAIN f : f[m] \in Buffers
      BY <1>1, <2>1, PlacementFacts, Zenon
    <3>2. QED
      BY <3>1
  <2>5. ASSUME NEW m \in Memories, given[m].data \in Buffers
        PROVE  given[m].data \in gone
    <3>1. m \notin Imported
      <4>1. SUFFICES ASSUME m \in Imported PROVE FALSE
        OBVIOUS
      <4>2. /\ bindings[NameOf[m]] \in HostMemories /\ Fits(m, bindings[NameOf[m]])
            /\ given[m] = OfHost(bindings[NameOf[m]])
        BY <1>1, <2>1, <4>1, PlacementFacts, Zenon
      <4> HIDE DEF given
      <4>3. given[m].data = bindings[NameOf[m]]
        BY <4>2 DEF OfHost
      <4>4. QED
        BY <2>5, <4>2, <4>3, BufferAssumption, NullAssumption DEF HostMemories
    <3> DEFINE d == IF m \in DOMAIN f THEN f[m] ELSE NULL
               k == MinPages[m] * PageCells
    <3>2. given[m] = [data |-> d, size |-> k, owns |-> TRUE, spilled |-> FALSE]
      BY <1>1, <2>1, <3>1, PlacementFacts, Zenon
    <3> HIDE DEF given, d, k
    <3>3. given[m].data = d
      BY <3>2
    <3>4. QED
      BY <2>5, <3>3, NullAssumption DEF d
  <2> HIDE DEF h, given, gone
  <2>6. DOMAIN h = Buffers \cup HostBuffers
    BY <2>3 DEF Holds
  <2>7. \A b \in Buffers : heap'[b] = Freed \/ b \in Lost
    BY <2>2, <2>3, <2>5, <2>6 DEF Holds
  <2>8. \A b \in HostBuffers : heap'[b] \in Cells(HostSize[b])
    BY <2>2, <2>3, <2>4, <2>6, BufferAssumption DEF Holds
  <2>9. QED
    BY <1>7, <1>9, <2>2, <2>6, <2>7, <2>8
<1>10. QED
  BY <1>6, <1>8, <1>9 DEF DetachModule, AttachFails

-----------------------------------------------------------------------------
(* The theorems.                                                           *)

(* Every step keeps the invariant, and loses no buffer but one that an     *)
(* import had that is bound again.                                         *)
LEMMA NextSteps ==
  ASSUME IInv, [Next]_vars
  PROVE  /\ IInv'
         /\ \/ Lost' \subseteq Lost
            \/ \E name \in Names, b \in HostMemories :
                 BindImportedMemory(name, b) /\ Lost' \subseteq Lost \cup BuffersOf(name)
<1>1. CASE UNCHANGED vars
  <2>1. StateInv /\ OpInv
    BY DEF IInv
  <2>2. OpInv'
    BY <1>1, <2>1, OpMoves DEF vars
  <2>3. StateKept
    BY <1>1, <2>1, StateSame DEF vars, StateInv
  <2>4. QED
    BY <2>2, <2>3 DEF IInv, StateKept
<1>2. CASE \E name \in Names, b \in HostMemories : BindImportedMemory(name, b)
  BY <1>2, BindSteps
<1>3. CASE Next /\ ~ \E name \in Names, b \in HostMemories : BindImportedMemory(name, b)
  <2>1. Kept
    BY <1>3, LoadingSteps, WriteSteps, GrowSteps, EmbedderSteps, AttachSteps DEF Next
  <2>2. QED
    BY <2>1 DEF Kept
<1>4. QED
  BY <1>1, <1>2, <1>3

(* The invariant holds of the runtime with nothing attached, and every     *)
(* step keeps it.                                                          *)
THEOREM Invariance == Spec => []IInv
<1>1. Init => IInv
  <2>1. SUFFICES ASSUME Init PROVE IInv
    OBVIOUS
  <2>2. /\ attached = FALSE /\ memory = [m \in Memories |-> NoMemory]
        /\ heap = [b \in Buffers \cup HostBuffers |->
                    IF b \in HostBuffers THEN Blank(HostSize[b]) ELSE Freed]
        /\ bindings = [n \in Names |-> Unbound]
        /\ file = [m \in Memories |-> NoFile] /\ dropped = {} /\ op = Idle
    BY <2>1 DEF Init
  <2>3. ASSUME NEW b \in HostBuffers PROVE heap[b] \in Cells(HostSize[b])
    <3>1. HostSize[b] \in Nat
      BY HostAssumption
    <3>2. Blank(HostSize[b]) \in Cells(HostSize[b])
      BY <3>1, CellAssumption DEF Blank, Cells
    <3>3. QED
      BY <2>2, <3>2
  <2>4. \A m \in Memories : Placed(m) /\ CopyOf(m, file[m])
    BY <2>2 DEF Placed, CopyOf
  <2>5. Separate
    <3>1. NoMemory.data = NULL
      BY DEF NoMemory
    <3>2. QED
      BY <2>2, <3>1, NullAssumption DEF Separate
  <2>6. StateInv
    BY <2>2, <2>3, <2>4, <2>5 DEF StateInv
  <2>7. OpInv
    BY <2>2 DEF OpInv, Idle, Waiting
  <2>8. QED
    BY <2>6, <2>7 DEF IInv
<1>2. IInv /\ [Next]_vars => IInv'
  BY NextSteps
<1>3. QED
  BY <1>1, <1>2, PTL DEF Spec

(* Every variable has its type, and every buffer holds the cells of the    *)
(* memory that points to it.                                               *)
THEOREM TypeCorrect == Spec => []TypeOK
<1>1. IInv => TypeOK
  <2>1. SUFFICES ASSUME IInv PROVE TypeOK
    OBVIOUS
  <2>2. StateInv /\ OpInv
    BY <2>1 DEF IInv
  <2>3. ASSUME NEW m \in Memories
        PROVE  /\ memory[m] \in [data : Buffers \cup HostBuffers \cup {NULL}, size : Nat,
                                 owns : BOOLEAN, spilled : BOOLEAN]
               /\ memory[m].data # NULL => Data(m) \in [0 .. memory[m].size - 1 -> Cell]
    <3>1. CASE attached
      <4> DEFINE x == memory[m]
      <4>1. /\ x = [data |-> x.data, size |-> x.size, owns |-> x.owns, spilled |-> x.spilled]
            /\ x.size \in Nat /\ x.spilled \in BOOLEAN /\ x.owns \in BOOLEAN
            /\ x.data \in Buffers \cup HostBuffers \cup {NULL}
            /\ x.data # NULL => heap[x.data] \in Cells(x.size)
        BY <2>2, <3>1, MemoryFacts
      <4> HIDE DEF x
      <4>2. x \in [data : Buffers \cup HostBuffers \cup {NULL}, size : Nat,
                   owns : BOOLEAN, spilled : BOOLEAN]
        BY <4>1
      <4>3. QED
        BY <4>1, <4>2 DEF x, Data, Cells
    <3>2. CASE ~ attached
      <4>1. memory[m] = NoMemory
        BY <2>2, <3>2 DEF StateInv, Placed
      <4>2. NoMemory.data = NULL
            /\ NoMemory \in [data : Buffers \cup HostBuffers \cup {NULL}, size : Nat,
                             owns : BOOLEAN, spilled : BOOLEAN]
        BY DEF NoMemory
      <4>3. QED
        BY <4>1, <4>2
    <3>3. QED
      BY <3>1, <3>2
  <2>4. memory = [m \in Memories |-> memory[m]]
    BY <2>2 DEF StateInv
  <2>5. \A m \in Memories : file[m] # NoFile => file[m].cells \in [0 .. file[m].size - 1 -> Cell]
    BY <2>2 DEF StateInv, CopyOf, Cells
  <2>6. /\ attached \in BOOLEAN /\ dropped \subseteq DOMAIN Segments
        /\ bindings \in [Names -> HostMemories \cup {Unbound}]
    BY <2>2 DEF StateInv
  <2>7. Waiting => /\ op.needs \in Seq(Memories)
                   /\ op.at \in 1 .. Len(op.needs) + 1
                   /\ op.loading => op.at <= Len(op.needs)
    BY <2>2 DEF OpInv
  <2>8. memory \in [Memories -> [data : Buffers \cup HostBuffers \cup {NULL}, size : Nat,
                                 owns : BOOLEAN, spilled : BOOLEAN]]
    BY <2>3, <2>4
  <2>9. QED
    BY <2>3, <2>5, <2>6, <2>7, <2>8 DEF TypeOK
<1>2. QED
  BY <1>1, Invariance, PTL

(* Whatever happens, no buffer is lost but those of the imports that are   *)
(* bound again, by that binding.                                           *)
THEOREM LossConfined == Spec => LostByRebind
<1>1. IInv /\ [Next]_vars =>
        [\/ Lost' \subseteq Lost
         \/ \E name \in Names, b \in HostMemories :
              BindImportedMemory(name, b) /\ Lost' \subseteq Lost \cup BuffersOf(name)]_vars
  BY NextSteps
<1>2. QED
  BY <1>1, Invariance, PTL DEF Spec, LostByRebind

(* No buffer is freed while in use or shared, whatever the embedder does   *)
(* between and within the instructions, and none is lost unless an import  *)
(* may have no pages.                                                      *)
THEOREM BuffersCorrect == Spec => []NoBufferLost
<1> DEFINE Full == (\A m \in Imported : MinPages[m] > 0) => Lost = {}
<1>1. Init => Full
  <2>1. SUFFICES ASSUME Init PROVE Lost = {}
    OBVIOUS
  <2>2. \A b \in Buffers : heap[b] = Freed
    BY <2>1, BufferAssumption DEF Init
  <2>3. QED
    BY <2>2 DEF Lost
<1>2. ASSUME IInv, Full, [Next]_vars PROVE Full'
  <2>1. SUFFICES ASSUME \A m \in Imported : MinPages[m] > 0 PROVE Lost' = {}
    OBVIOUS
  <2>2. StateInv /\ Lost = {}
    BY <1>2, <2>1 DEF IInv
  <2>3. ASSUME NEW m \in Imported PROVE memory[m].data \notin Buffers
    <3>1. m \in Memories
      BY ImportAssumption
    <3>2. SUFFICES ASSUME memory[m].data \in Buffers PROVE FALSE
      OBVIOUS
    <3>3. attached /\ memory[m].owns
      BY <2>2, <3>1, <3>2, BuffersHeld
    <3>4. MayOwn(m)
      BY <2>2, <3>1, <3>3 DEF StateInv, Placed
    <3>5. QED
      BY <2>1, <3>4 DEF MayOwn
  <2>4. Lost' \subseteq Buffers
    BY DEF Lost
  <2>5. CASE Lost' \subseteq Lost
    BY <2>2, <2>5
  <2>6. ASSUME NEW name \in Names, Lost' \subseteq Lost \cup BuffersOf(name)
        PROVE  Lost' = {}
    BY <2>2, <2>3, <2>4, <2>6 DEF BuffersOf
  <2>7. QED
    BY <1>2, <2>5, <2>6, NextSteps
<1>3. IInv /\ Full => NoBufferLost
  <2>1. SUFFICES ASSUME IInv, Full PROVE NoBufferLost
    OBVIOUS
  <2>2. StateInv
    BY <2>1 DEF IInv
  <2>3. ASSUME NEW b \in HostBuffers PROVE heap[b] # Freed
    <3>1. heap[b] \in [0 .. HostSize[b] - 1 -> Cell] /\ HostSize[b] \in 0 .. Top
      BY <2>2, HostAssumption DEF StateInv, Cells
    <3>2. QED
      BY <3>1, FreedAssumption
  <2>4. ASSUME NEW m \in Memories, memory[m].data # NULL
        PROVE  /\ Data(m) # Freed
               /\ memory[m].owns <=> memory[m].data \in Buffers
               /\ memory[m].owns => \A n \in Memories \ {m} : memory[n].data # memory[m].data
    <3>1. attached
      <4>1. ~ attached => memory[m] = NoMemory
        BY <2>2 DEF StateInv, Placed
      <4>2. NoMemory.data = NULL
        BY DEF NoMemory
      <4>3. QED
        BY <2>4, <4>1, <4>2
    <3>2. /\ memory[m].owns <=> memory[m].data \in Buffers
          /\ memory[m].data \in Buffers \cup HostBuffers
      BY <2>2, <2>4, <3>1, MemoryFacts, BufferAssumption
    <3>3. Data(m) # Freed
      BY <2>2, <2>3, <3>2, BuffersHeld DEF Data
    <3>4. QED
      BY <2>2, <3>2, <3>3 DEF StateInv, Separate
  <2>5. QED
    BY <2>1, <2>3, <2>4 DEF NoBufferLost
<1> HIDE DEF Full
<1>4. QED
  BY <1>1, <1>2, <1>3, Invariance, PTL DEF Spec

(* A memory that has cells and no buffer is marked as spilled.             *)
THEOREM GoneCorrect == Spec => []GoneIsSpilled
<1>1. IInv => GoneIsSpilled
  <2>1. SUFFICES ASSUME IInv, NEW m \in Memories, memory[m].size # 0, memory[m].data = NULL
                 PROVE  memory[m].spilled
    BY DEF GoneIsSpilled
  <2>2. StateInv
    BY <2>1 DEF IInv
  <2>3. attached
    <3>1. ~ attached => memory[m] = NoMemory
      BY <2>2 DEF StateInv, Placed
    <3>2. NoMemory.size = 0
      BY DEF NoMemory
    <3>3. QED
      BY <2>1, <3>1, <3>2
  <2>4. QED
    BY <2>1, <2>2, <2>3, MemoryFacts
<1>2. QED
  BY <1>1, Invariance, PTL

(* While a module is attached, each import has what is bound to its name,  *)
(* unless no bytes are bound to it and it has a buffer of its own.         *)
THEOREM BindingCorrect == Spec => []BindingInForce
<1>1. IInv => BindingInForce
  <2>1. SUFFICES ASSUME IInv, attached, NEW m \in Imported
                 PROVE  \/ memory[m].data = bindings[NameOf[m]]
                        \/ bindings[NameOf[m]] = NULL /\ memory[m].owns
    BY DEF BindingInForce
  <2>2. m \in Memories /\ Placed(m)
    BY <2>1, ImportAssumption DEF IInv, StateInv
  <2>3. CASE memory[m].owns
    BY <2>1, <2>2, <2>3 DEF Placed, MayOwn
  <2>4. CASE ~ memory[m].owns
    BY <2>1, <2>2, <2>4 DEF Placed, OfHost
  <2>5. QED
    BY <2>3, <2>4
<1>2. QED
  BY <1>1, Invariance, PTL

(* Every memory of an attached module is within its limits, if those of    *)
(* the module are: the code compares a growth with the maximum, but never  *)
(* the initial size of a memory of the module's own.                       *)
THEOREM LimitsCorrect ==
  ASSUME \A m \in Memories : MinPages[m] <= MaxPages[m]
  PROVE  Spec => []WithinLimits
<1>1. IInv => WithinLimits
  <2>1. SUFFICES ASSUME IInv, attached, NEW m \in Memories
                 PROVE  /\ memory[m].size % PageCells = 0
                        /\ memory[m].size \div PageCells \in MinPages[m] .. MaxPages[m]
    BY DEF WithinLimits
  <2>2. memory[m].size \in Nat /\ Allowed(m, memory[m].size)
    BY <2>1, MemoryFacts DEF IInv
  <2>3. MinPages[m] \in Nat /\ MaxPages[m] \in Nat /\ MinPages[m] <= MaxPages[m]
    BY LimitAssumption
  <2>4. memory[m].size \div PageCells \in Nat
    BY <2>2, PageAssumption
  <2>5. QED
    BY <2>2, <2>3, <2>4 DEF Allowed
<1>2. QED
  BY <1>1, Invariance, PTL

-----------------------------------------------------------------------------
(* RuntimeMemory implements LinearMemory: the initial states map to        *)
(* initial states, and every step to an instruction, to a step of the      *)
(* embedder or to one that changes nothing a program can see.              *)

Objects == Memories \cup HostBuffers

-----------------------------------------------------------------------------
(* What the mapping makes of a state.                                      *)

(* The object behind a memory has the memory's size and, while the bytes   *)
(* are at hand, what its buffer holds.                                     *)
LEMMA View ==
  ASSUME StateInv, NEW m \in Memories
  PROVE  /\ objectOf[m] = IF memory[m].data \in HostBuffers THEN memory[m].data ELSE m
         /\ objectOf[m] \in Objects
         /\ memory[m].size \in 0 .. Top
         /\ sizeOf[objectOf[m]] = memory[m].size
         /\ memory[m].data # NULL => /\ attached /\ memory[m].data \in Buffers \cup HostBuffers
                                     /\ Data(m) \in Cells(memory[m].size)
                                     /\ cellsOf[objectOf[m]] = Data(m)
         /\ memory[m].size = 0 => cellsOf[objectOf[m]] = Blank(0)
<1>1. objectOf[m] = IF memory[m].data \in HostBuffers THEN memory[m].data ELSE m
  BY DEF objectOf
<1>2. m \notin HostBuffers
  BY ObjectAssumption
<1>3. CASE ~ attached
  <2>1. memory[m] = NoMemory
    BY <1>3 DEF StateInv, Placed
  <2>2. memory[m].data = NULL /\ memory[m].size = 0 /\ objectOf[m] = m
    BY <1>1, <2>1, NullAssumption DEF NoMemory
  <2>3. QED
    BY <1>1, <1>2, <1>3, <2>2, TopAssumption DEF Objects, sizeOf, cellsOf
<1>4. CASE attached /\ ~ memory[m].owns
  <2> DEFINE b == bindings[NameOf[m]]
  <2>1. b \in HostMemories /\ memory[m] = OfHost(b)
    BY <1>4 DEF StateInv, Placed
  <2> HIDE DEF b
  <2>2. memory[m].data = b /\ memory[m].size = HostBytes(b)
    BY <2>1, HostOwned
  <2>3. CASE b \in HostBuffers
    <3>1. HostBytes(b) = HostSize[b] /\ HostSize[b] \in 0 .. Top
      BY <2>3, HostSizes
    <3>2. heap[b] \in Cells(HostSize[b])
      BY <2>3 DEF StateInv
    <3>3. sizeOf[b] = HostSize[b] /\ cellsOf[b] = heap[b]
      BY <2>3 DEF sizeOf, cellsOf
    <3>4. HostSize[b] = 0 => heap[b] = Blank(0)
      BY <3>2 DEF Cells, Blank
    <3>5. QED
      BY <1>1, <1>4, <2>2, <2>3, <3>1, <3>2, <3>3, <3>4 DEF Objects, Data
  <2>4. CASE b = NULL
    <3>1. memory[m].size = 0 /\ memory[m].data = NULL /\ objectOf[m] = m
      BY <1>1, <2>2, <2>4, HostSizes, NullAssumption
    <3>2. QED
      BY <1>1, <1>2, <3>1, TopAssumption DEF Objects, sizeOf, cellsOf
  <2>5. QED
    BY <2>1, <2>3, <2>4 DEF HostMemories
<1>5. CASE attached /\ memory[m].owns
  <2>1. OwnMemory(m, memory[m], heap)
    BY <1>5 DEF StateInv, Placed
  <2>2. /\ memory[m].size \in 0 .. Top
        /\ memory[m].data # NULL => memory[m].data \in Buffers /\ Data(m) \in Cells(memory[m].size)
    BY <2>1, TopAssumption DEF OwnMemory, Allowed, Data
  <2>3. objectOf[m] = m
    BY <1>1, <2>2, NullAssumption, BufferAssumption
  <2>4. sizeOf[m] = memory[m].size
    BY <1>2, <2>3 DEF sizeOf
  <2>5. cellsOf[m] = IF memory[m].size = 0 THEN Blank(0)
                     ELSE IF memory[m].data # NULL THEN Data(m)
                     ELSE IF file[m] # NoFile THEN file[m].cells ELSE Blank(0)
    BY <1>2, <2>3 DEF cellsOf
  <2>6. ASSUME memory[m].size = 0, memory[m].data # NULL PROVE Data(m) = Blank(0)
    BY <2>2, <2>6 DEF Cells, Blank
  <2>7. QED
    BY <1>1, <1>5, <2>2, <2>3, <2>4, <2>5, <2>6 DEF Objects
<1>6. QED
  BY <1>3, <1>4, <1>5

(* A step that changes neither where a memory is and how large, nor the    *)
(* bytes of any, changes nothing to be seen.                               *)
LEMMA SameView ==
  ASSUME attached' = attached,
         \A m \in Memories : /\ memory'[m].data = memory[m].data
                             /\ memory'[m].size = memory[m].size
                             /\ memory[m].data # NULL => Data(m)' = Data(m)
                             /\ memory[m].data = NULL /\ memory[m].size # 0 => file'[m] = file[m],
         \A b \in HostBuffers : heap'[b] = heap[b]
  PROVE  UNCHANGED <<objectOf, sizeOf, cellsOf>>
<1>1. objectOf' = objectOf
  BY DEF objectOf
<1>2. sizeOf' = sizeOf
  BY <1>1 DEF sizeOf
<1>3. ASSUME NEW x \in Memories \cup HostBuffers
      PROVE  cellsOf'[x] = cellsOf[x]
  <2>1. CASE x \in HostBuffers
    BY <2>1 DEF cellsOf
  <2>2. CASE x \in Memories /\ x \notin HostBuffers
    BY <1>1, <2>2 DEF cellsOf
  <2>3. QED
    BY <2>1, <2>2
<1>4. cellsOf' = cellsOf
  BY <1>3 DEF cellsOf
<1>5. QED
  BY <1>1, <1>2, <1>4

(* The check of bounds passes for an address within the memory, at hand.   *)
(* Its sums do not wrap, as no memory is larger than the largest address.  *)
LEMMA Bounds ==
  ASSUME StateInv, NEW m \in Memories, NEW a \in 0 .. Top, NEW n \in 0 .. Top
  PROVE  /\ BoundsCheck(m, a, n) <=> memory[m].data # NULL /\ (n = 0 \/ a + n <= memory[m].size)
         /\ \A k \in 0 .. Top : n # 0 =>
              (Reaches(m, a, k, n) <=> memory[m].data # NULL /\ a + k + n <= memory[m].size)
         /\ a <= Top - n => Plus(a, n) = a + n
<1>1. memory[m].size \in 0 .. Top
  BY View
<1>2. \A x, y \in 0 .. Top : x <= Top - y => Plus(x, y) = x + y
  BY TopAssumption DEF Plus
<1>3. \A x \in 0 .. Top :
        BoundsCheck(m, x, n) <=> memory[m].data # NULL /\ (n = 0 \/ x + n <= memory[m].size)
  BY <1>1, <1>2, TopAssumption DEF BoundsCheck
<1>4. ASSUME NEW k \in 0 .. Top, n # 0
      PROVE  Reaches(m, a, k, n) <=> memory[m].data # NULL /\ a + k + n <= memory[m].size
  <2>1. CASE k <= Top - a
    <3>1. Plus(a, k) = a + k /\ a + k \in 0 .. Top
      BY <1>2, <2>1, TopAssumption
    <3>2. QED
      BY <1>3, <1>4, <2>1, <3>1 DEF Reaches
  <2>2. CASE ~ (k <= Top - a)
    <3>1. ~ (a + k + n <= memory[m].size)
      BY <1>1, <2>2, TopAssumption
    <3>2. QED
      BY <2>2, <3>1 DEF Reaches
  <2>3. QED
    BY <2>1, <2>2
<1>5. QED
  BY <1>2, <1>3, <1>4

(* Cells written into the buffer of a memory are written to its object,    *)
(* and to no other.                                                        *)
LEMMA Overwritten ==
  ASSUME StateInv, NEW m \in Memories, memory[m].data # NULL, memory[m].size # 0,
         NEW a, NEW d, NEW n,
         UNCHANGED <<attached, memory, file>>,
         heap' = [heap EXCEPT ![memory[m].data] = Overlay(@, a, d, n)]
  PROVE  /\ UNCHANGED <<objectOf, sizeOf>>
         /\ cellsOf' = [cellsOf EXCEPT ![objectOf[m]] = Overlay(@, a, d, n)]
<1> DEFINE b == memory[m].data
           c == Overlay(heap[b], a, d, n)
<1>1. /\ attached /\ b \in Buffers \cup HostBuffers
      /\ objectOf[m] = IF b \in HostBuffers THEN b ELSE m
      /\ objectOf[m] \in Objects
      /\ cellsOf[objectOf[m]] = heap[b]
  BY View DEF Data
<1>3. \A x \in Buffers \cup HostBuffers : heap'[x] = IF x = b THEN c ELSE heap[x]
  BY DEF StateInv
<1>4. UNCHANGED <<objectOf, sizeOf>>
  BY DEF objectOf, sizeOf
<1> HIDE DEF b, c
<1>5. ASSUME NEW x \in Objects
      PROVE  cellsOf'[x] = IF x = objectOf[m] THEN c ELSE cellsOf[x]
  <2>1. CASE x \in HostBuffers
    <3>1. cellsOf'[x] = heap'[x] /\ cellsOf[x] = heap[x]
      BY <2>1 DEF cellsOf
    <3>2. x = b <=> x = objectOf[m]
      BY <1>1, <2>1, BufferAssumption, ObjectAssumption
    <3>3. QED
      BY <1>3, <2>1, <3>1, <3>2
  <2>2. CASE x \notin HostBuffers
    <3>1. x \in Memories
      BY <2>2 DEF Objects
    <3>2. x = objectOf[m] <=> x = m /\ b \notin HostBuffers
      BY <1>1, <2>2
    <3>3. /\ cellsOf[x] = IF objectOf[x] # x \/ memory[x].size = 0 THEN Blank(0)
                          ELSE IF memory[x].data # NULL THEN heap[memory[x].data]
                          ELSE IF file[x] # NoFile THEN file[x].cells ELSE Blank(0)
          /\ cellsOf'[x] = IF objectOf[x] # x \/ memory[x].size = 0 THEN Blank(0)
                           ELSE IF memory[x].data # NULL THEN heap'[memory[x].data]
                           ELSE IF file[x] # NoFile THEN file[x].cells ELSE Blank(0)
      BY <1>4, <2>2, <3>1 DEF cellsOf, Data
    <3>4. CASE x = m /\ b \notin HostBuffers
      <4>1. heap'[memory[x].data] = c /\ memory[x].data # NULL /\ objectOf[x] = x
        BY <1>1, <1>3, <3>2, <3>4 DEF b
      <4>2. QED
        BY <3>2, <3>3, <3>4, <4>1
    <3>5. CASE ~ (x = m /\ b \notin HostBuffers)
      <4>1. SUFFICES ASSUME objectOf[x] = x, memory[x].data # NULL
                     PROVE  heap'[memory[x].data] = heap[memory[x].data]
        BY <3>2, <3>3, <3>5
      <4>2. memory[x].data \notin HostBuffers
        BY <2>2, <3>1, <4>1, View
      <4>3. x # m
        BY <3>5, <4>2 DEF b
      <4>4. memory[x].data \in Buffers
        BY <3>1, <4>1, <4>2, View
      <4>5. memory[x].data # b
        BY <3>1, <4>3, <4>4 DEF StateInv, Separate, b
      <4>6. QED
        BY <1>3, <4>4, <4>5
    <3>6. QED
      BY <3>4, <3>5
  <2>3. QED
    BY <2>1, <2>2
<1>6. cellsOf[objectOf[m]] = heap[b]
  BY <1>1
<1>7. cellsOf' = [x \in Objects |-> cellsOf'[x]] /\ cellsOf = [x \in Objects |-> cellsOf[x]]
  BY DEF cellsOf, Objects
<1> DEFINE o == objectOf[m]
<1> HIDE DEF o
<1>8. cellsOf' = [cellsOf EXCEPT ![o] = c]
  BY <1>5, <1>7, <1>1 DEF o
<1>9. QED
  BY <1>4, <1>6, <1>8 DEF o, c

(* An instruction that may enlarge its memory has the bytes at hand, if    *)
(* there are any: nothing comes between the load and the growth.           *)
AtHand ==
  op.kind = "access" /\ ~ op.loading /\ op.at > 1 =>
    memory[op.needs[1]].size = 0 \/ memory[op.needs[1]].data # NULL

LEMMA AtHandCorrect == Spec => []AtHand
<1>1. Init => AtHand
  BY DEF Init, AtHand, Idle
<1>2. ASSUME IInv, AtHand, [Next]_vars
      PROVE  AtHand'
  <2>1. SUFFICES ASSUME op'.kind = "access", ~ op'.loading, op'.at > 1
                 PROVE  LET m == op'.needs[1] IN memory'[m].size = 0 \/ memory'[m].data # NULL
    BY DEF AtHand
  <2> DEFINE m == op.needs[op.at]
             x == memory[m]
             no == FALSE
             yes == TRUE
             loaded == [x EXCEPT !.spilled = no]
             next == [op EXCEPT !.at = @ + 1]
  <2>2. ASSUME op' = Idle \/ (\E asked, got : Ended(asked, got)) \/ op'.at = 1 PROVE FALSE
    BY <2>1, <2>2 DEF Idle, Ended
  <2>3. ASSUME op' = op, op = Idle \/ Hooking PROVE FALSE
    BY <2>1, <2>3 DEF Idle, Hooking
  <2>4. Abandon => op' = Idle \/ \E asked, got : Ended(asked, got)
    BY DEF Abandon
  <2>5. ASSUME Waiting, op.at <= Len(op.needs)
        PROVE  /\ m \in Memories
               /\ x = [data |-> x.data, size |-> x.size, owns |-> x.owns, spilled |-> x.spilled]
               /\ loaded.data = x.data /\ loaded.size = x.size
               /\ next = [kind |-> op.kind, needs |-> op.needs, at |-> op.at + 1,
                          loading |-> op.loading]
               /\ op.kind = "access" => m = op.needs[1]
    <3>1. /\ op = [kind |-> op.kind, needs |-> op.needs, at |-> op.at, loading |-> op.loading]
          /\ op.needs \in Seq(Memories) /\ op.at \in 1 .. Len(op.needs)
          /\ op.kind = "access" => op.at = 1
          /\ attached
      BY <1>2, <2>5 DEF IInv, OpInv, Idle, Waiting
    <3>2. m \in Memories
      BY <3>1
    <3>3. x = [data |-> x.data, size |-> x.size, owns |-> x.owns, spilled |-> x.spilled]
      BY <1>2, <3>1, <3>2, MemoryFacts, Zenon DEF IInv
    <3>4. next = [kind |-> op.kind, needs |-> op.needs, at |-> op.at + 1, loading |-> op.loading]
      BY <3>1
    <3> HIDE DEF x, no
    <3>5. loaded.data = x.data /\ loaded.size = x.size
      BY <3>3
    <3>6. QED
      BY <3>1, <3>2, <3>3, <3>4, <3>5
  <2>6. ASSUME Waiting, op.at <= Len(op.needs), Loaded(m), x.size = 0 \/ x.data # NULL,
               op' = next \/ op' = [next EXCEPT !.loading = no]
        PROVE  LET n == op'.needs[1] IN memory'[n].size = 0 \/ memory'[n].data # NULL
    <3>1. /\ m \in Memories /\ loaded.data = x.data /\ loaded.size = x.size
          /\ next = [kind |-> op.kind, needs |-> op.needs, at |-> op.at + 1,
                     loading |-> op.loading]
          /\ op.kind = "access" => m = op.needs[1]
      BY <2>5, <2>6
    <3>2. op'.kind = op.kind /\ op'.needs = op.needs
      <4> HIDE DEF next, no
      <4>1. CASE op' = next
        BY <3>1, <4>1
      <4>2. CASE op' = [next EXCEPT !.loading = no]
        BY <3>1, <4>2
      <4>3. QED
        BY <2>6, <4>1, <4>2
    <3>3. memory' = [memory EXCEPT ![m] = loaded]
      BY <2>6 DEF Loaded
    <3>4. memory = [n \in Memories |-> memory[n]]
      BY <1>2 DEF IInv, StateInv
    <3> HIDE DEF loaded, m, x
    <3>5. memory'[m] = loaded
      BY <3>1, <3>3, <3>4
    <3>6. op'.needs[1] = m
      BY <2>1, <3>1, <3>2
    <3>7. QED
      BY <2>6, <3>1, <3>5, <3>6
  <2>7. CASE Ensure
    <3>1. Waiting /\ op.at <= Len(op.needs)
      BY <2>7 DEF Ensure, Needing
    <3>2. CASE op.kind = "load"
      <4>1. \A r : r = [op EXCEPT !.at = op.at + 1] \/ r = [op EXCEPT !.loading = yes] => r.kind = op.kind
        BY <1>2, <3>1 DEF IInv, OpInv
      <4>2. \/ op' = [op EXCEPT !.at = op.at + 1] \/ op' = [op EXCEPT !.loading = TRUE]
            \/ Abandon
        BY <2>7 DEF Ensure
      <4>3. QED
        BY <2>1, <2>2, <2>4, <3>2, <4>1, <4>2
    <3>3. CASE op.kind # "load"
      <4>1. \/ x.size = 0 /\ UNCHANGED memory /\ op' = next
            \/ x.data # NULL /\ Loaded(m) /\ op' = next
            \/ op' = [op EXCEPT !.loading = TRUE]
            \/ Abandon
        BY <2>7, <3>3 DEF Ensure
      <4>2. op' # [op EXCEPT !.loading = TRUE]
        <5>1. op = [kind |-> op.kind, needs |-> op.needs, at |-> op.at, loading |-> op.loading]
          BY <1>2, <3>1 DEF IInv, OpInv
        <5> HIDE DEF yes
        <5>2. [op EXCEPT !.loading = yes].loading = yes
          BY <5>1
        <5>3. QED
          BY <2>1, <5>2, Zenon DEF yes
      <4>3. CASE x.size = 0 /\ UNCHANGED memory /\ op' = next
        <5>1. op'.kind = op.kind /\ op'.needs = op.needs /\ (op.kind = "access" => m = op.needs[1])
          BY <2>5, <3>1, <4>3
        <5>2. QED
          BY <2>1, <4>3, <5>1
      <4>4. CASE x.data # NULL /\ Loaded(m) /\ op' = next
        BY <2>6, <3>1, <4>4
      <4>5. QED
        BY <2>2, <2>4, <4>1, <4>2, <4>3, <4>4
    <3>4. QED
      BY <3>2, <3>3
  <2>8. CASE HookSucceeds
    <3>1. \/ /\ x.data # NULL /\ Loaded(m)
             /\ op' = [op EXCEPT !.loading = no, !.at = op.at + 1]
          \/ Abandon
      BY <2>8 DEF HookSucceeds
    <3>2. Waiting /\ op.at <= Len(op.needs)
      BY <1>2, <2>8 DEF HookSucceeds, Hooking, IInv, OpInv
    <3>3. CASE Abandon
      BY <2>2, <2>4, <3>3
    <3>4. CASE ~ Abandon
      <4>1. op = [kind |-> op.kind, needs |-> op.needs, at |-> op.at, loading |-> op.loading]
        BY <1>2, <3>2 DEF IInv, OpInv
      <4>2. [op EXCEPT !.loading = no, !.at = op.at + 1] = [next EXCEPT !.loading = no]
        <5> HIDE DEF no
        <5>1. QED
          BY <4>1
      <4>3. QED
        BY <2>6, <3>1, <3>2, <3>4, <4>2
    <3>5. QED
      BY <3>3, <3>4
  <2>9. CASE UNCHANGED vars
    BY <1>2, <2>1, <2>9 DEF vars, AtHand
  <2>10. CASE \/ HookFails \/ LoadMemoryDone \/ Load \/ Grow \/ Retire
              \/ \E n \in Memories : \/ StartAccess(n) \/ StartLoadMemory(n) \/ MemorySize(n)
                                     \/ \E k \in Memories : StartCopy(n, k)
              \/ \E g \in DOMAIN Segments : DataDrop(g)
    <3>1. ASSUME NEW kind, NEW needs, Begin(kind, needs) PROVE FALSE
      <4>1. op'.at = 1
        BY <3>1 DEF Begin
      <4>2. QED
        BY <2>2, <4>1
    <3>2. CASE HookFails \/ LoadMemoryDone \/ Retire
      BY <2>2, <2>4, <3>2, Zenon DEF HookFails, LoadMemoryDone, Retire
    <3>3. CASE Load
      BY <2>2, <3>3, Zenon DEF Load
    <3>4. CASE Grow
      BY <2>2, <3>4, Zenon DEF Grow
    <3>5. CASE \/ \E n \in Memories : MemorySize(n)
               \/ \E g \in DOMAIN Segments : DataDrop(g)
      BY <2>2, <3>5, Zenon DEF MemorySize, DataDrop
    <3>6. CASE \E n \in Memories : \/ StartAccess(n) \/ StartLoadMemory(n)
                                   \/ \E k \in Memories : StartCopy(n, k)
      BY <3>1, <3>6, Zenon DEF StartAccess, StartLoadMemory, StartCopy
    <3>7. QED
      BY <2>10, <3>2, <3>3, <3>4, <3>5, <3>6
  <2>11. CASE Store \/ Fill \/ Copy \/ InitFrom
    <3>1. ASSUME NEW fits, NEW asked, NEW n, NEW a, NEW d, NEW k,
                 WriteOrTrap(fits, asked, n, a, d, k)
          PROVE  FALSE
      BY <2>2, <3>1, Zenon DEF WriteOrTrap
    <3>2. QED
      BY <2>11, <3>1 DEF Store, Fill, Copy, InitFrom
  <2>12. CASE \/ \E n \in Memories : SpillMemory(n) \/ SerializeMemory(n) \/ DeserializeMemory(n)
              \/ \E name \in Names, b \in HostMemories : BindImportedMemory(name, b)
              \/ DetachModule \/ AttachModule \/ AttachFails
    <3>1. op' = op /\ (op = Idle \/ Hooking)
      BY <2>12 DEF SpillMemory, SerializeMemory, DeserializeMemory, BindImportedMemory, Embedder,
                   DetachModule, AttachModule, AttachFails, Reset
    <3>2. QED
      BY <2>3, <3>1
  <2>13. QED
    BY <1>2, <2>7, <2>8, <2>9, <2>10, <2>11, <2>12 DEF Next
<1>3. QED
  BY <1>1, <1>2, Invariance, PTL DEF Spec

-----------------------------------------------------------------------------
(* Instructions.                                                           *)

(* An instruction that ends with an answer is an event of linear memory.   *)
LEMMA Answered ==
  ASSUME NEW q, NEW g, Ended(q, g)
  PROVE  Linear!Ends(q, g) /\ eventOf' # Linear!Quiet /\ eventOf'.asked = q
<1>1. eventOf' = [kind |-> "ended", asked |-> q, got |-> g]
  BY DEF Ended, eventOf
<1>2. eventOf'.kind = "ended" /\ eventOf'.asked = q
  BY <1>1
<1>3. Linear!Quiet.kind = "idle"
  BY DEF Linear!Quiet
<1>4. QED
  BY <1>1, <1>2, <1>3 DEF Linear!Ends

(* Having memories loaded shows nothing, unless it fails.                  *)
LEMMA LoadingMaps ==
  ASSUME IInv,
         \/ \E m \in Memories : \/ StartAccess(m) \/ StartLoadMemory(m)
                                \/ \E s \in Memories : StartCopy(m, s)
         \/ Ensure \/ HookSucceeds \/ HookFails \/ LoadMemoryDone \/ Retire
  PROVE  Linear!Paging \/ Linear!Instruction
<1> DEFINE m == op.needs[op.at]
           x == memory[m]
           no == FALSE
           loaded == [x EXCEPT !.spilled = no]
<1>1. StateInv /\ OpInv
  BY DEF IInv
<1>2. UNCHANGED <<attached, heap, bindings, file, dropped>>
  BY DEF StartAccess, StartLoadMemory, StartCopy, Begin, Ensure, HookSucceeds, HookFails,
         LoadMemoryDone, Retire
<1>3. ASSUME Waiting, op.at <= Len(op.needs)
      PROVE  /\ m \in Memories
             /\ loaded.data = x.data /\ loaded.size = x.size
  <2>1. attached /\ op.needs \in Seq(Memories) /\ op.at \in 1 .. Len(op.needs)
    BY <1>1, <1>3 DEF OpInv, Idle, Waiting
  <2>2. m \in Memories
    BY <2>1
  <2>3. x = [data |-> x.data, size |-> x.size, owns |-> x.owns, spilled |-> x.spilled]
    BY <1>1, <2>1, <2>2, MemoryFacts, Zenon
  <2> HIDE DEF x, no
  <2>4. loaded.data = x.data /\ loaded.size = x.size
    BY <2>3
  <2>5. QED
    BY <2>2, <2>4
<1>4. ASSUME UNCHANGED memory \/ (Waiting /\ op.at <= Len(op.needs) /\ Loaded(m))
      PROVE  Linear!Untouched
  <2>1. \A n \in Memories : memory'[n].data = memory[n].data /\ memory'[n].size = memory[n].size
    <3>1. CASE UNCHANGED memory
      BY <3>1
    <3>2. CASE Waiting /\ op.at <= Len(op.needs) /\ Loaded(m)
      <4>1. memory' = [memory EXCEPT ![m] = loaded]
        BY <3>2 DEF Loaded
      <4>2. memory = [n \in Memories |-> memory[n]]
        BY <1>1 DEF StateInv
      <4>3. m \in Memories /\ loaded.data = memory[m].data /\ loaded.size = memory[m].size
        BY <1>3, <3>2
      <4> HIDE DEF loaded, m
      <4>4. QED
        BY <4>1, <4>2, <4>3
    <3>3. QED
      BY <1>4, <3>1, <3>2
  <2>2. UNCHANGED <<objectOf, sizeOf, cellsOf>>
    BY <1>2, <2>1, SameView DEF Data
  <2>3. QED
    BY <1>2, <2>2 DEF Linear!Untouched
<1>5. ASSUME op'.kind # "ended", Linear!Untouched PROVE Linear!Paging
  BY <1>5 DEF eventOf, Idle, Linear!Paging, Linear!Quiet
<1>6. ASSUME Waiting, op.at <= Len(op.needs), Abandon, UNCHANGED memory,
             memory[m].data = NULL \/ op.loading
      PROVE  Linear!Paging \/ Linear!Instruction
  <2>1. Linear!Untouched
    BY <1>4, <1>6
  <2>2. CASE op.kind = "load"
    BY <1>5, <1>6, <2>1, <2>2 DEF Abandon, Idle
  <2>3. CASE op.kind # "load"
    <3>1. Ended(<<"any", m>>, Failed)
      BY <1>6, <2>3 DEF Abandon
    <3>2. /\ Linear!Ends(<<"any", m>>, Failed) /\ eventOf' # Linear!Quiet
          /\ eventOf'.asked = <<"any", m>>
      BY <3>1, Answered, Zenon
    <3>3. ~ residentOf[m]
      BY <1>3, <1>6 DEF residentOf, Hooking
    <3>4. Linear!Unreachable(m)
      BY <2>1, <3>2, <3>3 DEF Linear!Unreachable, Linear!Failed, Failed
    <3>5. QED
      BY <3>2, <3>4 DEF Linear!Instruction
  <2>4. QED
    BY <2>2, <2>3
<1>7. CASE \E n \in Memories : \/ StartAccess(n) \/ StartLoadMemory(n)
                               \/ \E s \in Memories : StartCopy(n, s)
  <2>1. UNCHANGED memory
    BY <1>7 DEF StartAccess, StartLoadMemory, StartCopy, Begin
  <2>2. op'.kind \in {"access", "load", "copy"}
    BY <1>7 DEF StartAccess, StartLoadMemory, StartCopy, Begin
  <2>3. QED
    BY <1>4, <1>5, <2>1, <2>2
<1>8. CASE LoadMemoryDone \/ Retire
  BY <1>4, <1>5, <1>8 DEF LoadMemoryDone, Retire, Idle
<1>9. ASSUME Waiting, NEW r, NEW flag, r = [op EXCEPT !.at = op.at + 1] \/ r = [op EXCEPT !.loading = flag]
                  \/ r = [op EXCEPT !.loading = flag, !.at = op.at + 1]
      PROVE  r.kind # "ended"
  <2>1. op = [kind |-> op.kind, needs |-> op.needs, at |-> op.at, loading |-> op.loading]
    BY <1>1, <1>9 DEF OpInv
  <2>2. r.kind = op.kind
    BY <1>9, <2>1
  <2>3. QED
    BY <1>9, <2>2 DEF Waiting
<1>10. CASE Ensure
  <2>1. Waiting /\ op.at <= Len(op.needs)
    BY <1>10 DEF Ensure, Needing
  <2>2. \/ /\ UNCHANGED memory \/ Loaded(m)
           /\ op' = [op EXCEPT !.at = op.at + 1] \/ op' = [op EXCEPT !.loading = TRUE]
        \/ UNCHANGED memory /\ memory[m].data = NULL /\ Abandon
    BY <1>10 DEF Ensure
  <2>3. CASE UNCHANGED memory /\ memory[m].data = NULL /\ Abandon
    BY <1>6, <2>1, <2>3
  <2>4. CASE /\ UNCHANGED memory \/ Loaded(m)
             /\ op' = [op EXCEPT !.at = op.at + 1] \/ op' = [op EXCEPT !.loading = TRUE]
    BY <1>4, <1>5, <1>9, <2>1, <2>4
  <2>5. QED
    BY <2>2, <2>3, <2>4
<1>11. CASE HookSucceeds
  <2>1. Waiting /\ op.at <= Len(op.needs) /\ op.loading
    BY <1>1, <1>11 DEF HookSucceeds, Hooking, OpInv
  <2>2. \/ Loaded(m) /\ op' = [op EXCEPT !.loading = FALSE, !.at = op.at + 1]
        \/ UNCHANGED memory /\ Abandon
    BY <1>11 DEF HookSucceeds
  <2>3. CASE UNCHANGED memory /\ Abandon
    BY <1>6, <2>1, <2>3
  <2>4. CASE Loaded(m) /\ op' = [op EXCEPT !.loading = FALSE, !.at = op.at + 1]
    BY <1>4, <1>5, <1>9, <2>1, <2>4
  <2>5. QED
    BY <2>2, <2>3, <2>4
<1>12. CASE HookFails
  BY <1>1, <1>6, <1>12 DEF HookFails, Hooking, OpInv
<1>13. QED
  BY <1>7, <1>8, <1>10, <1>11, <1>12

(* Loads, stores, bulk operations, data.drop and memory.size are those of  *)
(* linear memory.                                                          *)
LEMMA InstructionMaps ==
  ASSUME IInv,
         \/ Load \/ Store \/ Fill \/ Copy \/ InitFrom
         \/ \E m \in Memories : MemorySize(m)
         \/ \E g \in DOMAIN Segments : DataDrop(g)
  PROVE  Linear!Instruction
<1>1. StateInv /\ OpInv
  BY DEF IInv
<1>2. UNCHANGED <<attached, memory, bindings, file>>
  BY DEF Load, Store, Fill, Copy, InitFrom, MemorySize, DataDrop
<1>3. ASSUME UNCHANGED <<heap, dropped>>
      PROVE  Linear!Untouched
  BY <1>2, <1>3, SameView DEF Data, Linear!Untouched
<1>4. ASSUME Performing("access") \/ Performing("copy")
      PROVE  /\ op.needs[1] \in Memories /\ (op.kind = "copy" => op.needs[2] \in Memories)
             /\ \A m \in Memories : residentOf[m] <=> memory[m].data # NULL
  <2>1. Waiting /\ ~ op.loading
    BY <1>4 DEF Performing
  <2>2. op.needs \in Seq(Memories) /\ Len(op.needs) = IF op.kind = "copy" THEN 2 ELSE 1
    BY <1>1, <2>1 DEF OpInv
  <2>3. \A m \in Memories : residentOf[m] <=> memory[m].data # NULL
    BY <2>1 DEF residentOf, Hooking
  <2>4. QED
    BY <2>2, <2>3
<1>5. ASSUME NEW fits \in BOOLEAN, NEW q, NEW m \in Memories, NEW a \in Nat, NEW d, NEW n \in Nat,
             WriteOrTrap(fits, q, m, a, d, n), UNCHANGED dropped,
             fits => memory[m].data # NULL /\ (n = 0 \/ a + n <= memory[m].size)
      PROVE  /\ eventOf' # Linear!Quiet /\ eventOf'.asked = q
             /\ \/ fits /\ n # 0 /\ Linear!Writes(m, a, d, n) /\ Linear!Ends(q, Linear!Done)
                \/ fits /\ n = 0 /\ Linear!Untouched /\ Linear!Ends(q, Linear!Done)
                \/ ~ fits /\ Linear!Untouched /\ Linear!Ends(q, Linear!Failed)
  <2> USE <1>5
  <2>1. CASE ~ fits
    <3>1. UNCHANGED heap /\ Ended(q, Failed)
      BY <2>1 DEF WriteOrTrap
    <3>2. Linear!Ends(q, Failed) /\ eventOf' # Linear!Quiet /\ eventOf'.asked = q
      BY <3>1, Answered, Zenon
    <3>3. QED
      BY <1>3, <2>1, <3>1, <3>2 DEF Failed, Linear!Failed
  <2>2. CASE fits
    <3>1. heap' = [heap EXCEPT ![memory[m].data] = Overlay(@, a, d, n)] /\ Ended(q, Done)
      BY <2>2 DEF WriteOrTrap
    <3>2. Linear!Ends(q, Done) /\ eventOf' # Linear!Quiet /\ eventOf'.asked = q
      BY <3>1, Answered, Zenon
    <3>3. Linear!Done = Done
      BY DEF Done, Linear!Done
    <3>4. CASE n = 0
      <4>1. memory[m].data \in Buffers \cup HostBuffers /\ Data(m) \in Cells(memory[m].size)
        BY <1>1, <2>2, View
      <4>2. Overlay(Data(m), a, d, n) = Data(m)
        BY <3>4, <4>1 DEF Overlay, Cells
      <4>3. heap' = heap
        BY <1>1, <3>1, <4>1, <4>2 DEF StateInv, Data
      <4>4. QED
        BY <1>3, <2>2, <3>2, <3>3, <3>4, <4>3
    <3>5. CASE n # 0
      <4>1. memory[m].size # 0 /\ memory[m].data # NULL
        BY <1>1, <2>2, <3>5, View
      <4>2. /\ UNCHANGED <<objectOf, sizeOf>>
            /\ cellsOf' = [cellsOf EXCEPT ![objectOf[m]] = Overlay(@, a, d, n)]
        BY <1>1, <1>2, <3>1, <4>1, Overwritten
      <4>3. Linear!Writes(m, a, d, n)
        BY <1>2, <4>2 DEF Linear!Writes, Linear!Overlay, Overlay
      <4>4. QED
        BY <2>2, <3>2, <3>3, <3>5, <4>3
    <3>6. QED
      BY <3>4, <3>5
  <2>3. QED
    BY <2>1, <2>2
<1>6. \A m \in Memories : \A a, n :
        Linear!Within(m, a, n) <=> a + n <= memory[m].size
  BY <1>1, View DEF Linear!Within
<1>7. CASE Load
  <2> DEFINE m == op.needs[1]
  <2>1. Performing("access") /\ UNCHANGED <<heap, dropped>>
    BY <1>7 DEF Load
  <2>2. m \in Memories /\ (residentOf[m] <=> memory[m].data # NULL)
    BY <1>4, <2>1
  <2>3. PICK base \in 0 .. Top, offset \in 0 .. Top, n \in Widths :
          Ended(<<"load", m, base + offset, n>>,
                IF Reaches(m, base, offset, n)
                THEN Value(Slice(Data(m), Plus(base, offset), n)) ELSE Failed)
    BY <1>7 DEF Load
  <2> DEFINE a == base + offset
             q == <<"load", m, a, n>>
  <2> HIDE DEF m
  <2>4. n \in 1 .. Top
    BY WidthAssumption
  <2>5. Reaches(m, base, offset, n) <=> memory[m].data # NULL /\ a + n <= memory[m].size
    BY <1>1, <2>2, <2>4, Bounds
  <2>6. Linear!Load(m, a, n) /\ eventOf' # Linear!Quiet /\ eventOf'.asked = q
    <3>1. CASE Reaches(m, base, offset, n)
      <4>1. Plus(base, offset) = a
        <5>1. base <= Top - offset
          BY <3>1, TopAssumption DEF Reaches
        <5>2. QED
          BY <1>1, <2>2, <5>1, Bounds
      <4>2. cellsOf[objectOf[m]] = Data(m)
        BY <1>1, <2>2, <2>5, <3>1, View
      <4>3. Ended(q, Value(Slice(Data(m), a, n)))
        BY <2>3, <3>1, <4>1
      <4> HIDE DEF q
      <4>4. /\ Linear!Ends(q, Value(Slice(Data(m), a, n)))
            /\ eventOf' # Linear!Quiet /\ eventOf'.asked = q
        BY <4>3, Answered, Zenon
      <4>5. Linear!Ends(q, Linear!Value(Linear!Slice(cellsOf[objectOf[m]], a, n)))
        BY <4>2, <4>4 DEF Value, Linear!Value, Slice, Linear!Slice
      <4>6. Linear!Within(m, a, n)
        BY <1>6, <2>2, <2>5, <3>1
      <4>7. QED
        BY <1>3, <2>1, <4>4, <4>5, <4>6, Zenon DEF Linear!Load, Linear!Access, q
    <3>2. CASE ~ Reaches(m, base, offset, n)
      <4>1. Ended(q, Failed)
        BY <2>3, <3>2
      <4> HIDE DEF q
      <4>2. Linear!Ends(q, Linear!Failed) /\ eventOf' # Linear!Quiet /\ eventOf'.asked = q
        BY <4>1, Answered, Zenon DEF Failed, Linear!Failed
      <4>3. ~ residentOf[m] \/ ~ Linear!Within(m, a, n)
        BY <1>6, <2>2, <2>5, <3>2
      <4>4. QED
        BY <1>3, <2>1, <4>2, <4>3 DEF Linear!Load, Linear!Access, q
    <3>3. QED
      BY <3>1, <3>2
  <2> HIDE DEF a
  <2>7. QED
    BY <2>6 DEF Linear!Instruction
<1>8. CASE Store
  <2> DEFINE m == op.needs[1]
  <2>1. Performing("access") /\ UNCHANGED dropped
    BY <1>8 DEF Store
  <2>2. m \in Memories /\ (residentOf[m] <=> memory[m].data # NULL)
    BY <1>4, <2>1
  <2>3. PICK base \in 0 .. Top, offset \in 0 .. Top, n \in Widths : \E d \in [0 .. n - 1 -> Cell] :
          WriteOrTrap(Reaches(m, base, offset, n), <<"store", m, base + offset, n, d>>,
                      m, Plus(base, offset), d, n)
    BY <1>8 DEF Store
  <2>4. PICK d : WriteOrTrap(Reaches(m, base, offset, n), <<"store", m, base + offset, n, d>>,
                             m, Plus(base, offset), d, n)
    BY <2>3
  <2> DEFINE a == base + offset
             q == <<"store", m, a, n, d>>
             fits == Reaches(m, base, offset, n)
  <2> HIDE DEF m
  <2>5. n \in 1 .. Top
    BY WidthAssumption
  <2>6. fits <=> memory[m].data # NULL /\ a + n <= memory[m].size
    BY <1>1, <2>2, <2>5, Bounds
  <2>7. fits \in BOOLEAN
    BY DEF Reaches, BoundsCheck
  <2>8. fits => Plus(base, offset) = a
    <3>1. fits => base <= Top - offset
      BY TopAssumption DEF Reaches
    <3>2. QED
      BY <1>1, <2>2, <3>1, Bounds
  <2>9. WriteOrTrap(fits, q, m, a, d, n)
    BY <2>4, <2>8 DEF WriteOrTrap
  <2>10. a \in Nat /\ n \in Nat
    BY <2>5
  <2> HIDE DEF fits, q, a
  <2>11. /\ eventOf' # Linear!Quiet /\ eventOf'.asked = q
         /\ \/ fits /\ Linear!Writes(m, a, d, n) /\ Linear!Ends(q, Linear!Done)
            \/ ~ fits /\ Linear!Untouched /\ Linear!Ends(q, Linear!Failed)
    <3>1. n # 0 /\ (fits => memory[m].data # NULL /\ (n = 0 \/ a + n <= memory[m].size))
      BY <2>5, <2>6
    <3>2. QED
      BY <1>5, <2>1, <2>2, <2>7, <2>9, <2>10, <3>1
  <2>12. Linear!Within(m, a, n) <=> a + n <= memory[m].size
    BY <1>6, <2>2
  <2>13. Linear!Store(m, a, n, d)
    BY <2>2, <2>6, <2>11, <2>12 DEF Linear!Store, Linear!Access, q
  <2>14. QED
    BY <2>11, <2>13 DEF Linear!Instruction, q
<1>9. CASE Fill
  <2> DEFINE m == op.needs[1]
  <2>1. Performing("access") /\ UNCHANGED dropped
    BY <1>9 DEF Fill
  <2>2. m \in Memories /\ (residentOf[m] <=> memory[m].data # NULL)
    BY <1>4, <2>1
  <2>3. PICK a \in 0 .. Top, n \in 0 .. Top, v \in Cell :
          WriteOrTrap(BoundsCheck(m, a, n), <<"fill", m, a, n, v>>,
                      m, a, [i \in 0 .. n - 1 |-> v], n)
    BY <1>9 DEF Fill
  <2> DEFINE q == <<"fill", m, a, n, v>>
             fits == BoundsCheck(m, a, n)
             d == [i \in 0 .. n - 1 |-> v]
  <2> HIDE DEF m
  <2>4. fits <=> memory[m].data # NULL /\ (n = 0 \/ a + n <= memory[m].size)
    BY <1>1, <2>2, Bounds
  <2>5. fits \in BOOLEAN
    BY DEF BoundsCheck
  <2>6. a \in Nat /\ n \in Nat
    OBVIOUS
  <2>7. WriteOrTrap(fits, q, m, a, d, n)
    BY <2>3
  <2> HIDE DEF fits, q, d
  <2>8. /\ eventOf' # Linear!Quiet /\ eventOf'.asked = q
        /\ \/ fits /\ n # 0 /\ Linear!Writes(m, a, d, n) /\ Linear!Ends(q, Linear!Done)
           \/ fits /\ n = 0 /\ Linear!Untouched /\ Linear!Ends(q, Linear!Done)
           \/ ~ fits /\ Linear!Untouched /\ Linear!Ends(q, Linear!Failed)
    BY <1>5, <2>1, <2>2, <2>4, <2>5, <2>6, <2>7
  <2>9. Linear!Within(m, a, n) <=> a + n <= memory[m].size
    BY <1>6, <2>2
  <2>10. Linear!Fill(m, a, n, v)
    BY <2>2, <2>4, <2>8, <2>9 DEF Linear!Fill, Linear!Bulk, Linear!Access, q, d
  <2>11. QED
    BY <2>8, <2>10 DEF Linear!Instruction, q
<1>10. CASE Copy
  <2> DEFINE s == op.needs[1]
             t == op.needs[2]
  <2>1. Performing("copy") /\ UNCHANGED dropped
    BY <1>10 DEF Copy
  <2>2. /\ s \in Memories /\ (residentOf[s] <=> memory[s].data # NULL)
        /\ t \in Memories /\ (residentOf[t] <=> memory[t].data # NULL)
    BY <1>4, <2>1 DEF Performing
  <2>3. PICK sa \in 0 .. Top, a \in 0 .. Top, n \in 0 .. Top :
          WriteOrTrap(BoundsCheck(s, sa, n) /\ BoundsCheck(t, a, n), <<"copy", t, s, a, sa, n>>,
                      t, a, Slice(Data(s), sa, n), n)
    BY <1>10 DEF Copy
  <2> DEFINE q == <<"copy", t, s, a, sa, n>>
             fits == BoundsCheck(s, sa, n) /\ BoundsCheck(t, a, n)
             d == Slice(Data(s), sa, n)
  <2> HIDE DEF s, t
  <2>4. fits <=> /\ memory[s].data # NULL /\ memory[t].data # NULL
                 /\ n = 0 \/ (sa + n <= memory[s].size /\ a + n <= memory[t].size)
    BY <1>1, <2>2, Bounds
  <2>5. fits \in BOOLEAN
    BY DEF BoundsCheck
  <2>6. a \in Nat /\ n \in Nat
    OBVIOUS
  <2>7. WriteOrTrap(fits, q, t, a, d, n)
    BY <2>3
  <2>8. memory[s].data # NULL => d = Linear!Slice(cellsOf[objectOf[s]], sa, n)
    BY <1>1, <2>2, View DEF Slice, Linear!Slice
  <2> HIDE DEF fits, q, d
  <2>9. /\ eventOf' # Linear!Quiet /\ eventOf'.asked = q
        /\ \/ fits /\ n # 0 /\ Linear!Writes(t, a, d, n) /\ Linear!Ends(q, Linear!Done)
           \/ fits /\ n = 0 /\ Linear!Untouched /\ Linear!Ends(q, Linear!Done)
           \/ ~ fits /\ Linear!Untouched /\ Linear!Ends(q, Linear!Failed)
    BY <1>5, <2>1, <2>2, <2>4, <2>5, <2>6, <2>7
  <2>10. /\ Linear!Within(s, sa, n) <=> sa + n <= memory[s].size
         /\ Linear!Within(t, a, n) <=> a + n <= memory[t].size
    BY <1>6, <2>2
  <2>11. Linear!Copy(t, s, a, sa, n)
    BY <2>2, <2>4, <2>8, <2>9, <2>10 DEF Linear!Copy, Linear!Bulk, Linear!Access, q
  <2>12. QED
    BY <2>9, <2>11 DEF Linear!Instruction, q
<1>11. CASE InitFrom
  <2> DEFINE m == op.needs[1]
  <2>1. Performing("access") /\ UNCHANGED dropped
    BY <1>11 DEF InitFrom
  <2>2. m \in Memories /\ (residentOf[m] <=> memory[m].data # NULL)
    BY <1>4, <2>1
  <2>3. PICK g \in DOMAIN Segments, a \in 0 .. Top, sa \in 0 .. Top, n \in 0 .. Top :
          WriteOrTrap(/\ g \notin dropped
                      /\ sa <= Top - n
                      /\ Plus(sa, n) <= Segments[g].size
                      /\ BoundsCheck(m, a, n),
                      <<"init", m, g, a, sa, n>>, m, a, Slice(Segments[g].bytes, sa, n), n)
    BY <1>11 DEF InitFrom
  <2> DEFINE q == <<"init", m, g, a, sa, n>>
             fits == /\ g \notin dropped
                     /\ sa <= Top - n
                     /\ Plus(sa, n) <= Segments[g].size
                     /\ BoundsCheck(m, a, n)
             inside == g \notin dropped /\ sa + n <= Segments[g].size
             d == Slice(Segments[g].bytes, sa, n)
  <2> HIDE DEF m
  <2>4. BoundsCheck(m, a, n) <=> memory[m].data # NULL /\ (n = 0 \/ a + n <= memory[m].size)
    BY <1>1, <2>2, Bounds
  <2>5. sa <= Top - n /\ Plus(sa, n) <= Segments[g].size <=> sa + n <= Segments[g].size
    <3>1. Segments[g].size \in 0 .. Top
      BY LengthAssumption, SegmentAssumption
    <3>2. sa <= Top - n => Plus(sa, n) = sa + n
      BY <1>1, <2>2, Bounds
    <3>3. QED
      BY <3>1, <3>2, TopAssumption
  <2>6. fits <=> /\ inside /\ memory[m].data # NULL
                 /\ n = 0 \/ a + n <= memory[m].size
    BY <2>4, <2>5
  <2>7. fits \in BOOLEAN
    BY DEF BoundsCheck
  <2>8. a \in Nat /\ n \in Nat
    OBVIOUS
  <2>9. WriteOrTrap(fits, q, m, a, d, n)
    BY <2>3
  <2>10. d = Linear!Slice(Segments[g].bytes, sa, n)
    BY DEF Slice, Linear!Slice
  <2> HIDE DEF fits, q, d
  <2>11. /\ eventOf' # Linear!Quiet /\ eventOf'.asked = q
         /\ \/ fits /\ n # 0 /\ Linear!Writes(m, a, d, n) /\ Linear!Ends(q, Linear!Done)
            \/ fits /\ n = 0 /\ Linear!Untouched /\ Linear!Ends(q, Linear!Done)
            \/ ~ fits /\ Linear!Untouched /\ Linear!Ends(q, Linear!Failed)
    BY <1>5, <2>1, <2>2, <2>6, <2>7, <2>8, <2>9
  <2>12. Linear!Within(m, a, n) <=> a + n <= memory[m].size
    BY <1>6, <2>2
  <2>13. Linear!InitFrom(m, g, a, sa, n)
    BY <2>2, <2>6, <2>10, <2>11, <2>12 DEF Linear!InitFrom, Linear!Bulk, Linear!Access, q
  <2>14. QED
    BY <2>11, <2>13 DEF Linear!Instruction, q
<1>12. CASE \E m \in Memories : MemorySize(m)
  <2>1. PICK m \in Memories : MemorySize(m)
    BY <1>12
  <2> DEFINE q == <<"size", m>>
             g == Pages(memory[m].size \div PageCells)
  <2>2. Ended(q, g) /\ UNCHANGED <<heap, dropped>>
    BY <2>1 DEF MemorySize
  <2>3. Linear!Pages(sizeOf[objectOf[m]] \div PageCells) = g
    BY <1>1, View DEF Pages, Linear!Pages
  <2> HIDE DEF g, q
  <2>4. Linear!Ends(q, g) /\ eventOf' # Linear!Quiet /\ eventOf'.asked = q
    BY <2>2, Answered, Zenon
  <2>5. Linear!MemorySize(m)
    BY <1>3, <2>2, <2>3, <2>4 DEF Linear!MemorySize, q
  <2>6. QED
    BY <2>4, <2>5 DEF Linear!Instruction, q
<1>13. CASE \E g \in DOMAIN Segments : DataDrop(g)
  <2>1. PICK g \in DOMAIN Segments : DataDrop(g)
    BY <1>13
  <2> DEFINE q == <<"drop", g>>
  <2>2. Ended(q, Done) /\ UNCHANGED heap /\ dropped' = dropped \cup {g}
    BY <2>1 DEF DataDrop
  <2> HIDE DEF q
  <2>3. Linear!Ends(q, Done) /\ eventOf' # Linear!Quiet /\ eventOf'.asked = q
    BY <2>2, Answered, Zenon
  <2>4. UNCHANGED <<objectOf, sizeOf, cellsOf>>
    BY <1>2, <2>2, SameView DEF Data
  <2>5. Linear!DataDrop(g)
    BY <1>2, <2>2, <2>3, <2>4 DEF Linear!DataDrop, Linear!Done, Done, q
  <2>6. QED
    BY <2>3, <2>5 DEF Linear!Instruction, q
<1>14. QED
  BY <1>7, <1>8, <1>9, <1>10, <1>11, <1>12, <1>13

(* A memory that may have a buffer of its own and gets another, or none,   *)
(* changes its own object only.                                            *)
LEMMA ReplacedView ==
  ASSUME StateInv, attached, attached' = attached, NEW m \in Memories, Replaceable(m), NEW bytes,
         memory'[m].data \in Free(heap) \cup {NULL},
         heap' = [b \in Buffers \cup HostBuffers |->
                   IF b = memory'[m].data THEN bytes
                   ELSE IF b = memory[m].data THEN Freed ELSE heap[b]],
         \A n \in Memories \ {m} : memory'[n] = memory[n] /\ file'[n] = file[n]
  PROVE  /\ objectOf[m] = m /\ objectOf' = objectOf
         /\ sizeOf' = [sizeOf EXCEPT ![m] = memory'[m].size]
         /\ cellsOf' = [cellsOf EXCEPT ![m] =
                          IF memory'[m].size = 0 THEN Blank(0)
                          ELSE IF memory'[m].data # NULL THEN bytes
                          ELSE IF file'[m] # NoFile THEN file'[m].cells ELSE Blank(0)]
<1> DEFINE z == IF memory'[m].size = 0 THEN Blank(0)
                ELSE IF memory'[m].data # NULL THEN bytes
                ELSE IF file'[m] # NoFile THEN file'[m].cells ELSE Blank(0)
<1>1. memory[m].data \in Buffers \cup {NULL} /\ memory'[m].data \in Buffers \cup {NULL}
  BY MemoryFacts DEF Free, Replaceable
<1>2. \A b \in HostBuffers : heap'[b] = heap[b]
  BY <1>1, NullAssumption, BufferAssumption
<1>3. ASSUME NEW n \in Memories \ {m}, memory[n].data # NULL
      PROVE  heap'[memory[n].data] = heap[memory[n].data]
  <2>1. CASE memory[n].data \in HostBuffers
    BY <1>2, <2>1
  <2>2. CASE memory[n].data \in Buffers
    <3>1. memory[n].data # memory[m].data
      BY <2>2 DEF StateInv, Separate
    <3>2. heap[memory[n].data] # Freed
      BY <2>2, BuffersHeld
    <3>3. memory[n].data # memory'[m].data
      BY <2>2, <3>2, NullAssumption DEF Free
    <3>4. QED
      BY <2>2, <3>1, <3>3
  <2>3. QED
    BY <1>3, <2>1, <2>2, View
<1>4. m \notin HostBuffers /\ objectOf[m] = m
  BY <1>1, ObjectAssumption, NullAssumption, BufferAssumption DEF objectOf
<1>5. objectOf' = objectOf
  <2>1. \A n \in Memories :
          \/ memory'[n].data = memory[n].data
          \/ memory'[n].data \notin HostBuffers /\ memory[n].data \notin HostBuffers
    <3>1. memory'[m].data \notin HostBuffers /\ memory[m].data \notin HostBuffers
      BY <1>1, NullAssumption, BufferAssumption
    <3>2. ASSUME NEW n \in Memories \ {m} PROVE memory'[n].data = memory[n].data
      <4>1. memory'[n] = memory[n]
        OBVIOUS
      <4>2. QED
        BY <4>1
    <3>3. TAKE n \in Memories
    <3>4. CASE n = m
      BY <3>1, <3>4
    <3>5. CASE n # m
      BY <3>2, <3>5
    <3>6. QED
      BY <3>4, <3>5
  <2>2. QED
    BY <2>1 DEF objectOf
<1>6. sizeOf' = [sizeOf EXCEPT ![m] = memory'[m].size]
  BY <1>4, <1>5 DEF sizeOf
<1>7. memory'[m].data # NULL => heap'[memory'[m].data] = bytes
  BY <1>1
<1>8. cellsOf'[m] = z
  <2>1. Data(m)' = heap'[memory'[m].data]
    BY DEF Data
  <2>2. QED
    BY <1>4, <1>5, <1>7, <2>1 DEF cellsOf
<1>9. ASSUME NEW x \in Objects \ {m} PROVE cellsOf'[x] = cellsOf[x]
  <2>1. CASE x \in HostBuffers
    BY <1>2, <2>1 DEF cellsOf
  <2>2. CASE x \notin HostBuffers
    <3>1. x \in Memories \ {m}
      BY <2>2 DEF Objects
    <3>2. memory'[x] = memory[x] /\ file'[x] = file[x]
          /\ (memory[x].data # NULL => Data(x)' = Data(x))
      BY <1>3, <3>1 DEF Data
    <3>3. QED
      BY <1>5, <2>2, <3>1, <3>2 DEF cellsOf
  <2>3. QED
    BY <2>1, <2>2
<1>10. cellsOf' = [x \in Objects |-> cellsOf'[x]] /\ cellsOf = [x \in Objects |-> cellsOf[x]]
  BY DEF cellsOf, Objects
<1> HIDE DEF z
<1>11. cellsOf' = [cellsOf EXCEPT ![m] = z]
  BY <1>8, <1>9, <1>10
<1>12. QED
  BY <1>4, <1>5, <1>6, <1>11 DEF z

(* memory.grow is that of linear memory.                                   *)
LEMMA GrowMaps ==
  ASSUME IInv, AtHand, Grow
  PROVE  Linear!Instruction
<1> DEFINE m == op.needs[1]
           y == memory[m]
           pages == y.size \div PageCells
           o == objectOf[m]
<1>1. StateInv /\ OpInv
  BY DEF IInv
<1>2. UNCHANGED <<attached, bindings, file, dropped>>
  BY DEF Grow
<1>3. /\ attached /\ m \in Memories
      /\ y.size = 0 \/ y.data # NULL
  <2>1. Waiting /\ ~ op.loading /\ op.kind = "access" /\ op.at > Len(op.needs)
    BY DEF Grow, Performing
  <2>2. attached /\ op.needs \in Seq(Memories) /\ Len(op.needs) = 1
    BY <1>1, <2>1 DEF OpInv, Idle
  <2>3. QED
    BY <2>1, <2>2 DEF AtHand
<1>4. /\ y = [data |-> y.data, size |-> y.size, owns |-> y.owns, spilled |-> y.spilled]
      /\ y.size \in Nat /\ Allowed(m, y.size)
      /\ y.data # NULL => heap[y.data] \in Cells(y.size)
  BY <1>1, <1>3, MemoryFacts
<1>5. pages \in Nat /\ pages * PageCells = y.size
  BY <1>4, PageAssumption DEF Allowed
<1>6. /\ o \in Objects /\ sizeOf[o] = y.size /\ cellsOf[o] \in Cells(y.size)
      /\ y.data # NULL => cellsOf[o] = heap[y.data]
      /\ y.size = 0 => cellsOf[o] = Blank(0)
  <2>1. /\ o \in Objects /\ sizeOf[o] = y.size
        /\ y.data # NULL => Data(m) \in Cells(y.size) /\ cellsOf[o] = Data(m)
        /\ y.size = 0 => cellsOf[o] = Blank(0)
    BY <1>1, <1>3, View
  <2>2. Blank(0) \in Cells(0)
    BY DEF Blank, Cells
  <2>3. QED
    BY <1>3, <2>1, <2>2 DEF Data
<1> HIDE DEF m
<1>7. PICK delta \in 0 .. Top :
        \/ /\ delta = 0
           /\ Ended(<<"grow", m, 0>>, Pages(pages))
           /\ UNCHANGED <<memory, heap>>
        \/ /\ delta # 0 /\ Growable(m, pages, Plus(pages, delta)) /\ Free(heap) # {}
           /\ GrowTo(m, Plus(pages, delta))
           /\ Ended(<<"grow", m, delta>>, Pages(pages))
        \/ /\ delta # 0
           /\ Ended(<<"grow", m, delta>>, Pages(-1))
           /\ UNCHANGED <<memory, heap>>
  BY DEF Grow, m
<1> DEFINE q == <<"grow", m, delta>>
           new == (pages + delta) * PageCells
<1>8. ASSUME NEW g, Ended(q, g), Linear!Ends(q, g) => Linear!Grow(m, delta)
      PROVE  Linear!Instruction
  <2>1. Linear!Ends(q, g) /\ eventOf' # Linear!Quiet /\ eventOf'.asked = q
    BY <1>8, Answered, Zenon
  <2>2. QED
    BY <1>8, <2>1 DEF Linear!Instruction
<1> HIDE DEF q
<1>9. ASSUME UNCHANGED <<memory, heap>>
      PROVE  UNCHANGED <<objectOf, sizeOf, cellsOf>>
  BY <1>2, <1>9, SameView DEF Data
<1>10. CASE delta # 0 /\ Ended(q, Pages(-1)) /\ UNCHANGED <<memory, heap>>
  <2>1. Linear!Ends(q, Pages(-1)) => Linear!Grow(m, delta)
    BY <1>2, <1>9, <1>10 DEF Linear!Grow, Linear!Untouched, Linear!Pages, Pages, q
  <2>2. QED
    BY <1>8, <1>10, <2>1
<1>11. CASE delta = 0 /\ Ended(q, Pages(pages)) /\ UNCHANGED <<memory, heap>>
  <2>1. UNCHANGED <<objectOf, sizeOf, cellsOf>>
    BY <1>9, <1>11
  <2>2. new = y.size
    BY <1>5, <1>11
  <2>3. sizeOf = [sizeOf EXCEPT ![o] = new]
    <3>1. sizeOf = [x \in Objects |-> sizeOf[x]]
      BY DEF sizeOf, Objects
    <3>2. QED
      BY <1>6, <2>2, <3>1
  <2>4. cellsOf = [cellsOf EXCEPT ![o] = Linear!Extended(@, pages * PageCells, new)]
    <3>1. cellsOf = [x \in Objects |-> cellsOf[x]]
      BY DEF cellsOf, Objects
    <3>2. Linear!Extended(cellsOf[o], pages * PageCells, new) = cellsOf[o]
      <4> DEFINE c == cellsOf[o]
      <4> HIDE DEF c, pages, y
      <4>1. c \in [0 .. y.size - 1 -> Cell]
        BY <1>6 DEF Cells, c
      <4>2. Linear!Extended(c, y.size, y.size) = c
        BY <1>4, <4>1 DEF Linear!Extended
      <4>3. QED
        BY <1>5, <2>2, <4>2 DEF c
    <3>3. QED
      BY <1>6, <3>1, <3>2
  <2>5. Linear!Ends(q, Pages(pages)) => Linear!Grow(m, delta)
    <3>1. pages = sizeOf[o] \div PageCells
      BY <1>6
    <3> HIDE DEF pages
    <3>2. QED
      BY <1>2, <1>11, <2>1, <2>3, <2>4, <3>1 DEF Linear!Grow, Linear!Pages, Pages, q
  <2>6. QED
    BY <1>8, <1>11, <2>5
<1>12. CASE /\ delta # 0 /\ Growable(m, pages, Plus(pages, delta)) /\ Free(heap) # {}
            /\ GrowTo(m, Plus(pages, delta)) /\ Ended(q, Pages(pages))
  <2> DEFINE b == Fresh(heap)
             bytes == IF y.data = NULL THEN Blank(new) ELSE Extended(heap[y.data], y.size, new)
  <2>1. Plus(pages, delta) = pages + delta
    <3>1. Plus(pages, delta) >= pages /\ y.size <= Top
      BY <1>1, <1>3, <1>12, View DEF Growable
    <3>2. pages \in 0 .. Top
      BY <1>4, <1>5, <3>1, PageAssumption, TopAssumption
    <3> HIDE DEF pages
    <3>3. CASE pages + delta <= Top
      BY <3>2, <3>3, TopAssumption DEF Plus
    <3>4. CASE pages + delta > Top
      <4>1. pages + delta = 1 * (Top + 1) + (pages + delta - Top - 1)
            /\ pages + delta - Top - 1 \in 0 .. Top
        BY <3>2, <3>4, TopAssumption
      <4>2. Plus(pages, delta) = pages + delta - Top - 1
        BY <4>1, TopAssumption DEF Plus
      <4>3. QED
        BY <3>1, <3>2, <4>2, TopAssumption
    <3>5. QED
      BY <3>2, <3>3, <3>4, TopAssumption
  <2>2. Replaceable(m) /\ pages + delta <= MaxPages[m]
    BY <1>12, <2>1 DEF Growable, Replaceable
  <2>3. b \in Free(heap) /\ b # NULL
    BY <1>12, NullAssumption DEF Fresh, Free
  <2>4. /\ heap' = [Released(heap, {y.data}) EXCEPT ![b] = bytes]
        /\ memory' = [memory EXCEPT ![m].data = b, ![m].size = new]
    BY <1>12, <2>1 DEF GrowTo
  <2>5. /\ memory'[m].data = b /\ memory'[m].size = new
        /\ \A n \in Memories \ {m} : memory'[n] = memory[n]
    <3>1. memory' = [memory EXCEPT ![m] = [[y EXCEPT !.data = b] EXCEPT !.size = new]]
          /\ memory = [n \in Memories |-> memory[n]]
      BY <1>1, <1>3, <2>4 DEF StateInv
    <3> HIDE DEF y, b, new
    <3>2. /\ [[y EXCEPT !.data = b] EXCEPT !.size = new].data = b
          /\ [[y EXCEPT !.data = b] EXCEPT !.size = new].size = new
      BY <1>4
    <3>3. QED
      BY <1>3, <3>1, <3>2
  <2>6. heap' = [c \in Buffers \cup HostBuffers |->
                  IF c = memory'[m].data THEN bytes ELSE IF c = y.data THEN Freed ELSE heap[c]]
    <3>1. Released(heap, {y.data}) = [c \in Buffers \cup HostBuffers |->
                                       IF c = y.data THEN Freed ELSE heap[c]]
      BY <1>1 DEF StateInv, Released
    <3>2. memory'[m].data = b /\ b \in Buffers
      BY <2>3, <2>5 DEF Free
    <3> HIDE DEF y, b, bytes
    <3>3. QED
      BY <2>4, <3>1, <3>2
  <2>7. new # 0 /\ new \in Nat
    BY <1>5, <1>12, PageAssumption
  <2>8. /\ o = m /\ objectOf' = objectOf
        /\ sizeOf' = [sizeOf EXCEPT ![m] = new]
        /\ cellsOf' = [cellsOf EXCEPT ![m] = bytes]
    <3>1. /\ memory'[m].data \in Free(heap) \cup {NULL}
          /\ \A n \in Memories \ {m} : memory'[n] = memory[n] /\ file'[n] = file[n]
      BY <1>2, <2>3, <2>5
    <3>2. attached' = attached
      BY <1>2
    <3> HIDE DEF new, b, bytes, y, o
    <3>3. /\ objectOf[m] = m /\ objectOf' = objectOf
          /\ sizeOf' = [sizeOf EXCEPT ![m] = memory'[m].size]
          /\ cellsOf' = [cellsOf EXCEPT ![m] =
                           IF memory'[m].size = 0 THEN Blank(0)
                           ELSE IF memory'[m].data # NULL THEN bytes
                           ELSE IF file'[m] # NoFile THEN file'[m].cells ELSE Blank(0)]
      BY <1>1, <1>3, <2>2, <2>6, <3>1, <3>2, ReplacedView DEF y
    <3>4. memory'[m].size = new /\ memory'[m].size # 0 /\ memory'[m].data # NULL
      BY <2>3, <2>5, <2>7
    <3>5. QED
      BY <3>3, <3>4 DEF o
  <2>9. bytes = Linear!Extended(cellsOf[o], pages * PageCells, new)
    <3>1. CASE y.data # NULL
      BY <1>5, <1>6, <3>1 DEF Extended, Linear!Extended
    <3>2. CASE y.data = NULL
      <4>1. y.size = 0 /\ pages * PageCells = 0
        BY <1>3, <1>5, <3>2
      <4> HIDE DEF pages, new, o
      <4>2. Linear!Extended(cellsOf[o], 0, new) = Blank(new)
        BY DEF Linear!Extended, Blank
      <4>3. QED
        BY <3>2, <4>1, <4>2
    <3>3. QED
      BY <3>1, <3>2
  <2>10. Linear!Ends(q, Pages(pages)) => Linear!Grow(m, delta)
    <3>1. pages = sizeOf[o] \div PageCells
      BY <1>6
    <3> HIDE DEF pages, bytes
    <3>2. QED
      BY <1>2, <2>2, <2>8, <2>9, <3>1 DEF Linear!Grow, Linear!Pages, Pages, q
  <2>11. QED
    BY <1>8, <1>12, <2>10
<1>13. QED
  BY <1>7, <1>10, <1>11, <1>12 DEF q

-----------------------------------------------------------------------------
(* The embedder.                                                           *)

(* Spilling and saving keep a copy, restoring brings it back, and binding  *)
(* an import puts another object behind it.                                *)
LEMMA EmbedderMaps ==
  ASSUME IInv,
         \/ \E m \in Memories : SpillMemory(m) \/ SerializeMemory(m) \/ DeserializeMemory(m)
         \/ \E name \in Names, b \in HostMemories : BindImportedMemory(name, b)
  PROVE  Linear!Paging \/ Linear!Embedder
<1>1. StateInv /\ OpInv
  BY DEF IInv
<1>2. op' = op /\ op.kind # "ended" /\ UNCHANGED <<attached, dropped>>
  <2>1. op' = op /\ (op = Idle \/ Hooking) /\ UNCHANGED <<attached, dropped>>
    BY DEF SpillMemory, SerializeMemory, DeserializeMemory, BindImportedMemory, Embedder
  <2>2. op.kind # "ended"
    BY <2>1 DEF Hooking, Waiting, Idle
  <2>3. QED
    BY <2>1, <2>2
<1>3. eventOf' = Linear!Quiet
  BY <1>2 DEF eventOf, Idle, Linear!Quiet
<1>4. Linear!Untouched => Linear!Paging
  BY <1>3 DEF Linear!Paging
<1>5. ASSUME NEW m \in Memories, attached, NEW c, c = Copied(m),
             memory[m].data # NULL \/ memory[m].size = 0
      PROVE  /\ c = [size |-> sizeOf[objectOf[m]], cells |-> cellsOf[objectOf[m]]]
             /\ c # NoFile /\ c.cells = cellsOf[objectOf[m]]
  <2>1. /\ memory[m].size \in 0 .. Top /\ sizeOf[objectOf[m]] = memory[m].size
        /\ memory[m].data # NULL => cellsOf[objectOf[m]] = Data(m)
        /\ memory[m].size = 0 => cellsOf[objectOf[m]] = Blank(0)
    BY <1>1, <1>5, View
  <2>2. c = [size |-> sizeOf[objectOf[m]], cells |-> cellsOf[objectOf[m]]]
    BY <1>5, <2>1 DEF Copied
  <2>3. c.size \in Nat /\ c.cells = cellsOf[objectOf[m]] /\ NoFile.size = -1
    BY <2>1, <2>2 DEF NoFile
  <2>4. c # NoFile
    BY <2>3
  <2>5. QED
    BY <2>2, <2>3, <2>4
<1>6. ASSUME NEW m \in Memories, SpillMemory(m)
      PROVE  Linear!Paging \/ Linear!Embedder
  <2> DEFINE y == memory[m]
             no == FALSE
             yes == TRUE
  <2>1. attached /\ y.owns
    BY <1>6 DEF SpillMemory, Embedder
  <2>2. /\ y = [data |-> y.data, size |-> y.size, owns |-> y.owns, spilled |-> y.spilled]
        /\ Replaceable(m)
        /\ memory = [n \in Memories |-> memory[n]]
    BY <1>1, <2>1, MemoryFacts DEF StateInv, Replaceable
  <2>3. ASSUME NEW s, memory' = [memory EXCEPT ![m] = [y EXCEPT !.spilled = s]],
               UNCHANGED <<heap, file>>
        PROVE  Linear!Paging
    <3> HIDE DEF y
    <3>1. [y EXCEPT !.spilled = s].data = y.data /\ [y EXCEPT !.spilled = s].size = y.size
      BY <2>2
    <3> DEFINE x == [y EXCEPT !.spilled = s]
    <3> HIDE DEF x
    <3>2. memory'[m] = x /\ \A n \in Memories \ {m} : memory'[n] = memory[n]
      BY <2>2, <2>3 DEF x
    <3>3. \A n \in Memories : memory'[n].data = memory[n].data /\ memory'[n].size = memory[n].size
      BY <3>1, <3>2 DEF x, y
    <3>4. UNCHANGED <<objectOf, sizeOf, cellsOf>>
      BY <1>2, <2>3, <3>3, SameView DEF Data
    <3>5. QED
      BY <1>2, <1>4, <2>3, <3>4 DEF Linear!Untouched
  <2>4. CASE y.size = 0 /\ Loaded(m) /\ UNCHANGED <<heap, file>>
    BY <2>3, <2>4 DEF Loaded
  <2>5. CASE /\ memory' = [memory EXCEPT ![m].spilled = TRUE] /\ UNCHANGED <<heap, file>>
    BY <2>3, <2>5
  <2>6. CASE /\ y.size # 0 /\ y.data # NULL
             /\ file' = [file EXCEPT ![m] = NoFile]
             /\ UNCHANGED <<memory, heap>>
    <3>1. \A n \in Memories : memory[n].data = NULL => file'[n] = file[n]
      BY <1>1, <2>6 DEF StateInv
    <3>2. UNCHANGED <<objectOf, sizeOf, cellsOf>>
      BY <1>2, <2>6, <3>1, SameView DEF Data
    <3>3. Linear!Lose(m)
      BY <1>2, <2>6, <3>2 DEF Linear!Lose, Linear!Nothing, NoFile
    <3>4. QED
      BY <1>3, <3>3 DEF Linear!Embedder
  <2>7. CASE /\ y.size # 0 /\ y.data # NULL
             /\ file' = [file EXCEPT ![m] = Copied(m)]
             /\ heap' = Released(heap, {y.data})
             /\ memory' = [memory EXCEPT ![m].data = NULL, ![m].spilled = TRUE]
    <3> DEFINE c == Copied(m)
    <3>1. /\ c = [size |-> sizeOf[objectOf[m]], cells |-> cellsOf[objectOf[m]]]
          /\ c # NoFile /\ c.cells = cellsOf[objectOf[m]]
      BY <1>5, <2>1, <2>7
    <3> HIDE DEF c
    <3>2. file' = [file EXCEPT ![m] = c] /\ file = [n \in Memories |-> file[n]]
      BY <1>1, <2>7 DEF StateInv, c
    <3>3. file'[m] = c /\ \A n \in Memories \ {m} : file'[n] = file[n]
      BY <3>2
    <3>4. /\ memory'[m].data = NULL /\ memory'[m].size = y.size
          /\ \A n \in Memories \ {m} : memory'[n] = memory[n]
      <4>1. memory' = [memory EXCEPT ![m] = [[y EXCEPT !.data = NULL] EXCEPT !.spilled = yes]]
        BY <2>2, <2>7
      <4> HIDE DEF y, yes
      <4>2. /\ [[y EXCEPT !.data = NULL] EXCEPT !.spilled = yes].data = NULL
            /\ [[y EXCEPT !.data = NULL] EXCEPT !.spilled = yes].size = y.size
        BY <2>2
      <4>3. QED
        BY <2>2, <4>1, <4>2
    <3>5. heap' = [b \in Buffers \cup HostBuffers |->
                    IF b = memory'[m].data THEN Freed ELSE IF b = y.data THEN Freed ELSE heap[b]]
      BY <1>1, <2>7, <3>4, NullAssumption DEF Released, StateInv
    <3> HIDE DEF y
    <3>6. /\ memory'[m].data \in Free(heap) \cup {NULL} /\ attached' = attached
          /\ \A n \in Memories \ {m} : memory'[n] = memory[n] /\ file'[n] = file[n]
      BY <1>2, <3>3, <3>4
    <3>7. /\ objectOf[m] = m /\ objectOf' = objectOf
          /\ sizeOf' = [sizeOf EXCEPT ![m] = memory'[m].size]
          /\ cellsOf' = [cellsOf EXCEPT ![m] =
                           IF memory'[m].size = 0 THEN Blank(0)
                           ELSE IF memory'[m].data # NULL THEN Freed
                           ELSE IF file'[m] # NoFile THEN file'[m].cells ELSE Blank(0)]
      BY <1>1, <2>1, <2>2, <3>5, <3>6, ReplacedView DEF y
    <3>8. sizeOf' = [sizeOf EXCEPT ![m] = y.size] /\ cellsOf' = [cellsOf EXCEPT ![m] = c.cells]
      BY <2>7, <3>1, <3>3, <3>4, <3>7 DEF y
    <3>9. sizeOf[m] = y.size /\ cellsOf[m] = c.cells
      BY <1>1, <3>1, <3>7, View DEF y
    <3>10. sizeOf = [x \in Objects |-> sizeOf[x]] /\ cellsOf = [x \in Objects |-> cellsOf[x]]
      BY DEF sizeOf, cellsOf, Objects
    <3>11. UNCHANGED <<objectOf, sizeOf, cellsOf>>
      <4> DEFINE k == y.size
                 z == c.cells
      <4>1. sizeOf' = [sizeOf EXCEPT ![m] = k] /\ sizeOf[m] = k
        BY <3>8, <3>9
      <4>2. cellsOf' = [cellsOf EXCEPT ![m] = z] /\ cellsOf[m] = z
        BY <3>8, <3>9
      <4> HIDE DEF k, z
      <4>3. sizeOf' = sizeOf
        BY <3>10, <4>1
      <4>4. cellsOf' = cellsOf
        BY <3>10, <4>2
      <4>5. QED
        BY <3>7, <4>3, <4>4
    <3>12. Linear!Save(m)
      BY <1>2, <3>1, <3>2, <3>11 DEF Linear!Save
    <3>13. QED
      BY <1>3, <3>12 DEF Linear!Embedder
  <2>8. QED
    BY <1>6, <2>4, <2>5, <2>6, <2>7 DEF SpillMemory
<1>7. ASSUME NEW m \in Memories, SerializeMemory(m)
      PROVE  Linear!Embedder
  <2> DEFINE c == Copied(m)
  <2>1. /\ attached /\ (memory[m].data # NULL \/ memory[m].size = 0)
        /\ file' = [file EXCEPT ![m] = c]
        /\ UNCHANGED <<memory, heap>>
    BY <1>7 DEF SerializeMemory, Embedder
  <2>2. c = [size |-> sizeOf[objectOf[m]], cells |-> cellsOf[objectOf[m]]]
    BY <1>5, <2>1
  <2> HIDE DEF c
  <2>3. \A n \in Memories : memory[n].data = NULL /\ memory[n].size # 0 => file'[n] = file[n]
    BY <1>1, <2>1 DEF StateInv
  <2>4. UNCHANGED <<objectOf, sizeOf, cellsOf>>
    BY <1>2, <2>1, <2>3, SameView DEF Data
  <2>5. Linear!Save(m)
    BY <1>2, <2>1, <2>2, <2>4 DEF Linear!Save
  <2>6. QED
    BY <1>3, <2>5 DEF Linear!Embedder
<1>8. ASSUME NEW m \in Memories, DeserializeMemory(m)
      PROVE  Linear!Embedder
  <2> DEFINE y == file[m]
             b == IF y.size = 0 THEN NULL ELSE Fresh(heap)
             x == [data |-> b, size |-> y.size, owns |-> TRUE, spilled |-> FALSE]
  <2>1. /\ attached /\ y # NoFile
        /\ Replaceable(m)
        /\ y.size # 0 => Free(heap) # {}
        /\ heap' = [c \in DOMAIN heap |-> IF c = b THEN y.cells
                                          ELSE IF c = memory[m].data THEN Freed ELSE heap[c]]
        /\ memory' = [memory EXCEPT ![m] = x]
        /\ UNCHANGED file
    BY <1>8 DEF DeserializeMemory, Embedder
  <2>2. y.cells \in Cells(y.size)
    BY <1>1, <2>1 DEF StateInv, CopyOf
  <2>3. b \in Free(heap) \cup {NULL} /\ (b = NULL <=> y.size = 0)
    BY <2>1, NullAssumption DEF Fresh, Free
  <2>4. x.data = b /\ x.size = y.size
    OBVIOUS
  <2> HIDE DEF x, b
  <2>5. memory'[m] = x /\ \A n \in Memories \ {m} : memory'[n] = memory[n]
    BY <1>1, <2>1 DEF StateInv
  <2>6. heap' = [c \in Buffers \cup HostBuffers |->
                  IF c = memory'[m].data THEN y.cells
                  ELSE IF c = memory[m].data THEN Freed ELSE heap[c]]
    BY <1>1, <2>1, <2>4, <2>5 DEF StateInv
  <2>7. /\ memory'[m].data \in Free(heap) \cup {NULL} /\ attached' = attached
        /\ \A n \in Memories \ {m} : memory'[n] = memory[n] /\ file'[n] = file[n]
    BY <1>2, <2>1, <2>3, <2>4, <2>5
  <2> HIDE DEF y
  <2>8. /\ objectOf[m] = m /\ objectOf' = objectOf
        /\ sizeOf' = [sizeOf EXCEPT ![m] = memory'[m].size]
        /\ cellsOf' = [cellsOf EXCEPT ![m] =
                         IF memory'[m].size = 0 THEN Blank(0)
                         ELSE IF memory'[m].data # NULL THEN y.cells
                         ELSE IF file'[m] # NoFile THEN file'[m].cells ELSE Blank(0)]
    BY <1>1, <2>1, <2>2, <2>6, <2>7, ReplacedView
  <2>9. y.size = 0 => y.cells = Blank(0)
    BY <2>2 DEF Cells, Blank
  <2>10. sizeOf' = [sizeOf EXCEPT ![m] = y.size] /\ cellsOf' = [cellsOf EXCEPT ![m] = y.cells]
    BY <2>3, <2>4, <2>5, <2>8, <2>9
  <2>11. Linear!Restore(m)
    BY <1>2, <2>1, <2>8, <2>10 DEF Linear!Restore, Linear!Nothing, NoFile, y
  <2>12. QED
    BY <1>3, <2>11 DEF Linear!Embedder
<1>9. ASSUME NEW name \in Names, NEW b \in HostMemories, BindImportedMemory(name, b)
      PROVE  Linear!Embedder
  <2> DEFINE asking == {m \in Imported : attached /\ NameOf[m] = name}
  <2>1. /\ memory' = [m \in Memories |-> IF m \in asking THEN OfHost(b) ELSE memory[m]]
        /\ UNCHANGED <<heap, file>>
    BY <1>9 DEF BindImportedMemory
  <2>2. /\ asking \subseteq Imported /\ asking \subseteq Memories
        /\ \A m \in Memories : m \notin HostBuffers
    BY ImportAssumption, ObjectAssumption
  <2> HIDE DEF asking
  <2>3. ASSUME NEW m \in Memories, m \notin asking
        PROVE  memory'[m] = memory[m] /\ objectOf'[m] = objectOf[m] /\ objectOf'[m] \in Objects
    <3>1. memory'[m] = memory[m]
      BY <2>1, <2>3
    <3>2. QED
      BY <3>1 DEF objectOf, Objects
  <2>4. ASSUME NEW m \in asking
        PROVE  /\ memory'[m] = OfHost(b) /\ objectOf'[m] = IF b = NULL THEN m ELSE b
               /\ objectOf'[m] \in {m} \cup HostBuffers /\ objectOf'[m] \in Objects
               /\ objectOf'[m] # m \/ memory'[m].size = 0
    <3>1. m \in Memories /\ memory'[m] = OfHost(b)
      BY <2>1, <2>2
    <3>2. memory'[m].data = b /\ memory'[m].size = HostBytes(b)
      BY <3>1, HostOwned
    <3>3. objectOf'[m] = IF b = NULL THEN m ELSE b
      BY <3>1, <3>2, NullAssumption DEF objectOf, HostMemories
    <3>4. b = NULL => HostBytes(b) = 0
      BY HostSizes
    <3>5. b # NULL => b \in HostBuffers
      BY DEF HostMemories
    <3>6. objectOf'[m] # m \/ memory'[m].size = 0
      BY <2>2, <3>1, <3>2, <3>3, <3>4, <3>5
    <3>7. QED
      BY <3>1, <3>3, <3>5, <3>6 DEF Objects
  <2>5. ASSUME NEW x \in Objects
        PROVE  /\ sizeOf'[x] = IF x \in asking THEN 0 ELSE sizeOf[x]
               /\ cellsOf'[x] = IF x \in asking THEN Blank(0) ELSE cellsOf[x]
    <3>1. CASE x \in HostBuffers
      <4>1. x \notin asking
        BY <2>2, <3>1
      <4>2. QED
        BY <2>1, <3>1, <4>1 DEF sizeOf, cellsOf
    <3>2. CASE x \in asking
      <4>1. x \in Memories /\ x \notin HostBuffers /\ (objectOf'[x] # x \/ memory'[x].size = 0)
        BY <2>2, <2>4, <3>2
      <4>2. QED
        BY <3>2, <4>1 DEF sizeOf, cellsOf
    <3>3. CASE x \notin HostBuffers /\ x \notin asking
      <4>1. x \in Memories /\ memory'[x] = memory[x] /\ objectOf'[x] = objectOf[x]
        BY <2>3, <3>3 DEF Objects
      <4>2. QED
        BY <2>1, <3>3, <4>1 DEF sizeOf, cellsOf, Data
    <3>4. QED
      BY <3>1, <3>2, <3>3
  <2>6. /\ sizeOf' = [x \in Objects |-> IF x \in asking THEN 0 ELSE sizeOf[x]]
        /\ cellsOf' = [x \in Objects |-> IF x \in asking THEN Blank(0) ELSE cellsOf[x]]
    <3>1. sizeOf' = [x \in Objects |-> sizeOf'[x]] /\ cellsOf' = [x \in Objects |-> cellsOf'[x]]
      BY DEF sizeOf, cellsOf, Objects
    <3>2. QED
      BY <2>5, <3>1
  <2>7. objectOf' \in [Memories -> Objects]
    <3>1. objectOf' = [m \in Memories |-> objectOf'[m]]
      BY DEF objectOf
    <3>2. \A m \in Memories : objectOf'[m] \in Objects
      BY <2>3, <2>4
    <3>3. QED
      BY <3>1, <3>2
  <2>8. /\ \A m \in Memories : objectOf'[m] # objectOf[m] => m \in asking
        /\ \A m \in asking : objectOf'[m] \notin Memories \ {m}
    BY <2>2, <2>3, <2>4
  <2>9. asking \in SUBSET Imported /\ Linear!Blank(0) = Blank(0)
    BY <2>2 DEF Linear!Blank, Blank
  <2>10. Linear!Rebind
    BY <1>2, <2>1, <2>6, <2>7, <2>8, <2>9 DEF Linear!Rebind, Objects
  <2>11. QED
    BY <1>3, <2>10 DEF Linear!Embedder
<1>10. QED
  BY <1>6, <1>7, <1>8, <1>9

-----------------------------------------------------------------------------
(* Attaching and detaching.                                                *)

(* What the objects of a new instance hold after each of its segments,     *)
(* when the first k are written.                                           *)
Fills(w, o, s, k) ==
  /\ w = [i \in 0 .. Len(Segments) |->
           IF i = 0 THEN [x \in Objects |-> IF x \in HostBuffers THEN cellsOf[x]
                                            ELSE Blank(s[x])]
           ELSE IF Segments[i].passive \/ i > k THEN w[i-1]
           ELSE [w[i-1] EXCEPT ![o[Segments[i].memory]] =
                   Overlay(@, Segments[i].offset, Segments[i].bytes, Segments[i].size)]]
  /\ Linear!Started(o, s, k) = w[Len(Segments)]

(* Linear memory starts an instance one segment after the other.           *)
LEMMA StartedCells ==
  ASSUME NEW STATE o, NEW STATE s, NEW k
  PROVE  \E w : Fills(w, o, s, k)
<1> DEFINE n == Len(Segments)
           start == [x \in Objects |-> IF x \in Objects \ Memories THEN cellsOf[x]
                                       ELSE Linear!Blank(s[x])]
           next(h, i) == IF Segments[i].passive \/ i > k THEN h
                         ELSE [h EXCEPT ![o[Segments[i].memory]] =
                                 Linear!Overlay(@, Segments[i].offset, Segments[i].bytes,
                                                Segments[i].size)]
           P(a) == a = [i \in 0 .. n |-> IF i = 0 THEN start ELSE next(a[i-1], i)]
<1>1. n \in Nat
  BY SegmentAssumption
<1>2. Linear!Started(o, s, k) = (CHOOSE a : P(a))[n]
  BY DEF Linear!Started, Objects
<1>3. start = [x \in Objects |-> IF x \in HostBuffers THEN cellsOf[x] ELSE Blank(s[x])]
  BY ObjectAssumption DEF Objects, Linear!Blank, Blank
<1>4. \A h, i : next(h, i) = IF Segments[i].passive \/ i > k THEN h
                             ELSE [h EXCEPT ![o[Segments[i].memory]] =
                                     Overlay(@, Segments[i].offset, Segments[i].bytes,
                                             Segments[i].size)]
  BY DEF Linear!Overlay, Overlay
<1> HIDE DEF start, next, n
<1>5. \E a : P(a)
  <2> DEFINE Is(a, j) == a = [i \in 0 .. j |-> IF i = 0 THEN start ELSE next(a[i-1], i)]
             S == {j \in Nat : \E a : Is(a, j)}
  <2>1. 0 \in S
    <3> DEFINE a == [i \in 0 .. 0 |-> start]
    <3>1. Is(a, 0)
      OBVIOUS
    <3>2. QED
      BY <3>1
  <2>2. ASSUME NEW j \in Nat, j \in S PROVE j + 1 \in S
    <3>1. PICK a : Is(a, j)
      BY <2>2
    <3> DEFINE b == [i \in 0 .. j + 1 |-> IF i = j + 1 THEN next(a[j], j + 1) ELSE a[i]]
    <3>2. ASSUME NEW i \in 0 .. j + 1
          PROVE  b[i] = IF i = 0 THEN start ELSE next(b[i-1], i)
      <4>1. CASE i = j + 1
        BY <4>1
      <4>2. CASE i # j + 1
        <5>1. i \in 0 .. j /\ b[i] = a[i] /\ (i # 0 => b[i-1] = a[i-1])
          BY <4>2
        <5>2. a[i] = IF i = 0 THEN start ELSE next(a[i-1], i)
          BY <3>1, <5>1
        <5>3. QED
          BY <5>1, <5>2
      <4>3. QED
        BY <4>1, <4>2
    <3>3. Is(b, j + 1)
      BY <3>2
    <3> HIDE DEF b, Is
    <3>4. \E c : Is(c, j + 1)
      BY <3>3
    <3>5. QED
      BY <3>4
  <2>3. n \in S
    BY <1>1, <2>1, <2>2, SetInduction
  <2>4. QED
    BY <2>3
<1>6. PICK w : P(w) /\ Linear!Started(o, s, k) = w[n]
  BY <1>2, <1>5
<1>7. w = [i \in 0 .. n |->
            IF i = 0 THEN [x \in Objects |-> IF x \in HostBuffers THEN cellsOf[x] ELSE Blank(s[x])]
            ELSE IF Segments[i].passive \/ i > k THEN w[i-1]
            ELSE [w[i-1] EXCEPT ![o[Segments[i].memory]] =
                    Overlay(@, Segments[i].offset, Segments[i].bytes, Segments[i].size)]]
  BY <1>3, <1>4, <1>6
<1>8. Fills(w, o, s, k)
  BY <1>6, <1>7 DEF n, Fills
<1>9. QED
  BY <1>8

(* The objects of the instance that is being attached.                     *)
Given(f) ==
  [m \in Memories |-> IF Initial(f)[m].data \in HostBuffers THEN Initial(f)[m].data ELSE m]

LEMMA GivenFacts ==
  ASSUME StateInv, NEW f \in Placements
  PROVE  /\ \A m \in Imported :
              /\ Initial(f)[m].data \in HostMemories
              /\ Initial(f)[m].data \in HostBuffers <=> Initial(f)[m].data # NULL
              /\ Initial(f)[m].size = HostBytes(Initial(f)[m].data)
              /\ Given(f)[m] = IF Initial(f)[m].data = NULL THEN m ELSE Initial(f)[m].data
              /\ Initial(f)[m].data = NULL => MinPages[m] * PageCells = 0
         /\ \A m \in Memories \ Imported :
              /\ Initial(f)[m].data = IF m \in DOMAIN f THEN f[m] ELSE NULL
              /\ Initial(f)[m].size = MinPages[m] * PageCells
              /\ Given(f)[m] = m
         /\ Given(f) \in [Memories -> Objects]
<1> DEFINE given == Initial(f)
<1>1. /\ \A m \in Imported : bindings[NameOf[m]] \in HostMemories
      /\ \A m \in Imported : Fits(m, bindings[NameOf[m]])
  BY PlacementFacts, Zenon
<1>2. \A m \in Imported : given[m].data = bindings[NameOf[m]]
  BY PlacementFacts, Zenon
<1>3. \A m \in Imported : given[m].size = HostBytes(bindings[NameOf[m]])
  BY PlacementFacts, Zenon
<1>4. \A m \in Memories \ Imported :
        /\ given[m].data = IF m \in DOMAIN f THEN f[m] ELSE NULL
        /\ given[m].size = MinPages[m] * PageCells
  BY PlacementFacts, Zenon
<1>5. \A m \in DOMAIN f : f[m] \in Buffers
  BY PlacementFacts, Zenon
<1>6. \A m \in Memories : Given(f)[m] = IF given[m].data \in HostBuffers THEN given[m].data ELSE m
  BY DEF Given
<1>7. Given(f) \in [Memories -> Objects]
  BY DEF Given, Objects
<1> HIDE DEF given
<1>8. ASSUME NEW m \in Imported
      PROVE  /\ given[m].data \in HostMemories
             /\ given[m].data \in HostBuffers <=> given[m].data # NULL
             /\ given[m].size = HostBytes(given[m].data)
             /\ Given(f)[m] = IF given[m].data = NULL THEN m ELSE given[m].data
             /\ given[m].data = NULL => MinPages[m] * PageCells = 0
  <2>1. m \in Memories
    BY ImportAssumption
  <2>2. /\ given[m].data \in HostMemories /\ given[m].size = HostBytes(given[m].data)
        /\ given[m].data \in HostBuffers <=> given[m].data # NULL
    BY <1>1, <1>2, <1>3, NullAssumption DEF HostMemories
  <2>3. ASSUME given[m].data = NULL PROVE MinPages[m] * PageCells = 0
    <3>1. HostBytes(NULL) = 0 /\ HostBytes(NULL) >= MinPages[m] * PageCells
      BY <1>1, <1>2, <2>3, HostSizes DEF Fits
    <3>2. MinPages[m] * PageCells \in Nat
      BY <2>1, LimitAssumption, PageAssumption
    <3>3. QED
      BY <3>1, <3>2
  <2>4. QED
    BY <1>6, <2>1, <2>2, <2>3
<1>9. ASSUME NEW m \in Memories \ Imported PROVE Given(f)[m] = m
  BY <1>4, <1>5, <1>6, NullAssumption, BufferAssumption
<1>10. QED
  BY <1>4, <1>7, <1>8, <1>9 DEF given

(* The buffers of a new instance hold what linear memory has in its        *)
(* objects, whether all segments fit or only the first k do.               *)
LEMMA AttachedView ==
  ASSUME StateInv, NEW f \in Placements, NEW k \in 0 .. Len(Segments),
         \A g \in 1 .. Len(Segments) : g > k <=> \E i \in 1 .. g : ~ SegmentFits(f, i)
  PROVE  Linear!Started(Given(f), Linear!InitialSize(Given(f)), k)
           = [x \in Objects |-> IF x \in HostBuffers THEN Written(f)[x]
                                ELSE IF x \in DOMAIN f THEN Written(f)[f[x]] ELSE Blank(0)]
<1> DEFINE n == Len(Segments)
           given == Initial(f)
           o == Given(f)
           s == Linear!InitialSize(o)
           skipped(g) == Segments[g].passive \/ \E i \in 1 .. g : ~ SegmentFits(f, i)
           seen(h) == [x \in Objects |-> IF x \in HostBuffers THEN h[x]
                                         ELSE IF x \in DOMAIN f THEN h[f[x]] ELSE Blank(0)]
<1>1. /\ DOMAIN f = {m \in Memories \ Imported : MinPages[m] > 0}
      /\ \A m \in DOMAIN f : f[m] \in Buffers
      /\ \A m, j \in DOMAIN f : m # j => f[m] # f[j]
  BY PlacementFacts, Zenon
<1>2. /\ \A m \in Imported :
           /\ given[m].data \in HostBuffers <=> given[m].data # NULL
           /\ o[m] = IF given[m].data = NULL THEN m ELSE given[m].data
           /\ given[m].data = NULL => MinPages[m] * PageCells = 0
      /\ \A m \in Memories \ Imported :
           /\ given[m].data = IF m \in DOMAIN f THEN f[m] ELSE NULL
           /\ o[m] = m
  <2>1. \A m \in Imported :
          /\ given[m].data \in HostMemories
          /\ given[m].data \in HostBuffers <=> given[m].data # NULL
          /\ given[m].size = HostBytes(given[m].data)
          /\ o[m] = IF given[m].data = NULL THEN m ELSE given[m].data
          /\ given[m].data = NULL => MinPages[m] * PageCells = 0
    BY GivenFacts, Zenon
  <2>2. \A m \in Memories \ Imported :
          /\ given[m].data = IF m \in DOMAIN f THEN f[m] ELSE NULL
          /\ given[m].size = MinPages[m] * PageCells
          /\ o[m] = m
    BY GivenFacts, Zenon
  <2> HIDE DEF given, o
  <2>3. QED
    BY <2>1, <2>2
<1>3. n \in Nat
  BY SegmentAssumption
<1> HIDE DEF given
<1>4. PICK a : /\ a = [g \in 0 .. n |-> IF g = 0 THEN Zeroed(f)
                                        ELSE IF skipped(g) THEN a[g-1]
                                        ELSE [a[g-1] EXCEPT ![given[Segments[g].memory].data] =
                                                Overlay(@, Segments[g].offset, Segments[g].bytes,
                                                        Segments[g].size)]]
               /\ \A g \in 0 .. n : Holds(given, a[g])
               /\ Written(f) = a[n]
  BY WrittenFills, Zenon DEF given
<1>5. PICK w : Fills(w, o, s, k)
  <2> HIDE DEF o, s
  <2>1. QED
    BY StartedCells
<1>6. /\ w = [i \in 0 .. n |->
                IF i = 0 THEN [x \in Objects |-> IF x \in HostBuffers THEN cellsOf[x]
                                                 ELSE Blank(s[x])]
                ELSE IF Segments[i].passive \/ i > k THEN w[i-1]
                ELSE [w[i-1] EXCEPT ![o[Segments[i].memory]] =
                        Overlay(@, Segments[i].offset, Segments[i].bytes, Segments[i].size)]]
      /\ Linear!Started(o, s, k) = w[n]
  <2> HIDE DEF o, s
  <2>1. QED
    BY <1>5 DEF Fills
<1>7. w[0] = seen(a[0])
  <2>1. w[0] = [x \in Objects |-> IF x \in HostBuffers THEN cellsOf[x] ELSE Blank(s[x])]
    <3> HIDE DEF s, o
    <3>1. QED
      BY <1>3, <1>6
  <2>2. a[0] = Zeroed(f)
    BY <1>3, <1>4
  <2>3. ASSUME NEW x \in Objects
        PROVE  (IF x \in HostBuffers THEN cellsOf[x] ELSE Blank(s[x]))
                 = IF x \in HostBuffers THEN a[0][x]
                   ELSE IF x \in DOMAIN f THEN a[0][f[x]] ELSE Blank(0)
    <3>1. CASE x \in HostBuffers
      BY <2>2, <3>1, WrittenFills DEF cellsOf
    <3>2. CASE x \notin HostBuffers
      <4>1. x \in Memories /\ s[x] = IF o[x] = x THEN MinPages[x] * PageCells ELSE 0
        BY <3>2 DEF Objects, Linear!InitialSize
      <4> HIDE DEF s
      <4>2. CASE x \in DOMAIN f
        <5>1. o[x] = x /\ Zeroed(f)[f[x]] = Blank(MinPages[x] * PageCells)
          BY <1>1, <1>2, <4>1, <4>2, WrittenFills
        <5>2. QED
          BY <2>2, <3>2, <4>1, <4>2, <5>1
      <4>3. CASE x \notin DOMAIN f
        <5>1. CASE x \in Imported
          <6>1. o[x] # x \/ MinPages[x] * PageCells = 0
            BY <1>2, <3>2, <4>1, <5>1
          <6>2. QED
            BY <3>2, <4>1, <4>3, <6>1
        <5>2. CASE x \notin Imported
          <6>1. MinPages[x] * PageCells = 0
            BY <1>1, <4>1, <4>3, <5>2, LimitAssumption, PageAssumption
          <6>2. QED
            BY <3>2, <4>1, <4>3, <6>1
        <5>3. QED
          BY <5>1, <5>2
      <4>4. QED
        BY <4>2, <4>3
    <3>3. QED
      BY <3>1, <3>2
  <2> HIDE DEF s, o
  <2>4. QED
    BY <2>1, <2>3
<1>8. ASSUME NEW g \in 1 .. n, w[g-1] = seen(a[g-1])
      PROVE  w[g] = seen(a[g])
  <2> DEFINE seg == Segments[g]
             m == seg.memory
             h == a[g-1]
             d == given[m].data
  <2>1. g \in 0 .. n /\ g # 0 /\ g - 1 \in 0 .. n
    BY <1>3
  <2>2. skipped(g) <=> seg.passive \/ g > k
    OBVIOUS
  <2>3. /\ a[g] = IF skipped(g) THEN h
                  ELSE [h EXCEPT ![d] = Overlay(@, seg.offset, seg.bytes, seg.size)]
        /\ w[g] = IF seg.passive \/ g > k THEN w[g-1]
                  ELSE [w[g-1] EXCEPT ![o[m]] = Overlay(@, seg.offset, seg.bytes, seg.size)]
    <3> HIDE DEF skipped, o, s
    <3>1. QED
      BY <1>4, <1>6, <2>1
  <2>4. CASE skipped(g)
    BY <1>8, <2>2, <2>3, <2>4
  <2>5. CASE ~ skipped(g)
    <3>1. m \in Memories /\ d # NULL
      BY <2>5, SegmentAssumption DEF SegmentFits, given
    <3>2. h = [b \in Buffers \cup HostBuffers |-> h[b]]
      BY <1>4, <2>1 DEF Holds
    <3>3. /\ m \in Imported => o[m] = d /\ d \in HostBuffers
          /\ m \notin Imported => o[m] = m /\ m \in DOMAIN f /\ d = f[m]
      BY <1>2, <3>1
    <3> DEFINE over(c) == Overlay(c, seg.offset, seg.bytes, seg.size)
    <3>4. /\ a[g] = [h EXCEPT ![d] = over(h[d])]
          /\ w[g] = [w[g-1] EXCEPT ![o[m]] = over(w[g-1][o[m]])]
      BY <2>2, <2>3, <2>5
    <3> HIDE DEF over, skipped, seg, m, h, d, o, s
    <3>5. o[m] \in Objects /\ d \in Buffers \cup HostBuffers
      BY <1>1, <3>1, <3>3 DEF Objects
    <3>6. /\ \A b \in Buffers \cup HostBuffers : a[g][b] = IF b = d THEN over(h[d]) ELSE h[b]
      BY <3>2, <3>4, <3>5
    <3>7. /\ w[g] = [x \in Objects |-> w[g][x]]
          /\ \A x \in Objects : w[g][x] = IF x = o[m] THEN over(w[g-1][o[m]]) ELSE w[g-1][x]
      BY <1>8, <3>4, <3>5
    <3>8. ASSUME NEW x \in Objects
          PROVE  w[g][x] = IF x \in HostBuffers THEN a[g][x]
                           ELSE IF x \in DOMAIN f THEN a[g][f[x]] ELSE Blank(0)
      <4>1. \A y \in Objects : w[g-1][y] = IF y \in HostBuffers THEN h[y]
                                           ELSE IF y \in DOMAIN f THEN h[f[y]] ELSE Blank(0)
        BY <1>8 DEF h
      <4>2. CASE x \in HostBuffers
        <5>1. x = o[m] <=> x = d
          BY <1>1, <3>1, <3>3, <4>2, BufferAssumption, ObjectAssumption
        <5>2. QED
          BY <3>6, <3>7, <4>1, <4>2, <5>1
      <4>3. CASE x \notin HostBuffers /\ x \in DOMAIN f
        <5>1. x = o[m] <=> f[x] = d
          BY <1>1, <3>1, <3>3, <4>3, BufferAssumption
        <5>2. QED
          BY <1>1, <3>6, <3>7, <4>1, <4>3, <5>1
      <4>4. CASE x \notin HostBuffers /\ x \notin DOMAIN f
        <5>1. x # o[m]
          BY <3>3, <4>4
        <5>2. QED
          BY <3>7, <4>1, <4>4, <5>1
      <4>5. QED
        BY <4>2, <4>3, <4>4
    <3>9. QED
      BY <3>7, <3>8
  <2>6. QED
    BY <2>4, <2>5
<1>9. w[n] = seen(a[n])
  <2> DEFINE S == {j \in Nat : j <= n => w[j] = seen(a[j])}
  <2> HIDE DEF View
  <2>1. 0 \in S
    BY <1>7
  <2>2. ASSUME NEW j \in Nat, j \in S PROVE j + 1 \in S
    <3>1. SUFFICES ASSUME j + 1 <= n PROVE w[j+1] = seen(a[j+1])
      OBVIOUS
    <3>2. j + 1 \in 1 .. n /\ w[(j+1)-1] = seen(a[(j+1)-1])
      BY <1>3, <2>2, <3>1
    <3>3. QED
      BY <1>8, <3>2
  <2>3. n \in S
    BY <1>3, <2>1, <2>2, SetInduction
  <2>4. QED
    BY <1>3, <2>3
<1>10. QED
  BY <1>4, <1>6, <1>9

(* An instance starts, ends or cannot be started as those of linear memory *)
(* do, and the objects of the host keep what its segments wrote to them.   *)
LEMMA AttachMaps ==
  ASSUME IInv, AttachModule \/ DetachModule \/ AttachFails
  PROVE  Linear!Embedder
<1> DEFINE n == Len(Segments)
<1>1. StateInv
  BY DEF IInv
<1>2. op' = Idle /\ file' = file
  BY DEF AttachModule, DetachModule, AttachFails, Reset
<1>3. eventOf' = Linear!Quiet
  BY <1>2 DEF eventOf, Idle, Linear!Quiet
<1>4. n \in Nat
  BY SegmentAssumption
<1>5. ASSUME Placements # {} PROVE Placement \in Placements
  BY <1>5 DEF Placement
<1>6. ASSUME NEW f \in Placements
      PROVE  /\ \A m \in Imported :
                  /\ Initial(f)[m].data \in HostBuffers <=> Initial(f)[m].data # NULL
                  /\ Initial(f)[m].data # NULL => Initial(f)[m].size = HostSize[Initial(f)[m].data]
                  /\ Initial(f)[m].data = NULL =>
                       Initial(f)[m].size = 0 /\ MinPages[m] * PageCells = 0
                  /\ Given(f)[m] = IF Initial(f)[m].data = NULL THEN m ELSE Initial(f)[m].data
             /\ \A m \in Memories \ Imported :
                  /\ Initial(f)[m].data = IF m \in DOMAIN f THEN f[m] ELSE NULL
                  /\ Initial(f)[m].size = MinPages[m] * PageCells
                  /\ m \in DOMAIN f <=> Initial(f)[m].size # 0
                  /\ Given(f)[m] = m
             /\ \A m \in DOMAIN f : m \in Memories \ Imported /\ f[m] \in Buffers
             /\ Given(f) \in [Memories -> Objects]
  <2> DEFINE given == Initial(f)
  <2>1. /\ DOMAIN f = {m \in Memories \ Imported : MinPages[m] > 0}
        /\ \A m \in DOMAIN f : f[m] \in Buffers
    BY <1>1, PlacementFacts, Zenon
  <2>2. \A m \in Imported :
          /\ given[m].data \in HostMemories
          /\ given[m].data \in HostBuffers <=> given[m].data # NULL
          /\ given[m].size = HostBytes(given[m].data)
          /\ Given(f)[m] = IF given[m].data = NULL THEN m ELSE given[m].data
          /\ given[m].data = NULL => MinPages[m] * PageCells = 0
    BY <1>1, GivenFacts, Zenon
  <2>3. /\ \A m \in Memories \ Imported :
             /\ given[m].data = IF m \in DOMAIN f THEN f[m] ELSE NULL
             /\ given[m].size = MinPages[m] * PageCells
             /\ Given(f)[m] = m
        /\ Given(f) \in [Memories -> Objects]
    BY <1>1, GivenFacts, Zenon
  <2> HIDE DEF given
  <2>4. ASSUME NEW m \in Imported
        PROVE  /\ given[m].data # NULL => given[m].size = HostSize[given[m].data]
               /\ given[m].data = NULL => given[m].size = 0
    BY <2>2, HostSizes
  <2>5. ASSUME NEW m \in Memories \ Imported
        PROVE  m \in DOMAIN f <=> given[m].size # 0
    <3>1. MinPages[m] \in Nat /\ PageCells \in Nat \ {0}
      BY LimitAssumption, PageAssumption
    <3>2. MinPages[m] > 0 <=> MinPages[m] * PageCells # 0
      BY <3>1
    <3>3. QED
      BY <2>1, <2>3, <3>2
  <2>6. QED
    BY <2>1, <2>2, <2>3, <2>4, <2>5 DEF given
<1>7. CASE AttachModule
  <2> DEFINE f == Placement
             o == Given(f)
             s == Linear!InitialSize(o)
             mem(g) == Segments[g].memory
  <2>1. /\ f \in Placements /\ memory' = Initial(f) /\ heap' = Written(f) /\ attached'
        /\ dropped' = {g \in DOMAIN Segments : ~ Segments[g].passive}
        /\ \A g \in DOMAIN Segments : SegmentFits(f, g)
    BY <1>5, <1>7 DEF AttachModule
  <2> HIDE DEF f
  <2>2. /\ \A m \in Imported :
             /\ memory'[m].data \in HostBuffers <=> memory'[m].data # NULL
             /\ memory'[m].data # NULL => memory'[m].size = HostSize[memory'[m].data]
             /\ memory'[m].data = NULL => memory'[m].size = 0 /\ MinPages[m] * PageCells = 0
             /\ o[m] = IF memory'[m].data = NULL THEN m ELSE memory'[m].data
        /\ \A m \in Memories \ Imported :
             /\ memory'[m].data = IF m \in DOMAIN f THEN f[m] ELSE NULL
             /\ memory'[m].size = MinPages[m] * PageCells
             /\ m \in DOMAIN f <=> memory'[m].size # 0
             /\ o[m] = m
        /\ \A m \in DOMAIN f : m \in Memories \ Imported /\ f[m] \in Buffers
        /\ Given(f) \in [Memories -> Objects]
    BY <1>6, <2>1
  <2>3. objectOf' = o /\ objectOf' \in [Memories -> Objects]
    BY <2>1, <2>2 DEF objectOf, Given
  <2>4. ASSUME NEW m \in Memories
        PROVE  /\ o[m] = m <=> m \notin Imported \/ memory'[m].data = NULL
               /\ o[m] # m => o[m] = memory'[m].data /\ o[m] \in HostBuffers
               /\ o[m] = m => memory'[m].size = MinPages[m] * PageCells
    <3>1. CASE m \in Imported
      BY <2>2, <3>1, ObjectAssumption
    <3>2. CASE m \notin Imported
      BY <2>2, <3>2
    <3>3. QED
      BY <3>1, <3>2
  <2>5. \A x \in Objects : sizeOf'[x] = IF x \in HostBuffers THEN HostSize[x]
                                        ELSE IF o[x] = x THEN memory'[x].size ELSE 0
    <3> HIDE DEF o
    <3>1. QED
      BY <2>3 DEF sizeOf, Objects
  <2>6. sizeOf' = s
    <3>1. s = [x \in Objects |-> IF x \notin Memories THEN sizeOf[x]
                                 ELSE IF o[x] = x THEN MinPages[x] * PageCells ELSE 0]
      BY DEF Linear!InitialSize, Objects
    <3>2. sizeOf' = [x \in Objects |-> sizeOf'[x]]
      BY DEF sizeOf, Objects
    <3>3. \A x \in HostBuffers : sizeOf[x] = HostSize[x]
      BY DEF sizeOf
    <3> HIDE DEF s, o
    <3>4. ASSUME NEW x \in Objects
          PROVE  sizeOf'[x] = IF x \notin Memories THEN sizeOf[x]
                              ELSE IF o[x] = x THEN MinPages[x] * PageCells ELSE 0
      BY <2>4, <2>5, <3>3, ObjectAssumption DEF Objects
    <3>5. QED
      BY <3>1, <3>2, <3>4
  <2>7. ASSUME NEW g \in DOMAIN Segments, ~ Segments[g].passive
        PROVE  Segments[g].offset + Segments[g].size <= sizeOf'[objectOf'[mem(g)]]
    <3>1. mem(g) \in Memories
      BY SegmentAssumption
    <3>2. Segments[g].offset + Segments[g].size <= memory'[mem(g)].size
      BY <2>1, <2>7 DEF SegmentFits
    <3> HIDE DEF o, mem
    <3>3. sizeOf'[o[mem(g)]] = memory'[mem(g)].size
      <4> DEFINE m == mem(g)
      <4> HIDE DEF m
      <4>1. m \in Memories
        BY <3>1 DEF m
      <4>2. CASE o[m] # m
        <5>1. o[m] = memory'[m].data /\ o[m] \in HostBuffers /\ m \in Imported
              /\ memory'[m].data # NULL
          BY <2>4, <4>1, <4>2, NullAssumption
        <5>2. memory'[m].size = HostSize[memory'[m].data]
          BY <2>2, <5>1
        <5>3. QED
          BY <2>5, <5>1, <5>2 DEF m, Objects
      <4>3. CASE o[m] = m
        BY <2>5, <4>1, <4>3, ObjectAssumption DEF m, Objects
      <4>4. QED
        BY <4>2, <4>3 DEF m
    <3>4. QED
      BY <2>3, <3>2, <3>3 DEF mem
  <2>8. Linear!Started(o, s, n)
          = [x \in Objects |-> IF x \in HostBuffers THEN Written(f)[x]
                               ELSE IF x \in DOMAIN f THEN Written(f)[f[x]] ELSE Blank(0)]
    <3>1. \A g \in 1 .. n : g > n <=> \E i \in 1 .. g : ~ SegmentFits(f, i)
      <4>1. \A g \in 1 .. n : ~ (g > n) /\ \A i \in 1 .. g : i \in 1 .. n
        BY <1>4
      <4>2. \A g \in 1 .. n : SegmentFits(f, g)
        BY <2>1, SegmentAssumption
      <4>3. QED
        BY <4>1, <4>2, Zenon
    <3>2. QED
      BY <1>1, <1>4, <2>1, <3>1, AttachedView
  <2>9. cellsOf' = Linear!Started(o, s, n)
    <3>1. ASSUME NEW x \in Objects
          PROVE  cellsOf'[x] = IF x \in HostBuffers THEN Written(f)[x]
                               ELSE IF x \in DOMAIN f THEN Written(f)[f[x]] ELSE Blank(0)
      <4> HIDE DEF o, s
      <4>1. cellsOf'[x] = IF x \in HostBuffers THEN heap'[x]
                          ELSE IF o[x] # x \/ memory'[x].size = 0 THEN Blank(0)
                          ELSE IF memory'[x].data # NULL THEN heap'[memory'[x].data]
                          ELSE IF file'[x] # NoFile THEN file'[x].cells ELSE Blank(0)
        BY <2>3 DEF cellsOf, Objects, Data
      <4>2. QED
        BY <2>1, <2>2, <2>4, <4>1, NullAssumption DEF Objects
    <3>2. cellsOf' = [x \in Objects |-> cellsOf'[x]]
      BY DEF cellsOf, Objects
    <3> HIDE DEF o, s
    <3>3. QED
      BY <2>8, <3>1, <3>2
  <2>10. Linear!StartInstance
    <3> HIDE DEF o, s
    <3>1. sizeOf' = Linear!InitialSize(objectOf')
      BY <2>3, <2>6 DEF s
    <3>2. cellsOf' = Linear!Started(objectOf', sizeOf', Len(Segments))
      BY <2>3, <2>6, <2>9
    <3>3. QED
      BY <1>2, <2>1, <2>3, <2>7, <3>1, <3>2 DEF Linear!StartInstance, Objects
  <2>11. QED
    BY <1>3, <2>10 DEF Linear!Embedder
<1>8. ASSUME Reset, NEW STATE o, o \in [Memories -> Objects], NEW k \in 0 .. n,
             \A x \in HostBuffers : heap'[x] = Linear!Started(o, Linear!InitialSize(o), k)[x]
      PROVE  Linear!Embedder
  <2>1. attached' = FALSE /\ memory' = [m \in Memories |-> NoMemory] /\ dropped' = {}
    BY <1>8 DEF Reset
  <2>2. \A m \in Memories : memory'[m].size = 0 /\ m \notin HostBuffers
    BY <2>1, ObjectAssumption DEF NoMemory
  <2>3. objectOf' = [m \in Memories |-> m]
    BY <2>1, NullAssumption DEF objectOf, NoMemory
  <2>4. sizeOf' = [x \in Objects |-> IF x \in Memories THEN 0 ELSE sizeOf[x]]
    BY <2>2, <2>3 DEF sizeOf, Objects
  <2>5. cellsOf' = [x \in Objects |->
                     IF x \in Memories THEN Blank(0)
                     ELSE Linear!Started(o, Linear!InitialSize(o), k)[x]]
    BY <1>8, <2>2 DEF cellsOf, Objects
  <2>6. Linear!Blank(0) = Blank(0)
    BY DEF Linear!Blank, Blank
  <2>7. Linear!EndInstance
    BY <1>2, <1>8, <2>1, <2>3, <2>4, <2>5, <2>6 DEF Linear!EndInstance, Objects
  <2>8. QED
    BY <1>3, <2>7 DEF Linear!Embedder
<1>9. CASE Reset /\ heap' = Detached
  <2> DEFINE o == [m \in Memories |-> m]
             s == Linear!InitialSize(o)
  <2>1. PICK w : Fills(w, o, s, 0)
    <3> HIDE DEF o, s
    <3>1. QED
      BY StartedCells
  <2> HIDE DEF o, s
  <2>2. /\ w[0] = [x \in Objects |-> IF x \in HostBuffers THEN cellsOf[x] ELSE Blank(s[x])]
        /\ \A i \in 1 .. n : w[i] = w[i-1]
    <3>1. w = [i \in 0 .. n |->
                IF i = 0 THEN [x \in Objects |-> IF x \in HostBuffers THEN cellsOf[x]
                                                 ELSE Blank(s[x])]
                ELSE IF Segments[i].passive \/ i > 0 THEN w[i-1]
                ELSE [w[i-1] EXCEPT ![o[Segments[i].memory]] =
                        Overlay(@, Segments[i].offset, Segments[i].bytes, Segments[i].size)]]
      BY <2>1 DEF Fills
    <3>2. w[0] = [x \in Objects |-> IF x \in HostBuffers THEN cellsOf[x] ELSE Blank(s[x])]
      BY <1>4, <3>1
    <3>3. ASSUME NEW i \in 1 .. n PROVE w[i] = w[i-1]
      <4> DEFINE over == [w[i-1] EXCEPT ![o[Segments[i].memory]] =
                            Overlay(@, Segments[i].offset, Segments[i].bytes, Segments[i].size)]
      <4>1. i \in 0 .. n /\ i # 0 /\ i > 0
        BY <1>4
      <4>2. w[i] = IF Segments[i].passive \/ i > 0 THEN w[i-1] ELSE over
        BY <3>1, <4>1
      <4> HIDE DEF over
      <4>3. QED
        BY <4>1, <4>2
    <3>4. QED
      BY <3>2, <3>3
  <2>3. w[n] = w[0]
    <3> DEFINE S == {j \in Nat : j <= n => w[j] = w[0]}
    <3>1. 0 \in S
      OBVIOUS
    <3>2. ASSUME NEW j \in Nat, j \in S PROVE j + 1 \in S
      <4>1. j + 1 <= n => w[j+1] = w[j] /\ j <= n
        BY <1>4, <2>2
      <4>2. QED
        BY <3>2, <4>1
    <3>3. n \in S
      BY <1>4, <3>1, <3>2, SetInduction
    <3>4. QED
      BY <1>4, <3>3
  <2>4. Linear!Started(o, s, 0) = w[0]
    BY <2>1, <2>3 DEF Fills
  <2>5. \A x \in HostBuffers : heap'[x] = Linear!Started(o, s, 0)[x]
    <3>1. heap' = [b \in Buffers \cup HostBuffers |->
                    IF b \in Buffers \ Lost THEN Freed ELSE heap[b]]
      BY <1>1, <1>9, DetachedFrees
    <3>2. \A x \in HostBuffers : x \in Objects /\ cellsOf[x] = heap[x]
      BY DEF cellsOf, Objects
    <3>3. QED
      BY <2>2, <2>4, <3>1, <3>2, BufferAssumption
  <2>6. o \in [Memories -> Objects] /\ 0 \in 0 .. n
    BY <1>4 DEF o, Objects
  <2>7. QED
    BY <1>8, <1>9, <2>5, <2>6 DEF s
<1>10. CASE /\ Reset /\ Placements # {}
            /\ heap' = Released(Written(Placement), {Placement[m] : m \in DOMAIN Placement})
  <2> DEFINE f == Placement
             o == Given(f)
             s == Linear!InitialSize(o)
             bad(g) == \E i \in 1 .. g : ~ SegmentFits(f, i)
  <2>1. f \in Placements /\ heap' = Released(Written(f), {f[m] : m \in DOMAIN f})
    BY <1>5, <1>10
  <2> HIDE DEF f
  <2>2. PICK k \in 0 .. n : \A g \in 1 .. n : g > k <=> bad(g)
    <3> DEFINE S == {j \in Nat : j <= n => \E p \in 0 .. j : \A g \in 1 .. j : g > p <=> bad(g)}
    <3>1. 0 \in S
      <4>1. \A g \in 1 .. 0 : g > 0 <=> bad(g)
        OBVIOUS
      <4>2. QED
        BY <4>1
    <3>2. ASSUME NEW j \in Nat, j \in S PROVE j + 1 \in S
      <4>1. SUFFICES ASSUME j + 1 <= n
                     PROVE  \E p \in 0 .. j + 1 : \A g \in 1 .. j + 1 : g > p <=> bad(g)
        OBVIOUS
      <4>2. PICK p \in 0 .. j : \A g \in 1 .. j : g > p <=> bad(g)
        BY <1>4, <3>2, <4>1
      <4>3. \A g, i \in 1 .. j + 1 : bad(g) /\ g <= i => bad(i)
        OBVIOUS
      <4> HIDE DEF bad
      <4>4. CASE bad(j + 1)
        <5>1. \A g \in 1 .. j + 1 : g > p <=> bad(g)
          BY <4>2, <4>4
        <5>2. p \in 0 .. j + 1
          OBVIOUS
        <5>3. QED
          BY <5>1, <5>2, Zenon
      <4>5. CASE ~ bad(j + 1)
        <5>1. \A g \in 1 .. j + 1 : g > j + 1 <=> bad(g)
          BY <4>3, <4>5
        <5>2. QED
          BY <5>1
      <4>6. QED
        BY <4>4, <4>5
    <3> HIDE DEF bad
    <3>3. n \in S
      <4> HIDE DEF S
      <4>1. QED
        BY <1>4, <3>1, <3>2, SetInduction
    <3>4. QED
      BY <1>4, <3>3
  <2>3. Linear!Started(o, s, k)
          = [x \in Objects |-> IF x \in HostBuffers THEN Written(f)[x]
                               ELSE IF x \in DOMAIN f THEN Written(f)[f[x]] ELSE Blank(0)]
    BY <1>1, <2>1, <2>2, AttachedView
  <2>4. \A x \in HostBuffers : heap'[x] = Written(f)[x]
    <3> DEFINE h == Written(f)
    <3>1. DOMAIN h = Buffers \cup HostBuffers
      <4>1. Holds(Initial(f), h)
        BY <1>1, <2>1, WrittenFills, Zenon
      <4> HIDE DEF h
      <4>2. QED
        BY <4>1 DEF Holds
    <3>2. \A m \in DOMAIN f : f[m] \in Buffers
      BY <1>6, <2>1
    <3> HIDE DEF h
    <3>3. heap' = [b \in DOMAIN h |-> IF b \in {f[m] : m \in DOMAIN f} THEN Freed ELSE h[b]]
      BY <2>1 DEF Released, h
    <3>4. \A x \in HostBuffers : heap'[x] = h[x]
      BY <3>1, <3>2, <3>3, BufferAssumption
    <3>5. QED
      BY <3>4 DEF h
  <2>5. o \in [Memories -> Objects]
    BY <1>6, <2>1
  <2> HIDE DEF o, s
  <2>6. \A x \in HostBuffers : heap'[x] = Linear!Started(o, s, k)[x]
    BY <2>3, <2>4 DEF Objects
  <2>7. QED
    BY <1>8, <1>10, <2>5, <2>6 DEF s
<1>11. QED
  BY <1>7, <1>9, <1>10 DEF DetachModule, AttachFails

-----------------------------------------------------------------------------
(* The theorem.                                                            *)

(* The memories of the runtime implement linear memory: what a program     *)
(* sees of its memories is what the abstract specification allows, however *)
(* the bytes move between buffers, files and the host, and whatever the    *)
(* embedder does in the load hook (fa_Runtime_ensureMemoryLoaded and the   *)
(* memory instructions of fa_ops.c).                                       *)
THEOREM Implements == Spec => LinearMemorySpec
<1> DEFINE seen == <<objectOf, sizeOf, cellsOf, residentOf, file, dropped, eventOf>>
<1>1. residentOf \in [Memories -> BOOLEAN]
  BY DEF residentOf
<1>2. Init => Linear!Init
  <2>1. SUFFICES ASSUME Init PROVE Linear!Init
    OBVIOUS
  <2>2. attached = FALSE /\ memory = [m \in Memories |-> NoMemory] /\ op = Idle
    BY <2>1 DEF Init
  <2>3. \A m \in Memories : memory[m].size = 0 /\ m \notin HostBuffers
    BY <2>2, ObjectAssumption DEF NoMemory
  <2>4. objectOf = [m \in Memories |-> m]
    BY <2>2, NullAssumption DEF objectOf, NoMemory
  <2>5. \A m \in Memories : sizeOf[m] = 0 /\ cellsOf[m] = Linear!Blank(0)
    BY <2>3, <2>4 DEF sizeOf, cellsOf, Linear!Blank, Blank
  <2>6. file = [m \in Memories |-> Linear!Nothing] /\ dropped = {}
    BY <2>1 DEF Init, NoFile, Linear!Nothing
  <2>7. eventOf = Linear!Quiet
    BY <2>2 DEF eventOf, Idle, Linear!Quiet
  <2>8. QED
    BY <1>1, <2>4, <2>5, <2>6, <2>7 DEF Linear!Init
<1>3. IInv /\ AtHand /\ [Next]_vars => [Linear!Next]_seen
  <2>1. SUFFICES ASSUME IInv, AtHand, [Next]_vars PROVE [Linear!Next]_seen
    OBVIOUS
  <2>2. CASE UNCHANGED vars
    <3>1. UNCHANGED <<attached, memory, heap, file, dropped, op>>
      BY <2>2 DEF vars
    <3>2. objectOf' = objectOf /\ residentOf' = residentOf /\ eventOf' = eventOf
      BY <3>1 DEF objectOf, residentOf, eventOf, Hooking, Waiting
    <3>3. sizeOf' = sizeOf /\ cellsOf' = cellsOf
      BY <3>1, <3>2 DEF sizeOf, cellsOf, Data
    <3>4. QED
      BY <3>1, <3>2, <3>3
  <2>3. CASE Next
    <3>1. Linear!Paging \/ Linear!Embedder \/ Linear!Instruction
      BY <2>1, <2>3, LoadingMaps, InstructionMaps, GrowMaps, EmbedderMaps, AttachMaps DEF Next
    <3>2. residentOf' \in [Memories -> BOOLEAN]
      BY DEF residentOf
    <3>3. QED
      BY <3>1, <3>2 DEF Linear!Next
  <2>4. QED
    BY <2>1, <2>2, <2>3
<1>4. QED
  BY <1>2, <1>3, Invariance, AtHandCorrect, PTL DEF Spec, LinearMemorySpec, Linear!Spec
=============================================================================
