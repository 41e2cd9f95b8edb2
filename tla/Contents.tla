------------------------------ MODULE Contents ------------------------------
(* What a linear memory holds, as a function from its addresses to cells,  *)
(* and the limits and data segments a module declares.  A page is          *)
(* PageCells cells here and 65,536 bytes in the code.                      *)
EXTENDS Integers, Sequences

CONSTANTS Cell,       \* what one address holds; 0 is one of them
          PageCells,
          Memories,   \* the memories of the module
          MinPages,   \* the initial size of each in pages
          MaxPages,   \* and its maximum; no maximum is one nothing reaches
          Segments    \* sequence of [passive, memory, offset, size, bytes]

ASSUME CellAssumption == 0 \in Cell
ASSUME PageAssumption == PageCells \in Nat \ {0}
ASSUME LimitAssumption == /\ MinPages \in [Memories -> Nat]
                          /\ MaxPages \in [Memories -> Nat]
ASSUME SegmentAssumption ==
    /\ Len(Segments) \in Nat /\ DOMAIN Segments = 1 .. Len(Segments)
    /\ \A g \in DOMAIN Segments :
        /\ Segments[g].passive \in BOOLEAN
        /\ Segments[g].memory \in Memories
        /\ Segments[g].offset \in Nat /\ Segments[g].size \in Nat
        /\ Segments[g].bytes \in [0 .. Segments[g].size - 1 -> Cell]

Blank(n) == [i \in 0 .. n - 1 |-> 0]

(* n cells of c from address a *)
Slice(c, a, n) == [i \in 0 .. n - 1 |-> c[a + i]]

(* c with the n cells of d written from address a *)
Overlay(c, a, d, n) == [i \in DOMAIN c |-> IF i \in a .. a + n - 1 THEN d[i - a] ELSE c[i]]

(* c, of n cells, enlarged to m cells, the new ones zero *)
Extended(c, n, m) == [i \in 0 .. m - 1 |-> IF i < n THEN c[i] ELSE 0]
=============================================================================
