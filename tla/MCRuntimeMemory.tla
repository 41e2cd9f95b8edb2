-------------------------- MODULE MCRuntimeMemory ---------------------------
(* Two instances.  In the first, two memories of the module's own, one of  *)
(* which may be empty, and a passive segment.  In the second, one memory   *)
(* of its own beside two imports under one name, with limits that not      *)
(* every host memory meets, and segments that are written at attach.       *)
EXTENDS RuntimeMemory, TLC

CONSTANTS first, second

MCMin == first :> 1 @@ second :> 0
MCMax == first :> 2 @@ second :> 1
MCPassive == <<[passive |-> TRUE, memory |-> first, offset |-> 0, size |-> 2,
                bytes |-> 0 :> 0 @@ 1 :> 1]>>
MCNone == <<>>

CONSTANTS own, any, exact, name, short, long

MCImportMin == own :> 1 @@ any :> 0 @@ exact :> 0
MCImportMax == own :> 1 @@ any :> 2 @@ exact :> 1
MCNameOf == any :> name @@ exact :> name
MCHostSize == short :> 1 @@ long :> 2
MCFree == Permutations(Buffers)
MCActive == <<[passive |-> FALSE, memory |-> any, offset |-> 0, size |-> 1, bytes |-> 0 :> 1],
              [passive |-> FALSE, memory |-> own, offset |-> 0, size |-> 1, bytes |-> 0 :> 1]>>
=============================================================================
