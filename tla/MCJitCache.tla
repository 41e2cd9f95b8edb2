----------------------------- MODULE MCJitCache -----------------------------
(* Three functions: two of two opcodes and one of a single opcode that has *)
(* no operation and no immediates a scan could skip.  The budget holds one *)
(* of the longer programs and no second one.                               *)
EXTENDS JitCache, TLC

CONSTANTS loopOp, addOp, subOp, badOp

MCOps == {loopOp, addOp, subOp, badOp}
MCBody == 0 :> <<loopOp, addOp>> @@ 1 :> <<subOp, addOp>> @@ 2 :> <<badOp>>
=============================================================================
