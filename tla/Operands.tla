------------------------------ MODULE Operands ------------------------------
(***************************************************************************)
(* One instruction and the operand stack it works on: how the handlers of  *)
(* fa_ops.c take operands, put them back when they trap and push a result. *)
(* The immediates of the instruction are fields of instr.                  *)
(***************************************************************************)
EXTENDS Numbers

VARIABLES
  instr,    \* the instruction: op, and what its descriptor or name says
  stack,    \* job->stack, the newest operand last
  memory,   \* the bytes of memory 0, from address 0
  status,   \* "ready", and what the handler returned: "ok", "trap", "unknown"
  given,    \* history: the stack the instruction found
  found     \* history: the memory the instruction found

vars == <<instr, stack, memory, status, given, found>>

Top(k) == stack[Len(stack) - k]            \* 0 is the newest
Rhs == Top(0)
Lhs == Top(1)
Has(n) == Len(stack) >= n
Below(n) == SubSeq(stack, 1, Len(stack) - n)
Kinds(n) == {Top(k).kind : k \in 0 .. n - 1}

(* Defect: two operands are put back in the order they were taken.         *)
BugRestored(n) ==
  IF n = 2 /\ Has(2) THEN Below(2) \o <<Rhs, Lhs>> ELSE stack

(* restore_stack_value, for each operand taken and the last one first; an  *)
(* operand that is not there was not taken.                                *)
Restored(n) ==
  IF Has(n) THEN Below(n) \o [k \in 1 .. n |-> Top(n - k)] ELSE stack

Unchanged == UNCHANGED <<instr, given, found>>

Answer(n, result) ==
  /\ stack' = Append(Below(n), result)
  /\ status' = "ok"
  /\ UNCHANGED memory /\ Unchanged

(* A trap that puts n operands back, and one that has lost n.              *)
TrapWith(left) == /\ stack' = left /\ status' = "trap"
                  /\ UNCHANGED memory /\ Unchanged
Trap(n) == TrapWith(Restored(n))
Lose(n) == TrapWith(Below(n))
=============================================================================
