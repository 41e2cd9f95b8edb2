----------------------------- MODULE ControlFlow -----------------------------
(***************************************************************************)
(* What structured control promises: a job is a stack of calls, each at an *)
(* instruction of its function, and a step goes to where the nesting of    *)
(* the blocks says.  There is no operand and no record of entered blocks   *)
(* here, and a job fails only where the program asks for it: at an         *)
(* unreachable or a faulting operation, at a call that is refused, fails   *)
(* or nests too deep, and at the one form the runtime declines, an if with *)
(* results and no else.                                                    *)
(***************************************************************************)
EXTENDS Bodies

CONSTANTS
  Fns,           \* function indices
  MaxCallDepth,  \* frames a job may have
  Trapped        \* functions the embedder has set a trap on

VARIABLES
  code,          \* the module attached
  calls,         \* the calls in progress, innermost last
  outcome        \* "idle", "running" or how the last job ended

abstractVars == <<code, calls, outcome>>

Errors == {"TRAP", "CALL_DEPTH_EXCEEDED", "HOST", "UNSUPPORTED"}

Innermost == calls[Len(calls)]
At == Innermost.at
Text == code[Innermost.fn].body
Now == Text[At]

(* Whatever module is attached. *)
Initially == calls = <<>> /\ outcome = "idle"

(* How a call of f from the calls c may fail. *)
CallErrors(f, c) ==
  (IF f \in Trapped THEN {"TRAP", "HOST"} ELSE {})
  \cup (IF code[f].imported THEN {"TRAP", "HOST"}
        ELSE IF Len(c) >= MaxCallDepth THEN {"CALL_DEPTH_EXCEEDED"} ELSE {})

Settle(c) == /\ calls' = c
             /\ outcome' = IF c = <<>> THEN "ok" ELSE "running"
             /\ UNCHANGED code

Fail(e) == calls' = <<>> /\ outcome' = e /\ UNCHANGED code

Call(f, c) ==
  \/ \E e \in CallErrors(f, c) : Fail(e)
  \/ code[f].imported /\ Settle(c)
  \/ /\ ~ code[f].imported
     /\ Len(c) < MaxCallDepth
     /\ Settle(Append(c, [fn |-> f, at |-> 1]))

Begin == outcome # "running" /\ \E f \in Fns : Call(f, <<>>)

(* The places control may be at after the current instruction, when it     *)
(* stays in the function; past the last instruction it has left it.        *)
Block == CHOOSE q \in Around(Text, At) : \A r \in Around(Text, At) : r <= q
Places ==
  LET i == Now IN
  CASE i.op = "if" -> {At + 1} \cup
         (IF ElseOf(Text, At) = {} THEN {EndOf(Text, At) + 1}
          ELSE {e + 1 : e \in ElseOf(Text, At)})
    [] i.op = "else" -> {EndOf(Text, Block) + 1}
    [] i.op \in {"br", "br_table"} ->
         {Target(Text, Labelled(Text, At, i.arg[k])) : k \in 1 .. Len(i.arg)}
    [] i.op = "br_if" -> {At + 1, Target(Text, Labelled(Text, At, i.arg[1]))}
    [] i.op = "return" -> {Len(Text) + 1}
    [] i.op = "unreachable" -> {}
    [] OTHER -> {At + 1}

Outer == SubSeq(calls, 1, Len(calls) - 1)
Returning(c) == IF c # <<>> /\ c[Len(c)].at > Len(code[c[Len(c)].fn].body)
                THEN SubSeq(c, 1, Len(c) - 1) ELSE c

Go == \E p \in Places :
        Settle(Returning(Append(Outer, [fn |-> Innermost.fn, at |-> p])))

Callees == IF Now.op = "call" THEN {Now.arg[1]}
           ELSE {f \in Fns : code[f].params = Now.in /\ code[f].results = Now.out}

Step ==
  /\ outcome = "running"
  /\ IF Now.op \in {"call", "call_indirect"}
     THEN \E f \in Callees :
            Call(f, Append(Outer, [fn |-> Innermost.fn, at |-> At + 1]))
     ELSE Go
Stop ==
  /\ outcome = "running"
  /\ \/ /\ Now.op \in {"unreachable", "div", "call_indirect"}
        /\ Fail("TRAP")
     \/ /\ Now.op = "if" /\ Now.out # <<>> /\ ElseOf(Text, At) = {}
        /\ Fail("UNSUPPORTED")

Promise == Initially /\ [][Begin \/ Step \/ Stop]_abstractVars
=============================================================================
