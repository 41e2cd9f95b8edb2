------------------------------- MODULE Bodies -------------------------------
(***************************************************************************)
(* What a function body is and what WebAssembly says of it: the nesting of *)
(* its blocks, the place a branch goes to, and the types of the operands   *)
(* before each instruction.  Nothing here is code of the runtime, which    *)
(* executes bodies without validating them: this is the reference the      *)
(* interpreter is compared with.                                           *)
(*                                                                         *)
(* An instruction is a record: its operation, the types it takes (the      *)
(* parameters of a block), the types it gives (the results of a block),    *)
(* and its immediates: branch labels, the last of a table the default, or  *)
(* the function called.  Values are known by their types.                  *)
(***************************************************************************)
EXTENDS Integers, Sequences, FiniteSets

Types == {"i32", "i64"}
Openers == {"block", "loop", "if"}
Operations == Openers \cup {"apply", "div", "else", "end", "br", "br_if",
                            "br_table", "return", "unreachable", "call",
                            "call_indirect"}

Instructions == [op : Operations, in : Seq(Types), out : Seq(Types),
                 arg : Seq(Nat)]
Functions == [params : Seq(Types), results : Seq(Types), imported : BOOLEAN,
              body : Seq(Instructions)]

-----------------------------------------------------------------------------
(* Nesting.  The function itself is the block 0.                           *)

(* Blocks open before instruction p. *)
Depth(b, p) == Cardinality({q \in 1 .. p-1 : b[q].op \in Openers})
               - Cardinality({q \in 1 .. p-1 : b[q].op = "end"})

(* The instructions that close the block opened at q, or part it in two. *)
Parts(b, q, op) ==
  {e \in q+1 .. Len(b) : /\ b[e].op = op
                         /\ Depth(b, e) = IF q = 0 THEN 0 ELSE Depth(b, q) + 1}
EndOf(b, q) == CHOOSE e \in Parts(b, q, "end") :
                 \A d \in Parts(b, q, "end") : e <= d
ElseOf(b, q) == {e \in Parts(b, q, "else") : e < EndOf(b, q)}

(* The blocks around instruction p, and the one label l of p names. *)
Around(b, p) ==
  {0} \cup {q \in 1 .. p-1 : b[q].op \in Openers /\ EndOf(b, q) >= p}
Labelled(b, p, l) ==
  CHOOSE q \in Around(b, p) : Cardinality({r \in Around(b, p) : r > q}) = l

(* Where a branch to the block opened at q continues. *)
Target(b, q) == IF q # 0 /\ b[q].op = "loop" THEN q + 1 ELSE EndOf(b, q) + 1

-----------------------------------------------------------------------------
(* Validation, as the specification of WebAssembly gives it: a stack of    *)
(* operand types and a stack of open blocks; a block whose code cannot be  *)
(* reached any more is dead and gives whatever is taken from it.           *)

Nothing == [op |-> "end", in |-> <<>>, out |-> <<>>, arg |-> <<>>]

Inner(v) == v.ctrl[Len(v.ctrl)]
Operands(v) == SubSeq(v.ops, Inner(v).height + 1, Len(v.ops))

Shorter(m, n) == IF m < n THEN m ELSE n

(* The types ts are on top of s, as far as s goes. *)
OnTop(s, ts) == \A k \in 0 .. Shorter(Len(s), Len(ts)) - 1 :
                  s[Len(s) - k] = ts[Len(ts) - k]

Has(v, ts) == /\ Len(Operands(v)) >= Len(ts) \/ Inner(v).dead
              /\ OnTop(Operands(v), ts)

Take(v, ts) ==
  IF Has(v, ts)
  THEN [v EXCEPT !.ops = SubSeq(@, 1, Len(@) - Shorter(Len(Operands(v)), Len(ts)))]
  ELSE [v EXCEPT !.ok = FALSE]

(* The operands of the innermost block are ts and nothing below them. *)
TakeAll(v, ts) == IF Len(Operands(v)) <= Len(ts) THEN Take(v, ts)
                  ELSE [v EXCEPT !.ok = FALSE]

Give(v, ts) == [v EXCEPT !.ops = @ \o ts]

Kill(v) == [v EXCEPT !.ops = SubSeq(@, 1, Inner(v).height),
                     !.ctrl = [@ EXCEPT ![Len(@)].dead = TRUE]]

LabelTypes(v, l) == LET c == v.ctrl[Len(v.ctrl) - l]
                    IN  IF c.kind = "loop" THEN c.params ELSE c.results

OpenBlock(v, i) ==
  LET w == Take(v, i.in)
  IN  [w EXCEPT !.ctrl = Append(@, [kind |-> i.op, params |-> i.in,
                                    results |-> i.out, height |-> Len(w.ops),
                                    dead |-> FALSE]),
                !.ops = @ \o i.in]

(* Of code, only the signatures matter here. *)
Check(code, v, i) ==
  LET c == Inner(v)
      Labels == {i.arg[k] : k \in 1 .. Len(i.arg)}
      Bad == [v EXCEPT !.ok = FALSE]
  IN
  CASE i.op \in {"apply", "div"} -> Give(Take(v, i.in), i.out)
    [] i.op \in {"block", "loop"} -> OpenBlock(v, i)
    [] i.op = "if" -> OpenBlock(Take(v, <<"i32">>), i)
    [] i.op = "else" ->
         IF c.kind # "if" THEN Bad
         ELSE LET w == TakeAll(v, c.results)
              IN  [w EXCEPT !.ctrl = [@ EXCEPT ![Len(@)].kind = "else",
                                               ![Len(@)].dead = FALSE],
                            !.ops = SubSeq(@, 1, c.height) \o c.params]
    [] i.op = "end" ->
         IF c.kind = "if" /\ c.params # c.results THEN Bad
         ELSE LET w == TakeAll(v, c.results)
              IN  [w EXCEPT !.ctrl = SubSeq(@, 1, Len(@) - 1),
                            !.ops = SubSeq(@, 1, c.height) \o c.results]
    [] i.op = "br" ->
         IF i.arg[1] >= Len(v.ctrl) THEN Bad
         ELSE Kill(Take(v, LabelTypes(v, i.arg[1])))
    [] i.op = "br_if" ->
         IF i.arg[1] >= Len(v.ctrl) THEN Bad
         ELSE LET ts == LabelTypes(v, i.arg[1])
              IN  Give(Take(Take(v, <<"i32">>), ts), ts)
    [] i.op = "br_table" ->
         IF \E l, m \in Labels : \/ l >= Len(v.ctrl) \/ m >= Len(v.ctrl)
                                 \/ LabelTypes(v, l) # LabelTypes(v, m)
         THEN Bad
         ELSE Kill(Take(Take(v, <<"i32">>), LabelTypes(v, i.arg[1])))
    [] i.op = "return" -> Kill(Take(v, v.ctrl[1].results))
    [] i.op = "unreachable" -> Kill(v)
    [] i.op = "call" -> Give(Take(v, code[i.arg[1]].params), code[i.arg[1]].results)
    [] i.op = "call_indirect" -> Give(Take(Take(v, <<"i32">>), i.in), i.out)

Start(fn) == [ops |-> <<>>, ok |-> TRUE,
              ctrl |-> <<[kind |-> "block", params |-> <<>>,
                          results |-> fn.results, height |-> 0, dead |-> FALSE]>>]

(* What validation knows before instruction p of f. *)
Known(code, f) ==
  LET Before[p \in 1 .. Len(code[f].body) + 1] ==
        IF p = 1 THEN Start(code[f]) ELSE Check(code, Before[p-1], code[f].body[p-1])
  IN  Before

Reachable(v) == \A k \in 1 .. Len(v.ctrl) : ~ v.ctrl[k].dead

(* An instruction has the immediates its operation reads.                  *)
Formed(code, i) ==
  /\ i.op \in {"br", "br_if", "br_table", "call"} => i.arg # <<>>
  /\ i.op = "call" => i.arg[1] \in DOMAIN code

(* A function is valid if all its instructions are, and the last of them   *)
(* closes the function.                                                    *)
Valid(code, f) ==
  LET b == code[f].body
      known == Known(code, f)
  IN  /\ \A p \in 1 .. Len(b) : Formed(code, b[p]) /\ known[p].ctrl # <<>>
      /\ \A p \in 1 .. Len(b) + 1 : known[p].ok
      /\ known[Len(b) + 1].ctrl = <<>>
=============================================================================
