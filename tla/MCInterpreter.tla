--------------------------- MODULE MCInterpreter ---------------------------
(* Modules of three functions: every valid body up to a length over a      *)
(* small set of instructions, one of a few that it may call and that may   *)
(* call it back, and a host function.                                      *)
EXTENDS Interpreter, TLC

CONSTANTS
  Length,     \* instructions of an enumerated body
  Alphabets   \* the sets of instructions bodies are made of

I(op, in, out, arg) == [op |-> op, in |-> in, out |-> out, arg |-> arg]
i == "i32"
l == "i64"
Const == I("apply", <<>>, <<i>>, <<>>)
Wide == I("apply", <<>>, <<l>>, <<>>)
Extend == I("apply", <<i>>, <<l>>, <<>>)
Div == I("div", <<l, i>>, <<i>>, <<>>)
Begin(op, in, out) == I(op, in, out, <<>>)
Plain(op) == I(op, <<>>, <<>>, <<>>)
To(op, labels) == I(op, <<>>, <<>>, labels)
CallOf(f) == I("call", <<>>, <<>>, <<f>>)
Indirect == I("call_indirect", <<i>>, <<l>>, <<>>)

Signature(params, results) ==
  [params |-> params, results |-> results, imported |-> FALSE, body |-> <<>>]
Main == Signature(<<>>, <<i>>)
Callee == Signature(<<i>>, <<l>>)
Host == [Callee EXCEPT !.imported = TRUE]
Signatures == 0 :> Main @@ 1 :> Callee @@ 2 :> Host

RECURSIVE Grow(_, _, _)
Grow(alphabet, n, set) ==
  IF n = 0 THEN {x.body : x \in {y \in set : y.known.ctrl = <<>>}}
  ELSE Grow(alphabet, n-1,
            {y \in {x \in set : x.known.ctrl = <<>>} \cup
                   {[body |-> Append(x.body, a), known |-> Check(Signatures, x.known, a)] :
                      x \in {z \in set : z.known.ctrl # <<>>}, a \in alphabet} :
               y.known.ok /\ Len(y.known.ctrl) < n + 1})
Bodies(alphabet) ==
  Grow(alphabet, Length, {[body |-> <<>>, known |-> Start(Main)]})

CalleeBodies ==
  {<<Const, Extend, Plain("end")>>,
   <<Wide, Const, To("br_if", <<0>>), Plain("end")>>,
   <<CallOf(0), Extend, Plain("end")>>}

Made(alphabet) ==
  {0 :> [Main EXCEPT !.body = b] @@ 1 :> [Callee EXCEPT !.body = c] @@ 2 :> Host :
     b \in Bodies(alphabet), c \in CalleeBodies}

MCAlphabets ==
  {{Const, Wide, Plain("end"), Begin("block", <<>>, <<l, i>>), To("br", <<0>>),
    To("br_if", <<1>>), Div},
   {Const, Plain("end"), Begin("if", <<>>, <<i>>), Plain("else"), To("br", <<1>>),
    Plain("unreachable"), Plain("return")},
   {Const, Wide, Plain("end"), CallOf(1), CallOf(2), Indirect, Div,
    Begin("block", <<>>, <<i>>), Plain("return")},
   {Const, Plain("end"), Begin("loop", <<i>>, <<i>>), Begin("block", <<>>, <<i>>),
    To("br_table", <<0, 1>>), To("br", <<1>>)},
   {Const, Plain("end"), Begin("loop", <<>>, <<>>), Begin("if", <<i>>, <<i>>),
    Begin("if", <<>>, <<>>), Plain("else"), To("br", <<1>>), To("br_if", <<0>>)}}

(* An if within an if, the longest nesting of the two, with an else on the *)
(* inner one, and on the outer one as well.                                *)
InnerIf == <<Const, Begin("if", <<>>, <<>>), Plain("else"), Plain("end")>>
NestedIfs ==
  {<<Const, Const, Begin("if", <<>>, <<>>)>> \o InnerIf \o rest
     \o <<Plain("end"), Plain("end")>> : rest \in {<<>>, <<Plain("else")>> \o InnerIf}}

MCModules ==
  {m \in UNION {Made(a) : a \in Alphabets} \cup
         {0 :> [Main EXCEPT !.body = b] @@ 1 :> [Callee EXCEPT !.body = c] @@ 2 :> Host :
            b \in NestedIfs, c \in CalleeBodies} : Supported(m)}

(* Calls made with operands under the arguments. *)
NestedCalls ==
  {m \in Made({Const, Plain("end"), CallOf(1), Div, Plain("return")}) : ~ Supported(m)}
=============================================================================
