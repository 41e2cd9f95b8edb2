----------------------------- MODULE Interpreter -----------------------------
(***************************************************************************)
(* The execution loop of fa_runtime.c: a job runs a function of a module,  *)
(* with an array of call frames, a stack of control frames in each, and    *)
(* one operand stack for all of them.  Branches do not follow the nesting  *)
(* of the text: each block is scanned for its end when it is entered, and  *)
(* what a branch does is read from the control frame it names.             *)
(*                                                                         *)
(* Values are known by their types and conditions are free; instructions   *)
(* are counted, not bytes.  One loop turn is one action.                   *)
(***************************************************************************)
EXTENDS Bodies

CONSTANTS
  Fns,           \* function indices
  Modules,       \* the modules a job may run: [Fns -> Functions]
  MaxCallDepth,  \* runtime->max_call_depth, or 64 when that is 0
  Trapped        \* functions whose runtime->function_traps flag is set

ASSUME FnsAssumption == Fns \subseteq Nat
ASSUME ModulesAssumption == \A m \in Modules : m \in [Fns -> Functions]
ASSUME ValidAssumption == \A m \in Modules, f \in Fns : m[f].imported \/ Valid(m, f)
ASSUME DepthAssumption == MaxCallDepth \in Nat \ {0}
ASSUME TrappedAssumption == Trapped \subseteq Fns

VARIABLES
  code,          \* the module attached
  frames,        \* frames[0 .. depth-1]: function, pc, control stack
  stack,         \* job->stack: the types of the operands
  status,        \* "idle", "running" or how the last job ended
  entry          \* the function of the job

vars == <<code, frames, stack, status, entry>>

Errors == {"TRAP", "CALL_DEPTH_EXCEEDED", "HOST", "UNSUPPORTED"}

Frame == frames[Len(frames)]
Body == code[Frame.fn].body
Op == Body[Frame.pc].op
Instr == Body[Frame.pc]

ControlFrames ==
  [type : {"block", "loop", "if"}, start : Nat, else : Nat, end : Nat,
   params : Seq(Types), results : Seq(Types), height : Nat]

TypeOK ==
  /\ code \in [Fns -> Functions]
  /\ frames \in Seq([fn : Fns, pc : Nat, control : Seq(ControlFrames)])
  /\ Len(frames) <= MaxCallDepth
  /\ stack \in Seq(Types)
  /\ status \in Errors \cup {"idle", "running", "ok"}
  /\ status = "running" <=> frames # <<>>
  /\ entry \in Fns

Init ==
  /\ code \in Modules
  /\ frames = <<>>
  /\ stack = <<>>
  /\ status = "idle"
  /\ entry \in Fns

-----------------------------------------------------------------------------
(* The operand stack.                                                      *)

Drop(s, n) == SubSeq(s, 1, Len(s) - n)
Last(s, n) == SubSeq(s, Len(s) - n + 1, Len(s))

(* runtime_stack_check_types: the operands on top are of the types ts. *)
Typed(s, ts) == Len(s) >= Len(ts) /\ Last(s, Len(ts)) = ts

(* runtime_unwind_stack_to: the ts on top are kept, what is between them   *)
(* and the height is dropped.                                              *)
CanUnwind(s, height, ts) == Len(s) >= height + Len(ts) /\ Typed(s, ts)

(* Defect: the values are pushed back in the order they were popped. *)
BugUnwoundReversed(s, height, ts) ==
  SubSeq(s, 1, height) \o [k \in 1 .. Len(ts) |-> s[Len(s) - k + 1]]

Unwound(s, height, ts) == SubSeq(s, 1, height) \o Last(s, Len(ts))

(* A job goes on with frames fs and operands s, or is over. *)
Continue(fs, s) ==
  /\ frames' = fs
  /\ stack' = s
  /\ status' = IF fs = <<>> THEN "ok" ELSE "running"
  /\ UNCHANGED code

(* An error leaves the loop, which pops every frame; the operands stay     *)
(* until the next job resets them.                                         *)
Abort(e, s) ==
  /\ frames' = <<>>
  /\ stack' = s
  /\ status' = e
  /\ UNCHANGED code

Below == SubSeq(frames, 1, Len(frames) - 1)
With(fr) == Append(Below, fr)

Advance == [Frame EXCEPT !.pc = @ + 1]

-----------------------------------------------------------------------------
(* Control frames.                                                         *)

(* Defect: the else of an inner if is taken for one's own. *)
BugScanInnerElse(b, pc) ==
  LET At[c \in pc .. Len(b) + 1] ==
        IF c = pc THEN [depth |-> 1, else |-> 0, end |-> 0]
        ELSE LET s == At[c-1]  op == b[c-1].op IN
             IF s.end # 0 THEN s
             ELSE CASE op \in Openers -> [s EXCEPT !.depth = @ + 1]
                    [] op = "else" /\ s.else = 0 -> [s EXCEPT !.else = c]
                    [] op = "end" ->
                         [s EXCEPT !.depth = @ - 1, !.end = IF s.depth = 1 THEN c ELSE 0]
                    [] OTHER -> s
  IN  At[Len(b) + 1]

(* runtime_scan_block from pc: the position after the matching end, and    *)
(* after the else at its level, 0 if there is none.                        *)
Scan(b, pc) ==
  LET At[c \in pc .. Len(b) + 1] ==
        IF c = pc THEN [depth |-> 1, else |-> 0, end |-> 0]
        ELSE LET s == At[c-1]  op == b[c-1].op IN
             IF s.end # 0 THEN s
             ELSE CASE op \in Openers -> [s EXCEPT !.depth = @ + 1]
                    [] op = "else" /\ s.depth = 1 /\ s.else = 0 ->
                         [s EXCEPT !.else = c]
                    [] op = "end" ->
                         [s EXCEPT !.depth = @ - 1, !.end = IF s.depth = 1 THEN c ELSE 0]
                    [] OTHER -> s
  IN  At[Len(b) + 1]

(* runtime_control_push for the block, loop or if at fr.pc, after it. *)
Entered(fr, i, height) ==
  LET s == Scan(code[fr.fn].body, fr.pc + 1)
  IN  [fr EXCEPT !.pc = @ + 1,
                 !.control = Append(@, [type |-> i.op, start |-> fr.pc + 1,
                                        else |-> IF i.op = "if" THEN s.else ELSE 0,
                                        end |-> s.end, params |-> i.in,
                                        results |-> i.out, height |-> height])]

(* runtime_control_peek *)
Label(fr, l) == fr.control[Len(fr.control) - l]

(* What a branch to the control frame carries: a loop without parameters   *)
(* falls through to its results.                                           *)
Carried(t) == IF t.type = "loop" /\ t.params # <<>> THEN t.params ELSE t.results

(* Defect: the frame of the block branched out of stays. *)
BugBranchedKeepsTarget(fr, l) ==
  LET t == Label(fr, l) IN
  [fr EXCEPT !.pc = IF t.type = "loop" THEN t.start ELSE t.end, !.control = Drop(@, l)]

(* Defect: every branch goes back to the start. *)
BugBranchedToStart(fr, l) ==
  [fr EXCEPT !.pc = Label(fr, l).start, !.control = Drop(@, l)]

(* The frame after a branch: runtime_control_pop_to keeps a loop's frame. *)
Branched(fr, l) ==
  LET t == Label(fr, l) IN
  IF t.type = "loop"
  THEN [fr EXCEPT !.pc = t.start, !.control = Drop(@, l)]
  ELSE [fr EXCEPT !.pc = t.end, !.control = Drop(@, l + 1)]

(* runtime_branch_to_label, with operands s. *)
CanBranch(s, l) == /\ l < Len(Frame.control)
                   /\ CanUnwind(s, Label(Frame, l).height, Carried(Label(Frame, l)))
Carry(s, l) == Unwound(s, Label(Frame, l).height, Carried(Label(Frame, l)))

Branch(fr, s, l) ==
  IF CanBranch(s, l) THEN Continue(With(Branched(fr, l)), Carry(s, l))
  ELSE Abort("TRAP", s)

-----------------------------------------------------------------------------
(* Calls.                                                                  *)

(* runtime_check_function_trap refuses: without a hook with a trap, with   *)
(* one with the hook's status. *)
Refused(f, s) == f \in Trapped /\ \E e \in {"TRAP", "HOST"} : Abort(e, s)

(* runtime_call_imported: the host function's results, its error, or a     *)
(* trap when nothing is bound or a result is not of its type, with those   *)
(* before it already pushed.                                               *)
CallImported(f, fs, s) ==
  LET rest == Drop(s, Len(code[f].params))
      results == code[f].results
  IN
  /\ code[f].imported
  /\ IF Typed(s, code[f].params)
     THEN \/ Continue(fs, rest \o results)
          \/ Abort("TRAP", s)
          \/ \E e \in {"TRAP", "HOST"} : Abort(e, rest)
          \/ \E k \in 1 .. Len(results) - 1 : Abort("TRAP", rest \o SubSeq(results, 1, k))
     ELSE Abort("TRAP", s)

(* Defect: one frame too many. *)
BugPushFrameLimit(f, fs, s) ==
  LET n == Len(code[f].params)
      first == [type |-> "block", start |-> 1, else |-> 0,
                end |-> Len(code[f].body) + 1, params |-> <<>>,
                results |-> code[f].results, height |-> 0]
      pushed == Append(fs, [fn |-> f, pc |-> 1, control |-> <<first>>])
  IN
  /\ ~ code[f].imported
  /\ CASE Len(fs) > MaxCallDepth -> Abort("CALL_DEPTH_EXCEEDED", s)
       [] Len(fs) <= MaxCallDepth /\ Typed(s, code[f].params) ->
            Continue(pushed, Drop(s, n))
       [] Len(fs) <= MaxCallDepth /\ Len(s) < n /\ fs = <<>> ->
            Continue(pushed, s)
       [] OTHER -> Abort("TRAP", s)

(* runtime_push_frame: the arguments leave the operand stack; only the     *)
(* first function of a job may find too few of them.                       *)
PushFrame(f, fs, s) ==
  LET n == Len(code[f].params)
      first == [type |-> "block", start |-> 1, else |-> 0,
                end |-> Len(code[f].body) + 1, params |-> <<>>,
                results |-> code[f].results, height |-> 0]
      pushed == Append(fs, [fn |-> f, pc |-> 1, control |-> <<first>>])
  IN
  /\ ~ code[f].imported
  /\ CASE Len(fs) >= MaxCallDepth -> Abort("CALL_DEPTH_EXCEEDED", s)
       [] Len(fs) < MaxCallDepth /\ Typed(s, code[f].params) ->
            Continue(pushed, Drop(s, n))
       [] Len(fs) < MaxCallDepth /\ Len(s) < n /\ fs = <<>> ->
            Continue(pushed, s)
       [] OTHER -> Abort("TRAP", s)

(* runtime_call_function, with the frames fs and the operands s. *)
CallFunction(f, fs, s) == Refused(f, s) \/ CallImported(f, fs, s) \/ PushFrame(f, fs, s)

(* runtime_execute_job_internal up to its loop: the operands are reset and *)
(* the arguments, if the embedder gave them, pushed.                       *)
StartJob(f) ==
  /\ status # "running"
  /\ entry' = f
  /\ \E args \in {<<>>, code[f].params} : CallFunction(f, <<>>, args)

-----------------------------------------------------------------------------
(* One turn of the loop: decode and execute the instruction at the pc.     *)

Executing(op) == /\ status = "running"
                 /\ Frame.pc <= Len(Body)
                 /\ Op = op

(* Past the end of the body the frame is popped.  A branch to the outermost *)
(* label goes there.                                                       *)
LeaveFrame ==
  /\ status = "running"
  /\ Frame.pc > Len(Body)
  /\ Continue(Below, stack)

(* An operation of fa_ops.c that takes and gives operands; div stands for  *)
(* those that can fault.                                                   *)
Ordinary ==
  /\ \E op \in {"apply", "div"} : Executing(op)
  /\ \/ /\ Typed(stack, Instr.in)
        /\ Continue(With(Advance), Drop(stack, Len(Instr.in)) \o Instr.out)
     \/ /\ Op = "div" \/ ~ Typed(stack, Instr.in)
        /\ Abort("TRAP", stack)

Block ==
  /\ \E op \in {"block", "loop"} : Executing(op)
  /\ IF Typed(stack, Instr.in)
     THEN Continue(With(Entered(Frame, Instr, Len(stack) - Len(Instr.in))), stack)
     ELSE Abort("TRAP", stack)

(* The control frame is pushed before the condition is popped and its      *)
(* height set after.                                                       *)
If ==
  LET s == Drop(stack, 1)
      fr == Entered(Frame, Instr, Len(s) - Len(Instr.in))
      t == Label(fr, 0)
  IN
  /\ Executing("if")
  /\ \/ /\ Instr.out # <<>> /\ t.else = 0
        /\ Abort("UNSUPPORTED", stack)
     \/ /\ Instr.out = <<>> \/ t.else # 0
        /\ stack = <<>> \/ ~ Typed(s, Instr.in)
        /\ Abort("TRAP", s)
     \/ /\ Instr.out = <<>> \/ t.else # 0
        /\ stack # <<>> /\ Typed(s, Instr.in)
        /\ \/ Continue(With(fr), s)
           \/ /\ t.else # 0
              /\ Continue(With([fr EXCEPT !.pc = t.else]), s)
           \/ /\ t.else = 0
              /\ IF CanUnwind(s, t.height, t.results)
                 THEN Continue(With(Branched(fr, 0)), Unwound(s, t.height, t.results))
                 ELSE Abort("TRAP", s)

(* The end of the then part: a branch to the end of the if. *)
Else == Executing("else") /\ Branch(Frame, stack, 0)

(* The end of the outermost block, or of the frame with it. *)
End ==
  LET t == Label(Frame, 0) IN
  /\ Executing("end")
  /\ Frame.control # <<>>
  /\ IF CanUnwind(stack, t.height, t.results)
     THEN Continue(IF Len(Frame.control) = 1 THEN Below
                   ELSE With([Advance EXCEPT !.control = Drop(@, 1)]),
                   Unwound(stack, t.height, t.results))
     ELSE Abort("TRAP", stack)

Br == Executing("br") /\ Branch(Frame, stack, Instr.arg[1])

BrIf ==
  /\ Executing("br_if")
  /\ IF stack = <<>> THEN Abort("TRAP", stack)
     ELSE \/ Continue(With(Advance), Drop(stack, 1))
          \/ Branch(Frame, Drop(stack, 1), Instr.arg[1])

BrTable ==
  /\ Executing("br_table")
  /\ IF stack = <<>> THEN Abort("TRAP", stack)
     ELSE \E k \in 1 .. Len(Instr.arg) : Branch(Frame, Drop(stack, 1), Instr.arg[k])

(* Defect: the frame is popped without unwinding its operands. *)
BugReturnNoUnwind ==
  /\ Executing("return")
  /\ Continue(Below, stack)

(* A branch to the outermost label and the frame popped at once. *)
Return ==
  LET l == Len(Frame.control) - 1 IN
  /\ Executing("return")
  /\ IF Frame.control = <<>> THEN Continue(Below, stack)
     ELSE IF CanBranch(stack, l) THEN Continue(Below, Carry(stack, l))
     ELSE Abort("TRAP", stack)

Unreachable == Executing("unreachable") /\ Abort("TRAP", <<>>)

Call == Executing("call") /\ CallFunction(Instr.arg[1], With(Advance), stack)

(* op_call_indirect: whatever function the table slot holds, if it has the *)
(* signature; an empty slot, another signature or no slot is a trap.       *)
CallIndirect ==
  /\ Executing("call_indirect")
  /\ \/ Abort("TRAP", Drop(stack, IF stack = <<>> THEN 0 ELSE 1))
     \/ /\ stack # <<>>
        /\ \E f \in Fns : /\ code[f].params = Instr.in
                          /\ code[f].results = Instr.out
                          /\ CallFunction(f, With(Advance), Drop(stack, 1))

-----------------------------------------------------------------------------
Turn == /\ \/ LeaveFrame \/ Ordinary \/ Block \/ If \/ Else \/ End
           \/ Br \/ BrIf \/ BrTable \/ Return \/ Unreachable
           \/ Call \/ CallIndirect
        /\ UNCHANGED entry

Next == Turn \/ \E f \in Fns : StartJob(f)

(* The loop does not wait for anything. *)
Spec == Init /\ [][Next]_vars /\ WF_vars(Turn)

-----------------------------------------------------------------------------
(* What the runtime executes as WebAssembly does: a function of the module *)
(* is called with nothing but its arguments on the operand stack, and no   *)
(* branch goes to a loop with results and no parameters.                   *)
Supported(m) ==
  \A f \in DOMAIN m : \A p \in 1 .. Len(m[f].body) :
    LET v == Known(m, f)[p]  a == m[f].body[p] IN
    /\ a.op = "call" /\ ~ m[a.arg[1]].imported
         => Len(v.ops) <= Len(m[a.arg[1]].params)
    /\ a.op = "call_indirect" => Len(v.ops) <= Len(a.in) + 1
    /\ a.op \in {"br", "br_if", "br_table"} =>
         \A k \in 1 .. Len(a.arg) :
           a.arg[k] < Len(v.ctrl) =>
             LET t == v.ctrl[Len(v.ctrl) - a.arg[k]]
             IN  t.kind = "loop" => t.params # <<>> \/ t.results = <<>>

(* What validation knows of the instruction a frame is at. *)
KnownAt(k) == Known(code, frames[k].fn)[frames[k].pc]

(* The operands of a frame that waits for a call it made: what was there   *)
(* before the call without what the call took.                             *)
Waiting(k) ==
  LET v == Known(code, frames[k].fn)[frames[k].pc - 1]
      i == code[frames[k].fn].body[frames[k].pc - 1]
  IN  Drop(v.ops, IF i.op = "call" THEN Len(code[i.arg[1]].params)
                  ELSE Len(i.in) + 1)

(* The operands below those of frame k. *)
Base(k) ==
  LET Under[j \in 1 .. k] == IF j = 1 THEN <<>> ELSE Under[j-1] \o Waiting(j-1)
  IN  Under[k]

(* Before every instruction the one operand stack the frames share holds   *)
(* what validation says: the operands each waiting call left, and on top   *)
(* those of the running function.  A branch, an end or a return that       *)
(* unwinds to a wrong height or carries a wrong arity breaks it.           *)
OperandsAgree ==
  frames # <<>> => stack = Base(Len(frames)) \o KnownAt(Len(frames)).ops

(* The control frames of every call frame are the blocks around its        *)
(* instruction, each with the end found by its scan, its results and the   *)
(* height of the operands under it; and no instruction validation calls    *)
(* dead is ever reached.  Branches skip an end by popping its frame, and   *)
(* every path to an instruction must have pushed and popped alike.         *)
ControlAgrees ==
  \A k \in 1 .. Len(frames) :
    LET v == KnownAt(k)
        c == frames[k].control
        b == code[frames[k].fn].body
    IN  /\ Reachable(v)
        /\ Len(c) = Len(v.ctrl)
        /\ \A j \in 1 .. Len(c) :
             /\ c[j].end = EndOf(b, Labelled(b, frames[k].pc, Len(c) - j)) + 1
             /\ c[j].results = v.ctrl[j].results
             /\ c[j].height = Len(Base(k)) + v.ctrl[j].height

(* A job that ends well leaves the results of its function, in order, and  *)
(* nothing else.                                                           *)
ResultsDelivered == status = "ok" => stack = code[entry].results

(* A return, by whatever path, leaves the operands of the calls that wait  *)
(* as they were when the call was made.                                    *)
CallerOperandsKept ==
  [][frames # <<>> /\ frames' # <<>> /\ Len(frames') < Len(frames)
       => LET kept == Base(Len(frames)) IN SubSeq(stack', 1, Len(kept)) = kept]_vars

(* Every job ends or comes back to the head of a loop: control never goes  *)
(* round by another way, and calls end at the limit of frames.             *)
AtLoopHead == /\ frames # <<>>
              /\ Frame.pc > 1
              /\ Body[Frame.pc - 1].op = "loop"
JobEndsOrLoops == status = "running" ~> status # "running" \/ AtLoopHead

(* The loop implements structured control: scans, heights and popped       *)
(* control frames take it where the nesting of the text says, and it fails *)
(* only where the program may.                                             *)
Shown == IF frames # <<>> /\ Frame.pc > Len(Body) THEN Below ELSE frames
Structured == INSTANCE ControlFlow WITH
  calls <- [k \in 1 .. Len(Shown) |-> [fn |-> Shown[k].fn, at |-> Shown[k].pc]],
  outcome <- IF status = "running" /\ Shown = <<>> THEN "ok" ELSE status
StructuredControl == Structured!Promise
=============================================================================
