------------------------------ MODULE Decoding ------------------------------
(***************************************************************************)
(* The instructions of a body that the parser has handed out.  Three       *)
(* pieces of fa_runtime.c read the immediates of an instruction, each with *)
(* a table of its own: the decoder, which pushes them into the register    *)
(* window of the job; the scan of a block for its else and end; and the    *)
(* prescan, which records every opcode of a function.  The handlers of     *)
(* fa_ops.c take them back out of the window, the newest first.            *)
(*                                                                         *)
(* As in Parser, a number is one item, and so are the bytes of a float or  *)
(* of a vector.  Where control goes is the matter of Interpreter: here it  *)
(* falls through.  What an index refers to and what a vector operation     *)
(* computes are not looked up.                                             *)
(***************************************************************************)
EXTENDS Parser

CONSTANT Window   \* FA_JOB_DATA_FLOW_WINDOW_SIZE
ASSUME WindowAssumption == Window \in Nat \ {0}

VARIABLE frame    \* the call frame, the register window and history

(* phase and pc; else and end are those of the block entered last; found   *)
(* is what the prescan recorded; and, for the properties: the instructions *)
(* so far, where the last began and the immediates it was run with.        *)
NoFrame == [phase |-> "idle", pc |-> 0, window |-> <<>>, else |-> 0, end |-> 0,
            found |-> <<>>, count |-> 0, at |-> 0, taken |-> {}]

Memories == Len(module["memories"])
Code == body.items
CodeSize == Len(Code)
Code1(p) == IF p < CodeSize THEN Code[p + 1] ELSE 0

Else == \h05
CallIndirect == \h11
BrTable == \h0E
Bulk == \hFC
Vector == \hFD
Blocks == \h02 .. \h04
Branches == \h0C .. \h0E

-----------------------------------------------------------------------------
(* What each of the three takes for granted of an opcode: which have one   *)
(* number, or one byte or float, which a memory argument; for the prefixes *)
(* the same by sub-opcode.                                                 *)

(* Defect: the scan does not know table.get and table.set.                 *)
BugSkipTable ==
  [one |-> {\h0C, \h0D, \h10, \hD2, \hD0} \cup \h20 .. \h24 \cup \h3F .. \h44,
   access |-> \h28 .. \h3E,
   bulk |-> [s \in 0 .. 17 |->
               CASE s \in 0 .. 7 -> 0 [] s \in {8, 10, 12, 14} -> 2 [] OTHER -> 1],
   bytes |-> {\h0C, \h0D},
   vectorAccess |-> \h00 .. \h0B \cup \h54 .. \h5D,
   lane |-> \h15 .. \h22 \cup \h54 .. \h5B]

(* runtime_skip_immediates, for the scan, which reads block types itself.  *)
SkipTable ==
  [one |-> {\h0C, \h0D, \h10, \hD2, \hD0} \cup \h20 .. \h24 \cup {\h3F, \h40}
           \cup \h41 .. \h44 \cup {\h25, \h26},
   access |-> \h28 .. \h3E,
   bulk |-> [s \in 0 .. 17 |->
               CASE s \in 0 .. 7 -> 0 [] s \in {8, 10, 12, 14} -> 2 [] OTHER -> 1],
   bytes |-> {\h0C, \h0D},
   vectorAccess |-> \h00 .. \h0B \cup \h54 .. \h5D,
   lane |-> \h15 .. \h22 \cup \h54 .. \h5B]

(* runtime_prescan_skip_immediates and runtime_prescan_skip_memarg         *)
PrescanTable ==
  [one |-> Blocks \cup {\h0C, \h0D, \h10, \hD2} \cup \h20 .. \h26 \cup {\h3F, \h40, \hD0}
           \cup \h41 .. \h44,
   access |-> \h28 .. \h3E,
   bulk |-> [s \in 0 .. 17 |->
               CASE s < 8 -> 0 [] s \in {8, 10, 12, 14} -> 2 [] OTHER -> 1],
   bytes |-> {\h0C, \h0D},
   vectorAccess |-> \h00 .. \h0B \cup \h54 .. \h5D,
   lane |-> \h15 .. \h22 \cup \h54 .. \h5B]

(* runtime_decode_instruction: the opcodes that have nothing to decode     *)
(* must have a handler.                                                    *)
DecodeTable ==
  [one |-> Blocks \cup {\h0C, \h0D, \h10, \hD0, \hD2} \cup \h20 .. \h26 \cup \h41 .. \h44
           \cup {\h3F, \h40},
   access |-> \h28 .. \h3E,
   bulk |-> [s \in 0 .. 17 |->
               CASE s \in 0 .. 7 -> 0 [] s \in {9, 11, 13, 15, 16, 17} -> 1 [] OTHER -> 2],
   bytes |-> {\h0C, \h0D},
   vectorAccess |-> \h00 .. \h0B \cup \h54 .. \h5D,
   lane |-> \h15 .. \h22 \cup \h54 .. \h5B]

Prefixed == {Bulk, Vector}
Bare == {\h00, \h01, Else, End, \h0F}      \* control operations without immediates
Handled == {\h1A, \h1B, \hD1} \cup \h45 .. \hC4

(* How many items follow the opcode at p.                                  *)
MemoryArgument == IF Memories > 1 THEN 3 ELSE 2
VectorItems(t, sub) ==
  IF sub \in t.bytes THEN 1
  ELSE (IF sub \in t.vectorAccess THEN MemoryArgument ELSE 0)
       + (IF sub \in t.lane THEN 1 ELSE 0)
Items(t, p) ==
  LET op == Code1(p)  first == Code1(p + 1)
  IN  CASE op \in t.one -> 1
        [] op \in t.access -> MemoryArgument
        [] op = CallIndirect -> 2
        [] op = BrTable -> 2 + first
        [] op = Bulk -> 1 + (IF first \in DOMAIN t.bulk THEN t.bulk[first] ELSE 0)
        [] op = Vector -> 1 + VectorItems(t, first)
        [] OTHER -> 0

After(t, p) == p + 1 + Items(t, p)
Readable(t, p) ==
  /\ After(t, p) <= CodeSize
  /\ Code1(p) = Bulk => Code1(p + 1) \in DOMAIN t.bulk

-----------------------------------------------------------------------------
(* runtime_scan_block from q: the first else at depth 1, 0 if there is     *)
(* none, and what follows the end.                                         *)
Unclosed == <<0, 0>>
Scan(q) ==
  LET S[p \in Nat, depth \in Nat, e \in Nat] ==
        CASE p >= CodeSize -> Unclosed
          [] p < CodeSize /\ Code1(p) \in Blocks ->
               IF p + 2 <= CodeSize THEN S[p + 2, depth + 1, e] ELSE Unclosed
          [] p < CodeSize /\ Code1(p) = Else ->
               S[p + 1, depth, IF depth = 1 /\ e = 0 THEN p + 1 ELSE e]
          [] p < CodeSize /\ Code1(p) = End ->
               IF depth = 1 THEN <<e, p + 1>> ELSE S[p + 1, depth - 1, e]
          [] OTHER -> IF Readable(SkipTable, p) THEN S[After(SkipTable, p), depth, e]
                      ELSE Unclosed
  IN  S[q, 1, 0]

(* The declarations of locals: a count, then as often a number and a type. *)
(* runtime_prescan_skip_locals passes over them; runtime_parse_locals also *)
(* wants types it can make a value of.                                     *)
LocalsEnd == 1 + 2 * Code1(0)
LocalsKnown ==
  \A k \in 1 .. Code1(0) : Code1(2 * k - 1) = 0 \/ Code1(2 * k) \in ValTypes

(* The loaders have all been called, and runtime_push_frame got a body.    *)
Attached == body # NoBody /\ \A l \in Loaders : result[l] # "none"

(* runtime_jit_prescan_function: every opcode with its place, or -1 at the *)
(* end when it gives up.                                                   *)
Prescan ==
  LET P[p \in Nat] ==
        IF p >= CodeSize THEN <<>>
        ELSE <<p>> \o IF Readable(PrescanTable, p) THEN P[After(PrescanTable, p)] ELSE <<-1>>
  IN  /\ Attached /\ frame = NoFrame
      /\ frame' = [frame EXCEPT !.found = IF LocalsEnd <= CodeSize THEN P[LocalsEnd]
                                          ELSE <<-1>>]

(* runtime_push_frame and runtime_parse_locals; the window is empty, as    *)
(* fa_Runtime_resetJobState leaves it.                                     *)
Call ==
  /\ Attached /\ frame.phase = "idle"
  /\ frame' = IF LocalsEnd <= CodeSize /\ LocalsKnown
              THEN [frame EXCEPT !.phase = "fetch", !.pc = LocalsEnd]
              ELSE [frame EXCEPT !.phase = "error"]

-----------------------------------------------------------------------------
(* What the decoder pushes for the instruction at p, in this order.        *)
Pushed(p) ==
  LET n == Items(DecodeTable, p)
  IN  IF Code1(p) \in Prefixed THEN SubSeq(Code, p + 3, p + 1 + n) \o <<Code1(p + 1)>>
      ELSE SubSeq(Code, p + 2, p + 1 + n)

(* runtime_push_reg_value: the oldest values fall out.                     *)
Keep(values) ==
  IF Len(values) > Window THEN SubSeq(values, Len(values) - Window + 1, Len(values)) ELSE values

Decodable(p) ==
  /\ Readable(DecodeTable, p)
  /\ Items(DecodeTable, p) = 0 => Code1(p) \in Bare \cup Handled
  /\ Code1(p) = \hD0 => Code1(p + 1) \in RefTypes

Fetching == frame.phase = "fetch" /\ frame.pc < CodeSize
Decoded ==
  [frame EXCEPT !.at = frame.pc, !.pc = After(DecodeTable, frame.pc), !.count = frame.count + 1]

(* Labels and block types go to the context, which the loop acts on.       *)
InContext(p) == {<<k, Code1(p + k)>> : k \in 1 .. Items(DecodeTable, p)}
DecodeBlock ==
  LET places == Scan(After(DecodeTable, frame.pc))
  IN  /\ Fetching /\ Decodable(frame.pc) /\ Code1(frame.pc) \in Blocks
      /\ frame' = IF places = Unclosed THEN [frame EXCEPT !.phase = "error"]
                  ELSE [Decoded EXCEPT !.else = places[1], !.end = places[2],
                                       !.taken = InContext(frame.pc)]
DecodeControl ==
  /\ Fetching /\ Decodable(frame.pc) /\ Code1(frame.pc) \in Branches \cup Bare
  /\ frame' = [Decoded EXCEPT !.taken = InContext(frame.pc)]
DecodeOperation ==
  /\ Fetching /\ Decodable(frame.pc) /\ Code1(frame.pc) \notin Blocks \cup Branches \cup Bare
  /\ frame' = [Decoded EXCEPT !.phase = "run", !.window = Keep(frame.window \o Pushed(frame.pc))]
DecodeFails ==
  /\ Fetching /\ ~ Decodable(frame.pc)
  /\ frame' = [frame EXCEPT !.phase = "error"]

-----------------------------------------------------------------------------
(* What each handler pops, in order, and what it takes it for.             *)

MemoryIndex == IF Memories > 1 THEN <<"memory">> ELSE <<>>

(* op_load, op_store and simd_pop_memarg                                   *)
TakesAccess == <<"offset", "align">> \o MemoryIndex

(* op_bulk_memory and the handlers of its table                            *)
TakesBulk(sub) ==
  CASE sub = 8 -> <<"memory", "data">>
    [] sub = 9 -> <<"data">>
    [] sub \in {10, 14} -> <<"source", "target">>
    [] sub = 11 -> <<"memory">>
    [] sub = 12 -> <<"element", "table">>
    [] sub = 13 -> <<"element">>
    [] sub \in 15 .. 17 -> <<"table">>
    [] OTHER -> <<>>

(* op_simd and the families whose handlers pop more                        *)
TakesVector(sub) ==
  CASE sub \in {\h0C, \h0D} -> <<"bytes">>
    [] sub \in \h15 .. \h22 -> <<"lane">>
    [] sub \in \h54 .. \h5B -> <<"lane">> \o TakesAccess
    [] sub \in \h00 .. \h0B \cup {\h5C, \h5D} -> TakesAccess
    [] OTHER -> <<>>

(* op_local, op_global, op_call, op_call_indirect, op_table, op_const,     *)
(* op_ref and the operations on memories                                   *)
Takes(op, newest) ==
  CASE op \in \h20 .. \h24 -> <<"index">>
    [] op \in {\h10, \hD2} -> <<"function">>
    [] op = CallIndirect -> <<"table", "type">>
    [] op \in {\h25, \h26} -> <<"table">>
    [] op = \hD0 -> <<"type">>
    [] op \in \h28 .. \h3E -> TakesAccess
    [] op \in {\h3F, \h40} -> <<"memory">>
    [] op \in \h41 .. \h44 -> <<"value">>
    [] op = Bulk -> <<"sub">> \o TakesBulk(newest)
    [] op = Vector -> <<"sub">> \o TakesVector(newest)
    [] OTHER -> <<>>

(* pop_reg_to_buffer traps on an empty window, which ends the job.         *)
Run ==
  LET left == frame.window
      roles == Takes(Code1(frame.at), IF left = <<>> THEN 0 ELSE Last(left))
  IN  /\ frame.phase = "run"
      /\ frame' =
           IF Len(roles) > Len(left) THEN [frame EXCEPT !.phase = "trap", !.window = <<>>]
           ELSE [frame EXCEPT !.phase = "fetch",
                              !.window = SubSeq(left, 1, Len(left) - Len(roles)),
                              !.taken = {<<roles[k], left[Len(left) - k + 1]>> :
                                         k \in DOMAIN roles}]

(* runtime_pop_frame, at the end of the body and when the job fails.       *)
Return ==
  /\ frame.phase \in {"error", "trap"} \/ (frame.phase = "fetch" /\ frame.pc >= CodeSize)
  /\ frame' = NoFrame

Execute ==
  \/ Prescan \/ Call \/ DecodeBlock \/ DecodeControl \/ DecodeOperation \/ DecodeFails
  \/ Run \/ Return

(* The embedder loads what it wants before it runs anything.               *)
Unloaded == Init /\ frame = NoFrame
Load == Next /\ frame = NoFrame /\ frame' = NoFrame
LoadOrExecute == Load \/ (Execute /\ UNCHANGED vars)

LoadThenExecute == Unloaded /\ [][LoadOrExecute]_<<vars, frame>>

-----------------------------------------------------------------------------
(* The instructions of the body as they were written, with where each of   *)
(* them begins and one more place for the end: a source.                   *)
Source == Files[input.name].code[body.fn]

(* The end of the block that instruction k opens, and its else, if any.    *)
Opens(ins) == IF ins.op \in Blocks THEN 1 ELSE IF ins.op = End THEN -1 ELSE 0
DepthFrom(source, k) ==
  LET D[j \in k .. Len(source.instrs)] == IF j = k THEN 1 ELSE D[j-1] + Opens(source.instrs[j])
  IN  D
ClosedBy(depth, k) ==
  CHOOSE j \in DOMAIN depth : depth[j] = 0 /\ \A i \in k .. j - 1 : depth[i] > 0
ElsesOf(source, depth, k) ==
  {j \in k .. ClosedBy(depth, k) : source.instrs[j].op = Else /\ depth[j] = 1}

(* Where the block that was entered last has its else and its end.         *)
FoundAsWritten(source, depth, k) ==
  /\ frame.end = source.starts[ClosedBy(depth, k) + 1]
  /\ IF frame.else = 0 THEN ElsesOf(source, depth, k) = {}
     ELSE \E j \in ElsesOf(source, depth, k) : frame.else = source.starts[j + 1]

(* A lane access with its memory among several has five immediates.        *)
TooWide(ins) == Memories > 1 /\ ins.op = Vector /\ ins.sub \in \h54 .. \h5B

(* How far the prescan got: to the end, or to where the body was cut.      *)
Begun(source) == SelectSeq(source.starts, LAMBDA place : place < CodeSize)
Uncut(source) == CodeSize = Last(source.starts)

Prescanned(source) ==
  \/ frame.found \in {<<>>, Begun(source)}
  \/ ~ Uncut(source) /\ frame.found = Append(Begun(source), -1)

(* The instruction that was run last, if any, got its immediates.          *)
RunAsWritten(ins) ==
  frame.taken = ins.immediates /\ frame.window = <<>> /\ ~ TooWide(ins)

ReadAsWritten(source, k) ==
  /\ Prescanned(source)
  /\ k > 0 => frame.at = source.starts[k]
  /\ frame.phase \in {"fetch", "run"} => frame.pc = source.starts[k + 1]
  /\ frame.phase = "fetch" /\ k > 0 =>
       /\ RunAsWritten(source.instrs[k])
       /\ source.instrs[k].op \in Blocks => FoundAsWritten(source, DepthFrom(source, k), k)
  /\ frame.phase = "error" => ~ Uncut(source)
  /\ frame.phase = "trap" => TooWide(source.instrs[k])

(* The decoder, the scan of blocks and the prescan find the same           *)
(* boundaries between instructions, those that were written, whatever the  *)
(* number of memories; each handler gets exactly the immediates of its     *)
(* instruction, each for what it was written as, and leaves the window     *)
(* empty for the next.  What cannot be read was cut, and only a lane       *)
(* access that has more immediates than the window traps for want of one.  *)
ImmediatesExact == frame # NoFrame => ReadAsWritten(Source, frame.count)
=============================================================================
