------------------------------- MODULE Numeric -------------------------------
(***************************************************************************)
(* fa_execute_op on one numeric or vector instruction: whatever the        *)
(* operands, one handler runs and answers or traps.                        *)
(***************************************************************************)
EXTENDS Scalar, Simd, WasmNumerics

CONSTANT Cases   \* families of pairs of an instruction and a stack

(* Stacks are sequences, and the vector instructions that may lose what    *)
(* they take have the operands validation gives them: a scalar or an       *)
(* address, and for a store or a lane that exists the bytes above it.      *)
OfOne == {"splat", "load", "load_extend", "load_splat", "load_zero"}
OfTwo(ins) ==
  \/ ins.op = "store"
  \/ ins.op \in {"load_lane", "store_lane"} /\ ins.lane \in Indices(ins.n)
ASSUME CasesAssumption ==
  \A family \in DOMAIN Cases : \A c \in Cases[family] :
    LET ins == c[1]  values == c[2]
    IN  /\ values \in Seq({values[k] : k \in DOMAIN values})
        /\ Len(ins.takes) \in Nat /\ ins.n \in Nat /\ ins.lane \in Nat
        /\ ins.class = "simd" /\ ins.op \in OfOne => Len(ins.takes) = 1
        /\ ins.class = "simd" /\ OfTwo(ins) =>
             /\ Len(ins.takes) = 2
             /\ values # <<>> /\ values[Len(values)].kind = "v128" =>
                  values[Len(values)].v \in [1 .. VectorSize -> Nat]

InitialMemory == [k \in 1 .. VectorSize + 4 |-> (k + k \div 5) % 2^ByteBits]

Init ==
  /\ \E family \in DOMAIN Cases : \E c \in Cases[family] :
       instr = c[1] /\ stack = c[2] /\ given = c[2]
  /\ memory = InitialMemory /\ found = InitialMemory
  /\ status = "ready"

Next == NextScalar \/ NextSimd \/ (status # "ready" /\ UNCHANGED vars)

Spec == Init /\ [][Next]_vars

(* Every operand is a value its kind can hold, and so is the memory.       *)
TypeOK ==
  /\ \A k \in DOMAIN stack :
       LET val == stack[k]
       IN  CASE val.kind = "i32" -> val.v \in SMin(W32) .. SMax(W32)
             [] val.kind = "i64" -> val.v \in SMin(W64) .. SMax(W64)
             [] OTHER -> val.kind \in {"f32", "f64", "ref", "v128"}
  /\ \A k \in DOMAIN memory : memory[k] \in 0 .. UMax(ByteBits)
  /\ status \in {"ready", "ok", "trap", "unknown", "dead"}

-----------------------------------------------------------------------------
(* instr.takes and instr.gives are the kinds WebAssembly gives the         *)
(* instruction.                                                            *)

Taken == Len(instr.takes)
Typed == /\ Len(given) >= Taken
         /\ \A k \in 1 .. Taken : given[Len(given) - Taken + k].kind = instr.takes[k]
G(k) == given[Len(given) - k].v
Rest == SubSeq(given, 1, Len(given) - Taken)
Result == stack[Len(stack)]
Delivered == status = "ok" /\ SubSeq(stack, 1, Len(stack) - 1) = Rest
             /\ Result.kind = instr.gives
R == Unsigned(Result.v, IF Result.kind = "i32" THEN W32 ELSE W64)
A1(k) == Unsigned(G(k), Width)

(* The smallest i64 modulo -1 is undefined in C; a truncation at the edge  *)
(* of its range is left to TruncMirrorsSat.                                *)
Undecided ==
  \/ status = "dead"
  \/ instr.op = "trunc"
     /\ (status = "trap" \/ ~Fits(G(0), instr.t, Width))

(* Where the code answers something else than WebAssembly, which the       *)
(* properties below demand as it is, so that no operand is left out:       *)
(*  - min and max of NaN and a number are the number, as the C library's   *)
(*    fmin and fmax have it, and not NaN;                                  *)
(*  - pmin and pmax are NaN also when only the second operand is, and not  *)
(*    the first operand;                                                   *)
(*  - a narrow_u reads the lanes it narrows as unsigned, so that one with  *)
(*    its sign bit set becomes the largest lane and not 0;                 *)
(*  - relaxed_swizzle takes any index modulo 16, also one of 128 or more,  *)
(*    which selects 0.                                                     *)
OfNaN(op, a, b) == IF op \in {"pmin", "pmax"} \/ (IsNaN(a) /\ IsNaN(b)) THEN NaN
                   ELSE IF IsNaN(a) THEN b ELSE a
ExtremeOk(op, a, b, r) ==
  IF IsNaN(a) \/ IsNaN(b) THEN r = OfNaN(op, a, b)
  ELSE /\ r \in {a, b}
       /\ \A x \in {a, b} : IF op \in {"min", "pmin"} THEN Rank(r) <= Rank(x)
                            ELSE Rank(r) >= Rank(x)

(* The functions of C whose value is left as a term: the right one, of the *)
(* right operands, the older one first.                                    *)
LibraryUnary == {"ceil", "floor", "trunc_float", "nearest", "sqrt"}
LibraryBinary == {"add", "sub", "mul", "div", "copysign"}

FloatUnaryOk(op, a, r) ==
  CASE op = "abs" -> ~Negative(r) /\ r \in {a, FNeg(a)}
    [] op = "neg" -> r.c = a.c /\ Rank(r) = -Rank(a)
    [] op \in LibraryUnary -> r = Computed(op, <<a>>)

FloatUnaryOps == {"abs", "neg"} \cup LibraryUnary
FloatAgrees ==
  CASE instr.op \in Relations -> R = IF FHolds(instr.op, G(1), G(0)) THEN 1 ELSE 0
    [] instr.op \in {"min", "max"} -> ExtremeOk(instr.op, G(1), G(0), Result.v)
    [] instr.op \in FloatUnaryOps -> FloatUnaryOk(instr.op, G(0), Result.v)
    [] instr.op \in LibraryBinary -> Result.v = Computed(instr.op, <<G(1), G(0)>>)
    [] instr.op = "resize" -> Result.v = G(0)
    [] instr.op = "const" -> Result.v = instr.imm
    [] instr.op = "reinterpret" -> Result.v = Bits(A1(0))

IntBinaryOps == {"add", "sub", "mul", "div", "rem", "and", "or", "xor", "shl", "shr_s",
                 "shr_u", "rotl", "rotr"} \cup Relations
IntUnaryOps == {"eqz", "popcnt", "clz", "ctz"}
Conversions == {"wrap", "extend_i32", "extend_low"}

ScalarAgrees ==
  CASE instr.op \in {"trunc", "trunc_sat"} -> TruncSatOk(G(0), instr.t, Width, Result.v)
    [] instr.op = "convert" ->
         Result.v = Whole(IF instr.t = "s" THEN G(0) ELSE Unsigned(G(0), instr.from))
    [] instr.op \in Conversions ->
         ConversionOk[instr.op, instr.t, Width, instr.from, G(0), Result.v]
    [] instr.t = "f" -> FloatAgrees
    [] instr.op \in IntBinaryOps -> IntBinary[instr.op, instr.t, Width, A1(1), A1(0), R]
    [] instr.op \in IntUnaryOps -> IntUnary[instr.op, Width, A1(0), R]
    [] instr.op = "select" -> Result = given[Len(given) - IF G(0) # 0 THEN 2 ELSE 1]
    [] instr.op = "const" -> Result.v = instr.imm
    [] instr.op = "reinterpret" -> Bits(R) = G(0)

(* A well-typed scalar instruction traps exactly where WebAssembly says it *)
(* does, and otherwise leaves one result of the right kind, above whatever *)
(* lay under its operands, that WebAssembly defines: overflow, shifts by   *)
(* the width and more, division towards zero, sign extension, comparisons  *)
(* of both signs, floats out of range.  The one exception is min and max   *)
(* of NaN and a number, where the number is demanded (OfNaN).              *)
ScalarExact ==
  instr.class = "scalar" /\ instr.op # "drop" /\ Typed /\ status # "ready" /\ ~Undecided =>
    IF instr.op \in Divisions /\ instr.t # "f"
       /\ MustTrap(instr.op, instr.t, Width, A1(1), A1(0))
    THEN status = "trap" ELSE Delivered /\ ScalarAgrees

-----------------------------------------------------------------------------

In(k, n, i) == LaneOf(G(k), n, i)
Out(i) == LaneOf(Result.v, N, i)
Half(k, i) == IF instr.t = "s" THEN Signed(In(k, N \div 2, i), LaneBits \div 2)
              ELSE In(k, N \div 2, i)

HighBase == IF instr.high THEN VectorSize \div N ELSE 0

Fused(product, i) == Result.v[i] = Computed("add", <<product, G(0)[i]>>)

FloatLaneAgrees(i) ==
  CASE instr.op \in Relations ->
         Out(i) = IF FHolds(instr.op, G(1)[i], G(0)[i]) THEN UMax(LaneBits) ELSE 0
    [] instr.op \in {"min", "max", "pmin", "pmax"} ->
         ExtremeOk(instr.op, G(1)[i], G(0)[i], Result.v[i])
    [] instr.op \in FloatUnaryOps -> FloatUnaryOk(instr.op, G(0)[i], Result.v[i])
    [] instr.op \in LibraryBinary -> Result.v[i] = Computed(instr.op, <<G(1)[i], G(0)[i]>>)
    [] instr.op = "madd" -> Fused(Computed("mul", <<G(2)[i], G(1)[i]>>), i)
    [] instr.op = "nmadd" ->
         Fused(Computed("neg", <<Computed("mul", <<G(2)[i], G(1)[i]>>)>>), i)
    [] instr.op = "resize" -> Result.v[i] = IF i \in DOMAIN G(0) THEN G(0)[i] ELSE Halves(0)
    [] instr.op = "splat" -> Result.v[i] = G(0)
    [] instr.op = "replace_lane" -> Result.v[i] = IF i = instr.imm THEN G(0) ELSE G(1)[i]

NarrowSource(i) ==
  LET half == VectorSize \div (2 * N)
  IN  IF i < half THEN In(1, 2 * N, i) ELSE In(0, 2 * N, i - half)

NarrowOk(i) ==
  IF instr.t = "u" /\ NarrowSource(i) > SMax(2 * LaneBits) THEN Out(i) = UMax(LaneBits)
  ELSE LaneNarrow(instr.t, LaneBits, NarrowSource(i), Out(i))

LaneAgrees(i) ==
  CASE instr.op \in Relations ->
         Out(i) = IF IntBinary[instr.op, instr.t, LaneBits, In(1, N, i), In(0, N, i), 1]
                  THEN UMax(LaneBits) ELSE 0
    [] instr.op \in {"abs", "neg", "popcnt"} -> LaneUnary[instr.op, LaneBits, In(0, N, i), Out(i)]
    [] instr.op \in I16x8Binary \cup {"q15mulr"} ->
         LaneBinary[instr.op, LaneBits, In(1, N, i), In(0, N, i), Out(i)]
    [] instr.op \in {"shl", "shr_s", "shr_u"} ->
         LaneShift[instr.op, LaneBits, In(1, N, i), Unsigned(G(0), W32), Out(i)]
    [] instr.op = "narrow" -> NarrowOk(i)
    [] instr.op = "extend" ->
         LaneIs(LaneBits, Half(0, HighBase + i), Out(i))
    [] instr.op = "extadd_pairwise" ->
         LaneIs(LaneBits, Half(0, 2 * i) + Half(0, 2 * i + 1), Out(i))
    [] instr.op = "extmul" ->
         LaneIs(LaneBits, Half(0, HighBase + i) * Half(1, HighBase + i), Out(i))
    [] instr.op = "dot" ->
         LaneIs(LaneBits, Half(0, 2*i) * Half(1, 2*i) + Half(0, 2*i+1) * Half(1, 2*i+1), Out(i))
    [] instr.op = "laneselect" ->
         Out(i) = In(IF Signed(In(0, N, i), LaneBits) < 0 THEN 2 ELSE 1, N, i)
    [] instr.op = "trunc_sat" ->
         IF i \in DOMAIN G(0) THEN TruncSatOk(G(0)[i], instr.t, W32, Out(i)) ELSE Out(i) = 0
    [] instr.op = "convert" ->
         Result.v[i] = Whole(IF instr.t = "s" THEN Signed(In(0, 4, i), W32) ELSE In(0, 4, i))
    [] instr.op = "splat" -> LaneIs(LaneBits, G(0), Out(i))
    [] instr.op = "replace_lane" ->
         Out(i) = IF i = instr.imm THEN Unsigned(G(0), LaneBits) ELSE In(1, N, i)

ByteOps == {"const", "swizzle", "relaxed_swizzle", "shuffle", "bitselect", "andnot", "not",
            "and", "or", "xor"}
ByteAgrees(k) ==
  CASE instr.op = "const" -> Result.v[k] = instr.imm[k]
    [] instr.op = "relaxed_swizzle" -> Result.v[k] = G(1)[(G(0)[k] % VectorSize) + 1]
    [] instr.op = "swizzle" ->
         Result.v[k] = IF G(0)[k] < VectorSize THEN G(1)[G(0)[k] + 1] ELSE 0
    [] instr.op = "shuffle" -> Result.v[k] = (G(1) \o G(0))[instr.imm[k] + 1]
    [] instr.op = "bitselect" ->
         \A j \in 0 .. ByteBits - 1 :
           Bit(Result.v[k], j) = Bit(IF Bit(G(0)[k], j) = 1 THEN G(2)[k] ELSE G(1)[k], j)
    [] instr.op = "andnot" ->
         \A j \in 0 .. ByteBits - 1 :
           Bit(Result.v[k], j) = 1 <=> Bit(G(1)[k], j) = 1 /\ Bit(G(0)[k], j) = 0
    [] instr.op = "not" -> Result.v[k] + G(0)[k] = UMax(ByteBits)
    [] instr.op \in {"and", "or", "xor"} ->
         IntBinary[instr.op, "u", ByteBits, G(1)[k], G(0)[k], Result.v[k]]

(* The results that are not vectors.                                       *)
WholeAgrees ==
  CASE instr.op = "extract_lane" ->
         (CASE instr.t = "f" -> Result.v = G(0)[instr.imm]
            [] instr.t = "s" -> Result.v = Signed(In(0, N, instr.imm), LaneBits)
            [] instr.t = "u" -> R = In(0, N, instr.imm))
    [] instr.op = "bitmask" ->
         \A i \in 0 .. W32 - 1 :
           Bit(R, i) = 1 <=> i \in Indices(N) /\ Signed(In(0, N, i), LaneBits) < 0
    [] instr.op = "all_true" -> R = 1 <=> \A i \in Indices(N) : In(0, N, i) # 0
    [] instr.op = "any_true" -> R = 1 <=> \E k \in 1 .. VectorSize : G(0)[k] # 0

Loads == {"load", "load_extend", "load_splat", "load_zero", "load_lane"}
Stores == {"store", "store_lane"}
Accesses == Loads \cup Stores
Registers == instr.class = "simd" /\ instr.op \notin Accesses \cup {"unassigned"}

Extent == CASE instr.op \in {"load", "store"} -> VectorSize
            [] instr.op = "load_extend" -> 8
            [] OTHER -> N
At == Unsigned(G(Taken - 1), W32) + instr.imm    \* the address is the oldest operand
Cell(i, n) == LaneOf(SubSeq(found, At + 1, At + Extent), n, i)

LoadAgrees(i) ==
  CASE instr.op = "load" -> Out(i) = Cell(i, N)
    [] instr.op = "load_splat" -> Out(i) = Cell(0, N)
    [] instr.op = "load_zero" -> Out(i) = IF i = 0 THEN Cell(0, N) ELSE 0
    [] instr.op = "load_lane" -> Out(i) = IF i = instr.lane THEN Cell(0, N) ELSE In(0, N, i)
    [] instr.op = "load_extend" ->
         LET half == LaneBits \div 2
         IN  LaneIs(LaneBits, IF instr.t = "s" THEN Signed(Cell(i, N \div 2), half)
                              ELSE Cell(i, N \div 2), Out(i))

StoreAgrees ==
  SubSeq(memory, At + 1, At + Extent) =
    IF instr.op = "store" THEN G(0) ELSE SubSeq(G(0), instr.lane * N + 1, (instr.lane + 1) * N)

AccessAgrees ==
  IF At + Extent > Len(found) THEN status = "trap"
  ELSE /\ status = "ok"
       /\ IF instr.op \in Stores THEN StoreAgrees
          ELSE Delivered /\ \A i \in Indices(N) : LoadAgrees(i)

(* A well-typed vector instruction does to every lane what WebAssembly     *)
(* defines, for every lane size that has it: saturation at both ends, the  *)
(* mask of the shift amount, the half that is widened, the side that comes *)
(* first, NaN in a comparison; and an access to memory succeeds exactly    *)
(* when all of it is in the memory.  The exceptions are NaN in min, max,   *)
(* pmin and pmax, the unsigned reading of narrow_u and the indices of      *)
(* relaxed_swizzle, where what the code answers is demanded (see OfNaN).   *)
LanesExact ==
  Typed /\ status # "ready" =>
    /\ instr.class = "simd" /\ instr.op \in Accesses => AccessAgrees
    /\ Registers =>
         /\ Delivered
         /\ IF instr.gives # "v128" THEN WholeAgrees
            ELSE IF instr.op \in ByteOps THEN \A k \in 1 .. VectorSize : ByteAgrees(k)
            ELSE IF instr.t = "f" THEN \A i \in Indices(N) : FloatLaneAgrees(i)
            ELSE \A i \in Indices(N) : LaneAgrees(i)

(* A trap loses no operand and swaps none, for every scalar instruction,   *)
(* whatever was on the stack; the operands of a vector instruction may be  *)
(* lost, but nothing under them is touched.  Memory changes only when a    *)
(* store succeeds, and then only in the bytes it addresses.                *)
TrapKeepsOperands ==
  /\ status = "trap" =>
       /\ memory = found
       /\ instr.class = "scalar" => stack = given
       /\ Len(given) >= Taken => SubSeq(stack, 1, Len(given) - Taken) = Rest
  /\ memory # found =>
       /\ status = "ok" /\ instr.op \in Stores /\ stack = Rest
       /\ \A k \in DOMAIN memory :
            memory[k] # found[k] =>
              k - (Unsigned(G(1), W32) + instr.imm) \in
                1 .. IF instr.op = "store" THEN VectorSize ELSE N

(* A truncation that traps on what is out of range ("These mirror the      *)
(* trapping trunc ops above but clamp instead of trapping") traps exactly  *)
(* where the saturating one clamps, and drops the same fraction otherwise. *)
TruncMirrorsSat ==
  instr.op = "trunc" /\ Typed /\ status # "ready" =>
    IF Fits(G(0), instr.t, Width)
    THEN status = "ok" /\ TruncSatOk(G(0), instr.t, Width, Result.v)
    ELSE status = "trap"
=============================================================================
