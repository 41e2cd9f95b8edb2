-------------------------------- MODULE Simd --------------------------------
(***************************************************************************)
(* The handlers of the vector instructions (prefix 0xFD), family by        *)
(* family: the cases each family has, and what a case does to the lanes.   *)
(* instr.n is the size of a lane in bytes, of the result where a lane      *)
(* changes size; the size says the family, i8x16 to i64x2.  A vector       *)
(* operand of another kind traps.                                          *)
(***************************************************************************)
EXTENDS Operands

IsSimd(ops) == status = "ready" /\ instr.class = "simd" /\ instr.op \in ops
N == instr.n
LaneBits == N * ByteBits

TakesVectors(k) == Has(k) /\ Kinds(k) = {"v128"}
Ls == Lanes(Lhs, N)
Rs == Lanes(Rhs, N)
Trues(f) == Vector([i \in Indices(N) |-> IF f[i] THEN UMax(LaneBits) ELSE 0], N)

(* pop_v128_value and pop_two_v128_values: what is taken is put back.      *)
With(k, result) == IF TakesVectors(k) THEN Answer(k, result) ELSE Trap(k)

-----------------------------------------------------------------------------
(* op_simd_build and op_simd_lane.                                         *)

VectorConst == IsSimd({"const"}) /\ Answer(0, Value("v128", instr.imm))

Shuffle ==
  /\ IsSimd({"shuffle"})
  /\ With(2, Value("v128", [k \in 1 .. VectorSize |->
       LET lane == instr.imm[k]
       IN  IF lane < VectorSize THEN Lhs.v[lane + 1]
           ELSE IF lane < 2 * VectorSize THEN Rhs.v[lane - VectorSize + 1] ELSE 0]))

(* relaxed_swizzle takes the index modulo the size instead.                *)
Swizzle ==
  /\ IsSimd({"swizzle", "relaxed_swizzle"})
  /\ With(2, Value("v128", [k \in 1 .. VectorSize |->
       IF instr.op = "relaxed_swizzle" THEN Lhs.v[(Rhs.v[k] % VectorSize) + 1]
       ELSE IF Rhs.v[k] < VectorSize THEN Lhs.v[Rhs.v[k] + 1] ELSE 0]))

ScalarOf == IF instr.t = "f" THEN (IF N = 4 THEN "f32" ELSE "f64")
            ELSE (IF N = 8 THEN "i64" ELSE "i32")

(* A scalar of another kind is lost.                                       *)
Splat ==
  /\ IsSimd({"splat"})
  /\ IF ~Has(1) THEN Trap(1)
     ELSE IF Rhs.kind # ScalarOf THEN Lose(1)
     ELSE IF instr.t = "f" THEN Answer(1, FloatVector([i \in Indices(N) |-> Rhs.v]))
     ELSE Answer(1, Vector([i \in Indices(N) |-> Unsigned(Rhs.v, LaneBits)], N))

(* simd_pop_lane_index *)
LaneInRange == instr.imm \in Indices(N)

ExtractLane ==
  /\ IsSimd({"extract_lane"})
  /\ IF ~LaneInRange THEN Trap(0)
     ELSE With(1, CASE instr.t = "f" -> PushFloat(Rhs.v[instr.imm], LaneBits)
                    [] instr.t = "s" -> PushInt(Signed(Rs[instr.imm], LaneBits), LaneBits)
                    [] instr.t = "u" -> PushInt(Rs[instr.imm], LaneBits))

(* The scalar is the newest operand.                                       *)
Replaced ==
  IF instr.t = "f" THEN FloatVector([Lhs.v EXCEPT ![instr.imm] = Rhs.v])
  ELSE Vector([Ls EXCEPT ![instr.imm] = Unsigned(Rhs.v, LaneBits)], N)
ReplaceLane ==
  /\ IsSimd({"replace_lane"})
  /\ IF LaneInRange /\ Has(2) /\ Rhs.kind = ScalarOf /\ Lhs.kind = "v128"
     THEN Answer(2, Replaced)
     ELSE Trap(IF LaneInRange THEN 2 ELSE 0)

-----------------------------------------------------------------------------
(* op_simd_cmp, the comparisons of op_simd_i64x2, and op_simd_bitwise.     *)

CompareCases ==
  [k \in {1, 2, 4} |-> {"eq", "ne"} \X {"u"} \cup {"lt", "gt", "le", "ge"} \X {"s", "u"}]
I64x2Compare == Relations \X {"s"}

(* instr.t says how the lanes are read.                                    *)
Read(x) == IF instr.t = "s" THEN Signed(x, LaneBits) ELSE x
Compares == IF N = 8 THEN I64x2Compare ELSE CompareCases[N]

SimdCompare ==
  /\ IsSimd(Relations) /\ <<instr.op, instr.t>> \in Compares
  /\ With(2, Trues([i \in Indices(N) |-> Holds(instr.op, Read(Ls[i]), Read(Rs[i]))]))

SimdCompareFloat ==
  /\ IsSimd(Relations) /\ instr.t = "f"
  /\ With(2, Trues([i \in Indices(N) |-> FHolds(instr.op, Lhs.v[i], Rhs.v[i])]))

(* The words low and high, byte by byte.                                   *)
ByteOf(op, a, b) ==
  LET Sum[k \in 0 .. ByteBits] ==
        IF k = 0 THEN 0
        ELSE Sum[k-1] + 2^(k-1) *
             (CASE op = "and" -> Bit(a, k-1) * Bit(b, k-1)
                [] op = "andnot" -> Bit(a, k-1) * (1 - Bit(b, k-1))
                [] op = "or" -> IF Bit(a, k-1) + Bit(b, k-1) > 0 THEN 1 ELSE 0
                [] op = "xor" -> (Bit(a, k-1) + Bit(b, k-1)) % 2)
  IN  Sum[ByteBits]

SimdBitwise ==
  /\ IsSimd({"and", "andnot", "or", "xor"})
  /\ With(2, Value("v128", [k \in 1 .. VectorSize |-> ByteOf(instr.op, Lhs.v[k], Rhs.v[k])]))

SimdNot ==
  /\ IsSimd({"not"})
  /\ With(1, Value("v128", [k \in 1 .. VectorSize |-> UMax(ByteBits) - Rhs.v[k]]))

Bitselect ==
  /\ IsSimd({"bitselect"})
  /\ With(3, Value("v128", [k \in 1 .. VectorSize |->
       ByteOf("or", ByteOf("and", Top(2).v[k], Rhs.v[k]),
                    ByteOf("andnot", Lhs.v[k], Rhs.v[k]))]))

AnyTrue == /\ IsSimd({"any_true"})
           /\ With(1, PushBool(\E k \in 1 .. VectorSize : Rhs.v[k] # 0))

-----------------------------------------------------------------------------
(* op_simd_i8x16 to op_simd_i64x2: the cases.                              *)

I8x16Unary == {"abs", "neg", "popcnt"}
I8x16Binary == {"add", "add_sat_s", "add_sat_u", "sub", "sub_sat_s", "sub_sat_u",
                "min_s", "min_u", "max_s", "max_u", "avgr_u"}
I16x8Unary == {"abs", "neg"}
I16x8Binary == I8x16Binary \cup {"mul"}
I32x4Unary == {"abs", "neg"}
I32x4Binary == {"add", "sub", "mul", "min_s", "min_u", "max_s", "max_u"}
I64x2Unary == {"abs", "neg"}
I64x2Binary == {"add", "sub", "mul"}

UnaryCases == CASE N = 1 -> I8x16Unary [] N = 2 -> I16x8Unary
                [] N = 4 -> I32x4Unary [] N = 8 -> I64x2Unary
BinaryCases == CASE N = 1 -> I8x16Binary [] N = 2 -> I16x8Binary
                 [] N = 4 -> I32x4Binary [] N = 8 -> I64x2Binary

UnaryLane[op \in STRING, x \in Nat] ==
  CASE op = "abs" -> IF Signed(x, LaneBits) < 0 THEN -x ELSE x
    [] op = "neg" -> -x
    [] op = "popcnt" -> Cardinality({k \in 0 .. LaneBits - 1 : Bit(x, k) = 1})

SimdUnary ==
  /\ IsSimd({"abs", "neg", "popcnt"}) /\ instr.t # "f" /\ instr.op \in UnaryCases
  /\ With(1, Vector([i \in Indices(N) |-> UnaryLane[instr.op, Rs[i]]], N))

SimdAllTrue == /\ IsSimd({"all_true"})
               /\ With(1, PushBool(\A i \in Indices(N) : Rs[i] # 0))

(* One bit for each lane; bits past the width of an i32 do not exist.      *)
SimdBitmask ==
  /\ IsSimd({"bitmask"})
  /\ LET Mask[i \in 0 .. VectorSize \div N] ==
           IF i = 0 THEN 0
           ELSE Mask[i-1] + (IF Rs[i-1] > SMax(LaneBits) THEN 2^(i-1) ELSE 0)
     IN  With(1, PushInt(Mask[VectorSize \div N], W32))

(* Defect: a sum that is too large wraps around instead.                   *)
BugSaturated(x, signed) == x

(* simd_saturate_i8 and the others *)
Saturated(x, signed) ==
  IF signed THEN Clamp(x, SMin(LaneBits), SMax(LaneBits)) ELSE Clamp(x, 0, UMax(LaneBits))

(* Lanes of twice the size become lanes of size N, left ones first; the    *)
(* unsigned form reads them as unsigned.                                   *)
SimdNarrow ==
  /\ IsSimd({"narrow"}) /\ N \in {1, 2}
  /\ LET wide == LaneBits * 2
         half == VectorSize \div (2 * N)
         From(vec, i) == LaneOf(vec.v, 2 * N, i)
         Saturate(x) == Saturated(IF instr.t = "s" THEN Signed(x, wide) ELSE x, instr.t = "s")
     IN  With(2, Vector([i \in Indices(N) |->
                  Saturate(IF i < half THEN From(Lhs, i) ELSE From(Rhs, i - half))], N))

(* The shift is the newest operand, an i32.                                *)
SimdShift ==
  /\ IsSimd({"shl", "shr_s", "shr_u"})
  /\ IF Has(2) /\ Rhs.kind = "i32" /\ Lhs.kind = "v128"
     THEN LET k == Unsigned(Rhs.v, W32) % LaneBits
          IN  Answer(2, Vector([i \in Indices(N) |->
                CASE instr.op = "shl" -> Unsigned(Ls[i] * 2^k, LaneBits)
                  [] instr.op = "shr_s" -> Signed(Ls[i], LaneBits) \div 2^k
                  [] instr.op = "shr_u" -> Ls[i] \div 2^k], N))
     ELSE Trap(2)

Lesser(a, b) == IF a < b THEN a ELSE b
Greater(a, b) == IF a > b THEN a ELSE b
S(x) == Signed(x, LaneBits)

(* The product has the same low bits whichever way the lanes are read.     *)
BinaryLane[op \in STRING, a \in Nat, b \in Nat] ==
  CASE op = "add" -> a + b
    [] op = "sub" -> a - b
    [] op = "mul" -> S(a) * S(b)
    [] op = "add_sat_s" -> Saturated(S(a) + S(b), TRUE)
    [] op = "add_sat_u" -> Saturated(a + b, FALSE)
    [] op = "sub_sat_s" -> Saturated(S(a) - S(b), TRUE)
    [] op = "sub_sat_u" -> Saturated(a - b, FALSE)
    [] op = "min_s" -> Lesser(S(a), S(b))
    [] op = "min_u" -> Lesser(a, b)
    [] op = "max_s" -> Greater(S(a), S(b))
    [] op = "max_u" -> Greater(a, b)
    [] op = "avgr_u" -> (a + b + 1) \div 2

SimdBinary ==
  /\ IsSimd(I16x8Binary) /\ instr.t # "f" /\ instr.op \in BinaryCases
  /\ With(2, Vector([i \in Indices(N) |-> BinaryLane[instr.op, Ls[i], Rs[i]]], N))

-----------------------------------------------------------------------------
(* Operations from lanes of half the size.                                 *)

Narrow(x) == IF instr.t = "s" THEN Signed(x, LaneBits \div 2) ELSE x
HalfLane(vec, i) == Narrow(LaneOf(vec.v, N \div 2, i))

SimdExtaddPairwise ==
  /\ IsSimd({"extadd_pairwise"}) /\ N \in {2, 4}
  /\ With(1, Vector([i \in Indices(N) |-> HalfLane(Rhs, 2 * i) + HalfLane(Rhs, 2 * i + 1)], N))

(* instr.high says which half of the lanes is taken.                       *)
Base == IF instr.high THEN VectorSize \div N ELSE 0

SimdExtend ==
  /\ IsSimd({"extend"}) /\ N \in {2, 4, 8}
  /\ With(1, Vector([i \in Indices(N) |-> HalfLane(Rhs, Base + i)], N))

SimdExtmul ==
  /\ IsSimd({"extmul"}) /\ N \in {2, 4, 8}
  /\ With(2, Vector([i \in Indices(N) |->
               HalfLane(Lhs, Base + i) * HalfLane(Rhs, Base + i)], N))

SimdDot ==
  /\ IsSimd({"dot"}) /\ N = 4
  /\ With(2, Vector([i \in Indices(N) |->
               HalfLane(Lhs, 2*i) * HalfLane(Rhs, 2*i)
               + HalfLane(Lhs, 2*i + 1) * HalfLane(Rhs, 2*i + 1)], N))

(* q15mulr_sat_s and relaxed_q15mulr_s *)
SimdQ15mulr ==
  /\ IsSimd({"q15mulr"}) /\ N = 2
  /\ With(2, Vector([i \in Indices(N) |->
       Saturated((S(Ls[i]) * S(Rs[i]) + 2^(LaneBits-2)) \div 2^(LaneBits-1), TRUE)], N))

(* relaxed_laneselect: the sign of the mask chooses.                       *)
SimdLaneselect ==
  /\ IsSimd({"laneselect"})
  /\ With(3, Vector([i \in Indices(N) |->
               IF Rs[i] > SMax(LaneBits) THEN LaneOf(Top(2).v, N, i) ELSE Ls[i]], N))

-----------------------------------------------------------------------------
(* op_simd_f32x4, op_simd_f64x2, op_simd_convert and the floats of         *)
(* op_simd_relaxed.                                                        *)

F32x4Unary == {"abs", "neg", "sqrt"}
F64x2Unary == F32x4Unary
F32x4Binary == {"add", "sub", "mul", "div", "min", "max", "pmin", "pmax"}
F64x2Binary == F32x4Binary

(* simd_pmin_f32 and the others *)
PMin(a, b) == IF IsNaN(a) \/ IsNaN(b) THEN NaN ELSE FMin(a, b)
PMax(a, b) == IF IsNaN(a) \/ IsNaN(b) THEN NaN ELSE FMax(a, b)

SimdFloatUnary ==
  /\ IsSimd(F32x4Unary) /\ instr.t = "f"
  /\ With(1, FloatVector([i \in Indices(N) |->
       CASE instr.op = "abs" -> FAbs(Rhs.v[i])
         [] instr.op = "neg" -> FNeg(Rhs.v[i])
         [] instr.op = "sqrt" -> Computed("sqrt", <<Rhs.v[i]>>)]))

(* Also relaxed_min and relaxed_max. *)
SimdFloatBinary ==
  /\ IsSimd(F32x4Binary) /\ instr.t = "f"
  /\ With(2, FloatVector([i \in Indices(N) |->
       CASE instr.op = "min" -> FMin(Lhs.v[i], Rhs.v[i])
         [] instr.op = "max" -> FMax(Lhs.v[i], Rhs.v[i])
         [] instr.op = "pmin" -> PMin(Lhs.v[i], Rhs.v[i])
         [] instr.op = "pmax" -> PMax(Lhs.v[i], Rhs.v[i])
         [] OTHER -> Computed(instr.op, <<Lhs.v[i], Rhs.v[i]>>)]))

(* relaxed_madd and relaxed_nmadd: the accumulator is the newest operand.  *)
SimdMadd ==
  /\ IsSimd({"madd", "nmadd"})
  /\ With(3, FloatVector([i \in Indices(N) |->
       LET product == Computed("mul", <<Top(2).v[i], Lhs.v[i]>>)
       IN  Computed("add", <<IF instr.op = "madd" THEN product
                             ELSE Computed("neg", <<product>>), Rhs.v[i]>>)]))

(* simd_trunc_sat_f32_to_i32 and the others *)
TruncSatLane(f) ==
  IF IsNaN(f) THEN 0
  ELSE IF instr.t = "s" THEN (IF Rank(f) < 2 * SMin(W32) THEN SMin(W32)
                              ELSE IF Rank(f) > 2 * SMax(W32) THEN SMax(W32)
                              ELSE Truncated(f))
  ELSE (IF Rank(f) <= 0 THEN 0 ELSE IF Rank(f) > 2 * UMax(W32) THEN UMax(W32)
        ELSE Truncated(f))

(* trunc_sat and relaxed_trunc, from 4 floats or from 2 and zeros.         *)
SimdTruncSat ==
  /\ IsSimd({"trunc_sat"}) /\ N = 4
  /\ With(1, Vector([i \in Indices(4) |->
       IF i \in DOMAIN Rhs.v THEN TruncSatLane(Rhs.v[i]) ELSE 0], 4))

(* Lanes of 4 bytes, all of them or the low two.                           *)
SimdConvert ==
  /\ IsSimd({"convert"}) /\ N \in {4, 8}
  /\ With(1, FloatVector([i \in Indices(N) |->
       Whole(LET x == LaneOf(Rhs.v, 4, i) IN IF instr.t = "s" THEN Signed(x, W32) ELSE x)]))

(* demote_f64x2_zero and promote_low_f32x4, of op_simd_memlane.            *)
SimdResize ==
  /\ IsSimd({"resize"}) /\ N \in {4, 8}
  /\ With(1, FloatVector([i \in Indices(N) |->
       IF i \in DOMAIN Rhs.v THEN Rhs.v[i] ELSE Halves(0)]))

-----------------------------------------------------------------------------
(* op_simd_mem and op_simd_memlane.  instr.imm is the offset, and lane the *)
(* lane; memory 0 is a 32-bit memory.                                      *)

(* simd_resolve_memarg_address: where the address lies under k operands.   *)
AddressIs(k) == Has(k + 1) /\ Top(k).kind = "i32"
Address(k) == ToU64(Top(k)) + instr.imm
InBounds(k, size) == Address(k) + size <= Len(memory)

Loaded(k, size, i) ==
  LET Sum[j \in 0 .. size] ==
        IF j = 0 THEN 0
        ELSE Sum[j-1] + memory[Address(k) + i * size + j] * 2^(ByteBits * (j-1))
  IN  Sum[size]

(* The address is gone when the access is out of bounds.                   *)
LoadWith(size, result) ==
  IF ~AddressIs(0) THEN Trap(1)
  ELSE IF ~InBounds(0, size) THEN Lose(1) ELSE Answer(1, result)

VectorLoad ==
  /\ IsSimd({"load"})
  /\ LoadWith(VectorSize, Vector([i \in Indices(1) |-> Loaded(0, 1, i)], 1))

(* v128.load8x8_s and the others: N is the size of the result's lanes.     *)
VectorLoadExtend ==
  /\ IsSimd({"load_extend"}) /\ N \in {2, 4, 8}
  /\ LoadWith(8, Vector([i \in Indices(N) |-> Narrow(Loaded(0, N \div 2, i))], N))

VectorLoadSplat ==
  /\ IsSimd({"load_splat"})
  /\ LoadWith(N, Vector([i \in Indices(N) |-> Loaded(0, N, 0)], N))

VectorLoadZero ==
  /\ IsSimd({"load_zero"}) /\ N \in {4, 8}
  /\ LoadWith(N, Vector([i \in Indices(N) |-> IF i = 0 THEN Loaded(0, N, 0) ELSE 0], N))

(* simd_store_bytes *)
Stored(bytes, at) ==
  [k \in DOMAIN memory |-> IF k - at \in DOMAIN bytes THEN bytes[k - at] ELSE memory[k]]

StoreWith(bytes) ==
  IF InBounds(1, Len(bytes))
  THEN /\ memory' = Stored(bytes, Address(1)) /\ stack' = Below(2) /\ status' = "ok"
       /\ Unchanged
  ELSE Lose(2)

(* The vector is the newest operand; it is put back when there is no       *)
(* address under it.                                                       *)
VectorStore ==
  /\ IsSimd({"store"})
  /\ IF TakesVectors(1) /\ AddressIs(1) THEN StoreWith(Rhs.v) ELSE Trap(2)

LoadLane ==
  /\ IsSimd({"load_lane"})
  /\ IF instr.lane \in Indices(N) /\ TakesVectors(1) /\ AddressIs(1)
     THEN IF InBounds(1, N)
          THEN Answer(2, Vector([Rs EXCEPT ![instr.lane] = Loaded(1, N, 0)], N))
          ELSE TrapWith(Append(Below(2), Rhs))
     ELSE Trap(2)

StoreLane ==
  /\ IsSimd({"store_lane"})
  /\ IF instr.lane \in Indices(N) /\ TakesVectors(1) /\ AddressIs(1)
     THEN StoreWith(SubSeq(Rhs.v, instr.lane * N + 1, (instr.lane + 1) * N))
     ELSE Trap(2)

(* op_simd: a subopcode that no family owns.                               *)
SimdUnknown ==
  /\ IsSimd({"unassigned"})
  /\ status' = "unknown" /\ UNCHANGED <<stack, memory>> /\ Unchanged

NextSimd ==
  \/ VectorConst \/ Shuffle \/ Swizzle \/ Splat \/ ExtractLane \/ ReplaceLane
  \/ SimdCompare \/ SimdCompareFloat \/ SimdBitwise \/ SimdNot \/ Bitselect
  \/ AnyTrue \/ SimdUnary \/ SimdAllTrue \/ SimdBitmask \/ SimdNarrow
  \/ SimdShift \/ SimdBinary \/ SimdExtaddPairwise \/ SimdExtend \/ SimdExtmul
  \/ SimdDot \/ SimdQ15mulr \/ SimdLaneselect \/ SimdFloatUnary
  \/ SimdFloatBinary \/ SimdMadd \/ SimdTruncSat \/ SimdConvert \/ SimdResize
  \/ VectorLoad \/ VectorLoadExtend \/ VectorLoadSplat \/ VectorLoadZero
  \/ VectorStore \/ LoadLane \/ StoreLane \/ SimdUnknown
=============================================================================
