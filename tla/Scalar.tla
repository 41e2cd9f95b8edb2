------------------------------- MODULE Scalar -------------------------------
(***************************************************************************)
(* The handlers of the scalar instructions, each as it is written: what it *)
(* takes from the stack, the computation in 64 bits, and the cut to the    *)
(* width of the descriptor when the result is pushed.  The descriptor says *)
(* w, the width, and t: "s" and "u" for integers, "f" for floats.          *)
(* Operands of a float kind are not given to integer instructions, nor     *)
(* integers to float instructions, though C converts them.                 *)
(***************************************************************************)
EXTENDS Operands

Is(ops) == status = "ready" /\ instr.class = "scalar" /\ instr.op \in ops
Width == instr.w
Integral == instr.t # "f"

TakesInts(n) == Has(n) /\ Kinds(n) \subseteq Ints
TakesFloats(n) == Has(n) /\ Kinds(n) \subseteq Floats

-----------------------------------------------------------------------------
(* op_const, op_eqz, op_drop and op_select.                                *)

Const ==
  /\ Is({"const"})
  /\ Answer(0, IF Integral THEN PushInt(instr.imm, Width) ELSE PushFloat(instr.imm, Width))

Truthy(val) == CASE val.kind \in Ints -> val.v # 0
                 [] val.kind \in Floats -> val.v # Halves(0)
                 [] OTHER -> FALSE

Eqz == /\ Is({"eqz"})
       /\ IF Has(1) THEN Answer(1, PushBool(~Truthy(Rhs))) ELSE Trap(1)

Drop ==
  /\ Is({"drop"})
  /\ IF Has(1) THEN /\ stack' = Below(1) /\ status' = "ok"
                    /\ UNCHANGED memory /\ Unchanged
     ELSE Trap(1)

Select ==
  /\ Is({"select"})
  /\ IF Has(3) THEN Answer(3, IF Truthy(Rhs) THEN Top(2) ELSE Lhs) ELSE Trap(3)

-----------------------------------------------------------------------------
(* Integers.                                                               *)

Bitwise2(op, a, b) ==
  LET Sum[k \in 0 .. W64] ==
        IF k = 0 THEN 0
        ELSE Sum[k-1] + 2^(k-1) *
             (CASE op = "and" -> Bit(a, k-1) * Bit(b, k-1)
                [] op = "or" -> IF Bit(a, k-1) + Bit(b, k-1) > 0 THEN 1 ELSE 0
                [] op = "xor" -> (Bit(a, k-1) + Bit(b, k-1)) % 2)
  IN  Sum[W64]

OpBitwise ==
  /\ Is({"and", "or", "xor"})
  /\ IF TakesInts(2)
     THEN Answer(2, PushInt(Unsigned(Bitwise2(instr.op, ToU64(Lhs), ToU64(Rhs)), Width), Width))
     ELSE Trap(2)

Least(S) == CHOOSE x \in S : \A y \in S : x <= y

(* The scans stop at the first bit that is set.                            *)
Clz(x, n) == IF x = 0 THEN n ELSE Least({k \in 0 .. n-1 : Bit(x, n-1-k) = 1})
Ctz(x, n) == IF x = 0 THEN n ELSE Least({k \in 0 .. n-1 : Bit(x, k) = 1})
Popcnt(x, n) == Cardinality({k \in 0 .. n-1 : Bit(x, k) = 1})

OpBitcount ==
  /\ Is({"clz", "ctz", "popcnt"})
  /\ IF TakesInts(1)
     THEN LET x == Unsigned(ToU64(Rhs), Width)
          IN  Answer(1, PushInt(CASE instr.op = "clz" -> Clz(x, Width)
                                  [] instr.op = "ctz" -> Ctz(x, Width)
                                  [] instr.op = "popcnt" -> Popcnt(x, Width), Width))
     ELSE Trap(1)

(* Defect: an amount of the width or more shifts everything out.           *)
BugAmount(raw) == IF raw < Width THEN raw ELSE Width

(* mask is 31 or 63 *)
Amount(raw) == raw % Width

ShiftLeft(x, k) == Unsigned(Unsigned(x, Width) * 2^k, Width)
ShiftRightSigned(x, k) == Signed(x, Width) \div 2^k
ShiftRightUnsigned(x, k) == Unsigned(x, Width) \div 2^k
RotateLeft(x, k) ==
  IF k = 0 THEN Unsigned(x, Width)
  ELSE ShiftLeft(x, k) + Unsigned(x, Width) \div 2^(Width-k)
RotateRight(x, k) ==
  IF k = 0 THEN Unsigned(x, Width)
  ELSE Unsigned(x, Width) \div 2^k + ShiftLeft(x, Width-k)

OpShift ==
  /\ Is({"shl", "shr_s", "shr_u", "rotl", "rotr"})
  /\ IF TakesInts(2)
     THEN LET k == Amount(ToU64(Rhs))
          IN  Answer(2, PushInt(
                CASE instr.op = "shl" -> ShiftLeft(ToU64(Lhs), k)
                  [] instr.op = "shr_s" -> ShiftRightSigned(ToI64(Lhs), k)
                  [] instr.op = "shr_u" -> ShiftRightUnsigned(ToU64(Lhs), k)
                  [] instr.op = "rotl" -> RotateLeft(ToU64(Lhs), k)
                  [] instr.op = "rotr" -> RotateRight(ToU64(Lhs), k), Width))
     ELSE Trap(2)

(* What the arithmetic of a signed or an unsigned type works on.           *)
Operand(val) == IF instr.t = "s" THEN ToI64(val) ELSE ToU64(val)

OpCompare ==
  /\ Is(Relations)
  /\ IF Integral /\ TakesInts(2)
     THEN Answer(2, PushBool(Holds(instr.op, Operand(Lhs), Operand(Rhs))))
     ELSE IF ~Integral /\ TakesFloats(2)
     THEN Answer(2, PushBool(FHolds(instr.op, Lhs.v, Rhs.v)))
     ELSE Trap(2)

(* C divides towards zero.                                                 *)
Quotient(a, b) == LET q == (IF a < 0 THEN -a ELSE a) \div (IF b < 0 THEN -b ELSE b)
                  IN  IF (a < 0) = (b < 0) THEN q ELSE -q
Remainder(a, b) == a - b * Quotient(a, b)

OpArith ==
  /\ Is({"add", "sub", "mul"})
  /\ IF Integral /\ TakesInts(2)
     THEN LET a == Operand(Lhs)  b == Operand(Rhs)
          IN  Answer(2, PushInt(CASE instr.op = "add" -> a + b
                                  [] instr.op = "sub" -> a - b
                                  [] instr.op = "mul" -> a * b, Width))
     ELSE IF ~Integral /\ TakesFloats(2)
     THEN Answer(2, PushFloat(Computed(instr.op, <<Lhs.v, Rhs.v>>), Width))
     ELSE Trap(2)

Overflows(a, b) == instr.t = "s" /\ a = SMin(Width) /\ b = -1

OpDiv ==
  /\ Is({"div"})
  /\ IF Integral /\ TakesInts(2)
     THEN LET a == Operand(Lhs)  b == Operand(Rhs)
          IN  IF b = 0 \/ Overflows(a, b) THEN Trap(2)
              ELSE Answer(2, PushInt(Quotient(a, b), Width))
     ELSE IF ~Integral /\ TakesFloats(2)
     THEN Answer(2, PushFloat(Computed("div", <<Lhs.v, Rhs.v>>), Width))
     ELSE Trap(2)

(* There is no guard for the smallest number and -1.  In 32 bits the       *)
(* remainder is taken in 64 and is 0; in 64 it is undefined, and the       *)
(* division instruction of the machine may end the program.                *)
OpRem ==
  /\ Is({"rem"})
  /\ IF Integral /\ TakesInts(2)
     THEN LET a == Operand(Lhs)  b == Operand(Rhs)
          IN  IF b = 0 THEN Trap(2)
              ELSE IF Width = W64 /\ Overflows(a, b)
              THEN \/ Answer(2, PushInt(0, Width))
                   \/ status' = "dead" /\ UNCHANGED <<stack, memory>> /\ Unchanged
              ELSE Answer(2, PushInt(Remainder(a, b), Width))
     ELSE Trap(2)

-----------------------------------------------------------------------------
(* Conversions.  instr.t says how the integer is read or written.          *)

OpWrap == /\ Is({"wrap"})
          /\ IF TakesInts(1) THEN Answer(1, PushInt(Unsigned(ToI64(Rhs), W32), W32))
             ELSE Trap(1)

OpExtend ==
  /\ Is({"extend_i32"})
  /\ IF TakesInts(1)
     THEN Answer(1, PushInt(IF instr.t = "s" THEN Signed(ToI64(Rhs), W32)
                            ELSE Unsigned(ToU64(Rhs), W32), W64))
     ELSE Trap(1)

(* extend8_s, extend16_s and extend32_s: instr.from is the narrow width.   *)
OpExtendLow ==
  /\ Is({"extend_low"})
  /\ IF TakesInts(1) THEN Answer(1, PushInt(Signed(ToI64(Rhs), instr.from), Width))
     ELSE Trap(1)

(* The limits as C has them in double, in halves: those of 64 bits are     *)
(* rounded up to a power of two.                                           *)
LowLimit(signed, n) == IF signed THEN 2 * SMin(n) ELSE 0
HighLimit(signed, n) ==
  2 * ((IF signed THEN SMax(n) ELSE UMax(n)) + (IF n = W64 THEN 1 ELSE 0))

(* trunc_f64_to_i32 and trunc_f64_to_i64.  A value that the check lets     *)
(* through but does not fit is cast all the same, which leaves any of      *)
(* these.                                                                  *)
TruncFails(f, signed, n) ==
  f.c # "number" \/ f.x < LowLimit(signed, n) \/ f.x > HighLimit(signed, n)
Casts(f, signed, n) ==
  IF n = W64 /\ f.x >= HighLimit(signed, n) THEN {SMin(n), 0, SMax(n)} ELSE {Truncated(f)}

OpTrunc ==
  /\ Is({"trunc"})
  /\ IF TakesFloats(1) /\ ~TruncFails(Rhs.v, instr.t = "s", Width)
     THEN \E r \in Casts(Rhs.v, instr.t = "s", Width) : Answer(1, PushInt(r, Width))
     ELSE Trap(1)

(* Defect: the unsigned conversion lets a negative number through.         *)
BugTruncSat(f, signed, n) ==
  IF IsNaN(f) THEN 0
  ELSE IF f.c = "infinity" THEN (IF f.x < 0 THEN 0 ELSE UMax(n))
  ELSE Truncated(f)

(* trunc_sat_f64_to_i32 and trunc_sat_f64_to_i64 *)
TruncSat(f, signed, n) ==
  IF IsNaN(f) THEN 0
  ELSE IF signed /\ Rank(f) <= 2 * SMin(n) THEN SMin(n)
  ELSE IF ~signed /\ Rank(f) < 2 THEN 0
  ELSE IF Rank(f) >= HighLimit(signed, n)
  THEN (IF signed THEN SMax(n) ELSE UMax(n))
  ELSE Truncated(f)

OpTruncSat ==
  /\ Is({"trunc_sat"})
  /\ IF TakesFloats(1) THEN Answer(1, PushInt(TruncSat(Rhs.v, instr.t = "s", Width), Width))
     ELSE Trap(1)

OpConvert ==
  /\ Is({"convert"})
  /\ IF TakesInts(1)
     THEN Answer(1, PushFloat(Whole(IF instr.t = "s" THEN ToI64(Rhs) ELSE ToU64(Rhs)), Width))
     ELSE Trap(1)

(* demote and promote: floats are exact here.                              *)
OpResize == /\ Is({"resize"})
            /\ IF TakesFloats(1) THEN Answer(1, PushFloat(Rhs.v, Width)) ELSE Trap(1)

-----------------------------------------------------------------------------
(* Float operations; those of the C library but abs, neg, trunc, min and   *)
(* max are left as the terms they compute.                                 *)

OpFloatUnary ==
  /\ Is({"abs", "neg", "ceil", "floor", "trunc_float", "nearest", "sqrt"})
  /\ IF TakesFloats(1)
     THEN Answer(1, PushFloat(CASE instr.op = "abs" -> FAbs(Rhs.v)
                                [] instr.op = "neg" -> FNeg(Rhs.v)
                                [] OTHER -> Computed(instr.op, <<Rhs.v>>), Width))
     ELSE Trap(1)

OpFloatBinary ==
  /\ Is({"min", "max", "copysign"})
  /\ IF TakesFloats(2)
     THEN Answer(2, PushFloat(CASE instr.op = "min" -> FMin(Lhs.v, Rhs.v)
                                [] instr.op = "max" -> FMax(Lhs.v, Rhs.v)
                                [] OTHER -> Computed("copysign", <<Lhs.v, Rhs.v>>), Width))
     ELSE Trap(2)

(* The bits stay and the kind changes.  A float is known by its bits when  *)
(* it was made from them.                                                  *)
Bits(n) == Computed("bits", <<n>>)
OpReinterpret ==
  /\ Is({"reinterpret"})
  /\ IF Integral /\ TakesFloats(1) THEN Answer(1, PushInt(Rhs.v.of[1], Width))
     ELSE IF ~Integral /\ TakesInts(1) THEN Answer(1, PushFloat(Bits(ToU64(Rhs)), Width))
     ELSE Trap(1)

NextScalar ==
  \/ Const \/ Eqz \/ Drop \/ Select \/ OpBitwise \/ OpBitcount \/ OpShift
  \/ OpCompare \/ OpArith \/ OpDiv \/ OpRem \/ OpWrap \/ OpExtend
  \/ OpExtendLow \/ OpTrunc \/ OpTruncSat \/ OpConvert \/ OpResize
  \/ OpFloatUnary \/ OpFloatBinary \/ OpReinterpret
=============================================================================
