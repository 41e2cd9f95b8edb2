---------------------------- MODULE WasmNumerics ----------------------------
(***************************************************************************)
(* What WebAssembly defines of the instructions, as facts about operands   *)
(* and result rather than as a way to compute it: a, b and r are the bits  *)
(* of the operands and of the result, as numbers below 2^w.                *)
(***************************************************************************)
EXTENDS Numbers

LOCAL Abs(x) == IF x < 0 THEN -x ELSE x
LOCAL Same(x, y, w) == (x - y) % 2^w = 0
LOCAL Sig(x, w, t) == IF t = "s" THEN Signed(x, w) ELSE x
LOCAL IsClamp(v, x, lo, hi) ==
  /\ v \in lo .. hi /\ (x \in lo .. hi => v = x)
  /\ (x < lo => v = lo) /\ (x > hi => v = hi)
LOCAL Lo(t, w) == IF t = "s" THEN SMin(w) ELSE 0
LOCAL Hi(t, w) == IF t = "s" THEN SMax(w) ELSE UMax(w)

(* q is x divided by y, towards zero.                                      *)
LOCAL Divides(x, y, q) ==
  /\ Abs(x - q * y) < Abs(y) /\ Abs(q * y) <= Abs(x)
LOCAL RemainsOf(x, y, m) ==
  /\ Abs(m) < Abs(y) /\ (x - m) % Abs(y) = 0
  /\ (m < 0 => x < 0) /\ (m > 0 => x > 0)

(* The float f lies in the range of the integers from lo to hi once its    *)
(* fraction is dropped, and drops to q.                                    *)
Fits(f, t, w) == /\ f.c = "number"
                 /\ f.x > 2 * Lo(t, w) - 2 /\ f.x < 2 * Hi(t, w) + 2
DropsTo(f, q) == /\ Abs(2 * q) <= Abs(f.x) /\ Abs(f.x) < Abs(2 * q) + 2
                 /\ (q < 0 => f.x < 0) /\ (q > 0 => f.x > 0)
LOCAL SaturatesTo(f, q, t, w) ==
  IF IsNaN(f) THEN q = 0
  ELSE IF Fits(f, t, w) THEN DropsTo(f, q)
  ELSE q = IF f.x < 0 THEN Lo(t, w) ELSE Hi(t, w)

Divisions == {"div", "rem"}
MustTrap(op, t, w, a, b) ==
  /\ op \in Divisions
  /\ b = 0 \/ (op = "div" /\ t = "s" /\ Signed(a, w) = SMin(w) /\ Signed(b, w) = -1)

(* Instructions of two integers of w bits; t says whether they are signed. *)
IntBinary[op \in STRING, t \in STRING, w \in Nat, a \in Nat, b \in Nat, r \in Nat] ==
  LET x == Sig(a, w, t)  y == Sig(b, w, t)  k == b % w
  IN  CASE op = "add" -> Same(r, a + b, w)
        [] op = "sub" -> Same(r, a - b, w)
        [] op = "mul" -> Same(r, Signed(a, w) * Signed(b, w), w)
        [] op = "div" -> Divides(x, y, Sig(r, w, t))
        [] op = "rem" -> RemainsOf(x, y, Sig(r, w, t))
        [] op = "and" -> \A j \in 0 .. w-1 : Bit(r, j) = 1 <=> Bit(a, j) = 1 /\ Bit(b, j) = 1
        [] op = "or" -> \A j \in 0 .. w-1 : Bit(r, j) = 1 <=> Bit(a, j) = 1 \/ Bit(b, j) = 1
        [] op = "xor" -> \A j \in 0 .. w-1 : Bit(r, j) = 1 <=> Bit(a, j) # Bit(b, j)
        [] op = "shl" -> Same(r, a * 2^k, w)
        [] op = "shr_s" -> Signed(r, w) = Signed(a, w) \div 2^k
        [] op = "shr_u" -> r = a \div 2^k
        [] op = "rotl" -> \A j \in 0 .. w-1 : Bit(r, (j + k) % w) = Bit(a, j)
        [] op = "rotr" -> \A j \in 0 .. w-1 : Bit(r, j) = Bit(a, (j + k) % w)
        [] op \in Relations -> r = IF Holds(op, x, y) THEN 1 ELSE 0

IntUnary[op \in STRING, w \in Nat, a \in Nat, r \in Nat] ==
  CASE op = "eqz" -> r = 1 <=> a = 0
    [] op = "popcnt" -> r = Cardinality({j \in 0 .. w-1 : Bit(a, j) = 1})
    [] op = "clz" -> a < 2^(w-r) /\ (r < w => a >= 2^(w-r-1))
    [] op = "ctz" -> a % 2^r = 0 /\ (r < w => a % 2^(r+1) # 0) /\ (a = 0 => r = w)

(* Conversions: v is the payload of the operand, q that of the result, and *)
(* from the width that is extended or wrapped.                             *)
ConversionOk[op \in STRING, t \in STRING, w \in Nat, from \in Nat, v \in Int, q \in Int] ==
  CASE op = "wrap" -> Same(v, q, W32) /\ q \in SMin(W32) .. SMax(W32)
    [] op = "extend_i32" -> q = Sig(Unsigned(v, W32), W32, t)
    [] op = "extend_low" -> Same(v, q, from) /\ q \in SMin(from) .. SMax(from)

TruncSatOk(f, t, w, q) == SaturatesTo(f, Sig(Unsigned(q, w), w, t), t, w)

-----------------------------------------------------------------------------
(* Vectors: one lane of w bits of each operand and of the result.          *)

LaneUnary[op \in STRING, w \in Nat, a \in Nat, r \in Nat] ==
  CASE op = "abs" -> Same(r, Abs(Signed(a, w)), w)
    [] op = "neg" -> Same(r + a, 0, w)
    [] op = "popcnt" -> IntUnary["popcnt", w, a, r]

LaneBinary[op \in STRING, w \in Nat, a \in Nat, b \in Nat, r \in Nat] ==
  CASE op \in {"add", "sub", "mul"} -> IntBinary[op, "u", w, a, b, r]
    [] op = "add_sat_s" -> IsClamp(Signed(r, w), Signed(a, w) + Signed(b, w), SMin(w), SMax(w))
    [] op = "sub_sat_s" -> IsClamp(Signed(r, w), Signed(a, w) - Signed(b, w), SMin(w), SMax(w))
    [] op = "add_sat_u" -> IsClamp(r, a + b, 0, UMax(w))
    [] op = "sub_sat_u" -> IsClamp(r, a - b, 0, UMax(w))
    [] op = "min_s" -> r \in {a, b} /\ Signed(r, w) <= Signed(a, w) /\ Signed(r, w) <= Signed(b, w)
    [] op = "max_s" -> r \in {a, b} /\ Signed(r, w) >= Signed(a, w) /\ Signed(r, w) >= Signed(b, w)
    [] op = "min_u" -> r \in {a, b} /\ r <= a /\ r <= b
    [] op = "max_u" -> r \in {a, b} /\ r >= a /\ r >= b
    [] op = "avgr_u" -> 2 * r - (a + b) \in {0, 1}
    [] op = "q15mulr" ->
         \E q \in -(2^w) .. 2^w :
           LET p == Signed(a, w) * Signed(b, w)
           IN  /\ q * 2^(w-1) <= p + 2^(w-2) /\ p + 2^(w-2) < (q + 1) * 2^(w-1)
               /\ IsClamp(Signed(r, w), q, SMin(w), SMax(w))

LaneShift[op \in STRING, w \in Nat, a \in Nat, k \in Nat, r \in Nat] ==
  IntBinary[op, "u", w, a, k, r]

(* A lane of 2w bits, read as signed, becomes one of w bits.               *)
LaneNarrow(t, w, a, r) == IsClamp(Sig(r, w, t), Signed(a, 2 * w), Lo(t, w), Hi(t, w))

(* r is the value of what the lanes of half the width make.                *)
LaneIs(w, x, r) == Same(r, x, w)
=============================================================================
