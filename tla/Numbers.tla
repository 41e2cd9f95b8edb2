------------------------------- MODULE Numbers -------------------------------
(***************************************************************************)
(* The values the operations of fa_ops.c work on.  A byte has ByteBits     *)
(* bits, 8 in the program, and every width is a number of bytes, so that a *)
(* small byte keeps all the relations between the widths.  Integers are    *)
(* payloads of operands, which are signed; lanes of vectors are unsigned.  *)
(*                                                                         *)
(* Floats are numbers of halves, infinities and NaN, or the term that C    *)
(* computed them with; rounding and the sign of zero are left out.         *)
(***************************************************************************)
EXTENDS Integers, Sequences, FiniteSets

CONSTANT ByteBits
ASSUME ByteAssumption == ByteBits \in {2, 4, 8}   \* masks of shifts are powers of two less 1

W32 == 4 * ByteBits
W64 == 8 * ByteBits

Unsigned(x, w) == x % 2^w
Signed(x, w) == ((x + 2^(w-1)) % 2^w) - 2^(w-1)
SMin(w) == -(2^(w-1))
SMax(w) == 2^(w-1) - 1
UMax(w) == 2^w - 1
Bit(x, k) == (x \div 2^k) % 2
Clamp(x, lo, hi) == IF x < lo THEN lo ELSE IF x > hi THEN hi ELSE x

Value(kind, v) == [kind |-> kind, v |-> v]

(* Defect: the payload keeps the bits above the width.                     *)
BugPushInt(x, w) == IF w <= W32 THEN Value("i32", x) ELSE Value("i64", x)

(* push_int_value *)
PushInt(x, w) ==
  IF w <= W32 THEN Value("i32", Signed(x, W32)) ELSE Value("i64", Signed(x, W64))
PushBool(b) == PushInt(IF b THEN 1 ELSE 0, W32)
PushFloat(f, w) == IF w = W32 THEN Value("f32", f) ELSE Value("f64", f)

Ints == {"i32", "i64", "ref"}
Floats == {"f32", "f64"}

(* job_value_to_u64 and job_value_to_i64 *)
ToU64(val) == IF val.kind = "i32" THEN Unsigned(val.v, W32) ELSE Unsigned(val.v, W64)
ToI64(val) == val.v

-----------------------------------------------------------------------------
(* Floats.                                                                 *)

Halves(h) == [c |-> "number", x |-> h, of |-> <<>>]
Whole(n) == Halves(2 * n)
Infinity(sign) == [c |-> "infinity", x |-> sign, of |-> <<>>]
NaN == [c |-> "nan", x |-> 0, of |-> <<>>]
Computed(op, args) == [c |-> op, x |-> 0, of |-> args]

IsNaN(f) == f.c = "nan"
Negative(f) == f.x < 0
Rank(f) == IF f.c = "infinity" THEN f.x * 2^(W64 + 2) ELSE f.x
Truncated(f) == IF Negative(f) THEN -((-f.x) \div 2) ELSE f.x \div 2
FAbs(f) == IF Negative(f) THEN [f EXCEPT !.x = -@] ELSE f
FNeg(f) == IF f.c \in {"number", "infinity"} THEN [f EXCEPT !.x = -@] ELSE f

(* The C library's fmin and fmax: an operand that is not a number is       *)
(* ignored.                                                                *)
FMin(a, b) == IF IsNaN(a) THEN b ELSE IF IsNaN(b) THEN a
              ELSE IF Rank(b) < Rank(a) THEN b ELSE a
FMax(a, b) == IF IsNaN(a) THEN b ELSE IF IsNaN(b) THEN a
              ELSE IF Rank(b) > Rank(a) THEN b ELSE a

(* The operators of C on floats.                                           *)
Relations == {"eq", "ne", "lt", "gt", "le", "ge"}
Holds(op, a, b) == CASE op = "eq" -> a = b [] op = "ne" -> a # b
                     [] op = "lt" -> a < b [] op = "gt" -> a > b
                     [] op = "le" -> a <= b [] op = "ge" -> a >= b
FHolds(op, a, b) == IF IsNaN(a) \/ IsNaN(b) THEN op = "ne" ELSE Holds(op, Rank(a), Rank(b))

-----------------------------------------------------------------------------
(* Vectors of 16 bytes, seen as lanes of n bytes; or, for the operations   *)
(* on float lanes, 4 or 2 floats, whose bits are left out.                 *)

VectorSize == 16
Indices(n) == 0 .. (VectorSize \div n) - 1

LaneOf(bytes, n, i) ==
  LET Sum[k \in 0 .. n] == IF k = 0 THEN 0
                           ELSE Sum[k-1] + bytes[i * n + k] * 2^(ByteBits * (k-1))
  IN  Sum[n]
Lanes(vec, n) == [i \in Indices(n) |-> LaneOf(vec.v, n, i)]
Vector(lanes, n) ==
  Value("v128", [k \in 1 .. VectorSize |->
                   Unsigned(lanes[(k-1) \div n] \div 2^(ByteBits * ((k-1) % n)), ByteBits)])
FloatVector(lanes) == Value("v128", lanes)
=============================================================================
