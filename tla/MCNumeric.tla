------------------------------ MODULE MCNumeric ------------------------------
(* The instructions with the operands at which something changes: the ends *)
(* of every range, the neighbours of the widths, the fractions next to the *)
(* limits, vectors of extreme lanes, addresses around the end of memory.   *)
EXTENDS Numeric

Payload32 == {-128, -127, -65, -2, -1, 0, 1, 2, 7, 8, 9, 64, 127}
Payload64 == {-32768, -32767, -129, -128, -2, -1, 0, 1, 2, 15, 16, 17, 255, 32767}
Payloads(w) == IF w = W32 THEN Payload32 ELSE Payload64
IntKind(w) == IF w = W32 THEN "i32" ELSE "i64"
FloatKind(w) == IF w = W32 THEN "f32" ELSE "f64"

Around(n) == {2*n - 2, 2*n - 1, 2*n, 2*n + 1, 2*n + 2}
Wide == {2 * SMin(W64), 2 * SMin(W64) - 4, 2 * SMax(W64) + 2, 2 * UMax(W64) + 2, 2 * SMax(W32)}
Numbers32 == UNION {Around(n) : n \in {SMin(W32), SMax(W32), UMax(W32), 0}}
(* An f32 has no fractions, and not every whole number, near its limits.   *)
Coarse == {2 * SMin(W32), 2 * SMax(W32) + 2, 2 * UMax(W32) + 2} \cup Around(0)
Limits(w, kind) == IF w = W64 THEN Wide \cup Around(0) ELSE IF kind = "f32" THEN Coarse ELSE Numbers32
FloatsOf(halves) == {Halves(h) : h \in halves} \cup {Infinity(1), Infinity(-1), NaN}
SomeFloats == FloatsOf({-3, -1, 0, 1, 4})

(* An instruction with fields that most have no use for. *)
Instr(class, op, t, w, takes, gives) ==
  [class |-> class, op |-> op, t |-> t, w |-> w, from |-> W32, n |-> 1, imm |-> 0,
   lane |-> 0, high |-> FALSE, takes |-> takes, gives |-> gives]
Int2(op, t, w, gives) == Instr("scalar", op, t, w, <<IntKind(w), IntKind(w)>>, gives)
Int1(op, t, w, from, gives) ==
  [Instr("scalar", op, t, w, <<IntKind(from)>>, gives) EXCEPT !.from = from]
Float1(op, t, w, kind, gives) == Instr("scalar", op, t, w, <<kind>>, gives)
Float2(op, w, gives) == Instr("scalar", op, "f", w, <<FloatKind(w), FloatKind(w)>>, gives)

Under == <<Value("i64", 5)>>     \* what lies under the operands
Stacked(values) == Under \o values

SignedOps == {"div", "rem"} \cup (Relations \ {"eq", "ne"})
Ints2 == {Int2(op, "s", w, IntKind(w)) :
            op \in {"add", "sub", "mul", "div", "rem", "and", "or", "xor", "shl", "shr_s",
                    "rotl", "rotr"}, w \in {W32, W64}}
         \cup {Int2(op, "u", w, IntKind(w)) : op \in {"div", "rem", "shr_u"}, w \in {W32, W64}}
         \cup {Int2(op, t, w, "i32") : op \in Relations, t \in {"s", "u"}, w \in {W32, W64}}
IntCases2 ==
  UNION {{<<ins, Stacked(<<Value(IntKind(ins.w), a), Value(IntKind(ins.w), b)>>)>> :
            a \in Payloads(ins.w), b \in Payloads(ins.w)} : ins \in Ints2}

Ints1 ==
  {Int1("eqz", "s", w, w, "i32") : w \in {W32, W64}}
  \cup {Int1(op, "s", w, w, IntKind(w)) : op \in {"clz", "ctz", "popcnt"}, w \in {W32, W64}}
  \cup {Int1("wrap", "s", W32, W64, "i32")}
  \cup {Int1("extend_i32", t, W64, W32, "i64") : t \in {"s", "u"}}
  \cup {Int1("convert", t, w, from, FloatKind(w)) :
          t \in {"s", "u"}, w \in {W32, W64}, from \in {W32, W64}}
IntCases1 ==
  UNION {{<<ins, Stacked(<<Value(ins.takes[1], a)>>)>> : a \in Payloads(ins.from)} :
           ins \in Ints1}
  \cup {<<[Int1("extend_low", "s", w, w, IntKind(w)) EXCEPT !.from = n * ByteBits],
          Stacked(<<Value(IntKind(w), a)>>)>> :
          w \in {W32, W64}, n \in {1, 2}, a \in Payload32 \cup {3, 12}}
  \cup {<<[Int1("extend_low", "s", W64, W64, "i64") EXCEPT !.from = W32],
          Stacked(<<Value("i64", a)>>)>> : a \in Payload64 \cup {127, 128}}
  \cup {<<[Int1("const", "s", w, w, IntKind(w)) EXCEPT !.takes = <<>>, !.imm = a], Under>> :
          w \in {W32, W64}, a \in Payload32}
  \cup {<<Instr("scalar", "reinterpret", "f", w, <<IntKind(w)>>, FloatKind(w)),
          Stacked(<<Value(IntKind(w), a)>>)>> : w \in {W32, W64}, a \in Payload32}

FloatCases1 ==
  UNION {{<<Float1(op, t, w, kind, IntKind(w)), Stacked(<<Value(kind, f)>>)>> :
            op \in {"trunc", "trunc_sat"}, t \in {"s", "u"}, f \in FloatsOf(Limits(w, kind))} :
          w \in {W32, W64}, kind \in Floats}
  \cup {<<Float1(op, "f", w, FloatKind(w), FloatKind(w)), Stacked(<<Value(FloatKind(w), f)>>)>> :
          op \in {"abs", "neg", "ceil", "floor", "trunc_float", "nearest", "sqrt"},
          w \in {W32, W64}, f \in SomeFloats}
  \cup {<<Float1("resize", "f", w, kind, FloatKind(w)), Stacked(<<Value(kind, f)>>)>> :
          w \in {W32, W64}, kind \in Floats, f \in SomeFloats}
  \cup {<<[Float1("const", "f", w, "f32", FloatKind(w)) EXCEPT !.takes = <<>>, !.imm = f], Under>> :
          w \in {W32, W64}, f \in SomeFloats}
FromBits ==
  {<<Float1("reinterpret", "s", w, FloatKind(w), IntKind(w)),
     Stacked(<<Value(FloatKind(w), Bits(n))>>)>> : w \in {W32, W64}, n \in {0, 1, 127, 255}}
FloatCases2 ==
  {<<Float2(op, w, IF op \in Relations THEN "i32" ELSE FloatKind(w)),
     Stacked(<<Value(FloatKind(w), a), Value(FloatKind(w), b)>>)>> :
     op \in Relations \cup {"add", "sub", "mul", "div", "min", "max", "copysign"},
     w \in {W32, W64}, a \in SomeFloats, b \in SomeFloats}

SelectCases ==
  {<<Instr("scalar", "select", "s", W32, <<kind, kind, "i32">>, kind),
     Stacked(<<Value(kind, 3), Value(kind, 4), Value("i32", c)>>)>> :
     kind \in {"i32", "i64", "ref"}, c \in {-1, 0, 1}}
  \cup {<<Instr("scalar", "drop", "s", W32, <<kind>>, kind), Stacked(<<Value(kind, 1)>>)>> :
          kind \in {"i32", "ref"}}
-----------------------------------------------------------------------------
Repeat(pattern) == [k \in 1 .. VectorSize |-> pattern[((k - 1) % Len(pattern)) + 1]]
Zero == Repeat(<<0>>)
Vectors ==
  {Zero, Repeat(<<3>>), Repeat(<<0, 2>>), Repeat(<<3, 1>>), Repeat(<<0, 0, 0, 2>>),
   Repeat(<<3, 3, 3, 1>>), Repeat(<<0, 0, 0, 0, 0, 0, 0, 2>>), Repeat(<<3, 3, 3, 3, 3, 3, 3, 1>>),
   Repeat(<<1, 0, 0, 0, 3, 2, 1>>), Repeat(<<2, 3, 1>>)}
Few == {Zero, Repeat(<<3>>), Repeat(<<3, 1>>), Repeat(<<1, 0, 0, 0, 3, 2, 1>>)}
V(bytes) == Value("v128", bytes)

Vec(op, t, n, k) ==
  [Instr("simd", op, t, 0, [j \in 1 .. k |-> "v128"], "v128") EXCEPT !.n = n]
Two(instrs, first, second) ==
  {<<ins, Stacked(<<V(a), V(b)>>)>> : ins \in instrs, a \in first, b \in second}
One(instrs, first) == {<<ins, Stacked(<<V(a)>>)>> : ins \in instrs, a \in first}
Three(instrs, first, second, third) ==
  {<<ins, Stacked(<<V(a), V(b), V(c)>>)>> :
     ins \in instrs, a \in first, b \in second, c \in third}

LaneSizes == {1, 2, 4, 8}
BinaryInstrs ==
  {Vec(op, "s", 1, 2) : op \in I8x16Binary} \cup {Vec(op, "s", 2, 2) : op \in I16x8Binary}
  \cup {Vec(op, "s", 4, 2) : op \in I32x4Binary} \cup {Vec(op, "s", 8, 2) : op \in I64x2Binary}
CompareInstrs ==
  UNION {{Vec(c[1], c[2], n, 2) : c \in CompareCases[n]} : n \in {1, 2, 4}}
  \cup {Vec(c[1], c[2], 8, 2) : c \in I64x2Compare}
WideningInstrs ==
  {[Vec("extmul", t, n, 2) EXCEPT !.high = high] : t \in {"s", "u"}, n \in {2, 4, 8},
                                                   high \in BOOLEAN}
  \cup {Vec("narrow", t, n, 2) : t \in {"s", "u"}, n \in {1, 2}}
  \cup {Vec("dot", "s", 4, 2), Vec("q15mulr", "s", 2, 2)}
VectorCases2 ==
  Two(BinaryInstrs \cup CompareInstrs \cup WideningInstrs, Vectors, Vectors)
  \cup Two({Vec(op, "s", 1, 2) : op \in {"and", "andnot", "or", "xor"}}, Vectors, Few)
  \cup Two({Vec(op, "s", 1, 2) : op \in {"swizzle", "relaxed_swizzle"}}, Few,
           {Zero, [k \in 1 .. VectorSize |-> VectorSize - k], [k \in 1 .. VectorSize |-> 3 * k],
            [k \in 1 .. VectorSize |-> k + 7], [k \in 1 .. VectorSize |-> 9 * k]})

To32(op, n) == [Vec(op, "s", n, 1) EXCEPT !.gives = "i32"]
VectorCases1 ==
  One({Vec("popcnt", "s", 1, 1), Vec("not", "s", 1, 1), To32("any_true", 1)}
      \cup {Vec(op, "s", n, 1) : op \in {"abs", "neg"}, n \in LaneSizes}
      \cup {To32(op, n) : op \in {"all_true", "bitmask"}, n \in LaneSizes}
      \cup {Vec("extadd_pairwise", t, n, 1) : t \in {"s", "u"}, n \in {2, 4}}
      \cup {[Vec("extend", t, n, 1) EXCEPT !.high = high] : t \in {"s", "u"}, n \in {2, 4, 8},
                                                            high \in BOOLEAN}
      \cup {Vec("convert", t, n, 1) : t \in {"s", "u"}, n \in {4, 8}}, Vectors)
  \cup {<<[Vec(op, "s", n, 0) EXCEPT !.takes = <<"v128", "i32">>],
          Stacked(<<V(a), Value("i32", k)>>)>> :
          op \in {"shl", "shr_s", "shr_u"}, n \in LaneSizes, a \in Vectors, k \in Payload32}
  \cup {<<[Vec("splat", "s", n, 0) EXCEPT !.takes = <<IF n = 8 THEN "i64" ELSE "i32">>],
          Stacked(<<Value(IF n = 8 THEN "i64" ELSE "i32", x)>>)>> :
          n \in LaneSizes, x \in Payload32}
VectorCases3 ==
  Three({Vec("laneselect", "s", n, 3) : n \in LaneSizes} \cup {Vec("bitselect", "s", 1, 3)},
        Few, Few, Few)

LaneCases ==
  UNION {
    {<<[Vec("extract_lane", t, n, 1) EXCEPT !.imm = lane, !.gives = IF n = 8 THEN "i64" ELSE "i32"],
       Stacked(<<V(a)>>)>> : t \in (IF n < 4 THEN {"s", "u"} ELSE {"s"}), lane \in Indices(n),
                             a \in Few}
    \cup {<<[Vec("replace_lane", "s", n, 0) EXCEPT !.imm = lane,
                 !.takes = <<"v128", IF n = 8 THEN "i64" ELSE "i32">>],
            Stacked(<<V(a), Value(IF n = 8 THEN "i64" ELSE "i32", x)>>)>> :
            lane \in Indices(n), a \in Few, x \in {-128, -1, 0, 1, 127}} : n \in LaneSizes}
ConstCases ==
  {<<[Vec("const", "s", 1, 0) EXCEPT !.imm = a], Under>> : a \in Vectors}
  \cup {<<[Vec("shuffle", "s", 1, 2) EXCEPT !.imm = index], Stacked(<<V(a), V(b)>>)>> :
          index \in {[k \in 1 .. VectorSize |-> k - 1], [k \in 1 .. VectorSize |-> 32 - k],
                     [k \in 1 .. VectorSize |-> 2 * k - 1]}, a \in Few, b \in Few}

Edge == <<Halves(-1), Halves(2 * SMin(W32)), NaN, Halves(2 * SMax(W32) + 1), Halves(0),
          Infinity(-1), Halves(2 * UMax(W32)), Halves(3), Infinity(1), Halves(2 * SMin(W32) - 2),
          Halves(2 * UMax(W32) + 2), Halves(1)>>
FloatLanes(n, start) == [i \in Indices(n) |-> Edge[((start + 5 * i) % 12) + 1]]
FloatInstrs2 == {Vec(op, "f", n, 2) : op \in Relations \cup F32x4Binary, n \in {4, 8}}
FloatInstrs1 == {Vec(op, "f", n, 1) : op \in F32x4Unary, n \in {4, 8}}
Resizing == {Vec("trunc_sat", t, 4, 1) : t \in {"s", "u"}} \cup {Vec("resize", "f", 4, 1)}
FloatVectorCases ==
  {<<ins, Stacked(<<FloatVector(FloatLanes(ins.n, a)), FloatVector(FloatLanes(ins.n, b))>>)>> :
     ins \in FloatInstrs2, a \in 0 .. 11, b \in {0, 3, 4, 7}}
  \cup {<<ins, Stacked(<<FloatVector(FloatLanes(ins.n, a))>>)>> :
          ins \in FloatInstrs1, a \in 0 .. 11}
  \cup {<<ins, Stacked(<<FloatVector(FloatLanes(n, a))>>)>> :
          ins \in Resizing, n \in {4, 8}, a \in 0 .. 11}
  \cup {<<Vec("resize", "f", 8, 1), Stacked(<<FloatVector(FloatLanes(4, a))>>)>> : a \in 0 .. 11}
  \cup {<<ins, Stacked(<<FloatVector(FloatLanes(ins.n, a)), FloatVector(FloatLanes(ins.n, a + 1)),
                         FloatVector(FloatLanes(ins.n, a + 4))>>)>> :
          ins \in {Vec(op, "f", n, 3) : op \in {"madd", "nmadd"}, n \in {4, 8}}, a \in 0 .. 11}
  \cup {<<[Vec("splat", "f", n, 0) EXCEPT !.takes = <<FloatKind(n * ByteBits)>>],
          Stacked(<<Value(FloatKind(n * ByteBits), f)>>)>> : n \in {4, 8}, f \in SomeFloats}
  \cup {<<[Vec("extract_lane", "f", n, 1) EXCEPT !.imm = 1, !.gives = FloatKind(n * ByteBits)],
          Stacked(<<FloatVector(FloatLanes(n, a))>>)>> : n \in {4, 8}, a \in 0 .. 11}
  \cup {<<[Vec("replace_lane", "f", n, 0) EXCEPT !.imm = 1,
               !.takes = <<"v128", FloatKind(n * ByteBits)>>],
          Stacked(<<FloatVector(FloatLanes(n, 2)), Value(FloatKind(n * ByteBits), f)>>)>> :
          n \in {4, 8}, f \in SomeFloats}

Addresses == {0, 1, 4, 5, 12, 19, 20, 21, -1}
Loading(op, t, n) == [Vec(op, t, n, 0) EXCEPT !.takes = <<"i32">>]
Lane(op, n, lane) == [Vec(op, "s", n, 0) EXCEPT !.takes = <<"i32", "v128">>, !.lane = lane]
MemoryCases ==
  {<<[ins EXCEPT !.imm = offset], Stacked(<<Value("i32", a)>>)>> :
     ins \in {Loading("load", "s", 1)} \cup {Loading("load_splat", "s", n) : n \in LaneSizes}
             \cup {Loading("load_zero", "s", n) : n \in {4, 8}}
             \cup {Loading("load_extend", t, n) : t \in {"s", "u"}, n \in {2, 4, 8}},
     offset \in {0, 3}, a \in Addresses}
  \cup {<<[ins EXCEPT !.imm = offset], Stacked(<<Value("i32", a), V(bytes)>>)>> :
          ins \in {Lane("store", 1, 0)}
                  \cup UNION {{Lane(op, n, lane) : op \in {"load_lane", "store_lane"},
                                 lane \in {0, (VectorSize \div n) - 1}} : n \in LaneSizes},
          offset \in {0, 3}, a \in Addresses, bytes \in {Repeat(<<3>>), Repeat(<<1, 0, 0, 0, 3, 2, 1>>)}}

(* Stacks that do not fit: too short, or of another kind; and instructions *)
(* that no valid module has.                                               *)
Odd == {<<>>, <<V(Zero)>>, <<Value("ref", 0)>>, <<Value("i32", 1)>>, <<V(Zero), Value("i32", 1)>>,
        <<Value("ref", 2), V(Zero)>>, <<Value("i64", 1), Value("i64", 3), V(Zero)>>}
Invalid(ins) == [ins EXCEPT !.takes = <<"none">>]
ScalarMisfits ==
  {Int2(op, "s", W32, "i32") : op \in {"add", "div", "rem", "and", "shl", "lt"}}
  \cup {Int1(op, "s", W64, W64, "i64") :
          op \in {"clz", "eqz", "wrap", "extend_i32", "extend_low", "convert"}}
  \cup {Instr("scalar", "select", "s", W32, <<"i32", "i32", "i32">>, "i32"),
        Instr("scalar", "drop", "s", W32, <<"i32">>, "i32")}
VectorMisfits ==
  {Vec(op, "s", 2, 2) : op \in {"add", "lt", "narrow", "swizzle"}}
  \cup {Vec("abs", "s", 2, 1), To32("bitmask", 2), Vec("bitselect", "s", 1, 3),
        [Vec("shl", "s", 2, 0) EXCEPT !.takes = <<"v128", "i32">>],
        [Vec("replace_lane", "s", 4, 0) EXCEPT !.takes = <<"v128", "i32">>],
        [Vec("splat", "s", 2, 0) EXCEPT !.takes = <<"i32">>],
        Loading("load", "s", 1), Lane("store", 1, 0), Lane("load_lane", 2, 1)}
  \cup {Invalid(ins) : ins \in {[Vec("extract_lane", "s", 8, 1) EXCEPT !.imm = 2],
                                [Vec("replace_lane", "s", 8, 2) EXCEPT !.imm = 2],
                                Lane("store_lane", 2, 9), Vec("unassigned", "s", 1, 0)}}
Misfits == {<<ins, st>> : ins \in ScalarMisfits \cup VectorMisfits, st \in Odd}
FloatMisfits ==
  {<<ins, st>> : ins \in {Float2(op, W32, "f32") : op \in {"add", "min", "lt"}}
                         \cup {Float1(op, "s", W32, "f32", "i32") :
                                 op \in {"trunc", "trunc_sat", "abs", "resize", "reinterpret"}},
                 st \in {<<>>, <<V(Zero)>>, <<V(Zero), V(Zero)>>}}

AllCases ==
  [int2 |-> IntCases2, int1 |-> IntCases1, float1 |-> FloatCases1, bits |-> FromBits,
   float2 |-> FloatCases2, select |-> SelectCases, vector2 |-> VectorCases2,
   vector1 |-> VectorCases1, vector3 |-> VectorCases3, lane |-> LaneCases,
   const |-> ConstCases, floats |-> FloatVectorCases, memory |-> MemoryCases,
   misfits |-> Misfits, floatMisfits |-> FloatMisfits]
MCCases == AllCases
=============================================================================
