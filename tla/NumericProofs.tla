---------------------------- MODULE NumericProofs ----------------------------
(* Proofs about Numeric: what a trap leaves, for every width of a byte and *)
(* whatever instructions and stacks there are.                             *)
EXTENDS Numeric, SequenceTheorems, TLAPS

(* An instruction that is yet to run has the stack and the memory it was   *)
(* given.                                                                  *)
NInv ==
  /\ \E family \in DOMAIN Cases : \E c \in Cases[family] : instr = c[1] /\ given = c[2]
  /\ status = "ready" => stack = given /\ memory = found
  /\ TrapKeepsOperands

(* What the assumption says of the instruction at hand.                    *)
Elements == {given[k] : k \in DOMAIN given}
LEMMA CaseFacts ==
  ASSUME NInv
  PROVE  /\ given \in Seq(Elements) /\ Taken \in Nat /\ N \in Nat /\ instr.lane \in Nat
         /\ instr.class = "simd" /\ instr.op \in OfOne => Taken = 1
         /\ instr.class = "simd" /\ OfTwo(instr) =>
              /\ Taken = 2
              /\ given # <<>> /\ given[Len(given)].kind = "v128" =>
                   given[Len(given)].v \in [1 .. VectorSize -> Nat]
<1>1. PICK family \in DOMAIN Cases : \E c \in Cases[family] : instr = c[1] /\ given = c[2]
  BY DEF NInv
<1>2. PICK c \in Cases[family] : instr = c[1] /\ given = c[2]
  BY <1>1
<1>3. LET ins == c[1]  values == c[2]
      IN  /\ values \in Seq({values[k] : k \in DOMAIN values})
          /\ Len(ins.takes) \in Nat /\ ins.n \in Nat /\ ins.lane \in Nat
          /\ ins.class = "simd" /\ ins.op \in OfOne => Len(ins.takes) = 1
          /\ ins.class = "simd" /\ OfTwo(ins) =>
               /\ Len(ins.takes) = 2
               /\ values # <<>> /\ values[Len(values)].kind = "v128" =>
                    values[Len(values)].v \in [1 .. VectorSize -> Nat]
  BY <1>1, <1>2, CasesAssumption, Zenon
<1>4. QED
  BY <1>2, <1>3 DEF Elements, Taken, N, OfTwo

(* The beginning of a sequence.                                            *)
LEMMA Beginning ==
  ASSUME NEW T, NEW s, NEW m \in Nat, \A i \in 1 .. m : s[i] \in T
  PROVE  /\ SubSeq(s, 1, m) \in Seq(T) /\ Len(SubSeq(s, 1, m)) = m
         /\ \A i \in 1 .. m : SubSeq(s, 1, m)[i] = s[i]
<1>1. 1 \in Int /\ m \in Int
  OBVIOUS
<1>2. /\ SubSeq(s, 1, m) \in Seq(T)
      /\ Len(SubSeq(s, 1, m)) = IF 1 <= m THEN m - 1 + 1 ELSE 0
      /\ \A i \in 1 .. m - 1 + 1 : SubSeq(s, 1, m)[i] = s[1 + i - 1]
  BY <1>1, SubSeqProperties
<1>3. (IF 1 <= m THEN m - 1 + 1 ELSE 0) = m /\ m - 1 + 1 = m
  OBVIOUS
<1>4. \A i \in 1 .. m : 1 + i - 1 = i
  OBVIOUS
<1>5. QED
  BY <1>2, <1>3, <1>4

(* A sequence is its beginning and its last elements.                      *)
LEMMA SplitIsWhole ==
  ASSUME NEW T, NEW s \in Seq(T), NEW m \in Nat, NEW n \in Nat, Len(s) = m + n,
         NEW top, top = [k \in 1 .. n |-> s[m + k]]
  PROVE  SubSeq(s, 1, m) \o top = s
<1>1. \A i \in 1 .. m + n : s[i] \in T
  BY ElementOfSeq
<1> DEFINE low == SubSeq(s, 1, m)
<1>2. low \in Seq(T) /\ Len(low) = m /\ \A i \in 1 .. m : low[i] = s[i]
  <2>1. \A i \in 1 .. m : s[i] \in T
    BY <1>1
  <2>2. QED
    BY <2>1, Beginning
<1>3. top \in Seq(T) /\ Len(top) = n /\ \A k \in 1 .. n : top[k] = s[m + k]
  <2>1. \A k \in 1 .. n : s[m + k] \in T
    BY <1>1
  <2>2. top \in [1 .. n -> T]
    BY <2>1
  <2>3. top \in Seq(T)
    BY <2>2, SeqDef
  <2>4. QED
    BY <2>2, <2>3, LenProperties
<1> HIDE DEF low
<1>4. /\ low \o top \in Seq(T) /\ Len(low \o top) = Len(low) + Len(top)
      /\ \A i \in 1 .. Len(low) + Len(top) :
           (low \o top)[i] = IF i <= Len(low) THEN low[i] ELSE top[i - Len(low)]
  <2>1. low \in Seq(T)
    BY <1>2
  <2>2. top \in Seq(T)
    BY <1>3
  <2>3. QED
    BY <2>1, <2>2, ConcatProperties
<1>5. ASSUME NEW i \in 1 .. m + n PROVE (low \o top)[i] = s[i]
  <2>1. CASE i <= m
    BY <1>2, <1>3, <1>4, <2>1
  <2>2. CASE ~ (i <= m)
    <3>1. i - m \in 1 .. n /\ m + (i - m) = i
      BY <2>2
    <3>2. QED
      BY <1>2, <1>3, <1>4, <2>2, <3>1
  <2>3. QED
    BY <2>1, <2>2
<1>6. \A i \in 1 .. Len(low \o top) : (low \o top)[i] = s[i]
  BY <1>2, <1>3, <1>4, <1>5
<1>7. Len(low \o top) = Len(s)
  BY <1>2, <1>3, <1>4
<1>8. low \o top = s
  BY <1>4, <1>6, <1>7, SeqEqual
<1>9. QED
  BY <1>8 DEF low

(* What is put back is what was there.                                     *)
LEMMA RestoredIsStack ==
  ASSUME NEW T, stack \in Seq(T), NEW n \in Nat
  PROVE  Restored(n) = stack
<1>1. PICK l \in Nat : Len(stack) = l
  BY LenProperties
<1>2. CASE ~ Has(n)
  BY <1>2 DEF Restored
<1>3. CASE Has(n)
  <2>1. PICK m \in Nat : l = m + n /\ l - n = m
    BY <1>1, <1>3 DEF Has
  <2>2. \A k \in 1 .. n : l - (n - k) = m + k
    BY <2>1
  <2>3. [k \in 1 .. n |-> Top(n - k)] = [k \in 1 .. n |-> stack[m + k]]
    BY <1>1, <2>2 DEF Top
  <2>4. Below(n) = SubSeq(stack, 1, m)
    BY <1>1, <2>1 DEF Below
  <2>5. SubSeq(stack, 1, m) \o [k \in 1 .. n |-> stack[m + k]] = stack
    BY <1>1, <2>1, SplitIsWhole
  <2>6. QED
    BY <1>3, <2>3, <2>4, <2>5 DEF Restored
<1>4. QED
  BY <1>2, <1>3

(* An answer disturbs no memory and is no trap.                            *)
Ready == NInv /\ status = "ready"
LEMMA QuietKeeps ==
  ASSUME Ready, UNCHANGED <<instr, given, found, memory>>, status' \notin {"ready", "trap"}
  PROVE  NInv'
BY DEF Ready, NInv, TrapKeepsOperands

LEMMA AnswerKeeps ==
  ASSUME Ready, NEW n, NEW result, Answer(n, result)
  PROVE  NInv'
BY QuietKeeps DEF Answer, Unchanged

(* A trap that has lost no more than the operands of the instruction, and  *)
(* none if it is scalar.                                                   *)
LEMMA TrapKeeps ==
  ASSUME Ready, NEW left, TrapWith(left),
         instr.class = "scalar" => left = given,
         Len(given) >= Taken => SubSeq(left, 1, Len(given) - Taken) = Rest
  PROVE  NInv'
BY DEF Ready, NInv, TrapKeepsOperands, TrapWith, Unchanged, Rest, Taken

(* Operands that are put back.                                             *)
LEMMA PutBackKeeps ==
  ASSUME Ready, NEW n \in Nat, Trap(n)
  PROVE  NInv'
<1>1. stack = given /\ given \in Seq(Elements)
  BY CaseFacts DEF Ready, NInv
<1>2. Restored(n) = given
  BY <1>1, RestoredIsStack
<1>3. QED
  BY <1>2, TrapKeeps DEF Trap, Rest

LEMMA WithKeeps ==
  ASSUME Ready, NEW n \in Nat, NEW result, With(n, result)
  PROVE  NInv'
BY AnswerKeeps, PutBackKeeps DEF With

(* The beginning of a beginning is a beginning.                            *)
LEMMA BeginningOfBeginning ==
  ASSUME NEW T, NEW s \in Seq(T), NEW n \in Nat, NEW m \in 0 .. n, n <= Len(s)
  PROVE  SubSeq(SubSeq(s, 1, n), 1, m) = SubSeq(s, 1, m)
<1> DEFINE low == SubSeq(s, 1, n)
           first == SubSeq(s, 1, m)
           left == SubSeq(low, 1, m)
<1>1. Len(s) \in Nat /\ \A i \in 1 .. n : s[i] \in T
  BY LenProperties, ElementOfSeq
<1>2. m \in Nat /\ \A i \in 1 .. m : i \in 1 .. n
  OBVIOUS
<1>3. low \in Seq(T) /\ \A i \in 1 .. n : low[i] = s[i]
  BY <1>1, Beginning
<1> HIDE DEF low
<1>4. first \in Seq(T) /\ Len(first) = m /\ \A i \in 1 .. m : first[i] = s[i]
  <2>1. \A i \in 1 .. m : s[i] \in T
    BY <1>1, <1>2
  <2>2. QED
    BY <1>2, <2>1, Beginning
<1>5. left \in Seq(T) /\ Len(left) = m /\ \A i \in 1 .. m : left[i] = low[i]
  <2>1. \A i \in 1 .. m : low[i] \in T
    BY <1>1, <1>2, <1>3
  <2>2. QED
    BY <1>2, <2>1, Beginning
<1> HIDE DEF first, left
<1>6. \A i \in 1 .. Len(left) : left[i] = first[i]
  BY <1>3, <1>4, <1>5
<1>7. left = first
  BY <1>4, <1>5, <1>6, SeqEqual
<1>8. QED
  BY <1>7 DEF left, first, low

(* Operands that are lost, no more than the instruction takes.             *)
LEMMA LoseKeeps ==
  ASSUME Ready, NEW n \in Nat, n <= Taken, Has(n), instr.class # "scalar", Lose(n)
  PROVE  NInv'
<1>1. stack = given /\ given \in Seq(Elements) /\ Taken \in Nat
  BY CaseFacts DEF Ready, NInv
<1>2. PICK l \in Nat : Len(given) = l
  BY <1>1, LenProperties
<1>3. PICK m \in Nat : l - n = m
  BY <1>1, <1>2 DEF Has
<1>4. PICK t \in Nat : Taken = t
  BY <1>1
<1>5. ASSUME l >= t PROVE SubSeq(Below(n), 1, l - t) = Rest
  <2>1. PICK r \in Nat : l - t = r
    BY <1>5
  <2>2. r \in 0 .. m /\ m <= l
    BY <1>3, <1>4, <2>1
  <2>3. Below(n) = SubSeq(given, 1, m) /\ Rest = SubSeq(given, 1, r)
    BY <1>1, <1>2, <1>3, <1>4, <2>1 DEF Below, Rest
  <2>4. SubSeq(SubSeq(given, 1, m), 1, r) = SubSeq(given, 1, r)
    BY <1>1, <1>2, <2>2, BeginningOfBeginning
  <2>5. QED
    BY <2>1, <2>3, <2>4
<1>6. Len(given) >= Taken => SubSeq(Below(n), 1, Len(given) - Taken) = Rest
  BY <1>2, <1>4, <1>5
<1>7. QED
  BY <1>6, TrapKeeps DEF Lose

(* The address is lost, and the vector above it put back.                  *)
LEMMA KeepOneKeeps ==
  ASSUME Ready, Taken = 2, Has(2), instr.class # "scalar",
         TrapWith(Append(Below(2), Rhs))
  PROVE  NInv'
<1>1. stack = given /\ given \in Seq(Elements)
  BY CaseFacts DEF Ready, NInv
<1>2. PICK l \in Nat : Len(given) = l
  BY <1>1, LenProperties
<1>3. PICK m \in Nat : l - 2 = m /\ l = m + 2
  BY <1>1, <1>2 DEF Has
<1> DEFINE low == SubSeq(given, 1, m)
           left == Append(low, Rhs)
<1>4. Below(2) = low /\ Rest = low
  BY <1>1, <1>2, <1>3 DEF Below, Rest
<1>5. \A i \in 1 .. l : given[i] \in Elements
  BY <1>1, <1>2, ElementOfSeq
<1>6. low \in Seq(Elements) /\ Len(low) = m
  <2>1. \A i \in 1 .. m : given[i] \in Elements
    BY <1>3, <1>5
  <2>2. QED
    BY <2>1, Beginning
<1>7. Rhs \in Elements
  BY <1>1, <1>2, <1>3, <1>5 DEF Rhs, Top
<1> HIDE DEF low
<1>8. left \in Seq(Elements) /\ Len(left) = m + 1 /\ \A i \in 1 .. m : left[i] = low[i]
  BY <1>6, <1>7, AppendProperties
<1> HIDE DEF left
<1>9. SubSeq(left, 1, m) = low
  <2>1. \A i \in 1 .. m : left[i] \in Elements
    BY <1>6, <1>8, ElementOfSeq
  <2>2. /\ SubSeq(left, 1, m) \in Seq(Elements) /\ Len(SubSeq(left, 1, m)) = m
        /\ \A i \in 1 .. m : SubSeq(left, 1, m)[i] = left[i]
    BY <2>1, Beginning
  <2>3. Len(SubSeq(left, 1, m)) = Len(low)
        /\ \A i \in 1 .. Len(SubSeq(left, 1, m)) : SubSeq(left, 1, m)[i] = low[i]
    BY <1>6, <1>8, <2>2
  <2>4. QED
    BY <1>6, <2>2, <2>3, SeqEqual
<1>10. SubSeq(left, 1, Len(given) - Taken) = Rest
  BY <1>2, <1>3, <1>4, <1>9
<1>11. TrapWith(left)
  BY <1>4 DEF left
<1>12. QED
  BY <1>10, <1>11, TrapKeeps

(* A store of bytes that are no more than the instruction writes.          *)
LEMMA StoreKeeps ==
  ASSUME Ready, Taken = 2, instr.class # "scalar", instr.op \in Stores, AddressIs(1),
         NEW bytes, StoreWith(bytes),
         DOMAIN bytes \subseteq 1 .. IF instr.op = "store" THEN VectorSize ELSE N
  PROVE  NInv'
<1>1. stack = given /\ memory = found /\ given \in Seq(Elements)
  BY CaseFacts DEF Ready, NInv
<1>2. Has(2)
  BY DEF AddressIs
<1>3. CASE ~InBounds(1, Len(bytes))
  <2>1. Lose(2)
    BY <1>3 DEF StoreWith
  <2>2. QED
    BY <1>2, <2>1, LoseKeeps
<1>4. CASE InBounds(1, Len(bytes))
  <2>1. PICK at : at = Address(1)
    OBVIOUS
  <2>2. at = Unsigned(G(1), W32) + instr.imm
    BY <1>1, <2>1 DEF Address, AddressIs, ToU64, Top, G
  <2>3. /\ memory' = Stored(bytes, at) /\ stack' = Below(2) /\ status' = "ok"
        /\ UNCHANGED <<instr, given, found>>
    BY <1>4, <2>1 DEF StoreWith, Unchanged
  <2>4. \A k \in DOMAIN memory' : memory'[k] # found[k] => k - at \in DOMAIN bytes
    BY <1>1, <2>3 DEF Stored
  <2>5. stack' = Rest
    BY <1>1, <2>3 DEF Below, Rest
  <2>6. /\ Rest' = Rest /\ N' = N /\ (Unsigned(G(1), W32) + instr.imm)' = at
    BY <2>2, <2>3 DEF Rest, Taken, N, G
  <2>7. TrapKeepsOperands'
    BY <2>3, <2>4, <2>5, <2>6 DEF TrapKeepsOperands
  <2>8. QED
    BY <2>3, <2>7 DEF NInv, Ready
<1>5. QED
  BY <1>3, <1>4

(* The bytes of one lane.                                                  *)
LEMMA DomainOfPart ==
  ASSUME NEW s, NEW a \in Int, NEW n \in Nat
  PROVE  DOMAIN SubSeq(s, a + 1, a + n) = 1 .. n
<1> DEFINE values == {s[i] : i \in a + 1 .. a + n}
<1>1. a + 1 \in Int /\ a + n \in Int /\ \A i \in a + 1 .. a + n : s[i] \in values
  OBVIOUS
<1> HIDE DEF values
<1>2. PICK b \in Int : b = a + 1
  OBVIOUS
<1>3. PICK c \in Int : c = a + n
  OBVIOUS
<1>4. /\ SubSeq(s, b, c) \in Seq(values)
      /\ Len(SubSeq(s, b, c)) = IF b <= c THEN c - b + 1 ELSE 0
  BY <1>1, <1>2, <1>3, SubSeqProperties
<1>5. Len(SubSeq(s, b, c)) = n
  BY <1>2, <1>3, <1>4
<1>6. DOMAIN SubSeq(s, b, c) = 1 .. n
  BY <1>4, <1>5, LenProperties
<1>7. QED
  BY <1>2, <1>3, <1>6

-----------------------------------------------------------------------------
(* A vector load loses its address when it is out of bounds.               *)
LEMMA LoadKeeps ==
  ASSUME Ready, Taken = 1, instr.class # "scalar",
         NEW size, NEW result, LoadWith(size, result)
  PROVE  NInv'
<1>1. CASE ~AddressIs(0)
  BY <1>1, PutBackKeeps DEF LoadWith
<1>2. CASE AddressIs(0) /\ ~InBounds(0, size)
  BY <1>2, LoseKeeps DEF LoadWith, AddressIs
<1>3. CASE AddressIs(0) /\ InBounds(0, size)
  BY <1>3, AnswerKeeps DEF LoadWith
<1>4. QED
  BY <1>1, <1>2, <1>3

(* How many operands there are.                                            *)
LEMMA Counts == 0 \in Nat /\ 1 \in Nat /\ 2 \in Nat /\ 3 \in Nat
OBVIOUS

(* The scalar instructions answer, or put back what they took.             *)
LEMMA ScalarKeeps ==
  ASSUME NInv, NextScalar
  PROVE  NInv'
<1>1. CASE Const
  <2>1. Ready
    BY <1>1, Zenon DEF Const, Is, Ready
  <2>2. QED
    BY <1>1, <2>1, Counts, AnswerKeeps, PutBackKeeps, Zenon DEF Const
<1>2. CASE Eqz
  <2>1. Ready
    BY <1>2, Zenon DEF Eqz, Is, Ready
  <2>2. QED
    BY <1>2, <2>1, Counts, AnswerKeeps, PutBackKeeps, Zenon DEF Eqz
<1>3. CASE Select
  <2>1. Ready
    BY <1>3, Zenon DEF Select, Is, Ready
  <2>2. QED
    BY <1>3, <2>1, Counts, AnswerKeeps, PutBackKeeps, Zenon DEF Select
<1>4. CASE OpBitwise
  <2>1. Ready
    BY <1>4, Zenon DEF OpBitwise, Is, Ready
  <2>2. QED
    BY <1>4, <2>1, Counts, AnswerKeeps, PutBackKeeps, Zenon DEF OpBitwise
<1>5. CASE OpBitcount
  <2>1. Ready
    BY <1>5, Zenon DEF OpBitcount, Is, Ready
  <2>2. QED
    BY <1>5, <2>1, Counts, AnswerKeeps, PutBackKeeps, Zenon DEF OpBitcount
<1>6. CASE OpShift
  <2>1. Ready
    BY <1>6, Zenon DEF OpShift, Is, Ready
  <2>2. QED
    BY <1>6, <2>1, Counts, AnswerKeeps, PutBackKeeps, Zenon DEF OpShift
<1>7. CASE OpCompare
  <2>1. Ready
    BY <1>7, Zenon DEF OpCompare, Is, Ready
  <2>2. QED
    BY <1>7, <2>1, Counts, AnswerKeeps, PutBackKeeps, Zenon DEF OpCompare
<1>8. CASE OpArith
  <2>1. Ready
    BY <1>8, Zenon DEF OpArith, Is, Ready
  <2>2. QED
    BY <1>8, <2>1, Counts, AnswerKeeps, PutBackKeeps, Zenon DEF OpArith
<1>9. CASE OpDiv
  <2>1. Ready
    BY <1>9, Zenon DEF OpDiv, Is, Ready
  <2>2. QED
    BY <1>9, <2>1, Counts, AnswerKeeps, PutBackKeeps, Zenon DEF OpDiv
<1>10. CASE OpWrap
  <2>1. Ready
    BY <1>10, Zenon DEF OpWrap, Is, Ready
  <2>2. QED
    BY <1>10, <2>1, Counts, AnswerKeeps, PutBackKeeps, Zenon DEF OpWrap
<1>11. CASE OpExtend
  <2>1. Ready
    BY <1>11, Zenon DEF OpExtend, Is, Ready
  <2>2. QED
    BY <1>11, <2>1, Counts, AnswerKeeps, PutBackKeeps, Zenon DEF OpExtend
<1>12. CASE OpExtendLow
  <2>1. Ready
    BY <1>12, Zenon DEF OpExtendLow, Is, Ready
  <2>2. QED
    BY <1>12, <2>1, Counts, AnswerKeeps, PutBackKeeps, Zenon DEF OpExtendLow
<1>13. CASE OpTrunc
  <2>1. Ready
    BY <1>13, Zenon DEF OpTrunc, Is, Ready
  <2>2. QED
    BY <1>13, <2>1, Counts, AnswerKeeps, PutBackKeeps, Zenon DEF OpTrunc
<1>14. CASE OpTruncSat
  <2>1. Ready
    BY <1>14, Zenon DEF OpTruncSat, Is, Ready
  <2>2. QED
    BY <1>14, <2>1, Counts, AnswerKeeps, PutBackKeeps, Zenon DEF OpTruncSat
<1>15. CASE OpConvert
  <2>1. Ready
    BY <1>15, Zenon DEF OpConvert, Is, Ready
  <2>2. QED
    BY <1>15, <2>1, Counts, AnswerKeeps, PutBackKeeps, Zenon DEF OpConvert
<1>16. CASE OpResize
  <2>1. Ready
    BY <1>16, Zenon DEF OpResize, Is, Ready
  <2>2. QED
    BY <1>16, <2>1, Counts, AnswerKeeps, PutBackKeeps, Zenon DEF OpResize
<1>17. CASE OpFloatUnary
  <2>1. Ready
    BY <1>17, Zenon DEF OpFloatUnary, Is, Ready
  <2>2. QED
    BY <1>17, <2>1, Counts, AnswerKeeps, PutBackKeeps, Zenon DEF OpFloatUnary
<1>18. CASE OpFloatBinary
  <2>1. Ready
    BY <1>18, Zenon DEF OpFloatBinary, Is, Ready
  <2>2. QED
    BY <1>18, <2>1, Counts, AnswerKeeps, PutBackKeeps, Zenon DEF OpFloatBinary
<1>19. CASE OpReinterpret
  <2>1. Ready
    BY <1>19, Zenon DEF OpReinterpret, Is, Ready
  <2>2. QED
    BY <1>19, <2>1, Counts, AnswerKeeps, PutBackKeeps, Zenon DEF OpReinterpret
<1>20. CASE Drop
  <2>1. Ready
    BY <1>20 DEF Drop, Is, Ready
  <2>2. CASE Has(1)
    BY <1>20, <2>1, <2>2, QuietKeeps DEF Drop, Unchanged
  <2>3. CASE ~Has(1)
    BY <1>20, <2>1, <2>3, PutBackKeeps DEF Drop
  <2>4. QED
    BY <2>2, <2>3
<1>21. CASE OpRem
  <2>1. Ready
    BY <1>21, Zenon DEF OpRem, Is, Ready
  <2>2. ASSUME status' = "dead" /\ UNCHANGED <<stack, memory>> /\ Unchanged
        PROVE  NInv'
    BY <2>1, <2>2, QuietKeeps DEF Unchanged
  <2>3. QED
    BY <1>21, <2>1, <2>2, Counts, AnswerKeeps, PutBackKeeps, Zenon DEF OpRem
<1>22. QED
  BY <1>1, <1>2, <1>3, <1>4, <1>5, <1>6, <1>7, <1>8, <1>9, <1>10, <1>11, <1>12, <1>13, <1>14, <1>15, <1>16, <1>17, <1>18, <1>19, <1>20, <1>21 DEF NextScalar

(* The vector instructions also lose operands, but not what is under them. *)
LEMMA SimdKeeps ==
  ASSUME NInv, NextSimd
  PROVE  NInv'
<1>1. CASE Shuffle
  <2>1. Ready
    BY <1>1, Zenon DEF Shuffle, IsSimd, Ready
  <2>2. QED
    BY <1>1, <2>1, Counts, WithKeeps, Zenon DEF Shuffle
<1>2. CASE Swizzle
  <2>1. Ready
    BY <1>2, Zenon DEF Swizzle, IsSimd, Ready
  <2>2. QED
    BY <1>2, <2>1, Counts, WithKeeps, Zenon DEF Swizzle
<1>3. CASE SimdCompare
  <2>1. Ready
    BY <1>3, Zenon DEF SimdCompare, IsSimd, Ready
  <2>2. QED
    BY <1>3, <2>1, Counts, WithKeeps, Zenon DEF SimdCompare
<1>4. CASE SimdCompareFloat
  <2>1. Ready
    BY <1>4, Zenon DEF SimdCompareFloat, IsSimd, Ready
  <2>2. QED
    BY <1>4, <2>1, Counts, WithKeeps, Zenon DEF SimdCompareFloat
<1>5. CASE SimdBitwise
  <2>1. Ready
    BY <1>5, Zenon DEF SimdBitwise, IsSimd, Ready
  <2>2. QED
    BY <1>5, <2>1, Counts, WithKeeps, Zenon DEF SimdBitwise
<1>6. CASE SimdNot
  <2>1. Ready
    BY <1>6, Zenon DEF SimdNot, IsSimd, Ready
  <2>2. QED
    BY <1>6, <2>1, Counts, WithKeeps, Zenon DEF SimdNot
<1>7. CASE Bitselect
  <2>1. Ready
    BY <1>7, Zenon DEF Bitselect, IsSimd, Ready
  <2>2. QED
    BY <1>7, <2>1, Counts, WithKeeps, Zenon DEF Bitselect
<1>8. CASE AnyTrue
  <2>1. Ready
    BY <1>8, Zenon DEF AnyTrue, IsSimd, Ready
  <2>2. QED
    BY <1>8, <2>1, Counts, WithKeeps, Zenon DEF AnyTrue
<1>9. CASE SimdUnary
  <2>1. Ready
    BY <1>9, Zenon DEF SimdUnary, IsSimd, Ready
  <2>2. QED
    BY <1>9, <2>1, Counts, WithKeeps, Zenon DEF SimdUnary
<1>10. CASE SimdAllTrue
  <2>1. Ready
    BY <1>10, Zenon DEF SimdAllTrue, IsSimd, Ready
  <2>2. QED
    BY <1>10, <2>1, Counts, WithKeeps, Zenon DEF SimdAllTrue
<1>11. CASE SimdBitmask
  <2>1. Ready
    BY <1>11, Zenon DEF SimdBitmask, IsSimd, Ready
  <2>2. QED
    BY <1>11, <2>1, Counts, WithKeeps, Zenon DEF SimdBitmask
<1>12. CASE SimdNarrow
  <2>1. Ready
    BY <1>12, Zenon DEF SimdNarrow, IsSimd, Ready
  <2>2. QED
    BY <1>12, <2>1, Counts, WithKeeps, Zenon DEF SimdNarrow
<1>13. CASE SimdBinary
  <2>1. Ready
    BY <1>13, Zenon DEF SimdBinary, IsSimd, Ready
  <2>2. QED
    BY <1>13, <2>1, Counts, WithKeeps, Zenon DEF SimdBinary
<1>14. CASE SimdExtaddPairwise
  <2>1. Ready
    BY <1>14, Zenon DEF SimdExtaddPairwise, IsSimd, Ready
  <2>2. QED
    BY <1>14, <2>1, Counts, WithKeeps, Zenon DEF SimdExtaddPairwise
<1>15. CASE SimdExtend
  <2>1. Ready
    BY <1>15, Zenon DEF SimdExtend, IsSimd, Ready
  <2>2. QED
    BY <1>15, <2>1, Counts, WithKeeps, Zenon DEF SimdExtend
<1>16. CASE SimdExtmul
  <2>1. Ready
    BY <1>16, Zenon DEF SimdExtmul, IsSimd, Ready
  <2>2. QED
    BY <1>16, <2>1, Counts, WithKeeps, Zenon DEF SimdExtmul
<1>17. CASE SimdDot
  <2>1. Ready
    BY <1>17, Zenon DEF SimdDot, IsSimd, Ready
  <2>2. QED
    BY <1>17, <2>1, Counts, WithKeeps, Zenon DEF SimdDot
<1>18. CASE SimdQ15mulr
  <2>1. Ready
    BY <1>18, Zenon DEF SimdQ15mulr, IsSimd, Ready
  <2>2. QED
    BY <1>18, <2>1, Counts, WithKeeps, Zenon DEF SimdQ15mulr
<1>19. CASE SimdLaneselect
  <2>1. Ready
    BY <1>19, Zenon DEF SimdLaneselect, IsSimd, Ready
  <2>2. QED
    BY <1>19, <2>1, Counts, WithKeeps, Zenon DEF SimdLaneselect
<1>20. CASE SimdFloatUnary
  <2>1. Ready
    BY <1>20, Zenon DEF SimdFloatUnary, IsSimd, Ready
  <2>2. QED
    BY <1>20, <2>1, Counts, WithKeeps, Zenon DEF SimdFloatUnary
<1>21. CASE SimdFloatBinary
  <2>1. Ready
    BY <1>21, Zenon DEF SimdFloatBinary, IsSimd, Ready
  <2>2. QED
    BY <1>21, <2>1, Counts, WithKeeps, Zenon DEF SimdFloatBinary
<1>22. CASE SimdMadd
  <2>1. Ready
    BY <1>22, Zenon DEF SimdMadd, IsSimd, Ready
  <2>2. QED
    BY <1>22, <2>1, Counts, WithKeeps, Zenon DEF SimdMadd
<1>23. CASE SimdTruncSat
  <2>1. Ready
    BY <1>23, Zenon DEF SimdTruncSat, IsSimd, Ready
  <2>2. QED
    BY <1>23, <2>1, Counts, WithKeeps, Zenon DEF SimdTruncSat
<1>24. CASE SimdConvert
  <2>1. Ready
    BY <1>24, Zenon DEF SimdConvert, IsSimd, Ready
  <2>2. QED
    BY <1>24, <2>1, Counts, WithKeeps, Zenon DEF SimdConvert
<1>25. CASE SimdResize
  <2>1. Ready
    BY <1>25, Zenon DEF SimdResize, IsSimd, Ready
  <2>2. QED
    BY <1>25, <2>1, Counts, WithKeeps, Zenon DEF SimdResize
<1>26. CASE VectorConst
  BY <1>26, AnswerKeeps DEF VectorConst, IsSimd, Ready
<1>27. CASE ExtractLane
  <2>1. Ready
    BY <1>27, Zenon DEF ExtractLane, IsSimd, Ready
  <2>2. QED
    BY <1>27, <2>1, Counts, WithKeeps, PutBackKeeps, Zenon DEF ExtractLane
<1>28. CASE ReplaceLane
  <2>1. Ready
    BY <1>28, Zenon DEF ReplaceLane, IsSimd, Ready
  <2>2. QED
    BY <1>28, <2>1, Counts, AnswerKeeps, PutBackKeeps, Zenon DEF ReplaceLane
<1>29. CASE SimdShift
  <2>1. Ready
    BY <1>29, Zenon DEF SimdShift, IsSimd, Ready
  <2>2. QED
    BY <1>29, <2>1, Counts, AnswerKeeps, PutBackKeeps, Zenon DEF SimdShift
<1>30. CASE Splat
  <2>1. Ready /\ instr.class # "scalar" /\ Taken = 1
    BY <1>30, CaseFacts DEF Splat, IsSimd, Ready, OfOne
  <2>2. CASE ~Has(1)
    BY <1>30, <2>1, <2>2, PutBackKeeps DEF Splat
  <2>3. CASE Has(1) /\ Rhs.kind # ScalarOf
    BY <1>30, <2>1, <2>3, LoseKeeps DEF Splat
  <2>4. CASE Has(1) /\ Rhs.kind = ScalarOf
    BY <1>30, <2>1, <2>4, Counts, AnswerKeeps, Zenon DEF Splat
  <2>5. QED
    BY <2>2, <2>3, <2>4
<1>31. CASE VectorLoad
  <2>1. Ready /\ instr.class # "scalar" /\ Taken = 1
    BY <1>31, CaseFacts DEF VectorLoad, IsSimd, Ready, OfOne
  <2>2. QED
    BY <1>31, <2>1, LoadKeeps, Zenon DEF VectorLoad
<1>32. CASE VectorLoadExtend
  <2>1. Ready /\ instr.class # "scalar" /\ Taken = 1
    BY <1>32, CaseFacts DEF VectorLoadExtend, IsSimd, Ready, OfOne
  <2>2. QED
    BY <1>32, <2>1, LoadKeeps, Zenon DEF VectorLoadExtend
<1>33. CASE VectorLoadSplat
  <2>1. Ready /\ instr.class # "scalar" /\ Taken = 1
    BY <1>33, CaseFacts DEF VectorLoadSplat, IsSimd, Ready, OfOne
  <2>2. QED
    BY <1>33, <2>1, LoadKeeps, Zenon DEF VectorLoadSplat
<1>34. CASE VectorLoadZero
  <2>1. Ready /\ instr.class # "scalar" /\ Taken = 1
    BY <1>34, CaseFacts DEF VectorLoadZero, IsSimd, Ready, OfOne
  <2>2. QED
    BY <1>34, <2>1, LoadKeeps, Zenon DEF VectorLoadZero
<1>35. CASE VectorStore
  <2>1. Ready /\ instr.class # "scalar" /\ instr.op = "store" /\ Taken = 2
    BY <1>35, CaseFacts DEF VectorStore, IsSimd, Ready, OfTwo
  <2>2. CASE ~(TakesVectors(1) /\ AddressIs(1))
    BY <1>35, <2>1, <2>2, PutBackKeeps DEF VectorStore
  <2>3. CASE TakesVectors(1) /\ AddressIs(1)
    <3>1. DOMAIN Rhs.v = 1 .. VectorSize
      <4>1. stack = given /\ given \in Seq(Elements)
        BY <2>1, CaseFacts DEF Ready, NInv
      <4>2. Len(given) \in Nat /\ Len(given) >= 2 /\ given # <<>>
        BY <2>3, <4>1, LenProperties, EmptySeq DEF AddressIs, Has
      <4>3. Rhs = given[Len(given)]
        BY <4>1, <4>2 DEF Rhs, Top
      <4>4. Rhs.kind = "v128"
        BY <2>3 DEF TakesVectors, Kinds, Rhs
      <4>5. Rhs.v \in [1 .. VectorSize -> Nat]
        BY <1>35, <2>1, <4>2, <4>3, <4>4, CaseFacts DEF OfTwo, IsSimd, VectorStore
      <4>6. QED
        BY <4>5
    <3>2. QED
      BY <1>35, <2>1, <2>3, <3>1, StoreKeeps DEF VectorStore, Stores
  <2>4. QED
    BY <2>2, <2>3
<1>36. CASE LoadLane
  <2>1. Ready /\ instr.class # "scalar"
    BY <1>36 DEF LoadLane, IsSimd, Ready
  <2>2. CASE ~(instr.lane \in Indices(N) /\ TakesVectors(1) /\ AddressIs(1))
    BY <1>36, <2>1, <2>2, PutBackKeeps DEF LoadLane
  <2>3. CASE instr.lane \in Indices(N) /\ TakesVectors(1) /\ AddressIs(1)
    <3>1. Taken = 2 /\ Has(2)
      BY <1>36, <2>3, CaseFacts DEF LoadLane, IsSimd, OfTwo, N, AddressIs
    <3>2. CASE InBounds(1, N)
      BY <1>36, <2>1, <2>3, <3>2, Counts, AnswerKeeps, Zenon DEF LoadLane
    <3>3. CASE ~InBounds(1, N)
      BY <1>36, <2>1, <2>3, <3>1, <3>3, KeepOneKeeps DEF LoadLane
    <3>4. QED
      BY <3>2, <3>3
  <2>4. QED
    BY <2>2, <2>3
<1>37. CASE StoreLane
  <2>1. Ready /\ instr.class # "scalar" /\ instr.op = "store_lane"
    BY <1>37 DEF StoreLane, IsSimd, Ready
  <2>2. CASE ~(instr.lane \in Indices(N) /\ TakesVectors(1) /\ AddressIs(1))
    BY <1>37, <2>1, <2>2, PutBackKeeps DEF StoreLane
  <2>3. CASE instr.lane \in Indices(N) /\ TakesVectors(1) /\ AddressIs(1)
    <3>1. Taken = 2 /\ N \in Nat /\ instr.lane \in Nat
      BY <1>37, <2>3, CaseFacts DEF StoreLane, IsSimd, OfTwo, N
    <3>2. PICK a \in Int : a = instr.lane * N
      BY <3>1
    <3>3. (instr.lane + 1) * N = a + N
      BY <3>1, <3>2
    <3>4. DOMAIN SubSeq(Rhs.v, instr.lane * N + 1, (instr.lane + 1) * N) = 1 .. N
      BY <3>1, <3>2, <3>3, DomainOfPart
    <3>5. StoreWith(SubSeq(Rhs.v, instr.lane * N + 1, (instr.lane + 1) * N))
      BY <1>37, <2>3 DEF StoreLane
    <3>6. QED
      BY <2>1, <2>3, <3>1, <3>4, <3>5, StoreKeeps DEF Stores
  <2>4. QED
    BY <2>2, <2>3
<1>38. CASE SimdUnknown
  <2>1. Ready
    BY <1>38 DEF SimdUnknown, IsSimd, Ready
  <2>2. QED
    BY <1>38, <2>1, QuietKeeps DEF SimdUnknown, Unchanged
<1>39. QED
  BY <1>1, <1>2, <1>3, <1>4, <1>5, <1>6, <1>7, <1>8, <1>9, <1>10, <1>11, <1>12, <1>13, <1>14, <1>15, <1>16, <1>17, <1>18, <1>19, <1>20, <1>21, <1>22, <1>23, <1>24, <1>25, <1>26, <1>27, <1>28, <1>29, <1>30, <1>31, <1>32, <1>33, <1>34, <1>35, <1>36, <1>37, <1>38 DEF NextSimd

-----------------------------------------------------------------------------
(* A trap loses no operand and swaps none, for every scalar instruction,   *)
(* and touches nothing under the operands of a vector instruction; memory  *)
(* changes only when a store succeeds, in the bytes it addresses.          *)
THEOREM OperandsKept == Spec => []TrapKeepsOperands
<1>1. Init => NInv
  BY Zenon DEF Init, NInv, TrapKeepsOperands
<1>2. NInv /\ [Next]_vars => NInv'
  <2>1. ASSUME NInv, UNCHANGED vars PROVE NInv'
    BY <2>1 DEF vars, NInv, TrapKeepsOperands, Rest, Taken, N, G
  <2>2. QED
    BY <2>1, ScalarKeeps, SimdKeeps DEF Next
<1>3. NInv => TrapKeepsOperands
  BY DEF NInv
<1>4. QED
  BY <1>1, <1>2, <1>3, PTL DEF Spec
=============================================================================
