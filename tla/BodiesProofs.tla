---------------------------- MODULE BodiesProofs ----------------------------
(***************************************************************************)
(* What validation says of a body, and what nesting says of it, agree: the *)
(* open blocks validation counts at an instruction are those around it,    *)
(* and the end of each is where its block leaves the stack.  What lies     *)
(* under a block stays as it was when the block was opened.                *)
(***************************************************************************)
EXTENDS Bodies, DataLemmas, FiniteSetTheorems

(* What validation knows: the operands, and the blocks open with the       *)
(* height of the operands under each.                                      *)
Entries == [kind : Openers \cup {"else"}, params : Seq(Types), results : Seq(Types),
            height : Nat, dead : BOOLEAN]
States == [ops : Seq(Types), ok : BOOLEAN, ctrl : Seq(Entries)]

Stacked(v) ==
  /\ v \in States
  /\ \A j \in 1 .. Len(v.ctrl) :
       /\ v.ctrl[j].height <= Len(v.ops)
       /\ \A k \in 1 .. j : v.ctrl[k].height <= v.ctrl[j].height

(* The operands on top of s are ts. *)
Top(s, ts) == Len(s) >= Len(ts) /\ SubSeq(s, Len(s) - Len(ts) + 1, Len(s)) = ts

-----------------------------------------------------------------------------
(* One instruction.                                                        *)

(* Taking operands leaves what is below the block, and from a block that   *)
(* can be reached takes exactly what is asked for.                         *)
LEMMA Taken ==
  ASSUME NEW v, Stacked(v), v.ctrl # <<>>, NEW ts \in Seq(Types)
  PROVE  /\ Stacked(Take(v, ts)) /\ Take(v, ts).ctrl = v.ctrl
         /\ \E k \in Inner(v).height .. Len(v.ops) : Take(v, ts).ops = SubSeq(v.ops, 1, k)
         /\ Take(v, ts).ok => v.ok
         /\ Take(v, ts).ok /\ ~ Inner(v).dead =>
              /\ Inner(v).height + Len(ts) <= Len(v.ops) /\ Top(v.ops, ts)
              /\ Take(v, ts).ops = SubSeq(v.ops, 1, Len(v.ops) - Len(ts))
<1> DEFINE c == Inner(v)
           w == Take(v, ts)
           n == Shorter(Len(Operands(v)), Len(ts))
           no == FALSE
<1>1. /\ v = [ops |-> v.ops, ok |-> v.ok, ctrl |-> v.ctrl]
      /\ v.ops \in Seq(Types) /\ v.ok \in BOOLEAN /\ v.ctrl \in Seq(Entries)
  BY DEF Stacked, States
<1>2. c \in Entries /\ c.height \in 0 .. Len(v.ops) /\ Len(v.ctrl) \in 1 .. Len(v.ctrl)
  <2>1. Len(v.ctrl) \in 1 .. Len(v.ctrl)
    BY <1>1
  <2>2. c \in Entries
    BY <1>1, <2>1 DEF Inner
  <2>3. QED
    BY <2>1, <2>2 DEF Stacked, Inner, Entries
<1> HIDE DEF c
<1>3. /\ Operands(v) = SubSeq(v.ops, c.height + 1, Len(v.ops))
      /\ Len(Operands(v)) = Len(v.ops) - c.height
      /\ \A i \in 1 .. Len(v.ops) - c.height : Operands(v)[i] = v.ops[c.height + i]
  BY <1>1, <1>2 DEF Operands, c
<1>4. n \in 0 .. Len(v.ops) - c.height /\ n <= Len(ts)
  BY <1>1, <1>2, <1>3 DEF Shorter
<1>5. CASE ~ Has(v, ts)
  <2>1. w = [v EXCEPT !.ok = no]
    BY <1>5 DEF Take
  <2> HIDE DEF no
  <2>2. w.ops = v.ops /\ w.ctrl = v.ctrl /\ w.ok = no /\ w = [ops |-> v.ops, ok |-> no, ctrl |-> v.ctrl]
    BY <1>1, <2>1
  <2>3. w \in States
    BY <1>1, <2>2 DEF States, no
  <2>4. Stacked(w)
    BY <2>2, <2>3 DEF Stacked
  <2>5. w.ops = SubSeq(v.ops, 1, Len(v.ops))
    BY <1>1, <2>2
  <2>6. ~ w.ok
    BY <2>2 DEF no
  <2>7. QED
    BY <1>2, <2>2, <2>4, <2>5, <2>6 DEF c
<1>6. CASE Has(v, ts)
  <2> DEFINE k == Len(v.ops) - n
  <2>1. w = [v EXCEPT !.ops = SubSeq(v.ops, 1, k)]
    BY <1>6 DEF Take
  <2> HIDE DEF n
  <2>2. k \in c.height .. Len(v.ops)
    BY <1>1, <1>2, <1>4
  <2>3. SubSeq(v.ops, 1, k) \in Seq(Types) /\ Len(SubSeq(v.ops, 1, k)) = k
    BY <1>1, <1>2, <2>2
  <2> HIDE DEF k
  <2>4. w.ops = SubSeq(v.ops, 1, k) /\ w.ctrl = v.ctrl /\ w.ok = v.ok
        /\ w = [ops |-> SubSeq(v.ops, 1, k), ok |-> v.ok, ctrl |-> v.ctrl]
    BY <1>1, <2>1
  <2>5. w \in States
    BY <1>1, <2>3, <2>4 DEF States
  <2>6. \A j \in 1 .. Len(v.ctrl) : v.ctrl[j].height <= c.height /\ v.ctrl[j].height \in Nat
    <3>1. ASSUME NEW j \in 1 .. Len(v.ctrl)
          PROVE  v.ctrl[j].height <= v.ctrl[Len(v.ctrl)].height
      BY <1>1, <1>2 DEF Stacked
    <3>2. \A j \in 1 .. Len(v.ctrl) : v.ctrl[j] \in Entries
      BY <1>1
    <3>3. QED
      BY <3>1, <3>2 DEF c, Inner, Entries
  <2>7. Stacked(w)
    BY <1>2, <2>2, <2>3, <2>4, <2>5, <2>6 DEF Stacked
  <2>8. ASSUME ~ c.dead
        PROVE  /\ c.height + Len(ts) <= Len(v.ops) /\ Top(v.ops, ts)
               /\ w.ops = SubSeq(v.ops, 1, Len(v.ops) - Len(ts))
    <3>1. Len(Operands(v)) >= Len(ts) /\ OnTop(Operands(v), ts)
      BY <1>6, <2>8 DEF Has, c
    <3>2. n = Len(ts) /\ c.height + Len(ts) <= Len(v.ops)
      BY <1>1, <1>2, <1>3, <3>1 DEF n, Shorter
    <3>3. \A i \in 0 .. Len(ts) - 1 : v.ops[Len(v.ops) - i] = ts[Len(ts) - i]
      <4>1. SUFFICES ASSUME NEW i \in 0 .. Len(ts) - 1
                     PROVE  v.ops[Len(v.ops) - i] = ts[Len(ts) - i]
        OBVIOUS
      <4>2. Operands(v)[Len(Operands(v)) - i] = ts[Len(ts) - i]
        BY <3>1, <3>2 DEF OnTop, n
      <4>3. /\ Len(v.ops) - c.height - i \in 1 .. Len(v.ops) - c.height
            /\ c.height + (Len(v.ops) - c.height - i) = Len(v.ops) - i
        BY <1>1, <1>2, <3>2
      <4>4. QED
        BY <1>3, <4>2, <4>3
    <3>4. ASSUME NEW i \in 1 .. Len(ts)
          PROVE  SubSeq(v.ops, Len(v.ops) - Len(ts) + 1, Len(v.ops))[i] = ts[i]
      <4>1. Len(ts) - i \in 0 .. Len(ts) - 1 /\ Len(ts) - (Len(ts) - i) = i
        OBVIOUS
      <4>2. v.ops[Len(v.ops) - (Len(ts) - i)] = ts[i]
        BY <3>3, <4>1
      <4>3. SubSeq(v.ops, Len(v.ops) - Len(ts) + 1, Len(v.ops))[i]
              = v.ops[Len(v.ops) - Len(ts) + 1 + i - 1]
        BY <1>1, <1>2, <3>2
      <4>4. Len(v.ops) - Len(ts) + 1 + i - 1 = Len(v.ops) - (Len(ts) - i)
        BY <1>1
      <4>5. QED
        BY <4>2, <4>3, <4>4
    <3>5. SubSeq(v.ops, Len(v.ops) - Len(ts) + 1, Len(v.ops)) = ts
      <4> DEFINE s == SubSeq(v.ops, Len(v.ops) - Len(ts) + 1, Len(v.ops))
      <4>1. s \in Seq(Types) /\ Len(s) = Len(ts)
        BY <1>1, <1>2, <3>2
      <4>2. \A i \in 1 .. Len(s) : s[i] = ts[i]
        BY <3>4, <4>1
      <4> HIDE DEF s
      <4>3. s = ts
        BY <4>1, <4>2, SeqEqual
      <4>4. QED
        BY <4>3 DEF s
    <3>6. QED
      BY <1>1, <1>2, <2>4, <3>2, <3>5 DEF Top, k
  <2>9. QED
    BY <2>2, <2>4, <2>7, <2>8 DEF c
<1>7. QED
  BY <1>5, <1>6

(* x is v without some of the operands of its innermost block.             *)
Kept(v, x) ==
  /\ Stacked(x) /\ x.ctrl = v.ctrl /\ (x.ok => v.ok)
  /\ \E k \in Inner(v).height .. Len(v.ops) : x.ops = SubSeq(v.ops, 1, k)

(* The parts of what validation knows, and of its innermost block.         *)
LEMMA StackedParts ==
  ASSUME NEW v, Stacked(v)
  PROVE  /\ v = [ops |-> v.ops, ok |-> v.ok, ctrl |-> v.ctrl]
         /\ v.ops \in Seq(Types) /\ v.ok \in BOOLEAN /\ v.ctrl \in Seq(Entries)
         /\ \A j \in 1 .. Len(v.ctrl) :
              /\ v.ctrl[j] \in Entries
              /\ v.ctrl[j].height \in 0 .. Len(v.ops)
              /\ v.ctrl[j] = [kind |-> v.ctrl[j].kind, params |-> v.ctrl[j].params,
                              results |-> v.ctrl[j].results, height |-> v.ctrl[j].height,
                              dead |-> v.ctrl[j].dead]
         /\ v.ctrl # <<>> => /\ Len(v.ctrl) \in 1 .. Len(v.ctrl)
                             /\ Inner(v) = v.ctrl[Len(v.ctrl)]
                             /\ Inner(v) \in Entries
                             /\ Inner(v).height \in 0 .. Len(v.ops)
                             /\ \A j \in 1 .. Len(v.ctrl) : v.ctrl[j].height <= Inner(v).height
<1>1. /\ v = [ops |-> v.ops, ok |-> v.ok, ctrl |-> v.ctrl]
      /\ v.ops \in Seq(Types) /\ v.ok \in BOOLEAN /\ v.ctrl \in Seq(Entries)
  BY DEF Stacked, States
<1>2. ASSUME NEW j \in 1 .. Len(v.ctrl)
      PROVE  /\ v.ctrl[j] \in Entries
             /\ v.ctrl[j].height \in 0 .. Len(v.ops)
             /\ v.ctrl[j] = [kind |-> v.ctrl[j].kind, params |-> v.ctrl[j].params,
                             results |-> v.ctrl[j].results, height |-> v.ctrl[j].height,
                             dead |-> v.ctrl[j].dead]
  <2>1. v.ctrl[j] \in Entries
    BY <1>1
  <2>2. v.ctrl[j].height \in Nat /\ Len(v.ops) \in Nat
    BY <1>1, <2>1 DEF Entries
  <2>3. QED
    BY <2>1, <2>2 DEF Stacked, Entries
<1>3. ASSUME v.ctrl # <<>>
      PROVE  /\ Len(v.ctrl) \in 1 .. Len(v.ctrl)
             /\ Inner(v) = v.ctrl[Len(v.ctrl)]
             /\ \A j \in 1 .. Len(v.ctrl) : v.ctrl[j].height <= Inner(v).height
  <2>1. Len(v.ctrl) \in 1 .. Len(v.ctrl)
    BY <1>1, <1>3
  <2>2. QED
    BY <2>1 DEF Stacked, Inner
<1>4. QED
  BY <1>1, <1>2, <1>3

(* What is below the innermost block stays.                                *)
LEMMA KeptBelow ==
  ASSUME NEW v, NEW x, Stacked(v), v.ctrl # <<>>, Kept(v, x)
  PROVE  /\ Inner(x) = Inner(v) /\ Inner(v).height <= Len(x.ops)
         /\ Len(x.ops) <= Len(v.ops)
         /\ x.ops = SubSeq(v.ops, 1, Len(x.ops))
         /\ SubSeq(x.ops, 1, Inner(v).height) = SubSeq(v.ops, 1, Inner(v).height)
<1> DEFINE h == Inner(v).height
<1>1. v.ops \in Seq(Types) /\ h \in 0 .. Len(v.ops)
  BY StackedParts
<1>2. PICK k \in h .. Len(v.ops) : x.ops = SubSeq(v.ops, 1, k)
  BY DEF Kept
<1>3. Inner(x) = Inner(v)
  BY DEF Kept, Inner
<1> HIDE DEF h
<1>4. Len(x.ops) = k
  BY <1>1, <1>2
<1>5. SubSeq(x.ops, 1, h) = SubSeq(v.ops, 1, h)
  BY <1>1, <1>2
<1>6. QED
  BY <1>1, <1>2, <1>3, <1>4, <1>5 DEF h

(* Taking twice is taking.                                                 *)
LEMMA KeptTwice ==
  ASSUME NEW v, NEW x, NEW y, Stacked(v), v.ctrl # <<>>, Kept(v, x), Kept(x, y)
  PROVE  Kept(v, y)
<1> DEFINE h == Inner(v).height
<1>1. v.ops \in Seq(Types) /\ h \in 0 .. Len(v.ops)
  BY StackedParts
<1>2. /\ Inner(x) = Inner(v) /\ h <= Len(x.ops) /\ Len(x.ops) <= Len(v.ops)
      /\ x.ops = SubSeq(v.ops, 1, Len(x.ops))
  BY KeptBelow
<1>3. PICK k \in h .. Len(x.ops) : y.ops = SubSeq(x.ops, 1, k)
  BY <1>2 DEF Kept
<1>4. x.ops \in Seq(Types)
  BY StackedParts DEF Kept
<1> DEFINE n == Len(x.ops)
<1> HIDE DEF h
<1>5. k \in h .. Len(v.ops) /\ k \in 0 .. n /\ n \in 0 .. Len(v.ops)
  BY <1>1, <1>2, <1>3, <1>4
<1>6. y.ops = SubSeq(v.ops, 1, k)
  <2> HIDE DEF n
  <2>1. SubSeq(SubSeq(v.ops, 1, n), 1, k) = SubSeq(v.ops, 1, k)
    BY <1>1, <1>5
  <2>2. QED
    BY <1>2, <1>3, <2>1 DEF n
<1>7. QED
  BY <1>5, <1>6 DEF Kept, h

(* Taking all that a block has is taking, and leaves nothing of it.        *)
LEMMA TakenAll ==
  ASSUME NEW v, Stacked(v), v.ctrl # <<>>, NEW ts \in Seq(Types)
  PROVE  /\ Kept(v, Take(v, ts)) /\ Kept(v, TakeAll(v, ts))
         /\ TakeAll(v, ts).ok /\ ~ Inner(v).dead =>
              Len(v.ops) = Inner(v).height + Len(ts) /\ Top(v.ops, ts)
<1> DEFINE c == Inner(v)
           no == FALSE
<1>1. Kept(v, Take(v, ts))
  BY Taken DEF Kept
<1>2. /\ v.ops \in Seq(Types) /\ c.height \in 0 .. Len(v.ops)
      /\ v = [ops |-> v.ops, ok |-> v.ok, ctrl |-> v.ctrl]
      /\ v.ctrl \in Seq(Entries)
  BY StackedParts
<1> HIDE DEF c
<1>3. Len(Operands(v)) = Len(v.ops) - c.height
  BY <1>2 DEF Operands, c
<1>4. CASE Len(Operands(v)) <= Len(ts)
  <2>1. TakeAll(v, ts) = Take(v, ts)
    BY <1>4 DEF TakeAll
  <2>2. ASSUME Take(v, ts).ok, ~ c.dead
        PROVE  Len(v.ops) = c.height + Len(ts) /\ Top(v.ops, ts)
    <3>1. c.height + Len(ts) <= Len(v.ops) /\ Top(v.ops, ts)
      BY <2>2, Taken DEF c
    <3>2. Len(ts) \in Nat /\ Len(v.ops) \in Nat
      BY <1>2
    <3>3. QED
      BY <1>2, <1>3, <1>4, <3>1, <3>2
  <2>3. QED
    BY <1>1, <2>1, <2>2 DEF c
<1>5. CASE ~ (Len(Operands(v)) <= Len(ts))
  <2>1. TakeAll(v, ts) = [v EXCEPT !.ok = no]
    BY <1>5 DEF TakeAll
  <2> DEFINE x == TakeAll(v, ts)
  <2> HIDE DEF no, x
  <2>2. x.ops = v.ops /\ x.ctrl = v.ctrl /\ x.ok = no
        /\ x = [ops |-> v.ops, ok |-> no, ctrl |-> v.ctrl]
    BY <1>2, <2>1 DEF x
  <2>3. x \in States
    BY <1>2, <2>2 DEF States, no
  <2>4. Stacked(x)
    BY <2>2, <2>3 DEF Stacked
  <2>5. x.ops = SubSeq(v.ops, 1, Len(v.ops)) /\ Len(v.ops) \in c.height .. Len(v.ops)
    BY <1>2, <2>2
  <2>6. ~ x.ok
    BY <2>2 DEF no
  <2>7. Kept(v, x)
    BY <2>2, <2>4, <2>5, <2>6 DEF Kept, c
  <2>8. QED
    BY <1>1, <2>6, <2>7 DEF x
<1>6. QED
  BY <1>4, <1>5

(* Giving operands.                                                        *)
LEMMA Given ==
  ASSUME NEW v, Stacked(v), NEW ts \in Seq(Types)
  PROVE  /\ Stacked(Give(v, ts)) /\ Give(v, ts).ctrl = v.ctrl /\ Give(v, ts).ok = v.ok
         /\ Give(v, ts).ops = v.ops \o ts
<1>1. /\ v = [ops |-> v.ops, ok |-> v.ok, ctrl |-> v.ctrl]
      /\ v.ops \in Seq(Types) /\ v.ok \in BOOLEAN /\ v.ctrl \in Seq(Entries)
      /\ \A j \in 1 .. Len(v.ctrl) : v.ctrl[j].height \in 0 .. Len(v.ops)
  BY StackedParts
<1> DEFINE w == Give(v, ts)
           s == v.ops \o ts
<1>2. s \in Seq(Types) /\ Len(s) = Len(v.ops) + Len(ts) /\ Len(ts) \in Nat /\ Len(v.ops) \in Nat
  BY <1>1
<1>3. w = [v EXCEPT !.ops = s]
  BY DEF Give
<1> HIDE DEF s
<1>4. w = [ops |-> s, ok |-> v.ok, ctrl |-> v.ctrl] /\ w.ops = s /\ w.ctrl = v.ctrl /\ w.ok = v.ok
  BY <1>1, <1>3
<1>5. w \in States
  BY <1>1, <1>2, <1>4 DEF States
<1>6. Stacked(w)
  BY <1>1, <1>2, <1>4, <1>5 DEF Stacked
<1>7. QED
  BY <1>4, <1>6 DEF s

-----------------------------------------------------------------------------
(* A body.                                                                 *)

(* What is known after an instruction is what validation makes of what is  *)
(* known before it.                                                        *)
LEMMA KnownSteps ==
  ASSUME NEW code, NEW f, code[f].body \in Seq(Instructions)
  PROVE  /\ Known(code, f)[1] = Start(code[f])
         /\ \A p \in 1 .. Len(code[f].body) :
              Known(code, f)[p+1] = Check(code, Known(code, f)[p], code[f].body[p])
<1> DEFINE b == code[f].body
           n == Len(b)
           start == Start(code[f])
           next(v, p) == Check(code, v, b[p])
           Is(a, j) == a = [p \in 1 .. j + 1 |-> IF p = 1 THEN start ELSE next(a[p-1], p-1)]
           S == {j \in Nat : \E a : Is(a, j)}
<1>1. n \in Nat
  OBVIOUS
<1>2. Known(code, f) = CHOOSE a : Is(a, n)
  BY DEF Known
<1> HIDE DEF start, next, n
<1>3. 0 \in S
  <2> DEFINE a == [p \in 1 .. 0 + 1 |-> start]
  <2>1. Is(a, 0)
    OBVIOUS
  <2>2. QED
    BY <2>1
<1>4. ASSUME NEW j \in Nat, j \in S PROVE j + 1 \in S
  <2>1. PICK a : Is(a, j)
    BY <1>4
  <2> DEFINE d == [p \in 1 .. j + 1 + 1 |-> IF p = j + 2 THEN next(a[j+1], j + 1) ELSE a[p]]
  <2>2. ASSUME NEW p \in 1 .. j + 1 + 1
        PROVE  d[p] = IF p = 1 THEN start ELSE next(d[p-1], p-1)
    <3>1. CASE p = j + 2
      <4>1. d[p] = next(a[j+1], j + 1) /\ p - 1 = j + 1 /\ d[j+1] = a[j+1] /\ p # 1
        BY <3>1
      <4>2. QED
        BY <4>1
    <3>2. CASE p # j + 2
      <4>1. p \in 1 .. j + 1 /\ d[p] = a[p] /\ (p # 1 => d[p-1] = a[p-1])
        BY <3>2
      <4>2. a[p] = IF p = 1 THEN start ELSE next(a[p-1], p-1)
        BY <2>1, <4>1
      <4>3. QED
        BY <4>1, <4>2
    <3>3. QED
      BY <3>1, <3>2
  <2>3. Is(d, j + 1)
    BY <2>2
  <2> HIDE DEF d, Is
  <2>4. \E a2 : Is(a2, j + 1)
    BY <2>3
  <2>5. QED
    BY <2>4
<1>5. n \in S
  BY <1>1, <1>3, <1>4, SetInduction
<1>6. Is(Known(code, f), n)
  <2> HIDE DEF Is
  <2>1. \E a : Is(a, n)
    BY <1>5
  <2>2. QED
    BY <1>2, <2>1
<1> DEFINE K == Known(code, f)
<1> HIDE DEF K
<1>7. K = [p \in 1 .. n + 1 |-> IF p = 1 THEN start ELSE next(K[p-1], p-1)]
  BY <1>6 DEF K
<1>8. K[1] = start
  BY <1>1, <1>7
<1>9. ASSUME NEW p \in 1 .. n PROVE K[p+1] = next(K[p], p)
  BY <1>1, <1>7
<1>10. QED
  BY <1>8, <1>9 DEF K, start, next, n

(* What is under block j of v, and the block but for whether it can be     *)
(* reached and whether its else has come, is the same in w.                *)
Same(v, w, j) ==
  /\ \A k \in 1 .. j - 1 : w.ctrl[k] = v.ctrl[k]
  /\ /\ w.ctrl[j].params = v.ctrl[j].params
     /\ w.ctrl[j].results = v.ctrl[j].results
     /\ w.ctrl[j].height = v.ctrl[j].height
  /\ \/ w.ctrl[j].kind = v.ctrl[j].kind
     \/ v.ctrl[j].kind = "if" /\ w.ctrl[j].kind = "else"
  /\ SubSeq(w.ops, 1, v.ctrl[j].height) = SubSeq(v.ops, 1, v.ctrl[j].height)

(* What two steps leave is what both leave.                                *)
LEMMA SameTwice ==
  ASSUME NEW v, NEW x, NEW w, NEW j, Same(v, x, j), Same(x, w, j)
  PROVE  Same(v, w, j)
BY DEF Same

(* Taking operands leaves every block.                                     *)
LEMMA KeptSame ==
  ASSUME NEW v, NEW x, Stacked(v), v.ctrl # <<>>, Kept(v, x), NEW j \in 1 .. Len(v.ctrl)
  PROVE  Same(v, x, j)
<1> DEFINE h == v.ctrl[j].height
<1>1. v.ops \in Seq(Types) /\ h \in 0 .. Len(v.ops) /\ h <= Inner(v).height
      /\ Inner(v).height \in 0 .. Len(v.ops)
  BY StackedParts
<1>2. PICK k \in Inner(v).height .. Len(v.ops) : x.ops = SubSeq(v.ops, 1, k)
  BY DEF Kept
<1> HIDE DEF h
<1>3. SubSeq(SubSeq(v.ops, 1, k), 1, h) = SubSeq(v.ops, 1, h)
  BY <1>1
<1>4. x.ctrl = v.ctrl
  BY DEF Kept
<1>5. QED
  BY <1>2, <1>3, <1>4 DEF Same, h

(* So does giving them.                                                    *)
LEMMA GivenSame ==
  ASSUME NEW v, Stacked(v), NEW ts \in Seq(Types), NEW j \in 1 .. Len(v.ctrl)
  PROVE  Same(v, Give(v, ts), j)
<1> DEFINE h == v.ctrl[j].height
<1>1. v.ops \in Seq(Types) /\ h \in 0 .. Len(v.ops)
  BY StackedParts
<1> HIDE DEF h
<1>2. SubSeq(v.ops \o ts, 1, h) = SubSeq(v.ops, 1, h)
  BY <1>1
<1>3. Give(v, ts).ctrl = v.ctrl /\ Give(v, ts).ops = v.ops \o ts
  BY Given
<1>4. QED
  BY <1>2, <1>3 DEF Same, h

(* And ending what can be reached of the innermost block.                  *)
LEMMA Killed ==
  ASSUME NEW v, Stacked(v), v.ctrl # <<>>
  PROVE  /\ Stacked(Kill(v)) /\ Kill(v).ok = v.ok
         /\ Len(Kill(v).ctrl) = Len(v.ctrl)
         /\ \A j \in 1 .. Len(v.ctrl) : Same(v, Kill(v), j)
<1> DEFINE L == Len(v.ctrl)
           h == Inner(v).height
           yes == TRUE
           e == [v.ctrl[L] EXCEPT !.dead = yes]
           s == SubSeq(v.ops, 1, h)
           c == [v.ctrl EXCEPT ![L] = e]
           w == Kill(v)
<1>1. /\ v = [ops |-> v.ops, ok |-> v.ok, ctrl |-> v.ctrl]
      /\ v.ops \in Seq(Types) /\ v.ok \in BOOLEAN /\ v.ctrl \in Seq(Entries)
      /\ L \in 1 .. L /\ h \in 0 .. Len(v.ops) /\ h = v.ctrl[L].height /\ v.ctrl[L] \in Entries
      /\ \A j \in 1 .. L : v.ctrl[j].height \in 0 .. h
      /\ v.ctrl[L] = [kind |-> v.ctrl[L].kind, params |-> v.ctrl[L].params,
                      results |-> v.ctrl[L].results, height |-> v.ctrl[L].height,
                      dead |-> v.ctrl[L].dead]
  <2>1. \A j \in 1 .. L : v.ctrl[j].height \in 0 .. Len(v.ops) /\ v.ctrl[j].height <= h
    BY StackedParts
  <2>2. L \in 1 .. L /\ h \in 0 .. Len(v.ops) /\ v.ops \in Seq(Types)
    BY StackedParts
  <2>3. \A j \in 1 .. L : v.ctrl[j].height \in 0 .. h
    BY <2>1, <2>2
  <2>4. QED
    BY <2>2, <2>3, StackedParts
<1>2. w = [v EXCEPT !.ops = s, !.ctrl = c]
  BY DEF Kill
<1> HIDE DEF yes
<1>3. e \in Entries /\ e.kind = v.ctrl[L].kind /\ e.params = v.ctrl[L].params
      /\ e.results = v.ctrl[L].results /\ e.height = h
  <2>1. yes \in BOOLEAN
    BY DEF yes
  <2> HIDE DEF L, h
  <2>2. QED
    BY <1>1, <2>1 DEF Entries
<1>4. s \in Seq(Types) /\ Len(s) = h
  BY <1>1
<1> HIDE DEF e, h
<1>5. c \in Seq(Entries) /\ Len(c) = L /\ c[L] = e /\ \A j \in 1 .. L : j # L => c[j] = v.ctrl[j]
  BY <1>1, <1>3
<1> HIDE DEF s, c
<1>6. w.ops = s /\ w.ctrl = c /\ w.ok = v.ok /\ w = [ops |-> s, ok |-> v.ok, ctrl |-> c]
  BY <1>1, <1>2
<1>7. w \in States
  BY <1>1, <1>4, <1>5, <1>6 DEF States
<1> HIDE DEF w, L
<1>8. \A j \in 1 .. L : w.ctrl[j].height = v.ctrl[j].height
  BY <1>1, <1>3, <1>5, <1>6
<1>9. Stacked(w)
  <2>1. \A j \in 1 .. L : \A k \in 1 .. j : v.ctrl[k].height <= v.ctrl[j].height
    BY DEF Stacked, L
  <2>2. \A j \in 1 .. L : \A k \in 1 .. j : k \in 1 .. L
    BY <1>1
  <2>3. \A j \in 1 .. L : \A k \in 1 .. j : w.ctrl[k].height <= w.ctrl[j].height
    BY <1>8, <2>1, <2>2
  <2>4. \A j \in 1 .. L : w.ctrl[j].height <= Len(w.ops)
    BY <1>1, <1>4, <1>6, <1>8
  <2>5. QED
    BY <1>5, <1>6, <1>7, <2>3, <2>4 DEF Stacked
<1>10. ASSUME NEW j \in 1 .. L PROVE Same(v, w, j)
  <2>1. /\ \A k \in 1 .. j - 1 : w.ctrl[k] = v.ctrl[k]
        /\ w.ctrl[j].params = v.ctrl[j].params /\ w.ctrl[j].results = v.ctrl[j].results
        /\ w.ctrl[j].height = v.ctrl[j].height /\ w.ctrl[j].kind = v.ctrl[j].kind
    BY <1>1, <1>3, <1>5, <1>6
  <2>2. SubSeq(w.ops, 1, v.ctrl[j].height) = SubSeq(v.ops, 1, v.ctrl[j].height)
    BY <1>1, <1>6 DEF s
  <2>3. QED
    BY <2>1, <2>2 DEF Same
<1>11. QED
  BY <1>5, <1>6, <1>9, <1>10 DEF w, L

(* Refusing an instruction.                                                *)
LEMMA Rejected ==
  ASSUME NEW v, Stacked(v)
  PROVE  Stacked([v EXCEPT !.ok = FALSE]) /\ ~ [v EXCEPT !.ok = FALSE].ok
<1> DEFINE no == FALSE
           w == [v EXCEPT !.ok = no]
<1>1. /\ v = [ops |-> v.ops, ok |-> v.ok, ctrl |-> v.ctrl]
      /\ v.ops \in Seq(Types) /\ v.ok \in BOOLEAN /\ v.ctrl \in Seq(Entries)
  BY StackedParts
<1>2. ~ no /\ no \in BOOLEAN
  OBVIOUS
<1> HIDE DEF no
<1>3. w.ops = v.ops /\ w.ctrl = v.ctrl /\ w.ok = no /\ w = [ops |-> v.ops, ok |-> no, ctrl |-> v.ctrl]
  BY <1>1
<1>4. w \in States
  BY <1>1, <1>2, <1>3 DEF States
<1> HIDE DEF w
<1>5. Stacked(w) /\ ~ w.ok
  BY <1>2, <1>3, <1>4 DEF Stacked
<1>6. QED
  BY <1>5 DEF w, no

(* The state after a block is opened on y, which was kept of v.            *)
OpenedTo(v, i, y, w) ==
  LET L == Len(v.ctrl) + 1 IN
  /\ Stacked(w) /\ w.ok = y.ok /\ w.ops = y.ops \o i.in
  /\ Len(w.ctrl) = L
  /\ \A j \in 1 .. L - 1 : w.ctrl[j] = v.ctrl[j] /\ Same(v, w, j)
  /\ w.ctrl[L].kind = i.op /\ w.ctrl[L].params = i.in
  /\ w.ctrl[L].results = i.out /\ w.ctrl[L].height = Len(y.ops)
  /\ ~ w.ctrl[L].dead
  /\ w.ops = SubSeq(w.ops, 1, w.ctrl[L].height) \o i.in

(* Opening a block above what was kept.                                    *)
LEMMA Opened ==
  ASSUME NEW v, NEW x, NEW i \in Instructions, Stacked(v), v.ctrl # <<>>, i.op \in Openers,
         Kept(v, x), Kept(v, Take(x, i.in))
  PROVE  OpenedTo(v, i, Take(x, i.in), OpenBlock(x, i))
<1> DEFINE y == Take(x, i.in)
           w == OpenBlock(x, i)
           L == Len(v.ctrl) + 1
           no == FALSE
           e == [kind |-> i.op, params |-> i.in, results |-> i.out, height |-> Len(y.ops),
                 dead |-> no]
           s == y.ops \o i.in
           c == Append(v.ctrl, e)
<1>1. /\ y = [ops |-> y.ops, ok |-> y.ok, ctrl |-> y.ctrl]
      /\ y.ops \in Seq(Types) /\ y.ok \in BOOLEAN /\ y.ctrl = v.ctrl /\ v.ctrl \in Seq(Entries)
      /\ \A j \in 1 .. L - 1 : v.ctrl[j].height \in 0 .. Len(y.ops)
  <2>1. Stacked(y) /\ y.ctrl = v.ctrl
    BY DEF Kept
  <2>2. \A j \in 1 .. Len(y.ctrl) : y.ctrl[j].height \in 0 .. Len(y.ops)
    BY <2>1, StackedParts
  <2>3. L - 1 = Len(v.ctrl)
    BY <2>1, StackedParts
  <2>4. QED
    BY <2>1, <2>2, <2>3, StackedParts
<1>2. i.in \in Seq(Types) /\ i.out \in Seq(Types)
  BY DEF Instructions
<1>3. w = [y EXCEPT !.ctrl = Append(@, e), !.ops = @ \o i.in]
  BY DEF OpenBlock
<1>4. ~ no /\ no \in BOOLEAN
  OBVIOUS
<1> HIDE DEF no, y
<1>5. e \in Entries /\ e.kind = i.op /\ e.params = i.in /\ e.results = i.out
      /\ e.height = Len(y.ops) /\ e.dead = no
  <2>1. Len(y.ops) \in Nat
    BY <1>1
  <2>2. QED
    BY <1>2, <1>4, <2>1 DEF Entries
<1> HIDE DEF e
<1>6. s \in Seq(Types) /\ Len(s) = Len(y.ops) + Len(i.in) /\ SubSeq(s, 1, Len(y.ops)) = y.ops
      /\ Len(y.ops) \in Nat /\ Len(i.in) \in Nat
  BY <1>1, <1>2
<1>7. c \in Seq(Entries) /\ Len(c) = L /\ c[L] = e /\ \A j \in 1 .. L - 1 : c[j] = v.ctrl[j]
  BY <1>1, <1>5
<1>8. L \in Nat /\ L - 1 = Len(v.ctrl)
  BY <1>1
<1>9. w = [ops |-> s, ok |-> y.ok, ctrl |-> c]
  BY <1>1, <1>3
<1> HIDE DEF w, s, c, L
<1>10. w.ops = s /\ w.ctrl = c /\ w.ok = y.ok
  BY <1>9
<1>11. w \in States
  BY <1>1, <1>6, <1>7, <1>9 DEF States
<1>12. \A j \in 1 .. L : j = L \/ j \in 1 .. L - 1
  BY <1>8
<1>13. \A j \in 1 .. L : c[j].height \in 0 .. Len(y.ops)
  <2>1. \A j \in 1 .. L - 1 : c[j].height \in 0 .. Len(y.ops)
    BY <1>1, <1>7
  <2>2. c[L].height \in 0 .. Len(y.ops)
    BY <1>5, <1>6, <1>7
  <2>3. QED
    BY <1>12, <2>1, <2>2
<1>14. \A j \in 1 .. L : \A k \in 1 .. j : c[k].height <= c[j].height
  <2>1. ASSUME NEW j \in 1 .. L, NEW k \in 1 .. j PROVE c[k].height <= c[j].height
    <3>1. CASE j = L
      <4>1. c[j].height = Len(y.ops) /\ k \in 1 .. L
        BY <1>5, <1>7, <3>1
      <4>2. QED
        BY <1>6, <1>13, <4>1
    <3>2. CASE j # L
      <4>1. j \in 1 .. L - 1 /\ k \in 1 .. L - 1
        BY <1>8, <3>2
      <4>2. v.ctrl[k].height <= v.ctrl[j].height
        BY <1>8, <4>1 DEF Stacked
      <4>3. QED
        BY <1>7, <4>1, <4>2
    <3>3. QED
      BY <3>1, <3>2
  <2>2. QED
    BY <2>1
<1>15. Stacked(w)
  <2>1. ASSUME NEW j \in 1 .. L PROVE c[j].height <= Len(s)
    <3>1. c[j].height \in 0 .. Len(y.ops)
      BY <1>13
    <3>2. Len(s) = Len(y.ops) + Len(i.in) /\ Len(y.ops) \in Nat /\ Len(i.in) \in Nat
      BY <1>6
    <3> DEFINE hj == c[j].height
               m == Len(s)
               n == Len(y.ops)
               d == Len(i.in)
    <3> HIDE DEF hj, m, n, d
    <3>3. hj \in 0 .. n /\ m = n + d /\ n \in Nat /\ d \in Nat
      BY <3>1, <3>2 DEF hj, m, n, d
    <3>4. hj <= m
      BY <3>3
    <3>5. QED
      BY <3>4 DEF hj, m
  <2>2. QED
    BY <1>7, <1>10, <1>11, <1>14, <2>1 DEF Stacked
<1>16. ASSUME NEW j \in 1 .. L - 1 PROVE w.ctrl[j] = v.ctrl[j] /\ Same(v, w, j)
  <2>1. \A k \in 1 .. j : w.ctrl[k] = v.ctrl[k]
    <3>1. \A k \in 1 .. j : k \in 1 .. L - 1
      BY <1>8
    <3>2. QED
      BY <1>7, <1>10, <3>1
  <2>2. SubSeq(w.ops, 1, v.ctrl[j].height) = SubSeq(y.ops, 1, v.ctrl[j].height)
    <3> DEFINE h == v.ctrl[j].height
    <3>1. h \in 0 .. Len(y.ops)
      BY <1>1
    <3> HIDE DEF h
    <3>2. SubSeq(y.ops \o i.in, 1, h) = SubSeq(y.ops, 1, h)
      BY <1>1, <1>2, <3>1
    <3>3. QED
      BY <1>10, <3>2 DEF h, s
  <2>3. Same(v, y, j)
    BY <1>8, KeptSame DEF y
  <2>4. w.ctrl[j] = v.ctrl[j] /\ \A k \in 1 .. j - 1 : w.ctrl[k] = v.ctrl[k]
    BY <1>8, <2>1
  <2>5. QED
    BY <2>2, <2>3, <2>4 DEF Same
<1>17. w.ops = SubSeq(w.ops, 1, e.height) \o i.in
  BY <1>5, <1>6, <1>10 DEF s
<1>18. w.ctrl[L] = e
  BY <1>7, <1>10
<1>19. ~ e.dead
  BY <1>4, <1>5
<1>20. QED
  BY <1>5, <1>7, <1>10, <1>15, <1>16, <1>17, <1>18, <1>19 DEF w, y, L, s, OpenedTo

(* What parting the innermost block in two, or ending it, makes of what was *)
(* kept.                                                                   *)
Parted(v, y, e) ==
  [y EXCEPT !.ctrl = [@ EXCEPT ![Len(@)] = e], !.ops = SubSeq(@, 1, Inner(v).height) \o e.params]
Ended(v, y) ==
  [y EXCEPT !.ctrl = SubSeq(@, 1, Len(@) - 1),
            !.ops = SubSeq(@, 1, Inner(v).height) \o Inner(v).results]

(* The else part starts as the then part did.                              *)
LEMMA PartedSame ==
  ASSUME NEW v, NEW y, NEW e \in Entries, Stacked(v), v.ctrl # <<>>, Kept(v, y),
         Inner(v).kind = "if", e.kind = "else", e.params = Inner(v).params,
         e.results = Inner(v).results, e.height = Inner(v).height
  PROVE  LET w == Parted(v, y, e)  L == Len(v.ctrl)
         IN  /\ Stacked(w) /\ w.ok = y.ok /\ Len(w.ctrl) = L /\ w.ctrl[L] = e
             /\ \A j \in 1 .. L : Same(v, w, j)
             /\ w.ops = SubSeq(v.ops, 1, Inner(v).height) \o e.params
<1> DEFINE L == Len(v.ctrl)
           h == Inner(v).height
           s == SubSeq(v.ops, 1, h) \o e.params
           c == [v.ctrl EXCEPT ![L] = e]
           w == Parted(v, y, e)
<1>1. /\ v.ops \in Seq(Types) /\ v.ctrl \in Seq(Entries) /\ L \in 1 .. L
      /\ h \in 0 .. Len(v.ops) /\ Inner(v) = v.ctrl[L]
  BY StackedParts
<1>2. /\ y = [ops |-> y.ops, ok |-> y.ok, ctrl |-> v.ctrl] /\ y.ctrl = v.ctrl
      /\ y.ops \in Seq(Types) /\ y.ok \in BOOLEAN
  BY StackedParts DEF Kept
<1>3. SubSeq(y.ops, 1, h) = SubSeq(v.ops, 1, h)
  BY KeptBelow
<1>4. e.params \in Seq(Types) /\ e.height = h
  BY DEF Entries
<1>5. w = [y EXCEPT !.ctrl = c, !.ops = s]
  BY <1>2, <1>3 DEF Parted
<1> HIDE DEF h
<1>6. SubSeq(v.ops, 1, h) \in Seq(Types) /\ Len(SubSeq(v.ops, 1, h)) = h
  BY <1>1
<1>7. s \in Seq(Types) /\ Len(s) = h + Len(e.params) /\ Len(e.params) \in Nat
      /\ \A k \in 0 .. h : SubSeq(s, 1, k) = SubSeq(v.ops, 1, k)
  <2> DEFINE r == SubSeq(v.ops, 1, h)
  <2>1. \A k \in 0 .. h : SubSeq(r, 1, k) = SubSeq(v.ops, 1, k)
    BY <1>1
  <2> HIDE DEF r
  <2>2. r \in Seq(Types) /\ Len(r) = h
    BY <1>6 DEF r
  <2>3. s = r \o e.params
    BY DEF r
  <2>4. \A k \in 0 .. h : SubSeq(s, 1, k) = SubSeq(r, 1, k)
    BY <1>4, <2>2, <2>3
  <2>5. s \in Seq(Types) /\ Len(s) = h + Len(e.params) /\ Len(e.params) \in Nat
    BY <1>4, <2>2, <2>3
  <2>6. QED
    BY <2>1, <2>4, <2>5
<1>8. c \in Seq(Entries) /\ Len(c) = L /\ c[L] = e /\ \A j \in 1 .. L : j # L => c[j] = v.ctrl[j]
  BY <1>1
<1> HIDE DEF s, c, w
<1>9. w = [ops |-> s, ok |-> y.ok, ctrl |-> c] /\ w.ops = s /\ w.ok = y.ok /\ w.ctrl = c
  BY <1>2, <1>5
<1>10. w \in States
  BY <1>2, <1>7, <1>8, <1>9 DEF States
<1>11. \A j \in 1 .. L : c[j].height = v.ctrl[j].height
  BY <1>1, <1>4, <1>8 DEF h
<1>12. \A j \in 1 .. L : v.ctrl[j].height \in 0 .. h
  <2>1. ASSUME NEW j \in 1 .. L PROVE v.ctrl[j].height \in 0 .. h
    <3>1. v.ctrl[j].height \in 0 .. Len(v.ops) /\ v.ctrl[j].height <= h
      BY StackedParts DEF h
    <3>2. QED
      BY <1>1, <3>1
  <2>2. QED
    BY <2>1
<1> HIDE DEF L
<1>13. Stacked(w)
  <2>1. \A j \in 1 .. L : \A k \in 1 .. j : v.ctrl[k].height <= v.ctrl[j].height /\ k \in 1 .. L
    BY <1>1 DEF Stacked, L
  <2>2. ASSUME NEW j \in 1 .. L PROVE c[j].height <= Len(s)
    <3>1. c[j].height \in 0 .. h
      BY <1>11, <1>12
    <3>2. h \in Nat /\ Len(s) \in Nat /\ h <= Len(s)
      BY <1>1, <1>7
    <3>3. QED
      BY <3>1, <3>2
  <2>3. \A j \in 1 .. L : \A k \in 1 .. j : c[k].height <= c[j].height
    BY <1>11, <2>1
  <2>4. QED
    BY <1>8, <1>9, <1>10, <2>2, <2>3 DEF Stacked
<1>14. ASSUME NEW j \in 1 .. L PROVE Same(v, w, j)
  <2>1. /\ \A k \in 1 .. j - 1 : w.ctrl[k] = v.ctrl[k]
        /\ w.ctrl[j].params = v.ctrl[j].params /\ w.ctrl[j].results = v.ctrl[j].results
        /\ w.ctrl[j].height = v.ctrl[j].height
    <3>1. \A k \in 1 .. j - 1 : k \in 1 .. L /\ k # L
      BY <1>1
    <3>2. CASE j = L
      BY <1>1, <1>4, <1>8, <1>9, <3>1, <3>2 DEF h
    <3>3. CASE j # L
      BY <1>8, <1>9, <3>1, <3>3
    <3>4. QED
      BY <3>2, <3>3
  <2>2. w.ctrl[j].kind = v.ctrl[j].kind \/ (v.ctrl[j].kind = "if" /\ w.ctrl[j].kind = "else")
    <3>1. CASE j = L
      BY <1>1, <1>8, <1>9, <3>1
    <3>2. CASE j # L
      BY <1>8, <1>9, <3>2
    <3>3. QED
      BY <3>1, <3>2
  <2>3. SubSeq(w.ops, 1, v.ctrl[j].height) = SubSeq(v.ops, 1, v.ctrl[j].height)
    BY <1>7, <1>9, <1>12
  <2>4. QED
    BY <2>1, <2>2, <2>3 DEF Same
<1>15. QED
  BY <1>8, <1>9, <1>13, <1>14 DEF w, L, s, h

(* The end of a block leaves its results on what was under it.             *)
LEMMA EndedSame ==
  ASSUME NEW v, NEW y, Stacked(v), v.ctrl # <<>>, Kept(v, y)
  PROVE  LET w == Ended(v, y)  L == Len(v.ctrl)
         IN  /\ Stacked(w) /\ w.ok = y.ok /\ Len(w.ctrl) = L - 1
             /\ \A j \in 1 .. L - 1 : w.ctrl[j] = v.ctrl[j] /\ Same(v, w, j)
             /\ w.ops = SubSeq(v.ops, 1, Inner(v).height) \o Inner(v).results
<1> DEFINE L == Len(v.ctrl)
           h == Inner(v).height
           ts == Inner(v).results
           s == SubSeq(v.ops, 1, h) \o ts
           c == SubSeq(v.ctrl, 1, L - 1)
           w == Ended(v, y)
<1>1. /\ v.ops \in Seq(Types) /\ v.ctrl \in Seq(Entries) /\ L \in 1 .. L
      /\ h \in 0 .. Len(v.ops) /\ Inner(v) = v.ctrl[L] /\ ts \in Seq(Types)
  BY StackedParts DEF Entries
<1>2. /\ y = [ops |-> y.ops, ok |-> y.ok, ctrl |-> v.ctrl] /\ y.ctrl = v.ctrl
      /\ y.ops \in Seq(Types) /\ y.ok \in BOOLEAN
  BY StackedParts DEF Kept
<1>3. SubSeq(y.ops, 1, h) = SubSeq(v.ops, 1, h)
  BY KeptBelow
<1>5. w = [y EXCEPT !.ctrl = c, !.ops = s]
  BY <1>2, <1>3 DEF Ended
<1> HIDE DEF h, ts
<1>6. SubSeq(v.ops, 1, h) \in Seq(Types) /\ Len(SubSeq(v.ops, 1, h)) = h
  BY <1>1
<1>7. s \in Seq(Types) /\ Len(s) = h + Len(ts) /\ Len(ts) \in Nat
      /\ \A k \in 0 .. h : SubSeq(s, 1, k) = SubSeq(v.ops, 1, k)
  <2> DEFINE r == SubSeq(v.ops, 1, h)
  <2>1. \A k \in 0 .. h : SubSeq(r, 1, k) = SubSeq(v.ops, 1, k)
    BY <1>1
  <2> HIDE DEF r
  <2>2. r \in Seq(Types) /\ Len(r) = h
    BY <1>6 DEF r
  <2>3. s = r \o ts
    BY DEF r
  <2>4. \A k \in 0 .. h : SubSeq(s, 1, k) = SubSeq(r, 1, k)
    BY <1>1, <2>2, <2>3
  <2>5. s \in Seq(Types) /\ Len(s) = h + Len(ts) /\ Len(ts) \in Nat
    BY <1>1, <2>2, <2>3
  <2>6. QED
    BY <2>1, <2>4, <2>5
<1>8. c \in Seq(Entries) /\ Len(c) = L - 1 /\ \A j \in 1 .. L - 1 : c[j] = v.ctrl[j]
  BY <1>1
<1> HIDE DEF s, c, w
<1>9. w = [ops |-> s, ok |-> y.ok, ctrl |-> c] /\ w.ops = s /\ w.ok = y.ok /\ w.ctrl = c
  BY <1>2, <1>5
<1>10. w \in States
  BY <1>2, <1>7, <1>8, <1>9 DEF States
<1>12. \A j \in 1 .. L : v.ctrl[j].height \in 0 .. h
  <2>1. ASSUME NEW j \in 1 .. L PROVE v.ctrl[j].height \in 0 .. h
    <3>1. v.ctrl[j].height \in 0 .. Len(v.ops) /\ v.ctrl[j].height <= h
      BY StackedParts DEF h
    <3>2. QED
      BY <1>1, <3>1
  <2>2. QED
    BY <2>1
<1> HIDE DEF L
<1>13. Stacked(w)
  <2>1. \A j \in 1 .. L - 1 : \A k \in 1 .. j : v.ctrl[k].height <= v.ctrl[j].height
                                               /\ k \in 1 .. L - 1
    BY <1>1 DEF Stacked, L
  <2>2. ASSUME NEW j \in 1 .. L - 1 PROVE c[j].height <= Len(s)
    <3>1. v.ctrl[j].height \in 0 .. h
      BY <1>1, <1>12
    <3>2. QED
      BY <1>1, <1>7, <1>8, <3>1
  <2>3. \A j \in 1 .. L - 1 : \A k \in 1 .. j : c[k].height <= c[j].height
    BY <1>8, <2>1
  <2>4. QED
    BY <1>8, <1>9, <1>10, <2>2, <2>3 DEF Stacked
<1>14. ASSUME NEW j \in 1 .. L - 1 PROVE w.ctrl[j] = v.ctrl[j] /\ Same(v, w, j)
  <2>1. w.ctrl[j] = v.ctrl[j] /\ \A k \in 1 .. j - 1 : w.ctrl[k] = v.ctrl[k]
    <3>1. \A k \in 1 .. j - 1 : k \in 1 .. L - 1
      BY <1>1
    <3>2. QED
      BY <1>8, <1>9, <3>1
  <2>2. SubSeq(w.ops, 1, v.ctrl[j].height) = SubSeq(v.ops, 1, v.ctrl[j].height)
    <3>1. v.ctrl[j].height \in 0 .. h
      BY <1>1, <1>12
    <3>2. QED
      BY <1>7, <1>9, <3>1
  <2>3. QED
    BY <2>1, <2>2 DEF Same
<1>15. QED
  BY <1>8, <1>9, <1>13, <1>14 DEF w, L, s, h, ts

(* What an accepted instruction i makes of v: it opens a block, parts it,  *)
(* ends it or leaves it open, and every block open before and after is the *)
(* same.                                                                   *)
Moves(v, i, w) ==
  LET L == Len(v.ctrl)  M == Len(w.ctrl)  h == Inner(v).height IN
  /\ M = IF i.op \in Openers THEN L + 1 ELSE IF i.op = "end" THEN L - 1 ELSE L
  /\ \A j \in 1 .. L : j <= M => Same(v, w, j)
  /\ i.op \in Openers =>
       /\ w.ctrl[M].kind = i.op /\ w.ctrl[M].params = i.in /\ w.ctrl[M].results = i.out
       /\ ~ w.ctrl[M].dead
       /\ \A j \in 1 .. L : w.ctrl[j] = v.ctrl[j]
       /\ w.ops = SubSeq(w.ops, 1, w.ctrl[M].height) \o i.in
  /\ i.op = "else" =>
       /\ v.ctrl[L].kind = "if" /\ w.ctrl[L].kind = "else" /\ ~ w.ctrl[L].dead
       /\ w.ops = SubSeq(v.ops, 1, h) \o v.ctrl[L].params
  /\ i.op = "end" => /\ \A j \in 1 .. M : w.ctrl[j] = v.ctrl[j]
                    /\ w.ops = SubSeq(v.ops, 1, h) \o v.ctrl[L].results

(* An instruction that neither opens a block nor parts or ends one.        *)
LEMMA FlatMoves ==
  ASSUME NEW v, NEW i, NEW w, Stacked(v), i.op \notin Openers \cup {"else", "end"},
         Len(w.ctrl) = Len(v.ctrl), \A j \in 1 .. Len(v.ctrl) : Same(v, w, j)
  PROVE  Moves(v, i, w)
BY DEF Moves

(* Operands taken, and others given or the rest of the block given up.     *)
LEMMA TakenMoves ==
  ASSUME NEW v, NEW i, NEW x, Stacked(v), v.ctrl # <<>>, Kept(v, x),
         i.op \notin Openers \cup {"else", "end"}
  PROVE  /\ Stacked(Kill(x)) /\ (Kill(x).ok => v.ok) /\ Moves(v, i, Kill(x))
         /\ \A ts \in Seq(Types) :
              /\ Stacked(Give(x, ts)) /\ (Give(x, ts).ok => v.ok) /\ Moves(v, i, Give(x, ts))
              /\ Give(x, ts).ctrl = v.ctrl
<1>1. Stacked(x) /\ x.ctrl = v.ctrl /\ (x.ok => v.ok)
  BY DEF Kept
<1>2. \A j \in 1 .. Len(v.ctrl) : Same(v, x, j)
  BY KeptSame
<1>3. /\ Stacked(Kill(x)) /\ Kill(x).ok = x.ok /\ Len(Kill(x).ctrl) = Len(v.ctrl)
      /\ \A j \in 1 .. Len(v.ctrl) : Same(x, Kill(x), j)
  BY <1>1, Killed
<1>4. \A j \in 1 .. Len(v.ctrl) : Same(v, Kill(x), j)
  BY <1>2, <1>3, SameTwice
<1>5. ASSUME NEW ts \in Seq(Types)
      PROVE  /\ Stacked(Give(x, ts)) /\ (Give(x, ts).ok => v.ok) /\ Moves(v, i, Give(x, ts))
             /\ Give(x, ts).ctrl = v.ctrl
  <2>1. Stacked(Give(x, ts)) /\ Give(x, ts).ok = x.ok /\ Give(x, ts).ctrl = v.ctrl
    BY <1>1, Given
  <2>2. \A j \in 1 .. Len(v.ctrl) : Same(x, Give(x, ts), j)
    BY <1>1, GivenSame
  <2>3. \A j \in 1 .. Len(v.ctrl) : Same(v, Give(x, ts), j)
    BY <1>2, <2>2, SameTwice
  <2>4. Moves(v, i, Give(x, ts))
    BY <2>1, <2>3, FlatMoves
  <2>5. QED
    BY <1>1, <2>1, <2>4
<1>6. Moves(v, i, Kill(x))
  BY <1>3, <1>4, FlatMoves
<1>7. QED
  BY <1>1, <1>3, <1>5, <1>6

(* v itself, and v without operands.                                       *)
LEMMA KeptSelf ==
  ASSUME NEW v, Stacked(v), v.ctrl # <<>>
  PROVE  Kept(v, v)
<1>1. v.ops \in Seq(Types) /\ Inner(v).height \in 0 .. Len(v.ops)
  BY StackedParts
<1>2. Len(v.ops) \in Inner(v).height .. Len(v.ops) /\ v.ops = SubSeq(v.ops, 1, Len(v.ops))
  BY <1>1
<1>3. QED
  BY <1>2 DEF Kept

(* What lies under a block stays when operands are taken twice.            *)
LEMMA TwiceKept ==
  ASSUME NEW v, NEW ts \in Seq(Types), NEW us \in Seq(Types), Stacked(v), v.ctrl # <<>>
  PROVE  Kept(v, Take(v, ts)) /\ Kept(v, Take(Take(v, ts), us))
<1>1. Kept(v, Take(v, ts))
  BY TakenAll
<1>2. Stacked(Take(v, ts)) /\ Take(v, ts).ctrl # <<>>
  BY <1>1 DEF Kept
<1>3. Kept(Take(v, ts), Take(Take(v, ts), us))
  BY <1>2, TakenAll
<1>4. QED
  BY <1>1, <1>3, KeptTwice

(* The types of a label are types.                                         *)
LEMMA LabelsTyped ==
  ASSUME NEW v, Stacked(v), NEW l \in Nat, l < Len(v.ctrl)
  PROVE  /\ LabelTypes(v, l) \in Seq(Types) /\ Len(v.ctrl) - l \in 1 .. Len(v.ctrl)
<1>1. v.ctrl \in Seq(Entries)
  BY StackedParts
<1>2. Len(v.ctrl) - l \in 1 .. Len(v.ctrl)
  BY <1>1
<1>3. v.ctrl[Len(v.ctrl) - l] \in Entries
  BY <1>1, <1>2
<1>4. QED
  BY <1>2, <1>3 DEF LabelTypes, Entries

(* Every instruction of validation.                                        *)
LEMMA Checked ==
  ASSUME NEW code, NEW i \in Instructions, NEW v,
         code \in [DOMAIN code -> Functions], Stacked(v), v.ctrl # <<>>, Formed(code, i)
  PROVE  /\ Stacked(Check(code, v, i))
         /\ Check(code, v, i).ok => v.ok /\ Moves(v, i, Check(code, v, i))
<1> DEFINE w == Check(code, v, i)
           c == Inner(v)
           L == Len(v.ctrl)
           I32 == <<"i32">>
           Bad == [v EXCEPT !.ok = FALSE]
           Done == Stacked(w) /\ (w.ok => v.ok /\ Moves(v, i, w))
<1>0. SUFFICES Done
  OBVIOUS
<1>1. i.in \in Seq(Types) /\ i.out \in Seq(Types) /\ i.arg \in Seq(Nat) /\ i.op \in Operations
  BY DEF Instructions
<1>2. I32 \in Seq(Types)
  BY DEF Types
<1>3. /\ v.ctrl \in Seq(Entries) /\ L \in 1 .. L /\ c = v.ctrl[L]
      /\ c \in Entries /\ c.results \in Seq(Types) /\ c.params \in Seq(Types)
      /\ c.height \in 0 .. Len(v.ops)
  BY StackedParts DEF Entries
<1> HIDE DEF w, c
<1>4. ASSUME w = Bad PROVE Done
  BY <1>4, Rejected
<1> DEFINE Flat == i.op \notin Openers \cup {"else", "end"}
<1>20. ASSUME Flat, NEW x, Kept(v, x), w = Kill(x) PROVE Done
  <2>1. Stacked(Kill(x)) /\ (Kill(x).ok => v.ok) /\ Moves(v, i, Kill(x))
    BY <1>20, TakenMoves
  <2>2. QED
    BY <1>20, <2>1
<1>21. ASSUME Flat, NEW x, NEW ts \in Seq(Types), Kept(v, x), w = Give(x, ts) PROVE Done
  <2>1. Stacked(Give(x, ts)) /\ (Give(x, ts).ok => v.ok) /\ Moves(v, i, Give(x, ts))
    BY <1>21, TakenMoves
  <2>2. QED
    BY <1>21, <2>1
<1>22. i.op \in {"apply", "div", "br", "br_if", "br_table", "return", "unreachable", "call",
                  "call_indirect"} => Flat
  BY DEF Openers
<1> HIDE DEF Done, Flat
<1>5. CASE i.op \in {"apply", "div"}
  <2>1. w = Give(Take(v, i.in), i.out)
    BY <1>5 DEF w, Check
  <2>2. Kept(v, Take(v, i.in))
    BY <1>1, TakenAll
  <2>3. QED
    BY <1>1, <1>5, <1>21, <1>22, <2>1, <2>2
<1>6. CASE i.op \in Openers
  <2>1. PICK x : Kept(v, x) /\ Kept(v, Take(x, i.in)) /\ w = OpenBlock(x, i)
    <3>1. CASE i.op = "if"
      <4>1. w = OpenBlock(Take(v, I32), i)
        BY <3>1 DEF w, Check
      <4>2. QED
        BY <1>1, <1>2, <4>1, TwiceKept
    <3>2. CASE i.op # "if"
      <4>1. w = OpenBlock(v, i)
        BY <1>6, <3>2 DEF w, Check, Openers
      <4>2. QED
        BY <1>1, <4>1, KeptSelf, TakenAll
    <3>3. QED
      BY <3>1, <3>2
  <2> DEFINE y == Take(x, i.in)
  <2>2. /\ Stacked(w) /\ w.ok = y.ok
        /\ Len(w.ctrl) = L + 1
        /\ \A j \in 1 .. L : w.ctrl[j] = v.ctrl[j] /\ Same(v, w, j)
        /\ w.ctrl[L+1].kind = i.op /\ w.ctrl[L+1].params = i.in
        /\ w.ctrl[L+1].results = i.out /\ ~ w.ctrl[L+1].dead
        /\ w.ops = SubSeq(w.ops, 1, w.ctrl[L+1].height) \o i.in
    <3>1. L + 1 - 1 = L
      BY <1>3
    <3>2. Stacked(v) /\ v.ctrl # <<>> /\ i.op \in Openers /\ Kept(v, x) /\ Kept(v, y)
      BY <1>6, <2>1
    <3>3. w = OpenBlock(x, i)
      BY <2>1
    <3>4. OpenedTo(v, i, y, w)
      BY <3>2, <3>3, Opened
    <3> HIDE DEF y
    <3>6. /\ Stacked(w) /\ w.ok = y.ok
          /\ Len(w.ctrl) = L + 1
          /\ \A j \in 1 .. L + 1 - 1 : w.ctrl[j] = v.ctrl[j] /\ Same(v, w, j)
      BY <3>4 DEF OpenedTo
    <3>7. /\ w.ctrl[L+1].kind = i.op /\ w.ctrl[L+1].params = i.in
          /\ w.ctrl[L+1].results = i.out /\ ~ w.ctrl[L+1].dead
      BY <3>4 DEF OpenedTo
    <3>8. w.ops = SubSeq(w.ops, 1, w.ctrl[L+1].height) \o i.in
      BY <3>4 DEF OpenedTo
    <3>5. QED
      BY <3>1, <3>6, <3>7, <3>8 DEF y
  <2>3. y.ok => v.ok
    BY <2>1 DEF Kept
  <2>4. Moves(v, i, w)
    BY <1>3, <1>6, <2>2 DEF Moves, Openers
  <2>5. QED
    BY <2>2, <2>3, <2>4 DEF Done
<1>7. CASE i.op = "else"
  <2>1. CASE c.kind # "if"
    BY <1>4, <1>7, <2>1 DEF w, Check, c, Openers
  <2>2. CASE c.kind = "if"
    <3> DEFINE y == TakeAll(v, c.results)
               no == FALSE
               e == [c EXCEPT !.kind = "else", !.dead = no]
    <3>1. Kept(v, y)
      BY <1>3, TakenAll
    <3>2. w = [y EXCEPT !.ctrl = [@ EXCEPT ![Len(@)].kind = "else", ![Len(@)].dead = no],
                        !.ops = SubSeq(@, 1, c.height) \o c.params]
      BY <1>7, <2>2 DEF w, Check, c, Openers
    <3>3. ~ no /\ no \in BOOLEAN
      OBVIOUS
    <3> HIDE DEF no, y
    <3>7. e \in Entries /\ e.kind = "else" /\ e.params = c.params
          /\ e.results = c.results /\ e.height = c.height /\ e.dead = no
      BY <1>3, <3>3 DEF Entries
    <3>8. w = Parted(v, y, e)
      <4>1. y.ctrl = v.ctrl
        BY <3>1 DEF Kept
      <4>2. [v.ctrl EXCEPT ![L].kind = "else", ![L].dead = no] = [v.ctrl EXCEPT ![L] = e]
        BY <1>3
      <4>3. w = [y EXCEPT !.ctrl = [v.ctrl EXCEPT ![L] = e],
                          !.ops = SubSeq(@, 1, c.height) \o c.params]
        BY <3>2, <4>1, <4>2
      <4>4. Parted(v, y, e) = [y EXCEPT !.ctrl = [v.ctrl EXCEPT ![L] = e],
                                        !.ops = SubSeq(@, 1, c.height) \o e.params]
        BY <4>1 DEF Parted, c
      <4>5. QED
        BY <3>7, <4>3, <4>4
    <3> HIDE DEF e
    <3>4. /\ Stacked(w) /\ w.ok = y.ok /\ Len(w.ctrl) = L /\ w.ctrl[L] = e
          /\ \A j \in 1 .. L : Same(v, w, j)
          /\ w.ops = SubSeq(v.ops, 1, c.height) \o c.params
      <4>1. /\ e \in Entries /\ Stacked(v) /\ v.ctrl # <<>> /\ Kept(v, y)
            /\ Inner(v).kind = "if" /\ e.kind = "else" /\ e.params = Inner(v).params
            /\ e.results = Inner(v).results /\ e.height = Inner(v).height
        BY <2>2, <3>1, <3>7 DEF c
      <4>2. /\ Stacked(w) /\ w.ok = y.ok /\ Len(w.ctrl) = L /\ w.ctrl[L] = e
            /\ \A j \in 1 .. L : Same(v, w, j)
            /\ w.ops = SubSeq(v.ops, 1, Inner(v).height) \o e.params
        <5> DEFINE z == Parted(v, y, e)
        <5>1. /\ Stacked(z) /\ z.ok = y.ok /\ Len(z.ctrl) = Len(v.ctrl) /\ z.ctrl[Len(v.ctrl)] = e
              /\ \A j \in 1 .. Len(v.ctrl) : Same(v, z, j)
              /\ z.ops = SubSeq(v.ops, 1, Inner(v).height) \o e.params
          BY <4>1, PartedSame, Zenon
        <5>2. QED
          BY <3>8, <5>1
      <4>3. QED
        BY <3>7, <4>2 DEF c
    <3>5. Moves(v, i, w)
      BY <1>3, <1>7, <2>2, <3>3, <3>4, <3>7 DEF Moves, Openers, c
    <3>6. QED
      BY <3>1, <3>4, <3>5 DEF Kept, Done, y
  <2>3. QED
    BY <2>1, <2>2
<1>8. CASE i.op = "end"
  <2>1. CASE c.kind = "if" /\ c.params # c.results
    BY <1>4, <1>8, <2>1 DEF w, Check, c, Openers
  <2>2. CASE ~ (c.kind = "if" /\ c.params # c.results)
    <3> DEFINE y == TakeAll(v, c.results)
    <3>1. Kept(v, y)
      BY <1>3, TakenAll
    <3>2. w = Ended(v, y)
      BY <1>8, <2>2 DEF w, Check, c, Openers, Ended
    <3>3. /\ Stacked(w) /\ w.ok = y.ok /\ Len(w.ctrl) = L - 1
          /\ \A j \in 1 .. L - 1 : w.ctrl[j] = v.ctrl[j] /\ Same(v, w, j)
          /\ w.ops = SubSeq(v.ops, 1, c.height) \o c.results
      BY <3>1, <3>2, EndedSame DEF c
    <3>4. Moves(v, i, w)
      <4>1. \A j \in 1 .. L : j <= L - 1 => Same(v, w, j)
        BY <1>3, <3>3
      <4>2. QED
        BY <1>3, <1>8, <3>3, <4>1 DEF Moves, Openers, c
    <3>5. QED
      BY <3>1, <3>3, <3>4 DEF Kept, Done
  <2>3. QED
    BY <2>1, <2>2
<1>9. CASE i.op = "br"
  <2>1. CASE i.arg[1] >= L
    BY <1>4, <1>9, <2>1 DEF w, Check, Openers
  <2>2. CASE ~ (i.arg[1] >= L)
    <3>1. w = Kill(Take(v, LabelTypes(v, i.arg[1])))
      BY <1>9, <2>2 DEF w, Check, Openers
    <3>2. i.arg[1] \in Nat
      BY <1>1, <1>9 DEF Formed
    <3>3. Kept(v, Take(v, LabelTypes(v, i.arg[1])))
      BY <1>3, <2>2, <3>2, LabelsTyped, TakenAll
    <3>4. QED
      BY <1>9, <1>20, <1>22, <3>1, <3>3
  <2>3. QED
    BY <2>1, <2>2
<1>10. CASE i.op = "br_if"
  <2>1. CASE i.arg[1] >= L
    BY <1>4, <1>10, <2>1 DEF w, Check, Openers
  <2>2. CASE ~ (i.arg[1] >= L)
    <3> DEFINE ts == LabelTypes(v, i.arg[1])
    <3>1. w = Give(Take(Take(v, I32), ts), ts)
      BY <1>10, <2>2 DEF w, Check, Openers
    <3>2. i.arg[1] \in Nat
      BY <1>1, <1>10 DEF Formed
    <3>3. ts \in Seq(Types)
      BY <1>3, <2>2, <3>2, LabelsTyped
    <3>4. Kept(v, Take(Take(v, I32), ts))
      BY <1>2, <3>3, TwiceKept
    <3>5. QED
      BY <1>10, <1>21, <1>22, <3>1, <3>3, <3>4
  <2>3. QED
    BY <2>1, <2>2
<1>11. CASE i.op = "br_table"
  <2> DEFINE Labels == {i.arg[k] : k \in 1 .. Len(i.arg)}
             Unlike == \E l, m \in Labels : \/ l >= Len(v.ctrl) \/ m >= Len(v.ctrl)
                                            \/ LabelTypes(v, l) # LabelTypes(v, m)
  <2>1. CASE Unlike
    BY <1>4, <1>11, <2>1 DEF w, Check, Openers
  <2>2. CASE ~ Unlike
    <3> DEFINE ts == LabelTypes(v, i.arg[1])
    <3>1. w = Kill(Take(Take(v, I32), ts))
      BY <1>11, <2>2 DEF w, Check, Openers
    <3>2. 1 \in 1 .. Len(i.arg) /\ i.arg[1] \in Nat
      BY <1>1, <1>11 DEF Formed
    <3>3. i.arg[1] \in Labels
      BY <3>2
    <3>4. ~ (i.arg[1] >= L)
      BY <2>2, <3>3
    <3>5. ts \in Seq(Types)
      BY <1>3, <3>2, <3>4, LabelsTyped
    <3>6. Kept(v, Take(Take(v, I32), ts))
      BY <1>2, <3>5, TwiceKept
    <3>7. QED
      BY <1>11, <1>20, <1>22, <3>1, <3>6
  <2>3. QED
    BY <2>1, <2>2
<1>12. CASE i.op = "return"
  <2>1. w = Kill(Take(v, v.ctrl[1].results))
    BY <1>12 DEF w, Check, Openers
  <2>2. v.ctrl[1] \in Entries
    BY <1>3
  <2>3. Kept(v, Take(v, v.ctrl[1].results))
    BY <2>2, TakenAll DEF Entries
  <2>4. QED
    BY <1>12, <1>20, <1>22, <2>1, <2>3
<1>13. CASE i.op = "unreachable"
  <2>1. w = Kill(v)
    BY <1>13 DEF w, Check, Openers
  <2>2. QED
    BY <1>13, <1>20, <1>22, <2>1, KeptSelf
<1>14. CASE i.op = "call"
  <2> DEFINE g == code[i.arg[1]]
  <2>1. w = Give(Take(v, g.params), g.results)
    BY <1>14 DEF w, Check, Openers
  <2>2. g \in Functions
    BY <1>14 DEF Formed
  <2>3. g.params \in Seq(Types) /\ g.results \in Seq(Types)
    BY <2>2 DEF Functions
  <2>4. Kept(v, Take(v, g.params))
    BY <2>3, TakenAll
  <2>5. QED
    BY <1>14, <1>21, <1>22, <2>1, <2>3, <2>4
<1>15. CASE i.op = "call_indirect"
  <2>1. w = Give(Take(Take(v, I32), i.in), i.out)
    BY <1>15 DEF w, Check, Openers
  <2>2. Kept(v, Take(Take(v, I32), i.in))
    BY <1>1, <1>2, TwiceKept
  <2>3. QED
    BY <1>1, <1>15, <1>21, <1>22, <2>1, <2>2
<1>16. QED
  BY <1>1, <1>5, <1>6, <1>7, <1>8, <1>9, <1>10, <1>11, <1>12, <1>13, <1>14, <1>15 DEF Operations

(* s without its n last elements.                                          *)
Without(s, n) == SubSeq(s, 1, Len(s) - n)

(* s, operands of v, has ts on top, above what is under the block.         *)
Yields(v, s, ts) == Top(s, ts) /\ Inner(v).height + Len(ts) <= Len(s)

(* What an accepted instruction finds on the operands, and leaves of them, *)
(* where it can be reached.                                                *)
Serves(code, v, i, w) ==
  LET ops == v.ops
      less == Without(v.ops, 1)
      L == Len(v.ctrl)
      h == w.ctrl[Len(w.ctrl)].height
  IN
  /\ i.op \in {"apply", "div", "call", "call_indirect", "br_if"} => w.ctrl = v.ctrl
  /\ i.op \in {"apply", "div"} =>
       Top(ops, i.in) /\ w.ops = Without(ops, Len(i.in)) \o i.out
  /\ i.op \in {"block", "loop"} =>
       Top(ops, i.in) /\ w.ops = ops /\ h = Len(ops) - Len(i.in)
  /\ i.op \in {"if", "br_if", "br_table", "call_indirect"} => ops # <<>>
  /\ i.op = "if" =>
       Top(less, i.in) /\ w.ops = less /\ h = Len(less) - Len(i.in)
  /\ i.op \in {"else", "end"} => /\ Yields(v, ops, v.ctrl[L].results)
                                 /\ Len(ops) = Inner(v).height + Len(v.ctrl[L].results)
  /\ i.op = "br" => i.arg[1] < L /\ Yields(v, ops, LabelTypes(v, i.arg[1]))
  /\ i.op = "br_if" => /\ i.arg[1] < L /\ Yields(v, less, LabelTypes(v, i.arg[1]))
                       /\ w.ops = less
  /\ i.op = "br_table" => \A k \in 1 .. Len(i.arg) :
                            /\ i.arg[k] < L
                            /\ Yields(v, less, LabelTypes(v, i.arg[k]))
  /\ i.op = "return" => Yields(v, ops, v.ctrl[1].results)
  /\ i.op = "call" =>
       LET g == code[i.arg[1]]
       IN  Top(ops, g.params) /\ w.ops = Without(ops, Len(g.params)) \o g.results
  /\ i.op = "call_indirect" =>
       Top(less, i.in) /\ w.ops = Without(less, Len(i.in)) \o i.out

(* Operands accepted are there.                                            *)
LEMMA Takes ==
  ASSUME NEW v, NEW ts \in Seq(Types), Stacked(v), v.ctrl # <<>>, ~ Inner(v).dead,
         Take(v, ts).ok
  PROVE  /\ Yields(v, v.ops, ts) /\ Take(v, ts).ops = Without(v.ops, Len(ts))
         /\ Stacked(Take(v, ts)) /\ Take(v, ts).ctrl = v.ctrl
         /\ Inner(Take(v, ts)) = Inner(v) /\ v.ok
<1>1. /\ Stacked(Take(v, ts)) /\ Take(v, ts).ctrl = v.ctrl /\ v.ok
      /\ Inner(v).height + Len(ts) <= Len(v.ops) /\ Top(v.ops, ts)
      /\ Take(v, ts).ops = SubSeq(v.ops, 1, Len(v.ops) - Len(ts))
  BY Taken
<1>2. QED
  BY <1>1 DEF Yields, Without, Inner

(* And those under them.                                                   *)
LEMMA TakesTwice ==
  ASSUME NEW v, NEW ts \in Seq(Types), NEW us \in Seq(Types), Stacked(v), v.ctrl # <<>>,
         ~ Inner(v).dead, Take(Take(v, ts), us).ok
  PROVE  LET x == Take(v, ts)  y == Take(x, us)
         IN  /\ Yields(v, v.ops, ts) /\ x.ops = Without(v.ops, Len(ts))
             /\ Yields(v, x.ops, us) /\ y.ops = Without(x.ops, Len(us))
             /\ Stacked(y) /\ y.ctrl = v.ctrl
<1> DEFINE x == Take(v, ts)
<1>1. Stacked(x) /\ x.ctrl = v.ctrl
  BY Taken
<1>2. x.ctrl # <<>> /\ Inner(x) = Inner(v)
  BY <1>1 DEF Inner
<1>3. /\ Yields(x, x.ops, us) /\ Take(x, us).ops = Without(x.ops, Len(us)) /\ x.ok
      /\ Stacked(Take(x, us)) /\ Take(x, us).ctrl = x.ctrl
  BY <1>1, <1>2, Takes
<1>4. Yields(v, v.ops, ts) /\ x.ops = Without(v.ops, Len(ts))
  BY <1>3, Takes
<1>5. Yields(v, x.ops, us)
  BY <1>2, <1>3 DEF Yields
<1>6. QED
  BY <1>1, <1>3, <1>4, <1>5

(* What is on top of s is the rest of it.                                  *)
LEMMA TopOn ==
  ASSUME NEW s \in Seq(Types), NEW ts \in Seq(Types), Top(s, ts)
  PROVE  /\ s = Without(s, Len(ts)) \o ts
         /\ Len(Without(s, Len(ts))) = Len(s) - Len(ts)
<1> DEFINE n == Len(s) - Len(ts)
<1>1. n \in 0 .. Len(s) /\ SubSeq(s, n + 1, Len(s)) = ts
  BY DEF Top
<1> HIDE DEF n
<1>2. SubSeq(s, 1, n) \o SubSeq(s, n + 1, Len(s)) = SubSeq(s, 1, Len(s))
  <2>1. 1 \in 1 .. Len(s) + 1 /\ n \in 1 - 1 .. Len(s) /\ Len(s) \in n .. Len(s)
    BY <1>1
  <2>2. QED
    BY <2>1, ConcatAdjacentSubSeq
<1>3. s = SubSeq(s, 1, n) \o ts
  BY <1>1, <1>2
<1>4. Len(SubSeq(s, 1, n)) = n
  BY <1>1
<1>5. QED
  BY <1>3, <1>4 DEF n, Without

(* Every instruction that can be reached finds the operands it takes.      *)
LEMMA Served ==
  ASSUME NEW code, NEW i \in Instructions, NEW v,
         code \in [DOMAIN code -> Functions], Stacked(v), v.ctrl # <<>>, Formed(code, i),
         ~ Inner(v).dead, Check(code, v, i).ok
  PROVE  Serves(code, v, i, Check(code, v, i))
<1> DEFINE w == Check(code, v, i)
           c == Inner(v)
           L == Len(v.ctrl)
           I32 == <<"i32">>
           less == Without(v.ops, 1)
           Bad == [v EXCEPT !.ok = FALSE]
<1>0. SUFFICES Serves(code, v, i, w)
  OBVIOUS
<1>1. i.in \in Seq(Types) /\ i.out \in Seq(Types) /\ i.arg \in Seq(Nat) /\ i.op \in Operations
  BY DEF Instructions
<1>2. I32 \in Seq(Types) /\ Len(I32) = 1
  BY DEF Types
<1>3. /\ v.ctrl \in Seq(Entries) /\ L \in 1 .. L /\ c = v.ctrl[L] /\ v.ops \in Seq(Types)
      /\ c \in Entries /\ c.results \in Seq(Types) /\ c.params \in Seq(Types)
      /\ c.height \in 0 .. Len(v.ops)
  BY StackedParts DEF Entries
<1>4. w.ok
  OBVIOUS
<1>5. w # Bad
  BY <1>4, Rejected
<1> HIDE DEF w
<1>6. ASSUME NEW us \in Seq(Types), Take(Take(v, I32), us).ok
      PROVE  /\ v.ops # <<>> /\ Take(v, I32).ops = less /\ Yields(v, less, us)
             /\ Take(Take(v, I32), us).ops = Without(less, Len(us))
             /\ Stacked(Take(Take(v, I32), us)) /\ Take(Take(v, I32), us).ctrl = v.ctrl
  <2> DEFINE x == Take(v, I32)
             y == Take(x, us)
  <2>1. /\ Yields(v, v.ops, I32) /\ x.ops = Without(v.ops, Len(I32))
        /\ Yields(v, x.ops, us) /\ y.ops = Without(x.ops, Len(us))
        /\ Stacked(y) /\ y.ctrl = v.ctrl
    <3> HIDE DEF I32
    <3>1. QED
      BY <1>2, <1>6, TakesTwice
  <2>2. Len(v.ops) >= 1
    BY <1>2, <2>1 DEF Yields, Top
  <2>3. v.ops # <<>>
    BY <2>2
  <2>4. QED
    BY <1>2, <2>1, <2>3
<1> HIDE DEF I32
<1>7. CASE i.op \in {"apply", "div"}
  <2>1. w = Give(Take(v, i.in), i.out)
    BY <1>7 DEF w, Check
  <2>2. Stacked(Take(v, i.in)) /\ Take(v, i.in).ctrl = v.ctrl
    BY <1>1, Taken
  <2>3. w.ctrl = v.ctrl /\ w.ops = Take(v, i.in).ops \o i.out /\ w.ok = Take(v, i.in).ok
    BY <1>1, <2>1, <2>2, Given
  <2>4. Yields(v, v.ops, i.in) /\ Take(v, i.in).ops = Without(v.ops, Len(i.in))
    BY <1>1, <1>4, <2>3, Takes
  <2>5. QED
    BY <1>7, <2>3, <2>4 DEF Serves, Yields
<1>8. CASE i.op \in {"block", "loop"}
  <2> DEFINE y == Take(v, i.in)
             M == Len(v.ctrl) + 1
  <2>1. w = OpenBlock(v, i)
    BY <1>8 DEF w, Check
  <2>2. Kept(v, v) /\ Kept(v, Take(v, i.in)) /\ i.op \in Openers
    BY <1>1, <1>8, KeptSelf, TakenAll DEF Openers
  <2>3. w.ok = y.ok /\ w.ops = y.ops \o i.in /\ Len(w.ctrl) = M /\ w.ctrl[M].height = Len(y.ops)
    <3>1. OpenedTo(v, i, y, w)
      BY <2>1, <2>2, Opened
    <3> HIDE DEF y
    <3>2. QED
      BY <3>1 DEF OpenedTo
  <2>4. Yields(v, v.ops, i.in) /\ y.ops = Without(v.ops, Len(i.in))
    BY <1>1, <1>4, <2>3, Takes
  <2> HIDE DEF y, M
  <2>5. v.ops = y.ops \o i.in /\ Len(y.ops) = Len(v.ops) - Len(i.in)
    <3>1. Top(v.ops, i.in)
      BY <2>4 DEF Yields
    <3> DEFINE s == v.ops
    <3> HIDE DEF s
    <3>2. s \in Seq(Types) /\ Top(s, i.in) /\ y.ops = Without(s, Len(i.in))
      BY <1>3, <2>4, <3>1 DEF s
    <3>3. s = Without(s, Len(i.in)) \o i.in /\ Len(Without(s, Len(i.in))) = Len(s) - Len(i.in)
      BY <1>1, <3>2, TopOn
    <3>4. QED
      BY <3>2, <3>3 DEF s
  <2>6. QED
    BY <1>8, <2>3, <2>4, <2>5 DEF Serves, Yields
<1>9. CASE i.op = "if"
  <2> DEFINE x == Take(v, I32)
             y == Take(x, i.in)
             M == Len(v.ctrl) + 1
  <2>1. w = OpenBlock(x, i)
    BY <1>9 DEF w, Check, I32
  <2>2. Kept(v, x) /\ Kept(v, Take(x, i.in)) /\ i.op \in Openers
    BY <1>1, <1>2, <1>9, TwiceKept DEF Openers
  <2>3. w.ok = y.ok /\ w.ops = y.ops \o i.in /\ Len(w.ctrl) = M /\ w.ctrl[M].height = Len(y.ops)
    <3>1. OpenedTo(v, i, y, w)
      BY <2>1, <2>2, Opened
    <3> HIDE DEF y
    <3>2. QED
      BY <3>1 DEF OpenedTo
  <2>4. v.ops # <<>> /\ x.ops = less /\ Yields(v, less, i.in) /\ y.ops = Without(less, Len(i.in))
    BY <1>1, <1>4, <1>6, <2>3
  <2>5. less \in Seq(Types)
    BY <1>3, <2>4 DEF Without
  <2> HIDE DEF x, y, M, less
  <2>6. less = y.ops \o i.in /\ Len(y.ops) = Len(less) - Len(i.in)
    BY <1>1, <2>4, <2>5, TopOn DEF Yields
  <2>7. Top(less, i.in) /\ w.ops = less /\ w.ctrl[Len(w.ctrl)].height = Len(less) - Len(i.in)
    BY <2>3, <2>4, <2>6 DEF Yields
  <2>8. QED
    BY <1>9, <2>4, <2>7 DEF Serves, less
<1>10. CASE i.op \in {"else", "end"}
  <2> DEFINE y == TakeAll(v, c.results)
  <2>1. w.ok = y.ok
    <3>1. CASE i.op = "else"
      <4>1. w = [y EXCEPT !.ctrl = [@ EXCEPT ![Len(@)].kind = "else", ![Len(@)].dead = FALSE],
                          !.ops = SubSeq(@, 1, c.height) \o c.params]
        BY <1>5, <3>1 DEF w, Check, c, Openers
      <4>2. Kept(v, y)
        BY <1>3, TakenAll
      <4>3. y = [ops |-> y.ops, ok |-> y.ok, ctrl |-> y.ctrl]
        BY <4>2, StackedParts DEF Kept
      <4>4. QED
        BY <4>1, <4>3
    <3>2. CASE i.op = "end"
      <4>1. w = Ended(v, y)
        BY <1>5, <3>2 DEF w, Check, c, Openers, Ended
      <4>2. Kept(v, y)
        BY <1>3, TakenAll
      <4>3. QED
        BY <4>1, <4>2, EndedSame
    <3>3. QED
      BY <1>10, <3>1, <3>2
  <2>2. Len(v.ops) = c.height + Len(c.results) /\ Top(v.ops, c.results)
    BY <1>3, <1>4, <2>1, TakenAll
  <2>3. c.height + Len(c.results) <= Len(v.ops)
    BY <1>3, <2>2
  <2>4. QED
    BY <1>3, <1>10, <2>2, <2>3 DEF Serves, Yields
<1>11. CASE i.op = "br"
  <2> DEFINE ts == LabelTypes(v, i.arg[1])
  <2>1. w = Kill(Take(v, ts)) /\ ~ (i.arg[1] >= L)
    BY <1>5, <1>11 DEF w, Check, Openers
  <2>2. i.arg[1] \in Nat
    BY <1>1, <1>11 DEF Formed
  <2>3. i.arg[1] < L
    BY <1>3, <2>1, <2>2
  <2>4. ts \in Seq(Types)
    BY <2>2, <2>3, LabelsTyped
  <2>5. Stacked(Take(v, ts)) /\ Take(v, ts).ctrl = v.ctrl
    BY <2>4, Taken
  <2>6. Take(v, ts).ok
    BY <1>4, <2>1, <2>5, Killed
  <2>7. Yields(v, v.ops, ts)
    BY <2>4, <2>6, Takes
  <2>8. QED
    BY <1>11, <2>3, <2>7 DEF Serves
<1>12. CASE i.op = "br_if"
  <2> DEFINE ts == LabelTypes(v, i.arg[1])
             y == Take(Take(v, I32), ts)
  <2>1. w = Give(y, ts) /\ ~ (i.arg[1] >= L)
    BY <1>5, <1>12 DEF w, Check, Openers, I32
  <2>2. i.arg[1] \in Nat
    BY <1>1, <1>12 DEF Formed
  <2>3. i.arg[1] < L
    BY <1>3, <2>1, <2>2
  <2>4. ts \in Seq(Types)
    BY <2>2, <2>3, LabelsTyped
  <2>5. Kept(v, y)
    BY <1>2, <2>4, TwiceKept
  <2>6. w.ctrl = v.ctrl /\ w.ops = y.ops \o ts /\ w.ok = y.ok
    BY <2>1, <2>4, <2>5, Given DEF Kept
  <2>7. v.ops # <<>> /\ Yields(v, less, ts) /\ y.ops = Without(less, Len(ts))
    BY <1>4, <1>6, <2>4, <2>6
  <2>8. less \in Seq(Types)
    BY <1>3, <2>7 DEF Without
  <2> HIDE DEF y, less
  <2>9. less = y.ops \o ts
    BY <2>4, <2>7, <2>8, TopOn DEF Yields
  <2>10. QED
    BY <1>12, <2>3, <2>6, <2>7, <2>9 DEF Serves, less
<1>13. CASE i.op = "br_table"
  <2> DEFINE Labels == {i.arg[k] : k \in 1 .. Len(i.arg)}
             Unlike == \E l, m \in Labels : \/ l >= Len(v.ctrl) \/ m >= Len(v.ctrl)
                                            \/ LabelTypes(v, l) # LabelTypes(v, m)
             ts == LabelTypes(v, i.arg[1])
             y == Take(Take(v, I32), ts)
  <2>1. w = Kill(y) /\ ~ Unlike
    BY <1>5, <1>13 DEF w, Check, Openers, I32
  <2>2. 1 \in 1 .. Len(i.arg) /\ \A k \in 1 .. Len(i.arg) : i.arg[k] \in Nat
    BY <1>1, <1>13 DEF Formed
  <2>3. ASSUME NEW k \in 1 .. Len(i.arg)
        PROVE  i.arg[k] < L /\ LabelTypes(v, i.arg[k]) = ts
    <3>1. i.arg[k] \in Labels /\ i.arg[1] \in Labels
      BY <2>2
    <3> HIDE DEF Labels
    <3>2. ~ (i.arg[k] >= Len(v.ctrl)) /\ LabelTypes(v, i.arg[k]) = ts
      BY <2>1, <3>1
    <3>3. i.arg[k] \in Nat
      BY <2>2
    <3>4. QED
      BY <1>3, <3>2, <3>3
  <2>4. ts \in Seq(Types)
    BY <2>2, <2>3, LabelsTyped
  <2>5. Kept(v, y)
    BY <1>2, <2>4, TwiceKept
  <2>6. y.ctrl # <<>> /\ Stacked(y)
    BY <2>5 DEF Kept
  <2>7. y.ok
    BY <1>4, <2>1, <2>6, Killed
  <2>8. v.ops # <<>> /\ Yields(v, less, ts)
    BY <1>6, <2>4, <2>7
  <2>9. \A k \in 1 .. Len(i.arg) : i.arg[k] < L /\ Yields(v, less, LabelTypes(v, i.arg[k]))
    BY <2>3, <2>8
  <2>10. QED
    BY <1>13, <2>8, <2>9 DEF Serves
<1>14. CASE i.op = "return"
  <2> DEFINE ts == v.ctrl[1].results
  <2>1. w = Kill(Take(v, ts))
    BY <1>14 DEF w, Check, Openers
  <2>2. v.ctrl[1] \in Entries
    BY <1>3
  <2>3. ts \in Seq(Types)
    BY <2>2 DEF Entries
  <2>4. Stacked(Take(v, ts)) /\ Take(v, ts).ctrl = v.ctrl
    BY <2>3, Taken
  <2>5. Take(v, ts).ok
    BY <1>4, <2>1, <2>4, Killed
  <2>6. Yields(v, v.ops, ts)
    BY <2>3, <2>5, Takes
  <2>7. QED
    BY <1>14, <2>6 DEF Serves
<1>15. CASE i.op = "unreachable"
  BY <1>15 DEF Serves
<1>16. CASE i.op = "call"
  <2> DEFINE g == code[i.arg[1]]
  <2>1. w = Give(Take(v, g.params), g.results)
    BY <1>16 DEF w, Check, Openers
  <2>2. g \in Functions
    BY <1>16 DEF Formed
  <2>3. g.params \in Seq(Types) /\ g.results \in Seq(Types)
    BY <2>2 DEF Functions
  <2>4. Stacked(Take(v, g.params)) /\ Take(v, g.params).ctrl = v.ctrl
    BY <2>3, Taken
  <2>5. w.ctrl = v.ctrl /\ w.ops = Take(v, g.params).ops \o g.results /\ w.ok = Take(v, g.params).ok
    BY <2>1, <2>3, <2>4, Given
  <2>6. Yields(v, v.ops, g.params) /\ Take(v, g.params).ops = Without(v.ops, Len(g.params))
    BY <1>4, <2>3, <2>5, Takes
  <2>7. QED
    BY <1>16, <2>5, <2>6 DEF Serves, Yields
<1>17. CASE i.op = "call_indirect"
  <2> DEFINE y == Take(Take(v, I32), i.in)
  <2>1. w = Give(y, i.out)
    BY <1>17 DEF w, Check, Openers, I32
  <2>2. Kept(v, y)
    BY <1>1, <1>2, TwiceKept
  <2>3. w.ctrl = v.ctrl /\ w.ops = y.ops \o i.out /\ w.ok = y.ok
    BY <1>1, <2>1, <2>2, Given DEF Kept
  <2>4. v.ops # <<>> /\ Yields(v, less, i.in) /\ y.ops = Without(less, Len(i.in))
    BY <1>1, <1>4, <1>6, <2>3
  <2>5. QED
    BY <1>17, <2>3, <2>4 DEF Serves, Yields
<1>18. QED
  BY <1>1, <1>7, <1>8, <1>9, <1>10, <1>11, <1>12, <1>13, <1>14, <1>15, <1>16, <1>17
     DEF Operations, Openers

-----------------------------------------------------------------------------
(* K is what validation knows of the body of fn, all of it accepted.       *)
Typing(fn, K) ==
  /\ fn.body \in Seq(Instructions)
  /\ \A p \in 1 .. Len(fn.body) + 1 : Stacked(K[p])
  /\ \A p \in 1 .. Len(fn.body) : K[p].ctrl # <<>> /\ Moves(K[p], fn.body[p], K[p+1])
  /\ K[1] = Start(fn)
  /\ K[Len(fn.body) + 1].ctrl = <<>>

(* Validation starts with the block of the function.                       *)
LEMMA Started ==
  ASSUME NEW fn, fn.results \in Seq(Types)
  PROVE  LET v == Start(fn)
         IN  /\ Stacked(v) /\ v.ops = <<>> /\ Len(v.ctrl) = 1 /\ v.ctrl[1].kind = "block"
             /\ v.ctrl[1].params = <<>> /\ v.ctrl[1].results = fn.results
             /\ v.ctrl[1].height = 0 /\ ~ v.ctrl[1].dead
<1> DEFINE no == FALSE
           e == [kind |-> "block", params |-> <<>>, results |-> fn.results, height |-> 0,
                 dead |-> no]
           v == [ops |-> <<>>, ok |-> TRUE, ctrl |-> <<e>>]
<1>1. Start(fn) = v
  BY DEF Start
<1>2. ~ no /\ no \in BOOLEAN
  OBVIOUS
<1> HIDE DEF no
<1>3. e \in Entries /\ e.kind = "block" /\ e.params = <<>> /\ e.results = fn.results
      /\ e.height = 0 /\ e.dead = no
  BY <1>2 DEF Entries, Openers
<1> HIDE DEF e
<1>4. <<e>> \in Seq(Entries) /\ Len(<<e>>) = 1 /\ <<e>>[1] = e
  BY <1>3
<1>5. v \in States /\ v.ops = <<>> /\ v.ctrl = <<e>> /\ Len(v.ops) = 0
  BY <1>4 DEF States
<1> HIDE DEF v
<1>6. Stacked(v)
  BY <1>3, <1>4, <1>5 DEF Stacked
<1>7. QED
  BY <1>1, <1>2, <1>3, <1>4, <1>5, <1>6

(* A valid function is accepted from its first instruction to its last.    *)
LEMMA ValidTyping ==
  ASSUME NEW code, NEW f \in DOMAIN code, code \in [DOMAIN code -> Functions],
         Valid(code, f)
  PROVE  /\ Typing(code[f], Known(code, f))
         /\ \A p \in 1 .. Len(code[f].body) :
              ~ Inner(Known(code, f)[p]).dead =>
                Serves(code, Known(code, f)[p], code[f].body[p], Known(code, f)[p+1])
<1> DEFINE K == Known(code, f)
           b == code[f].body
           n == Len(b)
<1>1. code[f] \in Functions
  OBVIOUS
<1>2. b \in Seq(Instructions) /\ code[f].results \in Seq(Types) /\ n \in Nat
  BY <1>1 DEF Functions
<1>3. K[1] = Start(code[f]) /\ \A p \in 1 .. n : K[p+1] = Check(code, K[p], b[p])
  BY <1>2, KnownSteps
<1>4. /\ \A p \in 1 .. n : Formed(code, b[p]) /\ K[p].ctrl # <<>>
      /\ \A p \in 1 .. n + 1 : K[p].ok
      /\ K[n + 1].ctrl = <<>>
  BY DEF Valid
<1> HIDE DEF K
<1>5. \A p \in 1 .. n : b[p] \in Instructions
  BY <1>2
<1> HIDE DEF b, n
<1>6. \A p \in 1 .. n + 1 : Stacked(K[p])
  <2> DEFINE S == {j \in Nat : j + 1 \in 1 .. n + 1 => Stacked(K[j+1])}
  <2>1. 0 \in S
    BY <1>2, <1>3, Started
  <2>2. ASSUME NEW j \in Nat, j \in S PROVE j + 1 \in S
    <3>1. SUFFICES ASSUME j + 1 + 1 \in 1 .. n + 1 PROVE Stacked(K[j+1+1])
      OBVIOUS
    <3>2. j + 1 \in 1 .. n /\ j + 1 \in 1 .. n + 1
      BY <1>2, <3>1
    <3>3. Stacked(K[j+1])
      BY <2>2, <3>2
    <3>4. K[j+1+1] = Check(code, K[j+1], b[j+1])
      BY <1>3, <3>2
    <3>5. QED
      BY <1>4, <1>5, <3>2, <3>3, <3>4, Checked
  <2>3. Nat \subseteq S
    <3> HIDE DEF S
    <3>1. QED
      BY <2>1, <2>2, SetInduction
  <2>4. ASSUME NEW p \in 1 .. n + 1 PROVE Stacked(K[p])
    <3>1. p - 1 \in Nat /\ p - 1 + 1 = p
      BY <1>2
    <3>2. p - 1 \in S
      BY <2>3, <3>1
    <3>3. QED
      BY <3>1, <3>2
  <2>5. QED
    BY <2>4
<1>7. ASSUME NEW p \in 1 .. n
      PROVE  Moves(K[p], b[p], K[p+1])
  <2>1. p \in 1 .. n + 1 /\ p + 1 \in 1 .. n + 1
    BY <1>2
  <2>2. Stacked(K[p]) /\ K[p+1].ok /\ K[p+1] = Check(code, K[p], b[p])
        /\ K[p].ctrl # <<>> /\ Formed(code, b[p]) /\ b[p] \in Instructions
    BY <1>3, <1>4, <1>5, <1>6, <2>1
  <2>3. QED
    BY <2>2, Checked
<1>8. ASSUME NEW p \in 1 .. n, ~ Inner(K[p]).dead
      PROVE  Serves(code, K[p], b[p], K[p+1])
  <2>1. p \in 1 .. n + 1 /\ p + 1 \in 1 .. n + 1
    BY <1>2
  <2>2. Stacked(K[p]) /\ K[p+1].ok /\ K[p+1] = Check(code, K[p], b[p])
        /\ K[p].ctrl # <<>> /\ Formed(code, b[p]) /\ b[p] \in Instructions
    BY <1>3, <1>4, <1>5, <1>6, <2>1
  <2>3. QED
    BY <1>8, <2>2, Served
<1>9. Typing(code[f], K)
  BY <1>2, <1>3, <1>4, <1>6, <1>7 DEF Typing, b, n
<1>10. QED
  BY <1>8, <1>9 DEF K, b, n

-----------------------------------------------------------------------------
(* The blocks open before instruction p.                                   *)
Level(K, p) == Len(K[p].ctrl)

(* The end of block j of those open at p, and where it was opened.         *)
ClosesAt(fn, K, p, j, e) ==
  /\ e \in p .. Len(fn.body) /\ fn.body[e].op = "end" /\ Level(K, e) = j
  /\ \A r \in p .. e : Level(K, r) >= j
OpensAt(fn, K, p, j, q) ==
  /\ q \in 1 .. p - 1 /\ fn.body[q].op \in Openers /\ Level(K, q) = j - 1
  /\ \A r \in q + 1 .. p : Level(K, r) >= j

(* The blocks open change by one at a time.                                *)
LEMMA Levels ==
  ASSUME NEW fn, NEW K, Typing(fn, K)
  PROVE  /\ Len(fn.body) \in Nat /\ Len(fn.body) >= 1
         /\ \A p \in 1 .. Len(fn.body) + 1 : Level(K, p) \in Nat
         /\ Level(K, 1) = 1 /\ Level(K, Len(fn.body) + 1) = 0
         /\ \A p \in 1 .. Len(fn.body) :
              /\ Level(K, p) >= 1
              /\ Level(K, p+1) = IF fn.body[p].op \in Openers THEN Level(K, p) + 1
                                 ELSE IF fn.body[p].op = "end" THEN Level(K, p) - 1
                                 ELSE Level(K, p)
<1> DEFINE n == Len(fn.body)
<1>1. n \in Nat /\ K[1] = Start(fn) /\ K[n+1].ctrl = <<>>
  BY DEF Typing
<1>2. ASSUME NEW p \in 1 .. n + 1 PROVE K[p].ctrl \in Seq(Entries)
  <2>1. Stacked(K[p])
    BY DEF Typing
  <2>2. QED
    BY <2>1, StackedParts
<1>3. \A p \in 1 .. n + 1 : Level(K, p) \in Nat
  BY <1>2 DEF Level
<1>4. Len(K[1].ctrl) = 1
  BY <1>1 DEF Start
<1>5. n >= 1
  <2>1. SUFFICES ASSUME n = 0 PROVE FALSE
    BY <1>1
  <2>2. K[1].ctrl = <<>>
    BY <1>1, <2>1
  <2>3. QED
    BY <1>4, <2>2
<1>6. ASSUME NEW p \in 1 .. n
      PROVE  /\ Level(K, p) >= 1
             /\ Level(K, p+1) = IF fn.body[p].op \in Openers THEN Level(K, p) + 1
                                ELSE IF fn.body[p].op = "end" THEN Level(K, p) - 1
                                ELSE Level(K, p)
  <2>1. p \in 1 .. n + 1
    BY <1>1
  <2>2. K[p].ctrl # <<>> /\ K[p].ctrl \in Seq(Entries)
    BY <1>2, <2>1 DEF Typing
  <2>3. Moves(K[p], fn.body[p], K[p+1])
    BY DEF Typing
  <2>4. Len(K[p+1].ctrl) = IF fn.body[p].op \in Openers THEN Len(K[p].ctrl) + 1
                           ELSE IF fn.body[p].op = "end" THEN Len(K[p].ctrl) - 1
                           ELSE Len(K[p].ctrl)
    BY <2>3, Zenon DEF Moves
  <2>5. Len(K[p].ctrl) >= 1
    BY <2>2
  <2>6. QED
    BY <2>4, <2>5 DEF Level
<1>7. Level(K, 1) = 1 /\ Level(K, n + 1) = 0
  BY <1>1, <1>4 DEF Level
<1>8. QED
  BY <1>1, <1>3, <1>5, <1>6, <1>7

(* Every open block is closed further on, once.                            *)
LEMMA Closed ==
  ASSUME NEW fn, NEW K, Typing(fn, K), NEW p \in 1 .. Len(fn.body),
         NEW j \in 1 .. Level(K, p)
  PROVE  \E e \in p .. Len(fn.body) : ClosesAt(fn, K, p, j, e)
<1> DEFINE n == Len(fn.body)
           T == {r \in p .. n + 1 : Level(K, r) < j}
<1>1. /\ n \in Nat /\ \A r \in 1 .. n + 1 : Level(K, r) \in Nat
      /\ Level(K, n + 1) = 0
      /\ \A r \in 1 .. n :
           Level(K, r+1) = IF fn.body[r].op \in Openers THEN Level(K, r) + 1
                           ELSE IF fn.body[r].op = "end" THEN Level(K, r) - 1
                           ELSE Level(K, r)
  BY Levels
<1> HIDE DEF n
<1>2. p \in 1 .. n /\ j \in Nat /\ j >= 1 /\ j <= Level(K, p)
  BY <1>1 DEF n
<1>3. n + 1 \in T /\ T \subseteq Nat
  BY <1>1, <1>2
<1>4. PICK m \in T : \A r \in T : m <= r
  BY <1>3, Least
<1>5. m \in p .. n + 1 /\ Level(K, m) < j /\ m # p
  <2>1. m \in p .. n + 1 /\ Level(K, m) < j
    BY <1>4
  <2>2. p \in 1 .. n + 1
    BY <1>1, <1>2
  <2>3. Level(K, p) \in Nat
    BY <1>1, <2>2
  <2>4. QED
    BY <1>2, <2>1, <2>3
<1>6. m - 1 \in p .. n /\ m - 1 \in 1 .. n /\ m - 1 + 1 = m
  BY <1>1, <1>2, <1>5
<1>7. \A r \in p .. m - 1 : r \in 1 .. n + 1 /\ r \notin T /\ r \in p .. n + 1
  BY <1>1, <1>2, <1>4, <1>5
<1>8. \A r \in p .. m - 1 : Level(K, r) >= j
  BY <1>1, <1>2, <1>7
<1>9. m - 1 \in p .. m - 1
  BY <1>5, <1>6
<1>10. fn.body[m-1].op = "end" /\ Level(K, m - 1) = j
  <2>1. Level(K, m - 1) >= j /\ Level(K, m - 1) \in Nat /\ Level(K, m) < j /\ Level(K, m) \in Nat
    BY <1>1, <1>5, <1>7, <1>8, <1>9
  <2>2. Level(K, m) = IF fn.body[m-1].op \in Openers THEN Level(K, m-1) + 1
                      ELSE IF fn.body[m-1].op = "end" THEN Level(K, m-1) - 1
                      ELSE Level(K, m-1)
    BY <1>1, <1>6
  <2>3. QED
    BY <1>2, <2>1, <2>2
<1>11. ClosesAt(fn, K, p, j, m - 1)
  BY <1>6, <1>8, <1>10 DEF ClosesAt, n
<1>12. QED
  BY <1>6, <1>11 DEF n

(* The end leaves the block.                                               *)
LEMMA ClosedOnce ==
  ASSUME NEW fn, NEW K, Typing(fn, K), NEW p \in 1 .. Len(fn.body) + 1, NEW j \in Nat,
         NEW e, ClosesAt(fn, K, p, j, e)
  PROVE  /\ e \in 1 .. Len(fn.body) /\ Level(K, e + 1) = j - 1 /\ j >= 1
         /\ \A d \in p .. Len(fn.body) : ClosesAt(fn, K, p, j, d) => d = e
<1> DEFINE n == Len(fn.body)
<1>1. /\ n \in Nat /\ \A r \in 1 .. n + 1 : Level(K, r) \in Nat
      /\ \A r \in 1 .. n : Level(K, r) >= 1
      /\ \A r \in 1 .. n : fn.body[r].op = "end" => Level(K, r+1) = Level(K, r) - 1
  <2>1. "end" \notin Openers
    BY DEF Openers
  <2>2. QED
    BY <2>1, Levels
<1> HIDE DEF n
<1>2. /\ e \in 1 .. n /\ e >= p /\ Level(K, e) = j /\ fn.body[e].op = "end"
      /\ \A r \in p .. e : Level(K, r) >= j
  BY <1>1 DEF ClosesAt, n
<1>3. Level(K, e + 1) = j - 1 /\ j >= 1
  BY <1>1, <1>2
<1>4. ASSUME NEW d \in p .. n, ClosesAt(fn, K, p, j, d) PROVE d = e
  <2>1. /\ d \in 1 .. n /\ d >= p /\ Level(K, d) = j /\ fn.body[d].op = "end"
        /\ \A r \in p .. d : Level(K, r) >= j
    BY <1>1, <1>4 DEF ClosesAt, n
  <2>2. Level(K, d + 1) = j - 1
    BY <1>1, <2>1
  <2>3. CASE d < e
    <3>1. d + 1 \in p .. e
      BY <1>2, <2>1, <2>3
    <3>2. QED
      BY <1>2, <1>3, <2>2, <3>1
  <2>4. CASE e < d
    <3>1. e + 1 \in p .. d
      BY <1>2, <2>1, <2>4
    <3>2. QED
      BY <1>3, <2>1, <3>1
  <2>5. QED
    BY <1>2, <2>1, <2>3, <2>4
<1>5. QED
  BY <1>2, <1>3, <1>4 DEF n

(* Every open block but the function was opened before, once.              *)
LEMMA OpenedBefore ==
  ASSUME NEW fn, NEW K, Typing(fn, K), NEW p \in 1 .. Len(fn.body) + 1,
         NEW j \in 2 .. Level(K, p)
  PROVE  \E q \in 1 .. p - 1 : OpensAt(fn, K, p, j, q)
<1> DEFINE n == Len(fn.body)
           T == {x \in 1 .. p : Level(K, p - x) < j}
<1>1. /\ n \in Nat /\ \A r \in 1 .. n + 1 : Level(K, r) \in Nat
      /\ Level(K, 1) = 1
      /\ \A r \in 1 .. n :
           Level(K, r+1) = IF fn.body[r].op \in Openers THEN Level(K, r) + 1
                           ELSE IF fn.body[r].op = "end" THEN Level(K, r) - 1
                           ELSE Level(K, r)
  BY Levels
<1> HIDE DEF n
<1>2. p \in 1 .. n + 1 /\ j \in Nat /\ j >= 2 /\ j <= Level(K, p)
  BY <1>1 DEF n
<1>3. p # 1
  BY <1>1, <1>2
<1>4. p - 1 \in T /\ T \subseteq Nat
  <2>1. p - 1 \in 1 .. p /\ p - (p - 1) = 1
    BY <1>2, <1>3
  <2>2. QED
    BY <1>1, <1>2, <2>1
<1>5. PICK x \in T : \A r \in T : x <= r
  BY <1>4, Least
<1> DEFINE q == p - x
<1>6. x \in 1 .. p - 1 /\ q \in 1 .. p - 1 /\ q \in 1 .. n /\ Level(K, q) < j /\ p - 1 <= n
  <2>1. x \in 1 .. p /\ Level(K, q) < j /\ x <= p - 1
    BY <1>4, <1>5
  <2>2. QED
    BY <1>1, <1>2, <1>3, <2>1
<1>7. ASSUME NEW r \in q + 1 .. p PROVE Level(K, r) >= j
  <2>1. CASE r = p
    BY <1>1, <1>2, <2>1
  <2>2. CASE r # p
    <3>1. p - r \in 1 .. p /\ p - (p - r) = r /\ p - r < x /\ r \in 1 .. n + 1
      BY <1>1, <1>2, <1>6, <2>2
    <3>2. p - r \notin T
      BY <1>5, <3>1
    <3>3. ~ (Level(K, r) < j)
      BY <3>1, <3>2
    <3>4. QED
      BY <1>1, <1>2, <3>1, <3>3
  <2>3. QED
    BY <2>1, <2>2
<1> HIDE DEF q, T
<1>8. q + 1 \in q + 1 .. p /\ q + 1 \in 1 .. n + 1
  BY <1>1, <1>2, <1>6
<1>9. fn.body[q].op \in Openers /\ Level(K, q) = j - 1
  <2>1. Level(K, q + 1) >= j /\ Level(K, q + 1) \in Nat /\ Level(K, q) \in Nat /\ Level(K, q) < j
    BY <1>1, <1>6, <1>7, <1>8
  <2>2. Level(K, q + 1) = IF fn.body[q].op \in Openers THEN Level(K, q) + 1
                          ELSE IF fn.body[q].op = "end" THEN Level(K, q) - 1
                          ELSE Level(K, q)
    BY <1>1, <1>6
  <2>3. QED
    BY <1>2, <2>1, <2>2
<1>10. OpensAt(fn, K, p, j, q)
  BY <1>6, <1>7, <1>9 DEF OpensAt
<1>11. QED
  BY <1>6, <1>10

(* It is opened by one instruction, and an outer block before an inner.    *)
LEMMA Inside ==
  ASSUME NEW fn, NEW K, Typing(fn, K), NEW p \in 1 .. Len(fn.body) + 1, NEW j \in Nat, NEW q,
         OpensAt(fn, K, p, j, q)
  PROVE  q \in 1 .. Len(fn.body) /\ Level(K, q + 1) = j /\ j >= 2
<1> DEFINE n == Len(fn.body)
<1>1. /\ n \in Nat /\ \A x \in 1 .. n : Level(K, x) >= 1
      /\ \A x \in 1 .. n : fn.body[x].op \in Openers => Level(K, x+1) = Level(K, x) + 1
  BY Levels
<1>2. q \in 1 .. p - 1 /\ fn.body[q].op \in Openers /\ Level(K, q) = j - 1
  BY DEF OpensAt
<1>3. q \in 1 .. n
  BY <1>1, <1>2
<1>4. QED
  BY <1>1, <1>2, <1>3

(* Inner blocks are opened later.                                          *)
LEMMA OpenedInOrder ==
  ASSUME NEW fn, NEW K, Typing(fn, K), NEW p \in 1 .. Len(fn.body) + 1,
         NEW j \in Nat, NEW i \in Nat, NEW q, NEW r, OpensAt(fn, K, p, j, q),
         OpensAt(fn, K, p, i, r), j < i
  PROVE  q < r
<1> DEFINE n == Len(fn.body)
<1>1. /\ q \in 1 .. p - 1 /\ Level(K, q) = j - 1
      /\ r \in 1 .. p - 1 /\ Level(K, r) = i - 1
      /\ \A x \in r + 1 .. p : Level(K, x) >= i
  BY DEF OpensAt
<1>2. q \in 1 .. n /\ r \in 1 .. n
  BY Inside
<1> HIDE DEF n
<1>3. SUFFICES ASSUME r <= q PROVE FALSE
  BY <1>2
<1>4. CASE r = q
  BY <1>1, <1>4
<1>5. CASE r # q
  <2>1. q \in r + 1 .. p
    BY <1>1, <1>2, <1>3, <1>5
  <2>2. QED
    BY <1>1, <2>1
<1>6. QED
  BY <1>4, <1>5

(* A block is opened once.                                                 *)
LEMMA OpenedOnce ==
  ASSUME NEW fn, NEW K, Typing(fn, K), NEW p \in 1 .. Len(fn.body) + 1,
         NEW j \in Nat, NEW q, NEW r, OpensAt(fn, K, p, j, q), OpensAt(fn, K, p, j, r)
  PROVE  q = r
<1> DEFINE n == Len(fn.body)
<1>1. /\ q \in 1 .. p - 1 /\ Level(K, q) = j - 1
      /\ \A x \in q + 1 .. p : Level(K, x) >= j
      /\ r \in 1 .. p - 1 /\ Level(K, r) = j - 1
      /\ \A x \in r + 1 .. p : Level(K, x) >= j
  BY DEF OpensAt
<1>2. q \in 1 .. n /\ r \in 1 .. n
  BY Inside
<1> HIDE DEF n
<1>3. CASE r < q
  <2>1. q \in r + 1 .. p
    BY <1>1, <1>2, <1>3
  <2>2. QED
    BY <1>1, <2>1
<1>4. CASE q < r
  <2>1. r \in q + 1 .. p
    BY <1>1, <1>2, <1>4
  <2>2. QED
    BY <1>1, <2>1
<1>5. QED
  BY <1>2, <1>3, <1>4

(* While a block is open it stays as it is.                                *)
LEMMA Frozen ==
  ASSUME NEW fn, NEW K, Typing(fn, K), NEW p \in 1 .. Len(fn.body) + 1, NEW j \in Nat \ {0},
         NEW q \in p .. Len(fn.body) + 1, \A r \in p .. q : Level(K, r) >= j
  PROVE  Same(K[p], K[q], j)
<1> DEFINE n == Len(fn.body)
           S == {x \in Nat : p + x <= q => Same(K[p], K[p+x], j)}
<1>1. n \in Nat /\ \A r \in 1 .. n + 1 : Level(K, r) \in Nat
  BY Levels
<1>2. /\ p \in 1 .. n + 1 /\ q \in p .. n + 1
  BY <1>1
<1>3. \A r \in 1 .. n : Moves(K[r], fn.body[r], K[r+1])
  BY DEF Typing
<1> HIDE DEF n
<1>4. 0 \in S
  <2>1. Same(K[p], K[p], j)
    BY DEF Same
  <2>2. p + 0 = p
    BY <1>2
  <2>3. QED
    BY <2>1, <2>2
<1>5. ASSUME NEW x \in Nat, x \in S PROVE x + 1 \in S
  <2>1. SUFFICES ASSUME p + (x + 1) <= q PROVE Same(K[p], K[p+(x+1)], j)
    OBVIOUS
  <2> DEFINE r == p + x
  <2>2. /\ p + (x + 1) = r + 1 /\ r \in 1 .. n /\ r \in p .. q /\ r + 1 \in p .. q
        /\ r \in 1 .. n + 1 /\ r + 1 \in 1 .. n + 1 /\ r <= q
    BY <1>1, <1>2, <2>1
  <2>3. Same(K[p], K[r], j)
    BY <1>5, <2>2
  <2> HIDE DEF r
  <2>4. Level(K, r) >= j /\ Level(K, r + 1) >= j
    BY <2>2
  <2>5. j \in 1 .. Level(K, r) /\ j <= Level(K, r + 1)
    BY <1>1, <2>2, <2>4
  <2>6. Moves(K[r], fn.body[r], K[r+1])
    BY <1>3, <2>2
  <2>7. Same(K[r], K[r+1], j)
    BY <2>5, <2>6 DEF Moves, Level
  <2>8. Same(K[p], K[r+1], j)
    BY <2>3, <2>7, SameTwice
  <2>9. QED
    BY <2>2, <2>8
<1>6. Nat \subseteq S
  <2> HIDE DEF S
  <2>1. QED
    BY <1>4, <1>5, SetInduction
<1>7. q - p \in Nat /\ p + (q - p) = q
  BY <1>1, <1>2
<1>8. q - p \in S
  BY <1>6, <1>7
<1>9. QED
  BY <1>2, <1>7, <1>8

-----------------------------------------------------------------------------
(* What a frame at instruction p records of its blocks, a record of each,  *)
(* innermost last, and where it goes on.                                   *)

(* t is the record of block j of those open at p.                          *)
Holds(fn, K, p, j, t) ==
  LET e == K[p].ctrl[j] IN
  /\ t.type = IF e.kind = "else" THEN "if" ELSE e.kind
  /\ t.params = e.params /\ t.results = e.results /\ t.height = e.height
  /\ t.end \in Nat /\ ClosesAt(fn, K, p, j, t.end - 1)
  /\ j > 1 => /\ t.start \in Nat /\ OpensAt(fn, K, p, j, t.start - 1)
              /\ fn.body[t.start - 1].op = t.type

(* c has the records of the blocks open at p, which can be reached.        *)
Framed(fn, K, p, c) ==
  /\ p \in 1 .. Len(fn.body) + 1
  /\ Reachable(K[p])
  /\ Len(c) = Level(K, p)
  /\ \A j \in 1 .. Level(K, p) : Holds(fn, K, p, j, c[j])

(* A record is good as long as its block is open.                          *)
LEMMA HeldForward ==
  ASSUME NEW fn, NEW K, Typing(fn, K), NEW p \in 1 .. Len(fn.body) + 1, NEW j \in Nat \ {0},
         NEW t, NEW q \in p .. Len(fn.body) + 1, \A r \in p .. q : Level(K, r) >= j,
         Holds(fn, K, p, j, t)
  PROVE  Holds(fn, K, q, j, t)
<1> DEFINE n == Len(fn.body)
           e == t.end - 1
<1>1. n \in Nat /\ p \in 1 .. n + 1 /\ q \in p .. n + 1 /\ j \in Nat
  BY Levels
<1>2. Same(K[p], K[q], j)
  BY Frozen
<1>3. /\ t.type = IF K[p].ctrl[j].kind = "else" THEN "if" ELSE K[p].ctrl[j].kind
      /\ t.params = K[p].ctrl[j].params /\ t.results = K[p].ctrl[j].results
      /\ t.height = K[p].ctrl[j].height
      /\ t.end \in Nat /\ ClosesAt(fn, K, p, j, e)
      /\ j > 1 => /\ t.start \in Nat /\ OpensAt(fn, K, p, j, t.start - 1)
                  /\ fn.body[t.start - 1].op = t.type
  BY DEF Holds
<1>4. e \in 1 .. n /\ Level(K, e + 1) = j - 1
  BY <1>1, <1>3, ClosedOnce
<1> HIDE DEF e, n
<1>5. ClosesAt(fn, K, q, j, e)
  <2>1. /\ e \in p .. n /\ fn.body[e].op = "end" /\ Level(K, e) = j
        /\ \A r \in p .. e : Level(K, r) >= j
    BY <1>3 DEF ClosesAt, n
  <2>2. q <= e
    <3>1. SUFFICES ASSUME e < q PROVE FALSE
      BY <1>1, <1>4
    <3>2. e + 1 \in p .. q
      BY <1>1, <2>1, <3>1
    <3>3. Level(K, e + 1) >= j
      BY <3>2
    <3>4. QED
      BY <1>1, <1>4, <3>3
  <2>3. e \in q .. n /\ \A r \in q .. e : r \in p .. e
    BY <1>1, <2>1, <2>2
  <2>4. QED
    BY <2>1, <2>3 DEF ClosesAt, n
<1>6. ASSUME j > 1 PROVE OpensAt(fn, K, q, j, t.start - 1)
  <2> DEFINE x == t.start - 1
  <2>1. /\ x \in 1 .. p - 1 /\ fn.body[x].op \in Openers /\ Level(K, x) = j - 1
        /\ \A r \in x + 1 .. p : Level(K, r) >= j
    BY <1>3, <1>6 DEF OpensAt
  <2> HIDE DEF x
  <2>2. x \in 1 .. q - 1
    BY <1>1, <2>1
  <2>3. \A r \in x + 1 .. q : r \in x + 1 .. p \/ r \in p .. q
    BY <1>1, <2>1
  <2>4. \A r \in x + 1 .. q : Level(K, r) >= j
    BY <2>1, <2>3
  <2>5. OpensAt(fn, K, q, j, x)
    BY <2>1, <2>2, <2>4 DEF OpensAt
  <2>6. QED
    BY <2>5 DEF x
<1>7. /\ t.type = IF K[q].ctrl[j].kind = "else" THEN "if" ELSE K[q].ctrl[j].kind
      /\ t.params = K[q].ctrl[j].params /\ t.results = K[q].ctrl[j].results
      /\ t.height = K[q].ctrl[j].height
  BY <1>2, <1>3 DEF Same
<1>8. QED
  BY <1>3, <1>5, <1>6, <1>7 DEF Holds, e

(* And back to where its block was opened.                                 *)
LEMMA HeldBack ==
  ASSUME NEW fn, NEW K, Typing(fn, K), NEW p \in 1 .. Len(fn.body) + 1, NEW j \in Nat \ {0},
         NEW t, NEW q \in 1 .. p, \A r \in q .. p : Level(K, r) >= j,
         Holds(fn, K, p, j, t), j > 1 => t.start <= q
  PROVE  Holds(fn, K, q, j, t)
<1> DEFINE n == Len(fn.body)
           e == t.end - 1
<1>1. n \in Nat /\ p \in 1 .. n + 1 /\ q \in 1 .. p /\ q \in 1 .. n + 1 /\ p \in q .. n + 1 /\ j \in Nat
  BY Levels
<1>2. Same(K[q], K[p], j)
  BY <1>1, Frozen
<1>3. /\ t.type = IF K[p].ctrl[j].kind = "else" THEN "if" ELSE K[p].ctrl[j].kind
      /\ t.params = K[p].ctrl[j].params /\ t.results = K[p].ctrl[j].results
      /\ t.height = K[p].ctrl[j].height
      /\ t.end \in Nat /\ ClosesAt(fn, K, p, j, e)
      /\ j > 1 => /\ t.start \in Nat /\ OpensAt(fn, K, p, j, t.start - 1)
                  /\ fn.body[t.start - 1].op = t.type
  BY DEF Holds
<1> HIDE DEF e, n
<1>4. ClosesAt(fn, K, q, j, e)
  <2>1. /\ e \in p .. n /\ fn.body[e].op = "end" /\ Level(K, e) = j
        /\ \A r \in p .. e : Level(K, r) >= j
    BY <1>3 DEF ClosesAt, n
  <2>2. e \in q .. n /\ \A r \in q .. e : r \in p .. e \/ r \in q .. p
    BY <1>1, <2>1
  <2>3. QED
    BY <2>1, <2>2 DEF ClosesAt, n
<1>5. ASSUME j > 1 PROVE OpensAt(fn, K, q, j, t.start - 1)
  <2> DEFINE x == t.start - 1
  <2>1. /\ x \in 1 .. p - 1 /\ fn.body[x].op \in Openers /\ Level(K, x) = j - 1
        /\ \A r \in x + 1 .. p : Level(K, r) >= j
    BY <1>3, <1>5 DEF OpensAt
  <2>2. x <= q - 1
    BY <1>1, <1>3, <1>5
  <2> HIDE DEF x
  <2>3. x \in 1 .. q - 1 /\ \A r \in x + 1 .. q : r \in x + 1 .. p
    BY <1>1, <2>1, <2>2
  <2>4. OpensAt(fn, K, q, j, x)
    BY <2>1, <2>3 DEF OpensAt
  <2>5. QED
    BY <2>4 DEF x
<1>6. /\ t.type = IF K[q].ctrl[j].kind = "else" THEN "if" ELSE K[q].ctrl[j].kind
      /\ t.params = K[q].ctrl[j].params /\ t.results = K[q].ctrl[j].results
      /\ t.height = K[q].ctrl[j].height
  BY <1>2, <1>3 DEF Same
<1>7. QED
  BY <1>3, <1>4, <1>5, <1>6 DEF Holds, e

(* The outermost block is that of the function.                            *)
LEMMA Outermost ==
  ASSUME NEW fn, NEW K, Typing(fn, K), NEW p \in 1 .. Len(fn.body), fn.results \in Seq(Types)
  PROVE  /\ K[p].ctrl[1].kind = "block" /\ K[p].ctrl[1].results = fn.results
         /\ K[p].ctrl[1].params = <<>> /\ K[p].ctrl[1].height = 0
<1>1. K[1] = Start(fn)
  BY DEF Typing
<1>2. /\ K[1].ctrl[1].kind = "block" /\ K[1].ctrl[1].results = fn.results
      /\ K[1].ctrl[1].params = <<>> /\ K[1].ctrl[1].height = 0
  BY <1>1, Started
<1>3. \A r \in 1 .. p : Level(K, r) >= 1
  BY Levels
<1>4. p \in 1 .. Len(fn.body) + 1 /\ 1 \in 1 .. Len(fn.body) + 1
  BY Levels
<1>5. Same(K[1], K[p], 1)
  BY <1>3, <1>4, Frozen
<1>6. QED
  BY <1>2, <1>5 DEF Same

(* To the next instruction, with the same blocks open.                     *)
LEMMA FallsThrough ==
  ASSUME NEW fn, NEW K, Typing(fn, K), NEW p \in 1 .. Len(fn.body), NEW c,
         Framed(fn, K, p, c), fn.body[p].op \notin Openers \cup {"end"}, Reachable(K[p+1])
  PROVE  Framed(fn, K, p + 1, c)
<1> DEFINE n == Len(fn.body)
<1>1. /\ n \in Nat /\ p \in 1 .. n + 1 /\ p + 1 \in 1 .. n + 1 /\ p + 1 \in p .. n + 1
      /\ Level(K, p + 1) = Level(K, p) /\ Level(K, p) \in Nat
      /\ \A r \in p .. p + 1 : r = p \/ r = p + 1
  BY Levels
<1>2. ASSUME NEW j \in 1 .. Level(K, p + 1) PROVE Holds(fn, K, p + 1, j, c[j])
  <2>1. j \in Nat \ {0} /\ j \in 1 .. Level(K, p) /\ \A r \in p .. p + 1 : Level(K, r) >= j
    BY <1>1
  <2>2. Holds(fn, K, p, j, c[j])
    BY <2>1 DEF Framed
  <2>3. QED
    BY <1>1, <2>1, <2>2, HeldForward
<1>3. QED
  BY <1>1, <1>2 DEF Framed

(* Into a block.                                                           *)
LEMMA EntersBlock ==
  ASSUME NEW fn, NEW K, Typing(fn, K), NEW p \in 1 .. Len(fn.body), NEW R, NEW c \in Seq(R),
         NEW t \in R, Framed(fn, K, p, c), fn.body[p].op \in Openers,
         t.type = fn.body[p].op, t.params = fn.body[p].in, t.results = fn.body[p].out,
         t.height = K[p+1].ctrl[Len(K[p+1].ctrl)].height, t.start = p + 1, t.end \in Nat,
         ClosesAt(fn, K, p + 1, Level(K, p + 1), t.end - 1)
  PROVE  Framed(fn, K, p + 1, Append(c, t))
<1> DEFINE n == Len(fn.body)
           L == Level(K, p)
           d == Append(c, t)
<1>1. /\ n \in Nat /\ p \in 1 .. n + 1 /\ p + 1 \in 1 .. n + 1 /\ p + 1 \in p .. n + 1
      /\ Level(K, p + 1) = L + 1 /\ L \in Nat /\ L >= 1
      /\ \A r \in p .. p + 1 : r = p \/ r = p + 1
  <2>1. n \in Nat /\ Level(K, p + 1) = L + 1 /\ L \in Nat /\ L >= 1
    BY Levels
  <2> HIDE DEF L
  <2>2. QED
    BY <2>1
<1>2. Len(c) = L /\ Reachable(K[p])
  BY DEF Framed
<1>3. Moves(K[p], fn.body[p], K[p+1])
  BY DEF Typing
<1>4. /\ K[p+1].ctrl[L+1].kind = fn.body[p].op /\ K[p+1].ctrl[L+1].params = fn.body[p].in
      /\ K[p+1].ctrl[L+1].results = fn.body[p].out /\ ~ K[p+1].ctrl[L+1].dead
      /\ \A j \in 1 .. L : K[p+1].ctrl[j] = K[p].ctrl[j]
      /\ Len(K[p+1].ctrl) = L + 1
  <2>1. LET v == K[p]  w == K[p+1]  i == fn.body[p]  M == Len(w.ctrl)
        IN  /\ w.ctrl[M].kind = i.op /\ w.ctrl[M].params = i.in /\ w.ctrl[M].results = i.out
            /\ ~ w.ctrl[M].dead
            /\ \A j \in 1 .. Len(v.ctrl) : w.ctrl[j] = v.ctrl[j]
    BY <1>3, Zenon DEF Moves
  <2>2. Len(K[p+1].ctrl) = L + 1 /\ Len(K[p].ctrl) = L
    BY <1>1 DEF Level
  <2>3. QED
    BY <2>1, <2>2
<1> HIDE DEF L
<1>5. Len(d) = L + 1 /\ d[L+1] = t /\ \A j \in 1 .. L : d[j] = c[j]
  BY <1>1, <1>2
<1> HIDE DEF d
<1>6. ASSUME NEW j \in 1 .. L PROVE Holds(fn, K, p + 1, j, d[j])
  <2>1. j \in Nat \ {0} /\ \A r \in p .. p + 1 : Level(K, r) >= j
    BY <1>1 DEF L
  <2>2. Holds(fn, K, p, j, c[j])
    BY DEF Framed, L
  <2>3. Holds(fn, K, p + 1, j, c[j])
    BY <1>1, <2>1, <2>2, HeldForward
  <2>4. QED
    BY <1>5, <2>3
<1>7. Holds(fn, K, p + 1, L + 1, d[L+1])
  <2>1. OpensAt(fn, K, p + 1, L + 1, t.start - 1)
    <3>1. t.start - 1 = p
      BY <1>1
    <3>2. p \in 1 .. p + 1 - 1 /\ L = L + 1 - 1 /\ \A r \in p + 1 .. p + 1 : r = p + 1
      BY <1>1
    <3>3. Level(K, p) = L + 1 - 1 /\ \A r \in p + 1 .. p + 1 : Level(K, r) >= L + 1
      BY <1>1, <3>2 DEF L
    <3>4. OpensAt(fn, K, p + 1, L + 1, p)
      <4> DEFINE j == L + 1
                 x == p + 1
      <4>1. /\ p \in 1 .. x - 1 /\ fn.body[p].op \in Openers /\ Level(K, p) = j - 1
            /\ \A r \in p + 1 .. x : Level(K, r) >= j
        <5>1. L \in Nat /\ p \in Nat
          BY <1>1
        <5>2. p \in 1 .. x - 1 /\ Level(K, p) = j - 1
          BY <3>2, <3>3, <5>1
        <5>3. \A r \in p + 1 .. x : Level(K, r) >= j
          BY <3>3
        <5>4. QED
          BY <5>2, <5>3
      <4> HIDE DEF j, x
      <4>2. OpensAt(fn, K, x, j, p)
        BY <4>1, Zenon DEF OpensAt
      <4>3. QED
        BY <4>2 DEF j, x
    <3>5. QED
      BY <3>1, <3>4
  <2>2. ClosesAt(fn, K, p + 1, L + 1, t.end - 1)
    BY <1>1
  <2>3. fn.body[p].op # "else" /\ t.start \in Nat /\ t.start - 1 = p
    BY <1>1 DEF Openers
  <2>4. t.height = K[p+1].ctrl[L+1].height
    BY <1>4
  <2>5. QED
    BY <1>4, <1>5, <2>1, <2>2, <2>3, <2>4 DEF Holds
<1>8. ASSUME NEW j \in 1 .. Level(K, p + 1) PROVE Holds(fn, K, p + 1, j, d[j])
  <2>1. j \in 1 .. L \/ j = L + 1
    BY <1>1
  <2>2. QED
    BY <1>6, <1>7, <2>1
<1>9. Reachable(K[p+1])
  <2>1. \A j \in 1 .. L : ~ K[p].ctrl[j].dead
    BY <1>2 DEF Reachable, L, Level
  <2>2. \A j \in 1 .. Len(K[p+1].ctrl) : j \in 1 .. L \/ j = L + 1
    BY <1>1, <1>4
  <2>3. QED
    BY <1>4, <2>1, <2>2 DEF Reachable
<1>10. QED
  BY <1>1, <1>5, <1>8, <1>9 DEF Framed, d

(* x has ts on the first h of s.                                           *)
OnBase(x, s, h, ts) == x = SubSeq(s, 1, h) \o ts

(* Out of block j, and what goes on after its end.                         *)
LEMMA BranchesOut ==
  ASSUME NEW fn, NEW K, Typing(fn, K), NEW p \in 1 .. Len(fn.body) + 1, NEW R, NEW c \in Seq(R),
         Framed(fn, K, p, c), NEW j \in 1 .. Level(K, p)
  PROVE  /\ Framed(fn, K, c[j].end, SubSeq(c, 1, j - 1))
         /\ OnBase(K[c[j].end].ops, K[p].ops, c[j].height, c[j].results)
<1> DEFINE n == Len(fn.body)
           L == Level(K, p)
           t == c[j]
           e == t.end - 1
           d == SubSeq(c, 1, j - 1)
<1>1. n \in Nat /\ p \in 1 .. n + 1 /\ L \in Nat /\ j \in Nat \ {0} /\ j <= L
  BY Levels
<1>2. Len(c) = L /\ Reachable(K[p]) /\ Holds(fn, K, p, j, t)
  BY DEF Framed
<1>3. /\ ClosesAt(fn, K, p, j, e) /\ t.end \in Nat /\ t.results = K[p].ctrl[j].results
      /\ t.height = K[p].ctrl[j].height
  BY <1>2 DEF Holds
<1> HIDE DEF e, n, t
<1>4. e \in 1 .. n /\ Level(K, e + 1) = j - 1
  BY <1>1, <1>3, ClosedOnce DEF n
<1>5. /\ e \in p .. n /\ fn.body[e].op = "end" /\ Level(K, e) = j
      /\ \A r \in p .. e : Level(K, r) >= j
  BY <1>3 DEF ClosesAt, n
<1>6. t.end = e + 1 /\ e + 1 \in 1 .. n + 1 /\ e + 1 \in p .. n + 1 /\ e \in p .. n + 1
  BY <1>1, <1>3, <1>4, <1>5 DEF e
<1>7. Len(d) = j - 1 /\ \A i \in 1 .. j - 1 : d[i] = c[i]
  BY <1>1, <1>2
<1> HIDE DEF d, L
<1>8. ASSUME NEW i \in 1 .. j - 1 PROVE Holds(fn, K, e + 1, i, d[i])
  <2>1. i \in Nat \ {0} /\ i \in 1 .. L /\ i < j
    BY <1>1
  <2>2. Holds(fn, K, p, i, c[i])
    BY <2>1 DEF Framed, L
  <2>3. \A r \in p .. e + 1 : r \in p .. e \/ r = e + 1
    BY <1>1, <1>5
  <2>4. \A r \in p .. e + 1 : Level(K, r) >= i
    <3>1. \A r \in p .. e : Level(K, r) >= i
      <4>1. ASSUME NEW r \in p .. e PROVE Level(K, r) >= i
        <5>1. r \in 1 .. n + 1
          BY <1>1, <1>5
        <5>2. Level(K, r) \in Nat
          BY <5>1, Levels DEF n
        <5>3. QED
          BY <1>1, <1>5, <2>1, <5>2
      <4>2. QED
        BY <4>1
    <3>2. Level(K, e + 1) >= i
      BY <1>1, <1>4, <2>1
    <3>3. QED
      BY <2>3, <3>1, <3>2
  <2>5. Holds(fn, K, e + 1, i, c[i])
    BY <1>6, <2>1, <2>2, <2>4, HeldForward DEF n
  <2>6. QED
    BY <1>7, <2>5
<1>9. Same(K[p], K[e], j)
  BY <1>1, <1>5, <1>6, Frozen DEF n
<1>10. Moves(K[e], fn.body[e], K[e+1])
  BY <1>4 DEF Typing, n
<1>11. /\ \A i \in 1 .. j - 1 : K[e+1].ctrl[i] = K[e].ctrl[i]
       /\ K[e+1].ops = SubSeq(K[e].ops, 1, Inner(K[e]).height) \o K[e].ctrl[j].results
  <2>1. LET v == K[e]  w == K[e+1]
        IN  /\ \A i \in 1 .. Len(w.ctrl) : w.ctrl[i] = v.ctrl[i]
            /\ w.ops = SubSeq(v.ops, 1, Inner(v).height) \o v.ctrl[Len(v.ctrl)].results
    BY <1>5, <1>10, Zenon DEF Moves
  <2>2. Len(K[e+1].ctrl) = j - 1 /\ Len(K[e].ctrl) = j
    BY <1>4, <1>5 DEF Level
  <2>3. QED
    BY <2>1, <2>2
<1>12. Reachable(K[e+1])
  <2>1. ASSUME NEW i \in 1 .. j - 1 PROVE ~ K[e+1].ctrl[i].dead
    <3>1. K[e+1].ctrl[i] = K[p].ctrl[i]
      BY <1>9, <1>11 DEF Same
    <3>2. i \in 1 .. Len(K[p].ctrl)
      BY <1>1 DEF L, Level
    <3>3. QED
      BY <1>2, <3>1, <3>2 DEF Reachable
  <2>2. Len(K[e+1].ctrl) = j - 1
    BY <1>4 DEF Level
  <2>3. QED
    BY <2>1, <2>2 DEF Reachable
<1>13. K[e+1].ops = SubSeq(K[p].ops, 1, t.height) \o t.results
  <2>1. Inner(K[e]) = K[e].ctrl[j]
    BY <1>5 DEF Inner, Level
  <2>2. QED
    BY <1>3, <1>9, <1>11, <2>1 DEF Same
<1>14. Framed(fn, K, e + 1, d)
  BY <1>4, <1>6, <1>7, <1>8, <1>12 DEF Framed, n
<1>15. OnBase(K[e+1].ops, K[p].ops, t.height, t.results)
  BY <1>13, Zenon DEF OnBase
<1>16. QED
  BY <1>6, <1>14, <1>15 DEF d, t

(* The end of a block is that of its record.                               *)
LEMMA EndsHere ==
  ASSUME NEW fn, NEW K, Typing(fn, K), NEW p \in 1 .. Len(fn.body), NEW c,
         Framed(fn, K, p, c), fn.body[p].op = "end"
  PROVE  /\ Len(c) \in 1 .. Level(K, p) /\ c[Len(c)].end = p + 1
<1> DEFINE L == Level(K, p)
           e == c[L].end - 1
<1>1. /\ L \in Nat /\ L >= 1 /\ p \in 1 .. Len(fn.body) + 1 /\ Len(fn.body) \in Nat
  BY Levels
<1>2. Len(c) = L /\ L \in 1 .. L
  BY <1>1 DEF Framed
<1>3. Holds(fn, K, p, L, c[L])
  BY <1>2 DEF Framed
<1>4. ClosesAt(fn, K, p, L, e) /\ c[L].end \in Nat
  BY <1>3 DEF Holds
<1>5. p \in p .. Len(fn.body) /\ \A r \in p .. p : r = p
  BY <1>1
<1>6. ClosesAt(fn, K, p, L, p)
  BY <1>1, <1>5 DEF ClosesAt
<1> HIDE DEF L, e
<1>7. e = p
  <2>1. e \in p .. Len(fn.body)
    BY <1>4 DEF ClosesAt
  <2>2. QED
    BY <1>1, <1>4, <1>6, <2>1, ClosedOnce
<1>8. c[L].end = p + 1
  BY <1>1, <1>4, <1>7 DEF e
<1>9. QED
  BY <1>2, <1>8 DEF L

(* Back to the start of a loop, which stays open.                          *)
LEMMA BranchesBack ==
  ASSUME NEW fn, NEW K, Typing(fn, K), NEW p \in 1 .. Len(fn.body) + 1, NEW R, NEW c \in Seq(R),
         Framed(fn, K, p, c), NEW j \in 1 .. Level(K, p), c[j].type = "loop",
         fn.results \in Seq(Types)
  PROVE  /\ Framed(fn, K, c[j].start, SubSeq(c, 1, j))
         /\ OnBase(K[c[j].start].ops, K[p].ops, c[j].height, c[j].params)
<1> DEFINE n == Len(fn.body)
           L == Level(K, p)
           t == c[j]
           s == t.start
           d == SubSeq(c, 1, j)
<1>1. n \in Nat /\ p \in 1 .. n + 1 /\ L \in Nat /\ j \in Nat \ {0} /\ j <= L
  BY Levels
<1>2. Len(c) = L /\ Reachable(K[p]) /\ Holds(fn, K, p, j, t)
  BY DEF Framed
<1>3. j > 1
  <2>1. SUFFICES ASSUME j = 1 PROVE FALSE
    BY <1>1
  <2>2. K[p].ctrl[1].kind = "loop"
    BY <1>2, <2>1 DEF Holds
  <2>3. p # n + 1
    BY <1>1, Levels
  <2>4. K[p].ctrl[1].kind = "block"
    <3>1. p \in 1 .. n
      BY <1>1, <2>3
    <3>2. QED
      BY <3>1, Outermost
  <2>5. QED
    BY <2>2, <2>4
<1>4. /\ s \in Nat /\ OpensAt(fn, K, p, j, s - 1) /\ fn.body[s - 1].op = "loop"
      /\ t.params = K[p].ctrl[j].params /\ t.height = K[p].ctrl[j].height
  BY <1>2, <1>3 DEF Holds
<1> HIDE DEF n, t
<1>5. /\ s - 1 \in 1 .. n /\ Level(K, s) = j
  <2>1. s - 1 + 1 = s
    BY <1>4
  <2>2. QED
    BY <1>1, <1>4, <2>1, Inside DEF n
<1>6. /\ s - 1 \in 1 .. p - 1 /\ \A r \in s .. p : Level(K, r) >= j
  <2>1. s - 1 + 1 = s
    BY <1>4
  <2>2. QED
    BY <1>4, <2>1 DEF OpensAt
<1>7. s \in 1 .. n + 1 /\ s \in 1 .. p /\ p \in s .. n + 1
  BY <1>1, <1>4, <1>5, <1>6
<1>8. Len(d) = j /\ \A i \in 1 .. j : d[i] = c[i]
  BY <1>1, <1>2
<1> HIDE DEF d, L
<1>9. ASSUME NEW i \in 1 .. j PROVE Holds(fn, K, s, i, d[i])
  <2>1. i \in Nat \ {0} /\ i \in 1 .. L /\ i <= j
    BY <1>1
  <2>2. Holds(fn, K, p, i, c[i])
    BY <2>1 DEF Framed, L
  <2>3. \A r \in s .. p : Level(K, r) >= i
    <3>1. ASSUME NEW r \in s .. p PROVE Level(K, r) >= i
      <4>1. r \in 1 .. n + 1
        BY <1>1, <1>7
      <4>2. Level(K, r) \in Nat
        BY <4>1, Levels DEF n
      <4>3. QED
        BY <1>1, <1>6, <2>1, <4>2
    <3>2. QED
      BY <3>1
  <2>4. i > 1 => c[i].start <= s
    <3>1. SUFFICES ASSUME i > 1 PROVE c[i].start <= s
      OBVIOUS
    <3>2. c[i].start \in Nat /\ OpensAt(fn, K, p, i, c[i].start - 1)
      BY <2>2, <3>1 DEF Holds
    <3> DEFINE x == c[i].start - 1
               y == s - 1
    <3>3. OpensAt(fn, K, p, i, x) /\ OpensAt(fn, K, p, j, y) /\ i \in Nat /\ j \in Nat
      BY <1>4, <2>1, <3>2
    <3> HIDE DEF x, y
    <3>7. (i < j => x < y) /\ (i = j => x = y)
      <4>1. ASSUME i < j PROVE x < y
        BY <3>3, <4>1, OpenedInOrder
      <4>2. ASSUME i = j PROVE x = y
        <5>1. OpensAt(fn, K, p, j, x)
          BY <3>3, <4>2
        <5>2. QED
          BY <3>3, <5>1, OpenedOnce
      <4>3. QED
        BY <4>1, <4>2
    <3>4. i < j => c[i].start - 1 < s - 1
      BY <3>7 DEF x, y
    <3>5. i = j => c[i].start - 1 = s - 1
      BY <3>7 DEF x, y
    <3>6. QED
      BY <1>1, <1>4, <2>1, <3>2, <3>4, <3>5
  <2>5. Holds(fn, K, s, i, c[i])
    BY <1>1, <1>7, <2>1, <2>2, <2>3, <2>4, HeldBack DEF n
  <2>6. QED
    BY <1>8, <2>5
<1>10. Same(K[s], K[p], j)
  BY <1>1, <1>6, <1>7, Frozen DEF n
<1>11. Moves(K[s-1], fn.body[s-1], K[s])
  <2>1. s - 1 + 1 = s
    BY <1>4
  <2>2. QED
    BY <1>5, <2>1 DEF Typing, n
<1>12. /\ ~ K[s].ctrl[j].dead /\ K[s].ctrl[j].params = fn.body[s-1].in
       /\ K[s].ops = SubSeq(K[s].ops, 1, K[s].ctrl[j].height) \o fn.body[s-1].in
  <2>1. LET w == K[s]  i == fn.body[s-1]  M == Len(w.ctrl)
        IN  /\ w.ctrl[M].params = i.in /\ ~ w.ctrl[M].dead
            /\ w.ops = SubSeq(w.ops, 1, w.ctrl[M].height) \o i.in
    <3>1. fn.body[s-1].op \in Openers
      BY <1>4 DEF Openers
    <3>2. QED
      BY <1>11, <3>1, Zenon DEF Moves
  <2>2. Len(K[s].ctrl) = j
    BY <1>5 DEF Level
  <2>3. QED
    BY <2>1, <2>2
<1>13. Reachable(K[s])
  <2>1. ASSUME NEW i \in 1 .. j - 1 PROVE ~ K[s].ctrl[i].dead
    <3>1. K[s].ctrl[i] = K[p].ctrl[i]
      BY <1>10 DEF Same
    <3>2. i \in 1 .. Len(K[p].ctrl)
      BY <1>1 DEF L, Level
    <3>3. QED
      BY <1>2, <3>1, <3>2 DEF Reachable
  <2>2. Len(K[s].ctrl) = j
    BY <1>5 DEF Level
  <2>3. \A i \in 1 .. j : i = j \/ i \in 1 .. j - 1
    BY <1>1
  <2>4. QED
    BY <1>12, <2>1, <2>2, <2>3 DEF Reachable
<1>14. K[s].ops = SubSeq(K[p].ops, 1, t.height) \o t.params
  BY <1>4, <1>10, <1>12 DEF Same
<1>15. Framed(fn, K, s, d)
  BY <1>5, <1>7, <1>8, <1>9, <1>13 DEF Framed, n
<1>16. OnBase(K[s].ops, K[p].ops, t.height, t.params)
  BY <1>14, Zenon DEF OnBase
<1>17. QED
  BY <1>15, <1>16 DEF d, t

(* Into the else part, from the start of the then part.                    *)
LEMMA ElsePart ==
  ASSUME NEW fn, NEW K, Typing(fn, K), NEW p \in 1 .. Len(fn.body), NEW c,
         fn.body[p].op = "if", Framed(fn, K, p + 1, c),
         NEW x \in p + 1 .. Len(fn.body), fn.body[x].op = "else",
         Level(K, x) = Level(K, p + 1), \A r \in p + 1 .. x : Level(K, r) >= Level(K, p + 1)
  PROVE  Framed(fn, K, x + 1, c) /\ K[x+1].ops = K[p+1].ops
<1> DEFINE n == Len(fn.body)
           j == Level(K, p + 1)
           s == p + 1
<1>1. n \in Nat /\ p \in 1 .. n /\ Level(K, p) \in Nat /\ Level(K, p) >= 1
      /\ j = Level(K, p) + 1
  <2>1. fn.body[p].op \in Openers /\ p \in 1 .. n + 1
    BY Levels DEF Openers
  <2>2. QED
    BY <2>1, Levels
<1>2. s \in 1 .. n + 1 /\ x \in 1 .. n /\ x \in s .. n /\ x + 1 \in 1 .. n + 1 /\ x + 1 \in s .. n + 1
      /\ x \in s .. n + 1
  BY <1>1
<1>3. Level(K, x + 1) = j
  <2>1. "else" \notin Openers
    BY DEF Openers
  <2>2. QED
    BY <1>2, <2>1, Levels
<1> HIDE DEF n, j
<1>4. j \in Nat /\ j \in Nat \ {0} /\ j > 1
  BY <1>1
<1>5. \A r \in s .. x + 1 : Level(K, r) >= j
  <2>1. \A r \in s .. x + 1 : r \in s .. x \/ r = x + 1
    BY <1>1, <1>2
  <2>2. QED
    BY <1>3, <1>4, <2>1 DEF j
<1>6. Same(K[s], K[x], j) /\ Same(K[s], K[x+1], j)
  <2>1. Same(K[s], K[x], j)
    BY <1>2, <1>4, Frozen DEF n, j
  <2>2. Same(K[s], K[x+1], j)
    BY <1>2, <1>4, <1>5, Frozen DEF n
  <2>3. QED
    BY <2>1, <2>2
<1>7. Moves(K[x], fn.body[x], K[x+1]) /\ Moves(K[p], fn.body[p], K[s])
  BY <1>1, <1>2 DEF Typing, n
<1>8. /\ ~ K[x+1].ctrl[j].dead
      /\ K[x+1].ops = SubSeq(K[x].ops, 1, K[x].ctrl[j].height) \o K[x].ctrl[j].params
  <2>1. LET v == K[x]  w == K[x+1]  L == Len(v.ctrl)
        IN  /\ ~ w.ctrl[L].dead
            /\ w.ops = SubSeq(v.ops, 1, Inner(v).height) \o v.ctrl[L].params
    BY <1>7, Zenon DEF Moves
  <2>2. Len(K[x].ctrl) = j
    BY DEF Level, j
  <2>3. QED
    BY <2>1, <2>2 DEF Inner
<1>9. /\ K[s].ctrl[j].params = fn.body[p].in
      /\ K[s].ops = SubSeq(K[s].ops, 1, K[s].ctrl[j].height) \o fn.body[p].in
  <2>1. LET w == K[s]  i == fn.body[p]  M == Len(w.ctrl)
        IN  /\ w.ctrl[M].params = i.in
            /\ w.ops = SubSeq(w.ops, 1, w.ctrl[M].height) \o i.in
    <3>1. fn.body[p].op \in Openers
      BY DEF Openers
    <3>2. QED
      BY <1>7, <3>1, Zenon DEF Moves
  <2>2. Len(K[s].ctrl) = j
    BY DEF Level, j
  <2>3. QED
    BY <2>1, <2>2
<1>10. K[x+1].ops = K[s].ops
  BY <1>6, <1>8, <1>9 DEF Same
<1>11. Len(c) = j /\ Reachable(K[s]) /\ \A i \in 1 .. j : Holds(fn, K, s, i, c[i])
  BY DEF Framed, j
<1>12. ASSUME NEW i \in 1 .. j PROVE Holds(fn, K, x + 1, i, c[i])
  <2>1. i \in Nat \ {0} /\ i <= j
    BY <1>4
  <2>2. \A r \in s .. x + 1 : Level(K, r) >= i
    <3>1. ASSUME NEW r \in s .. x + 1 PROVE Level(K, r) >= i
      <4>1. r \in 1 .. n + 1
        BY <1>1, <1>2
      <4>2. Level(K, r) \in Nat
        BY <4>1, Levels DEF n
      <4>3. QED
        BY <1>4, <1>5, <2>1, <4>2
    <3>2. QED
      BY <3>1
  <2>3. QED
    BY <1>2, <1>11, <2>1, <2>2, HeldForward DEF n
<1>13. Reachable(K[x+1])
  <2>1. ASSUME NEW i \in 1 .. j - 1 PROVE ~ K[x+1].ctrl[i].dead
    <3>1. K[x+1].ctrl[i] = K[s].ctrl[i]
      BY <1>6 DEF Same
    <3>2. i \in 1 .. Len(K[s].ctrl)
      BY <1>4 DEF j, Level
    <3>3. QED
      BY <1>11, <3>1, <3>2 DEF Reachable
  <2>2. Len(K[x+1].ctrl) = j
    BY <1>3 DEF Level
  <2>3. \A i \in 1 .. j : i = j \/ i \in 1 .. j - 1
    BY <1>4
  <2>4. QED
    BY <1>8, <2>1, <2>2, <2>3 DEF Reachable
<1>14. QED
  BY <1>2, <1>3, <1>10, <1>11, <1>12, <1>13 DEF Framed, n

-----------------------------------------------------------------------------
(* The nesting of the text.                                                *)

(* Counting the members of a set up to p.                                  *)
LEMMA CountUp ==
  ASSUME NEW T, NEW p \in Nat \ {0}
  PROVE  /\ IsFiniteSet((1 .. p - 1) \cap T) /\ Cardinality((1 .. p - 1) \cap T) \in Nat
         /\ Cardinality((1 .. p) \cap T)
              = Cardinality((1 .. p - 1) \cap T) + (IF p \in T THEN 1 ELSE 0)
<1> DEFINE A == (1 .. p - 1) \cap T
<1>1. IsFiniteSet(1 .. p - 1)
  BY FS_Interval
<1>2. IsFiniteSet(A)
  BY <1>1, FS_Subset
<1>3. Cardinality(A) \in Nat
  BY <1>2, FS_CardinalityType
<1>4. CASE p \in T
  <2>1. (1 .. p) \cap T = A \cup {p} /\ p \notin A
    BY <1>4
  <2> HIDE DEF A
  <2>2. Cardinality(A \cup {p}) = Cardinality(A) + 1
    BY <1>2, <2>1, FS_AddElement
  <2>3. QED
    BY <1>2, <1>3, <1>4, <2>1, <2>2 DEF A
<1>5. CASE p \notin T
  <2>1. (1 .. p) \cap T = A
    BY <1>5
  <2>2. QED
    BY <1>2, <1>3, <1>5, <2>1
<1>6. QED
  BY <1>4, <1>5

(* The depth is the difference of two counts.                              *)
LEMMA DepthOver ==
  ASSUME NEW b, NEW x \in Nat
  PROVE  Depth(b, x + 1) = Cardinality((1 .. x) \cap {q \in Nat : b[q].op \in Openers})
                           - Cardinality((1 .. x) \cap {q \in Nat : b[q].op = "end"})
<1> DEFINE A == {q \in 1 .. (x + 1) - 1 : b[q].op \in Openers}
           B == {q \in 1 .. (x + 1) - 1 : b[q].op = "end"}
           C == (1 .. x) \cap {q \in Nat : b[q].op \in Openers}
           E == (1 .. x) \cap {q \in Nat : b[q].op = "end"}
<1>1. A = C /\ B = E
  OBVIOUS
<1>2. Depth(b, x + 1) = Cardinality(A) - Cardinality(B)
  BY DEF Depth
<1> HIDE DEF A, B, C, E
<1>3. Depth(b, x + 1) = Cardinality(C) - Cardinality(E)
  BY <1>1, <1>2
<1>4. QED
  BY <1>3 DEF C, E

(* The depth counted in the text is what validation knows.                 *)
LEMMA Depths ==
  ASSUME NEW fn, NEW K, Typing(fn, K), NEW p \in 1 .. Len(fn.body) + 1
  PROVE  Depth(fn.body, p) = Level(K, p) - 1
<1> DEFINE n == Len(fn.body)
           b == fn.body
           Begin == {q \in Nat : b[q].op \in Openers}
           Over == {q \in Nat : b[q].op = "end"}
           D(q) == Cardinality((1 .. q) \cap Begin) - Cardinality((1 .. q) \cap Over)
           S == {x \in Nat : x + 1 \in 1 .. n + 1 => D(x) = Level(K, x + 1) - 1}
<1>1. /\ n \in Nat /\ \A r \in 1 .. n + 1 : Level(K, r) \in Nat
      /\ Level(K, 1) = 1
      /\ \A r \in 1 .. n :
           Level(K, r+1) = IF b[r].op \in Openers THEN Level(K, r) + 1
                           ELSE IF b[r].op = "end" THEN Level(K, r) - 1
                           ELSE Level(K, r)
  BY Levels
<1>2. ASSUME NEW x \in Nat PROVE Depth(b, x + 1) = D(x)
  BY DepthOver
<1>3. \A q \in Nat : (q \in Begin <=> b[q].op \in Openers) /\ (q \in Over <=> b[q].op = "end")
  OBVIOUS
<1>4. "end" \notin Openers
  BY DEF Openers
<1> HIDE DEF n, b, Begin, Over
<1>5. 0 \in S
  <2>1. (1 .. 0) \cap Begin = {} /\ (1 .. 0) \cap Over = {}
    OBVIOUS
  <2>2. Cardinality({}) = 0
    BY FS_EmptySet
  <2>3. D(0) = 0
    BY <2>1, <2>2
  <2> HIDE DEF D
  <2>4. QED
    BY <1>1, <2>3
<1>6. ASSUME NEW x \in Nat, x \in S PROVE x + 1 \in S
  <2>1. SUFFICES ASSUME x + 1 + 1 \in 1 .. n + 1 PROVE D(x + 1) = Level(K, x + 1 + 1) - 1
    OBVIOUS
  <2> DEFINE p1 == x + 1
  <2>2. p1 \in Nat \ {0} /\ p1 - 1 = x /\ p1 \in 1 .. n /\ p1 \in 1 .. n + 1
    BY <1>1, <2>1
  <2>3. D(x) = Level(K, p1) - 1
    BY <1>6, <2>2
  <2> HIDE DEF p1
  <2>4. /\ Cardinality((1 .. x) \cap Begin) \in Nat /\ Cardinality((1 .. x) \cap Over) \in Nat
        /\ Cardinality((1 .. p1) \cap Begin)
             = Cardinality((1 .. x) \cap Begin) + (IF p1 \in Begin THEN 1 ELSE 0)
        /\ Cardinality((1 .. p1) \cap Over)
             = Cardinality((1 .. x) \cap Over) + (IF p1 \in Over THEN 1 ELSE 0)
    BY <2>2, CountUp
  <2>5. D(p1) = D(x) + (IF p1 \in Begin THEN 1 ELSE 0) - (IF p1 \in Over THEN 1 ELSE 0)
        /\ D(x) \in Int
    BY <2>4
  <2> HIDE DEF D
  <2>6. (p1 \in Begin <=> b[p1].op \in Openers) /\ (p1 \in Over <=> b[p1].op = "end")
    BY <1>3, <2>2
  <2>7. Level(K, p1+1) = IF b[p1].op \in Openers THEN Level(K, p1) + 1
                         ELSE IF b[p1].op = "end" THEN Level(K, p1) - 1
                         ELSE Level(K, p1)
    BY <1>1, <2>2
  <2>8. Level(K, p1) \in Nat
    BY <1>1, <2>2
  <2>9. CASE b[p1].op \in Openers
    BY <1>4, <2>3, <2>5, <2>6, <2>7, <2>8, <2>9 DEF p1
  <2>10. CASE b[p1].op = "end"
    BY <1>4, <2>3, <2>5, <2>6, <2>7, <2>8, <2>10 DEF p1
  <2>11. CASE b[p1].op \notin Openers /\ b[p1].op # "end"
    BY <2>3, <2>5, <2>6, <2>7, <2>8, <2>11 DEF p1
  <2>12. QED
    BY <2>9, <2>10, <2>11
<1>7. Nat \subseteq S
  <2> HIDE DEF S
  <2>1. QED
    BY <1>5, <1>6, SetInduction
<1>8. p - 1 \in Nat /\ p - 1 + 1 = p /\ p \in 1 .. n + 1
  BY <1>1 DEF n
<1>9. p - 1 \in S
  BY <1>7, <1>8
<1>10. D(p - 1) = Level(K, p) - 1
  BY <1>8, <1>9
<1> HIDE DEF D, S
<1>11. Depth(b, p - 1 + 1) = D(p - 1)
  BY <1>2, <1>8
<1>12. QED
  BY <1>8, <1>10, <1>11 DEF b

(* The end found in the text is where the block is left.                   *)
LEMMA EndFound ==
  ASSUME NEW fn, NEW K, Typing(fn, K), NEW q \in 0 .. Len(fn.body),
         q = 0 \/ fn.body[q].op \in Openers, NEW e,
         ClosesAt(fn, K, q + 1, Level(K, q + 1), e)
  PROVE  EndOf(fn.body, q) = e
<1> DEFINE n == Len(fn.body)
           b == fn.body
           j == Level(K, q + 1)
           E == Parts(b, q, "end")
<1>1. /\ n \in Nat /\ q + 1 \in 1 .. n + 1
      /\ \A r \in 1 .. n + 1 : Level(K, r) \in Nat /\ Depth(b, r) = Level(K, r) - 1
  BY Levels, Depths
<1>2. j = IF q = 0 THEN 1 ELSE Level(K, q) + 1
  <2>1. CASE q = 0
    BY <2>1, Levels
  <2>2. CASE q # 0
    <3>1. q \in 1 .. n
      BY <1>1, <2>2
    <3>2. QED
      BY <2>2, <3>1, Levels
  <2>3. QED
    BY <2>1, <2>2
<1> HIDE DEF n, b, j
<1>3. /\ e \in q + 1 .. n /\ b[e].op = "end" /\ Level(K, e) = j
      /\ \A r \in q + 1 .. e : Level(K, r) >= j
  BY DEF ClosesAt, n, b, j
<1>4. e \in 1 .. n /\ Level(K, e + 1) = j - 1 /\ j >= 1
  BY <1>1, ClosedOnce DEF n, j
<1>5. \A x : x \in E <=> x \in q + 1 .. n /\ b[x].op = "end" /\ Level(K, x) = j
  <2>1. \A x : x \in E <=> /\ x \in q + 1 .. n /\ b[x].op = "end"
                           /\ Depth(b, x) = IF q = 0 THEN 0 ELSE Depth(b, q) + 1
    BY DEF Parts, n, b
  <2>2. \A x \in q + 1 .. n : x \in 1 .. n + 1
    BY <1>1
  <2>3. (IF q = 0 THEN 0 ELSE Depth(b, q) + 1) = j - 1
    <3>1. CASE q = 0
      BY <1>2, <3>1
    <3>2. CASE q # 0
      <4>1. q \in 1 .. n + 1
        BY <1>1, <3>2 DEF n
      <4>2. Depth(b, q) = Level(K, q) - 1 /\ Level(K, q) \in Nat
        BY <1>1, <4>1
      <4>3. QED
        BY <1>2, <3>2, <4>2
    <3>3. QED
      BY <3>1, <3>2
  <2>4. \A x \in q + 1 .. n : Depth(b, x) = Level(K, x) - 1 /\ Level(K, x) \in Nat
    BY <1>1, <2>2
  <2>5. j \in Nat
    BY <1>1 DEF j
  <2>6. \A x \in q + 1 .. n : Depth(b, x) = j - 1 <=> Level(K, x) = j
    BY <2>4, <2>5
  <2>7. QED
    BY <2>1, <2>3, <2>6
<1> HIDE DEF E
<1>6. e \in E
  BY <1>3, <1>5
<1>7. ASSUME NEW d \in E PROVE e <= d
  <2>1. d \in q + 1 .. n /\ b[d].op = "end" /\ Level(K, d) = j
    BY <1>5
  <2>2. SUFFICES ASSUME d < e PROVE FALSE
    BY <1>1, <1>3, <2>1
  <2>3. d \in 1 .. n /\ d + 1 \in q + 1 .. e
    BY <1>1, <1>3, <2>1, <2>2
  <2>4. Level(K, d + 1) = j - 1
    <3>1. "end" \notin Openers
      BY DEF Openers
    <3>2. QED
      BY <2>1, <2>3, <3>1, Levels DEF n, b
  <2>5. j \in Nat
    BY <1>1 DEF j
  <2>6. QED
    BY <1>3, <2>3, <2>4, <2>5
<1>8. ASSUME NEW d \in E, \A x \in E : d <= x PROVE d = e
  <2>1. d <= e /\ e <= d
    BY <1>6, <1>7, <1>8
  <2>2. d \in Int /\ e \in Int
    BY <1>1, <1>3, <1>5
  <2>3. QED
    BY <2>1, <2>2
<1>9. EndOf(b, q) = CHOOSE x \in E : \A d \in E : x <= d
  BY DEF EndOf, E
<1>10. QED
  BY <1>6, <1>7, <1>8, <1>9 DEF b

(* The blocks around p are those it is inside of, and the function.        *)
LEMMA AroundFound ==
  ASSUME NEW fn, NEW K, Typing(fn, K), NEW p \in 1 .. Len(fn.body)
  PROVE  Around(fn.body, p)
           = {0} \cup {q \in 1 .. p - 1 : OpensAt(fn, K, p, Level(K, q) + 1, q)}
<1> DEFINE n == Len(fn.body)
           b == fn.body
<1>1. /\ n \in Nat /\ p \in 1 .. n
      /\ \A r \in 1 .. n + 1 : Level(K, r) \in Nat
  BY Levels
<1>2. ASSUME NEW q \in 1 .. p - 1, b[q].op \in Openers
      PROVE  EndOf(b, q) >= p <=> OpensAt(fn, K, p, Level(K, q) + 1, q)
  <2> DEFINE j == Level(K, q + 1)
  <2>1. /\ q \in 1 .. n /\ q + 1 \in 1 .. n /\ q \in 0 .. n /\ q \in Nat /\ p \in Nat
        /\ q + 1 \in 1 .. n + 1 /\ q \in 1 .. n + 1
    BY <1>1
  <2>2. j = Level(K, q) + 1 /\ j \in Nat /\ Level(K, q) \in Nat
    BY <1>1, <1>2, <2>1, Levels
  <2>3. j \in 1 .. j
    BY <2>2
  <2>4. PICK e \in q + 1 .. n : ClosesAt(fn, K, q + 1, j, e)
    BY <2>1, <2>3, Closed
  <2>5. EndOf(b, q) = e
    BY <1>2, <2>1, <2>4, EndFound
  <2>6. /\ e \in q + 1 .. n /\ \A r \in q + 1 .. e : Level(K, r) >= j
    BY <2>4 DEF ClosesAt
  <2>7. Level(K, e + 1) = j - 1
    BY <2>1, <2>2, <2>4, ClosedOnce
  <2> HIDE DEF j, n, b
  <2>8. ASSUME e >= p PROVE OpensAt(fn, K, p, Level(K, q) + 1, q)
    <3>1. ASSUME NEW r \in q + 1 .. p PROVE Level(K, r) >= j
      <4>1. r \in q + 1 .. e
        BY <2>1, <2>6, <2>8
      <4>2. QED
        BY <2>6, <4>1
    <3>2. Level(K, q) = j - 1
      BY <2>2
    <3>3. OpensAt(fn, K, p, j, q)
      BY <1>2, <3>1, <3>2 DEF OpensAt, b
    <3>4. QED
      BY <2>2, <3>3
  <2>9. ASSUME OpensAt(fn, K, p, Level(K, q) + 1, q) PROVE e >= p
    <3>1. \A r \in q + 1 .. p : Level(K, r) >= j
      BY <2>2, <2>9 DEF OpensAt
    <3>2. SUFFICES ASSUME e < p PROVE FALSE
      BY <2>1, <2>6, <1>1
    <3>3. e + 1 \in q + 1 .. p
      BY <2>1, <2>6, <3>2, <1>1
    <3>4. QED
      BY <2>2, <2>7, <3>1, <3>3
  <2>10. QED
    BY <2>5, <2>8, <2>9
<1>3. \A q \in 1 .. p - 1 : OpensAt(fn, K, p, Level(K, q) + 1, q) => b[q].op \in Openers
  BY DEF OpensAt
<1>4. Around(b, p) = {0} \cup {q \in 1 .. p - 1 : b[q].op \in Openers /\ EndOf(b, q) >= p}
  BY DEF Around
<1>5. {q \in 1 .. p - 1 : b[q].op \in Openers /\ EndOf(b, q) >= p}
        = {q \in 1 .. p - 1 : OpensAt(fn, K, p, Level(K, q) + 1, q)}
  BY <1>2, <1>3
<1>6. QED
  BY <1>4, <1>5

(* Where the block at level i around p was opened.                         *)
Opener(fn, K, p, i) == IF i = 1 THEN 0 ELSE CHOOSE q \in 1 .. p - 1 : OpensAt(fn, K, p, i, q)

(* Every block but that of the function has an instruction that opened it. *)
LEMMA OpenerFound ==
  ASSUME NEW fn, NEW K, Typing(fn, K), NEW p \in 1 .. Len(fn.body), NEW i \in 1 .. Level(K, p)
  PROVE  /\ i = 1 => Opener(fn, K, p, i) = 0
         /\ i # 1 => /\ Opener(fn, K, p, i) \in 1 .. p - 1
                     /\ OpensAt(fn, K, p, i, Opener(fn, K, p, i))
<1>1. CASE i = 1
  BY <1>1 DEF Opener
<1>2. CASE i # 1
  <2>1. p \in 1 .. Len(fn.body) + 1 /\ i \in 2 .. Level(K, p)
    BY <1>2, Levels
  <2>2. \E q \in 1 .. p - 1 : OpensAt(fn, K, p, i, q)
    BY <2>1, OpenedBefore
  <2>3. QED
    BY <1>2, <2>2, Zenon DEF Opener
<1>3. QED
  BY <1>1, <1>2

(* There is one block at each level, each opened before those inside it.   *)
Ordered(fn, K, p) ==
  /\ \A i, k \in 1 .. Level(K, p) : i < k <=> Opener(fn, K, p, i) < Opener(fn, K, p, k)
  /\ Around(fn.body, p) = {Opener(fn, K, p, i) : i \in 1 .. Level(K, p)}

(* The blocks around an instruction are ordered so, in every typed body.    *)
LEMMA AroundInOrder ==
  ASSUME NEW fn, NEW K, Typing(fn, K), NEW p \in 1 .. Len(fn.body)
  PROVE  Ordered(fn, K, p)
<1> DEFINE n == Len(fn.body)
           L == Level(K, p)
           Q(i) == Opener(fn, K, p, i)
<1>1. /\ n \in Nat /\ p \in 1 .. n /\ p \in 1 .. n + 1 /\ L \in Nat /\ L >= 1
      /\ \A r \in 1 .. n + 1 : Level(K, r) \in Nat
  BY Levels
<1>2. \A i \in 1 .. L : /\ i = 1 => Q(i) = 0
                        /\ i # 1 => Q(i) \in 1 .. p - 1 /\ OpensAt(fn, K, p, i, Q(i))
  BY OpenerFound
<1> HIDE DEF Q
<1>3. ASSUME NEW i \in 1 .. L, NEW k \in 1 .. L, i < k PROVE Q(i) < Q(k)
  <2>1. k # 1 /\ i \in Nat /\ k \in Nat
    BY <1>1, <1>3
  <2>2. Q(k) \in 1 .. p - 1 /\ OpensAt(fn, K, p, k, Q(k))
    BY <1>2, <2>1
  <2>3. CASE i = 1
    BY <1>1, <1>2, <2>2, <2>3
  <2>4. CASE i # 1
    <3>1. OpensAt(fn, K, p, i, Q(i))
      BY <1>2, <2>4
    <3>2. QED
      BY <1>1, <1>3, <2>1, <2>2, <3>1, OpenedInOrder DEF n
  <2>5. QED
    BY <2>3, <2>4
<1>4. \A i \in 1 .. L : Q(i) \in Int
  BY <1>1, <1>2
<1>5. ASSUME NEW i \in 1 .. L, NEW k \in 1 .. L PROVE i < k <=> Q(i) < Q(k)
  <2>1. i < k \/ i = k \/ k < i
    BY <1>1
  <2>2. i < k => Q(i) < Q(k)
    BY <1>3
  <2>3. k < i => Q(k) < Q(i)
    BY <1>3
  <2>4. QED
    BY <1>1, <1>4, <2>1, <2>2, <2>3
<1>6. Around(fn.body, p)
        = {0} \cup {q \in 1 .. p - 1 : OpensAt(fn, K, p, Level(K, q) + 1, q)}
  BY AroundFound
<1>7. ASSUME NEW q \in 1 .. p - 1, OpensAt(fn, K, p, Level(K, q) + 1, q)
      PROVE  Level(K, q) + 1 \in 1 .. L /\ q = Q(Level(K, q) + 1)
  <2> DEFINE j == Level(K, q) + 1
  <2>1. q \in 1 .. n + 1 /\ q + 1 <= p /\ p \in q + 1 .. p
    BY <1>1
  <2>2. j \in Nat
    BY <1>1, <2>1
  <2> HIDE DEF j
  <2>3. j >= 2 /\ L >= j
    <3>1. OpensAt(fn, K, p, j, q)
      BY <1>7 DEF j
    <3>2. QED
      BY <1>1, <2>1, <2>2, <3>1, Inside DEF OpensAt, n
  <2>4. j \in 1 .. L /\ j # 1
    BY <1>1, <2>2, <2>3
  <2>5. OpensAt(fn, K, p, j, Q(j)) /\ OpensAt(fn, K, p, j, q)
    BY <1>2, <1>7, <2>4 DEF j
  <2>6. q = Q(j)
    BY <1>1, <2>2, <2>5, OpenedOnce DEF n
  <2>7. QED
    BY <2>4, <2>6 DEF j
<1>8. ASSUME NEW i \in 1 .. L, i # 1
      PROVE  Q(i) \in 1 .. p - 1 /\ OpensAt(fn, K, p, Level(K, Q(i)) + 1, Q(i))
  <2>1. Q(i) \in 1 .. p - 1 /\ OpensAt(fn, K, p, i, Q(i))
    BY <1>2, <1>8
  <2>2. Level(K, Q(i)) = i - 1
    BY <2>1 DEF OpensAt
  <2>3. Level(K, Q(i)) + 1 = i
    BY <1>1, <2>2
  <2>4. QED
    BY <2>1, <2>3
<1>9. 1 \in 1 .. L
  BY <1>1
<1> HIDE DEF L
<1>10. Around(fn.body, p) = {Q(i) : i \in 1 .. L}
  <2>1. ASSUME NEW q \in Around(fn.body, p) PROVE q \in {Q(i) : i \in 1 .. L}
    <3>1. CASE q = 0
      BY <1>2, <1>9, <3>1
    <3>2. CASE q # 0
      BY <1>6, <1>7, <2>1, <3>2
    <3>3. QED
      BY <3>1, <3>2
  <2>2. ASSUME NEW i \in 1 .. L PROVE Q(i) \in Around(fn.body, p)
    BY <1>2, <1>6, <1>8
  <2>3. QED
    BY <2>1, <2>2
<1>11. QED
  BY <1>5, <1>10 DEF Ordered, Q, L

(* The label l names the block l levels out.                               *)
LEMMA LabelFound ==
  ASSUME NEW fn, NEW K, Typing(fn, K), NEW p \in 1 .. Len(fn.body),
         NEW l \in Nat, l < Level(K, p)
  PROVE  Labelled(fn.body, p, l) = Opener(fn, K, p, Level(K, p) - l)
<1> DEFINE L == Level(K, p)
           Q(i) == Opener(fn, K, p, i)
           A == Around(fn.body, p)
           R(q) == {r \in A : r > q}
           S == {d \in Nat : d < L => /\ IsFiniteSet(R(Q(L - d)))
                                      /\ Cardinality(R(Q(L - d))) = d}
<1>1. p \in 1 .. Len(fn.body) + 1
  BY Levels
<1>2. L \in Nat /\ l < L
  BY <1>1, Levels
<1>3. /\ \A i, k \in 1 .. L : i < k <=> Q(i) < Q(k)
      /\ A = {Q(i) : i \in 1 .. L}
  <2>1. Ordered(fn, K, p)
    BY AroundInOrder
  <2>2. QED
    BY <2>1 DEF Ordered
<1>4. \A i \in 1 .. L : Q(i) \in Int
  <2>1. ASSUME NEW i \in 1 .. L PROVE Q(i) \in Int
    <3>1. /\ i = 1 => Q(i) = 0
          /\ i # 1 => Q(i) \in 1 .. p - 1
      BY OpenerFound
    <3>2. p \in Int
      BY <1>1, Levels
    <3>3. QED
      BY <3>1, <3>2
  <2>2. QED
    BY <2>1
<1> HIDE DEF L, Q, A
<1>5. ASSUME NEW i \in 1 .. L PROVE R(Q(i)) = {Q(k) : k \in i + 1 .. L}
  <2>1. ASSUME NEW k \in 1 .. L PROVE Q(k) > Q(i) <=> k \in i + 1 .. L
    <3>1. i < k <=> Q(i) < Q(k)
      BY <1>3
    <3>2. Q(i) \in Int /\ Q(k) \in Int
      BY <1>4
    <3>3. i < k <=> k \in i + 1 .. L
      BY <1>2
    <3>4. QED
      BY <3>1, <3>2, <3>3
  <2>2. i + 1 .. L \subseteq 1 .. L
    BY <1>2
  <2>3. QED
    BY <1>3, <2>1, <2>2
<1> HIDE DEF R
<1>6. 0 \in S
  <2>1. SUFFICES ASSUME 0 < L PROVE IsFiniteSet(R(Q(L - 0))) /\ Cardinality(R(Q(L - 0))) = 0
    OBVIOUS
  <2>2. L \in 1 .. L /\ L - 0 = L /\ L + 1 .. L = {}
    BY <1>2, <2>1
  <2>3. R(Q(L)) = {}
    BY <1>5, <2>2
  <2>4. QED
    BY <2>2, <2>3, FS_EmptySet
<1>7. ASSUME NEW d \in Nat, d \in S PROVE d + 1 \in S
  <2>1. SUFFICES ASSUME d + 1 < L
                 PROVE /\ IsFiniteSet(R(Q(L - (d + 1))))
                       /\ Cardinality(R(Q(L - (d + 1)))) = d + 1
    OBVIOUS
  <2> DEFINE i == L - (d + 1)
  <2>2. i \in 1 .. L /\ i + 1 \in 1 .. L /\ i + 1 = L - d /\ d < L
    BY <1>2, <2>1
  <2>3. IsFiniteSet(R(Q(i + 1))) /\ Cardinality(R(Q(i + 1))) = d
    BY <1>7, <2>2
  <2> HIDE DEF i
  <2>4. R(Q(i)) = {Q(k) : k \in i + 1 .. L} /\ R(Q(i + 1)) = {Q(k) : k \in i + 1 + 1 .. L}
    BY <1>5, <2>2
  <2>5. i + 1 .. L = {i + 1} \cup (i + 1 + 1 .. L)
    BY <1>2, <2>2
  <2>6. R(Q(i)) = R(Q(i + 1)) \cup {Q(i + 1)}
    BY <2>4, <2>5, Zenon
  <2>7. Q(i + 1) \notin R(Q(i + 1))
    <3>1. ASSUME NEW k \in i + 1 + 1 .. L PROVE Q(k) # Q(i + 1)
      <4>1. k \in 1 .. L /\ i + 1 < k
        BY <1>2, <2>2
      <4>2. Q(i + 1) < Q(k)
        BY <1>3, <2>2, <4>1
      <4>3. QED
        BY <1>4, <2>2, <4>1, <4>2
    <3>2. QED
      BY <2>4, <3>1
  <2>8. IsFiniteSet(R(Q(i))) /\ Cardinality(R(Q(i))) = Cardinality(R(Q(i + 1))) + 1
    BY <2>3, <2>6, <2>7, FS_AddElement
  <2>9. QED
    BY <2>3, <2>8 DEF i
<1>8. Nat \subseteq S
  <2> HIDE DEF S
  <2>1. QED
    BY <1>6, <1>7, SetInduction
<1>9. ASSUME NEW i \in 1 .. L PROVE Cardinality(R(Q(i))) = L - i
  <2>1. L - i \in Nat /\ L - i < L /\ L - (L - i) = i
    BY <1>2
  <2>2. L - i \in S
    BY <1>8, <2>1
  <2>3. QED
    BY <2>1, <2>2
<1> HIDE DEF S
<1>10. L - l \in 1 .. L /\ L - (L - l) = l
  BY <1>2
<1>11. Q(L - l) \in A /\ Cardinality(R(Q(L - l))) = l
  BY <1>3, <1>9, <1>10
<1>12. ASSUME NEW q \in A, Cardinality(R(q)) = l PROVE q = Q(L - l)
  <2>1. PICK i \in 1 .. L : q = Q(i)
    BY <1>3
  <2>2. L - i = l
    BY <1>9, <1>12, <2>1
  <2>3. i = L - l
    BY <1>2, <2>2
  <2>4. QED
    BY <2>1, <2>3
<1>13. Labelled(fn.body, p, l) = CHOOSE q \in A : Cardinality(R(q)) = l
  BY DEF Labelled, A, R
<1>14. QED
  BY <1>11, <1>12, <1>13 DEF Q, L

(* The innermost block around an instruction is the one its label 0 names. *)
LEMMA BlockFound ==
  ASSUME NEW fn, NEW K, Typing(fn, K), NEW p \in 1 .. Len(fn.body)
  PROVE  LET A == Around(fn.body, p)
         IN  (CHOOSE q \in A : \A r \in A : r <= q) = Labelled(fn.body, p, 0)
<1> DEFINE L == Level(K, p)
           Q(i) == Opener(fn, K, p, i)
           A == Around(fn.body, p)
<1>1. p \in 1 .. Len(fn.body) + 1
  BY Levels
<1>2. L \in Nat /\ L >= 1
  BY <1>1, Levels
<1>3. /\ \A i, k \in 1 .. L : i < k <=> Q(i) < Q(k)
      /\ A = {Q(i) : i \in 1 .. L}
  <2>1. Ordered(fn, K, p)
    BY AroundInOrder
  <2>2. QED
    BY <2>1 DEF Ordered
<1>4. \A i \in 1 .. L : Q(i) \in Int
  <2>1. ASSUME NEW i \in 1 .. L PROVE Q(i) \in Int
    <3>1. /\ i = 1 => Q(i) = 0
          /\ i # 1 => Q(i) \in 1 .. p - 1
      BY OpenerFound
    <3>2. p \in Int
      BY <1>1, Levels
    <3>3. QED
      BY <3>1, <3>2
  <2>2. QED
    BY <2>1
<1>5. Labelled(fn.body, p, 0) = Q(L)
  <2>1. 0 \in Nat /\ 0 < L /\ L - 0 = L
    BY <1>2
  <2> HIDE DEF L
  <2>2. Labelled(fn.body, p, 0) = Q(L - 0)
    BY <2>1, LabelFound DEF L
  <2>3. QED
    BY <2>1, <2>2
<1> HIDE DEF L, Q, A
<1>6. Q(L) \in A /\ \A r \in A : r <= Q(L)
  <2>1. L \in 1 .. L
    BY <1>2
  <2>2. ASSUME NEW i \in 1 .. L PROVE Q(i) <= Q(L)
    <3>1. i < L \/ i = L
      BY <1>2
    <3>2. QED
      BY <1>3, <1>4, <2>1, <3>1
  <2>3. QED
    BY <1>3, <2>1, <2>2
<1>7. ASSUME NEW q \in A, \A r \in A : r <= q PROVE q = Q(L)
  <2>1. q <= Q(L) /\ Q(L) <= q
    BY <1>6, <1>7
  <2>2. PICK i \in 1 .. L : q = Q(i)
    BY <1>3
  <2>3. q \in Int /\ Q(L) \in Int
    BY <1>2, <1>4, <2>2
  <2>4. QED
    BY <2>1, <2>3
<1>8. (CHOOSE q \in A : \A r \in A : r <= q) = Q(L)
  BY <1>6, <1>7
<1>9. QED
  BY <1>5, <1>8 DEF A
=============================================================================
