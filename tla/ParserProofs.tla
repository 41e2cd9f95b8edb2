---------------------------- MODULE ParserProofs -----------------------------
(***************************************************************************)
(* Theorems about Parser.                                                  *)
(***************************************************************************)
EXTENDS Parser, DataLemmas

-----------------------------------------------------------------------------
(* The walks are recursive functions; each is there, and what it is after  *)
(* a step follows from what it was before.                                 *)

LEMMA ReadSteps ==
  ASSUME NEW p, NEW shape, Len(shape) \in Nat
  PROVE  \E r : /\ r[0] = Got(TRUE, p, <<>>)
                /\ \A j \in 1 .. Len(shape) :
                     r[j] = Then(r[j-1], Field(shape[j], r[j-1].at))
                /\ Read(p, shape) = r[Len(shape)]
<1> DEFINE n == Len(shape)
           c == Got(TRUE, p, <<>>)
           next(w, j) == Then(w, Field(shape[j], w.at))
           Is(r, k) == r = [j \in 0 .. k |-> IF j = 0 THEN c ELSE next(r[j-1], j)]
           S == {k \in Nat : \E r : Is(r, k)}
<1>1. Read(p, shape) = (CHOOSE r : Is(r, n))[n]
  BY DEF Read
<1> HIDE DEF c, next
<1>2. 0 \in S
  <2>1. Is([j \in 0 .. 0 |-> c], 0)
    OBVIOUS
  <2>2. QED
    BY <2>1
<1>3. ASSUME NEW k \in Nat, k \in S
      PROVE  k + 1 \in S
  <2>1. PICK r : Is(r, k)
    BY <1>3
  <2> DEFINE b == [j \in 0 .. k + 1 |-> IF j = k + 1 THEN next(r[k], k + 1) ELSE r[j]]
  <2>2. Is(b, k + 1)
    BY <2>1
  <2> HIDE DEF b
  <2>3. QED
    BY <2>2
<1>4. n \in S
  BY <1>2, <1>3, SetInduction
<1>5. Is(CHOOSE r : Is(r, n), n)
  BY <1>4
<1>6. PICK r : Is(r, n) /\ Read(p, shape) = r[n]
  BY <1>1, <1>5
<1>7. r[0] = c /\ \A j \in 1 .. n : r[j] = next(r[j-1], j)
  BY <1>6
<1>8. QED
  BY <1>6, <1>7 DEF c, next

LEMMA EntriesSteps ==
  ASSUME NEW id, NEW n \in Nat, n = Number(At(id))
  PROVE  \E r : /\ r[0] = Got(TRUE, Next1(At(id)), <<>>)
                /\ \A j \in 1 .. n : r[j] = Then(r[j-1], Item(id, r[j-1].at))
                /\ Entries(id) = r[n]
<1> DEFINE c == Got(TRUE, Next1(At(id)), <<>>)
           next(w) == Then(w, Item(id, w.at))
           Is(r, k) == r = [j \in 0 .. k |-> IF j = 0 THEN c ELSE next(r[j-1])]
           S == {k \in Nat : \E r : Is(r, k)}
<1>1. Entries(id) = (CHOOSE r : Is(r, n))[n]
  BY DEF Entries
<1> HIDE DEF c, next
<1>2. 0 \in S
  <2>1. Is([j \in 0 .. 0 |-> c], 0)
    OBVIOUS
  <2>2. QED
    BY <2>1
<1>3. ASSUME NEW k \in Nat, k \in S
      PROVE  k + 1 \in S
  <2>1. PICK r : Is(r, k)
    BY <1>3
  <2> DEFINE b == [j \in 0 .. k + 1 |-> IF j = k + 1 THEN next(r[k]) ELSE r[j]]
  <2>2. Is(b, k + 1)
    BY <2>1
  <2> HIDE DEF b
  <2>3. QED
    BY <2>2
<1>4. n \in S
  BY <1>2, <1>3, SetInduction
<1>5. Is(CHOOSE r : Is(r, n), n)
  BY <1>4
<1>6. PICK r : Is(r, n) /\ Entries(id) = r[n]
  BY <1>1, <1>5
<1>7. r[0] = c /\ \A j \in 1 .. n : r[j] = next(r[j-1])
  BY <1>6
<1>8. QED
  BY <1>6, <1>7 DEF c, next

LEMMA WalkSteps ==
  ASSUME NEW loader, Has("import"), NEW n \in Nat, n = Number(At("import"))
  PROVE  \E r : /\ r[0] = Got(TRUE, Next1(At("import")), <<>>)
                /\ \A j \in 1 .. n : r[j] = Step(loader, r[j-1], Import(r[j-1].at))
                /\ Walk(loader) = r[n]
<1> DEFINE c == Got(TRUE, Next1(At("import")), <<>>)
           next(w) == Step(loader, w, Import(w.at))
           Is(r, k) == r = [j \in 0 .. k |-> IF j = 0 THEN c ELSE next(r[j-1])]
           S == {k \in Nat : \E r : Is(r, k)}
<1>1. Walk(loader) = (CHOOSE r : Is(r, n))[n]
  BY DEF Walk
<1> HIDE DEF c, next
<1>2. 0 \in S
  <2>1. Is([j \in 0 .. 0 |-> c], 0)
    OBVIOUS
  <2>2. QED
    BY <2>1
<1>3. ASSUME NEW k \in Nat, k \in S
      PROVE  k + 1 \in S
  <2>1. PICK r : Is(r, k)
    BY <1>3
  <2> DEFINE b == [j \in 0 .. k + 1 |-> IF j = k + 1 THEN next(r[k]) ELSE r[j]]
  <2>2. Is(b, k + 1)
    BY <2>1
  <2> HIDE DEF b
  <2>3. QED
    BY <2>2
<1>4. n \in S
  BY <1>2, <1>3, SetInduction
<1>5. Is(CHOOSE r : Is(r, n), n)
  BY <1>4
<1>6. PICK r : Is(r, n) /\ Walk(loader) = r[n]
  BY <1>1, <1>5
<1>7. r[0] = c /\ \A j \in 1 .. n : r[j] = next(r[j-1])
  BY <1>6
<1>8. QED
  BY <1>6, <1>7 DEF c, next

(* The imports of a kind are a sequence of some of the imports.            *)
LEMMA ChosenIsSeq ==
  ASSUME NEW list, Len(list) \in Nat, NEW kind
  PROVE  Chosen(list, kind) \in Seq({list[j] : j \in 1 .. Len(list)})
<1> DEFINE n == Len(list)
           T == {list[j] : j \in 1 .. n}
           next(w, j) == IF list[j].kind = Kinds[kind] THEN Append(w, list[j]) ELSE w
           Is(r, k) == r = [j \in 0 .. k |-> IF j = 0 THEN <<>> ELSE next(r[j-1], j)]
           S == {k \in Nat : \E r : Is(r, k)}
<1>1. Chosen(list, kind) = (CHOOSE r : Is(r, n))[n]
  BY DEF Chosen
<1>2. \A w \in Seq(T) : \A j \in 1 .. n : next(w, j) \in Seq(T)
  <2>1. ASSUME NEW w \in Seq(T), NEW j \in 1 .. n PROVE next(w, j) \in Seq(T)
    <3>1. list[j] \in T
      OBVIOUS
    <3>2. Append(w, list[j]) \in Seq(T)
      BY <3>1, AppendProperties
    <3>3. QED
      BY <3>2
  <2>2. QED
    BY <2>1
<1> HIDE DEF next, T
<1>3. 0 \in S
  <2>1. Is([j \in 0 .. 0 |-> <<>>], 0)
    OBVIOUS
  <2>2. QED
    BY <2>1
<1>4. ASSUME NEW k \in Nat, k \in S
      PROVE  k + 1 \in S
  <2>1. PICK r : Is(r, k)
    BY <1>4
  <2> DEFINE b == [j \in 0 .. k + 1 |-> IF j = k + 1 THEN next(r[k], k + 1) ELSE r[j]]
  <2>2. Is(b, k + 1)
    BY <2>1
  <2> HIDE DEF b
  <2>3. QED
    BY <2>2
<1>5. n \in S
  BY <1>3, <1>4, SetInduction
<1>6. Is(CHOOSE r : Is(r, n), n)
  BY <1>5
<1>7. PICK r : Is(r, n) /\ Chosen(list, kind) = r[n]
  BY <1>1, <1>6
<1>8. r[0] = <<>> /\ \A j \in 1 .. n : r[j] = next(r[j-1], j)
  BY <1>7
<1> DEFINE Q == {k \in Nat : k <= n => r[k] \in Seq(T)}
<1>9. 0 \in Q
  BY <1>8, EmptySeq
<1>10. ASSUME NEW k \in Nat, k \in Q
       PROVE  k + 1 \in Q
  <2>1. SUFFICES ASSUME k + 1 <= n PROVE r[k+1] \in Seq(T)
    OBVIOUS
  <2>2. r[k] \in Seq(T) /\ k + 1 \in 1 .. n /\ r[k+1] = next(r[k], k + 1)
    BY <1>8, <1>10, <2>1
  <2>3. QED
    BY <1>2, <2>2
<1>11. n \in Q
  BY <1>9, <1>10, SetInduction
<1>12. QED
  BY <1>7, <1>11 DEF T
-----------------------------------------------------------------------------
(* What is read of any stream.                                             *)

StreamTyped == Stream \in Seq(Nat) /\ input.isFile \in BOOLEAN

LEMMA Numbers ==
  ASSUME StreamTyped, NEW p \in Nat
  PROVE  /\ Size \in Nat /\ Number(p) \in Nat /\ Next1(p) \in Nat
         /\ p <= Next1(p) /\ Next1(p) <= p + 1
         /\ p < Size => Next1(p) = p + 1 /\ Number(p) = Stream[p + 1]
         /\ ~ (p < Size) => Next1(p) = p /\ Number(p) = 0
<1>1. Size \in Nat
  BY LenProperties DEF StreamTyped, Size
<1>2. p < Size => Stream[p + 1] \in Nat
  BY <1>1, ElementOfSeq DEF StreamTyped, Size
<1> QED
  BY <1>1, <1>2 DEF Number, Next1, Here

FieldNames == {"number", "index", "byte", "name", "bytes", "limits", "offset", "constant"}

LEMMA FieldTyped ==
  ASSUME StreamTyped, NEW p \in Nat, NEW what \in FieldNames
  PROVE  Field(what, p).at \in Nat
<1> DEFINE q == Next1(p)
<1>1. q \in Nat /\ Next1(q) \in Nat /\ Next1(Next1(q)) \in Nat /\ Number(p) \in Nat /\ Size \in Nat
  BY Numbers
<1>2. CASE what \in {"number", "index", "byte"}
  BY <1>1, <1>2 DEF Field, Byte, Got
<1>3. CASE what = "name"
  BY <1>1, <1>3 DEF Field, Name, NameAt, Got
<1>4. CASE what = "bytes"
  <2>1. Field(what, p) = BytesAt(q, q + Number(p))
    BY <1>4 DEF Field, Bytes
  <2>2. QED
    BY <1>1, <2>1 DEF BytesAt, Got
<1>5. CASE what = "limits"
  BY <1>1, <1>5 DEF Field, Limits, Got
<1>6. CASE what \in {"offset", "constant"}
  BY <1>6 DEF Field, Offset, Constant, Got
<1>7. QED
  BY <1>2, <1>3, <1>4, <1>5, <1>6 DEF FieldNames

LEMMA ReadTyped ==
  ASSUME StreamTyped, NEW p \in Nat, NEW shape \in Seq(FieldNames)
  PROVE  Read(p, shape).at \in Nat
<1> DEFINE n == Len(shape)
<1>1. n \in Nat /\ \A j \in 1 .. n : shape[j] \in FieldNames
  BY LenProperties, ElementOfSeq
<1>2. PICK r : /\ r[0] = Got(TRUE, p, <<>>)
               /\ \A j \in 1 .. n : r[j] = Then(r[j-1], Field(shape[j], r[j-1].at))
               /\ Read(p, shape) = r[n]
  BY <1>1, ReadSteps
<1> DEFINE Q == {k \in Nat : k <= n => r[k].at \in Nat}
<1>3. 0 \in Q
  BY <1>2 DEF Got
<1>4. ASSUME NEW k \in Nat, k \in Q
      PROVE  k + 1 \in Q
  <2>1. SUFFICES ASSUME k + 1 <= n PROVE r[k+1].at \in Nat
    OBVIOUS
  <2>2. r[k].at \in Nat /\ k + 1 \in 1 .. n
    BY <1>1, <1>4, <2>1
  <2>3. r[k+1] = Then(r[k], Field(shape[k+1], r[k].at))
    BY <1>1, <1>2, <2>2
  <2>4. Field(shape[k+1], r[k].at).at \in Nat
    BY <1>1, <2>2, FieldTyped
  <2>5. QED
    BY <2>2, <2>3, <2>4 DEF Then, Got
<1>5. n \in Q
  BY <1>1, <1>3, <1>4, SetInduction
<1>6. QED
  BY <1>1, <1>2, <1>5

(* Reading up to three fields.                                             *)
LEMMA ReadOne ==
  ASSUME NEW p, NEW a
  PROVE  LET x == Field(a, p)
         IN  Read(p, <<a>>) =
               Got(x.ok, x.at, <<x.val>>)
<1> DEFINE x == Field(a, p)
           shape == <<a>>
<1>1. Len(shape) = 1 /\ Len(shape) \in Nat /\ shape[1] = a
  OBVIOUS
<1> HIDE DEF shape
<1>2. PICK r : /\ r[0] = Got(TRUE, p, <<>>)
               /\ \A j \in 1 .. Len(shape) : r[j] = Then(r[j-1], Field(shape[j], r[j-1].at))
               /\ Read(p, shape) = r[Len(shape)]
  BY <1>1, ReadSteps
<1>3. /\ r[1] = Then(r[0], Field(a, r[0].at))
  <2>1. 1 - 1 = 0 /\ 1 \in 1 .. Len(shape)
    BY <1>1
  <2>2. /\ r[1] = Then(r[1-1], Field(shape[1], r[1-1].at))
    BY <1>2, <2>1, Zenon
  <2>3. QED
    BY <1>1, <2>1, <2>2, Zenon
<1>4. r[0].at = p
  BY <1>2 DEF Got
<1>5. Field(a, r[0].at) = x
  BY <1>4
<1> HIDE DEF x
<1>6. r[1] = Got(x.ok, x.at, <<x.val>>)
  BY <1>2, <1>3, <1>5 DEF Then, Got
<1>7. QED
  BY <1>1, <1>2, <1>6 DEF x, shape

LEMMA ReadTwo ==
  ASSUME NEW p, NEW a, NEW b
  PROVE  LET x == Field(a, p)  y == Field(b, x.at)
         IN  Read(p, <<a, b>>) =
               IF ~ x.ok THEN Got(x.ok, x.at, <<x.val>>)
               ELSE Got(y.ok, y.at, <<x.val, y.val>>)
<1> DEFINE x == Field(a, p)
           y == Field(b, x.at)
           shape == <<a, b>>
<1>1. Len(shape) = 2 /\ Len(shape) \in Nat /\ shape[1] = a /\ shape[2] = b
  OBVIOUS
<1> HIDE DEF shape
<1>2. PICK r : /\ r[0] = Got(TRUE, p, <<>>)
               /\ \A j \in 1 .. Len(shape) : r[j] = Then(r[j-1], Field(shape[j], r[j-1].at))
               /\ Read(p, shape) = r[Len(shape)]
  BY <1>1, ReadSteps
<1>3. /\ r[1] = Then(r[0], Field(a, r[0].at))
      /\ r[2] = Then(r[1], Field(b, r[1].at))
  <2>1. 1 - 1 = 0 /\ 1 \in 1 .. Len(shape) /\ 2 - 1 = 1 /\ 2 \in 1 .. Len(shape)
    BY <1>1
  <2>2. /\ r[1] = Then(r[1-1], Field(shape[1], r[1-1].at))
        /\ r[2] = Then(r[2-1], Field(shape[2], r[2-1].at))
    BY <1>2, <2>1, Zenon
  <2>3. QED
    BY <1>1, <2>1, <2>2, Zenon
<1>4. r[0].at = p
  BY <1>2 DEF Got
<1>5. Field(a, r[0].at) = x
  BY <1>4
<1> HIDE DEF x
<1>6. r[1] = Got(x.ok, x.at, <<x.val>>)
  BY <1>2, <1>3, <1>5 DEF Then, Got
<1>7. x.ok => Field(b, r[1].at) = y
  <2>1. x.ok => r[1].at = x.at
    BY <1>6 DEF Got
  <2>2. QED
    BY <2>1
<1> HIDE DEF y
<1>8. r[2] = IF ~ x.ok THEN Got(x.ok, x.at, <<x.val>>)
                ELSE Got(y.ok, y.at, <<x.val, y.val>>)
  <2>1. Append(<<x.val>>, y.val) = <<x.val, y.val>>
    BY Appending
  <2> DEFINE w == r[1]
  <2>2. r[2] = Then(w, Field(b, w.at))
    BY <1>3
  <2>3. CASE x.ok
    <3>1. w.ok = x.ok /\ w.val = <<x.val>>
      BY <1>6, <2>3 DEF Got
    <3>2. Field(b, w.at) = y
      BY <1>7, <2>3
    <3> HIDE DEF w
    <3>3. r[2] = Got(y.ok, y.at, Append(<<x.val>>, y.val))
      BY <2>2, <2>3, <3>1, <3>2, Zenon DEF Then
    <3>4. QED
      BY <2>1, <2>3, <3>3, Zenon
  <2>4. CASE ~ (x.ok)
    <3>1. ~ w.ok /\ r[2] = w
      BY <1>6, <2>2, <2>4 DEF Got, Then
    <3>2. QED
      BY <1>6, <2>4, <3>1
  <2>5. QED
    BY <2>3, <2>4
<1>9. QED
  BY <1>1, <1>2, <1>8 DEF x, y, shape

LEMMA ReadThree ==
  ASSUME NEW p, NEW a, NEW b, NEW c
  PROVE  LET x == Field(a, p)  y == Field(b, x.at)  z == Field(c, y.at)
         IN  Read(p, <<a, b, c>>) =
               IF ~ x.ok THEN Got(x.ok, x.at, <<x.val>>)
               ELSE IF ~ y.ok THEN Got(y.ok, y.at, <<x.val, y.val>>)
               ELSE Got(z.ok, z.at, <<x.val, y.val, z.val>>)
<1> DEFINE x == Field(a, p)
           y == Field(b, x.at)
           z == Field(c, y.at)
           shape == <<a, b, c>>
<1>1. Len(shape) = 3 /\ Len(shape) \in Nat /\ shape[1] = a /\ shape[2] = b /\ shape[3] = c
  OBVIOUS
<1> HIDE DEF shape
<1>2. PICK r : /\ r[0] = Got(TRUE, p, <<>>)
               /\ \A j \in 1 .. Len(shape) : r[j] = Then(r[j-1], Field(shape[j], r[j-1].at))
               /\ Read(p, shape) = r[Len(shape)]
  BY <1>1, ReadSteps
<1>3. /\ r[1] = Then(r[0], Field(a, r[0].at))
      /\ r[2] = Then(r[1], Field(b, r[1].at))
      /\ r[3] = Then(r[2], Field(c, r[2].at))
  <2>1. 1 - 1 = 0 /\ 1 \in 1 .. Len(shape) /\ 2 - 1 = 1 /\ 2 \in 1 .. Len(shape) /\ 3 - 1 = 2 /\ 3 \in 1 .. Len(shape)
    BY <1>1
  <2>2. /\ r[1] = Then(r[1-1], Field(shape[1], r[1-1].at))
        /\ r[2] = Then(r[2-1], Field(shape[2], r[2-1].at))
        /\ r[3] = Then(r[3-1], Field(shape[3], r[3-1].at))
    BY <1>2, <2>1, Zenon
  <2>3. QED
    BY <1>1, <2>1, <2>2, Zenon
<1>4. r[0].at = p
  BY <1>2 DEF Got
<1>5. Field(a, r[0].at) = x
  BY <1>4
<1> HIDE DEF x
<1>6. r[1] = Got(x.ok, x.at, <<x.val>>)
  BY <1>2, <1>3, <1>5 DEF Then, Got
<1>7. x.ok => Field(b, r[1].at) = y
  <2>1. x.ok => r[1].at = x.at
    BY <1>6 DEF Got
  <2>2. QED
    BY <2>1
<1> HIDE DEF y
<1>8. r[2] = IF ~ x.ok THEN Got(x.ok, x.at, <<x.val>>)
                ELSE Got(y.ok, y.at, <<x.val, y.val>>)
  <2>1. Append(<<x.val>>, y.val) = <<x.val, y.val>>
    BY Appending
  <2> DEFINE w == r[1]
  <2>2. r[2] = Then(w, Field(b, w.at))
    BY <1>3
  <2>3. CASE x.ok
    <3>1. w.ok = x.ok /\ w.val = <<x.val>>
      BY <1>6, <2>3 DEF Got
    <3>2. Field(b, w.at) = y
      BY <1>7, <2>3
    <3> HIDE DEF w
    <3>3. r[2] = Got(y.ok, y.at, Append(<<x.val>>, y.val))
      BY <2>2, <2>3, <3>1, <3>2, Zenon DEF Then
    <3>4. QED
      BY <2>1, <2>3, <3>3, Zenon
  <2>4. CASE ~ (x.ok)
    <3>1. ~ w.ok /\ r[2] = w
      BY <1>6, <2>2, <2>4 DEF Got, Then
    <3>2. QED
      BY <1>6, <2>4, <3>1
  <2>5. QED
    BY <2>3, <2>4
<1>9. x.ok /\ y.ok => Field(c, r[2].at) = z
  <2>1. x.ok /\ y.ok => r[2].at = y.at
    BY <1>8 DEF Got
  <2>2. QED
    BY <2>1
<1> HIDE DEF z
<1>10. r[3] = IF ~ x.ok THEN Got(x.ok, x.at, <<x.val>>)
                ELSE IF ~ y.ok THEN Got(y.ok, y.at, <<x.val, y.val>>)
                ELSE Got(z.ok, z.at, <<x.val, y.val, z.val>>)
  <2>1. Append(<<x.val, y.val>>, z.val) = <<x.val, y.val, z.val>>
    BY Appending
  <2> DEFINE w == r[2]
  <2>2. r[3] = Then(w, Field(c, w.at))
    BY <1>3
  <2>3. CASE x.ok /\ y.ok
    <3>1. w.ok = y.ok /\ w.val = <<x.val, y.val>>
      BY <1>8, <2>3 DEF Got
    <3>2. Field(c, w.at) = z
      BY <1>9, <2>3
    <3> HIDE DEF w
    <3>3. r[3] = Got(z.ok, z.at, Append(<<x.val, y.val>>, z.val))
      BY <2>2, <2>3, <3>1, <3>2, Zenon DEF Then
    <3>4. QED
      BY <2>1, <2>3, <3>3, Zenon
  <2>4. CASE ~ (x.ok /\ y.ok)
    <3>1. ~ w.ok /\ r[3] = w
      BY <1>8, <2>2, <2>4 DEF Got, Then
    <3>2. QED
      BY <1>8, <2>4, <3>1
  <2>5. QED
    BY <2>3, <2>4
<1>11. QED
  BY <1>1, <1>2, <1>10 DEF x, y, z, shape
-----------------------------------------------------------------------------
(* The scan.                                                               *)

LEMMA SectionEndAfter ==
  ASSUME StreamTyped, NEW p \in Nat, p < Size, SectionEnd(p) >= 0
  PROVE  /\ SectionEnd(p) \in Nat /\ p < Next1(p + 1) /\ Next1(p + 1) <= SectionEnd(p)
         /\ Number(p) \in Nat /\ Next1(p + 1) \in Nat /\ Number(p + 1) \in Nat
         /\ SectionEnd(p) = Next1(p + 1) + Number(p + 1)
<1>1. /\ Number(p) \in Nat /\ Next1(p + 1) \in Nat /\ Number(p + 1) \in Nat
      /\ p + 1 <= Next1(p + 1)
  BY Numbers
<1>2. SectionEnd(p) = Next1(p + 1) + Number(p + 1)
  BY DEF SectionEnd
<1>3. QED
  BY <1>1, <1>2

LEMMA SectionsFromStep ==
  ASSUME StreamTyped, NEW q \in Nat, q <= Size
  PROVE  SectionsFrom(q) =
           IF q = Size \/ SectionEnd(q) < 0 THEN <<>>
           ELSE <<[type |-> Number(q), offset |-> Next1(q + 1)]>>
                \o (IF SectionEnd(q) < Size THEN SectionsFrom(SectionEnd(q)) ELSE <<>>)
<1> DEFINE head(p) == <<[type |-> Number(p), offset |-> Next1(p + 1)]>>
           end(p) == SectionEnd(p)
           next(f, p) == IF p = Size \/ end(p) < 0 THEN <<>>
                         ELSE head(p) \o (IF end(p) < Size THEN f[end(p)] ELSE <<>>)
           Is(f, m) == f = [p \in m .. Size |-> next(f, p)]
           S == {k \in Nat : k <= Size => \E f : Is(f, Size - k)}
<1>1. Size \in Nat
  BY Numbers
<1>2. \A p \in 0 .. Size : SectionsFrom(p) = (CHOOSE f : Is(f, 0))[p]
  BY DEF SectionsFrom
<1>3. \A p \in Nat : p < Size /\ ~ (end(p) < 0) => end(p) \in Nat /\ p < end(p)
  <2>1. ASSUME NEW p \in Nat, p < Size, ~ (end(p) < 0) PROVE end(p) \in Nat /\ p < end(p)
    <3>1. /\ Number(p) \in Nat /\ Next1(p + 1) \in Nat /\ Number(p + 1) \in Nat
      BY Numbers
    <3>2. end(p) \in Int
      BY <3>1 DEF SectionEnd
    <3>3. end(p) >= 0
      BY <2>1, <3>2
    <3>4. QED
      BY <2>1, <3>3, SectionEndAfter
  <2>2. QED
    BY <2>1
<1> HIDE DEF head, end
<1>4. 0 \in S
  <2> DEFINE b == [p \in Size .. Size |-> <<>>]
  <2>1. Is(b, Size)
    BY <1>1
  <2> HIDE DEF b
  <2>2. QED
    BY <1>1, <2>1
<1>5. ASSUME NEW k \in Nat, k \in S
      PROVE  k + 1 \in S
  <2>1. SUFFICES ASSUME k + 1 <= Size PROVE \E f : Is(f, Size - (k + 1))
    OBVIOUS
  <2>2. PICK m \in Nat : m = Size - (k + 1) /\ m + 1 = Size - k /\ m < Size
    BY <1>1, <2>1
  <2>3. PICK f : Is(f, m + 1)
    BY <1>1, <1>5, <2>1, <2>2
  <2> DEFINE b == [p \in m .. Size |-> IF p = m THEN next(f, m) ELSE f[p]]
  <2>4. \A p \in m + 1 .. Size : b[p] = f[p] /\ f[p] = next(f, p)
    <3>1. \A p \in m + 1 .. Size : f[p] = next(f, p)
      <4> HIDE DEF next
      <4>1. QED
        BY <2>3
    <3>2. \A p \in m + 1 .. Size : p \in m .. Size /\ p # m
      BY <1>1, <2>2
    <3> HIDE DEF next
    <3>3. QED
      BY <3>1, <3>2
  <2>5. b[m] = next(f, m) /\ DOMAIN b = m .. Size
    BY <1>1, <2>2
  <2>6. \A p \in m .. Size : next(b, p) = next(f, p)
    <3>1. ASSUME NEW p \in m .. Size, p # Size, ~ (end(p) < 0), end(p) < Size
          PROVE  b[end(p)] = f[end(p)]
      <4>1. end(p) \in m + 1 .. Size
        BY <1>1, <1>3, <2>2, <3>1
      <4>2. QED
        BY <2>4, <4>1
    <3> HIDE DEF b
    <3>2. QED
      BY <1>1, <3>1
  <2>7. b = [p \in m .. Size |-> b[p]]
    OBVIOUS
  <2> HIDE DEF b, next
  <2>8. ASSUME NEW p \in m .. Size PROVE b[p] = next(b, p)
    <3>1. CASE p = m
      BY <2>5, <2>6, <3>1
    <3>2. CASE p # m
      <4>1. p \in m + 1 .. Size
        BY <1>1, <2>2, <3>2
      <4>2. QED
        BY <2>4, <2>6, <4>1
    <3>3. QED
      BY <3>1, <3>2
  <2>9. b = [p \in m .. Size |-> next(b, p)]
    BY <2>7, <2>8
  <2>10. QED
    BY <2>2, <2>9
<1>6. Size \in S
  BY <1>1, <1>4, <1>5, SetInduction
<1>7. \E f : Is(f, 0)
  <2>1. Size - Size = 0
    BY <1>1
  <2> HIDE DEF Is
  <2>2. QED
    BY <1>1, <1>6, <2>1
<1>8. Is(CHOOSE f : Is(f, 0), 0)
  BY <1>7
<1>9. PICK f : Is(f, 0) /\ \A p \in 0 .. Size : SectionsFrom(p) = f[p]
  BY <1>2, <1>8
<1>10. SectionsFrom(q) = next(f, q)
  <2> HIDE DEF next
  <2>1. QED
    BY <1>1, <1>9
<1>11. q < Size /\ ~ (end(q) < 0) /\ end(q) < Size => SectionsFrom(end(q)) = f[end(q)]
  <2>1. SUFFICES ASSUME q < Size, ~ (end(q) < 0), end(q) < Size
                 PROVE  end(q) \in 0 .. Size
    BY <1>9
  <2>2. QED
    BY <1>1, <1>3, <2>1
<1>12. QED
  <2>1. CASE q = Size \/ end(q) < 0
    BY <1>10, <2>1 DEF end
  <2>2. CASE ~ (q = Size \/ end(q) < 0)
    <3>1. q < Size
      BY <1>1, <2>2
    <3>2. SectionsFrom(q) = head(q) \o (IF end(q) < Size THEN SectionsFrom(end(q)) ELSE <<>>)
      BY <1>10, <1>11, <2>2, <3>1
    <3>3. QED
      BY <2>2, <3>2 DEF head, end
  <2>3. QED
    BY <2>1, <2>2
Places == [type : Nat, offset : Nat]

(* Sections found from q on come one after the other, and after q.         *)
AscendAfter(q, s) ==
  /\ s \in Seq(Places)
  /\ \A k \in 1 .. Len(s) : q < s[k].offset
  /\ \A k \in 1 .. Len(s) - 1 : s[k].offset < s[k + 1].offset

LEMMA SectionsFromAscend ==
  ASSUME StreamTyped, NEW q \in Nat, q <= Size
  PROVE  AscendAfter(q, SectionsFrom(q))
<1> DEFINE S == {k \in Nat : \A p \in Nat : p <= Size /\ p + k >= Size => AscendAfter(p, SectionsFrom(p))}
<1>1. Size \in Nat
  BY Numbers
<1>2. \A p \in Nat : AscendAfter(p, <<>>)
  BY EmptySeq DEF AscendAfter
<1>3. 0 \in S
  <2>1. ASSUME NEW p \in Nat, p = Size PROVE SectionsFrom(p) = <<>>
    <3>1. p <= Size
      BY <1>1, <2>1
    <3>2. QED
      BY <2>1, <3>1, SectionsFromStep, Zenon
  <2>2. QED
    BY <1>1, <1>2, <2>1
<1>4. ASSUME NEW k \in Nat, k \in S
      PROVE  k + 1 \in S
  <2>1. SUFFICES ASSUME NEW p \in Nat, p <= Size, p + (k + 1) >= Size
                 PROVE  AscendAfter(p, SectionsFrom(p))
    <3>1. k + 1 \in Nat
      OBVIOUS
    <3>2. QED
      BY <3>1, Zenon
  <2>2. CASE p = Size \/ SectionEnd(p) < 0
    <3>1. SectionsFrom(p) = <<>>
      BY <2>1, <2>2, SectionsFromStep
    <3>2. QED
      BY <1>2, <3>1
  <2>3. CASE ~ (p = Size \/ SectionEnd(p) < 0)
    <3>1. p < Size /\ SectionEnd(p) \in Int
      BY <1>1, <2>1, <2>3, Numbers DEF SectionEnd
    <3>2. PICK e \in Nat : /\ e = SectionEnd(p) /\ p < Next1(p + 1) /\ Next1(p + 1) <= e
                           /\ Number(p) \in Nat /\ Next1(p + 1) \in Nat
      BY <2>3, <3>1, SectionEndAfter
    <3>3. PICK x : x = [type |-> Number(p), offset |-> Next1(p + 1)]
      OBVIOUS
    <3>4. PICK t : t = IF e < Size THEN SectionsFrom(e) ELSE <<>>
      OBVIOUS
    <3>5. AscendAfter(e, t)
      <4>1. e < Size => AscendAfter(e, SectionsFrom(e))
        BY <1>1, <1>4, <2>1, <3>2
      <4>2. QED
        BY <1>2, <3>4, <4>1
    <3>6. PICK s : s = SectionsFrom(p) /\ s = <<x>> \o t
      BY <2>1, <2>3, <3>2, <3>3, <3>4, SectionsFromStep
    <3>7. x \in Places /\ p < x.offset /\ x.offset <= e
      BY <3>2, <3>3 DEF Places
    <3>8. t \in Seq(Places)
      BY <3>5 DEF AscendAfter
    <3>9. PICK n \in Nat : /\ n = Len(t) /\ s \in Seq(Places) /\ Len(s) = n + 1 /\ s[1] = x
                           /\ \A j \in 1 .. n : s[j + 1] = t[j]
      BY <3>6, <3>7, <3>8, Prepending
    <3>10. /\ \A j \in 1 .. n : t[j] \in Places /\ e < t[j].offset
           /\ \A j \in 1 .. n - 1 : t[j].offset < t[j + 1].offset
      BY <3>5, <3>8, <3>9, ElementOfSeq DEF AscendAfter
    <3>11. \A j \in 1 .. n + 1 : p < s[j].offset
      <4>1. ASSUME NEW j \in 1 .. n + 1 PROVE p < s[j].offset
        <5>1. CASE j = 1
          BY <3>7, <3>9, <5>1
        <5>2. CASE j # 1
          <6>1. j - 1 \in 1 .. n /\ (j - 1) + 1 = j
            BY <5>2
          <6>2. s[j] = t[j - 1]
            BY <3>9, <6>1
          <6>3. e < t[j - 1].offset /\ t[j - 1].offset \in Nat
            BY <3>10, <6>1 DEF Places
          <6>4. QED
            BY <3>2, <3>7, <6>2, <6>3
        <5>3. QED
          BY <5>1, <5>2
      <4>2. QED
        BY <4>1
    <3>12. \A j \in 1 .. n : s[j].offset < s[j + 1].offset
      <4>1. ASSUME NEW j \in 1 .. n PROVE s[j].offset < s[j + 1].offset
        <5>1. s[j + 1] = t[j] /\ t[j].offset \in Nat /\ e < t[j].offset
          BY <3>9, <3>10 DEF Places
        <5>2. CASE j = 1
          <6>1. s[j] = x /\ x.offset \in Nat
            BY <3>7, <3>9, <5>2 DEF Places
          <6>2. QED
            BY <3>7, <5>1, <6>1
        <5>3. CASE j # 1
          <6>1. j - 1 \in 1 .. n - 1 /\ j - 1 \in 1 .. n /\ (j - 1) + 1 = j
            BY <5>3
          <6>2. s[j] = t[j - 1]
            BY <3>9, <6>1
          <6>3. t[j - 1].offset < t[j].offset
            BY <3>10, <6>1
          <6>4. QED
            BY <5>1, <6>2, <6>3
        <5>4. QED
          BY <5>2, <5>3
      <4>2. QED
        BY <4>1
    <3>13. Len(s) - 1 = n
      BY <3>9
    <3>14. AscendAfter(p, s)
      BY <3>9, <3>11, <3>12, <3>13 DEF AscendAfter
    <3>15. QED
      BY <3>6, <3>14
  <2>4. QED
    BY <2>2, <2>3
<1>5. Size \in S
  BY <1>1, <1>3, <1>4, SetInduction
<1>6. QED
  BY <1>1, <1>5

(* The first section of a kind is one of that kind.                        *)
LEMMA FirstOfKind ==
  ASSUME NEW id, Len(sections) \in Nat, Has(id)
  PROVE  First(id) \in 1 .. Len(sections) /\ sections[First(id)].type = SectionId[id]
<1> DEFINE T == {k \in 1 .. Len(sections) : sections[k].type = SectionId[id]}
<1>1. T \subseteq Nat /\ T # {}
  BY DEF Has
<1>2. PICK k \in T : \A j \in T : k <= j
  BY <1>1, Least
<1>3. \A j \in 1 .. k - 1 : sections[j].type # SectionId[id]
  BY <1>2
<1>4. \E i \in 1 .. Len(sections) :
        /\ sections[i].type = SectionId[id]
        /\ \A j \in 1 .. i - 1 : sections[j].type # SectionId[id]
  BY <1>2, <1>3
<1>5. QED
  BY <1>4 DEF First

LEMMA AtTyped ==
  ASSUME NEW id, sections \in Seq(Places), Has(id)
  PROVE  At(id) \in Nat
<1>1. Len(sections) \in Nat
  BY LenProperties
<1>2. sections[First(id)] \in Places
  BY <1>1, FirstOfKind, ElementOfSeq
<1>3. QED
  BY <1>2 DEF At, Places
-----------------------------------------------------------------------------
(* The imports and the code.                                               *)

LEMMA BringsTyped ==
  ASSUME NEW kind \in Nat, kind <= 3
  PROVE  Brings(kind) \in Seq(FieldNames)
<1>1. kind = 0 \/ kind = 1 \/ kind = 2 \/ kind = 3
  OBVIOUS
<1>2. \A f \in FieldNames : <<f>> \in Seq(FieldNames)
  OBVIOUS
<1>3. \A f, g \in FieldNames : <<f, g>> \in Seq(FieldNames)
  OBVIOUS
<1>4. {"number", "byte", "limits"} \subseteq FieldNames
  BY DEF FieldNames
<1>5. Brings(kind) \in {<<"number">>, <<"byte", "limits">>, <<"limits">>, <<"byte", "byte">>}
  BY <1>1 DEF Brings, Kinds
<1>6. QED
  BY <1>2, <1>3, <1>4, <1>5

LEMMA ImportTyped ==
  ASSUME StreamTyped, NEW p \in Nat
  PROVE  Import(p).at \in Nat
<1> DEFINE shape == <<"name", "name", "byte">>
           head == Read(p, shape)
           brought == Read(head.at, Brings(head.val[3]))
<1>1. head.at \in Nat
  <2>1. shape \in Seq(FieldNames)
    BY DEF FieldNames
  <2> HIDE DEF shape
  <2>2. QED
    BY <2>1, ReadTyped
<1>2. ASSUME head.ok PROVE head.val[3] \in Nat
  <2> DEFINE x == Field("name", p)
             y == Field("name", x.at)
             z == Field("byte", y.at)
  <2>1. head = IF ~ x.ok THEN Got(x.ok, x.at, <<x.val>>)
               ELSE IF ~ y.ok THEN Got(y.ok, y.at, <<x.val, y.val>>)
               ELSE Got(z.ok, z.at, <<x.val, y.val, z.val>>)
    BY ReadThree
  <2>2. x.at \in Nat
    BY FieldTyped DEF FieldNames
  <2> HIDE DEF x
  <2>3. y.at \in Nat
    BY <2>2, FieldTyped DEF FieldNames
  <2> HIDE DEF y
  <2>4. z.val \in Nat
    BY <2>3, Numbers DEF Field, Byte, Got
  <2> HIDE DEF z, head
  <2>5. x.ok /\ y.ok
    BY <1>2, <2>1 DEF Got
  <2>6. head.val = <<x.val, y.val, z.val>>
    BY <2>1, <2>5 DEF Got
  <2>7. QED
    BY <2>4, <2>6
<1>3. Import(p) = IF head.ok /\ head.val[3] <= 3 THEN ImportOf(head.val, brought)
                  ELSE Got(FALSE, head.at, <<>>)
  BY DEF Import
<1> HIDE DEF head
<1>4. CASE head.ok /\ head.val[3] <= 3
  <2>1. brought.at \in Nat
    BY <1>1, <1>2, <1>4, BringsTyped, ReadTyped
  <2> HIDE DEF brought
  <2>2. QED
    BY <1>3, <1>4, <2>1 DEF ImportOf, Got
<1>5. CASE ~ (head.ok /\ head.val[3] <= 3)
  BY <1>1, <1>3, <1>5 DEF Got
<1>6. QED
  BY <1>4, <1>5

LEMMA WalkTyped ==
  ASSUME StreamTyped, sections \in Seq(Places), NEW loader
  PROVE  Len(Walk(loader).val) \in Nat
<1>1. CASE ~ Has("import")
  <2>1. Walk(loader).val = <<>>
    BY <1>1 DEF Walk, Got
  <2>2. QED
    BY <2>1
<1>2. CASE Has("import")
  <2> DEFINE T == {Import(p).val : p \in Nat}
  <2>1. PICK n \in Nat : n = Number(At("import")) /\ Next1(At("import")) \in Nat
    BY <1>2, AtTyped, Numbers
  <2>2. PICK r : /\ r[0] = Got(TRUE, Next1(At("import")), <<>>)
                 /\ \A j \in 1 .. n : r[j] = Step(loader, r[j-1], Import(r[j-1].at))
                 /\ Walk(loader) = r[n]
    BY <1>2, <2>1, WalkSteps
  <2> DEFINE Q == {k \in Nat : k <= n => r[k].at \in Nat /\ r[k].val \in Seq(T)}
  <2>3. 0 \in Q
    <3>1. r[0].at \in Nat /\ r[0].val = <<>>
      BY <2>1, <2>2 DEF Got
    <3> HIDE DEF T
    <3>2. QED
      BY <3>1, EmptySeq
  <2>4. ASSUME NEW k \in Nat, k \in Q
        PROVE  k + 1 \in Q
    <3>1. SUFFICES ASSUME k + 1 <= n PROVE r[k+1].at \in Nat /\ r[k+1].val \in Seq(T)
      OBVIOUS
    <3>2. r[k].at \in Nat /\ r[k].val \in Seq(T) /\ k + 1 \in 1 .. n /\ (k + 1) - 1 = k
      BY <2>4, <3>1
    <3>3. PICK e : e = Import(r[k].at)
      OBVIOUS
    <3>4. e.at \in Nat /\ e.val \in T
      BY <3>2, <3>3, ImportTyped
    <3>5. r[k+1] = Step(loader, r[k], e)
      BY <2>2, <3>2, <3>3
    <3> HIDE DEF T
    <3>6. Append(r[k].val, e.val) \in Seq(T)
      BY <3>2, <3>4, AppendProperties
    <3>7. QED
      BY <3>2, <3>4, <3>5, <3>6 DEF Step, Got
  <2>5. n \in Q
    BY <2>3, <2>4, SetInduction
  <2>6. QED
    BY <2>2, <2>5, LenProperties
<1>3. QED
  BY <1>1, <1>2

BodyPlaces == [offset : Nat, size : Nat]
Inside(f) == input.isFile \/ f.offset + f.size <= Size

LEMMA CodeTyped ==
  ASSUME StreamTyped, sections \in Seq(Places), Has("code")
  PROVE  LET d == Entries("code")
         IN  d.val \in Seq(BodyPlaces) /\ (d.ok => \A k \in 1 .. Len(d.val) : Inside(d.val[k]))
<1>1. PICK n \in Nat : n = Number(At("code")) /\ Next1(At("code")) \in Nat
  BY AtTyped, Numbers
<1>2. PICK r : /\ r[0] = Got(TRUE, Next1(At("code")), <<>>)
               /\ \A j \in 1 .. n : r[j] = Then(r[j-1], Item("code", r[j-1].at))
               /\ Entries("code") = r[n]
  BY <1>1, EntriesSteps
<1> DEFINE Good(d) == /\ d.at \in Nat /\ d.val \in Seq(BodyPlaces)
                      /\ d.ok => \A k \in 1 .. Len(d.val) : Inside(d.val[k])
           Q == {k \in Nat : k <= n => Good(r[k])}
<1>3. 0 \in Q
  <2>1. r[0].at \in Nat /\ r[0].val = <<>>
    BY <1>1, <1>2 DEF Got
  <2>2. Len(r[0].val) = 0
    BY <2>1
  <2>3. r[0].val \in Seq(BodyPlaces)
    BY <2>1, EmptySeq
  <2>4. Good(r[0])
    BY <2>1, <2>2, <2>3
  <2> HIDE DEF Good
  <2>5. QED
    BY <2>4
<1>4. ASSUME NEW k \in Nat, k \in Q
      PROVE  k + 1 \in Q
  <2>1. SUFFICES ASSUME k + 1 <= n PROVE Good(r[k+1])
    OBVIOUS
  <2>2. Good(r[k]) /\ k + 1 \in 1 .. n /\ (k + 1) - 1 = k
    BY <1>4, <2>1
  <2>3. PICK q \in Nat : q = r[k].at
    BY <2>2
  <2>4. PICK e : e = CodeEntry(q)
    OBVIOUS
  <2>5. r[k+1] = Then(r[k], e)
    <3>1. Item("code", q) = e
      BY <2>4 DEF Item
    <3>2. QED
      BY <1>2, <2>2, <2>3, <3>1
  <2>6. e.at \in Nat /\ e.val \in BodyPlaces /\ (e.ok => Inside(e.val))
    <3>1. PICK a \in Nat, b \in Nat : a = Next1(q) /\ b = Number(q)
      BY Numbers
    <3>2. e = Got(CanSeek(a + b), a + b, [offset |-> a, size |-> b])
      BY <2>4, <3>1 DEF CodeEntry
    <3>3. e.at = a + b /\ e.ok = CanSeek(a + b) /\ e.val = [offset |-> a, size |-> b]
      BY <3>2 DEF Got
    <3>4. CanSeek(a + b) => Inside([offset |-> a, size |-> b])
      BY DEF CanSeek, Inside
    <3>5. QED
      BY <3>3, <3>4 DEF BodyPlaces
  <2>7. PICK m \in Nat : m = Len(r[k].val)
    BY <2>2, LenProperties
  <2>8. PICK t : t = Append(r[k].val, e.val)
    OBVIOUS
  <2>9. /\ t \in Seq(BodyPlaces) /\ Len(t) = m + 1 /\ t[m + 1] = e.val
        /\ \A j \in 1 .. m : t[j] = r[k].val[j]
    BY <2>2, <2>6, <2>7, <2>8, AppendProperties
  <2>10. CASE ~ r[k].ok
    BY <2>2, <2>5, <2>10 DEF Then
  <2>11. CASE r[k].ok
    <3>1. r[k+1] = Got(e.ok, e.at, t)
      BY <2>5, <2>8, <2>11 DEF Then
    <3>2. \A j \in 1 .. m : Inside(t[j])
      BY <2>2, <2>7, <2>9, <2>11
    <3>3. e.ok => \A j \in 1 .. m + 1 : Inside(t[j])
      BY <2>6, <2>9, <3>2
    <3>4. QED
      BY <2>6, <2>9, <3>1, <3>3 DEF Got
  <2>12. QED
    BY <2>10, <2>11
<1>5. n \in Q
  BY <1>3, <1>4, SetInduction
<1>6. QED
  BY <1>2, <1>5

(* The function table: what it points at is inside, if the bodies are.     *)
LEMMA TableInside ==
  ASSUME StreamTyped, NEW imported, NEW types, NEW bodies, Len(imported) \in Nat,
         Len(types) \in Nat, bodies \in Seq(BodyPlaces),
         \A k \in 1 .. Len(bodies) : Inside(bodies[k]),
         NEW f \in Range(WithBodies(imported, types, bodies))
  PROVE  Inside(f)
<1> DEFINE n == Len(imported) + Len(types)
           body1(k) == LET d == k - Len(imported)
                       IN  IF d <= Len(bodies) THEN bodies[d] ELSE [offset |-> 0, size |-> 0]
<1>1. PICK k \in 1 .. n : f = WithBodies(imported, types, bodies)[k]
  BY DEF Range, WithBodies
<1>2. Size \in Nat /\ Len(bodies) \in Nat
  BY Numbers, LenProperties
<1>3. Inside([offset |-> 0, size |-> 0])
  BY <1>2 DEF Inside
<1>4. CASE k <= Len(imported)
  <2>1. f = Function(imported[k].desc[1], TRUE, imported[k].name, 0, 0)
    BY <1>1, <1>4 DEF WithBodies
  <2>2. f.offset = 0 /\ f.size = 0
    BY <2>1 DEF Function
  <2>3. QED
    BY <1>2, <2>2 DEF Inside
<1>5. CASE ~ (k <= Len(imported))
  <2>1. f = Function(types[k - Len(imported)], FALSE, <<>>, body1(k).offset, body1(k).size)
    BY <1>1, <1>5 DEF WithBodies
  <2>2. Inside(body1(k))
    <3>1. PICK d \in Nat : d = k - Len(imported) /\ d >= 1
      BY <1>5
    <3>2. d <= Len(bodies) => d \in 1 .. Len(bodies)
      BY <1>2, <3>1
    <3>3. QED
      BY <1>3, <3>1, <3>2
  <2> HIDE DEF body1
  <2>3. f.offset = body1(k).offset /\ f.size = body1(k).size
    BY <2>1 DEF Function
  <2>4. QED
    BY <2>2, <2>3 DEF Inside
<1>6. QED
  BY <1>4, <1>5

-----------------------------------------------------------------------------
(* Type correctness.                                                       *)

TypeInv ==
  /\ TypeOK
  /\ StreamTyped
  /\ sections \in Seq(Places)
  /\ result["header"] = "ok" => 2 <= Size

(* The loaders but one leave the function table alone.                     *)
LEMMA DoneTyped ==
  ASSUME TypeInv, NEW loader \in Loaders, NEW table, NEW ok, Done(loader, table, ok),
         loader = "functions" /\ ok => \A f \in Range(table) : Inside(f)
  PROVE  TypeInv'
<1>1. /\ module' = [module EXCEPT ![loader] = table]
      /\ result' = [result EXCEPT ![loader] = IF ok THEN "ok" ELSE "fail"]
      /\ UNCHANGED <<input, sections, body>>
  BY DEF Done
<1>2. /\ DOMAIN module' = Loaders
      /\ result' \in [Loaders \cup {"header", "sections"} -> {"none", "ok", "fail"}]
  BY <1>1 DEF TypeInv, TypeOK
<1>3. result'["header"] = result["header"]
  BY <1>1 DEF TypeInv, TypeOK, Loaders
<1>4. ASSUME result'["functions"] # "fail", NEW f \in Range(module'["functions"])
      PROVE  input.isFile \/ f.offset + f.size <= Len(input.stream)
  <2>1. CASE loader = "functions"
    <3>1. ok /\ module'["functions"] = table
      BY <1>1, <1>4, <2>1 DEF TypeInv, TypeOK
    <3>2. QED
      BY <1>4, <2>1, <3>1 DEF Inside, Size, Stream
  <2>2. CASE loader # "functions"
    <3>1. module'["functions"] = module["functions"] /\ result'["functions"] = result["functions"]
      BY <1>1, <2>2 DEF TypeInv, TypeOK, Loaders
    <3>2. QED
      BY <1>4, <3>1 DEF TypeInv, TypeOK
  <2>3. QED
    BY <2>1, <2>2
<1>5. TypeOK'
  BY <1>1, <1>2, <1>4 DEF TypeInv, TypeOK
<1>6. QED
  BY <1>1, <1>3, <1>5 DEF TypeInv, StreamTyped, Stream, Size

LEMMA TypeBeginning ==
  ASSUME Init
  PROVE  TypeInv
<1>1. PICK n \in DOMAIN Files :
        input = [name |-> n, stream |-> Files[n].stream, isFile |-> Files[n].isFile]
  BY DEF Init
<1>2. StreamTyped
  BY <1>1, StreamsAssumption DEF StreamTyped, Stream
<1>3. sections \in Seq(Places) /\ Len(sections) = 0
  BY EmptySeq DEF Init
<1>4. TypeOK
  <2>1. module["functions"] = <<>>
    BY DEF Init, Loaders
  <2>2. Range(module["functions"]) = {}
    BY <2>1 DEF Range
  <2>3. QED
    BY <1>3, <2>2 DEF Init, TypeOK, NoBody
<1>5. result["header"] # "ok"
  BY DEF Init
<1>6. QED
  BY <1>2, <1>3, <1>4, <1>5 DEF TypeInv
LEMMA FunctionEntriesTyped ==
  ASSUME StreamTyped, sections \in Seq(Places), Has("function")
  PROVE  Entries("function").val \in Seq(Nat)
<1>1. PICK n \in Nat : n = Number(At("function")) /\ Next1(At("function")) \in Nat
  BY AtTyped, Numbers
<1>2. PICK r : /\ r[0] = Got(TRUE, Next1(At("function")), <<>>)
               /\ \A j \in 1 .. n : r[j] = Then(r[j-1], Item("function", r[j-1].at))
               /\ Entries("function") = r[n]
  BY <1>1, EntriesSteps
<1> DEFINE Q == {k \in Nat : k <= n => r[k].at \in Nat /\ r[k].val \in Seq(Nat)}
<1>3. 0 \in Q
  <2>1. r[0].at \in Nat /\ r[0].val = <<>>
    BY <1>1, <1>2 DEF Got
  <2>2. QED
    BY <2>1, EmptySeq
<1>4. ASSUME NEW k \in Nat, k \in Q
      PROVE  k + 1 \in Q
  <2>1. SUFFICES ASSUME k + 1 <= n PROVE r[k+1].at \in Nat /\ r[k+1].val \in Seq(Nat)
    OBVIOUS
  <2>2. r[k].at \in Nat /\ r[k].val \in Seq(Nat) /\ k + 1 \in 1 .. n /\ (k + 1) - 1 = k
    BY <1>4, <2>1
  <2>3. PICK q \in Nat : q = r[k].at
    BY <2>2
  <2>4. PICK a \in Nat, b \in Nat : a = Next1(q) /\ b = Number(q)
    BY Numbers
  <2>5. r[k+1] = Then(r[k], Got(TRUE, a, b))
    <3>1. Item("function", q) = Got(TRUE, a, b)
      BY <2>4 DEF Item, Field
    <3>2. QED
      BY <1>2, <2>2, <2>3, <3>1
  <2>6. Append(r[k].val, b) \in Seq(Nat)
    BY <2>2, AppendProperties
  <2>7. QED
    BY <2>2, <2>5, <2>6 DEF Then, Got
<1>5. n \in Q
  BY <1>3, <1>4, SetInduction
<1>6. QED
  BY <1>2, <1>5

LEMMA FunctionsTyped ==
  ASSUME TypeInv, LoadFunctions
  PROVE  TypeInv'
<1> DEFINE w == ImportedFunctions
           imported == Chosen(w.val, "function")
           types == IF Has("function") THEN Entries("function").val ELSE <<>>
           code == IF Has("function") /\ Has("code") THEN Entries("code") ELSE Got(TRUE, 0, <<>>)
<1>1. StreamTyped /\ sections \in Seq(Places)
  BY DEF TypeInv
<1>2. Len(imported) \in Nat
  <2>1. Len(w.val) \in Nat
    BY <1>1, WalkTyped DEF ImportedFunctions
  <2> HIDE DEF w
  <2>2. QED
    BY <2>1, ChosenIsSeq, LenProperties
<1>3. Len(types) \in Nat
  <2>1. CASE Has("function")
    BY <1>1, <2>1, FunctionEntriesTyped, LenProperties
  <2>2. CASE ~ Has("function")
    BY <2>2
  <2>3. QED
    BY <2>1, <2>2
<1>4. code.val \in Seq(BodyPlaces) /\ (code.ok => \A k \in 1 .. Len(code.val) : Inside(code.val[k]))
  <2>1. CASE Has("function") /\ Has("code")
    BY <1>1, <2>1, CodeTyped
  <2>2. CASE ~ (Has("function") /\ Has("code"))
    <3>1. code.val = <<>> /\ Len(code.val) = 0
      BY <2>2 DEF Got
    <3> HIDE DEF code
    <3>2. QED
      BY <3>1, EmptySeq
  <2>3. QED
    BY <2>1, <2>2
<1>5. \/ Done("functions", module["functions"], FALSE)
      \/ Done("functions", WithBodies(imported, types, <<>>), FALSE)
      \/ Done("functions", WithBodies(imported, types, code.val), code.ok)
  <2> HIDE DEF imported, types, code
  <2>1. Failed("functions") \/ FunctionsOf(imported, types, code)
    BY DEF LoadFunctions, imported, types, code
  <2>2. QED
    BY <2>1 DEF Failed, FunctionsOf
<1> HIDE DEF imported, types, code, w
<1>6. "functions" \in Loaders
  BY DEF Loaders
<1>7. ASSUME code.ok, NEW f \in Range(WithBodies(imported, types, code.val))
      PROVE  Inside(f)
  BY <1>1, <1>2, <1>3, <1>4, <1>7, TableInside
<1>8. QED
  BY <1>5, <1>6, <1>7, DoneTyped

LEMMA TypeStep ==
  ASSUME TypeInv, [Next]_vars
  PROVE  TypeInv'
<1>1. CASE UNCHANGED vars
  BY <1>1 DEF vars, TypeInv, TypeOK, StreamTyped, Stream, Size
<1>2. CASE LoadHeader
  <2>1. /\ result' = [result EXCEPT !["header"] = IF Size >= 2 THEN "ok" ELSE "fail"]
        /\ UNCHANGED <<input, sections, module, body>>
    BY <1>2 DEF LoadHeader
  <2>2. /\ result' \in [Loaders \cup {"header", "sections"} -> {"none", "ok", "fail"}]
        /\ result'["functions"] = result["functions"]
        /\ result'["header"] = "ok" => 2 <= Size
    <3>1. Size \in Nat
      BY Numbers DEF TypeInv
    <3>2. QED
      BY <2>1, <3>1 DEF TypeInv, TypeOK, Loaders
  <2>3. QED
    BY <2>1, <2>2 DEF TypeInv, TypeOK, StreamTyped, Stream, Size
<1>3. CASE ScanSections
  <2>1. /\ sections' = SectionsFrom(2)
        /\ result' = [result EXCEPT !["sections"] = "ok"]
        /\ UNCHANGED <<input, module, body>>
    BY <1>3 DEF ScanSections
  <2>2. 2 <= Size
    BY <1>3 DEF ScanSections, TypeInv
  <2>3. AscendAfter(2, SectionsFrom(2))
    BY <2>2, SectionsFromAscend DEF TypeInv
  <2>4. /\ result' \in [Loaders \cup {"header", "sections"} -> {"none", "ok", "fail"}]
        /\ result'["functions"] = result["functions"]
        /\ result'["header"] = result["header"]
    BY <2>1 DEF TypeInv, TypeOK, Loaders
  <2>5. /\ sections' \in Seq(Places)
        /\ \A k \in 1 .. Len(sections') - 1 : sections'[k].offset < sections'[k + 1].offset
    BY <2>1, <2>3 DEF AscendAfter
  <2>6. QED
    BY <2>1, <2>4, <2>5 DEF TypeInv, TypeOK, StreamTyped, Stream, Size
<1>4. CASE LoadFunctions
  BY <1>4, FunctionsTyped
<1>5. ASSUME NEW loader \in Loaders \ {"functions"}, NEW table, NEW ok, Done(loader, table, ok)
      PROVE  TypeInv'
  BY <1>5, DoneTyped
<1>6. CASE LoadTypes \/ LoadExports
  <2>1. \E loader \in Loaders \ {"functions"} : \E table, ok : Done(loader, table, ok)
    BY <1>6, Zenon DEF LoadTypes, LoadExports, LoadRequired, DoneWith, Failed, Loaders
  <2>2. QED
    BY <1>5, <2>1
<1>7. CASE LoadTables \/ LoadMemories \/ LoadGlobals
  <2>1. \E loader \in Loaders \ {"functions"} : \E table, ok : Done(loader, table, ok)
    BY <1>7, Zenon DEF LoadTables, LoadMemories, LoadGlobals, LoadBoth, DoneWith, Failed, Loaders
  <2>2. QED
    BY <1>5, <2>1
<1>8. CASE LoadElements \/ LoadData
  <2>1. \E loader \in Loaders \ {"functions"} : \E table, ok : Done(loader, table, ok)
    BY <1>8, Zenon DEF LoadElements, LoadData, LoadOptional, DoneWith, Loaders
  <2>2. QED
    BY <1>5, <2>1
<1>9. ASSUME NEW i \in 1 .. Len(module["functions"]), LoadBody(i)
      PROVE  TypeInv'
  <2>1. UNCHANGED <<input, sections, module, result>> /\ body'.fn \in Int
    <3>1. 1 .. Len(module["functions"]) \subseteq Int
      OBVIOUS
    <3>2. i \in Int
      BY <3>1
    <3>3. body'.fn = i \/ body' = NoBody
      BY <1>9 DEF LoadBody
    <3>4. QED
      BY <1>9, <3>2, <3>3 DEF LoadBody, NoBody
  <2>2. QED
    BY <2>1 DEF TypeInv, TypeOK, StreamTyped, Stream, Size
<1>10. QED
  BY <1>1, <1>2, <1>3, <1>4, <1>6, <1>7, <1>8, <1>9 DEF Next

(* Whatever the stream is, the tables keep their shape, the sections that  *)
(* were found come one after the other, and in a buffer the functions of a *)
(* table that was loaded point at bytes of the buffer.                     *)
THEOREM TypeCorrect == Spec => []TypeOK
<1>1. Init => TypeInv
  BY TypeBeginning
<1>2. TypeInv /\ [Next]_vars => TypeInv'
  BY TypeStep
<1>3. TypeInv => TypeOK
  BY DEF TypeInv
<1>4. QED
  BY <1>1, <1>2, <1>3, PTL DEF Spec
-----------------------------------------------------------------------------
(* What stands at a place of the stream.                                   *)

Stands(p, list) ==
  /\ p + Len(list) <= Size
  /\ \A k \in 1 .. Len(list) : Stream[p + k] = list[k]

LEMMA StandsParts ==
  ASSUME NEW p \in Nat, NEW a \in Seq(Nat), NEW b \in Seq(Nat), Stands(p, a \o b), StreamTyped
  PROVE  /\ Stands(p, a) /\ Stands(p + Len(a), b)
         /\ a \o b \in Seq(Nat) /\ Len(a) \in Nat /\ Len(b) \in Nat
         /\ Len(a \o b) = Len(a) + Len(b)
<1>1. PICK n \in Nat, m \in Nat : n = Len(a) /\ m = Len(b)
  BY LenProperties
<1>2. PICK c : c = a \o b
  OBVIOUS
<1>3. c \in Seq(Nat) /\ Len(c) = n + m
  BY <1>1, <1>2, ConcatProperties
<1>4. \A k \in 1 .. n + m : c[k] = IF k <= n THEN a[k] ELSE b[k - n]
  BY <1>1, <1>2, ConcatProperties
<1>5. p + (n + m) <= Size /\ \A k \in 1 .. n + m : Stream[p + k] = c[k]
  BY <1>2, <1>3 DEF Stands
<1>6. Size \in Nat
  BY Numbers
<1>7. Stands(p, a)
  <2>1. p + n <= Size
    BY <1>5, <1>6
  <2>2. ASSUME NEW k \in 1 .. n PROVE Stream[p + k] = a[k]
    <3>1. k \in 1 .. n + m /\ k <= n
      OBVIOUS
    <3>2. QED
      BY <1>4, <1>5, <3>1
  <2>3. QED
    BY <1>1, <2>1, <2>2 DEF Stands
<1>8. Stands(p + n, b)
  <2>1. (p + n) + m <= Size
    BY <1>5, <1>6
  <2>2. ASSUME NEW k \in 1 .. m PROVE Stream[(p + n) + k] = b[k]
    <3>1. n + k \in 1 .. n + m /\ ~ (n + k <= n) /\ (n + k) - n = k /\ (p + n) + k = p + (n + k)
      OBVIOUS
    <3>2. QED
      BY <1>4, <1>5, <3>1
  <2>3. QED
    BY <1>1, <2>1, <2>2 DEF Stands
<1>9. QED
  BY <1>1, <1>2, <1>3, <1>7, <1>8

LEMMA StandsInThree ==
  ASSUME NEW p \in Nat, NEW a \in Seq(Nat), NEW b \in Seq(Nat), NEW c \in Seq(Nat),
         Stands(p, a \o b \o c), StreamTyped
  PROVE  /\ Len(a) \in Nat /\ Len(b) \in Nat /\ Len(c) \in Nat
         /\ Stands(p, a) /\ Stands(p + Len(a), b) /\ Stands(p + Len(a) + Len(b), c)
         /\ a \o b \o c \in Seq(Nat) /\ Len(a \o b \o c) = Len(a) + Len(b) + Len(c)
<1>1. PICK d : d = a \o b
  OBVIOUS
<1>2. d \in Seq(Nat)
  BY <1>1, ConcatProperties
<1>3. Stands(p, d \o c)
  BY <1>1
<1>4. Stands(p, d)
  BY <1>2, <1>3, StandsParts
<1>5. Stands(p + Len(d), c)
  BY <1>2, <1>3, StandsParts
<1>6. Len(d \o c) = Len(d) + Len(c) /\ d \o c \in Seq(Nat)
  BY <1>2, <1>3, StandsParts
<1>7. Stands(p, a \o b)
  BY <1>1, <1>4
<1>8. Stands(p, a)
  BY <1>7, StandsParts
<1>9. Stands(p + Len(a), b)
  BY <1>7, StandsParts
<1>10. Len(d) = Len(a) + Len(b)
  BY <1>1, <1>7, StandsParts
<1>11. Len(a) \in Nat /\ Len(b) \in Nat /\ Len(c) \in Nat
  BY LenProperties
<1>12. p + Len(d) = p + Len(a) + Len(b)
  BY <1>10, <1>11
<1>13. Stands(p + Len(a) + Len(b), c)
  BY <1>5, <1>12
<1>14. Len(a \o b \o c) = Len(a) + Len(b) + Len(c)
  BY <1>1, <1>6, <1>10
<1>15. QED
  BY <1>1, <1>6, <1>8, <1>9, <1>11, <1>13, <1>14

LEMMA StandsInFour ==
  ASSUME NEW p \in Nat, NEW a \in Seq(Nat), NEW b \in Seq(Nat), NEW c \in Seq(Nat),
         NEW d \in Seq(Nat), Stands(p, a \o b \o c \o d), StreamTyped
  PROVE  /\ Len(a) \in Nat /\ Len(b) \in Nat /\ Len(c) \in Nat /\ Len(d) \in Nat
         /\ Stands(p, a) /\ Stands(p + Len(a), b) /\ Stands(p + Len(a) + Len(b), c)
         /\ Stands(p + Len(a) + Len(b) + Len(c), d)
         /\ a \o b \o c \o d \in Seq(Nat)
         /\ Len(a \o b \o c \o d) = Len(a) + Len(b) + Len(c) + Len(d)
<1>1. PICK e : e = a \o b \o c
  OBVIOUS
<1>2. e \in Seq(Nat)
  <2>1. a \o b \in Seq(Nat)
    BY ConcatProperties
  <2>2. QED
    BY <1>1, <2>1, ConcatProperties
<1>3. Stands(p, e \o d)
  BY <1>1
<1>4. Stands(p, e)
  BY <1>2, <1>3, StandsParts
<1>5. Stands(p + Len(e), d)
  BY <1>2, <1>3, StandsParts
<1>6. Len(e \o d) = Len(e) + Len(d) /\ e \o d \in Seq(Nat)
  BY <1>2, <1>3, StandsParts
<1>7. Stands(p, a \o b \o c)
  BY <1>1, <1>4
<1>8. Stands(p, a) /\ Stands(p + Len(a), b)
  BY <1>7, StandsInThree
<1>9. Stands(p + Len(a) + Len(b), c)
  BY <1>7, StandsInThree
<1>10. Len(e) = Len(a) + Len(b) + Len(c)
  BY <1>1, <1>7, StandsInThree
<1>11. Len(a) \in Nat /\ Len(b) \in Nat /\ Len(c) \in Nat /\ Len(d) \in Nat
  BY LenProperties
<1>12. p + Len(e) = p + Len(a) + Len(b) + Len(c)
  BY <1>10, <1>11
<1>13. Stands(p + Len(a) + Len(b) + Len(c), d)
  BY <1>5, <1>12
<1>14. Len(a \o b \o c \o d) = Len(a) + Len(b) + Len(c) + Len(d)
  BY <1>1, <1>6, <1>10
<1>15. QED
  BY <1>1, <1>6, <1>8, <1>9, <1>11, <1>13, <1>14

LEMMA StandsOne ==
  ASSUME StreamTyped, NEW p \in Nat, NEW v, Stands(p, <<v>>)
  PROVE  Here(p) /\ p < Size /\ Number(p) = v /\ Next1(p) = p + 1 /\ p + 1 \in Nat
<1>1. Len(<<v>>) = 1 /\ <<v>>[1] = v
  OBVIOUS
<1>2. p + 1 <= Size /\ Stream[p + 1] = v
  BY <1>1 DEF Stands
<1>3. Size \in Nat /\ p < Size
  BY <1>2, Numbers
<1>4. QED
  BY <1>2, <1>3, Numbers DEF Here

LEMMA OneStands ==
  ASSUME NEW p \in Nat, NEW v, p + 1 <= Size, Stream[p + 1] = v
  PROVE  Stands(p, <<v>>)
<1>1. PICK h : h = <<v>> /\ Len(h) = 1 /\ h[1] = v
  <2>1. Len(<<v>>) = 1 /\ <<v>>[1] = v
    OBVIOUS
  <2>2. QED
    BY <2>1, Zenon
<1>2. Stands(p, h)
  BY <1>1 DEF Stands
<1>3. QED
  BY <1>1, <1>2

LEMMA StandsTwo ==
  ASSUME StreamTyped, NEW p \in Nat, NEW v, NEW w, Stands(p, <<v, w>>)
  PROVE  Stands(p, <<v>>) /\ Stands(p + 1, <<w>>)
<1>1. Len(<<v, w>>) = 2 /\ <<v, w>>[1] = v /\ <<v, w>>[2] = w
  OBVIOUS
<1>2. p + 2 <= Size /\ Stream[p + 1] = v /\ Stream[p + 2] = w
  BY <1>1 DEF Stands
<1>3. p + 1 <= Size /\ p + 1 \in Nat /\ (p + 1) + 1 = p + 2
  BY <1>2, Numbers
<1>4. QED
  BY <1>2, <1>3, OneStands

LEMMA StandsThree ==
  ASSUME StreamTyped, NEW p \in Nat, NEW u, NEW v, NEW w, Stands(p, <<u, v, w>>)
  PROVE  Stands(p, <<u>>) /\ Stands(p + 1, <<v>>) /\ Stands(p + 2, <<w>>)
<1>1. Len(<<u, v, w>>) = 3 /\ <<u, v, w>>[1] = u /\ <<u, v, w>>[2] = v /\ <<u, v, w>>[3] = w
  OBVIOUS
<1>2. p + 3 <= Size /\ Stream[p + 1] = u /\ Stream[p + 2] = v /\ Stream[p + 3] = w
  BY <1>1 DEF Stands
<1>3. /\ p + 1 <= Size /\ (p + 1) + 1 <= Size /\ (p + 1) + 1 = p + 2 /\ (p + 2) + 1 = p + 3
      /\ p + 1 \in Nat /\ p + 2 \in Nat
  BY <1>2, Numbers
<1>4. QED
  BY <1>2, <1>3, OneStands

-----------------------------------------------------------------------------
(* Fields, as they are written.                                            *)

Took(what, p, q, v) == Field(what, p) = Got(TRUE, q, v)
Reads(p, shape, q, v) == Read(p, shape) = Got(TRUE, q, v)

LEMMA NumberField ==
  ASSUME StreamTyped, NEW p \in Nat, NEW v, Stands(p, <<v>>),
         NEW what \in {"number", "index", "byte"}
  PROVE  Took(what, p, p + 1, v)
BY StandsOne DEF Took, Field, Byte

LEMMA NameField ==
  ASSUME StreamTyped, NEW p \in Nat, NEW x \in Nat, Stands(p, NameItems(x))
  PROVE  Took("name", p, p + Len(NameItems(x)), x)
<1>1. Field("name", p) = NameAt(Next1(p), Number(p))
  BY DEF Field, Name
<1>2. CASE x = 0
  <2>1. NameItems(x) = <<0>> /\ Len(NameItems(x)) = 1
    BY <1>2 DEF NameItems
  <2>2. Next1(p) = p + 1 /\ Number(p) = 0
    BY <2>1, StandsOne
  <2>3. QED
    BY <1>1, <1>2, <2>1, <2>2 DEF NameAt, Took
<1>3. CASE x # 0
  <2>1. NameItems(x) = <<1, x>> /\ Len(NameItems(x)) = 2
    BY <1>3 DEF NameItems
  <2>2. Stands(p, <<1>>) /\ Stands(p + 1, <<x>>)
    BY <2>1, StandsTwo
  <2>3. Next1(p) = p + 1 /\ Number(p) = 1 /\ p + 1 \in Nat
    BY <2>2, StandsOne
  <2>4. Here(p + 1) /\ Next1(p + 1) = (p + 1) + 1 /\ Number(p + 1) = x
    BY <2>2, StandsOne
  <2>5. NameAt(p + 1, 1) = Got(TRUE, (p + 1) + 1, x)
    <3>1. 1 # 0
      OBVIOUS
    <3>2. QED
      BY <2>4, <3>1, Zenon DEF NameAt
  <2>6. (p + 1) + 1 = p + 2
    OBVIOUS
  <2>7. QED
    BY <1>1, <2>1, <2>3, <2>5, <2>6 DEF Took
<1>4. QED
  BY <1>2, <1>3

LEMMA BytesField ==
  ASSUME StreamTyped, NEW p \in Nat, NEW s \in Seq(Nat), Stands(p, BytesItems(s))
  PROVE  /\ Took("bytes", p, p + Len(BytesItems(s)), s)
         /\ Len(BytesItems(s)) = 1 + Len(s) /\ Len(s) \in Nat
<1>1. PICK n \in Nat : n = Len(s)
  BY LenProperties
<1>2. <<n>> \in Seq(Nat) /\ Len(<<n>>) = 1
  OBVIOUS
<1>3. Stands(p, <<n>>) /\ Stands(p + 1, s)
  BY <1>1, <1>2, StandsParts DEF BytesItems
<1>10. Len(BytesItems(s)) = 1 + n
  BY <1>1, <1>2, StandsParts DEF BytesItems
<1>4. Next1(p) = p + 1 /\ Number(p) = n /\ p + 1 \in Nat
  BY <1>3, StandsOne
<1>5. PICK q \in Nat : q = p + 1
  OBVIOUS
<1>6. q + n <= Size /\ \A k \in 1 .. n : Stream[q + k] = s[k]
  BY <1>1, <1>3, <1>5 DEF Stands
<1>7. SubSeq(Stream, q + 1, q + n) = s
  BY <1>1, <1>6, SubSeqIs DEF StreamTyped, Size
<1>8. Field("bytes", p) = BytesAt(q, q + n)
  BY <1>4, <1>5 DEF Field, Bytes
<1>11. QED
  <2>1. Field("bytes", p) = Got(TRUE, q + n, s)
    BY <1>6, <1>7, <1>8 DEF BytesAt
  <2>2. q + n = p + (1 + n)
    BY <1>5
  <2>3. QED
    BY <1>1, <1>10, <2>1, <2>2 DEF Took

LEMMA LimitsField ==
  ASSUME StreamTyped, NEW p \in Nat, NEW l, IsLimits(l), Stands(p, LimitItems(l))
  PROVE  Limits(p) = Got(TRUE, p + Len(LimitItems(l)), l)
<1> DEFINE h == <<l.flags, l.initial>>
           t == IF l.flags % 2 = 1 THEN <<l.max>> ELSE <<>>
<1>1. LimitItems(l) = h \o t
  BY DEF LimitItems
<1>2. h \in Seq(Nat) /\ t \in Seq(Nat) /\ Len(h) = 2
  BY DEF IsLimits
<1>3. PICK flags \in Nat : flags = l.flags
  BY DEF IsLimits
<1>4. /\ l = [flags |-> flags, initial |-> l.initial, max |-> l.max]
      /\ flags % 2 = 0 => l.max = 0
  BY <1>3 DEF IsLimits
<1> HIDE DEF t
<1>5. Stands(p, <<flags, l.initial>>) /\ Stands(p + 2, t) /\ Len(LimitItems(l)) = 2 + Len(t)
  <2>1. Stands(p, h \o t)
    BY <1>1
  <2>2. h = <<flags, l.initial>>
    BY <1>3
  <2> HIDE DEF h
  <2>3. PICK a \in Seq(Nat), b \in Seq(Nat) : a = h /\ b = t
    BY <1>2
  <2>5. Stands(p, a \o b)
    BY <2>1, <2>3
  <2>6. Stands(p, a)
    BY <2>5, StandsParts
  <2>7. Stands(p + Len(a), b)
    BY <2>5, StandsParts
  <2>8. Len(a \o b) = Len(a) + Len(b)
    BY <2>5, StandsParts
  <2>9. Len(a) = 2 /\ LimitItems(l) = a \o b
    BY <1>1, <1>2, <2>3
  <2>10. Stands(p + 2, b) /\ Len(LimitItems(l)) = 2 + Len(b)
    BY <2>7, <2>8, <2>9
  <2>11. QED
    BY <2>2, <2>3, <2>6, <2>10
<1>6. Stands(p, <<flags>>) /\ Stands(p + 1, <<l.initial>>)
  BY <1>5, StandsTwo
<1>7. Number(p) = flags /\ Next1(p) = p + 1 /\ p + 1 \in Nat
  BY <1>6, StandsOne
<1>8. Number(p + 1) = l.initial /\ Next1(p + 1) = (p + 1) + 1
  BY <1>6, StandsOne
<1>9. (p + 1) + 1 = p + 2 /\ p + 2 \in Nat
  OBVIOUS
<1>10. CASE flags % 2 = 1
  <2>1. t = <<l.max>> /\ Len(t) = 1
    BY <1>3, <1>10 DEF t
  <2>2. Number(p + 2) = l.max /\ Next1(p + 2) = (p + 2) + 1
    BY <1>5, <1>9, <2>1, StandsOne
  <2>3. Limits(p) = Got(TRUE, (p + 2) + 1, [flags |-> flags, initial |-> l.initial, max |-> l.max])
    BY <1>7, <1>8, <1>9, <1>10, <2>2, Zenon DEF Limits
  <2>4. (p + 2) + 1 = p + Len(LimitItems(l))
    BY <1>5, <2>1
  <2>5. QED
    BY <1>4, <2>3, <2>4
<1>11. CASE flags % 2 # 1
  <2>1. t = <<>> /\ Len(t) = 0
    BY <1>3, <1>11 DEF t
  <2>2. l.max = 0
    BY <1>4, <1>11
  <2>3. Limits(p) = Got(TRUE, p + 2, [flags |-> flags, initial |-> l.initial, max |-> 0])
    BY <1>7, <1>8, <1>9, <1>11, Zenon DEF Limits
  <2>4. p + 2 = p + Len(LimitItems(l))
    BY <1>5, <2>1
  <2>5. QED
    BY <1>4, <2>2, <2>3, <2>4
<1>12. QED
  BY <1>10, <1>11

LEMMA LimitsTook ==
  ASSUME StreamTyped, NEW p \in Nat, NEW l, IsLimits(l), Stands(p, LimitItems(l))
  PROVE  Took("limits", p, p + Len(LimitItems(l)), l)
BY LimitsField DEF Took, Field

(* Of what a step of a loader has read: if it is there it is what was      *)
(* written, and it is there if that is sure.                               *)
Answers(x, sure, q, v) == (x.ok => x = Got(TRUE, q, v)) /\ (sure => x.ok)

LEMMA ThenAnswers ==
  ASSUME NEW sure, NEW w, NEW x, NEW p, NEW q, NEW f, NEW v, Answers(w, sure, p, f),
         w.at = p => Answers(x, sure, q, v)
  PROVE  Answers(Then(w, x), sure, q, Append(f, v))
<1>1. PICK y : y = Then(w, x)
  OBVIOUS
<1>2. CASE w.ok
  <2>1. w.at = p /\ w.val = f
    BY <1>2 DEF Answers, Got
  <2>2. Answers(x, sure, q, v)
    BY <2>1
  <2>3. PICK g : g = Append(f, v)
    OBVIOUS
  <2>4. x.ok => x.at = q /\ x.val = v
    BY <2>2 DEF Answers, Got
  <2>5. y = Got(x.ok, x.at, Append(w.val, x.val))
    BY <1>1, <1>2 DEF Then
  <2>6. y.ok = x.ok
    BY <2>5 DEF Got
  <2>7. CASE x.ok
    <3>1. x.ok = TRUE
      BY <2>2, <2>7 DEF Answers, Got
    <3>2. y = Got(TRUE, q, g)
      BY <2>1, <2>3, <2>4, <2>5, <2>7, <3>1
    <3>3. y.ok
      BY <3>2 DEF Got
    <3>4. QED
      BY <1>1, <2>3, <3>2, <3>3 DEF Answers
  <2>8. CASE ~ x.ok
    <3>1. ~ y.ok /\ ~ sure
      BY <2>2, <2>6, <2>8 DEF Answers
    <3>2. QED
      BY <1>1, <3>1 DEF Answers
  <2>9. QED
    BY <2>7, <2>8
<1>3. CASE ~ w.ok
  <2>1. y = w
    BY <1>1, <1>3 DEF Then
  <2>2. QED
    BY <1>1, <1>3, <2>1 DEF Answers
<1>4. QED
  BY <1>2, <1>3

Follow(r, x, n, p) ==
  r[0] = Got(TRUE, p, <<>>) /\ \A j \in 1 .. n : r[j] = Then(r[j-1], x[j])
Tell(r, x, n, sure, V, places) ==
  \A j \in 1 .. n : r[j-1].at = places[j] => Answers(x[j], sure, places[j + 1], V[j])

LEMMA ChainAnswers ==
  ASSUME NEW r, NEW x, NEW n \in Nat, NEW sure, NEW V, NEW places,
         Follow(r, x, n, places[1]), Tell(r, x, n, sure, V, places)
  PROVE  Answers(r[n], sure, places[n + 1], [k \in 1 .. n |-> V[k]])
<1> DEFINE f(j) == [k \in 1 .. j |-> V[k]]
           Q == {j \in Nat : j <= n => Answers(r[j], sure, places[j + 1], f(j))}
<1>1. 0 \in Q
  <2>1. f(0) = <<>> /\ 0 + 1 = 1
    BY AppendNext
  <2>2. Answers(r[0], sure, places[1], <<>>)
    BY DEF Answers, Got, Follow
  <2>3. QED
    BY <2>1, <2>2
<1>2. ASSUME NEW j \in Nat, j \in Q
      PROVE  j + 1 \in Q
  <2>1. SUFFICES ASSUME j + 1 <= n
                 PROVE  Answers(r[j + 1], sure, places[(j + 1) + 1], f(j + 1))
    OBVIOUS
  <2>2. Answers(r[j], sure, places[j + 1], f(j))
    BY <1>2, <2>1
  <2>3. j + 1 \in 1 .. n /\ (j + 1) - 1 = j
    BY <2>1
  <2>4. r[j + 1] = Then(r[j], x[j + 1])
    BY <2>3 DEF Follow
  <2>5. r[j].at = places[j + 1] => Answers(x[j + 1], sure, places[(j + 1) + 1], V[j + 1])
    BY <2>3 DEF Tell
  <2>6. Append(f(j), V[j + 1]) = f(j + 1)
    BY AppendNext
  <2> HIDE DEF f
  <2>7. Answers(Then(r[j], x[j + 1]), sure, places[(j + 1) + 1], Append(f(j), V[j + 1]))
    BY <2>2, <2>5, ThenAnswers
  <2>8. QED
    BY <2>4, <2>6, <2>7
<1>3. n \in Q
  BY <1>1, <1>2, SetInduction
<1>4. QED
  BY <1>3

(* Fields that are there, one after the other.                             *)
LEMMA ReadsOne ==
  ASSUME NEW p, NEW a, NEW q, NEW u, Took(a, p, q, u)
  PROVE  Reads(p, <<a>>, q, <<u>>)
<1>1. Field(a, p).ok = TRUE /\ Field(a, p).at = q /\ Field(a, p).val = u
  BY DEF Got, Took
<1>2. QED
  BY <1>1, ReadOne DEF Reads

LEMMA ReadsTwo ==
  ASSUME NEW p, NEW a, NEW b, NEW q, NEW u, NEW r, NEW v, Took(a, p, q, u), Took(b, q, r, v)
  PROVE  Reads(p, <<a, b>>, r, <<u, v>>)
<1>1. Field(a, p).ok = TRUE /\ Field(a, p).at = q /\ Field(a, p).val = u
  BY DEF Got, Took
<1>2. Field(b, q).ok = TRUE /\ Field(b, q).at = r /\ Field(b, q).val = v
  BY DEF Got, Took
<1>3. QED
  BY <1>1, <1>2, ReadTwo DEF Reads

LEMMA ReadsThree ==
  ASSUME NEW p, NEW a, NEW b, NEW c, NEW q, NEW u, NEW r, NEW v, NEW t, NEW w,
         Took(a, p, q, u), Took(b, q, r, v), Took(c, r, t, w)
  PROVE  Reads(p, <<a, b, c>>, t, <<u, v, w>>)
<1>1. Field(a, p).ok = TRUE /\ Field(a, p).at = q /\ Field(a, p).val = u
  BY DEF Got, Took
<1>2. Field(b, q).ok = TRUE /\ Field(b, q).at = r /\ Field(b, q).val = v
  BY DEF Got, Took
<1>3. Field(c, r).ok = TRUE /\ Field(c, r).at = t /\ Field(c, r).val = w
  BY DEF Got, Took
<1>4. QED
  BY <1>1, <1>2, <1>3, ReadThree DEF Reads

LEMMA ReadsAll ==
  ASSUME NEW shape, NEW n \in Nat, n = Len(shape), NEW places, NEW V,
         \A k \in 1 .. n : Took(shape[k], places[k], places[k + 1], V[k])
  PROVE  Reads(places[1], shape, places[n + 1], [k \in 1 .. n |-> V[k]])
<1>1. PICK p : p = places[1]
  OBVIOUS
<1>2. PICK r : /\ r[0] = Got(TRUE, p, <<>>)
               /\ \A j \in 1 .. n : r[j] = Then(r[j-1], Field(shape[j], r[j-1].at))
               /\ Read(p, shape) = r[n]
  BY ReadSteps
<1>3. PICK x : x = [j \in 1 .. n |-> Field(shape[j], r[j-1].at)]
  OBVIOUS
<1>4. \A j \in 1 .. n : x[j] = Field(shape[j], r[j-1].at)
  BY <1>3
<1>5. Follow(r, x, n, places[1])
  BY <1>1, <1>2, <1>4 DEF Follow
<1>6. PICK sure : sure = TRUE
  OBVIOUS
<1>7. Tell(r, x, n, sure, V, places)
  BY <1>4, <1>6 DEF Took, Answers, Got, Tell
<1>8. Answers(r[n], sure, places[n + 1], [k \in 1 .. n |-> V[k]])
  BY <1>5, <1>7, ChainAnswers
<1>9. QED
  BY <1>1, <1>2, <1>6, <1>8 DEF Answers, Reads

LEMMA ConstantField ==
  ASSUME StreamTyped, NEW p \in Nat, NEW op, NEW v, NEW ops, op \in ops,
         Stands(p, <<op, v, End>>)
  PROVE  /\ Constant(p, ops) = Got(TRUE, p + 3, <<op, v>>)
         /\ Number(p) = op /\ Number(p + 1) = v
<1>1. Stands(p, <<op>>) /\ Stands(p + 1, <<v>>) /\ Stands(p + 2, <<End>>)
  BY StandsThree
<1>2. Number(p) = op
  BY <1>1, StandsOne
<1>3. Number(p + 1) = v
  BY <1>1, StandsOne
<1>4. Here(p + 2) /\ Number(p + 2) = End
  BY <1>1, StandsOne
<1>5. QED
  BY <1>2, <1>3, <1>4 DEF Constant

(* What entries are written with are numbers.                              *)
LEMMA NumberItems ==
  /\ \A x \in Nat : NameItems(x) \in Seq(Nat)
  /\ \A l : IsLimits(l) => LimitItems(l) \in Seq(Nat)
  /\ \A s \in Seq(Nat) : BytesItems(s) \in Seq(Nat)
<1>1. \A x, y \in Nat : <<x>> \in Seq(Nat) /\ <<x, y>> \in Seq(Nat)
  OBVIOUS
<1>2. \A x \in Nat : NameItems(x) \in Seq(Nat)
  BY <1>1 DEF NameItems
<1>3. ASSUME NEW l, IsLimits(l) PROVE LimitItems(l) \in Seq(Nat)
  <2> DEFINE t == IF l.flags % 2 = 1 THEN <<l.max>> ELSE <<>>
  <2>1. <<l.flags, l.initial>> \in Seq(Nat) /\ t \in Seq(Nat)
    BY <1>1, <1>3, EmptySeq DEF IsLimits
  <2>2. LimitItems(l) = <<l.flags, l.initial>> \o t
    BY DEF LimitItems
  <2> HIDE DEF t
  <2>3. QED
    BY <2>1, <2>2, ConcatProperties
<1>4. ASSUME NEW s \in Seq(Nat) PROVE BytesItems(s) \in Seq(Nat)
  <2>1. <<Len(s)>> \in Seq(Nat)
    BY <1>1, LenProperties
  <2>2. QED
    BY <2>1, ConcatProperties DEF BytesItems
<1>5. QED
  BY <1>2, <1>3, <1>4

LEMMA FunctionTypeEntry ==
  ASSUME StreamTyped, NEW p \in Nat, NEW t, IsFunctionType(t), Stands(p, FunctionTypeItems(t))
  PROVE  FunctionType(p) = Got(TRUE, p + Len(FunctionTypeItems(t)), t)
<1>1. PICK a, b : t = <<a, b>> /\ a \in Seq(Nat) /\ b \in Seq(Nat) /\ a = t[1] /\ b = t[2]
  BY DEF IsFunctionType
<1>2. PICK h, i, j : /\ h = <<96>> /\ i = BytesItems(a) /\ j = BytesItems(b)
                     /\ h \in Seq(Nat) /\ i \in Seq(Nat) /\ j \in Seq(Nat) /\ Len(h) = 1
  <2>1. <<96>> \in Seq(Nat) /\ Len(<<96>>) = 1
    OBVIOUS
  <2>2. QED
    BY <1>1, <2>1, NumberItems
<1>3. FunctionTypeItems(t) = h \o i \o j
  BY <1>1, <1>2 DEF FunctionTypeItems
<1>4. Stands(p, h \o i \o j)
  BY <1>3
<1>5. PICK q, r, z : q = p + Len(h) /\ r = p + Len(h) + Len(i)
                     /\ z = p + Len(h) + Len(i) + Len(j)
  OBVIOUS
<1>6. Stands(p, h) /\ Stands(q, i) /\ Stands(r, j)
  <2>1. h \in Seq(Nat) /\ i \in Seq(Nat) /\ j \in Seq(Nat)
    BY <1>2
  <2>2. Stands(p, h) /\ Stands(p + Len(h), i) /\ Stands(p + Len(h) + Len(i), j)
    BY <1>4, <2>1, StandsInThree
  <2>3. QED
    BY <1>5, <2>2
<1>7. Len(h \o i \o j) = Len(h) + Len(i) + Len(j) /\ Len(i) \in Nat /\ Len(j) \in Nat
  BY <1>2, <1>4, StandsInThree
<1>8. q \in Nat /\ r \in Nat /\ q = p + 1 /\ r = q + Len(i) /\ z = r + Len(j)
      /\ z = p + Len(h \o i \o j)
  BY <1>2, <1>5, <1>7
<1>9. Took("byte", p, q, 96)
  BY <1>2, <1>6, <1>8, NumberField
<1>10. Took("bytes", q, r, a)
  BY <1>1, <1>2, <1>6, <1>8, BytesField
<1>11. Took("bytes", r, z, b)
  <2>1. Took("bytes", r, r + Len(BytesItems(b)), b)
    BY <1>1, <1>2, <1>6, <1>8, BytesField
  <2>2. QED
    BY <1>2, <1>8, <2>1
<1>12. Reads(p, <<"byte", "bytes", "bytes">>, z, <<96, a, b>>)
  BY <1>9, <1>10, <1>11, ReadsThree
<1>13. FunctionType(p) = Got(TRUE, z, <<a, b>>)
  <2>1. <<96, a, b>>[1] = 96 /\ <<96, a, b>>[2] = a /\ <<96, a, b>>[3] = b
    OBVIOUS
  <2>2. PICK r1 : r1 = Read(p, <<"byte", "bytes", "bytes">>)
    OBVIOUS
  <2>3. PICK v : v = <<96, a, b>> /\ v[1] = 96 /\ v[2] = a /\ v[3] = b
    BY <2>1, Zenon
  <2>4. r1.ok = TRUE /\ r1.at = z /\ r1.val = v
    BY <1>12, <2>2, <2>3 DEF Got, Reads
  <2>5. FunctionType(p) = Accept(r1, r1.val[1] = 96, <<r1.val[2], r1.val[3]>>)
    BY <2>2 DEF FunctionType
  <2>6. QED
    BY <2>3, <2>4, <2>5 DEF Accept
<1>14. QED
  BY <1>1, <1>3, <1>8, <1>13
LEMMA TableField ==
  ASSUME StreamTyped, NEW p \in Nat, NEW t, IsTable(t), Stands(p, TableItems(t))
  PROVE  Reads(p, <<"byte", "limits">>, p + Len(TableItems(t)), t)
<1>1. PICK a, l : t = <<a, l>> /\ a = t[1] /\ l = t[2] /\ a \in Nat /\ IsLimits(l)
  BY DEF IsTable, RefTypes, FUNCREF, EXTERNREF
<1>2. PICK h, i : h = <<a>> /\ i = LimitItems(l) /\ h \in Seq(Nat) /\ i \in Seq(Nat) /\ Len(h) = 1
  <2>1. <<a>> \in Seq(Nat) /\ Len(<<a>>) = 1
    BY <1>1
  <2>2. QED
    BY <1>1, <2>1, NumberItems
<1>3. TableItems(t) = h \o i
  BY <1>1, <1>2 DEF TableItems
<1>4. h \in Seq(Nat) /\ i \in Seq(Nat)
  BY <1>2
<1>5. Stands(p, h \o i)
  BY <1>3
<1>6. Stands(p, h) /\ Stands(p + Len(h), i)
  BY <1>4, <1>5, StandsParts
<1>7. Len(h \o i) = Len(h) + Len(i) /\ Len(i) \in Nat
  BY <1>4, <1>5, StandsParts
<1>8. Took("byte", p, p + 1, a)
  BY <1>2, <1>6, NumberField
<1>9. Took("limits", p + 1, (p + 1) + Len(i), l)
  <2>1. p + 1 \in Nat /\ Stands(p + 1, LimitItems(l))
    BY <1>2, <1>6
  <2>2. QED
    BY <1>1, <1>2, <2>1, LimitsTook
<1>10. Reads(p, <<"byte", "limits">>, (p + 1) + Len(i), <<a, l>>)
  BY <1>8, <1>9, ReadsTwo
<1>11. (p + 1) + Len(i) = p + Len(TableItems(t))
  BY <1>2, <1>3, <1>7
<1>12. QED
  BY <1>1, <1>10, <1>11

LEMMA MemoryField ==
  ASSUME StreamTyped, NEW p \in Nat, NEW m, IsMemory(m), Stands(p, MemoryItems(m))
  PROVE  Reads(p, <<"limits">>, p + Len(MemoryItems(m)), m)
<1>1. PICK l : m = <<l>> /\ l = m[1] /\ IsLimits(l)
  BY DEF IsMemory
<1>2. Took("limits", p, p + Len(MemoryItems(m)), l)
  BY <1>1, LimitsTook DEF MemoryItems
<1>3. QED
  BY <1>1, <1>2, ReadsOne

LEMMA DescField ==
  ASSUME StreamTyped, NEW p \in Nat, NEW e, IsImport(e), Stands(p, DescItems(e))
  PROVE  Reads(p, Brings(e.kind), p + Len(DescItems(e)), e.desc)
<1> USE DEF Kinds
<1>1. CASE e.kind = Kinds.function
  <2>1. Brings(e.kind) = <<"number">> /\ DescItems(e) = e.desc
    BY <1>1 DEF Brings, DescItems
  <2>2. PICK x \in Nat : e.desc = <<x>> /\ Len(e.desc) = 1
    BY <1>1 DEF IsImport
  <2>3. Took("number", p, p + 1, x)
    BY <2>1, <2>2, NumberField
  <2>4. QED
    BY <2>1, <2>2, <2>3, ReadsOne
<1>2. CASE e.kind = Kinds.table
  <2>1. Brings(e.kind) = <<"byte", "limits">> /\ DescItems(e) = TableItems(e.desc)
    BY <1>2 DEF Brings, DescItems
  <2>2. IsTable(e.desc)
    BY <1>2 DEF IsImport
  <2>3. QED
    BY <2>1, <2>2, TableField
<1>3. CASE e.kind = Kinds.memory
  <2>1. Brings(e.kind) = <<"limits">> /\ DescItems(e) = MemoryItems(e.desc)
    BY <1>3 DEF Brings, DescItems
  <2>2. IsMemory(e.desc)
    BY <1>3 DEF IsImport
  <2>3. QED
    BY <2>1, <2>2, MemoryField
<1>4. CASE e.kind = Kinds.global
  <2>1. Brings(e.kind) = <<"byte", "byte">> /\ DescItems(e) = e.desc
    BY <1>4 DEF Brings, DescItems
  <2>2. PICK x, y : e.desc = <<x, y>>
    BY <1>4 DEF IsImport
  <2>3. Len(e.desc) = 2 /\ p + 1 \in Nat /\ (p + 1) + 1 = p + 2
    BY <2>2
  <2>4. Stands(p, <<x>>) /\ Stands(p + 1, <<y>>)
    BY <2>1, <2>2, StandsTwo
  <2>5. Took("byte", p, p + 1, x)
    BY <2>4, NumberField
  <2>6. Took("byte", p + 1, p + 2, y)
    BY <2>3, <2>4, NumberField
  <2>7. Reads(p, <<"byte", "byte">>, p + 2, <<x, y>>)
    BY <2>5, <2>6, ReadsTwo
  <2>8. QED
    BY <2>1, <2>2, <2>3, <2>7
<1>5. QED
  BY <1>1, <1>2, <1>3, <1>4 DEF IsImport

LEMMA DescNumbers ==
  ASSUME NEW e, IsImport(e)
  PROVE  DescItems(e) \in Seq(Nat) /\ e.kind \in Nat /\ e.kind <= 3
<1> USE DEF Kinds
<1>1. e.kind \in Nat /\ e.kind <= 3
  BY DEF IsImport
<1>2. \A x, y \in Nat : <<x>> \in Seq(Nat) /\ <<x, y>> \in Seq(Nat)
  OBVIOUS
<1>3. CASE e.kind = Kinds.function
  <2>1. DescItems(e) = <<e.desc[1]>> /\ e.desc[1] \in Nat
    BY <1>3 DEF IsImport, DescItems
  <2>2. QED
    BY <1>1, <1>2, <2>1
<1>4. CASE e.kind = Kinds.table
  <2>1. DescItems(e) = <<e.desc[1]>> \o LimitItems(e.desc[2])
    BY <1>4 DEF DescItems, TableItems
  <2>2. e.desc[1] \in Nat /\ LimitItems(e.desc[2]) \in Seq(Nat)
    BY <1>4, NumberItems DEF IsImport, IsTable, RefTypes, FUNCREF, EXTERNREF
  <2>3. <<e.desc[1]>> \in Seq(Nat)
    BY <1>2, <2>2
  <2>4. QED
    BY <1>1, <2>1, <2>2, <2>3, ConcatProperties
<1>5. CASE e.kind = Kinds.memory
  BY <1>1, <1>5, NumberItems DEF IsImport, IsMemory, DescItems, MemoryItems
<1>6. CASE e.kind = Kinds.global
  <2>1. DescItems(e) = <<e.desc[1], e.desc[2]>>
    BY <1>6 DEF IsImport, DescItems
  <2>2. e.desc[1] \in Nat /\ e.desc[2] \in Nat
    BY <1>6 DEF IsImport, ValTypes, RefTypes, FUNCREF, EXTERNREF
  <2>3. QED
    BY <1>1, <1>2, <2>1, <2>2
<1>7. QED
  BY <1>3, <1>4, <1>5, <1>6 DEF IsImport

(* The loaders that walk over the imports.                                 *)
Walkers == {"functions", "tables", "memories", "globals"}

LEMMA ImportEntry ==
  ASSUME StreamTyped, NEW p \in Nat, NEW e, IsImport(e), Stands(p, ImportItems(e)),
         NEW loader \in Walkers
  PROVE  /\ Import(p) = Got(TRUE, p + Len(ImportItems(e)), e)
         /\ ~ Refused(loader, e)
<1>1. PICK x, y, k, d : /\ e = [kind |-> k, name |-> <<x, y>>, desc |-> d]
                        /\ x = e.name[1] /\ y = e.name[2] /\ k = e.kind /\ d = e.desc
                        /\ x \in Nat /\ y \in Nat /\ k \in Nat /\ k <= 3
  BY DescNumbers DEF IsImport, IsName
<1>2. PICK f, g, h, i : /\ f = NameItems(x) /\ g = NameItems(y) /\ h = <<k>> /\ i = DescItems(e)
                        /\ f \in Seq(Nat) /\ g \in Seq(Nat) /\ h \in Seq(Nat) /\ i \in Seq(Nat)
                        /\ Len(h) = 1
  <2>1. <<k>> \in Seq(Nat) /\ Len(<<k>>) = 1
    BY <1>1
  <2>2. QED
    BY <1>1, <2>1, NumberItems, DescNumbers
<1>3. f \in Seq(Nat) /\ g \in Seq(Nat) /\ h \in Seq(Nat) /\ i \in Seq(Nat)
  BY <1>2
<1>4. ImportItems(e) = f \o g \o h \o i
  BY <1>1, <1>2 DEF ImportItems
<1>5. Stands(p, f \o g \o h \o i)
  BY <1>4
<1>6. Stands(p, f) /\ Stands(p + Len(f), g)
  BY <1>3, <1>5, StandsInFour
<1>7. Stands(p + Len(f) + Len(g), h)
  BY <1>3, <1>5, StandsInFour
<1>8. Stands(p + Len(f) + Len(g) + Len(h), i)
  BY <1>3, <1>5, StandsInFour
<1>9. Len(f \o g \o h \o i) = Len(f) + Len(g) + Len(h) + Len(i)
  BY <1>3, <1>5, StandsInFour
<1>10. Len(f) \in Nat /\ Len(g) \in Nat /\ Len(i) \in Nat
  BY <1>3, LenProperties
<1>11. PICK q, r, t : /\ q = p + Len(f) /\ r = p + Len(f) + Len(g)
                      /\ t = p + Len(f) + Len(g) + Len(h)
  OBVIOUS
<1>12. q \in Nat /\ r \in Nat /\ t \in Nat /\ r = q + Len(g) /\ t = r + 1
       /\ t + Len(i) = p + Len(ImportItems(e))
  BY <1>2, <1>4, <1>9, <1>10, <1>11
<1>13. Took("name", p, q, x)
  <2>1. Stands(p, NameItems(x))
    BY <1>2, <1>6
  <2>2. QED
    BY <1>1, <1>2, <1>11, <2>1, NameField
<1>14. Took("name", q, r, y)
  <2>1. Stands(q, NameItems(y))
    BY <1>2, <1>6, <1>11
  <2>2. QED
    BY <1>1, <1>2, <1>12, <2>1, NameField
<1>15. Took("byte", r, t, k)
  <2>1. Stands(r, <<k>>)
    BY <1>2, <1>7, <1>11
  <2>2. QED
    BY <1>12, <2>1, NumberField
<1>16. Reads(p, <<"name", "name", "byte">>, t, <<x, y, k>>)
  BY <1>13, <1>14, <1>15, ReadsThree
<1>17. Reads(t, Brings(k), t + Len(i), d)
  <2>1. Stands(t, DescItems(e))
    BY <1>2, <1>8, <1>11
  <2>2. QED
    BY <1>1, <1>2, <1>12, <2>1, DescField
<1>18. Import(p) = Got(TRUE, t + Len(i), e)
  <2>1. <<x, y, k>>[1] = x /\ <<x, y, k>>[2] = y /\ <<x, y, k>>[3] = k
    OBVIOUS
  <2>2. PICK v : v = <<x, y, k>> /\ v[1] = x /\ v[2] = y /\ v[3] = k
    BY <2>1, Zenon
  <2>3. PICK head : head = Read(p, <<"name", "name", "byte">>)
    OBVIOUS
  <2>4. head.ok = TRUE /\ head.at = t /\ head.val = v
    BY <1>16, <2>2, <2>3 DEF Reads, Got
  <2>5. Import(p) = ImportOf(v, Read(t, Brings(k)))
    BY <1>1, <2>2, <2>3, <2>4 DEF Import
  <2>6. PICK desc : desc = Read(t, Brings(k))
    OBVIOUS
  <2>7. desc.ok = TRUE /\ desc.at = t + Len(i) /\ desc.val = d
    BY <1>17, <2>6 DEF Reads, Got
  <2>8. QED
    BY <1>1, <2>2, <2>5, <2>6, <2>7 DEF ImportOf
<1>19. ~ Refused(loader, e)
  <2>1. e.name = <<x, y>>
    BY <1>1
  <2>2. -1 \notin Range(<<x, y>>)
    BY <1>1 DEF Range
  <2>3. ~ Unnamed(e)
    BY <2>1, <2>2 DEF Unnamed
  <2>4. e.kind = Kinds.table => e.desc[1] \in RefTypes
    BY DEF IsImport, IsTable, Kinds
  <2>5. e.kind = Kinds.global => e.desc[1] \in ValTypes /\ ~ (e.desc[2] > 1)
    BY DEF IsImport, Kinds
  <2>6. QED
    BY <2>3, <2>4, <2>5 DEF Refused, Walkers
<1>20. QED
  BY <1>12, <1>18, <1>19
-----------------------------------------------------------------------------
(* Entries that are there, one after the other.                            *)

Entered(id, sure, n, V, places) ==
  /\ places[1] = Next1(At(id))
  /\ \A k \in 1 .. n : Answers(Item(id, places[k]), sure, places[k + 1], V[k])
Walked(loader, n, V, places) ==
  /\ places[1] = Next1(At("import"))
  /\ \A k \in 1 .. n : /\ Import(places[k]) = Got(TRUE, places[k + 1], V[k])
                       /\ ~ Refused(loader, V[k])

LEMMA EntriesAnswer ==
  ASSUME NEW id, NEW sure, NEW n \in Nat, n = Number(At(id)), NEW V, NEW places,
         Entered(id, sure, n, V, places)
  PROVE  Answers(Entries(id), sure, places[n + 1], [k \in 1 .. n |-> V[k]])
<1>1. PICK r : /\ r[0] = Got(TRUE, Next1(At(id)), <<>>)
               /\ \A j \in 1 .. n : r[j] = Then(r[j-1], Item(id, r[j-1].at))
               /\ Entries(id) = r[n]
  BY EntriesSteps
<1>2. PICK x : x = [j \in 1 .. n |-> Item(id, r[j-1].at)]
  OBVIOUS
<1>3. \A j \in 1 .. n : x[j] = Item(id, r[j-1].at)
  BY <1>2
<1>4. Follow(r, x, n, places[1])
  BY <1>1, <1>3 DEF Entered, Follow
<1>5. Tell(r, x, n, sure, V, places)
  BY <1>3 DEF Entered, Tell
<1>6. QED
  BY <1>1, <1>4, <1>5, ChainAnswers

LEMMA WalkExact ==
  ASSUME NEW loader, Has("import"), NEW n \in Nat, n = Number(At("import")), NEW V, NEW places,
         Walked(loader, n, V, places)
  PROVE  Walk(loader) = Got(TRUE, places[n + 1], [k \in 1 .. n |-> V[k]])
<1>1. PICK r : /\ r[0] = Got(TRUE, Next1(At("import")), <<>>)
               /\ \A j \in 1 .. n : r[j] = Step(loader, r[j-1], Import(r[j-1].at))
               /\ Walk(loader) = r[n]
  BY WalkSteps
<1> DEFINE Kept1(e) == Got(e.ok /\ ~ Refused(loader, e.val), e.at, e.val)
<1>2. PICK x : x = [j \in 1 .. n |-> Kept1(Import(r[j-1].at))]
  OBVIOUS
<1>3. \A j \in 1 .. n : x[j] = Kept1(Import(r[j-1].at))
  BY <1>2
<1>4. r[0] = Got(TRUE, places[1], <<>>)
  BY <1>1 DEF Walked
<1>5. ASSUME NEW j \in 1 .. n
      PROVE  r[j] = Then(r[j-1], x[j])
  <2>1. PICK w, e : w = r[j-1] /\ e = Import(w.at)
    OBVIOUS
  <2>2. r[j] = Step(loader, w, e) /\ x[j] = Kept1(e)
    BY <1>1, <1>3, <2>1
  <2>3. Step(loader, w, e) = Then(w, Kept1(e))
    BY DEF Step, Then, Got
  <2>4. QED
    BY <2>1, <2>2, <2>3
<1>6. ASSUME NEW j \in 1 .. n, r[j-1].at = places[j]
      PROVE  Answers(x[j], TRUE, places[j + 1], V[j])
  <2>1. Import(places[j]) = Got(TRUE, places[j + 1], V[j]) /\ ~ Refused(loader, V[j])
    BY DEF Walked
  <2>4. PICK e : e = Import(places[j])
    OBVIOUS
  <2>5. e.ok = TRUE /\ e.at = places[j + 1] /\ e.val = V[j]
    BY <2>1, <2>4 DEF Got
  <2>6. (e.ok /\ ~ Refused(loader, e.val)) = TRUE
    BY <2>1, <2>5
  <2>2. Kept1(Import(places[j])) = Got(TRUE, places[j + 1], V[j])
    BY <2>4, <2>5, <2>6
  <2>3. QED
    BY <1>3, <1>6, <2>2 DEF Answers, Got
<1> HIDE DEF Kept1
<1>7. PICK sure : sure = TRUE
  OBVIOUS
<1>8. Follow(r, x, n, places[1]) /\ Tell(r, x, n, sure, V, places)
  BY <1>4, <1>5, <1>6, <1>7 DEF Follow, Tell
<1>9. Answers(r[n], sure, places[n + 1], [k \in 1 .. n |-> V[k]])
  BY <1>8, ChainAnswers
<1>10. QED
  BY <1>1, <1>7, <1>9 DEF Answers
-----------------------------------------------------------------------------
(* What the scan finds in a stream that is cut from items.                 *)

CutOf(items) ==
  /\ Size <= Len(items)
  /\ \A k \in 1 .. Size : Stream[k] = items[k]

LEMMA StreamIs ==
  ASSUME StreamTyped, NEW items \in Seq(Nat), CutOf(items), NEW p \in Nat, NEW list,
         Len(list) \in Nat, WrittenAt(items, p, list), p + Len(list) <= Size
  PROVE  Stands(p, list)
<1>1. PICK n \in Nat : n = Len(list)
  OBVIOUS
<1>2. Size \in Nat
  BY Numbers
<1>3. ASSUME NEW k \in 1 .. n
      PROVE  Stream[p + k] = list[k]
  <2>1. p + k \in 1 .. Size
    BY <1>1, <1>2
  <2>2. items[p + k] = list[k]
    BY <1>1 DEF WrittenAt
  <2>3. QED
    BY <2>1, <2>2 DEF CutOf
<1>4. QED
  BY <1>1, <1>3 DEF Stands

LEMMA SectionIds ==
  /\ \A x \in SectionNames \cup {"custom"} : SectionId[x] \in Nat
  /\ \A x, y \in SectionNames \cup {"custom"} : SectionId[x] = SectionId[y] => x = y
BY DEF SectionNames, SectionId

(* The sections of a layout.                                               *)
Ordered(ids, starts, n) ==
  /\ n \in Nat
  /\ \A k \in 1 .. n : ids[k] \in SectionNames \cup {"custom"}
  /\ \A k \in 1 .. n + 1 : starts[k] \in Nat
  /\ \A k \in 1 .. n : starts[k] + 2 <= starts[k + 1]
  /\ starts[1] = 2
Headed(items, ids, starts, n) ==
  /\ items \in Seq(Nat) /\ starts[n + 1] = Len(items)
  /\ \A k \in 1 .. n : /\ items[starts[k] + 1] = SectionId[ids[k]]
                       /\ items[starts[k] + 2] = starts[k + 1] - starts[k] - 2

LEMMA LayoutParts ==
  ASSUME NEW items, NEW m, NEW layout, LaidOut(items, m, layout)
  PROVE  LET n == Len(layout.ids)  ids == layout.ids  starts == layout.starts
         IN  /\ Ordered(ids, starts, n)
             /\ Headed(items, ids, starts, n)
             /\ \A k \in 1 .. n : ids[k] # "custom" =>
                  EntriesAt(items, m, ids[k], layout.places[k], starts[k] + 2, starts[k + 1])
             /\ \A k \in 1 .. n : \A j \in 1 .. k - 1 :
                  ids[k] # "custom" /\ ids[j] # "custom" => SectionId[ids[j]] < SectionId[ids[k]]
             /\ \A id \in SectionNames :
                  /\ IsList(Listed(m, id))
                  /\ Listed(m, id) # <<>> => \E k \in 1 .. n : ids[k] = id
<1> DEFINE n == Len(layout.ids)
           ids == layout.ids
           starts == layout.starts
<1>1. /\ items \in Seq(Nat) /\ ids \in Seq(SectionNames \cup {"custom"})
      /\ starts \in [1 .. n + 1 -> Nat] /\ starts[1] = 2 /\ starts[n + 1] = Len(items)
  BY DEF LaidOut
<1>2. \A id \in SectionNames :
         /\ IsList(Listed(m, id))
         /\ Listed(m, id) # <<>> => \E k \in 1 .. n : ids[k] = id
  BY DEF LaidOut
<1>3. ASSUME NEW k \in 1 .. n
      PROVE  /\ starts[k] + 2 <= starts[k + 1]
             /\ WrittenAt(items, starts[k], <<SectionId[ids[k]], starts[k + 1] - starts[k] - 2>>)
             /\ ids[k] # "custom" =>
                  EntriesAt(items, m, ids[k], layout.places[k], starts[k] + 2, starts[k + 1])
             /\ \A j \in 1 .. k - 1 :
                  ids[k] # "custom" /\ ids[j] # "custom" => SectionId[ids[j]] < SectionId[ids[k]]
  BY DEF LaidOut
<1> HIDE DEF n, ids, starts
<1>4. n \in Nat /\ \A k \in 1 .. n : ids[k] \in SectionNames \cup {"custom"}
  BY <1>1 DEF n, ids
<1>5. Ordered(ids, starts, n)
  BY <1>1, <1>3, <1>4 DEF Ordered
<1>6. ASSUME NEW k \in 1 .. n
      PROVE  /\ items[starts[k] + 1] = SectionId[ids[k]]
             /\ items[starts[k] + 2] = starts[k + 1] - starts[k] - 2
  <2> DEFINE h == <<SectionId[ids[k]], starts[k + 1] - starts[k] - 2>>
  <2>1. Len(h) = 2 /\ h[1] = SectionId[ids[k]] /\ h[2] = starts[k + 1] - starts[k] - 2
    OBVIOUS
  <2>2. WrittenAt(items, starts[k], h)
    BY <1>3
  <2> HIDE DEF h
  <2>3. QED
    BY <2>1, <2>2 DEF WrittenAt
<1>7. Headed(items, ids, starts, n)
  BY <1>1, <1>6 DEF Headed
<1>8. QED
  BY <1>2, <1>3, <1>5, <1>7 DEF n, ids, starts

LEMMA StartsAscend ==
  ASSUME NEW ids, NEW starts, NEW n, Ordered(ids, starts, n),
         NEW i \in 1 .. n + 1, NEW j \in 1 .. n + 1, i <= j
  PROVE  starts[i] <= starts[j]
<1>1. n \in Nat /\ \A k \in 1 .. n + 1 : starts[k] \in Nat
  BY DEF Ordered
<1>2. ASSUME NEW k \in 1 .. n
      PROVE  starts[k] <= starts[k + 1]
  <2>1. k \in 1 .. n + 1 /\ k + 1 \in 1 .. n + 1 /\ starts[k] + 2 <= starts[k + 1]
    BY <1>1 DEF Ordered
  <2>2. starts[k] \in Nat /\ starts[k + 1] \in Nat
    BY <1>1, <2>1
  <2>3. QED
    BY <2>1, <2>2
<1>3. QED
  BY <1>1, <1>2, Ascending

(* A section that was found is one of the layout.                          *)
Matches(x, ids, starts, j) ==
  starts[j] < Size /\ x.type = SectionId[ids[j]] /\ x.offset = Next1(starts[j] + 1)
Finds(s, ids, starts, n, k) ==
  /\ s \in Seq(Places)
  /\ \A e \in 1 .. Len(s) : \E j \in k .. n : Matches(s[e], ids, starts, j)
  /\ \A j \in k .. n :
       starts[j + 1] <= Size => \E e \in 1 .. Len(s) : Matches(s[e], ids, starts, j)

LEMMA FindsNone ==
  ASSUME StreamTyped, NEW ids, NEW starts, NEW n, Ordered(ids, starts, n),
         NEW k \in 1 .. n + 1, Size <= starts[k]
  PROVE  Finds(<<>>, ids, starts, n, k)
<1>1. ASSUME NEW j \in k .. n
      PROVE  ~ (starts[j + 1] <= Size)
  <2>1. n \in Nat /\ j \in 1 .. n /\ j \in 1 .. n + 1 /\ j + 1 \in 1 .. n + 1 /\ k <= j
    BY DEF Ordered
  <2>2. starts[k] <= starts[j]
    BY <2>1, StartsAscend
  <2>3. starts[j] + 2 <= starts[j + 1]
    BY <2>1 DEF Ordered
  <2>4. starts[k] \in Nat /\ starts[j] \in Nat /\ starts[j + 1] \in Nat /\ Size \in Nat
    BY <2>1, Numbers DEF Ordered
  <2>5. QED
    BY <2>2, <2>3, <2>4
<1>2. <<>> \in Seq(Places) /\ Len(<<>>) = 0
  <2> HIDE DEF Places
  <2>1. QED
    BY EmptySeq
<1>3. QED
  BY <1>1, <1>2 DEF Finds

LEMMA FindsNext ==
  ASSUME NEW ids, NEW starts, NEW n, Ordered(ids, starts, n), NEW k \in 1 .. n,
         NEW x \in Places, Matches(x, ids, starts, k), NEW t, Finds(t, ids, starts, n, k + 1)
  PROVE  Finds(<<x>> \o t, ids, starts, n, k)
<1>1. PICK s : s = <<x>> \o t
  OBVIOUS
<1>2. t \in Seq(Places)
  BY DEF Finds
<1>3. /\ s \in Seq(Places) /\ Len(t) \in Nat /\ Len(s) = Len(t) + 1 /\ s[1] = x
      /\ \A e \in 1 .. Len(t) : s[e + 1] = t[e]
  BY <1>1, <1>2, Prepending
<1>4. n \in Nat
  BY DEF Ordered
<1>5. ASSUME NEW e \in 1 .. Len(s)
      PROVE  \E j \in k .. n : Matches(s[e], ids, starts, j)
  <2>1. CASE e = 1
    <3>1. k \in k .. n
      BY <1>4
    <3>2. QED
      BY <1>3, <2>1, <3>1
  <2>2. CASE e # 1
    <3>1. PICK d : d = e - 1
      OBVIOUS
    <3>2. d \in 1 .. Len(t) /\ d + 1 = e
      BY <1>3, <2>2, <3>1
    <3>3. PICK j \in k + 1 .. n : Matches(t[d], ids, starts, j)
      BY <3>2 DEF Finds
    <3>4. j \in k .. n /\ s[e] = t[d]
      BY <1>3, <1>4, <3>2
    <3>5. QED
      BY <3>3, <3>4
  <2>3. QED
    BY <2>1, <2>2
<1>6. ASSUME NEW j \in k .. n, starts[j + 1] <= Size
      PROVE  \E e \in 1 .. Len(s) : Matches(s[e], ids, starts, j)
  <2>1. CASE j = k
    <3>1. 1 \in 1 .. Len(s)
      BY <1>3
    <3>2. QED
      BY <1>3, <2>1, <3>1
  <2>2. CASE j # k
    <3>1. j \in k + 1 .. n
      BY <1>4, <2>2
    <3>2. PICK d \in 1 .. Len(t) : Matches(t[d], ids, starts, j)
      BY <1>6, <3>1 DEF Finds
    <3>3. d + 1 \in 1 .. Len(s) /\ s[d + 1] = t[d]
      BY <1>3
    <3>4. QED
      BY <3>2, <3>3
  <2>3. QED
    BY <2>1, <2>2
<1>7. QED
  BY <1>1, <1>3, <1>5, <1>6 DEF Finds

(* One that begins inside the stream is found if it ends inside the stream;*)
(* in a file, whether it does or not.                                      *)
LEMMA SectionAt ==
  ASSUME StreamTyped, NEW items, NEW ids, NEW starts, NEW n, Ordered(ids, starts, n),
         Headed(items, ids, starts, n), CutOf(items), NEW k \in 1 .. n, starts[k] < Size
  PROVE  /\ Number(starts[k]) = SectionId[ids[k]]
         /\ starts[k] + 1 < Size =>
              /\ Next1(starts[k] + 1) = starts[k] + 2
              /\ SectionEnd(starts[k]) = IF CanSeek(starts[k + 1]) THEN starts[k + 1] ELSE -1
         /\ ~ (starts[k] + 1 < Size) => SectionEnd(starts[k]) = Size
<1>1. PICK q \in Nat, z \in Nat : q = starts[k] /\ z = starts[k + 1] /\ q + 2 <= z
  BY DEF Ordered
<1>2. Size \in Nat /\ q < Size
  BY <1>1, Numbers
<1>3. Number(q) = SectionId[ids[k]] /\ Here(q)
  <2>1. q + 1 \in 1 .. Size
    BY <1>2
  <2>2. Number(q) = items[q + 1]
    BY <1>2, <2>1, Numbers DEF CutOf
  <2>3. QED
    BY <1>1, <1>2, <2>2 DEF Headed, Here
<1>4. q + 1 \in Nat
  OBVIOUS
<1>5. CASE q + 1 < Size
  <2>1. q + 2 \in 1 .. Size /\ (q + 1) + 1 = q + 2
    BY <1>2, <1>5
  <2>2. Number(q + 1) = Stream[q + 2] /\ Next1(q + 1) = q + 2
    BY <1>4, <1>5, <2>1, Numbers
  <2>3. Number(q + 1) = (z - q) - 2
    BY <1>1, <2>1, <2>2 DEF CutOf, Headed
  <2>4. Next1(q + 1) + Number(q + 1) = z
    BY <2>2, <2>3
  <2>5. SectionEnd(q) = IF CanSeek(z) THEN z ELSE -1
    BY <1>3, <2>4 DEF SectionEnd
  <2>6. QED
    BY <1>1, <1>3, <1>5, <2>2, <2>5
<1>6. CASE ~ (q + 1 < Size)
  <2>1. Number(q + 1) = 0 /\ Next1(q + 1) = q + 1 /\ q + 1 = Size
    BY <1>2, <1>4, <1>6, Numbers
  <2>2. Next1(q + 1) + Number(q + 1) = Size
    BY <1>2, <2>1
  <2>3. CanSeek(Size)
    BY <1>2 DEF CanSeek
  <2>4. SectionEnd(q) = Size
    BY <1>3, <2>2, <2>3 DEF SectionEnd
  <2>5. QED
    BY <1>1, <1>3, <1>6, <2>4
<1>7. QED
  BY <1>5, <1>6
LEMMA SectionsFind ==
  ASSUME StreamTyped, NEW items, NEW ids, NEW starts, NEW n, Ordered(ids, starts, n),
         Headed(items, ids, starts, n), CutOf(items), NEW k \in 1 .. n + 1, starts[k] <= Size
  PROVE  Finds(SectionsFrom(starts[k]), ids, starts, n, k)
<1>0. n \in Nat /\ Size \in Nat
  BY Numbers DEF Ordered
<1> DEFINE Found(i) == starts[i] <= Size => Finds(SectionsFrom(starts[i]), ids, starts, n, i)
           Q == {d \in Nat : d <= n => Found((n + 1) - d)}
<1> HIDE DEF Found
<1>1. ASSUME NEW i \in 1 .. n + 1, starts[i] = Size
      PROVE  SectionsFrom(starts[i]) = <<>>
  <2>1. Size <= Size
    BY <1>0
  <2>2. SectionsFrom(Size) = <<>>
    BY <1>0, <2>1, SectionsFromStep
  <2>3. QED
    BY <1>1, <2>2
<1>2. 0 \in Q
  <2>1. n + 1 \in 1 .. n + 1 /\ (n + 1) - 0 = n + 1
    BY <1>0
  <2>2. starts[n + 1] >= Size /\ starts[n + 1] \in Nat
    BY <2>1 DEF Headed, CutOf, Ordered
  <2>3. Found(n + 1)
    <3>1. SUFFICES ASSUME starts[n + 1] <= Size
                   PROVE  Finds(SectionsFrom(starts[n + 1]), ids, starts, n, n + 1)
      BY DEF Found
    <3>2. starts[n + 1] = Size
      BY <1>0, <2>2, <3>1
    <3>3. SectionsFrom(starts[n + 1]) = <<>>
      BY <1>1, <2>1, <3>2
    <3>4. QED
      BY <1>0, <2>1, <3>2, <3>3, FindsNone
  <2>4. QED
    BY <2>1, <2>3
<1>3. ASSUME NEW d \in Nat, d \in Q
      PROVE  d + 1 \in Q
  <2>1. SUFFICES ASSUME d + 1 <= n
                 PROVE  Found((n + 1) - (d + 1))
    OBVIOUS
  <2>2. PICK i : i = (n + 1) - (d + 1)
    OBVIOUS
  <2>3. i \in 1 .. n /\ i \in 1 .. n + 1 /\ i + 1 \in 1 .. n + 1 /\ (n + 1) - d = i + 1 /\ d <= n
    BY <1>0, <2>1, <2>2
  <2>4. Found(i + 1)
    BY <1>3, <2>3
  <2>5. SUFFICES ASSUME starts[i] <= Size
                 PROVE  Finds(SectionsFrom(starts[i]), ids, starts, n, i)
    BY <2>2 DEF Found
  <2>6. PICK q \in Nat, z \in Nat : q = starts[i] /\ z = starts[i + 1] /\ q + 2 <= z
    BY <2>3 DEF Ordered
  <2>7. CASE q = Size
    <3>1. SectionsFrom(starts[i]) = <<>>
      BY <1>1, <2>3, <2>6, <2>7
    <3>2. Size <= starts[i]
      BY <1>0, <2>6, <2>7
    <3>3. Finds(<<>>, ids, starts, n, i)
      BY <2>3, <3>2, FindsNone
    <3>4. QED
      BY <3>1, <3>3
  <2>8. CASE q < Size
    <3> DEFINE x == [type |-> Number(q), offset |-> Next1(q + 1)]
    <3>1. SectionsFrom(q) = IF q = Size \/ SectionEnd(q) < 0 THEN <<>>
                            ELSE <<x>> \o (IF SectionEnd(q) < Size THEN SectionsFrom(SectionEnd(q)) ELSE <<>>)
      BY <1>0, <2>8, SectionsFromStep
    <3>2. Number(q) = SectionId[ids[i]] /\ Number(q) \in Nat /\ Next1(q + 1) \in Nat
      BY <2>3, <2>6, <2>8, SectionAt, Numbers
    <3>3. x \in Places /\ Matches(x, ids, starts, i)
      BY <2>6, <2>8, <3>2 DEF Places, Matches
    <3> HIDE DEF x
    <3>4. CASE z <= Size
      <4>1. q + 1 < Size /\ CanSeek(z) /\ z >= 0
        BY <1>0, <2>6, <3>4 DEF CanSeek
      <4>2. SectionEnd(q) = z
        BY <2>3, <2>6, <2>8, <4>1, SectionAt
      <4>3. Finds(SectionsFrom(z), ids, starts, n, i + 1)
        BY <2>4, <2>6, <3>4 DEF Found
      <4>4. z = Size => SectionsFrom(z) = <<>>
        BY <1>1, <2>3, <2>6
      <4>5. SectionsFrom(q) = <<x>> \o SectionsFrom(z)
        BY <1>0, <2>6, <2>8, <3>1, <3>4, <4>1, <4>2, <4>4
      <4>6. QED
        BY <2>3, <2>6, <3>3, <4>3, <4>5, FindsNext
    <3>5. CASE ~ (z <= Size)
      <4>1. Finds(<<>>, ids, starts, n, i + 1)
        BY <1>0, <2>3, <2>6, <3>5, FindsNone
      <4>2. Finds(<<x>> \o <<>>, ids, starts, n, i)
        BY <2>3, <3>3, <4>1, FindsNext
      <4>3. Finds(<<>>, ids, starts, n, i)
        <5>1. ASSUME NEW j \in i .. n
              PROVE  ~ (starts[j + 1] <= Size)
          <6>1. j \in Nat /\ i + 1 \in 1 .. n + 1 /\ j + 1 \in 1 .. n + 1 /\ i + 1 <= j + 1
            BY <1>0, <2>3
          <6>2. starts[i + 1] <= starts[j + 1] /\ starts[j + 1] \in Nat
            BY <6>1, StartsAscend DEF Ordered
          <6>3. QED
            BY <1>0, <2>6, <3>5, <6>2
        <5>2. <<>> \in Seq(Places) /\ Len(<<>>) = 0
          <6> HIDE DEF Places
          <6>1. QED
            BY EmptySeq
        <5>3. QED
          BY <5>1, <5>2 DEF Finds
      <4>4. SectionEnd(q) < Size => SectionEnd(q) < 0
        <5>1. CASE q + 1 < Size
          <6>1. SectionEnd(q) = z \/ SectionEnd(q) = -1
            BY <2>3, <2>6, <2>8, <5>1, SectionAt
          <6>2. QED
            BY <1>0, <3>5, <6>1
        <5>2. CASE ~ (q + 1 < Size)
          <6>1. SectionEnd(q) = Size
            BY <2>3, <2>6, <2>8, <5>2, SectionAt
          <6>2. QED
            BY <1>0, <6>1
        <5>3. QED
          BY <5>1, <5>2
      <4>5. SectionsFrom(q) = <<>> \/ SectionsFrom(q) = <<x>> \o <<>>
        BY <3>1, <4>4
      <4>6. QED
        BY <2>6, <4>2, <4>3, <4>5
    <3>6. QED
      BY <3>4, <3>5
  <2>9. QED
    BY <1>0, <2>5, <2>6, <2>7, <2>8
<1>4. PICK d : d = (n + 1) - k
  OBVIOUS
<1>5. d \in Nat /\ d <= n /\ (n + 1) - d = k
  BY <1>0, <1>4
<1>6. d \in Q
  BY <1>2, <1>3, <1>5, SetInduction
<1>7. QED
  BY <1>5, <1>6 DEF Found
-----------------------------------------------------------------------------
(* The sections the loaders find, once they were scanned.                  *)

ScanIs == 2 <= Size /\ sections = SectionsFrom(2)

LEMMA ScanFinds ==
  ASSUME StreamTyped, ScanIs, NEW items, NEW m, NEW layout, LaidOut(items, m, layout),
         CutOf(items)
  PROVE  Finds(sections, layout.ids, layout.starts, Len(layout.ids), 1)
<1>1. PICK n, ids, starts : n = Len(layout.ids) /\ ids = layout.ids /\ starts = layout.starts
  OBVIOUS
<1>2. Ordered(ids, starts, n) /\ Headed(items, ids, starts, n)
  BY <1>1, LayoutParts
<1>3. starts[1] = 2 /\ 1 \in 1 .. n + 1
  BY <1>2 DEF Ordered
<1>4. starts[1] <= Size
  BY <1>3 DEF ScanIs
<1>5. Finds(SectionsFrom(starts[1]), ids, starts, n, 1)
  BY <1>2, <1>3, <1>4, SectionsFind
<1>6. QED
  BY <1>1, <1>3, <1>5 DEF ScanIs

LEMMA KindFound ==
  ASSUME StreamTyped, ScanIs, NEW items, NEW m, NEW layout, LaidOut(items, m, layout),
         CutOf(items), NEW id \in SectionNames, Has(id)
  PROVE  \E j \in 1 .. Len(layout.ids) :
           /\ layout.ids[j] = id /\ layout.starts[j] < Size
           /\ At(id) = Next1(layout.starts[j] + 1)
<1>1. PICK n, ids, starts : n = Len(layout.ids) /\ ids = layout.ids /\ starts = layout.starts
  OBVIOUS
<1>2. Finds(sections, ids, starts, n, 1)
  BY <1>1, ScanFinds
<1>3. Len(sections) \in Nat
  BY <1>2, LenProperties DEF Finds
<1>4. PICK e \in 1 .. Len(sections) : e = First(id) /\ sections[e].type = SectionId[id]
  BY <1>3, FirstOfKind
<1>5. PICK j \in 1 .. n : Matches(sections[e], ids, starts, j)
  BY <1>2 DEF Finds
<1>6. Ordered(ids, starts, n)
  BY <1>1, LayoutParts
<1>7. ids[j] \in SectionNames \cup {"custom"} /\ SectionId[ids[j]] = SectionId[id]
  BY <1>4, <1>5, <1>6 DEF Ordered, Matches
<1>8. ids[j] = id
  BY <1>7, SectionIds
<1>9. QED
  BY <1>1, <1>4, <1>5, <1>8 DEF Matches, At

(* Only custom sections are there more than once.                          *)
LEMMA KindOnce ==
  ASSUME NEW items, NEW m, NEW layout, LaidOut(items, m, layout), NEW id \in SectionNames,
         NEW i \in 1 .. Len(layout.ids), NEW j \in 1 .. Len(layout.ids),
         layout.ids[i] = id, layout.ids[j] = id
  PROVE  i = j
<1>1. PICK n, ids, starts : n = Len(layout.ids) /\ ids = layout.ids /\ starts = layout.starts
  OBVIOUS
<1>2. Ordered(ids, starts, n)
  BY <1>1, LayoutParts
<1>3. \A b \in 1 .. n : \A a \in 1 .. b - 1 :
        ids[b] # "custom" /\ ids[a] # "custom" => SectionId[ids[a]] < SectionId[ids[b]]
  BY <1>1, LayoutParts
<1>4. id # "custom" /\ SectionId[id] \in Nat
  BY SectionIds DEF SectionNames
<1>5. ASSUME i < j PROVE FALSE
  <2>1. i \in 1 .. j - 1
    BY <1>1, <1>2, <1>5 DEF Ordered
  <2>2. SectionId[id] < SectionId[id]
    BY <1>1, <1>3, <1>4, <2>1
  <2>3. QED
    BY <1>4, <2>2
<1>6. ASSUME j < i PROVE FALSE
  <2>1. j \in 1 .. i - 1
    BY <1>1, <1>2, <1>6 DEF Ordered
  <2>2. SectionId[id] < SectionId[id]
    BY <1>1, <1>3, <1>4, <2>1
  <2>3. QED
    BY <1>4, <2>2
<1>7. n \in Nat
  BY <1>2 DEF Ordered
<1>8. QED
  BY <1>1, <1>5, <1>6, <1>7

(* A section that is whole is found where it was written.                  *)
LEMMA KindWhole ==
  ASSUME StreamTyped, ScanIs, NEW items, NEW m, NEW layout, LaidOut(items, m, layout),
         CutOf(items), NEW id \in SectionNames, NEW j \in 1 .. Len(layout.ids),
         layout.ids[j] = id, layout.starts[j + 1] <= Size
  PROVE  Has(id) /\ At(id) = layout.starts[j] + 2
<1>1. PICK n, ids, starts : n = Len(layout.ids) /\ ids = layout.ids /\ starts = layout.starts
  OBVIOUS
<1>2. Finds(sections, ids, starts, n, 1)
  BY <1>1, ScanFinds
<1>3. Ordered(ids, starts, n)
  BY <1>1, LayoutParts
<1>4. PICK e \in 1 .. Len(sections) : Matches(sections[e], ids, starts, j)
  BY <1>1, <1>2 DEF Finds
<1>5. Has(id)
  BY <1>1, <1>4 DEF Has, Matches
<1>6. PICK i \in 1 .. n : ids[i] = id /\ At(id) = Next1(starts[i] + 1)
  BY <1>1, <1>5, KindFound
<1>7. i = j
  BY <1>1, <1>6, KindOnce
<1>8. PICK q \in Nat, z \in Nat : q = starts[j] /\ z = starts[j + 1] /\ q + 2 <= z
  <2>1. j \in 1 .. n /\ j \in 1 .. n + 1 /\ j + 1 \in 1 .. n + 1
    BY <1>1, <1>3 DEF Ordered
  <2>2. starts[j] \in Nat /\ starts[j + 1] \in Nat /\ starts[j] + 2 <= starts[j + 1]
    BY <1>3, <2>1 DEF Ordered
  <2>3. QED
    BY <2>2
<1>9. q + 1 \in Nat /\ q + 1 < Size /\ (q + 1) + 1 = q + 2
  <2>1. z <= Size
    BY <1>1, <1>8
  <2>2. Size \in Nat
    BY Numbers
  <2>3. q + 2 <= z
    BY <1>8
  <2>4. PICK size \in Nat : size = Size
    BY <2>2
  <2>5. q + 1 < size
    BY ONLY <2>1, <2>3, <2>4, q \in Nat, z \in Nat
  <2>6. QED
    BY <2>4, <2>5
<1>10. Next1(q + 1) = q + 2
  BY <1>9, Numbers
<1>11. QED
  BY <1>1, <1>5, <1>6, <1>7, <1>8, <1>10

(* When the stream reaches the code section, what comes before it is whole.*)
CodeReached(layout) ==
  \E j \in 1 .. Len(layout.ids) : layout.ids[j] = "code" /\ layout.starts[j] < Size

BeforeCode == {"type", "import", "function"}

LEMMA WholeBeforeCode ==
  ASSUME StreamTyped, NEW items, NEW m, NEW layout, LaidOut(items, m, layout),
         CodeReached(layout), NEW i \in 1 .. Len(layout.ids), layout.ids[i] \in BeforeCode
  PROVE  layout.starts[i + 1] <= Size
<1>1. PICK n, ids, starts : n = Len(layout.ids) /\ ids = layout.ids /\ starts = layout.starts
  OBVIOUS
<1>2. Ordered(ids, starts, n)
  BY <1>1, LayoutParts
<1>3. \A b \in 1 .. n : \A a \in 1 .. b - 1 :
        ids[b] # "custom" /\ ids[a] # "custom" => SectionId[ids[a]] < SectionId[ids[b]]
  BY <1>1, LayoutParts
<1>4. PICK j \in 1 .. n : ids[j] = "code" /\ starts[j] < Size
  BY <1>1 DEF CodeReached
<1>5. ids[i] # "custom" /\ ids[i] # "code" /\ SectionId[ids[i]] < 10 /\ SectionId["code"] = 10
      /\ SectionId[ids[i]] \in Nat
  <2>1. \A id \in BeforeCode :
          id # "custom" /\ id # "code" /\ SectionId[id] < 10 /\ SectionId[id] \in Nat
    BY DEF BeforeCode, SectionId
  <2>2. SectionId["code"] = 10
    BY DEF SectionId
  <2>3. QED
    BY <1>1, <2>1, <2>2
<1>6. n \in Nat
  BY <1>2 DEF Ordered
<1>7. ~ (j < i)
  <2>1. SUFFICES ASSUME j < i PROVE FALSE
    OBVIOUS
  <2>2. j \in 1 .. i - 1
    BY <1>1, <1>6, <2>1
  <2>3. SectionId["code"] < SectionId[ids[i]]
    BY <1>1, <1>3, <1>4, <1>5, <2>2
  <2>4. QED
    BY <1>5, <2>3
<1>8. i + 1 <= j /\ i + 1 \in 1 .. n + 1 /\ j \in 1 .. n + 1
  <2>1. i # j
    BY <1>4, <1>5
  <2>2. QED
    BY <1>1, <1>6, <1>7, <2>1
<1>9. starts[i + 1] <= starts[j]
  BY <1>2, <1>8, StartsAscend
<1>10. starts[i + 1] \in Nat /\ starts[j] \in Nat /\ Size \in Nat
  BY <1>2, <1>8, Numbers DEF Ordered
<1>11. QED
  BY <1>1, <1>4, <1>9, <1>10

(* What the loaders find of a kind: nothing if there is nothing, and all.  *)
WholeAt(items, m, id, places, start, end) ==
  /\ EntriesAt(items, m, id, places, start, end)
  /\ start \in Nat /\ end \in Nat /\ end <= Size

LEMMA KindExact ==
  ASSUME StreamTyped, ScanIs, NEW items, NEW m, NEW layout, LaidOut(items, m, layout),
         CutOf(items), NEW id \in SectionNames,
         \A i \in 1 .. Len(layout.ids) : layout.ids[i] = id => layout.starts[i + 1] <= Size
  PROVE  IF Has(id) THEN \E places, end : WholeAt(items, m, id, places, At(id), end)
         ELSE Listed(m, id) = <<>>
<1>1. PICK n, ids, starts : n = Len(layout.ids) /\ ids = layout.ids /\ starts = layout.starts
  OBVIOUS
<1>2. /\ Ordered(ids, starts, n)
      /\ \A k \in 1 .. n : ids[k] # "custom" =>
           EntriesAt(items, m, ids[k], layout.places[k], starts[k] + 2, starts[k + 1])
      /\ Listed(m, id) # <<>> => \E k \in 1 .. n : ids[k] = id
  <2>1. Ordered(ids, starts, n)
    BY <1>1, LayoutParts
  <2>2. \A k \in 1 .. n : ids[k] # "custom" =>
          EntriesAt(items, m, ids[k], layout.places[k], starts[k] + 2, starts[k + 1])
    BY <1>1, LayoutParts
  <2>3. Listed(m, id) # <<>> => \E k \in 1 .. n : ids[k] = id
    BY <1>1, LayoutParts
  <2>4. QED
    BY <2>1, <2>2, <2>3
<1>3. CASE \E i \in 1 .. n : ids[i] = id
  <2>1. PICK i \in 1 .. n : ids[i] = id
    BY <1>3
  <2>2. Has(id) /\ At(id) = starts[i] + 2
    BY <1>1, <2>1, KindWhole
  <2>3. id # "custom"
    BY DEF SectionNames
  <2>4. EntriesAt(items, m, id, layout.places[i], starts[i] + 2, starts[i + 1])
    BY <1>2, <2>1, <2>3
  <2>5. starts[i] + 2 \in Nat /\ starts[i + 1] \in Nat /\ starts[i + 1] <= Size
    BY <1>1, <1>2, <2>1 DEF Ordered
  <2>6. WholeAt(items, m, id, layout.places[i], At(id), starts[i + 1])
    BY <2>2, <2>4, <2>5 DEF WholeAt
  <2>7. QED
    BY <2>2, <2>6
<1>4. CASE ~ \E i \in 1 .. n : ids[i] = id
  <2>1. ~ Has(id)
    BY <1>1, <1>4, KindFound
  <2>2. QED
    BY <1>2, <1>4, <2>1
<1>5. QED
  BY <1>3, <1>4

(* The entries of a section that is whole stand at their places.           *)
Sized(m, id, n) == \A k \in 1 .. n : Len(EntryItems(id, Listed(m, id)[k])) \in Nat
Standing(m, id, n, places) ==
  \A k \in 1 .. n :
    /\ places[k] \in Nat /\ IsEntry(m, id, Listed(m, id)[k])
    /\ Stands(places[k], EntryItems(id, Listed(m, id)[k]))
    /\ places[k + 1] = places[k] + Len(EntryItems(id, Listed(m, id)[k]))
LEMMA EntriesStand ==
  ASSUME StreamTyped, NEW items \in Seq(Nat), CutOf(items), NEW m, NEW id, NEW places,
         NEW start, NEW end, WholeAt(items, m, id, places, start, end),
         NEW n \in Nat, n = Len(Listed(m, id)),
         Sized(m, id, n)
  PROVE  Number(start) = n /\ Next1(start) = places[1] /\ Standing(m, id, n, places)
<1>1. /\ WrittenAt(items, start, <<n>>) /\ places \in [1 .. n + 1 -> Nat]
      /\ places[1] = start + 1 /\ places[n + 1] = end
  BY DEF WholeAt, EntriesAt
<1>2. \A k \in 1 .. n :
        /\ IsEntry(m, id, Listed(m, id)[k])
        /\ WrittenAt(items, places[k], EntryItems(id, Listed(m, id)[k]))
        /\ places[k + 1] = places[k] + Len(EntryItems(id, Listed(m, id)[k]))
  BY DEF WholeAt, EntriesAt
<1>3. \A k \in 1 .. n + 1 : places[k] \in Nat
  BY <1>1
<1>4. ASSUME NEW k \in 1 .. n
      PROVE  places[k] <= places[k + 1] /\ k \in 1 .. n + 1 /\ k + 1 \in 1 .. n + 1
  <2>1. PICK l \in Nat : l = Len(EntryItems(id, Listed(m, id)[k]))
    BY DEF Sized
  <2>2. places[k + 1] = places[k] + l /\ places[k] \in Nat
    BY <1>2, <1>3, <2>1
  <2>3. QED
    BY <2>2
<1>5. ASSUME NEW k \in 1 .. n + 1
      PROVE  places[k] <= end
  <2>1. n + 1 \in 1 .. n + 1 /\ k <= n + 1
    OBVIOUS
  <2>2. \A j \in 1 .. n : places[j] <= places[j + 1]
    BY <1>4
  <2>3. places[k] <= places[n + 1]
    BY <1>3, <2>1, <2>2, Ascending
  <2>4. QED
    BY <1>1, <2>3
<1>6. Size \in Nat /\ start \in Nat /\ end \in Nat /\ end <= Size
  BY Numbers DEF WholeAt
<1>7. Number(start) = n /\ Next1(start) = places[1]
  <2>1. places[1] <= end
    BY <1>5
  <2>2. Len(<<n>>) = 1
    OBVIOUS
  <2>3. start + Len(<<n>>) <= Size
    BY <1>1, <1>6, <2>1, <2>2
  <2>4. Len(<<n>>) \in Nat
    BY <2>2
  <2>5. Stands(start, <<n>>)
    BY <1>1, <1>6, <2>3, <2>4, StreamIs
  <2>6. QED
    BY <1>1, <1>6, <2>5, StandsOne
<1>8. ASSUME NEW k \in 1 .. n
      PROVE  Stands(places[k], EntryItems(id, Listed(m, id)[k]))
  <2>1. PICK list : list = EntryItems(id, Listed(m, id)[k])
    OBVIOUS
  <2>2. Len(list) \in Nat /\ WrittenAt(items, places[k], list)
    BY <1>2, <2>1 DEF Sized
  <2>3. places[k] \in Nat /\ places[k] + Len(list) = places[k + 1] /\ places[k + 1] <= end
        /\ places[k + 1] \in Nat
    BY <1>2, <1>3, <1>4, <1>5, <2>1
  <2>4. places[k] + Len(list) <= Size
    BY <1>6, <2>3
  <2>5. QED
    BY <2>1, <2>2, <2>3, <2>4, StreamIs
<1>9. QED
  BY <1>2, <1>3, <1>4, <1>7, <1>8 DEF Standing

LEMMA EntryNumbers ==
  /\ \A t : IsFunctionType(t) => FunctionTypeItems(t) \in Seq(Nat)
  /\ \A e : IsImport(e) => ImportItems(e) \in Seq(Nat)
  /\ \A f : IsFunction(f) => <<f[1]>> \in Seq(Nat) /\ CodeItems(f) \in Seq(Nat)
<1>1. \A a, b, c : a \in Seq(Nat) /\ b \in Seq(Nat) /\ c \in Seq(Nat) => a \o b \o c \in Seq(Nat)
  <2>1. SUFFICES ASSUME NEW a \in Seq(Nat), NEW b \in Seq(Nat), NEW c \in Seq(Nat)
                 PROVE  a \o b \o c \in Seq(Nat)
    OBVIOUS
  <2>2. a \o b \in Seq(Nat)
    BY ConcatProperties
  <2>3. QED
    BY <2>2, ConcatProperties
<1>2. \A x \in Nat : <<x>> \in Seq(Nat)
  OBVIOUS
<1>3. ASSUME NEW t, IsFunctionType(t) PROVE FunctionTypeItems(t) \in Seq(Nat)
  <2>1. <<96>> \in Seq(Nat) /\ BytesItems(t[1]) \in Seq(Nat) /\ BytesItems(t[2]) \in Seq(Nat)
    BY <1>2, <1>3, NumberItems DEF IsFunctionType
  <2>2. QED
    BY <1>1, <2>1 DEF FunctionTypeItems
<1>4. ASSUME NEW e, IsImport(e) PROVE ImportItems(e) \in Seq(Nat)
  <2>1. NameItems(e.name[1]) \in Seq(Nat) /\ NameItems(e.name[2]) \in Seq(Nat)
    BY <1>4, NumberItems DEF IsImport, IsName
  <2>2. <<e.kind>> \in Seq(Nat) /\ DescItems(e) \in Seq(Nat)
    BY <1>2, <1>4, DescNumbers
  <2>3. NameItems(e.name[1]) \o NameItems(e.name[2]) \o <<e.kind>> \in Seq(Nat)
    BY <1>1, <2>1, <2>2
  <2>4. PICK a : a = NameItems(e.name[1]) \o NameItems(e.name[2]) \o <<e.kind>>
    OBVIOUS
  <2>5. ImportItems(e) = a \o DescItems(e) /\ a \in Seq(Nat)
    BY <2>3, <2>4 DEF ImportItems
  <2>6. QED
    BY <2>2, <2>5, ConcatProperties
<1>5. ASSUME NEW f, IsFunction(f) PROVE <<f[1]>> \in Seq(Nat) /\ CodeItems(f) \in Seq(Nat)
  BY <1>2, <1>5, NumberItems DEF IsFunction, CodeItems
<1>6. QED
  BY <1>3, <1>4, <1>5
-----------------------------------------------------------------------------
(* A section that is whole is read back.                                   *)

Laid(items, m, layout) ==
  StreamTyped /\ ScanIs /\ LaidOut(items, m, layout) /\ CutOf(items)
WholeKind(layout, id) ==
  \A i \in 1 .. Len(layout.ids) : layout.ids[i] = id => layout.starts[i + 1] <= Size
ReadBack(m, id, sure, e, v) ==
  IsEntry(m, id, e) =>
    /\ Len(EntryItems(id, e)) \in Nat
    /\ \A p \in Nat : Stands(p, EntryItems(id, e)) =>
                      Answers(Item(id, p), sure, p + Len(EntryItems(id, e)), v)
IsRead(m, id, sure, n, V) ==
  IF Has(id)
  THEN Number(At(id)) = n /\ \E q : Answers(Entries(id), sure, q, [k \in 1 .. n |-> V[k]])
  ELSE Listed(m, id) = <<>>
AllBack(m, id, sure, n, V) == \A k \in 1 .. n : ReadBack(m, id, sure, Listed(m, id)[k], V[k])

LEMMA KindRead ==
  ASSUME NEW items, NEW m, NEW layout, Laid(items, m, layout), NEW id \in SectionNames,
         WholeKind(layout, id), NEW sure, NEW n, n = Len(Listed(m, id)), NEW V,
         AllBack(m, id, sure, n, V)
  PROVE  IsRead(m, id, sure, n, V)
<1>1. n \in Nat
  BY LayoutParts DEF Laid, IsList
<1>2. IF Has(id) THEN \E places, end : WholeAt(items, m, id, places, At(id), end)
      ELSE Listed(m, id) = <<>>
  BY KindExact DEF Laid, WholeKind
<1>3. CASE Has(id)
  <2>1. PICK places, end : WholeAt(items, m, id, places, At(id), end)
    BY <1>2, <1>3
  <2>2. \A k \in 1 .. n : IsEntry(m, id, Listed(m, id)[k])
    BY <2>1 DEF WholeAt, EntriesAt
  <2>3. Sized(m, id, n)
    BY <2>2 DEF AllBack, ReadBack, Sized
  <2>4. items \in Seq(Nat) /\ StreamTyped /\ CutOf(items)
    BY DEF Laid, LaidOut
  <2>5. PICK start : start = At(id)
    OBVIOUS
  <2>6. WholeAt(items, m, id, places, start, end)
    BY <2>1, <2>5
  <2>7. Number(start) = n /\ Next1(start) = places[1] /\ Standing(m, id, n, places)
    BY <1>1, <2>3, <2>4, <2>6, EntriesStand
  <2>8. Entered(id, sure, n, V, places)
    <3>1. ASSUME NEW k \in 1 .. n
          PROVE  Answers(Item(id, places[k]), sure, places[k + 1], V[k])
      BY <2>7 DEF AllBack, ReadBack, Standing
    <3>2. QED
      BY <2>5, <2>7, <3>1 DEF Entered
  <2>9. n = Number(At(id))
    BY <2>5, <2>7
  <2>10. Answers(Entries(id), sure, places[n + 1], [k \in 1 .. n |-> V[k]])
    BY <1>1, <2>8, <2>9, EntriesAnswer
  <2>11. QED
    BY <1>3, <2>9, <2>10 DEF IsRead
<1>4. CASE ~ Has(id)
  BY <1>2, <1>4 DEF IsRead
<1>5. QED
  BY <1>3, <1>4

(* The table that is filled with the entries of a section.                 *)
Filled(id) ==
  [k \in 1 .. Number(At(id)) |->
     IF k <= Len(Entries(id).val) THEN Entries(id).val[k] ELSE <<>>]
Fills(id, sure, list) ==
  IF Has(id) THEN (Entries(id).ok => Filled(id) = list) /\ (sure => Entries(id).ok)
  ELSE list = <<>>

LEMMA KindFills ==
  ASSUME NEW items, NEW m, NEW layout, Laid(items, m, layout), NEW id \in SectionNames,
         WholeKind(layout, id), NEW sure, NEW list, list = Listed(m, id),
         \A e : ReadBack(m, id, sure, e, e)
  PROVE  IsList(list) /\ Fills(id, sure, list)
<1>1. IsList(list)
  BY LayoutParts DEF Laid
<1>2. PICK n \in Nat : n = Len(list)
  BY <1>1 DEF IsList
<1>3. list = [k \in 1 .. n |-> list[k]]
  BY <1>1, <1>2 DEF IsList
<1>4. AllBack(m, id, sure, n, list)
  BY DEF AllBack
<1>5. IsRead(m, id, sure, n, list)
  BY <1>2, <1>4, KindRead
<1>6. CASE Has(id)
  <2>1. Number(At(id)) = n /\ \E q : Answers(Entries(id), sure, q, list)
    BY <1>3, <1>5, <1>6 DEF IsRead
  <2>2. PICK d : d = Entries(id)
    OBVIOUS
  <2>3. (sure => d.ok) /\ (d.ok => d.val = list)
    BY <2>1, <2>2 DEF Answers, Got
  <2>4. ASSUME d.ok
        PROVE  Filled(id) = list
    <3>1. Filled(id) = [k \in 1 .. n |-> IF k <= Len(list) THEN list[k] ELSE <<>>]
      BY <2>1, <2>2, <2>3, <2>4 DEF Filled
    <3>2. \A k \in 1 .. n : k <= Len(list)
      BY <1>2
    <3>3. QED
      BY <1>3, <3>1, <3>2
  <2>5. QED
    BY <1>1, <1>6, <2>2, <2>3, <2>4 DEF Fills
<1>7. CASE ~ Has(id)
  BY <1>1, <1>5, <1>7 DEF IsRead, Fills
<1>8. QED
  BY <1>6, <1>7

LEMMA ListIsSeq ==
  ASSUME NEW list, IsList(list)
  PROVE  <<>> \o list = list /\ list \o <<>> = list /\ \E S : list \in Seq(S)
<1>1. PICK n \in Nat : n = Len(list)
  BY DEF IsList
<1> DEFINE S == {list[k] : k \in 1 .. n}
<1>2. list \in [1 .. n -> S]
  <2>1. list = [k \in 1 .. n |-> list[k]]
    BY <1>1 DEF IsList
  <2>2. [k \in 1 .. n |-> list[k]] \in [1 .. n -> S]
    OBVIOUS
  <2>3. QED
    BY <2>1, <2>2
<1> HIDE DEF S
<1>3. list \in Seq(S)
  BY <1>1, <1>2, FunctionIsSeq
<1>4. <<>> \o list = list /\ list \o <<>> = list
  BY <1>3, ConcatEmptySeq
<1>5. QED
  BY <1>3, <1>4

LEMMA TypeBack ==
  ASSUME StreamTyped, NEW m, NEW sure, NEW e
  PROVE  ReadBack(m, "type", sure, e, e)
<1>1. SUFFICES ASSUME IsFunctionType(e)
               PROVE  /\ Len(FunctionTypeItems(e)) \in Nat
                      /\ \A p \in Nat : Stands(p, FunctionTypeItems(e)) =>
                           Answers(FunctionType(p), sure, p + Len(FunctionTypeItems(e)), e)
  BY DEF ReadBack, IsEntry, EntryItems, Item
<1>2. Len(FunctionTypeItems(e)) \in Nat
  BY <1>1, EntryNumbers, LenProperties
<1>3. ASSUME NEW p \in Nat, Stands(p, FunctionTypeItems(e))
      PROVE  Answers(FunctionType(p), sure, p + Len(FunctionTypeItems(e)), e)
  BY <1>1, <1>3, FunctionTypeEntry DEF Answers, Got
<1>4. QED
  BY <1>2, <1>3

LEMMA TypesRead ==
  ASSUME NEW items, NEW m, NEW layout, Laid(items, m, layout), WholeKind(layout, "type")
  PROVE  IsList(m.types) /\ Fills("type", TRUE, m.types)
<1>1. "type" \in SectionNames /\ Listed(m, "type") = m.types /\ StreamTyped
  BY DEF SectionNames, Listed, Laid
<1>2. PICK sure : sure = TRUE
  OBVIOUS
<1>3. \A e : ReadBack(m, "type", sure, e, e)
  BY <1>1, TypeBack
<1>4. IsList(m.types) /\ Fills("type", sure, m.types)
  BY <1>1, <1>3, KindFills
<1>5. QED
  BY <1>2, <1>4 DEF Fills

LEMMA FunctionsRead ==
  ASSUME NEW items, NEW m, NEW layout, Laid(items, m, layout), WholeKind(layout, "function"),
         NEW n, n = Len(m.functions)
  PROVE  /\ n \in Nat
         /\ IF Has("function")
            THEN /\ Number(At("function")) = n
                 /\ \E q : Entries("function") = Got(TRUE, q, [k \in 1 .. n |-> m.functions[k][1]])
            ELSE m.functions = <<>>
<1>1. "function" \in SectionNames /\ Listed(m, "function") = m.functions
  BY DEF SectionNames, Listed
<1>2. IsList(m.functions)
  BY <1>1, LayoutParts DEF Laid
<1>3. n \in Nat
  BY <1>2 DEF IsList
<1>4. PICK V : V = [k \in 1 .. n |-> m.functions[k][1]]
  OBVIOUS
<1>5. ASSUME NEW k \in 1 .. n
      PROVE  ReadBack(m, "function", TRUE, m.functions[k], V[k])
  <2>1. SUFFICES ASSUME NEW f, f = m.functions[k], IsFunction(f)
                 PROVE  /\ Len(<<f[1]>>) \in Nat
                        /\ \A p \in Nat : Stands(p, <<f[1]>>) =>
                             Field("number", p) = Got(TRUE, p + Len(<<f[1]>>), V[k])
    BY DEF ReadBack, IsEntry, EntryItems, Item, Answers, Got
  <2>2. V[k] = f[1] /\ Len(<<f[1]>>) = 1
    BY <1>4, <2>1
  <2>3. ASSUME NEW p \in Nat, Stands(p, <<f[1]>>)
        PROVE  Field("number", p) = Got(TRUE, p + 1, f[1])
    BY <2>3, NumberField DEF Laid, Took
  <2>4. QED
    BY <2>2, <2>3
<1>6. IF Has("function")
      THEN Number(At("function")) = n
           /\ \E q : Entries("function") = Got(TRUE, q, [k \in 1 .. n |-> V[k]])
      ELSE m.functions = <<>>
  <2>1. PICK sure : sure = TRUE
    OBVIOUS
  <2>2. AllBack(m, "function", sure, n, V) /\ n = Len(Listed(m, "function"))
    BY <1>1, <1>5, <2>1 DEF AllBack
  <2>3. IsRead(m, "function", sure, n, V)
    BY <1>1, <2>2, KindRead
  <2>4. QED
    BY <1>1, <2>1, <2>3 DEF IsRead, Answers
<1>7. [k \in 1 .. n |-> V[k]] = [k \in 1 .. n |-> m.functions[k][1]]
  BY <1>4
<1>8. QED
  BY <1>3, <1>6, <1>7

LEMMA ImportsRead ==
  ASSUME NEW items, NEW m, NEW layout, Laid(items, m, layout), WholeKind(layout, "import"),
         NEW loader \in Walkers
  PROVE  /\ IsList(m.imports)
         /\ Walk(loader).ok /\ Walk(loader).val = m.imports
<1>1. "import" \in SectionNames /\ Listed(m, "import") = m.imports
  BY DEF SectionNames, Listed
<1>2. IsList(m.imports)
  BY <1>1, LayoutParts DEF Laid
<1>3. PICK n, V : n \in Nat /\ n = Len(m.imports) /\ V = m.imports
  BY <1>2 DEF IsList
<1>4. IF Has("import") THEN \E places, end : WholeAt(items, m, "import", places, At("import"), end)
      ELSE m.imports = <<>>
  BY <1>1, KindExact DEF Laid, WholeKind
<1>5. CASE Has("import")
  <2>1. PICK start, places, end : start = At("import") /\ WholeAt(items, m, "import", places, start, end)
    BY <1>4, <1>5
  <2>2. \A k \in 1 .. n : IsImport(V[k])
    BY <1>1, <1>3, <2>1 DEF WholeAt, EntriesAt, IsEntry
  <2>3. \A e : EntryItems("import", e) = ImportItems(e)
    BY DEF EntryItems
  <2>4. Sized(m, "import", n)
    <3>1. ASSUME NEW k \in 1 .. n
          PROVE  Len(EntryItems("import", Listed(m, "import")[k])) \in Nat
      <4>1. ImportItems(V[k]) \in Seq(Nat)
        BY <2>2, EntryNumbers
      <4>2. QED
        BY <1>1, <1>3, <2>3, <4>1, LenProperties
    <3>2. QED
      BY <3>1 DEF Sized
  <2>5. items \in Seq(Nat) /\ StreamTyped /\ CutOf(items)
    BY DEF Laid, LaidOut
  <2>6. Number(start) = n /\ Next1(start) = places[1] /\ Standing(m, "import", n, places)
    BY <1>1, <1>3, <2>1, <2>4, <2>5, EntriesStand
  <2>7. ASSUME NEW k \in 1 .. n
        PROVE  Import(places[k]) = Got(TRUE, places[k + 1], V[k]) /\ ~ Refused(loader, V[k])
    <3>1. PICK e : e = V[k]
      OBVIOUS
    <3>2. PICK p \in Nat : p = places[k]
      BY <2>6 DEF Standing
    <3>3. Stands(p, ImportItems(e)) /\ places[k + 1] = p + Len(ImportItems(e)) /\ IsImport(e)
      BY <1>1, <1>3, <2>2, <2>3, <2>6, <3>1, <3>2 DEF Standing
    <3>4. Import(p) = Got(TRUE, p + Len(ImportItems(e)), e) /\ ~ Refused(loader, e)
      BY <3>3, ImportEntry DEF Laid
    <3>5. QED
      BY <3>1, <3>2, <3>3, <3>4
  <2>8. Walked(loader, n, V, places)
    BY <2>1, <2>6, <2>7 DEF Walked
  <2>9. n = Number(At("import"))
    BY <2>1, <2>6
  <2>10. Walk(loader) = Got(TRUE, places[n + 1], [k \in 1 .. n |-> V[k]])
    BY <1>3, <1>5, <2>8, <2>9, WalkExact
  <2>11. [k \in 1 .. n |-> V[k]] = m.imports
    BY <1>2, <1>3 DEF IsList
  <2>12. QED
    BY <1>2, <1>3, <2>10, <2>11 DEF Got
<1>6. CASE ~ Has("import")
  BY <1>2, <1>4, <1>6 DEF Walk, Got
<1>7. QED
  BY <1>5, <1>6
-----------------------------------------------------------------------------
(* The bodies: of the entries of the code section those that are there are *)
(* the first, and a body that is whole is the one that was written.        *)

Fits(m, i, b) ==
  b.size > 0 /\ b.offset + b.size <= Size =>
    SubSeq(Stream, b.offset + 1, b.offset + b.size) = m.functions[i][2]
AllFit(m, s) == s \in Seq(BodyPlaces) /\ \A i \in 1 .. Len(s) : Fits(m, i, s[i])

LEMMA BodyFits ==
  ASSUME StreamTyped, NEW items \in Seq(Nat), CutOf(items), NEW l \in Seq(Nat), NEW p \in Nat,
         p < Size, WrittenAt(items, p, BytesItems(l))
  PROVE  /\ Number(p) = Len(l) /\ Next1(p) = p + 1 /\ Len(l) \in Nat
         /\ Len(BytesItems(l)) = Len(l) + 1
         /\ (p + 1) + Len(l) <= Size =>
              SubSeq(Stream, (p + 1) + 1, (p + 1) + Len(l)) = l
<1>1. PICK n \in Nat : n = Len(l)
  BY LenProperties
<1>2. PICK s : s = BytesItems(l)
  OBVIOUS
<1>3. s = <<n>> \o l
  BY <1>1, <1>2 DEF BytesItems
<1>4. s \in Seq(Nat) /\ Len(s) = n + 1 /\ s[1] = n /\ \A k \in 1 .. n : s[k + 1] = l[k]
  BY <1>1, <1>3, Prepending
<1>5. \A k \in 1 .. n + 1 : items[p + k] = s[k]
  BY <1>2, <1>4 DEF WrittenAt
<1>6. Size \in Nat /\ Next1(p) = p + 1 /\ Number(p) = Stream[p + 1]
  BY Numbers
<1>7. Number(p) = n
  <2>1. p + 1 \in 1 .. Size /\ 1 \in 1 .. n + 1
    BY <1>6
  <2>2. QED
    BY <1>4, <1>5, <1>6, <2>1 DEF CutOf
<1>8. ASSUME (p + 1) + n <= Size
      PROVE  SubSeq(Stream, (p + 1) + 1, (p + 1) + n) = l
  <2>1. ASSUME NEW k \in 1 .. n
        PROVE  Stream[(p + 1) + k] = l[k]
    <3>1. (p + 1) + k \in 1 .. Size /\ k + 1 \in 1 .. n + 1 /\ (p + 1) + k = p + (k + 1)
      BY <1>6, <1>8
    <3>2. Stream[(p + 1) + k] = items[p + (k + 1)]
      BY <3>1 DEF CutOf
    <3>3. QED
      BY <1>4, <1>5, <3>1, <3>2
  <2>2. Stream \in Seq(Nat) /\ (p + 1) + n <= Len(Stream) /\ p + 1 \in Nat
    BY <1>8 DEF StreamTyped, Size
  <2>3. QED
    BY <1>1, <2>1, <2>2, SubSeqIs
<1>9. QED
  BY <1>1, <1>2, <1>4, <1>6, <1>7, <1>8

(* The code section, of which the stream may hold a part.                  *)
LEMMA CodeAt ==
  ASSUME NEW items, NEW m, NEW layout, Laid(items, m, layout), Has("code")
  PROVE  /\ CodeReached(layout)
         /\ \E places, end : \E start \in Nat :
              /\ EntriesAt(items, m, "code", places, start, end)
              /\ At("code") = IF start <= Size THEN start ELSE Size
<1>1. PICK n, ids, starts : n = Len(layout.ids) /\ ids = layout.ids /\ starts = layout.starts
  OBVIOUS
<1>2. StreamTyped /\ LaidOut(items, m, layout)
  BY DEF Laid
<1>3. /\ Ordered(ids, starts, n)
      /\ \A k \in 1 .. n : ids[k] # "custom" =>
           EntriesAt(items, m, ids[k], layout.places[k], starts[k] + 2, starts[k + 1])
  BY <1>1, <1>2, LayoutParts
<1>4. "code" \in SectionNames /\ "code" # "custom"
  BY DEF SectionNames
<1>5. PICK j \in 1 .. n : ids[j] = "code" /\ starts[j] < Size /\ At("code") = Next1(starts[j] + 1)
  BY <1>1, <1>4, KindFound DEF Laid
<1>6. CodeReached(layout)
  BY <1>1, <1>5 DEF CodeReached
<1>7. PICK q \in Nat : q = starts[j] /\ q < Size
  BY <1>3, <1>5 DEF Ordered
<1>8. At("code") = IF q + 2 <= Size THEN q + 2 ELSE Size
  <2>1. q + 1 \in Nat /\ Size \in Nat
    BY <1>2, Numbers
  <2>2. CASE q + 1 < Size
    <3>1. Next1(q + 1) = q + 2
      BY <1>2, <2>1, <2>2, Numbers
    <3>2. QED
      BY <1>5, <1>7, <2>1, <2>2, <3>1
  <2>3. CASE ~ (q + 1 < Size)
    <3>1. Next1(q + 1) = q + 1
      BY <1>2, <2>1, <2>3, Numbers
    <3>2. QED
      BY <1>5, <1>7, <2>1, <2>3, <3>1
  <2>4. QED
    BY <2>2, <2>3
<1>9. EntriesAt(items, m, "code", layout.places[j], q + 2, starts[j + 1]) /\ q + 2 \in Nat
  BY <1>3, <1>4, <1>5, <1>7
<1>10. QED
  BY <1>6, <1>8, <1>9

(* How far the walk over the bodies is after j of them.                    *)
Passed(m, w, j, p) ==
  /\ AllFit(m, w.val) /\ w.at \in Nat /\ Len(w.val) <= j
  /\ w.ok => Len(w.val) = j /\ (w.at = p \/ w.at >= Size)

LEMMA BodyPassed ==
  ASSUME StreamTyped, NEW items \in Seq(Nat), CutOf(items), NEW m, NEW j \in Nat,
         IsFunction(m.functions[j + 1]), NEW p \in Nat, NEW w, Passed(m, w, j, p),
         WrittenAt(items, p, CodeItems(m.functions[j + 1]))
  PROVE  Passed(m, Then(w, CodeEntry(w.at)), j + 1,
                p + Len(CodeItems(m.functions[j + 1])))
<1>1. PICK l \in Seq(Nat) : l = m.functions[j + 1][2] /\ CodeItems(m.functions[j + 1]) = BytesItems(l)
  BY DEF IsFunction, CodeItems
<1>2. PICK q \in Nat, a \in Nat, b \in Nat : q = w.at /\ a = Next1(q) /\ b = Number(q)
  BY Numbers DEF Passed
<1>3. PICK e : e = [offset |-> a, size |-> b] /\ e \in BodyPlaces /\ e.offset = a /\ e.size = b
  <2>1. [offset |-> a, size |-> b] \in BodyPlaces
    BY DEF BodyPlaces
  <2>2. QED
    BY <2>1
<1>4. CodeEntry(q) = Got(CanSeek(a + b), a + b, e)
  BY <1>2, <1>3 DEF CodeEntry
<1>5. Size \in Nat
  BY Numbers
<1>6. PICK n, s : n \in Nat /\ s = w.val /\ n = Len(s) /\ s \in Seq(BodyPlaces) /\ n <= j
  BY LenProperties DEF Passed, AllFit
<1>7. CASE ~ w.ok
  <2>1. Then(w, CodeEntry(w.at)) = w
    BY <1>7 DEF Then
  <2>2. n <= j + 1
    BY <1>6
  <2>3. QED
    BY <1>6, <1>7, <2>1, <2>2 DEF Passed
<1>8. CASE w.ok
  <2>1. n = j /\ (q = p \/ q >= Size)
    BY <1>2, <1>6, <1>8 DEF Passed
  <2>2. Fits(m, j + 1, e) /\ (a + b = p + Len(BytesItems(l)) \/ a + b >= Size)
    <3>1. CASE q >= Size
      <4>1. a = q /\ b = 0
        <5>1. ~ (q < Size)
          BY <1>5, <3>1
        <5>2. QED
          BY <1>2, <5>1, Numbers
      <4>2. ~ (e.size > 0) /\ a + b >= Size
        BY <1>3, <3>1, <4>1
      <4>3. QED
        BY <4>2 DEF Fits
    <3>2. CASE ~ (q >= Size)
      <4>1. q = p /\ p < Size
        BY <1>5, <2>1, <3>2
      <4>2. WrittenAt(items, p, BytesItems(l))
        BY <1>1
      <4>3. /\ b = Len(l) /\ a = p + 1 /\ Len(BytesItems(l)) = b + 1
            /\ (p + 1) + Len(l) <= Size => SubSeq(Stream, (p + 1) + 1, (p + 1) + Len(l)) = l
        BY <1>2, <4>1, <4>2, BodyFits
      <4>4. Fits(m, j + 1, e)
        BY <1>1, <1>3, <4>3 DEF Fits
      <4>5. a + b = p + Len(BytesItems(l))
        BY <4>3
      <4>6. QED
        BY <4>4, <4>5
    <3>3. QED
      BY <3>1, <3>2
  <2>3. PICK t : t = Append(s, e)
    OBVIOUS
  <2>4. t \in Seq(BodyPlaces) /\ Len(t) = n + 1 /\ t[n + 1] = e /\ \A i \in 1 .. n : t[i] = s[i]
    BY <1>3, <1>6, <2>3, AppendProperties
  <2>5. AllFit(m, t)
    <3>1. ASSUME NEW i \in 1 .. n + 1
          PROVE  Fits(m, i, t[i])
      <4>1. CASE i \in 1 .. n
        <5>1. Fits(m, i, s[i])
          BY <1>6, <4>1 DEF Passed, AllFit
        <5>2. QED
          BY <2>4, <4>1, <5>1
      <4>2. CASE i = n + 1
        BY <2>1, <2>2, <2>4, <4>2
      <4>3. QED
        BY <1>6, <4>1, <4>2
    <3>2. QED
      BY <2>4, <3>1 DEF AllFit
  <2>6. PICK v : v = Then(w, CodeEntry(w.at))
    OBVIOUS
  <2>7. v = Got(CanSeek(a + b), a + b, t)
    <3>1. PICK x : x = CodeEntry(q) /\ x = Got(CanSeek(a + b), a + b, e)
      BY <1>4
    <3>2. x.ok = CanSeek(a + b) /\ x.at = a + b /\ x.val = e
      BY <3>1 DEF Got
    <3>3. QED
      BY <1>2, <1>6, <1>8, <2>3, <2>6, <3>1, <3>2 DEF Then
  <2>8. v.at = a + b /\ v.val = t
    BY <2>7 DEF Got
  <2>9. Passed(m, v, j + 1, p + Len(BytesItems(l)))
    BY <2>1, <2>2, <2>4, <2>5, <2>8 DEF Passed
  <2>10. QED
    BY <1>1, <2>6, <2>9
<1>9. QED
  BY <1>7, <1>8

LEMMA CodePartial ==
  ASSUME NEW items, NEW m, NEW layout, Laid(items, m, layout), Has("code"),
         NEW n, n = Len(m.functions)
  PROVE  /\ n \in Nat
         /\ Number(At("code")) \in {0, n}
         /\ AllFit(m, Entries("code").val) /\ Len(Entries("code").val) <= n
<1>1. StreamTyped /\ CutOf(items) /\ items \in Seq(Nat) /\ LaidOut(items, m, layout)
  BY DEF Laid, LaidOut
<1>2. "code" \in SectionNames /\ Listed(m, "code") = m.functions
  BY DEF SectionNames, Listed
<1>3. n \in Nat
  BY <1>1, <1>2, LayoutParts DEF IsList
<1>4. PICK places, end : \E start \in Nat :
        /\ EntriesAt(items, m, "code", places, start, end)
        /\ At("code") = IF start <= Size THEN start ELSE Size
  BY CodeAt
<1>5. PICK start \in Nat : /\ EntriesAt(items, m, "code", places, start, end)
                           /\ At("code") = IF start <= Size THEN start ELSE Size
  BY <1>4
<1>6. Size \in Nat
  BY <1>1, Numbers
<1>7. /\ WrittenAt(items, start, <<n>>) /\ places[1] = start + 1
      /\ \A k \in 1 .. n + 1 : places[k] \in Nat
      /\ \A k \in 1 .. n : /\ IsFunction(m.functions[k])
                           /\ WrittenAt(items, places[k], CodeItems(m.functions[k]))
                           /\ places[k + 1] = places[k] + Len(CodeItems(m.functions[k]))
  BY <1>2, <1>5 DEF EntriesAt, IsEntry, EntryItems
<1>8. PICK at \in Nat, count \in Nat : at = At("code") /\ count = Number(at)
  BY <1>1, <1>5, <1>6, Numbers
<1>9. CASE ~ (start < Size)
  <2>1. at >= Size /\ count = 0
    <3>1. at = Size /\ ~ (at < Size)
      BY <1>5, <1>6, <1>8, <1>9
    <3>2. count = 0
      BY <1>1, <1>8, <3>1, Numbers
    <3>3. QED
      BY <1>6, <3>1, <3>2
  <2>2. PICK r : r[0] = Got(TRUE, Next1(At("code")), <<>>) /\ Entries("code") = r[0]
    <3>1. PICK k \in Nat : k = 0 /\ k = Number(At("code"))
      BY <1>8, <2>1
    <3>2. \E r : /\ r[0] = Got(TRUE, Next1(At("code")), <<>>)
                 /\ Entries("code") = r[k]
      BY <3>1, EntriesSteps
    <3>3. QED
      BY <3>1, <3>2
  <2>3. Entries("code").val = <<>> /\ Len(Entries("code").val) = 0
    BY <2>2 DEF Got
  <2>4. <<>> \in Seq(BodyPlaces)
    <3> HIDE DEF BodyPlaces
    <3>1. QED
      BY EmptySeq
  <2>5. AllFit(m, <<>>) /\ Len(<<>>) = 0
    BY <2>3, <2>4 DEF AllFit
  <2>6. Number(At("code")) = 0 /\ 0 <= n
    BY <1>3, <1>8, <2>1
  <2>7. QED
    BY <1>3, <2>3, <2>5, <2>6
<1>10. CASE start < Size
  <2>1. at = start /\ Next1(at) = places[1] /\ count = n
    <3>1. Len(<<n>>) = 1 /\ <<n>>[1] = n
      OBVIOUS
    <3>2. PICK h : h = <<n>> /\ Len(h) = 1 /\ h[1] = n
      BY <3>1, Zenon
    <3>3. items[start + 1] = n
      BY <1>7, <3>2 DEF WrittenAt
    <3>4. at = start /\ start + 1 \in 1 .. Size
      BY <1>5, <1>6, <1>8, <1>10
    <3>5. count = Stream[start + 1] /\ Next1(at) = start + 1
      BY <1>1, <1>8, <1>10, <3>4, Numbers
    <3>6. QED
      BY <1>1, <1>7, <3>3, <3>4, <3>5 DEF CutOf
  <2>2. PICK r : /\ r[0] = Got(TRUE, Next1(At("code")), <<>>)
                 /\ \A j \in 1 .. n : r[j] = Then(r[j-1], Item("code", r[j-1].at))
                 /\ Entries("code") = r[n]
    <3>1. n = Number(At("code"))
      BY <1>8, <2>1
    <3>2. QED
      BY <1>3, <3>1, EntriesSteps
  <2> DEFINE Q == {j \in Nat : j <= n => Passed(m, r[j], j, places[j + 1])}
  <2>3. 0 \in Q
    <3>1. r[0].val = <<>> /\ Len(r[0].val) = 0 /\ r[0].at = places[1] /\ places[0 + 1] = places[1]
      BY <1>8, <2>1, <2>2 DEF Got
    <3>2. <<>> \in Seq(BodyPlaces)
      <4> HIDE DEF BodyPlaces
      <4>1. QED
        BY EmptySeq
    <3>3. AllFit(m, r[0].val)
      BY <3>1, <3>2 DEF AllFit
    <3>4. places[1] \in Nat
      <4>1. 1 \in 1 .. n + 1
        BY <1>3
      <4>2. QED
        BY <1>7, <4>1
    <3>5. Passed(m, r[0], 0, places[0 + 1])
      BY <3>1, <3>3, <3>4 DEF Passed
    <3>6. QED
      BY <3>5
  <2>4. ASSUME NEW j \in Nat, j \in Q
        PROVE  j + 1 \in Q
    <3>1. SUFFICES ASSUME j + 1 <= n
                   PROVE  Passed(m, r[j + 1], j + 1, places[(j + 1) + 1])
      OBVIOUS
    <3>2. Passed(m, r[j], j, places[j + 1])
      BY <1>3, <2>4, <3>1
    <3>3. j + 1 \in 1 .. n /\ j + 1 \in 1 .. n + 1 /\ (j + 1) - 1 = j
      BY <1>3, <3>1
    <3>4. PICK p \in Nat : p = places[j + 1]
      BY <1>7, <3>3
    <3>5. /\ IsFunction(m.functions[j + 1])
          /\ WrittenAt(items, p, CodeItems(m.functions[j + 1]))
          /\ places[(j + 1) + 1] = p + Len(CodeItems(m.functions[j + 1]))
      BY <1>7, <3>3, <3>4
    <3>6. PICK w : w = r[j]
      OBVIOUS
    <3>7. r[j + 1] = Then(w, CodeEntry(w.at))
      BY <2>2, <3>3, <3>6 DEF Item
    <3>8. Passed(m, w, j, p)
      BY <3>2, <3>4, <3>6
    <3>9. Passed(m, Then(w, CodeEntry(w.at)), j + 1, p + Len(CodeItems(m.functions[j + 1])))
      BY <1>1, <3>5, <3>8, BodyPassed
    <3>10. QED
      BY <3>5, <3>7, <3>9
  <2>5. n \in Q
    BY <1>3, <2>3, <2>4, SetInduction
  <2>6. Passed(m, Entries("code"), n, places[n + 1])
    BY <1>3, <2>2, <2>5
  <2>7. QED
    BY <1>3, <1>8, <2>1, <2>6 DEF Passed
<1>11. QED
  BY <1>9, <1>10
-----------------------------------------------------------------------------
(* The function table, as it is declared.                                  *)

StatedAs(m, d, a, n) ==
  /\ a \in Nat /\ n \in Nat /\ DOMAIN d = 1 .. a + n
  /\ \A i \in 1 .. a : d[i].type = Chosen(m.imports, "function")[i].desc[1]
  /\ \A i \in 1 .. n : d[a + i].type = m.functions[i][1] /\ d[a + i].body = m.functions[i][2]

LEMMA StatedFunctions ==
  ASSUME NEW m, IsList(m.imports), IsList(m.functions),
         NEW a, a = Len(Chosen(m.imports, "function")), NEW n, n = Len(m.functions),
         NEW d, d = Stated(m).functions
  PROVE  StatedAs(m, d, a, n)
<1>1. PICK c : c = Chosen(m.imports, "function")
  OBVIOUS
<1>2. a = Len(c) /\ a \in Nat /\ n \in Nat
  <2>1. Len(m.imports) \in Nat /\ Len(m.functions) \in Nat
    BY DEF IsList
  <2>2. c \in Seq({m.imports[j] : j \in 1 .. Len(m.imports)})
    BY <1>1, <2>1, ChosenIsSeq
  <2>3. QED
    BY <1>1, <2>1, <2>2, LenProperties
<1> DEFINE u == ImportsStated(c)
           v == FunctionsStated(m.functions)
           S == {u[i] : i \in 1 .. a} \cup {v[i] : i \in 1 .. n}
<1>3. d = u \o v
  BY <1>1 DEF Stated
<1>4. \A i \in 1 .. a : u[i].type = c[i].desc[1]
  BY <1>2 DEF ImportsStated
<1>5. \A i \in 1 .. n : v[i].type = m.functions[i][1] /\ v[i].body = m.functions[i][2]
  BY DEF FunctionsStated
<1>6. u \in [1 .. a -> S] /\ v \in [1 .. n -> S]
  BY <1>2 DEF ImportsStated, FunctionsStated
<1> HIDE DEF u, v, S
<1>7. u \in Seq(S) /\ Len(u) = a /\ v \in Seq(S) /\ Len(v) = n
  BY <1>2, <1>6, FunctionIsSeq
<1>8. /\ d \in Seq(S) /\ Len(d) = a + n
      /\ \A i \in 1 .. a + n : d[i] = IF i <= a THEN u[i] ELSE v[i - a]
  <2>1. PICK x, y : x = u /\ y = v
    OBVIOUS
  <2>2. x \in Seq(S) /\ y \in Seq(S) /\ Len(x) = a /\ Len(y) = n /\ d = x \o y
    BY <1>3, <1>7, <2>1
  <2>3. d \in Seq(S) /\ Len(d) = Len(x) + Len(y)
    BY <2>2, ConcatProperties
  <2>4. \A i \in 1 .. Len(x) + Len(y) : d[i] = IF i <= Len(x) THEN x[i] ELSE y[i - Len(x)]
    <3>1. x \in Seq(S) /\ y \in Seq(S)
      BY <2>2
    <3>2. \A i \in 1 .. Len(x) + Len(y) :
            (x \o y)[i] = IF i <= Len(x) THEN x[i] ELSE y[i - Len(x)]
      BY ONLY <3>1, ConcatProperties, Zenon
    <3>3. QED
      BY <2>2, <3>2
  <2>5. QED
    BY <2>1, <2>2, <2>3, <2>4
<1>9. DOMAIN d = 1 .. a + n
  BY <1>8, LenProperties
<1>10. ASSUME NEW i \in 1 .. a PROVE d[i].type = c[i].desc[1]
  <2>1. a \in Nat /\ n \in Nat
    BY <1>2
  <2>2. i \in 1 .. a + n /\ i <= a
    BY ONLY <2>1, i \in 1 .. a
  <2>3. QED
    BY <1>4, <1>8, <2>2
<1>11. ASSUME NEW i \in 1 .. n
       PROVE  d[a + i].type = m.functions[i][1] /\ d[a + i].body = m.functions[i][2]
  <2>1. a + i \in 1 .. a + n /\ ~ (a + i <= a) /\ (a + i) - a = i
    BY <1>2
  <2>2. d[a + i] = v[i]
    BY <1>8, <2>1
  <2>3. QED
    BY <1>5, <2>2
<1>12. QED
  BY <1>1, <1>2, <1>9, <1>10, <1>11 DEF StatedAs

(* What the functions of a table point at was declared for them; and what  *)
(* their types are.                                                        *)
BodiesAre(m, layout, t) ==
  \A i \in 1 .. Len(t) :
    ~ t[i].imported /\ t[i].size > 0 =>
      /\ CodeReached(layout)
      /\ Whole(t[i]) => SubSeq(Stream, t[i].offset + 1, t[i].offset + t[i].size)
                          = Stated(m).functions[i].body
TypesAre(m, t) ==
  /\ DOMAIN Stated(m).functions = 1 .. Len(t)
  /\ \A i \in 1 .. Len(t) : t[i].type = Stated(m).functions[i].type

Joins(t, imported, types, bodies, a, n) ==
  /\ Len(t) = a + n /\ DOMAIN t = 1 .. a + n
  /\ \A i \in 1 .. a : t[i].imported /\ t[i].type = imported[i].desc[1]
  /\ \A i \in 1 .. n :
       /\ t[a + i].type = types[i]
       /\ i <= Len(bodies) => t[a + i].offset = bodies[i].offset /\ t[a + i].size = bodies[i].size
       /\ ~ (i <= Len(bodies)) => t[a + i].size = 0

LEMMA TableParts ==
  ASSUME NEW imported, NEW types, NEW bodies, NEW a \in Nat, a = Len(imported),
         NEW n \in Nat, n = Len(types), NEW t, t = WithBodies(imported, types, bodies)
  PROVE  Joins(t, imported, types, bodies, a, n)
<1>1. DOMAIN t = 1 .. a + n /\ t = [k \in 1 .. a + n |-> t[k]]
  BY DEF WithBodies
<1>2. Len(t) = a + n
  <2>1. t \in [1 .. a + n -> {t[k] : k \in 1 .. a + n}]
    BY <1>1
  <2>2. QED
    BY <2>1, FunctionIsSeq
<1>3. ASSUME NEW i \in 1 .. a PROVE t[i].imported /\ t[i].type = imported[i].desc[1]
  <2>1. i \in 1 .. a + n /\ i <= a
    OBVIOUS
  <2>2. t[i] = Function(imported[i].desc[1], TRUE, imported[i].name, 0, 0)
    BY <2>1 DEF WithBodies
  <2>3. QED
    BY <2>2 DEF Function
<1>4. ASSUME NEW i \in 1 .. n
      PROVE  /\ t[a + i].type = types[i]
             /\ i <= Len(bodies) => t[a + i].offset = bodies[i].offset /\ t[a + i].size = bodies[i].size
             /\ ~ (i <= Len(bodies)) => t[a + i].size = 0
  <2>1. a + i \in 1 .. a + n /\ ~ (a + i <= a) /\ (a + i) - a = i
    OBVIOUS
  <2>2. PICK b : b = IF i <= Len(bodies) THEN bodies[i] ELSE [offset |-> 0, size |-> 0]
    OBVIOUS
  <2>3. t[a + i] = Function(types[i], FALSE, <<>>, b.offset, b.size)
    BY <2>1, <2>2 DEF WithBodies
  <2>4. t[a + i].type = types[i] /\ t[a + i].offset = b.offset /\ t[a + i].size = b.size
    BY <2>3 DEF Function
  <2>5. QED
    BY <2>2, <2>4
<1>5. QED
  BY <1>1, <1>2, <1>3, <1>4 DEF Joins

(* The table that wasm_load_functions makes of what the sections held.     *)
LEMMA TableIs ==
  ASSUME NEW items, NEW m, NEW layout, Laid(items, m, layout), sections \in Seq(Places),
         NEW imported, imported = Chosen(ImportedFunctions.val, "function"),
         NEW types, types = (IF Has("function") THEN Entries("function").val ELSE <<>>),
         NEW bodies, bodies = <<>> \/ (Has("code") /\ bodies = Entries("code").val),
         NEW t, t = WithBodies(imported, types, bodies)
  PROVE  BodiesAre(m, layout, t) /\ (CodeReached(layout) => TypesAre(m, t))
<1>1. StreamTyped /\ LaidOut(items, m, layout)
  BY DEF Laid
<1>2. PICK a \in Nat : a = Len(imported)
  <2>1. PICK list : list = ImportedFunctions.val /\ Len(list) \in Nat
    BY <1>1, WalkTyped DEF ImportedFunctions
  <2>2. imported \in Seq({list[j] : j \in 1 .. Len(list)})
    BY <2>1, ChosenIsSeq
  <2>3. QED
    BY <2>2, LenProperties
<1>3. PICK n \in Nat : n = Len(types)
  <2>1. CASE Has("function")
    BY <1>1, <2>1, FunctionEntriesTyped, LenProperties
  <2>2. CASE ~ Has("function")
    BY <2>2
  <2>3. QED
    BY <2>1, <2>2
<1>4. /\ Len(t) = a + n /\ DOMAIN t = 1 .. a + n
      /\ \A i \in 1 .. a : t[i].imported /\ t[i].type = imported[i].desc[1]
      /\ \A i \in 1 .. n :
           /\ t[a + i].type = types[i]
           /\ i <= Len(bodies) => t[a + i].offset = bodies[i].offset /\ t[a + i].size = bodies[i].size
           /\ ~ (i <= Len(bodies)) => t[a + i].size = 0
  <2>1. Joins(t, imported, types, bodies, a, n)
    BY <1>2, <1>3, TableParts
  <2>2. QED
    BY <2>1 DEF Joins
<1>5. ASSUME NEW i \in 1 .. a + n, ~ t[i].imported
      PROVE  \E j \in 1 .. n : i = a + j
  <2>1. ~ (i <= a)
    BY <1>4, <1>5
  <2>2. i - a \in 1 .. n /\ i = a + (i - a)
    BY <2>1
  <2>3. QED
    BY <2>2
<1>6. CASE ~ CodeReached(layout)
  <2>1. ~ Has("code")
    BY <1>6, CodeAt
  <2>2. bodies = <<>> /\ Len(bodies) = 0
    BY <2>1
  <2>3. ASSUME NEW i \in 1 .. Len(t), ~ t[i].imported, t[i].size > 0
        PROVE  FALSE
    <3>1. PICK j \in 1 .. n : i = a + j
      BY <1>4, <1>5, <2>3
    <3>2. t[i].size = 0
      BY <1>4, <2>2, <3>1
    <3>3. QED
      BY <2>3, <3>2
  <2>4. QED
    BY <1>6, <2>3 DEF BodiesAre
<1>7. CASE CodeReached(layout)
  <2>1. \A id \in BeforeCode : WholeKind(layout, id)
    BY <1>1, <1>7, WholeBeforeCode DEF WholeKind
  <2>2. "import" \in BeforeCode /\ "function" \in BeforeCode
    BY DEF BeforeCode
  <2>3. WholeKind(layout, "import") /\ WholeKind(layout, "function")
    BY <2>1, <2>2
  <2>4. IsList(m.imports) /\ imported = Chosen(m.imports, "function")
    <3>1. "functions" \in Walkers
      BY DEF Walkers
    <3>2. IsList(m.imports) /\ Walk("functions").val = m.imports
      BY <2>3, <3>1, ImportsRead
    <3>3. QED
      BY <3>2 DEF ImportedFunctions
  <2>5. PICK k : k = Len(m.functions)
    OBVIOUS
  <2>6. /\ k \in Nat
        /\ IF Has("function")
           THEN \E q : Entries("function") = Got(TRUE, q, [i \in 1 .. k |-> m.functions[i][1]])
           ELSE m.functions = <<>>
    BY <2>3, <2>5, FunctionsRead
  <2>7. n = k /\ \A i \in 1 .. n : types[i] = m.functions[i][1]
    <3>1. CASE Has("function")
      <4>1. types = [i \in 1 .. k |-> m.functions[i][1]]
        BY <2>6, <3>1 DEF Got
      <4>2. Len([i \in 1 .. k |-> m.functions[i][1]]) = k
        <5>1. [i \in 1 .. k |-> m.functions[i][1]] \in [1 .. k -> {m.functions[i][1] : i \in 1 .. k}]
          OBVIOUS
        <5>2. QED
          BY <2>6, <5>1, FunctionIsSeq
      <4>3. QED
        BY <1>3, <4>1, <4>2
    <3>2. CASE ~ Has("function")
      <4>1. types = <<>> /\ m.functions = <<>> /\ Len(<<>>) = 0
        BY <2>6, <3>2
      <4>2. QED
        BY <1>3, <2>5, <4>1
    <3>3. QED
      BY <3>1, <3>2
  <2>8. IsList(m.functions)
    <3>1. "function" \in SectionNames /\ Listed(m, "function") = m.functions
      BY DEF SectionNames, Listed
    <3>2. QED
      BY <1>1, <3>1, LayoutParts
  <2>9. PICK d : d = Stated(m).functions
    OBVIOUS
  <2>10. /\ DOMAIN d = 1 .. a + n
         /\ \A i \in 1 .. a : d[i].type = imported[i].desc[1]
         /\ \A i \in 1 .. n : d[a + i].type = m.functions[i][1] /\ d[a + i].body = m.functions[i][2]
    <3>1. a = Len(Chosen(m.imports, "function")) /\ n = Len(m.functions)
      BY <1>2, <2>4, <2>5, <2>7
    <3>2. StatedAs(m, d, a, n)
      BY <2>4, <2>8, <2>9, <3>1, StatedFunctions
    <3>3. QED
      BY <2>4, <3>2 DEF StatedAs
  <2>11. TypesAre(m, t)
    <3>1. ASSUME NEW i \in 1 .. a + n
          PROVE  t[i].type = d[i].type
      <4>1. CASE i \in 1 .. a
        BY <1>4, <2>10, <4>1
      <4>2. CASE ~ (i \in 1 .. a)
        <5>1. i - a \in 1 .. n /\ i = a + (i - a)
          BY <4>2
        <5>2. PICK j \in 1 .. n : i = a + j
          BY <5>1
        <5>3. t[a + j].type = types[j] /\ d[a + j].type = m.functions[j][1]
          BY <1>4, <2>10
        <5>4. QED
          BY <2>7, <5>2, <5>3
      <4>3. QED
        BY <4>1, <4>2
    <3>2. QED
      BY <1>4, <2>9, <2>10, <3>1 DEF TypesAre
  <2>12. AllFit(m, bodies)
    <3>1. CASE bodies = <<>>
      <4>1. <<>> \in Seq(BodyPlaces) /\ Len(<<>>) = 0
        <5> HIDE DEF BodyPlaces
        <5>1. QED
          BY EmptySeq
      <4>2. QED
        BY <3>1, <4>1 DEF AllFit
    <3>2. CASE Has("code") /\ bodies = Entries("code").val
      BY <2>5, <3>2, CodePartial
    <3>3. QED
      BY <3>1, <3>2
  <2>13. ASSUME NEW i \in 1 .. Len(t), ~ t[i].imported, t[i].size > 0, Whole(t[i])
         PROVE  SubSeq(Stream, t[i].offset + 1, t[i].offset + t[i].size) = d[i].body
    <3>1. PICK j \in 1 .. n : i = a + j
      BY <1>4, <1>5, <2>13
    <3>2. j <= Len(bodies)
      BY <1>4, <2>13, <3>1
    <3>3. PICK b : b = bodies[j] /\ t[i].offset = b.offset /\ t[i].size = b.size
      BY <1>4, <3>1, <3>2
    <3>4. Fits(m, j, b)
      <4>1. Len(bodies) \in Nat
        BY <2>12, LenProperties DEF AllFit
      <4>2. j \in 1 .. Len(bodies)
        BY <3>2, <4>1
      <4>3. QED
        BY <2>12, <3>3, <4>2 DEF AllFit
    <3>5. d[i].body = m.functions[j][2]
      BY <2>10, <3>1
    <3>6. b.size > 0 /\ b.offset + b.size <= Size
      BY <2>13, <3>3 DEF Whole
    <3>7. QED
      BY <3>3, <3>4, <3>5, <3>6 DEF Fits
  <2>14. BodiesAre(m, layout, t)
    BY <1>7, <2>9, <2>13 DEF BodiesAre
  <2>15. QED
    BY <2>11, <2>14
<1>8. QED
  BY <1>6, <1>7
-----------------------------------------------------------------------------
(* What is handed out was declared.                                        *)

TypesKept(m, layout) ==
  /\ result["types"] = "none" => module["types"] = <<>>
  /\ CodeReached(layout) /\ result["types"] # "none" => module["types"] = m.types
TableKept(m, layout) ==
  /\ result["functions"] = "none" => module["functions"] = <<>>
  /\ BodiesAre(m, layout, module["functions"])
  /\ CodeReached(layout) /\ result["functions"] # "none" => TypesAre(m, module["functions"])
BodyKept(m, layout) ==
  body # NoBody =>
    /\ CodeReached(layout) /\ result["functions"] # "none"
    /\ body.fn \in DOMAIN Stated(m).functions
    /\ body.items = Stated(m).functions[body.fn].body
Kept(items, m, layout) ==
  /\ LaidOut(items, m, layout) /\ CutOf(items)
  /\ Scanned => ScanIs
  /\ TypesKept(m, layout) /\ TableKept(m, layout) /\ BodyKept(m, layout)

LEMMA CodeReachedStays ==
  ASSUME NEW layout, UNCHANGED input
  PROVE  CodeReached(layout)' = CodeReached(layout)
BY DEF CodeReached, Size, Stream

LEMMA BodiesStay ==
  ASSUME NEW m, NEW layout, UNCHANGED input, NEW t, BodiesAre(m, layout, t)
  PROVE  BodiesAre(m, layout, t)'
BY DEF BodiesAre, CodeReached, Whole, Size, Stream

LEMMA TypesStay ==
  ASSUME NEW m, NEW layout, UNCHANGED input, TypesKept(m, layout),
         module'["types"] = module["types"], result'["types"] = result["types"]
  PROVE  TypesKept(m, layout)'
BY CodeReachedStays DEF TypesKept

LEMMA TableStays ==
  ASSUME NEW m, NEW layout, UNCHANGED input, TableKept(m, layout),
         module'["functions"] = module["functions"], result'["functions"] = result["functions"]
  PROVE  TableKept(m, layout)'
<1>1. PICK t : t = module["functions"]
  OBVIOUS
<1>2. BodiesAre(m, layout, t)'
  BY <1>1, BodiesStay DEF TableKept
<1>3. BodiesAre(m, layout, module["functions"])'
  BY <1>1, <1>2 DEF BodiesAre
<1>4. TypesAre(m, t) => TypesAre(m, module["functions"])'
  BY <1>1 DEF TypesAre
<1>5. QED
  BY <1>1, <1>3, <1>4, CodeReachedStays DEF TableKept

LEMMA BodyStays ==
  ASSUME NEW m, NEW layout, UNCHANGED <<input, body>>, BodyKept(m, layout),
         result["functions"] # "none" => result'["functions"] # "none"
  PROVE  BodyKept(m, layout)'
BY CodeReachedStays DEF BodyKept

LEMMA SectionsStay ==
  ASSUME UNCHANGED input
  PROVE  SectionsFrom(2)' = SectionsFrom(2)
BY DEF SectionsFrom, SectionEnd, Here, Next1, Number, CanSeek, Size, Stream

LEMMA ScanStays ==
  ASSUME UNCHANGED <<input, sections>>, ScanIs
  PROVE  ScanIs'
BY SectionsStay DEF ScanIs, Size, Stream

(* A loader of another table.                                              *)
LEMMA OtherKept ==
  ASSUME NEW items, NEW m, NEW layout, TypeInv, Kept(items, m, layout),
         NEW loader \in Loaders \ {"types", "functions"}, NEW table, NEW ok,
         Done(loader, table, ok)
  PROVE  Kept(items, m, layout)'
<1>1. /\ UNCHANGED <<input, sections, body>>
      /\ module' = [module EXCEPT ![loader] = table]
      /\ result' = [result EXCEPT ![loader] = IF ok THEN "ok" ELSE "fail"]
  BY DEF Done
<1>2. /\ module'["types"] = module["types"] /\ module'["functions"] = module["functions"]
      /\ result'["types"] = result["types"] /\ result'["functions"] = result["functions"]
      /\ result'["sections"] = result["sections"]
  BY <1>1 DEF TypeInv, TypeOK, Loaders
<1>3. TypesKept(m, layout)' /\ TableKept(m, layout)' /\ BodyKept(m, layout)'
  BY <1>1, <1>2, TypesStay, TableStays, BodyStays DEF Kept
<1>4. (Scanned => ScanIs)'
  BY <1>1, <1>2, ScanStays DEF Kept, Scanned
<1>5. QED
  BY <1>1, <1>3, <1>4 DEF Kept, CutOf, Size, Stream

LEMMA TypesLoaded ==
  ASSUME NEW items, NEW m, NEW layout, TypeInv, Kept(items, m, layout), LoadTypes
  PROVE  Kept(items, m, layout)'
<1>1. Laid(items, m, layout)
  BY DEF Laid, Kept, TypeInv, LoadTypes, LoadRequired
<1>2. PICK table, ok : /\ Done("types", table, ok)
                       /\ CodeReached(layout) => table = m.types
  <2>1. ASSUME CodeReached(layout)
        PROVE  IsList(m.types) /\ Fills("type", TRUE, m.types)
    <3>1. "type" \in BeforeCode /\ StreamTyped /\ LaidOut(items, m, layout)
      BY <1>1 DEF BeforeCode, Laid
    <3>2. WholeKind(layout, "type")
      BY <2>1, <3>1, WholeBeforeCode DEF WholeKind
    <3>3. QED
      BY <1>1, <3>2, TypesRead
  <2>2. CASE Has("type")
    <3>1. Done("types", <<>> \o Filled("type"), Entries("type").ok)
      BY <2>2 DEF LoadTypes, LoadRequired, DoneWith, Filled
    <3>2. ASSUME CodeReached(layout)
          PROVE  <<>> \o Filled("type") = m.types
      BY <2>1, <2>2, <3>2, ListIsSeq DEF Fills
    <3>3. QED
      BY <3>1, <3>2
  <2>3. CASE ~ Has("type")
    <3>1. Done("types", module["types"], FALSE)
      BY <2>3 DEF LoadTypes, LoadRequired, Failed
    <3>2. CodeReached(layout) => module["types"] = m.types
      BY <2>1, <2>3 DEF Kept, TypesKept, Fills
    <3>3. QED
      BY <3>1, <3>2
  <2>4. QED
    BY <2>2, <2>3
<1>3. /\ UNCHANGED <<input, sections, body>>
      /\ module' = [module EXCEPT !["types"] = table]
      /\ result' = [result EXCEPT !["types"] = IF ok THEN "ok" ELSE "fail"]
  BY <1>2 DEF Done
<1>4. /\ module'["types"] = table /\ module'["functions"] = module["functions"]
      /\ result'["types"] # "none" /\ result'["functions"] = result["functions"]
      /\ result'["sections"] = result["sections"]
  BY <1>3 DEF TypeInv, TypeOK, Loaders
<1>5. TableKept(m, layout)' /\ BodyKept(m, layout)'
  BY <1>3, <1>4, TableStays, BodyStays DEF Kept
<1>6. TypesKept(m, layout)'
  BY <1>2, <1>3, <1>4, CodeReachedStays DEF TypesKept
<1>7. (Scanned => ScanIs)'
  BY <1>3, <1>4, ScanStays DEF Kept, Scanned
<1>8. QED
  BY <1>3, <1>5, <1>6, <1>7 DEF Kept, CutOf, Size, Stream

LEMMA FunctionsLoaded ==
  ASSUME NEW items, NEW m, NEW layout, TypeInv, Kept(items, m, layout), LoadFunctions
  PROVE  Kept(items, m, layout)'
<1>1. Laid(items, m, layout) /\ sections \in Seq(Places)
  BY DEF Laid, Kept, TypeInv, LoadFunctions
<1>2. PICK imported : imported = Chosen(ImportedFunctions.val, "function")
  OBVIOUS
<1>3. PICK types : types = IF Has("function") THEN Entries("function").val ELSE <<>>
  OBVIOUS
<1>4. PICK table, ok : /\ Done("functions", table, ok)
                       /\ BodiesAre(m, layout, table)
                       /\ CodeReached(layout) => TypesAre(m, table)
  <2>1. CASE ~ ImportedFunctions.ok
    <3>1. Done("functions", module["functions"], FALSE)
      BY <2>1 DEF LoadFunctions, Failed
    <3>2. ~ CodeReached(layout)
      <4>1. ASSUME CodeReached(layout) PROVE FALSE
        <5>1. "import" \in BeforeCode /\ StreamTyped /\ LaidOut(items, m, layout)
          BY <1>1 DEF BeforeCode, Laid
        <5>2. WholeKind(layout, "import")
          BY <4>1, <5>1, WholeBeforeCode DEF WholeKind
        <5>3. Walk("functions").ok
          <6>1. "functions" \in Walkers
            BY DEF Walkers
          <6>2. QED
            BY <1>1, <5>2, <6>1, ImportsRead
        <5>4. QED
          BY <2>1, <5>3 DEF ImportedFunctions
      <4>2. QED
        BY <4>1
    <3>3. QED
      BY <3>1, <3>2 DEF Kept, TableKept
  <2>2. CASE ImportedFunctions.ok
    <3> DEFINE code == IF Has("function") /\ Has("code") THEN Entries("code")
                       ELSE Got(TRUE, 0, <<>>)
    <3>1. FunctionsOf(imported, types, code)
      BY <1>2, <1>3, <2>2 DEF LoadFunctions
    <3>2. code.val = <<>> \/ (Has("code") /\ code.val = Entries("code").val)
      BY DEF Got
    <3> HIDE DEF code
    <3>3. PICK bodies, ok : /\ Done("functions", WithBodies(imported, types, bodies), ok)
                            /\ bodies = <<>> \/ (Has("code") /\ bodies = Entries("code").val)
      BY <3>1, <3>2 DEF FunctionsOf
    <3>4. PICK t : t = WithBodies(imported, types, bodies)
      OBVIOUS
    <3>5. BodiesAre(m, layout, t)
      BY <1>1, <1>2, <1>3, <3>3, <3>4, TableIs
    <3>6. CodeReached(layout) => TypesAre(m, t)
      BY <1>1, <1>2, <1>3, <3>3, <3>4, TableIs
    <3>7. QED
      BY <3>3, <3>4, <3>5, <3>6
  <2>3. QED
    BY <2>1, <2>2
<1>5. /\ UNCHANGED <<input, sections, body>>
      /\ module' = [module EXCEPT !["functions"] = table]
      /\ result' = [result EXCEPT !["functions"] = IF ok THEN "ok" ELSE "fail"]
  BY <1>4 DEF Done
<1>6. /\ module'["functions"] = table /\ module'["types"] = module["types"]
      /\ result'["functions"] # "none" /\ result'["types"] = result["types"]
      /\ result'["sections"] = result["sections"]
  BY <1>5 DEF TypeInv, TypeOK, Loaders
<1>7. TypesKept(m, layout)' /\ BodyKept(m, layout)'
  BY <1>5, <1>6, TypesStay, BodyStays DEF Kept
<1>8. TableKept(m, layout)'
  <2>1. BodiesAre(m, layout, table)'
    BY <1>4, <1>5, BodiesStay
  <2>2. BodiesAre(m, layout, module["functions"])'
    BY <1>6, <2>1 DEF BodiesAre
  <2>3. TypesAre(m, table) => TypesAre(m, module["functions"])'
    BY <1>6 DEF TypesAre
  <2>4. CodeReached(layout)' => TypesAre(m, module["functions"])'
    BY <1>4, <1>5, <2>3, CodeReachedStays
  <2>5. QED
    BY <1>6, <2>2, <2>4 DEF TableKept
<1>9. (Scanned => ScanIs)'
  BY <1>5, <1>6, ScanStays DEF Kept, Scanned
<1>10. QED
  BY <1>5, <1>7, <1>8, <1>9 DEF Kept, CutOf, Size, Stream
LEMMA BodyLoaded ==
  ASSUME NEW items, NEW m, NEW layout, TypeInv, Kept(items, m, layout),
         NEW i \in 1 .. Len(module["functions"]), LoadBody(i)
  PROVE  Kept(items, m, layout)'
<1>1. UNCHANGED <<input, sections, module, result>>
  BY DEF LoadBody
<1>2. PICK f : f = module["functions"][i]
  OBVIOUS
<1>3. ~ f.imported /\ f.size > 0
  BY <1>2 DEF LoadBody
<1>4. CodeReached(layout)
  BY <1>2, <1>3 DEF Kept, TableKept, BodiesAre
<1>5. result["functions"] # "none"
  <2>1. SUFFICES ASSUME result["functions"] = "none" PROVE FALSE
    OBVIOUS
  <2>2. module["functions"] = <<>>
    BY <2>1 DEF Kept, TableKept
  <2>3. Len(module["functions"]) = 0
    BY <2>2
  <2>4. QED
    BY <2>3
<1>6. BodyKept(m, layout)'
  <2>1. CASE ~ Whole(f)
    <3>1. body' = NoBody
      BY <1>2, <2>1 DEF LoadBody
    <3>2. QED
      BY <3>1 DEF BodyKept, NoBody
  <2>2. CASE Whole(f)
    <3>1. PICK b : b = [fn |-> i, items |-> SubSeq(Stream, f.offset + 1, f.offset + f.size)]
      OBVIOUS
    <3>2. body' = b /\ b.fn = i /\ b.items = SubSeq(Stream, f.offset + 1, f.offset + f.size)
      BY <1>2, <2>2, <3>1 DEF LoadBody
    <3>3. b.items = Stated(m).functions[i].body
      BY <1>2, <1>3, <2>2, <3>2 DEF Kept, TableKept, BodiesAre
    <3>4. i \in DOMAIN Stated(m).functions
      <4>1. TypesAre(m, module["functions"])
        BY <1>4, <1>5 DEF Kept, TableKept
      <4>2. QED
        BY <4>1 DEF TypesAre
    <3>5. QED
      BY <1>1, <1>4, <1>5, <3>2, <3>3, <3>4, CodeReachedStays DEF BodyKept
  <2>3. QED
    BY <2>1, <2>2
<1>7. TypesKept(m, layout)' /\ TableKept(m, layout)'
  BY <1>1, TypesStay, TableStays DEF Kept
<1>8. (Scanned => ScanIs)'
  BY <1>1, ScanStays DEF Kept, Scanned
<1>9. QED
  BY <1>1, <1>6, <1>7, <1>8 DEF Kept, CutOf, Size, Stream

LEMMA KeptStep ==
  ASSUME NEW items, NEW m, NEW layout, TypeInv, Kept(items, m, layout), [Next]_vars
  PROVE  Kept(items, m, layout)'
<1>1. ASSUME UNCHANGED <<input, module, body>>, (Scanned => ScanIs)',
             result'["types"] = result["types"], result'["functions"] = result["functions"]
      PROVE  Kept(items, m, layout)'
  <2>1. TypesKept(m, layout)' /\ TableKept(m, layout)' /\ BodyKept(m, layout)'
    BY <1>1, TypesStay, TableStays, BodyStays DEF Kept
  <2>2. QED
    BY <1>1, <2>1 DEF Kept, CutOf, Size, Stream
<1>2. CASE UNCHANGED vars
  <2>1. (Scanned => ScanIs)'
    BY <1>2, ScanStays DEF vars, Kept, Scanned
  <2>2. QED
    BY <1>1, <1>2, <2>1 DEF vars
<1>3. CASE LoadHeader
  <2>1. /\ UNCHANGED <<input, sections, module, body>>
        /\ result' = [result EXCEPT !["header"] = IF Size >= 2 THEN "ok" ELSE "fail"]
    BY <1>3 DEF LoadHeader
  <2>2. /\ result'["types"] = result["types"] /\ result'["functions"] = result["functions"]
        /\ result'["sections"] = result["sections"]
    BY <2>1 DEF TypeInv, TypeOK, Loaders
  <2>3. (Scanned => ScanIs)'
    BY <2>1, <2>2, ScanStays DEF Kept, Scanned
  <2>4. QED
    BY <1>1, <2>1, <2>2, <2>3
<1>4. CASE ScanSections
  <2>1. /\ UNCHANGED <<input, module, body>> /\ sections' = SectionsFrom(2) /\ 2 <= Size
        /\ result' = [result EXCEPT !["sections"] = "ok"]
    BY <1>4 DEF ScanSections, TypeInv
  <2>2. result'["types"] = result["types"] /\ result'["functions"] = result["functions"]
    BY <2>1 DEF TypeInv, TypeOK, Loaders
  <2>3. SectionsFrom(2)' = SectionsFrom(2)
    BY <2>1, SectionsStay
  <2>4. ScanIs'
    BY <2>1, <2>3 DEF ScanIs, Size, Stream
  <2>5. QED
    BY <1>1, <2>1, <2>2, <2>4
<1>5. CASE LoadTypes
  BY <1>5, TypesLoaded
<1>6. CASE LoadFunctions
  BY <1>6, FunctionsLoaded
<1>7. ASSUME NEW loader \in Loaders \ {"types", "functions"}, NEW table, NEW ok,
             Done(loader, table, ok)
      PROVE  Kept(items, m, layout)'
  BY <1>7, OtherKept
<1>8. CASE LoadExports
  <2>1. \E loader \in Loaders \ {"types", "functions"} : \E table, ok : Done(loader, table, ok)
    BY <1>8, Zenon DEF LoadExports, LoadRequired, DoneWith, Failed, Loaders
  <2>2. QED
    BY <1>7, <2>1
<1>9. CASE LoadTables \/ LoadMemories \/ LoadGlobals
  <2>1. \E loader \in Loaders \ {"types", "functions"} : \E table, ok : Done(loader, table, ok)
    BY <1>9, Zenon DEF LoadTables, LoadMemories, LoadGlobals, LoadBoth, DoneWith, Failed, Loaders
  <2>2. QED
    BY <1>7, <2>1
<1>10. CASE LoadElements \/ LoadData
  <2>1. \E loader \in Loaders \ {"types", "functions"} : \E table, ok : Done(loader, table, ok)
    BY <1>10, Zenon DEF LoadElements, LoadData, LoadOptional, DoneWith, Loaders
  <2>2. QED
    BY <1>7, <2>1
<1>11. ASSUME NEW i \in 1 .. Len(module["functions"]), LoadBody(i)
       PROVE  Kept(items, m, layout)'
  BY <1>11, BodyLoaded
<1>12. QED
  BY <1>2, <1>3, <1>4, <1>5, <1>6, <1>8, <1>9, <1>10, <1>11 DEF Next

(* The stream that is read is the one of its name.                         *)
Opened == input.name \in DOMAIN Files /\ Stream = Files[input.name].stream
RunInv ==
  /\ TypeInv /\ Opened
  /\ \A f : f = Files[input.name] /\ f.formed => Kept(f.items, f.written, f.layout)

LEMMA RunBeginning ==
  ASSUME Init
  PROVE  RunInv
<1>1. PICK n \in DOMAIN Files :
        input = [name |-> n, stream |-> Files[n].stream, isFile |-> Files[n].isFile]
  BY DEF Init
<1>2. input.name = n /\ Stream = Files[n].stream
  BY <1>1 DEF Stream
<1>3. ASSUME NEW f, f = Files[n], f.formed
      PROVE  Kept(f.items, f.written, f.layout)
  <2>1. LaidOut(f.items, f.written, f.layout) /\ CutOf(f.items)
    BY <1>2, <1>3, FormedAssumption DEF CutOf, Size
  <2>2. /\ result["types"] = "none" /\ result["functions"] = "none" /\ ~ Scanned
        /\ module["types"] = <<>> /\ module["functions"] = <<>> /\ body = NoBody
    BY DEF Init, Scanned, Loaders
  <2>3. BodiesAre(f.written, f.layout, <<>>)
    <3>1. Len(<<>>) = 0
      OBVIOUS
    <3>2. QED
      BY <3>1 DEF BodiesAre
  <2>4. QED
    BY <2>1, <2>2, <2>3 DEF Kept, TypesKept, TableKept, BodyKept
<1>4. QED
  BY <1>2, <1>3, TypeBeginning DEF RunInv, Opened

LEMMA RunStep ==
  ASSUME RunInv, [Next]_vars
  PROVE  RunInv'
<1>1. input' = input
  BY DEF Next, vars, LoadHeader, ScanSections, LoadTypes, LoadFunctions, LoadExports,
         LoadTables, LoadMemories, LoadGlobals, LoadElements, LoadData, LoadBody,
         LoadRequired, LoadOptional, LoadBoth, DoneWith, FunctionsOf, Failed, Done
<1>2. TypeInv'
  BY TypeStep DEF RunInv
<1>3. Opened'
  BY <1>1 DEF RunInv, Opened, Stream
<1>4. ASSUME NEW f, f = Files[input.name], f.formed
      PROVE  Kept(f.items, f.written, f.layout)'
  <2>1. Kept(f.items, f.written, f.layout) /\ TypeInv
    BY <1>4 DEF RunInv
  <2>2. PICK items, m, layout : items = f.items /\ m = f.written /\ layout = f.layout
    OBVIOUS
  <2>3. Kept(items, m, layout)'
    BY <2>1, <2>2, KeptStep
  <2>4. QED
    BY <2>2, <2>3
<1>5. QED
  BY <1>1, <1>2, <1>3, <1>4 DEF RunInv

(* However early the stream ends and in whatever order the loaders are     *)
(* called, a body that is handed out is the one that was written for its   *)
(* function, whole, and the function has the type it was declared with.    *)
THEOREM RunnableCorrect == Spec => []RunnableAsDeclared
<1>1. Init => RunInv
  BY RunBeginning
<1>2. RunInv /\ [Next]_vars => RunInv'
  BY RunStep
<1>3. RunInv => RunnableAsDeclared
  <2>1. SUFFICES ASSUME RunInv, NEW f, f = Files[input.name], body # NoBody, f.formed
                 PROVE  HandedOut(f)
    BY DEF RunnableAsDeclared, AsDeclared
  <2>2. PICK m, layout : m = f.written /\ layout = f.layout /\ Kept(f.items, m, layout)
    BY <2>1 DEF RunInv
  <2>3. f.declared = Stated(m)
    BY <2>1, <2>2, FormedAssumption DEF RunInv, Opened
  <2>4. /\ CodeReached(layout) /\ body.fn \in DOMAIN Stated(m).functions
        /\ body.items = Stated(m).functions[body.fn].body
        /\ result["functions"] # "none"
    BY <2>1, <2>2 DEF Kept, BodyKept
  <2>5. TypesAre(m, module["functions"])
    BY <2>2, <2>4 DEF Kept, TableKept
  <2>6. module["functions"][body.fn].type = Stated(m).functions[body.fn].type
    BY <2>4, <2>5 DEF TypesAre
  <2>7. result["types"] # "none" => module["types"] = Stated(m).types
    BY <2>2, <2>4 DEF Kept, TypesKept, Stated
  <2>8. QED
    BY <2>3, <2>4, <2>6, <2>7 DEF HandedOut
<1>4. QED
  BY <1>1, <1>2, <1>3, PTL DEF Spec

-----------------------------------------------------------------------------
(* A stream that is whole: each entry is read back from the numbers it was *)
(* written with, so that what a loader leaves is what was declared.        *)

(* Four fields that are read one after the other.                          *)
LEMMA ReadsFour ==
  ASSUME NEW p, NEW a, NEW b, NEW c, NEW d, NEW q, NEW u, NEW r, NEW v, NEW t, NEW w,
         NEW z, NEW x, Took(a, p, q, u), Took(b, q, r, v), Took(c, r, t, w), Took(d, t, z, x)
  PROVE  Reads(p, <<a, b, c, d>>, z, <<u, v, w, x>>)
<1>1. PICK shape, places, V : /\ shape = <<a, b, c, d>> /\ places = <<p, q, r, t, z>>
                              /\ V = <<u, v, w, x>>
  OBVIOUS
<1>2. /\ Len(shape) = 4 /\ shape[1] = a /\ shape[2] = b /\ shape[3] = c /\ shape[4] = d
      /\ V[1] = u /\ V[2] = v /\ V[3] = w /\ V[4] = x
  BY <1>1
<1>3. /\ places[1] = p /\ places[1 + 1] = q /\ places[2] = q /\ places[2 + 1] = r
      /\ places[3] = r /\ places[3 + 1] = t /\ places[4] = t /\ places[4 + 1] = z
  BY <1>1
<1>4. \A k \in 1 .. 4 : Took(shape[k], places[k], places[k + 1], V[k])
  BY <1>2, <1>3
<1>5. V = [k \in 1 .. 4 |-> V[k]]
  BY <1>1
<1>6. PICK n \in Nat : n = 4
  OBVIOUS
<1>7. n = Len(shape) /\ \A k \in 1 .. n : Took(shape[k], places[k], places[k + 1], V[k])
  BY <1>2, <1>4, <1>6
<1>8. Reads(places[1], shape, places[n + 1], [k \in 1 .. n |-> V[k]])
  BY <1>7, ReadsAll
<1>9. QED
  BY <1>1, <1>3, <1>5, <1>6, <1>8

(* Five of them.                                                           *)
LEMMA ReadsFive ==
  ASSUME NEW p, NEW a, NEW b, NEW c, NEW d, NEW e, NEW q, NEW u, NEW r, NEW v, NEW t, NEW w,
         NEW z, NEW x, NEW o, NEW y,
         Took(a, p, q, u), Took(b, q, r, v), Took(c, r, t, w), Took(d, t, z, x), Took(e, z, o, y)
  PROVE  Reads(p, <<a, b, c, d, e>>, o, <<u, v, w, x, y>>)
<1>1. PICK shape, places, V : /\ shape = <<a, b, c, d, e>> /\ places = <<p, q, r, t, z, o>>
                              /\ V = <<u, v, w, x, y>>
  OBVIOUS
<1>2. /\ Len(shape) = 5 /\ shape[1] = a /\ shape[2] = b /\ shape[3] = c /\ shape[4] = d
      /\ shape[5] = e /\ V[1] = u /\ V[2] = v /\ V[3] = w /\ V[4] = x /\ V[5] = y
  BY <1>1
<1>3. /\ places[1] = p /\ places[1 + 1] = q /\ places[2] = q /\ places[2 + 1] = r
      /\ places[3] = r /\ places[3 + 1] = t /\ places[4] = t /\ places[4 + 1] = z
      /\ places[5] = z /\ places[5 + 1] = o
  BY <1>1
<1>4. \A k \in 1 .. 5 : Took(shape[k], places[k], places[k + 1], V[k])
  BY <1>2, <1>3
<1>5. V = [k \in 1 .. 5 |-> V[k]]
  BY <1>1
<1>6. PICK n \in Nat : n = 5
  OBVIOUS
<1>7. n = Len(shape) /\ \A k \in 1 .. n : Took(shape[k], places[k], places[k + 1], V[k])
  BY <1>2, <1>4, <1>6
<1>8. Reads(places[1], shape, places[n + 1], [k \in 1 .. n |-> V[k]])
  BY <1>7, ReadsAll
<1>9. QED
  BY <1>1, <1>3, <1>5, <1>6, <1>8

(* The field of an offset, of either kind, stands for the offset.          *)
LEMMA OffsetField ==
  ASSUME StreamTyped, NEW p \in Nat, NEW op \in {65, 66}, NEW v \in Nat, Stands(p, <<op, v, End>>)
  PROVE  Took("offset", p, p + 3, v)
<1>1. PICK ops : ops = {65, 66} /\ op \in ops
  OBVIOUS
<1>2. op \in ops
  BY <1>1
<1>3. Constant(p, ops) = Got(TRUE, p + 3, <<op, v>>)
  BY <1>2, ConstantField
<1>4. Number(p + 1) = v
  BY <1>2, ConstantField
<1>5. Constant(p, ops).ok = TRUE
  BY <1>3 DEF Got
<1>6. (Constant(p, ops).ok /\ Number(p + 1) >= 0) = TRUE
  <2>1. Number(p + 1) >= 0
    BY <1>4
  <2>2. QED
    BY <1>5, <2>1
<1>7. Field("offset", p) = Got(Constant(p, ops).ok /\ Number(p + 1) >= 0, p + 3, Number(p + 1))
  BY <1>1 DEF Field, Offset
<1>8. QED
  BY <1>4, <1>6, <1>7 DEF Took

(* An export is read back.                                                 *)
LEMMA ExportBack ==
  ASSUME StreamTyped, NEW m, NEW sure, NEW e
  PROVE  ReadBack(m, "export", sure, e, e)
<1>1. SUFFICES ASSUME IsExport(e)
               PROVE  /\ Len(ExportItems(e)) \in Nat
                      /\ \A p \in Nat : Stands(p, ExportItems(e)) =>
                           Answers(Export(p), sure, p + Len(ExportItems(e)), e)
  BY DEF ReadBack, IsEntry, EntryItems, Item
<1>2. PICK x, y, z : e = <<x, y, z>> /\ x = e[1] /\ y = e[2] /\ z = e[3]
                     /\ x \in Nat /\ y \in Nat /\ z \in Nat
  BY <1>1 DEF IsExport, IsName
<1>3. PICK h, i : h = NameItems(x) /\ i = <<y, z>> /\ h \in Seq(Nat) /\ i \in Seq(Nat)
                  /\ Len(i) = 2
  <2>1. <<y, z>> \in Seq(Nat) /\ Len(<<y, z>>) = 2
    BY <1>2
  <2>2. QED
    BY <1>2, <2>1, NumberItems
<1>4. ExportItems(e) = h \o i /\ h \in Seq(Nat) /\ i \in Seq(Nat)
  BY <1>2, <1>3 DEF ExportItems
<1>5. Len(h \o i) = Len(h) + Len(i) /\ Len(h) \in Nat
  BY <1>4, ConcatProperties, LenProperties
<1>6. ASSUME NEW p \in Nat, Stands(p, h \o i)
      PROVE  Answers(Export(p), sure, p + Len(h \o i), e)
  <2>1. Stands(p, h) /\ Stands(p + Len(h), i)
    BY <1>4, <1>6, StandsParts
  <2>2. PICK q \in Nat : q = p + Len(h)
    BY <1>5
  <2>3. Stands(q, <<y>>) /\ Stands(q + 1, <<z>>)
    BY <1>3, <2>1, <2>2, StandsTwo
  <2>4. Took("name", p, q, x)
    BY <1>2, <1>3, <2>1, <2>2, NameField
  <2>5. Took("byte", q, q + 1, y)
    BY <2>3, NumberField
  <2>6. Took("number", q + 1, (q + 1) + 1, z)
    <3>1. q + 1 \in Nat
      OBVIOUS
    <3>2. QED
      BY <2>3, <3>1, NumberField
  <2>7. Reads(p, <<"name", "byte", "number">>, (q + 1) + 1, e)
    BY <1>2, <2>4, <2>5, <2>6, ReadsThree
  <2>8. (q + 1) + 1 = p + Len(h \o i)
    BY <1>3, <1>5, <2>2
  <2>9. Export(p) = Got(TRUE, p + Len(h \o i), e)
    BY <2>7, <2>8 DEF Export, Reads
  <2>10. QED
    BY <2>9 DEF Answers, Got
<1>7. Len(h \o i) \in Nat
  BY <1>3, <1>5
<1>8. QED
  BY <1>4, <1>6, <1>7

(* A table is read back, with its kind and its limits.                     *)
LEMMA TableBack ==
  ASSUME StreamTyped, NEW m, NEW sure, NEW t
  PROVE  ReadBack(m, "table", sure, t, t)
<1>1. SUFFICES ASSUME IsTable(t)
               PROVE  /\ Len(TableItems(t)) \in Nat
                      /\ \A p \in Nat : Stands(p, TableItems(t)) =>
                           Answers(DefinedTable(p), sure, p + Len(TableItems(t)), t)
  BY DEF ReadBack, IsEntry, EntryItems, Item
<1>2. TableItems(t) \in Seq(Nat)
  <2>1. t[1] \in Nat /\ LimitItems(t[2]) \in Seq(Nat)
    BY <1>1, NumberItems DEF IsTable, RefTypes, FUNCREF, EXTERNREF
  <2>2. <<t[1]>> \in Seq(Nat)
    BY <2>1
  <2>3. QED
    BY <2>1, <2>2, ConcatProperties DEF TableItems
<1>3. ASSUME NEW p \in Nat, Stands(p, TableItems(t))
      PROVE  Answers(DefinedTable(p), sure, p + Len(TableItems(t)), t)
  <2>1. PICK q : q = p + Len(TableItems(t))
    OBVIOUS
  <2>2. Reads(p, <<"byte", "limits">>, q, t)
    BY <1>1, <1>3, <2>1, TableField
  <2>3. PICK r : r = Read(p, <<"byte", "limits">>)
    OBVIOUS
  <2>4. r.ok = TRUE /\ r.at = q /\ r.val = t
    BY <2>2, <2>3 DEF Reads, Got
  <2>5. DefinedTable(p) = Accept(r, r.val[1] \in RefTypes, r.val)
    BY <2>3 DEF DefinedTable
  <2>6. t[1] \in RefTypes
    BY <1>1 DEF IsTable
  <2>7. DefinedTable(p) = Got(TRUE, q, t)
    BY <2>4, <2>5, <2>6 DEF Accept
  <2>8. QED
    BY <2>1, <2>7 DEF Answers, Got
<1>4. QED
  BY <1>2, <1>3, LenProperties

(* A memory is read back, with the flags its index type asks for.          *)
LEMMA MemoryBack ==
  ASSUME StreamTyped, NEW m, NEW sure, NEW e
  PROVE  ReadBack(m, "memory", sure, e, e)
<1>1. SUFFICES ASSUME IsMemory(e)
               PROVE  /\ Len(MemoryItems(e)) \in Nat
                      /\ \A p \in Nat : Stands(p, MemoryItems(e)) =>
                           Answers(DefinedMemory(p), sure, p + Len(MemoryItems(e)), e)
  BY DEF ReadBack, IsEntry, EntryItems, Item
<1>2. PICK l : e = <<l>> /\ l = e[1] /\ IsLimits(l)
  BY <1>1 DEF IsMemory
<1>3. MemoryItems(e) = LimitItems(l) /\ LimitItems(l) \in Seq(Nat)
  BY <1>2, NumberItems DEF MemoryItems
<1>4. ASSUME NEW p \in Nat, Stands(p, LimitItems(l))
      PROVE  Answers(DefinedMemory(p), sure, p + Len(LimitItems(l)), e)
  <2>1. Limits(p) = Got(TRUE, p + Len(LimitItems(l)), l)
    BY <1>2, <1>4, LimitsField
  <2>2. Here(p)
    <3>1. PICK h, t : h = <<l.flags, l.initial>> /\ t = (IF l.flags % 2 = 1 THEN <<l.max>> ELSE <<>>)
      OBVIOUS
    <3>2. h \in Seq(Nat) /\ Len(h) = 2 /\ t \in Seq(Nat)
      BY <1>2, <3>1 DEF IsLimits
    <3>3. Stands(p, h \o t)
      BY <1>4, <3>1 DEF LimitItems
    <3>4. Stands(p, h)
      BY <3>2, <3>3, StandsParts
    <3>5. p + 2 <= Size
      BY <3>2, <3>4 DEF Stands
    <3>6. QED
      BY <3>5, Numbers DEF Here
  <2>3. DefinedMemory(p) = Got(TRUE, p + Len(LimitItems(l)), e)
    BY <1>2, <2>1, <2>2 DEF DefinedMemory, Got
  <2>4. QED
    BY <2>3 DEF Answers, Got
<1>5. QED
  BY <1>3, <1>4, LenProperties

(* A global is read back: its type, then its initial expression.           *)
LEMMA GlobalBack ==
  ASSUME StreamTyped, NEW m, NEW sure, NEW g
  PROVE  ReadBack(m, "global", sure, g, g)
<1>1. SUFFICES ASSUME IsGlobal(g)
               PROVE  /\ Len(GlobalItems(g)) \in Nat
                      /\ \A p \in Nat : Stands(p, GlobalItems(g)) =>
                           Answers(DefinedGlobal(p), sure, p + Len(GlobalItems(g)), g)
  BY DEF ReadBack, IsEntry, EntryItems, Item
<1>2. PICK ops : ops = Consts \cup {GlobalGet}
  OBVIOUS
<1>3. PICK a, b, op, v : /\ g = <<a, b, <<op, v>>>> /\ GlobalItems(g) = <<a, b, op, v, End>>
                         /\ a \in ValTypes /\ b <= 1 /\ op \in ops
  BY <1>1, <1>2 DEF IsGlobal, GlobalItems
<1>4. Len(GlobalItems(g)) = 5
  BY <1>3
<1>5. ASSUME NEW p \in Nat, Stands(p, <<a, b, op, v, End>>)
      PROVE  Answers(DefinedGlobal(p), sure, p + 5, g)
  <2>1. /\ p + 5 <= Size /\ Stream[p + 1] = a /\ Stream[p + 2] = b /\ Stream[p + 3] = op
        /\ Stream[p + 4] = v /\ Stream[p + 5] = End
    <3>1. PICK list : list = <<a, b, op, v, End>>
      OBVIOUS
    <3>2. /\ Len(list) = 5 /\ list[1] = a /\ list[2] = b /\ list[3] = op /\ list[4] = v
          /\ list[5] = End
      BY <3>1
    <3>3. Stands(p, list)
      BY <1>5, <3>1
    <3>4. QED
      BY <3>2, <3>3 DEF Stands
  <2>2. Stands(p, <<a>>)
    BY <2>1, OneStands, Numbers
  <2>3. p + 1 \in Nat /\ p + 2 \in Nat /\ (p + 1) + 1 = p + 2 /\ (p + 2) + 3 = p + 5
    OBVIOUS
  <2>4. Stands(p + 1, <<b>>)
    BY <2>1, <2>3, OneStands, Numbers
  <2>5. Stands(p + 2, <<op, v, End>>)
    <3>1. PICK list : list = <<op, v, End>>
      OBVIOUS
    <3>2. Len(list) = 3 /\ list[1] = op /\ list[2] = v /\ list[3] = End
      BY <3>1
    <3>3. (p + 2) + 1 = p + 3 /\ (p + 2) + 2 = p + 4 /\ (p + 2) + 3 = p + 5
      OBVIOUS
    <3>4. Stands(p + 2, list)
      BY <2>1, <3>2, <3>3 DEF Stands
    <3>5. QED
      BY <3>1, <3>4
  <2>6. Took("byte", p, p + 1, a)
    BY <2>2, NumberField
  <2>7. Took("byte", p + 1, p + 2, b)
    BY <2>3, <2>4, NumberField
  <2>8. Took("constant", p + 2, p + 5, <<op, v>>)
    <3>1. Constant(p + 2, ops) = Got(TRUE, (p + 2) + 3, <<op, v>>)
      BY <1>3, <2>3, <2>5, ConstantField
    <3>2. QED
      BY <1>2, <2>3, <3>1 DEF Took, Field
  <2>9. Reads(p, <<"byte", "byte", "constant">>, p + 5, g)
    BY <1>3, <2>6, <2>7, <2>8, ReadsThree
  <2>10. PICK r : r = Read(p, <<"byte", "byte", "constant">>)
    OBVIOUS
  <2>11. r.ok = TRUE /\ r.at = p + 5 /\ r.val = g
    BY <2>9, <2>10 DEF Reads, Got
  <2>12. g[1] \in ValTypes /\ g[2] <= 1
    BY <1>3
  <2>13. DefinedGlobal(p) = Accept(r, r.val[1] \in ValTypes /\ r.val[2] <= 1, r.val)
    BY <2>10 DEF DefinedGlobal
  <2>14. DefinedGlobal(p) = Got(TRUE, p + 5, g)
    BY <2>11, <2>12, <2>13 DEF Accept
  <2>15. QED
    BY <2>14 DEF Answers, Got
<1>6. QED
  BY <1>3, <1>4, <1>5

(* The shape of a data segment by its flags.                               *)
LEMMA DataShapes ==
  /\ DataShape(0) = <<"number", "offset", "number">>
  /\ DataShape(1) = <<"number", "number">>
  /\ DataShape(2) = <<"number", "number", "offset", "number">>
<1>1. PICK a, b : a = "number" /\ b = "offset"
  OBVIOUS
<1>2. /\ <<a>> \o <<>> = <<a>> /\ <<a>> \o <<b>> = <<a, b>> /\ <<a, b>> \o <<a>> = <<a, b, a>>
      /\ <<a>> \o <<a>> = <<a, a>> /\ <<a, a>> \o <<b>> = <<a, a, b>>
      /\ <<a, a, b>> \o <<a>> = <<a, a, b, a>>
  <2>1. <<a>> \o <<>> = <<a>>
    BY ONLY JoinNone, Zenon
  <2>2. <<a>> \o <<b>> = <<a, b>> /\ <<a>> \o <<a>> = <<a, a>>
    BY ONLY JoinTwo, Zenon
  <2>3. <<a, b>> \o <<a>> = <<a, b, a>> /\ <<a, a>> \o <<b>> = <<a, a, b>>
    BY ONLY JoinThree, Zenon
  <2>4. <<a, a, b>> \o <<a>> = <<a, a, b, a>>
    BY ONLY JoinFour, Zenon
  <2>5. QED
    BY ONLY <2>1, <2>2, <2>3, <2>4, Zenon
<1>3. DataShape(0) = <<a>> \o <<>> \o <<b>> \o <<a>>
  BY <1>1 DEF DataShape
<1>4. DataShape(1) = <<a>> \o <<>> \o <<>> \o <<a>>
  BY <1>1 DEF DataShape
<1>5. DataShape(2) = <<a>> \o <<a>> \o <<b>> \o <<a>>
  BY <1>1 DEF DataShape
<1>6. DataShape(0) = <<a, b, a>> /\ DataShape(1) = <<a, a>> /\ DataShape(2) = <<a, a, b, a>>
  BY <1>2, <1>3, <1>4, <1>5
<1>7. QED
  BY <1>1, <1>6

(* What comes before the size of a data segment, and what it says.         *)
DataStart(s) ==
  IF s.passive THEN <<1>>
  ELSE (IF s.memory # 0 THEN <<2, s.memory>> ELSE <<0>>) \o <<66, s.offset, End>>
DataSays(s, f, head) ==
  /\ f \in {0, 1, 2} /\ Last(head) = s.size
  /\ (IF f = 2 THEN head[2] ELSE 0) = s.memory
  /\ (IF f = 1 THEN 0 ELSE head[Len(head) - 1]) = s.offset
  /\ (f = 1) <=> s.passive

(* That start is read back.                                                *)
LEMMA DataStartRead ==
  ASSUME StreamTyped, NEW p \in Nat, NEW s, IsData(s), NEW n \in Nat, n = Len(DataStart(s)),
         Stands(p, DataStart(s)), Stands(p + n, <<s.size>>)
  PROVE  \E f, head : /\ DataSays(s, f, head) /\ Number(p) = f
                      /\ Reads(p, DataShape(f), (p + n) + 1, head)
<1>1. Took("number", p + n, (p + n) + 1, s.size)
  <2>1. p + n \in Nat
    OBVIOUS
  <2>2. QED
    BY <2>1, NumberField
<1>2. s.memory \in Nat /\ s.offset \in Nat /\ s.passive \in BOOLEAN
  BY DEF IsData
<1>3. CASE s.passive
  <2>1. DataStart(s) = <<1>> /\ n = 1
    BY <1>3 DEF DataStart
  <2>2. Number(p) = 1
    BY <2>1, StandsOne
  <2>3. Took("number", p, p + n, 1)
    BY <2>1, NumberField
  <2>4. PICK head : head = <<1, s.size>>
    OBVIOUS
  <2>5. Reads(p, <<"number", "number">>, (p + n) + 1, head)
    BY <1>1, <2>3, <2>4, ReadsTwo
  <2>6. DataSays(s, 1, head)
    <3>1. Len(head) = 2 /\ head[2] = s.size
      BY <2>4
    <3>2. s.memory = 0 /\ s.offset = 0
      BY <1>3 DEF IsData
    <3>3. QED
      BY <1>3, <3>1, <3>2 DEF DataSays, Last
  <2>7. QED
    BY <2>2, <2>5, <2>6, DataShapes
<1>4. ASSUME NEW a, a \in Seq(Nat), NEW k \in Nat, k = Len(a),
             DataStart(s) = a \o <<66, s.offset, End>>
      PROVE  Stands(p, a) /\ n = k + 3 /\ Took("offset", p + k, p + n, s.offset)
  <2>1. PICK b : b = <<66, s.offset, End>> /\ b \in Seq(Nat) /\ Len(b) = 3
    <3>1. <<66, s.offset, End>> \in Seq(Nat) /\ Len(<<66, s.offset, End>>) = 3
      BY <1>2 DEF End
    <3>2. QED
      BY <3>1, Zenon
  <2>2. Stands(p, a \o b) /\ DataStart(s) = a \o b
    BY <1>4, <2>1
  <2>3. a \in Seq(Nat) /\ b \in Seq(Nat) /\ Stands(p, a \o b) /\ p + k = p + Len(a)
    BY ONLY <1>4, <2>1, <2>2, Zenon
  <2>4. Stands(p, a) /\ Stands(p + k, b)
    <3>1. Stands(p, a)
      BY <2>3, StandsParts
    <3>2. Stands(p + Len(a), b)
      BY <2>3, StandsParts
    <3>3. QED
      BY ONLY <2>3, <3>1, <3>2, Zenon
  <2>5. n = k + 3
    BY <1>4, <2>1, <2>2, ConcatProperties
  <2>6. p + k \in Nat /\ 66 \in {65, 66} /\ (p + k) + 3 = p + n
    BY <1>4, <2>5
  <2>7. Took("offset", p + k, (p + k) + 3, s.offset)
    BY <1>2, <2>1, <2>4, <2>6, OffsetField
  <2>8. QED
    BY <2>4, <2>5, <2>6, <2>7
<1>5. CASE ~ s.passive /\ s.memory = 0
  <2>1. PICK a : a = <<0>> /\ a \in Seq(Nat) /\ Len(a) = 1
    <3>1. <<0>> \in Seq(Nat) /\ Len(<<0>>) = 1
      OBVIOUS
    <3>2. QED
      BY <3>1, Zenon
  <2>2. DataStart(s) = a \o <<66, s.offset, End>>
    BY <1>5, <2>1 DEF DataStart
  <2>3. Stands(p, a) /\ Took("offset", p + 1, p + n, s.offset)
    BY <1>4, <2>1, <2>2
  <2>4. Number(p) = 0 /\ Took("number", p, p + 1, 0)
    BY <2>1, <2>3, StandsOne, NumberField
  <2>5. PICK head : head = <<0, s.offset, s.size>>
    OBVIOUS
  <2>6. Reads(p, <<"number", "offset", "number">>, (p + n) + 1, head)
    BY <1>1, <2>3, <2>4, <2>5, ReadsThree
  <2>7. DataSays(s, 0, head)
    BY <1>5, <2>5 DEF DataSays, Last, IsData
  <2>8. QED
    BY <2>4, <2>6, <2>7, DataShapes
<1>6. CASE ~ s.passive /\ s.memory # 0
  <2>1. PICK a : a = <<2, s.memory>> /\ a \in Seq(Nat) /\ Len(a) = 2
    <3>1. <<2, s.memory>> \in Seq(Nat) /\ Len(<<2, s.memory>>) = 2
      BY <1>2
    <3>2. QED
      BY <3>1, Zenon
  <2>2. DataStart(s) = a \o <<66, s.offset, End>>
    BY <1>6, <2>1 DEF DataStart
  <2>3. Stands(p, a) /\ Took("offset", p + 2, p + n, s.offset)
    BY <1>4, <2>1, <2>2
  <2>4. Stands(p, <<2>>) /\ Stands(p + 1, <<s.memory>>)
    BY <2>1, <2>3, StandsTwo
  <2>5. Number(p) = 2 /\ Took("number", p, p + 1, 2)
    BY <2>4, StandsOne, NumberField
  <2>6. Took("number", p + 1, p + 2, s.memory)
    <3>1. p + 1 \in Nat /\ (p + 1) + 1 = p + 2
      OBVIOUS
    <3>2. Took("number", p + 1, (p + 1) + 1, s.memory)
      BY <2>4, <3>1, NumberField
    <3>3. QED
      BY <3>1, <3>2
  <2>7. PICK head : head = <<2, s.memory, s.offset, s.size>>
    OBVIOUS
  <2>8. Reads(p, <<"number", "number", "offset", "number">>, (p + n) + 1, head)
    BY <1>1, <2>3, <2>5, <2>6, <2>7, ReadsFour
  <2>9. DataSays(s, 2, head)
    BY <1>6, <2>7 DEF DataSays, Last, IsData
  <2>10. QED
    BY <2>5, <2>8, <2>9, DataShapes
<1>7. QED
  BY <1>2, <1>3, <1>5, <1>6

(* A data segment is read back.                                            *)
LEMMA DataBack ==
  ASSUME StreamTyped, NEW m, NEW sure, NEW s
  PROVE  ReadBack(m, "data", sure, s, s)
<1>1. SUFFICES ASSUME IsData(s)
               PROVE  /\ Len(DataItems(s)) \in Nat
                      /\ \A p \in Nat : Stands(p, DataItems(s)) =>
                           Answers(DataSegment(p), sure, p + Len(DataItems(s)), s)
  BY DEF ReadBack, IsEntry, EntryItems, Item
<1>2. PICK a, b, c : /\ a = DataStart(s) /\ b = <<s.size>>
                     /\ c = (IF s.size = 0 THEN <<>> ELSE <<s.bytes>>)
  OBVIOUS
<1>3. DataItems(s) = a \o b \o c
  BY <1>2 DEF DataItems, DataStart
<1>4. a \in Seq(Nat) /\ b \in Seq(Nat) /\ c \in Seq(Nat)
  <2>1. s.memory \in Nat /\ s.offset \in Nat /\ s.size \in Nat /\ s.bytes \in Nat
    BY <1>1 DEF IsData
  <2>2. b \in Seq(Nat) /\ c \in Seq(Nat)
    BY <1>2, <2>1, EmptySeq
  <2>3. /\ <<1>> \in Seq(Nat) /\ <<0>> \in Seq(Nat) /\ <<2, s.memory>> \in Seq(Nat)
        /\ <<66, s.offset, End>> \in Seq(Nat)
    BY <2>1 DEF End
  <2>4. a \in Seq(Nat)
    BY <1>2, <2>3, ConcatProperties DEF DataStart
  <2>5. QED
    BY <2>2, <2>4
<1>5. PICK n \in Nat, k \in Nat : n = Len(a) /\ k = Len(c)
  BY <1>4, LenProperties
<1>6. Len(b) = 1 /\ k = IF s.size = 0 THEN 0 ELSE 1
  BY <1>2, <1>5
<1>7. Len(a \o b \o c) = (n + 1) + k
  <2>1. a \o b \in Seq(Nat) /\ Len(a \o b) = Len(a) + Len(b)
    BY <1>4, ConcatProperties
  <2>2. Len((a \o b) \o c) = Len(a \o b) + Len(c)
    BY <1>4, <2>1, ConcatProperties
  <2>3. QED
    BY <1>5, <1>6, <2>1, <2>2
<1>8. ASSUME NEW p \in Nat, Stands(p, a \o b \o c)
      PROVE  Answers(DataSegment(p), sure, p + ((n + 1) + k), s)
  <2>1. Stands(p, a) /\ Stands(p + Len(a), b)
    BY <1>4, <1>8, StandsInThree
  <2>2. Stands(p + Len(a) + Len(b), c)
    BY <1>4, <1>8, StandsInThree
  <2>3. PICK q \in Nat : q = (p + n) + 1
    OBVIOUS
  <2>4. Stands(p, DataStart(s)) /\ Stands(p + n, <<s.size>>) /\ Stands(q, c) /\ n = Len(DataStart(s))
    BY <1>2, <1>5, <1>6, <2>1, <2>2, <2>3
  <2>5. PICK f, head : /\ DataSays(s, f, head) /\ Number(p) = f
                       /\ Reads(p, DataShape(f), q, head)
    BY <1>1, <2>3, <2>4, DataStartRead
  <2>6. PICK bytes : bytes = IF s.size = 0 THEN Got(TRUE, q, 0) ELSE Byte(q)
    OBVIOUS
  <2>7. bytes = Got(TRUE, q + k, s.bytes)
    <3>1. CASE s.size = 0
      <4>1. s.bytes = 0 /\ q + k = q
        BY <1>1, <1>6, <3>1 DEF IsData
      <4>2. QED
        BY <2>6, <3>1, <4>1
    <3>2. CASE s.size # 0
      <4>1. Stands(q, <<s.bytes>>) /\ k = 1
        BY <1>2, <1>6, <2>4, <3>2
      <4>2. Byte(q) = Got(TRUE, q + 1, s.bytes)
        BY <4>1, StandsOne DEF Byte
      <4>3. QED
        BY <2>6, <3>2, <4>1, <4>2
    <3>3. QED
      BY <3>1, <3>2
  <2>8. PICK r : r = Read(p, DataShape(f))
    OBVIOUS
  <2>9. r.ok = TRUE /\ r.at = q /\ r.val = head
    BY <2>5, <2>8 DEF Reads, Got
  <2>10. f <= 2
    BY <2>5 DEF DataSays
  <2>11. DataSegment(p) = DataHead(f, r)
    BY <2>5, <2>8, <2>10 DEF DataSegment
  <2>12. DataHead(f, r) = DataOf(f, head, bytes)
    BY <2>5, <2>6, <2>9 DEF DataHead, DataSays
  <2>13. bytes.ok = TRUE /\ bytes.at = q + k /\ bytes.val = s.bytes
    BY <2>7 DEF Got
  <2>14. DataOf(f, head, bytes) = Got(TRUE, q + k, s)
    <3>1. DataOf(f, head, bytes) =
            Got(TRUE, q + k, [memory |-> s.memory, offset |-> s.offset, passive |-> s.passive,
                              size |-> s.size, bytes |-> s.bytes])
      <4>1. /\ (IF f = 2 THEN head[2] ELSE 0) = s.memory
            /\ (IF f = 1 THEN 0 ELSE head[Len(head) - 1]) = s.offset
            /\ Last(head) = s.size
        BY <2>5 DEF DataSays
      <4>2. (f = 1) = s.passive
        <5>1. s.passive \in BOOLEAN /\ ((f = 1) <=> s.passive)
          BY <1>1, <2>5 DEF DataSays, IsData
        <5>2. QED
          BY <5>1
      <4>3. DataOf(f, head, bytes) =
              Got(bytes.ok, bytes.at,
                  [memory |-> IF f = 2 THEN head[2] ELSE 0,
                   offset |-> IF f = 1 THEN 0 ELSE head[Len(head) - 1],
                   passive |-> f = 1, size |-> Last(head), bytes |-> bytes.val])
        BY DEF DataOf
      <4>4. QED
        BY ONLY <2>13, <4>1, <4>2, <4>3, Zenon
    <3>2. QED
      BY <1>1, <3>1 DEF IsData
  <2>15. q + k = p + ((n + 1) + k)
    BY <2>3
  <2>16. DataSegment(p) = Got(TRUE, p + ((n + 1) + k), s)
    BY <2>11, <2>12, <2>14, <2>15
  <2>17. QED
    BY <2>16 DEF Answers, Got
<1>9. (n + 1) + k \in Nat
  OBVIOUS
<1>10. QED
  BY <1>3, <1>7, <1>8, <1>9

(* The elements of a segment, one after the other.                         *)
ElementsBy(r, p, n, exprs, type) ==
  /\ r[0] = Got(TRUE, p, <<>>)
  /\ \A j \in 1 .. n : r[j] = Then(r[j-1], ElementItem(r[j-1].at, exprs, type))
  /\ ElementItems(p, n, exprs, type) = r[n]

(* What the walk over them finds after each of them.                       *)
LEMMA ElementSteps ==
  ASSUME NEW p, NEW n \in Nat, NEW exprs, NEW type
  PROVE  \E r : ElementsBy(r, p, n, exprs, type)
<1> DEFINE c == Got(TRUE, p, <<>>)
           next(w) == Then(w, ElementItem(w.at, exprs, type))
           Is(r, k) == r = [j \in 0 .. k |-> IF j = 0 THEN c ELSE next(r[j-1])]
           S == {k \in Nat : \E r : Is(r, k)}
<1>1. ElementItems(p, n, exprs, type) = (CHOOSE r : Is(r, n))[n]
  BY DEF ElementItems
<1> HIDE DEF c, next
<1>2. 0 \in S
  <2>1. Is([j \in 0 .. 0 |-> c], 0)
    OBVIOUS
  <2>2. QED
    BY <2>1
<1>3. ASSUME NEW k \in Nat, k \in S
      PROVE  k + 1 \in S
  <2>1. PICK r : Is(r, k)
    BY <1>3
  <2> DEFINE b == [j \in 0 .. k + 1 |-> IF j = k + 1 THEN next(r[k]) ELSE r[j]]
  <2>2. Is(b, k + 1)
    BY <2>1
  <2> HIDE DEF b
  <2>3. QED
    BY <2>2
<1>4. n \in S
  BY <1>2, <1>3, SetInduction
<1>5. Is(CHOOSE r : Is(r, n), n)
  BY <1>4
<1>6. PICK r : Is(r, n) /\ ElementItems(p, n, exprs, type) = r[n]
  BY <1>1, <1>5
<1>7. r[0] = c /\ \A j \in 1 .. n : r[j] = next(r[j-1])
  BY <1>6
<1>8. QED
  BY <1>6, <1>7 DEF c, next, ElementsBy

(* What has been found once the first n of them are read.                  *)
ElementsTell(exprs, type, n, sure, V, places) ==
  \A k \in 1 .. n : Answers(ElementItem(places[k], exprs, type), sure, places[k + 1], V[k])

(* The walk answers that when each of them was found at its place.         *)
LEMMA ElementsAnswer ==
  ASSUME NEW p, NEW n \in Nat, NEW exprs, NEW type, NEW sure, NEW V, NEW places,
         places[1] = p, ElementsTell(exprs, type, n, sure, V, places)
  PROVE  Answers(ElementItems(p, n, exprs, type), sure, places[n + 1], [k \in 1 .. n |-> V[k]])
<1>1. PICK r : ElementsBy(r, p, n, exprs, type)
  BY ElementSteps
<1>2. PICK x : x = [j \in 1 .. n |-> ElementItem(r[j-1].at, exprs, type)]
  OBVIOUS
<1>3. \A j \in 1 .. n : x[j] = ElementItem(r[j-1].at, exprs, type)
  BY <1>2
<1>4. Follow(r, x, n, places[1])
  BY <1>1, <1>3 DEF Follow, ElementsBy
<1>5. Tell(r, x, n, sure, V, places)
  BY <1>3 DEF Tell, ElementsTell
<1>6. QED
  BY <1>1, <1>4, <1>5, ChainAnswers DEF ElementsBy

(* What an instance of the module knows of its globals.                    *)
GlobalsKnown(m) ==
  LET g == GlobalsStated(m)
  IN  module["globals"] = g /\ Len(g) \in Nat /\ \A k \in 1 .. Len(g) : g[k] # <<>>

(* One element is read back; a global it takes has to be known.            *)
LEMMA ElementBack ==
  ASSUME StreamTyped, NEW m, NEW sure, sure => GlobalsKnown(m), NEW type, NEW x,
         IsElement(x, type, GlobalsStated(m)), NEW q \in Nat, NEW exprs \in BOOLEAN,
         exprs => Stands(q, <<x[1], x[2], End>>),
         ~ exprs => x[1] = RefFunc /\ Stands(q, <<x[2]>>)
  PROVE  Answers(ElementItem(q, exprs, type), sure, q + (IF exprs THEN 3 ELSE 1), x)
<1>1. x = <<x[1], x[2]>> /\ x[2] \in Nat
  BY DEF IsElement
<1>2. CASE ~ exprs
  <2>1. Here(q) /\ Number(q) = x[2]
    BY <1>2, StandsOne
  <2>2. ElementItem(q, exprs, type) = Got(Here(q), q + 1, <<RefFunc, Number(q)>>)
    BY <1>2 DEF ElementItem
  <2>3. Here(q) = TRUE
    BY <2>1 DEF Here
  <2>4. ElementItem(q, exprs, type) = Got(TRUE, q + 1, x)
    BY <1>1, <1>2, <2>1, <2>2, <2>3
  <2>5. QED
    BY <1>2, <2>4 DEF Answers, Got
<1>3. CASE exprs
  <2>1. Number(q) = x[1] /\ Number(q + 1) = x[2] /\ Here(q + 2) /\ Number(q + 2) = End
    <3>1. Stands(q, <<x[1]>>) /\ Stands(q + 1, <<x[2]>>) /\ Stands(q + 2, <<End>>)
      BY <1>3, StandsThree
    <3>2. q + 1 \in Nat /\ q + 2 \in Nat
      OBVIOUS
    <3>3. QED
      BY <3>1, <3>2, StandsOne
  <2>2. PICK ok : ok = (/\ Here(q + 2) /\ Number(q + 2) = End
                        /\ \/ Number(q) = RefNull /\ Number(q + 1) = type
                           \/ Number(q) = RefFunc /\ type = FUNCREF
                           \/ Number(q) = GlobalGet /\ Known(Number(q + 1), type))
    OBVIOUS
  <2>3. ElementItem(q, exprs, type) = Got(ok, q + 3, x)
    <3>1. ElementItem(q, exprs, type) = ElementExpr(q, type)
      BY <1>3 DEF ElementItem
    <3>2. ElementExpr(q, type) = Got(ok, q + 3, <<Number(q), Number(q + 1)>>)
      BY <2>2 DEF ElementExpr
    <3>3. QED
      BY <1>1, <2>1, <3>1, <3>2
  <2>4. ok \in BOOLEAN
    BY <2>2
  <2>5. ASSUME sure
        PROVE  ok
    <3>1. x[1] = GlobalGet /\ x[2] < Len(GlobalsStated(m)) => Known(x[2], type) \/ x[1] # GlobalGet
            \/ ~ (GlobalsStated(m)[x[2] + 1][1] = type /\ GlobalsStated(m)[x[2] + 1][2] = 0)
      <4>1. PICK g : g = GlobalsStated(m) /\ module["globals"] = g /\ Len(g) \in Nat
                     /\ \A k \in 1 .. Len(g) : g[k] # <<>>
        BY <2>5 DEF GlobalsKnown
      <4>2. x[2] < Len(g) => x[2] + 1 \in 1 .. Len(g)
        BY <1>1, <4>1
      <4>3. QED
        BY <4>1, <4>2 DEF Known
    <3>2. QED
      BY <2>1, <2>2, <3>1 DEF IsElement
  <2>6. QED
    <3>1. CASE ok
      <4>1. ok = TRUE
        BY <2>4, <3>1
      <4>2. ElementItem(q, exprs, type) = Got(TRUE, q + 3, x)
        BY <2>3, <4>1
      <4>3. Answers(ElementItem(q, exprs, type), sure, q + 3, x)
        BY <4>2 DEF Answers, Got
      <4>4. QED
        BY <1>3, <4>3
    <3>2. CASE ~ ok
      <4>1. ~ sure
        BY <2>5, <3>2
      <4>2. ElementItem(q, exprs, type).ok = ok
        BY <2>3 DEF Got
      <4>3. QED
        BY <3>2, <4>1, <4>2 DEF Answers
    <3>3. QED
      BY <3>1, <3>2
<1>4. QED
  BY <1>2, <1>3

(* What the three bits of the flags of a segment say.                      *)
LEMMA FlagBits ==
  \A f \in 0 .. 7 : /\ Active(f) <=> f \in {0, 2, 4, 6}
                    /\ Explicit(f) <=> f \in {2, 3, 6, 7}
<1>1. ASSUME NEW f \in 0 .. 7
      PROVE  f \in {0, 1, 2, 3, 4, 5, 6, 7}
  OBVIOUS
<1>2. /\ Active(0) /\ ~ Active(1) /\ Active(2) /\ ~ Active(3)
      /\ Active(4) /\ ~ Active(5) /\ Active(6) /\ ~ Active(7)
  BY DEF Active
<1>3. /\ ~ Explicit(0) /\ ~ Explicit(1) /\ Explicit(2) /\ Explicit(3)
      /\ ~ Explicit(4) /\ ~ Explicit(5) /\ Explicit(6) /\ Explicit(7)
  BY DEF Explicit
<1>4. QED
  BY <1>1, <1>2, <1>3

(* The shape of a segment by its flags.                                    *)
LEMMA SegmentShapes ==
  /\ SegmentShape(0) = <<"number", "offset", "index">>
  /\ \A f \in {1, 3, 5, 7} : SegmentShape(f) = <<"number", "byte", "index">>
  /\ SegmentShape(4) = <<"number", "offset", "byte", "index">>
  /\ \A f \in {2, 6} : SegmentShape(f) = <<"number", "index", "offset", "byte", "index">>
<1>1. PICK a, b, c, d : a = "number" /\ b = "offset" /\ c = "byte" /\ d = "index"
  OBVIOUS
<1>2. /\ <<a>> \o <<>> = <<a>> /\ <<a>> \o <<b>> = <<a, b>> /\ <<a, b>> \o <<>> = <<a, b>>
      /\ <<a, b>> \o <<d>> = <<a, b, d>> /\ <<a>> \o <<c>> = <<a, c>>
      /\ <<a, c>> \o <<d>> = <<a, c, d>> /\ <<a, b>> \o <<c>> = <<a, b, c>>
      /\ <<a, b, c>> \o <<d>> = <<a, b, c, d>>
  <2>1. <<a>> \o <<>> = <<a>> /\ <<a, b>> \o <<>> = <<a, b>>
    BY ONLY JoinNone, Zenon
  <2>2. <<a>> \o <<b>> = <<a, b>> /\ <<a>> \o <<c>> = <<a, c>>
    BY ONLY JoinTwo, Zenon
  <2>3. <<a, b>> \o <<d>> = <<a, b, d>> /\ <<a, c>> \o <<d>> = <<a, c, d>>
    BY ONLY JoinThree, Zenon
  <2>4. <<a, b>> \o <<c>> = <<a, b, c>>
    BY ONLY JoinThree, Zenon
  <2>5. <<a, b, c>> \o <<d>> = <<a, b, c, d>>
    BY ONLY JoinFour, Zenon
  <2>6. QED
    BY ONLY <2>1, <2>2, <2>3, <2>4, <2>5, Zenon
<1>3. /\ <<a>> \o <<d>> = <<a, d>> /\ <<a, d>> \o <<b>> = <<a, d, b>>
      /\ <<a, d, b>> \o <<c>> = <<a, d, b, c>>
      /\ <<a, d, b, c>> \o <<d>> = <<a, d, b, c, d>>
  <2>1. <<a>> \o <<d>> = <<a, d>>
    BY ONLY JoinTwo, Zenon
  <2>2. <<a, d>> \o <<b>> = <<a, d, b>>
    BY ONLY JoinThree, Zenon
  <2>3. <<a, d, b>> \o <<c>> = <<a, d, b, c>>
    BY ONLY JoinFour, Zenon
  <2>4. <<a, d, b, c>> \o <<d>> = <<a, d, b, c, d>>
    BY ONLY JoinFive, Zenon
  <2>5. QED
    BY ONLY <2>1, <2>2, <2>3, <2>4, Zenon
<1>4. ASSUME NEW f \in 0 .. 7
      PROVE  SegmentShape(f) =
               <<a>> \o (IF f \in {2, 6} THEN <<d>> ELSE <<>>)
               \o (IF f \in {0, 2, 4, 6} THEN <<b>> ELSE <<>>)
               \o (IF f = 0 THEN <<>> ELSE <<c>>) \o <<d>>
  <2>1. Active(f) <=> f \in {0, 2, 4, 6}
    BY FlagBits
  <2>2. Active(f) /\ Explicit(f) <=> f \in {2, 6}
    BY FlagBits
  <2>3. QED
    BY <1>1, <2>1, <2>2 DEF SegmentShape
<1>5. SegmentShape(0) = <<a, b, d>>
  <2>1. SegmentShape(0) = <<a>> \o <<>> \o <<b>> \o <<>> \o <<d>>
    BY <1>4
  <2>2. QED
    BY <1>2, <2>1
<1>6. ASSUME NEW f \in {1, 3, 5, 7}
      PROVE  SegmentShape(f) = <<a, c, d>>
  <2>1. f \in 0 .. 7 /\ f \notin {2, 6} /\ f \notin {0, 2, 4, 6} /\ f # 0
    OBVIOUS
  <2>2. SegmentShape(f) = <<a>> \o <<>> \o <<>> \o <<c>> \o <<d>>
    BY ONLY <1>4, <2>1, Zenon
  <2>3. QED
    BY <1>2, <2>2
<1>7. SegmentShape(4) = <<a, b, c, d>>
  <2>1. 4 \in 0 .. 7 /\ 4 \notin {2, 6} /\ 4 \in {0, 2, 4, 6} /\ 4 # 0
    OBVIOUS
  <2>2. SegmentShape(4) = <<a>> \o <<>> \o <<b>> \o <<c>> \o <<d>>
    BY ONLY <1>4, <2>1, Zenon
  <2>3. QED
    BY <1>2, <2>2
<1>8. ASSUME NEW f \in {2, 6}
      PROVE  SegmentShape(f) = <<a, d, b, c, d>>
  <2>1. f \in 0 .. 7 /\ f \in {2, 6} /\ f \in {0, 2, 4, 6} /\ f # 0
    OBVIOUS
  <2>2. SegmentShape(f) = <<a>> \o <<d>> \o <<b>> \o <<c>> \o <<d>>
    BY ONLY <1>4, <2>1, Zenon
  <2>3. QED
    BY <1>3, <2>2
<1>9. QED
  BY <1>1, <1>5, <1>6, <1>7, <1>8

(* What the head of a segment says of it.                                  *)
KindOf(f, head) == IF f = 0 THEN FUNCREF ELSE head[Len(head) - 1]
SegmentSays(s, f, head) ==
  /\ f \in 0 .. 7 /\ Last(head) = Len(s.items)
  /\ (IF Active(f) /\ Explicit(f) THEN head[2] ELSE 0) = s.table
  /\ (IF Active(f) THEN head[IF Explicit(f) THEN 3 ELSE 2] ELSE 0) = s.offset
  /\ (~ Active(f) /\ ~ Explicit(f)) <=> s.passive
  /\ (~ Active(f) /\ Explicit(f)) <=> s.declarative
  /\ f >= 4 <=> AsExpressions(s)
  /\ KindOf(f, head) \in (IF f < 4 THEN {0, FUNCREF} ELSE RefTypes)
  /\ (IF f < 4 THEN FUNCREF ELSE KindOf(f, head)) = s.type

(* The parts of the head.                                                  *)
TablePart(s) == IF s.table # 0 THEN <<s.table>> ELSE <<>>
OffsetPart(s) == IF s.passive \/ s.declarative THEN <<>> ELSE <<65, s.offset, End>>
KindPart(s) ==
  IF AsExpressions(s) THEN <<s.type>> ELSE IF SegmentFlags(s) = 0 THEN <<>> ELSE <<0>>

(* The head is its flags and its parts.                                    *)
LEMMA HeadParts ==
  ASSUME NEW s, NEW g, IsSegment(s, g)
  PROVE  /\ SegmentFlags(s) \in 0 .. 7 /\ Len(s.items) \in Nat
         /\ TablePart(s) \in Seq(Nat) /\ OffsetPart(s) \in Seq(Nat) /\ KindPart(s) \in Seq(Nat)
         /\ SegmentHeadItems(s) =
              <<SegmentFlags(s)>> \o TablePart(s) \o OffsetPart(s) \o KindPart(s) \o <<Len(s.items)>>
<1>1. SegmentFlags(s) \in 0 .. 7
  BY DEF SegmentFlags
<1>2. s.table \in Nat /\ s.offset \in Nat /\ s.type \in Nat /\ Len(s.items) \in Nat
  BY DEF IsSegment, IsList, RefTypes, FUNCREF, EXTERNREF
<1>3. TablePart(s) \in Seq(Nat)
  <2>1. <<s.table>> \in Seq(Nat)
    BY <1>2
  <2>2. QED
    BY <2>1, EmptySeq DEF TablePart
<1>4. OffsetPart(s) \in Seq(Nat)
  <2>1. <<65, s.offset, End>> \in Seq(Nat)
    BY <1>2 DEF End
  <2>2. QED
    BY <2>1, EmptySeq DEF OffsetPart
<1>5. KindPart(s) \in Seq(Nat)
  <2>1. <<s.type>> \in Seq(Nat) /\ <<0>> \in Seq(Nat)
    BY <1>2
  <2>2. QED
    BY <2>1, EmptySeq DEF KindPart
<1>6. SegmentHeadItems(s) =
        <<SegmentFlags(s)>> \o TablePart(s) \o OffsetPart(s) \o KindPart(s) \o <<Len(s.items)>>
  BY DEF SegmentHeadItems, TablePart, OffsetPart, KindPart
<1>7. QED
  BY <1>1, <1>2, <1>3, <1>4, <1>5, <1>6

(* The head of a segment is read back.                                     *)
HeadLong(s, a, b, c) == Len(SegmentHeadItems(s)) = 1 + a + b + c + 1

(* Where each part of the head is.                                         *)
LEMMA HeadStands ==
  ASSUME StreamTyped, NEW p \in Nat, NEW s, NEW g, IsSegment(s, g),
         Stands(p, SegmentHeadItems(s)),
         NEW a \in Nat, a = Len(TablePart(s)), NEW b \in Nat, b = Len(OffsetPart(s)),
         NEW c \in Nat, c = Len(KindPart(s))
  PROVE  /\ Stands(p, <<SegmentFlags(s)>>) /\ Stands(p + 1, TablePart(s))
         /\ Stands(p + 1 + a, OffsetPart(s)) /\ Stands(p + 1 + a + b, KindPart(s))
         /\ Stands(p + 1 + a + b + c, <<Len(s.items)>>)
         /\ HeadLong(s, a, b, c)
         /\ SegmentHeadItems(s) \in Seq(Nat)
<1>1. PICK h, t, o, k, n :
        /\ h = <<SegmentFlags(s)>> /\ t = TablePart(s) /\ o = OffsetPart(s)
        /\ k = KindPart(s) /\ n = <<Len(s.items)>>
  OBVIOUS
<1>2. /\ h \in Seq(Nat) /\ t \in Seq(Nat) /\ o \in Seq(Nat) /\ k \in Seq(Nat) /\ n \in Seq(Nat)
      /\ Len(h) = 1 /\ Len(n) = 1
  <2>1. SegmentFlags(s) \in Nat /\ Len(s.items) \in Nat
    <3>1. SegmentFlags(s) \in 0 .. 7
      BY HeadParts
    <3>2. Len(s.items) \in Nat
      BY HeadParts
    <3>3. QED
      BY <3>1, <3>2
  <2>2. /\ <<SegmentFlags(s)>> \in Seq(Nat) /\ <<Len(s.items)>> \in Seq(Nat)
        /\ Len(<<SegmentFlags(s)>>) = 1 /\ Len(<<Len(s.items)>>) = 1
    BY <2>1
  <2>3. t \in Seq(Nat) /\ o \in Seq(Nat) /\ k \in Seq(Nat)
    BY <1>1, HeadParts
  <2>4. QED
    BY <1>1, <2>2, <2>3, Zenon
<1>3. Stands(p, (h \o t \o o \o k) \o n) /\ SegmentHeadItems(s) = (h \o t \o o \o k) \o n
  BY <1>1, HeadParts
<1>4. PICK l : l = h \o t \o o \o k
  OBVIOUS
<1>5. l \in Seq(Nat)
  BY <1>2, <1>4, ConcatProperties
<1>6. Stands(p, l) /\ Stands(p + Len(l), n) /\ l \o n \in Seq(Nat) /\ Len(l \o n) = Len(l) + Len(n)
  <2>1. Stands(p, l \o n)
    BY <1>3, <1>4
  <2>2. Stands(p, l)
    BY <1>2, <1>5, <2>1, StandsParts
  <2>3. Stands(p + Len(l), n)
    BY <1>2, <1>5, <2>1, StandsParts
  <2>4. QED
    BY <1>2, <1>5, <2>2, <2>3, ConcatProperties
<1>7. Stands(p, h \o t \o o \o k)
  BY <1>4, <1>6
<1>8. /\ Stands(p, h) /\ Stands(p + Len(h), t) /\ Stands(p + Len(h) + Len(t), o)
      /\ Stands(p + Len(h) + Len(t) + Len(o), k)
      /\ Len(h \o t \o o \o k) = Len(h) + Len(t) + Len(o) + Len(k)
  <2>0. h \in Seq(Nat) /\ t \in Seq(Nat) /\ o \in Seq(Nat) /\ k \in Seq(Nat)
    BY <1>2
  <2>1. Stands(p, h)
    BY <1>7, <2>0, StandsInFour
  <2>2. Stands(p + Len(h), t)
    BY <1>7, <2>0, StandsInFour
  <2>3. Stands(p + Len(h) + Len(t), o)
    BY <1>7, <2>0, StandsInFour
  <2>4. Stands(p + Len(h) + Len(t) + Len(o), k)
    BY <1>7, <2>0, StandsInFour
  <2>5. Len(h \o t \o o \o k) = Len(h) + Len(t) + Len(o) + Len(k)
    BY <1>7, <2>0, StandsInFour
  <2>6. QED
    BY <2>1, <2>2, <2>3, <2>4, <2>5
<1>9. Len(l) = 1 + a + b + c
  BY <1>1, <1>2, <1>4, <1>8
<1>10. p + Len(l) = p + 1 + a + b + c
  BY <1>9
<1>11. Stands(p + 1 + a + b + c, n)
  BY <1>6, <1>10
<1>12. QED
  BY <1>1, <1>2, <1>3, <1>4, <1>6, <1>8, <1>9, <1>11 DEF HeadLong

(* What the flags of a segment are.                                        *)
LEMMA FlagsAre ==
  ASSUME NEW s, NEW g, IsSegment(s, g), NEW f, f = SegmentFlags(s)
  PROVE  /\ (s.passive \/ s.declarative) <=> f \in {1, 3, 5, 7}
         /\ s.declarative <=> f \in {3, 7}
         /\ f \in {2, 6} <=> s.table # 0
         /\ f >= 4 <=> AsExpressions(s)
<1>1. s.passive \in BOOLEAN /\ s.declarative \in BOOLEAN /\ ~ (s.passive /\ s.declarative)
  BY DEF IsSegment
<1>2. s.passive \/ s.declarative => s.table = 0
  BY DEF IsSegment
<1>3. f = (IF s.passive \/ s.declarative THEN 1 ELSE 0)
          + (IF s.declarative \/ s.table # 0 THEN 2 ELSE 0)
          + (IF AsExpressions(s) THEN 4 ELSE 0)
  BY DEF SegmentFlags
<1>4. QED
  BY <1>1, <1>2, <1>3

(* What the reader of the head finds.                                      *)
LEMMA HeadRead ==
  ASSUME StreamTyped, NEW p \in Nat, NEW s, NEW g, IsSegment(s, g),
         Stands(p, SegmentHeadItems(s))
  PROVE  /\ SegmentHeadItems(s) \in Seq(Nat)
         /\ \E f, head : /\ SegmentSays(s, f, head) /\ Number(p) = f
                         /\ Reads(p, SegmentShape(f), p + Len(SegmentHeadItems(s)), head)
<1>1. TablePart(s) \in Seq(Nat) /\ OffsetPart(s) \in Seq(Nat) /\ KindPart(s) \in Seq(Nat)
  BY HeadParts
<1>2. PICK a \in Nat, b \in Nat, c \in Nat :
        a = Len(TablePart(s)) /\ b = Len(OffsetPart(s)) /\ c = Len(KindPart(s))
  BY <1>1, LenProperties
<1>3. PICK q \in Nat : q = p + 1 + a + b + c
  OBVIOUS
<1>4. SegmentHeadItems(s) \in Seq(Nat)
  BY <1>2, HeadStands
<1>5. p + Len(SegmentHeadItems(s)) = q + 1
  <2>1. Len(SegmentHeadItems(s)) = 1 + a + b + c + 1
    <3>1. HeadLong(s, a, b, c)
      BY <1>2, HeadStands
    <3>2. QED
      BY <3>1 DEF HeadLong
  <2>2. QED
    BY <1>3, <2>1
<1>6. PICK f, n : f = SegmentFlags(s) /\ f \in 0 .. 7 /\ n = Len(s.items) /\ n \in Nat
  <2>1. SegmentFlags(s) \in 0 .. 7
    BY HeadParts
  <2>2. Len(s.items) \in Nat
    BY HeadParts
  <2>3. QED
    BY <2>1, <2>2
<1>7. /\ (s.passive \/ s.declarative) <=> f \in {1, 3, 5, 7}
      /\ s.declarative <=> f \in {3, 7}
      /\ f \in {2, 6} <=> s.table # 0
      /\ f >= 4 <=> AsExpressions(s)
  BY <1>6, FlagsAre
<1>8. /\ s.table \in Nat /\ s.offset \in Nat /\ s.type \in RefTypes
      /\ s.passive \in BOOLEAN /\ s.declarative \in BOOLEAN /\ ~ (s.passive /\ s.declarative)
      /\ s.passive \/ s.declarative => s.table = 0 /\ s.offset = 0
  BY DEF IsSegment
<1>9. ~ AsExpressions(s) => s.type = FUNCREF
  BY DEF AsExpressions
<1>10. Number(p) = f /\ Took("number", p, p + 1, f)
  <2>1. Stands(p, <<f>>)
    BY <1>2, <1>6, HeadStands
  <2>2. QED
    BY <2>1, StandsOne, NumberField
<1>11. Took("index", q, q + 1, n)
  <2>1. Stands(p + 1 + a + b + c, <<n>>)
    BY <1>2, <1>6, HeadStands
  <2>2. QED
    BY <1>3, <2>1, NumberField
<1>12. PICK t : t = IF AsExpressions(s) THEN s.type ELSE 0
  OBVIOUS
<1>13. ASSUME f # 0
       PROVE  c = 1 /\ Took("byte", p + 1 + a + b, q, t)
  <2>1. KindPart(s) = <<t>>
    BY <1>6, <1>12, <1>13 DEF KindPart
  <2>2. c = 1
    BY <1>2, <2>1
  <2>3. p + 1 + a + b \in Nat /\ (p + 1 + a + b) + 1 = q
    BY <1>3, <2>2
  <2>4. Stands(p + 1 + a + b, <<t>>)
    <3>1. Stands(p + 1 + a + b, KindPart(s))
      BY <1>2, HeadStands
    <3>2. QED
      BY <2>1, <3>1
  <2>5. QED
    BY <2>2, <2>3, <2>4, NumberField
<1>14. ASSUME f \notin {1, 3, 5, 7}
       PROVE  b = 3 /\ Took("offset", p + 1 + a, p + 1 + a + b, s.offset)
  <2>1. OffsetPart(s) = <<65, s.offset, End>>
    BY <1>7, <1>14 DEF OffsetPart
  <2>2. b = 3
    BY <1>2, <2>1
  <2>3. p + 1 + a \in Nat /\ (p + 1 + a) + 3 = p + 1 + a + b /\ 65 \in {65, 66}
    BY <2>2
  <2>4. Stands(p + 1 + a, <<65, s.offset, End>>)
    <3>1. Stands(p + 1 + a, OffsetPart(s))
      BY <1>2, HeadStands
    <3>2. QED
      BY <2>1, <3>1
  <2>5. Took("offset", p + 1 + a, (p + 1 + a) + 3, s.offset)
    BY <1>8, <2>3, <2>4, OffsetField
  <2>6. QED
    BY <2>2, <2>3, <2>5
<1>15. f \notin {2, 6} => a = 0
  BY <1>2, <1>7 DEF TablePart
<1>16. /\ Active(f) <=> f \in {0, 2, 4, 6}
       /\ Explicit(f) <=> f \in {2, 3, 6, 7}
  BY <1>6, FlagBits
<1>17. CASE f \in {1, 3, 5, 7}
  <2>1. b = 0
    BY <1>2, <1>7, <1>17 DEF OffsetPart
  <2>2. p + 1 + a + b = p + 1
    BY <1>15, <1>17, <2>1
  <2>3. Took("byte", p + 1, q, t)
    BY <1>13, <1>17, <2>2
  <2>4. PICK head : head = <<f, t, n>>
    OBVIOUS
  <2>5. Reads(p, <<"number", "byte", "index">>, q + 1, head)
    BY <1>10, <1>11, <2>3, <2>4, ReadsThree
  <2>6. Len(head) = 3 /\ head[2] = t /\ head[3] = n
    BY <2>4
  <2>7. SegmentSays(s, f, head)
    BY <1>6, <1>7, <1>8, <1>9, <1>12, <1>16, <1>17, <2>6 DEF SegmentSays, KindOf, Last
  <2>8. QED
    BY <1>4, <1>5, <1>10, <1>17, <2>5, <2>7, SegmentShapes
<1>18. CASE f = 0
  <2>1. c = 0
    BY <1>2, <1>6, <1>7, <1>18 DEF KindPart
  <2>2. Took("offset", p + 1, q, s.offset)
    <3>1. p + 1 + a = p + 1 /\ p + 1 + a + b = q
      BY <1>3, <1>15, <1>18, <2>1
    <3>2. QED
      BY <1>14, <1>18, <3>1
  <2>3. PICK head : head = <<f, s.offset, n>>
    OBVIOUS
  <2>4. Reads(p, <<"number", "offset", "index">>, q + 1, head)
    BY <1>10, <1>11, <2>2, <2>3, ReadsThree
  <2>5. Len(head) = 3 /\ head[2] = s.offset /\ head[3] = n
    BY <2>3
  <2>6. SegmentSays(s, f, head)
    BY <1>6, <1>7, <1>8, <1>9, <1>16, <1>18, <2>5 DEF SegmentSays, KindOf, Last
  <2>7. QED
    BY <1>4, <1>5, <1>10, <1>18, <2>4, <2>6, SegmentShapes
<1>19. CASE f = 4
  <2>1. Took("offset", p + 1, p + 1 + a + b, s.offset)
    <3>1. p + 1 + a = p + 1
      BY <1>15, <1>19
    <3>2. QED
      BY <1>14, <1>19, <3>1
  <2>2. Took("byte", p + 1 + a + b, q, t)
    BY <1>13, <1>19
  <2>3. PICK head : head = <<f, s.offset, t, n>>
    OBVIOUS
  <2>4. Reads(p, <<"number", "offset", "byte", "index">>, q + 1, head)
    BY <1>10, <1>11, <2>1, <2>2, <2>3, ReadsFour
  <2>5. Len(head) = 4 /\ head[2] = s.offset /\ head[3] = t /\ head[4] = n
    BY <2>3
  <2>6. SegmentSays(s, f, head)
    BY <1>6, <1>7, <1>8, <1>9, <1>12, <1>16, <1>19, <2>5 DEF SegmentSays, KindOf, Last
  <2>7. QED
    BY <1>4, <1>5, <1>10, <1>19, <2>4, <2>6, SegmentShapes
<1>20. CASE f \in {2, 6}
  <2>1. Took("index", p + 1, p + 1 + a, s.table)
    <3>1. TablePart(s) = <<s.table>>
      BY <1>7, <1>20 DEF TablePart
    <3>2. a = 1
      BY <1>2, <3>1
    <3>3. Stands(p + 1, <<s.table>>)
      <4>1. Stands(p + 1, TablePart(s))
        BY <1>2, HeadStands
      <4>2. QED
        BY <3>1, <4>1
    <3>4. p + 1 \in Nat /\ (p + 1) + 1 = p + 1 + a
      BY <3>2
    <3>5. QED
      BY <3>3, <3>4, NumberField
  <2>2. Took("offset", p + 1 + a, p + 1 + a + b, s.offset)
    BY <1>14, <1>20
  <2>3. Took("byte", p + 1 + a + b, q, t)
    BY <1>13, <1>20
  <2>4. PICK head : head = <<f, s.table, s.offset, t, n>>
    OBVIOUS
  <2>5. Reads(p, <<"number", "index", "offset", "byte", "index">>, q + 1, head)
    BY <1>10, <1>11, <2>1, <2>2, <2>3, <2>4, ReadsFive
  <2>6. Len(head) = 5 /\ head[2] = s.table /\ head[3] = s.offset /\ head[4] = t /\ head[5] = n
    BY <2>4
  <2>7. SegmentSays(s, f, head)
    BY <1>6, <1>7, <1>8, <1>9, <1>12, <1>16, <1>20, <2>6 DEF SegmentSays, KindOf, Last
  <2>8. QED
    BY <1>4, <1>5, <1>10, <1>20, <2>5, <2>7, SegmentShapes
<1>21. QED
  BY <1>6, <1>17, <1>18, <1>19, <1>20

(* What the elements of a segment are written with.                        *)
ElementsItems(s) ==
  IF AsExpressions(s)
  THEN [k \in 1 .. 3 * Len(s.items) |-> ElementItem3(s.items[(k + 2) \div 3], (k - 1) % 3)]
  ELSE [k \in 1 .. Len(s.items) |-> s.items[k][2]]
Width(s) == IF AsExpressions(s) THEN 3 ELSE 1

(* Each of them is written with numbers of the stream.                     *)
LEMMA ElementsNumbers ==
  ASSUME NEW s, NEW g, IsSegment(s, g), NEW n \in Nat, n = Len(s.items)
  PROVE  ElementsItems(s) \in Seq(Nat) /\ Len(ElementsItems(s)) = Width(s) * n
<1>1. \A k \in 1 .. n : s.items[k][1] \in Nat /\ s.items[k][2] \in Nat
  BY DEF IsSegment, IsElement, RefFunc, RefNull, GlobalGet
<1>2. CASE AsExpressions(s)
  <2>1. PICK f : f = [k \in 1 .. 3 * n |-> ElementItem3(s.items[(k + 2) \div 3], (k - 1) % 3)]
    OBVIOUS
  <2>2. ASSUME NEW k \in 1 .. 3 * n
        PROVE  ElementItem3(s.items[(k + 2) \div 3], (k - 1) % 3) \in Nat
    <3>1. (k + 2) \div 3 \in 1 .. n /\ (k - 1) % 3 \in {0, 1, 2}
      OBVIOUS
    <3>2. QED
      BY <1>1, <3>1 DEF ElementItem3, End
  <2>3. f \in [1 .. 3 * n -> Nat] /\ 3 * n \in Nat
    BY <2>1, <2>2
  <2>4. f \in Seq(Nat) /\ Len(f) = 3 * n
    BY <2>3, FunctionIsSeq
  <2>5. QED
    BY <1>2, <2>1, <2>4 DEF ElementsItems, Width
<1>3. CASE ~ AsExpressions(s)
  <2>1. PICK f : f = [k \in 1 .. n |-> s.items[k][2]]
    OBVIOUS
  <2>2. f \in [1 .. n -> Nat]
    BY <1>1, <2>1
  <2>3. f \in Seq(Nat) /\ Len(f) = n
    BY <2>2, FunctionIsSeq
  <2>4. QED
    BY <1>3, <2>1, <2>3 DEF ElementsItems, Width
<1>4. QED
  BY <1>2, <1>3

(* Where the k-th of them is.                                              *)
LEMMA ElementStands ==
  ASSUME StreamTyped, NEW s, NEW g, IsSegment(s, g), NEW n \in Nat, n = Len(s.items),
         NEW q \in Nat, Stands(q, ElementsItems(s)), NEW k \in 1 .. n, NEW x, x = s.items[k]
  PROVE  /\ AsExpressions(s) => Stands(q + 3 * (k - 1), <<x[1], x[2], End>>)
         /\ ~ AsExpressions(s) => x[1] = RefFunc /\ Stands(q + (k - 1), <<x[2]>>)
<1>1. Len(ElementsItems(s)) = Width(s) * n
  BY ElementsNumbers
<1>2. ASSUME AsExpressions(s)
      PROVE  Stands(q + 3 * (k - 1), <<x[1], x[2], End>>)
  <2>1. q + 3 * n <= Size
    BY <1>1, <1>2 DEF Stands, Width
  <2>2. Len(ElementsItems(s)) = 3 * n
    BY <1>1, <1>2 DEF Width
  <2>3. \A i \in 1 .. 3 * n : Stream[q + i] = ElementsItems(s)[i]
    BY <2>2 DEF Stands
  <2>4. \A i \in 1 .. 3 * n :
          ElementsItems(s)[i] = ElementItem3(s.items[(i + 2) \div 3], (i - 1) % 3)
    BY <1>2 DEF ElementsItems
  <2>5. PICK e \in Nat : e = 3 * (k - 1)
    OBVIOUS
  <2>6. /\ e + 1 \in 1 .. 3 * n /\ ((e + 1) + 2) \div 3 = k /\ ((e + 1) - 1) % 3 = 0
        /\ e + 2 \in 1 .. 3 * n /\ ((e + 2) + 2) \div 3 = k /\ ((e + 2) - 1) % 3 = 1
        /\ e + 3 \in 1 .. 3 * n /\ ((e + 3) + 2) \div 3 = k /\ ((e + 3) - 1) % 3 = 2
    BY <2>5
  <2>7. /\ ElementsItems(s)[e + 1] = x[1] /\ ElementsItems(s)[e + 2] = x[2]
        /\ ElementsItems(s)[e + 3] = End
    <3>1. /\ ElementsItems(s)[e + 1] = ElementItem3(s.items[k], 0)
          /\ ElementsItems(s)[e + 2] = ElementItem3(s.items[k], 1)
          /\ ElementsItems(s)[e + 3] = ElementItem3(s.items[k], 2)
      <4>1. \A i \in 1 .. 3 * n : (i + 2) \div 3 = k =>
              ElementsItems(s)[i] = ElementItem3(s.items[k], (i - 1) % 3)
        BY <2>4
      <4>2. QED
        BY ONLY <2>6, <4>1, Zenon
    <3>2. /\ ElementItem3(x, 0) = x[1] /\ ElementItem3(x, 1) = x[2] /\ ElementItem3(x, 2) = End
      BY DEF ElementItem3
    <3>3. QED
      BY <3>1, <3>2
  <2>8. /\ Stream[q + (e + 1)] = x[1] /\ Stream[q + (e + 2)] = x[2] /\ Stream[q + (e + 3)] = End
    BY <2>3, <2>6, <2>7
  <2>9. PICK list : list = <<x[1], x[2], End>>
    OBVIOUS
  <2>10. Len(list) = 3 /\ list[1] = x[1] /\ list[2] = x[2] /\ list[3] = End
    BY <2>9
  <2>11. /\ (q + e) + 1 = q + (e + 1) /\ (q + e) + 2 = q + (e + 2) /\ (q + e) + 3 = q + (e + 3)
         /\ Size \in Nat
    BY LenProperties DEF StreamTyped, Size
  <2>12. (q + e) + 3 <= Size
    <3>1. PICK w \in Nat : w = 3 * n
      OBVIOUS
    <3>2. e + 3 \in 1 .. w /\ q + w <= Size
      BY ONLY <2>1, <2>6, <3>1, Zenon
    <3>3. QED
      BY <2>11, <3>2
  <2>13. Stands(q + e, list)
    <3>1. \A i \in 1 .. Len(list) : i = 1 \/ i = 2 \/ i = 3
      BY <2>10
    <3>2. \A i \in 1 .. Len(list) : Stream[(q + e) + i] = list[i]
      BY ONLY <2>8, <2>10, <2>11, <3>1, Zenon
    <3>3. (q + e) + Len(list) <= Size
      BY ONLY <2>10, <2>12, Zenon
    <3>4. QED
      BY ONLY <3>2, <3>3, Zenon DEF Stands
  <2>14. QED
    BY <2>5, <2>9, <2>13
<1>3. ASSUME ~ AsExpressions(s)
      PROVE  x[1] = RefFunc /\ Stands(q + (k - 1), <<x[2]>>)
  <2>1. x[1] = RefFunc
    BY <1>3 DEF AsExpressions
  <2>2. Len(ElementsItems(s)) = n
    BY <1>1, <1>3 DEF Width
  <2>3. ElementsItems(s)[k] = x[2]
    BY <1>3 DEF ElementsItems
  <2>4. q + n <= Size /\ Stream[q + k] = x[2]
    BY <2>2, <2>3 DEF Stands
  <2>5. q + (k - 1) \in Nat /\ (q + (k - 1)) + 1 = q + k /\ q + k <= Size
    <3>1. Size \in Nat
      BY LenProperties DEF StreamTyped, Size
    <3>2. QED
      BY <2>4, <3>1
  <2>6. Stands(q + (k - 1), <<x[2]>>)
    BY <2>4, <2>5, OneStands
  <2>7. QED
    BY <2>1, <2>6
<1>4. QED
  BY <1>2, <1>3

(* The elements of a segment are read back, if the globals are known.      *)
LEMMA ElementsBack ==
  ASSUME StreamTyped, NEW m, NEW sure, sure => GlobalsKnown(m), NEW s,
         IsSegment(s, GlobalsStated(m)), NEW n \in Nat, n = Len(s.items),
         NEW q \in Nat, Stands(q, ElementsItems(s))
  PROVE  Answers(ElementItems(q, n, AsExpressions(s), s.type), sure,
                 q + Len(ElementsItems(s)), s.items)
<1>1. PICK places : places = [k \in 1 .. n + 1 |-> q + Width(s) * (k - 1)]
  OBVIOUS
<1>2. Width(s) \in {1, 3} /\ AsExpressions(s) \in BOOLEAN
  BY DEF Width, AsExpressions
<1>3. places[1] = q
  BY <1>1, <1>2
<1>4. ASSUME NEW k \in 1 .. n
      PROVE  Answers(ElementItem(places[k], AsExpressions(s), s.type), sure, places[k + 1],
                     s.items[k])
  <2>1. PICK x : x = s.items[k]
    OBVIOUS
  <2>2. IsElement(x, s.type, GlobalsStated(m))
    BY <2>1 DEF IsSegment
  <2>3. /\ AsExpressions(s) => Stands(q + 3 * (k - 1), <<x[1], x[2], End>>)
        /\ ~ AsExpressions(s) => x[1] = RefFunc /\ Stands(q + (k - 1), <<x[2]>>)
    BY <2>1, ElementStands
  <2>4. PICK e, exprs : /\ e \in Nat /\ exprs \in BOOLEAN /\ exprs = AsExpressions(s)
                        /\ e = places[k]
                        /\ e = q + (IF exprs THEN 3 * (k - 1) ELSE k - 1)
                        /\ places[k + 1] = e + (IF exprs THEN 3 ELSE 1)
    <3>1. k \in 1 .. n + 1 /\ k + 1 \in 1 .. n + 1
      OBVIOUS
    <3>2. places[k] = q + Width(s) * (k - 1) /\ places[k + 1] = q + Width(s) * ((k + 1) - 1)
      BY <1>1, <3>1
    <3>3. CASE AsExpressions(s)
      <4>1. Width(s) = 3
        BY <3>3 DEF Width
      <4>2. /\ places[k] = q + 3 * (k - 1) /\ places[k + 1] = (q + 3 * (k - 1)) + 3
            /\ q + 3 * (k - 1) \in Nat
        BY <3>2, <4>1
      <4>3. QED
        BY <1>2, <3>3, <4>2
    <3>4. CASE ~ AsExpressions(s)
      <4>1. Width(s) = 1
        BY <3>4 DEF Width
      <4>2. /\ places[k] = q + (k - 1) /\ places[k + 1] = (q + (k - 1)) + 1
            /\ q + (k - 1) \in Nat
        BY <3>2, <4>1
      <4>3. QED
        BY <1>2, <3>4, <4>2
    <3>5. QED
      BY <3>3, <3>4
  <2>5. /\ exprs => Stands(e, <<x[1], x[2], End>>)
        /\ ~ exprs => x[1] = RefFunc /\ Stands(e, <<x[2]>>)
    BY <2>3, <2>4
  <2>6. Answers(ElementItem(e, exprs, s.type), sure, e + (IF exprs THEN 3 ELSE 1), x)
    BY <2>2, <2>4, <2>5, ElementBack
  <2>7. QED
    BY <2>1, <2>4, <2>6
<1>5. Answers(ElementItems(q, n, AsExpressions(s), s.type), sure, places[n + 1],
              [k \in 1 .. n |-> s.items[k]])
  <2>1. PICK V : V = s.items
    OBVIOUS
  <2>2. \A k \in 1 .. n :
          Answers(ElementItem(places[k], AsExpressions(s), s.type), sure, places[k + 1], V[k])
    BY <1>4, <2>1
  <2>3. PICK exprs, type : exprs = AsExpressions(s) /\ type = s.type
    OBVIOUS
  <2>4. ElementsTell(exprs, type, n, sure, V, places)
    BY <2>2, <2>3 DEF ElementsTell
  <2>5. Answers(ElementItems(q, n, exprs, type), sure, places[n + 1], [k \in 1 .. n |-> V[k]])
    BY <1>3, <2>4, ElementsAnswer
  <2>6. QED
    BY <2>1, <2>3, <2>5
<1>6. places[n + 1] = q + Len(ElementsItems(s))
  <2>1. Len(ElementsItems(s)) = Width(s) * n
    BY ElementsNumbers
  <2>2. places[n + 1] = q + Width(s) * ((n + 1) - 1)
    BY <1>1
  <2>3. (n + 1) - 1 = n
    OBVIOUS
  <2>4. QED
    BY <2>1, <2>2, <2>3
<1>7. s.items = [k \in 1 .. n |-> s.items[k]]
  BY DEF IsSegment, IsList
<1>8. QED
  BY <1>5, <1>6, <1>7

(* An element segment is read back, with the globals known.                *)
LEMMA SegmentBack ==
  ASSUME StreamTyped, NEW m, NEW sure, sure => GlobalsKnown(m), NEW s
  PROVE  ReadBack(m, "element", sure, s, s)
<1>1. SUFFICES ASSUME IsSegment(s, GlobalsStated(m))
               PROVE  /\ Len(SegmentItems(s)) \in Nat
                      /\ \A p \in Nat : Stands(p, SegmentItems(s)) =>
                           Answers(ElementSegment(p), sure, p + Len(SegmentItems(s)), s)
  BY DEF ReadBack, IsEntry, EntryItems, Item
<1>2. PICK g : g = GlobalsStated(m) /\ IsSegment(s, g)
  BY <1>1
<1>3. PICK n \in Nat : n = Len(s.items)
  BY <1>2, HeadParts
<1>4. PICK a, b : a = SegmentHeadItems(s) /\ b = ElementsItems(s)
  OBVIOUS
<1>5. SegmentItems(s) = a \o b
  BY <1>4 DEF SegmentItems, ElementsItems
<1>6. a \in Seq(Nat)
  <2>1. /\ SegmentFlags(s) \in 0 .. 7 /\ Len(s.items) \in Nat
    BY <1>2, HeadParts
  <2>2. <<SegmentFlags(s)>> \in Seq(Nat) /\ <<Len(s.items)>> \in Seq(Nat)
    BY <2>1
  <2>3. TablePart(s) \in Seq(Nat) /\ OffsetPart(s) \in Seq(Nat) /\ KindPart(s) \in Seq(Nat)
    BY <1>2, HeadParts
  <2>4. SegmentHeadItems(s) = <<SegmentFlags(s)>> \o TablePart(s) \o OffsetPart(s) \o KindPart(s)
                              \o <<Len(s.items)>>
    BY <1>2, HeadParts
  <2>5. PICK h, t, o, k, l :
          /\ h \in Seq(Nat) /\ t \in Seq(Nat) /\ o \in Seq(Nat) /\ k \in Seq(Nat) /\ l \in Seq(Nat)
          /\ SegmentHeadItems(s) = h \o t \o o \o k \o l
    BY <2>2, <2>3, <2>4, Zenon
  <2>6. h \o t \in Seq(Nat)
    BY <2>5, ConcatProperties
  <2>7. h \o t \o o \in Seq(Nat)
    BY <2>5, <2>6, ConcatProperties
  <2>8. h \o t \o o \o k \in Seq(Nat)
    BY <2>5, <2>7, ConcatProperties
  <2>9. QED
    BY <1>4, <2>5, <2>8, ConcatProperties
<1>7. b \in Seq(Nat)
  BY <1>2, <1>3, <1>4, ElementsNumbers
<1>8. Len(a \o b) = Len(a) + Len(b) /\ Len(a) \in Nat /\ Len(b) \in Nat
  BY <1>6, <1>7, ConcatProperties, LenProperties
<1>9. ASSUME NEW p \in Nat, Stands(p, a \o b)
      PROVE  Answers(ElementSegment(p), sure, p + Len(a \o b), s)
  <2>1. Stands(p, a)
    BY <1>6, <1>7, <1>9, StandsParts
  <2>2. Stands(p + Len(a), b)
    BY <1>6, <1>7, <1>9, StandsParts
  <2>3. PICK q \in Nat : q = p + Len(a)
    BY <1>8
  <2>4. Stands(p, SegmentHeadItems(s)) /\ Stands(q, ElementsItems(s)) /\ Len(b) = Len(ElementsItems(s))
    BY <1>4, <2>1, <2>2, <2>3
  <2>5. PICK f, head : /\ SegmentSays(s, f, head) /\ Number(p) = f
                       /\ Reads(p, SegmentShape(f), q, head)
    <3>1. \E f, head : /\ SegmentSays(s, f, head) /\ Number(p) = f
                       /\ Reads(p, SegmentShape(f), p + Len(SegmentHeadItems(s)), head)
      BY <1>2, <2>4, HeadRead
    <3>2. QED
      BY <1>4, <2>3, <3>1
  <2>6. PICK items : items = ElementItems(q, n, AsExpressions(s), s.type)
    OBVIOUS
  <2>7. Answers(items, sure, q + Len(b), s.items)
    BY <1>1, <1>3, <2>4, <2>6, ElementsBack
  <2>8. PICK r : r = Read(p, SegmentShape(f))
    OBVIOUS
  <2>9. r.ok = TRUE /\ r.at = q /\ r.val = head
    BY <2>5, <2>8 DEF Reads, Got
  <2>10. PICK kind : kind = KindOf(f, head)
    OBVIOUS
  <2>11. ElementSegment(p) = SegmentHead(f, r)
    <3>1. f <= 7
      BY <2>5 DEF SegmentSays
    <3>2. QED
      BY <2>5, <2>8, <3>1 DEF ElementSegment
  <2>12. SegmentHead(f, r) = SegmentBody(f, r, kind)
    BY <2>9, <2>10 DEF SegmentHead, KindOf
  <2>13. SegmentBody(f, r, kind) = SegmentOf(f, head, kind, items)
    <3>1. kind \in (IF f < 4 THEN {0, FUNCREF} ELSE RefTypes)
      BY <2>5, <2>10 DEF SegmentSays
    <3>2. Last(head) = n /\ (IF f < 4 THEN FUNCREF ELSE kind) = s.type
      BY <1>3, <2>5, <2>10 DEF SegmentSays
    <3>3. (f >= 4) = AsExpressions(s)
      <4>1. f >= 4 <=> AsExpressions(s)
        BY <2>5 DEF SegmentSays
      <4>2. AsExpressions(s) \in BOOLEAN
        BY DEF AsExpressions
      <4>3. QED
        BY <4>1, <4>2
    <3>4. SegmentBody(f, r, kind) =
            SegmentOf(f, r.val, kind,
                      ElementItems(r.at, Last(r.val), f >= 4, IF f < 4 THEN FUNCREF ELSE kind))
      BY <2>9, <3>1 DEF SegmentBody
    <3>5. QED
      BY <2>6, <2>9, <3>2, <3>3, <3>4
  <2>14. SegmentOf(f, head, kind, items) =
           Got(items.ok, items.at,
               [table |-> s.table, offset |-> s.offset, passive |-> s.passive,
                declarative |-> s.declarative, type |-> s.type, items |-> items.val])
    <3>1. /\ (IF Active(f) /\ Explicit(f) THEN head[2] ELSE 0) = s.table
          /\ (IF Active(f) THEN head[IF Explicit(f) THEN 3 ELSE 2] ELSE 0) = s.offset
          /\ (IF f < 4 THEN FUNCREF ELSE kind) = s.type
      BY <2>5, <2>10 DEF SegmentSays
    <3>2. /\ (~ Active(f) /\ ~ Explicit(f)) = s.passive
          /\ (~ Active(f) /\ Explicit(f)) = s.declarative
      <4>1. s.passive \in BOOLEAN /\ s.declarative \in BOOLEAN
        BY <1>1 DEF IsSegment
      <4>2. /\ (~ Active(f) /\ ~ Explicit(f)) <=> s.passive
            /\ (~ Active(f) /\ Explicit(f)) <=> s.declarative
        BY <2>5 DEF SegmentSays
      <4>3. QED
        BY <4>1, <4>2
    <3>3. SegmentOf(f, head, kind, items) =
            Got(items.ok, items.at,
                [table |-> IF Active(f) /\ Explicit(f) THEN head[2] ELSE 0,
                 offset |-> IF Active(f) THEN head[IF Explicit(f) THEN 3 ELSE 2] ELSE 0,
                 passive |-> ~ Active(f) /\ ~ Explicit(f),
                 declarative |-> ~ Active(f) /\ Explicit(f),
                 type |-> IF f < 4 THEN FUNCREF ELSE kind,
                 items |-> items.val])
      BY DEF SegmentOf
    <3>4. QED
      BY ONLY <3>1, <3>2, <3>3, Zenon
  <2>15. PICK v : v = [table |-> s.table, offset |-> s.offset, passive |-> s.passive,
                       declarative |-> s.declarative, type |-> s.type, items |-> items.val]
    OBVIOUS
  <2>16. ElementSegment(p) = Got(items.ok, items.at, v)
    BY <2>11, <2>12, <2>13, <2>14, <2>15
  <2>17. sure => ElementSegment(p).ok
    BY <2>7, <2>16 DEF Answers, Got
  <2>18. ASSUME ElementSegment(p).ok
         PROVE  ElementSegment(p) = Got(TRUE, p + Len(a \o b), s)
    <3>1. items.ok
      BY <2>16, <2>18 DEF Got
    <3>2. items = Got(TRUE, q + Len(b), s.items)
      BY <2>7, <3>1 DEF Answers
    <3>3. items.ok = TRUE /\ items.at = q + Len(b) /\ items.val = s.items
      BY <3>2 DEF Got
    <3>4. v = s
      BY <1>1, <2>15, <3>3 DEF IsSegment
    <3>5. q + Len(b) = p + Len(a \o b)
      BY <1>8, <2>3
    <3>6. QED
      BY <2>16, <3>3, <3>4, <3>5
  <2>19. QED
    BY <2>17, <2>18 DEF Answers
<1>10. Len(a \o b) \in Nat
  BY <1>8
<1>11. QED
  BY <1>5, <1>9, <1>10
-----------------------------------------------------------------------------
(* The bodies of a stream that is whole.                                   *)
LEMMA CodeEntryBack ==
  ASSUME StreamTyped, NEW p \in Nat, NEW l \in Seq(Nat), Stands(p, BytesItems(l))
  PROVE  /\ CodeEntry(p) = Got(TRUE, p + Len(BytesItems(l)), [offset |-> p + 1, size |-> Len(l)])
         /\ SubSeq(Stream, (p + 1) + 1, (p + 1) + Len(l)) = l
<1>1. PICK n \in Nat : n = Len(l)
  BY LenProperties
<1>2. PICK h : h = <<n>> /\ h \in Seq(Nat) /\ Len(h) = 1
  <2>1. <<n>> \in Seq(Nat) /\ Len(<<n>>) = 1
    OBVIOUS
  <2>2. QED
    BY <2>1, Zenon
<1>3. h \in Seq(Nat)
  BY <1>2
<1>4. Stands(p, h \o l)
  BY <1>1, <1>2 DEF BytesItems
<1>5. Stands(p, h)
  BY <1>3, <1>4, StandsParts
<1>6. Stands(p + Len(h), l)
  BY <1>3, <1>4, StandsParts
<1>7. Len(BytesItems(l)) = 1 + n
  BY <1>1, BytesField
<1>8. Number(p) = n /\ Next1(p) = p + 1
  BY <1>2, <1>5, StandsOne
<1>9. Stands(p + 1, l)
  BY <1>2, <1>6
<1>10. (p + 1) + n <= Size
  BY <1>1, <1>9 DEF Stands
<1>11. CanSeek(Next1(p) + Number(p)) = TRUE
  BY <1>8, <1>10 DEF CanSeek, StreamTyped
<1>12. CodeEntry(p) = Got(TRUE, (p + 1) + n, [offset |-> p + 1, size |-> n])
  BY <1>8, <1>11 DEF CodeEntry
<1>13. SubSeq(Stream, (p + 1) + 1, (p + 1) + n) = l
  <2>1. PICK s, q : s = Stream /\ s \in Seq(Nat) /\ q = p + 1 /\ q \in Nat
    BY DEF StreamTyped
  <2>2. q + n <= Len(s) /\ \A k \in 1 .. n : s[q + k] = l[k]
    BY <1>1, <1>9, <1>10, <2>1 DEF Stands, Size
  <2>3. SubSeq(s, q + 1, q + n) = l
    BY <1>1, <2>1, <2>2, SubSeqIs
  <2>4. QED
    BY <2>1, <2>3
<1>14. (p + 1) + n = p + Len(BytesItems(l))
  BY <1>7
<1>15. QED
  BY <1>1, <1>12, <1>13, <1>14

(* What the walk over the bodies has after each of them.                   *)
CodeIs(m, n, s) ==
  /\ Len(s) = n
  /\ \A k \in 1 .. n :
       SubSeq(Stream, s[k].offset + 1, s[k].offset + s[k].size) = m.functions[k][2]

(* The walk over the code section finds every body.                        *)
LEMMA CodeRead ==
  ASSUME NEW items, NEW m, NEW layout, Laid(items, m, layout), WholeKind(layout, "code"),
         NEW n \in Nat, n = Len(m.functions)
  PROVE  IF Has("code")
         THEN /\ Number(At("code")) = n /\ Entries("code").ok
              /\ CodeIs(m, n, Entries("code").val)
         ELSE m.functions = <<>>
<1>1. "code" \in SectionNames /\ Listed(m, "code") = m.functions
  BY DEF SectionNames, Listed
<1>2. IF Has("code") THEN \E places, end : WholeAt(items, m, "code", places, At("code"), end)
      ELSE m.functions = <<>>
  BY <1>1, KindExact DEF Laid, WholeKind
<1>3. CASE Has("code")
  <2>1. PICK start, places, end : start = At("code") /\ WholeAt(items, m, "code", places, start, end)
    BY <1>2, <1>3
  <2>2. PICK F : F = m.functions
    OBVIOUS
  <2>3. \A k \in 1 .. n : IsFunction(F[k])
    BY <1>1, <2>1, <2>2 DEF WholeAt, EntriesAt, IsEntry
  <2>4. \A f : EntryItems("code", f) = BytesItems(f[2])
    BY DEF EntryItems, CodeItems
  <2>5. Sized(m, "code", n)
    <3>1. ASSUME NEW k \in 1 .. n
          PROVE  Len(EntryItems("code", Listed(m, "code")[k])) \in Nat
      <4>1. BytesItems(F[k][2]) \in Seq(Nat)
        BY <2>3, NumberItems DEF IsFunction
      <4>2. QED
        BY <1>1, <2>2, <2>4, <4>1, LenProperties
    <3>2. QED
      BY <3>1 DEF Sized
  <2>6. items \in Seq(Nat) /\ StreamTyped /\ CutOf(items)
    BY DEF Laid, LaidOut
  <2>7. Number(start) = n /\ Next1(start) = places[1] /\ Standing(m, "code", n, places)
    BY <1>1, <2>1, <2>5, <2>6, EntriesStand
  <2>8. PICK V : V = [k \in 1 .. n |-> [offset |-> places[k] + 1, size |-> Len(F[k][2])]]
    OBVIOUS
  <2>9. ASSUME NEW k \in 1 .. n
        PROVE  /\ CodeEntry(places[k]) = Got(TRUE, places[k + 1], V[k])
               /\ SubSeq(Stream, V[k].offset + 1, V[k].offset + V[k].size) = F[k][2]
    <3>1. PICK p \in Nat : p = places[k]
      BY <2>7 DEF Standing
    <3>2. PICK l \in Seq(Nat) : l = F[k][2]
      BY <2>3 DEF IsFunction
    <3>3. Stands(p, BytesItems(l)) /\ places[k + 1] = p + Len(BytesItems(l))
      BY <1>1, <2>2, <2>4, <2>7, <3>1, <3>2 DEF Standing
    <3>4. CodeEntry(p) = Got(TRUE, p + Len(BytesItems(l)), [offset |-> p + 1, size |-> Len(l)])
      BY <2>6, <3>3, CodeEntryBack
    <3>5. SubSeq(Stream, (p + 1) + 1, (p + 1) + Len(l)) = l
      BY <2>6, <3>3, CodeEntryBack
    <3>6. V[k] = [offset |-> p + 1, size |-> Len(l)]
      BY <2>8, <3>1, <3>2
    <3>7. V[k].offset = p + 1 /\ V[k].size = Len(l)
      BY <3>6
    <3>8. QED
      BY <3>1, <3>2, <3>3, <3>4, <3>5, <3>6, <3>7
  <2>10. PICK sure : sure = TRUE
    OBVIOUS
  <2>11. Entered("code", sure, n, V, places)
    <3>1. places[1] = Next1(At("code"))
      BY <2>1, <2>7
    <3>2. \A p : Item("code", p) = CodeEntry(p)
      BY DEF Item
    <3>3. ASSUME NEW k \in 1 .. n
          PROVE  Answers(Item("code", places[k]), sure, places[k + 1], V[k])
      <4>1. Item("code", places[k]) = Got(TRUE, places[k + 1], V[k])
        BY <2>9, <3>2
      <4>2. QED
        BY <4>1 DEF Answers, Got
    <3>4. QED
      BY <3>1, <3>3 DEF Entered
  <2>12. n = Number(At("code"))
    BY <2>1, <2>7
  <2>13. Answers(Entries("code"), sure, places[n + 1], [k \in 1 .. n |-> V[k]])
    BY <2>11, <2>12, EntriesAnswer
  <2>14. Entries("code").ok /\ Entries("code") = Got(TRUE, places[n + 1], [k \in 1 .. n |-> V[k]])
    BY <2>10, <2>13 DEF Answers
  <2>15. [k \in 1 .. n |-> V[k]] = V
    BY <2>8
  <2>16. Entries("code").val = V
    BY <2>14, <2>15 DEF Got
  <2>17. CodeIs(m, n, V)
    <3>1. Len(V) = n
      BY <2>8
    <3>2. QED
      BY <2>2, <2>9, <3>1 DEF CodeIs
  <2>18. QED
    BY <1>3, <2>12, <2>14, <2>16, <2>17
<1>4. QED
  BY <1>2, <1>3
-----------------------------------------------------------------------------
(* The function table of a stream that is whole.                           *)
LEMMA JoinIs ==
  ASSUME NEW u, NEW v, NEW a \in Nat, NEW n \in Nat, u = [i \in 1 .. a |-> u[i]],
         v = [i \in 1 .. n |-> v[i]]
  PROVE  u \o v = [i \in 1 .. a + n |-> IF i <= a THEN u[i] ELSE v[i - a]]
<1>1. PICK S : S = {u[i] : i \in 1 .. a} \cup {v[i] : i \in 1 .. n}
  OBVIOUS
<1>2. u \in [1 .. a -> S] /\ v \in [1 .. n -> S]
  <2>1. [i \in 1 .. a |-> u[i]] \in [1 .. a -> S] /\ [i \in 1 .. n |-> v[i]] \in [1 .. n -> S]
    BY <1>1
  <2>2. QED
    BY <2>1
<1>3. u \in Seq(S) /\ v \in Seq(S)
  BY <1>2, FunctionIsSeq
<1>4. Len(u) = a /\ Len(v) = n
  BY <1>2, FunctionIsSeq
<1>5. PICK d : d = u \o v
  OBVIOUS
<1>6. d \in Seq(S) /\ Len(d) = a + n
  BY <1>3, <1>4, <1>5, ConcatProperties
<1>7. \A i \in 1 .. Len(u) + Len(v) : (u \o v)[i] = IF i <= Len(u) THEN u[i] ELSE v[i - Len(u)]
  BY ONLY <1>3, ConcatProperties, Zenon
<1>8. \A i \in 1 .. a + n : d[i] = IF i <= a THEN u[i] ELSE v[i - a]
  BY <1>4, <1>5, <1>7
<1>9. DOMAIN d = 1 .. a + n /\ d = [i \in 1 .. a + n |-> d[i]]
  BY <1>6, LenProperties
<1>10. [i \in 1 .. a + n |-> d[i]] = [i \in 1 .. a + n |-> IF i <= a THEN u[i] ELSE v[i - a]]
  BY <1>8
<1>11. QED
  BY <1>5, <1>9, <1>10

(* What a function table points at.                                        *)
Pointed(f) ==
  [type |-> f.type, imported |-> f.imported, name |-> f.name,
   body |-> SubSeq(Stream, f.offset + 1, f.offset + f.size)]
LoadedFrom(t) == [k \in DOMAIN t |-> Pointed(t[k])]

(* What it points at is what was declared.                                 *)
LEMMA TableExact ==
  ASSUME StreamTyped, NEW m, NEW c, NEW types, NEW bodies, NEW a \in Nat, a = Len(c),
         NEW n \in Nat, n = Len(types), n = Len(m.functions), n = Len(bodies),
         \A i \in 1 .. n : types[i] = m.functions[i][1], CodeIs(m, n, bodies),
         NEW t, t = WithBodies(c, types, bodies)
  PROVE  LoadedFrom(t) = ImportsStated(c) \o FunctionsStated(m.functions)
<1>1. DOMAIN t = 1 .. a + n
  BY DEF WithBodies
<1>2. PICK u, v : u = ImportsStated(c) /\ v = FunctionsStated(m.functions)
  OBVIOUS
<1>3. /\ u = [i \in 1 .. a |-> u[i]]
      /\ \A i \in 1 .. a : u[i] = [type |-> c[i].desc[1], imported |-> TRUE,
                                   name |-> c[i].name, body |-> <<>>]
  BY <1>2 DEF ImportsStated
<1>4. /\ v = [i \in 1 .. n |-> v[i]]
      /\ \A i \in 1 .. n : v[i] = [type |-> m.functions[i][1], imported |-> FALSE,
                                   name |-> <<>>, body |-> m.functions[i][2]]
  BY <1>2 DEF FunctionsStated
<1>5. u \o v = [i \in 1 .. a + n |-> IF i <= a THEN u[i] ELSE v[i - a]]
  BY <1>3, <1>4, JoinIs
<1>6. ASSUME NEW i \in 1 .. a + n
      PROVE  Pointed(t[i]) = IF i <= a THEN u[i] ELSE v[i - a]
  <2>1. CASE i <= a
    <3>1. i \in 1 .. a
      BY <2>1
    <3>2. t[i] = Function(c[i].desc[1], TRUE, c[i].name, 0, 0)
      BY <2>1 DEF WithBodies
    <3>3. SubSeq(Stream, 0 + 1, 0 + 0) = <<>>
      BY DEF StreamTyped
    <3>4. Pointed(t[i]) = [type |-> c[i].desc[1], imported |-> TRUE, name |-> c[i].name,
                           body |-> SubSeq(Stream, 0 + 1, 0 + 0)]
      BY <3>2 DEF Pointed, Function
    <3>5. QED
      BY <1>3, <2>1, <3>1, <3>3, <3>4
  <2>2. CASE ~ (i <= a)
    <3>1. PICK k \in 1 .. n : k = i - a
      <4>1. i - a \in 1 .. n
        BY <2>2
      <4>2. QED
        BY <4>1
    <3>2. k <= Len(bodies)
      OBVIOUS
    <3>3. t[i] = Function(types[k], FALSE, <<>>, bodies[k].offset, bodies[k].size)
      BY <2>2, <3>1, <3>2 DEF WithBodies
    <3>4. Pointed(t[i]) = [type |-> types[k], imported |-> FALSE, name |-> <<>>,
                           body |-> SubSeq(Stream, bodies[k].offset + 1,
                                           bodies[k].offset + bodies[k].size)]
      BY <3>3 DEF Pointed, Function
    <3>5. SubSeq(Stream, bodies[k].offset + 1, bodies[k].offset + bodies[k].size) = m.functions[k][2]
      BY DEF CodeIs
    <3>6. Pointed(t[i]) = v[k]
      BY <1>4, <3>4, <3>5
    <3>7. QED
      BY <2>2, <3>1, <3>6
  <2>3. QED
    BY <2>1, <2>2
<1>7. LoadedFrom(t) = [i \in 1 .. a + n |-> Pointed(t[i])]
  BY <1>1 DEF LoadedFrom
<1>8. [i \in 1 .. a + n |-> Pointed(t[i])] = [i \in 1 .. a + n |-> IF i <= a THEN u[i] ELSE v[i - a]]
  BY <1>6
<1>9. QED
  BY <1>2, <1>5, <1>7, <1>8
-----------------------------------------------------------------------------
(* What is declared are lists, and a global that is declared is there.     *)
LEMMA DescsAre ==
  ASSUME NEW list, IsList(list), NEW kind
  PROVE  IsList(Chosen(list, kind)) /\ IsList(Descs(Chosen(list, kind)))
         /\ IsList(Uninitialised(Descs(Chosen(list, kind))))
<1>1. PICK c : c = Chosen(list, kind)
  OBVIOUS
<1>2. PICK S : c \in Seq(S)
  <2>1. Len(list) \in Nat
    BY DEF IsList
  <2>2. c \in Seq({list[j] : j \in 1 .. Len(list)})
    BY <1>1, <2>1, ChosenIsSeq
  <2>3. QED
    BY <2>2
<1>3. PICK n \in Nat : n = Len(c)
  BY <1>2, LenProperties
<1>4. c = [k \in 1 .. n |-> c[k]]
  BY <1>2, <1>3, LenProperties
<1>5. ASSUME NEW s, s = [k \in 1 .. n |-> s[k]]
      PROVE  Len(s) = n
  <2>1. s \in [1 .. n -> {s[k] : k \in 1 .. n}]
    <3>1. [k \in 1 .. n |-> s[k]] \in [1 .. n -> {s[k] : k \in 1 .. n}]
      OBVIOUS
    <3>2. QED
      BY <1>5, <3>1
  <2>2. QED
    BY <2>1, FunctionIsSeq
<1>6. PICK d : d = Descs(c)
  OBVIOUS
<1>7. d = [k \in 1 .. n |-> d[k]]
  BY <1>3, <1>6 DEF Descs
<1>8. Len(d) = n
  BY <1>5, <1>7
<1>9. PICK u : u = Uninitialised(d)
  OBVIOUS
<1>10. u = [k \in 1 .. n |-> u[k]]
  BY <1>8, <1>9 DEF Uninitialised
<1>11. Len(u) = n
  BY <1>5, <1>10
<1>12. QED
  BY <1>1, <1>3, <1>4, <1>6, <1>7, <1>8, <1>9, <1>10, <1>11 DEF IsList

(* The items of a declared list are declared too.                          *)
LEMMA Declared ==
  ASSUME NEW items, NEW m, NEW layout, LaidOut(items, m, layout), NEW id \in SectionNames
  PROVE  /\ IsList(Listed(m, id))
         /\ \A k \in 1 .. Len(Listed(m, id)) : IsEntry(m, id, Listed(m, id)[k])
<1>1. PICK ids, n : ids = layout.ids /\ n = Len(layout.ids)
  OBVIOUS
<1>2. IsList(Listed(m, id)) /\ (Listed(m, id) # <<>> => \E k \in 1 .. n : ids[k] = id)
  BY <1>1, LayoutParts
<1>3. id # "custom"
  BY DEF SectionNames
<1>4. ASSUME NEW k \in 1 .. n, ids[k] = id
      PROVE  \A i \in 1 .. Len(Listed(m, id)) : IsEntry(m, id, Listed(m, id)[i])
  <2>1. \E places, start, end : EntriesAt(items, m, id, places, start, end)
    BY <1>1, <1>3, <1>4, LayoutParts
  <2>2. QED
    BY <2>1 DEF EntriesAt
<1>5. CASE Listed(m, id) = <<>>
  BY <1>2, <1>5
<1>6. QED
  BY <1>2, <1>4, <1>5

(* The globals that are read are those declared.                           *)
LEMMA GlobalsWritten ==
  ASSUME NEW items, NEW m, NEW layout, LaidOut(items, m, layout)
  PROVE  /\ Len(GlobalsStated(m)) \in Nat
         /\ \A k \in 1 .. Len(GlobalsStated(m)) : GlobalsStated(m)[k] # <<>>
<1>1. "import" \in SectionNames /\ "global" \in SectionNames
      /\ Listed(m, "import") = m.imports /\ Listed(m, "global") = m.globals
  BY DEF SectionNames, Listed
<1>2. IsList(m.imports) /\ IsList(m.globals)
  BY <1>1, Declared
<1>3. PICK d, u, v : /\ d = Descs(Chosen(m.imports, "global"))
                     /\ u = Uninitialised(d) /\ v = m.globals
  OBVIOUS
<1>4. IsList(d) /\ IsList(u) /\ IsList(v)
  BY <1>2, <1>3, DescsAre
<1>5. PICK a \in Nat, n \in Nat : /\ a = Len(u) /\ n = Len(v) /\ u = [i \in 1 .. a |-> u[i]]
                                  /\ v = [i \in 1 .. n |-> v[i]]
  BY <1>4 DEF IsList
<1>6. \A i \in 1 .. a : u[i] # <<>>
  <2>1. u = [i \in 1 .. Len(d) |-> <<d[i][1], d[i][2], <<>>>>]
    BY <1>3 DEF Uninitialised
  <2>2. DOMAIN u = 1 .. Len(d) /\ DOMAIN u = 1 .. a
    BY <1>5, <2>1
  <2>3. ASSUME NEW i \in 1 .. a
        PROVE  u[i] # <<>>
    <3>1. u[i] = <<d[i][1], d[i][2], <<>>>>
      BY <2>1, <2>2
    <3>2. Len(<<d[i][1], d[i][2], <<>>>>) = 3 /\ Len(<<>>) # 3
      OBVIOUS
    <3>3. QED
      BY ONLY <3>1, <3>2, Zenon
  <2>4. QED
    BY <2>3
<1>7. \A i \in 1 .. n : v[i] # <<>>
  <2>1. ASSUME NEW i \in 1 .. n
        PROVE  v[i] # <<>>
    <3>1. IsGlobal(v[i])
      BY <1>1, <1>3, <1>5, Declared DEF IsEntry
    <3>2. v[i] = <<v[i][1], v[i][2], <<v[i][3][1], v[i][3][2]>>>>
      BY <3>1 DEF IsGlobal
    <3>3. Len(<<v[i][1], v[i][2], <<v[i][3][1], v[i][3][2]>>>>) = 3
      OBVIOUS
    <3>4. Len(v[i]) = 3
      BY ONLY <3>2, <3>3, Zenon
    <3>5. Len(<<>>) # 3
      OBVIOUS
    <3>6. QED
      BY ONLY <3>4, <3>5, Zenon
  <2>2. QED
    BY <2>1
<1>8. PICK g : g = GlobalsStated(m) /\ g = u \o v
  BY <1>3 DEF GlobalsStated
<1>9. g = [i \in 1 .. a + n |-> IF i <= a THEN u[i] ELSE v[i - a]]
  BY <1>5, <1>8, JoinIs
<1>10. Len(g) = a + n
  <2>1. g \in [1 .. a + n -> {g[k] : k \in 1 .. a + n}]
    BY <1>9
  <2>2. QED
    BY <2>1, FunctionIsSeq
<1>11. ASSUME NEW i \in 1 .. a + n
       PROVE  g[i] # <<>>
  <2>1. g[i] = IF i <= a THEN u[i] ELSE v[i - a]
    BY <1>9
  <2>2. CASE i <= a
    <3>1. i \in 1 .. a
      BY <2>2
    <3>2. QED
      BY <1>6, <2>1, <2>2, <3>1
  <2>3. CASE ~ (i <= a)
    <3>1. i - a \in 1 .. n
      BY <2>3
    <3>2. QED
      BY <1>7, <2>1, <2>3, <3>1
  <2>4. QED
    BY <2>2, <2>3
<1>12. QED
  BY <1>8, <1>10, <1>11
-----------------------------------------------------------------------------
(* What a loader does to a stream that is whole.                           *)
AllWhole(layout) == \A id \in SectionNames : WholeKind(layout, id)

(* Every section of a whole stream is whole.                               *)
LEMMA WholeEverywhere ==
  ASSUME NEW items, NEW m, NEW layout, LaidOut(items, m, layout), Size = Len(items)
  PROVE  AllWhole(layout)
<1>1. PICK ids, starts, n : ids = layout.ids /\ starts = layout.starts /\ n = Len(layout.ids)
  OBVIOUS
<1>2. Ordered(ids, starts, n)
  BY <1>1, LayoutParts
<1>3. starts[n + 1] = Size
  BY <1>1, LayoutParts DEF Headed
<1>4. ASSUME NEW i \in 1 .. n
      PROVE  starts[i + 1] <= Size
  <2>1. n \in Nat
    BY <1>2 DEF Ordered
  <2>2. i + 1 \in 1 .. n + 1 /\ n + 1 \in 1 .. n + 1 /\ i + 1 <= n + 1
    BY <2>1
  <2>3. starts[i + 1] <= starts[n + 1]
    BY <1>2, <2>2, StartsAscend
  <2>4. QED
    BY <1>3, <2>3
<1>5. QED
  BY <1>1, <1>4 DEF AllWhole, WholeKind

(* A loader that has run has what was declared, or may refuse.             *)
Exactly(loader, m) ==
  \/ result'[loader] = "ok" /\ Loaded(loader)' = Stated(m)[loader]
  \/ /\ result'[loader] = "fail"
     /\ \/ loader \in {"types", "exports"} /\ Stated(m)[loader] = <<>>
        \/ loader = "elements" /\ result["globals"] # "ok"

(* A loader that touches nothing but its own list.                         *)
Alone(loader) ==
  \A l \in Loaders \ {loader} : result'[l] = result[l] /\ module'[l] = module[l]

(* What a loader that is done leaves.                                      *)
LEMMA DoneIs ==
  ASSUME TypeInv, NEW loader \in Loaders, NEW table, NEW ok, Done(loader, table, ok)
  PROVE  /\ module'[loader] = table /\ result'[loader] = IF ok THEN "ok" ELSE "fail"
         /\ Alone(loader)
<1>1. DOMAIN module = Loaders /\ Loaders \subseteq DOMAIN result
  BY DEF TypeInv, TypeOK
<1>2. module' = [module EXCEPT ![loader] = table]
      /\ result' = [result EXCEPT ![loader] = IF ok THEN "ok" ELSE "fail"]
  BY DEF Done
<1>3. module'[loader] = table /\ result'[loader] = IF ok THEN "ok" ELSE "fail"
  BY <1>1, <1>2
<1>4. Alone(loader)
  BY <1>1, <1>2 DEF Alone
<1>5. QED
  BY <1>3, <1>4

(* It is done with what was declared.                                      *)
LEMMA DoneExactly ==
  ASSUME TypeInv, NEW m, NEW loader \in Loaders \ {"functions"}, NEW table, NEW ok,
         Done(loader, table, ok), ok => table = Stated(m)[loader],
         ~ ok => \/ loader \in {"types", "exports"} /\ Stated(m)[loader] = <<>>
                 \/ loader = "elements" /\ result["globals"] # "ok"
  PROVE  Exactly(loader, m) /\ Alone(loader)
<1>1. module'[loader] = table /\ result'[loader] = IF ok THEN "ok" ELSE "fail"
  BY DoneIs
<1>2. Alone(loader)
  BY DoneIs
<1>3. Loaded(loader)' = module'[loader]
  BY DEF Loaded
<1>4. QED
  BY <1>1, <1>2, <1>3 DEF Exactly

(* A loader that goes through its entries.                                 *)
LEMMA WithExactly ==
  ASSUME TypeInv, NEW m, NEW loader \in Loaders \ {"functions"}, NEW imported, NEW id, NEW sure,
         NEW list, Fills(id, sure, list), Has(id), imported \o list = Stated(m)[loader],
         DoneWith(loader, imported, id, Entries(id)),
         ~ sure => loader = "elements" /\ result["globals"] # "ok"
  PROVE  Exactly(loader, m) /\ Alone(loader)
<1>1. PICK ok : ok = Entries(id).ok
  OBVIOUS
<1>2. PICK t : t = imported \o Filled(id)
  OBVIOUS
<1>3. Done(loader, t, ok)
  BY <1>1, <1>2 DEF DoneWith, Filled
<1>4. ok => t = Stated(m)[loader]
  BY <1>1, <1>2 DEF Fills
<1>5. ~ ok => loader = "elements" /\ result["globals"] # "ok"
  BY <1>1 DEF Fills
<1>6. QED
  BY <1>3, <1>4, <1>5, DoneExactly

(* A loader whose section has to be there.                                 *)
LEMMA RequiredExactly ==
  ASSUME TypeInv, NEW m, NEW loader \in {"types", "exports"}, NEW id, NEW list, IsList(list),
         Fills(id, TRUE, list), list = Stated(m)[loader], LoadRequired(loader, id)
  PROVE  Exactly(loader, m) /\ Alone(loader)
<1>1. loader \in Loaders \ {"functions"}
  BY DEF Loaders
<1>2. CASE Has(id)
  <2>1. PICK none : none = <<>> /\ none \o list = Stated(m)[loader]
    BY ListIsSeq
  <2>2. DoneWith(loader, none, id, Entries(id))
    BY <1>2, <2>1 DEF LoadRequired
  <2>3. PICK sure : sure = TRUE /\ Fills(id, sure, list)
    OBVIOUS
  <2>4. QED
    BY <1>1, <1>2, <2>1, <2>2, <2>3, WithExactly
<1>3. CASE ~ Has(id)
  <2>1. list = <<>>
    BY <1>3 DEF Fills
  <2>2. PICK ok : ok = FALSE
    OBVIOUS
  <2>3. Done(loader, module[loader], ok)
    BY <1>3, <2>2 DEF LoadRequired, Failed
  <2>4. PICK t : t = module[loader] /\ Done(loader, t, ok)
    BY <2>3
  <2>5. QED
    BY <1>1, <2>1, <2>2, <2>4, DoneExactly
<1>4. QED
  BY <1>2, <1>3

(* A loader whose section may be missing.                                  *)
LEMMA OptionalExactly ==
  ASSUME TypeInv, NEW m, NEW loader \in {"elements", "data"}, NEW id, NEW sure, NEW list,
         IsList(list), Fills(id, sure, list), list = Stated(m)[loader],
         LoadOptional(loader, id), ~ sure => loader = "elements" /\ result["globals"] # "ok"
  PROVE  Exactly(loader, m) /\ Alone(loader)
<1>1. loader \in Loaders \ {"functions"}
  BY DEF Loaders
<1>2. PICK none : none = <<>> /\ none \o list = Stated(m)[loader]
  BY ListIsSeq
<1>3. CASE Has(id)
  <2>1. DoneWith(loader, none, id, Entries(id))
    BY <1>2, <1>3 DEF LoadOptional
  <2>2. QED
    BY <1>1, <1>2, <1>3, <2>1, WithExactly
<1>4. CASE ~ Has(id)
  <2>1. none = Stated(m)[loader]
    BY <1>2, <1>4 DEF Fills
  <2>2. PICK ok : ok = TRUE
    OBVIOUS
  <2>3. Done(loader, none, ok)
    BY <1>2, <1>4, <2>2 DEF LoadOptional
  <2>4. QED
    BY <1>1, <2>1, <2>2, <2>3, DoneExactly
<1>5. QED
  BY <1>3, <1>4

(* A loader that reads the imports first.                                  *)
LEMMA BothExactly ==
  ASSUME TypeInv, NEW m, NEW loader \in {"tables", "memories", "globals"}, NEW id, NEW list,
         Fills(id, TRUE, list), NEW imported, IsList(imported), NEW w, w.ok,
         imported \o list = Stated(m)[loader], LoadBoth(loader, id, w, imported)
  PROVE  Exactly(loader, m) /\ Alone(loader)
<1>1. loader \in Loaders \ {"functions"}
  BY DEF Loaders
<1>2. CASE Has(id)
  <2>1. DoneWith(loader, imported, id, Entries(id))
    BY <1>2 DEF LoadBoth
  <2>2. PICK sure : sure = TRUE /\ Fills(id, sure, list)
    OBVIOUS
  <2>3. QED
    BY <1>1, <1>2, <2>1, <2>2, WithExactly
<1>3. CASE ~ Has(id)
  <2>1. imported = Stated(m)[loader]
    <3>1. imported \o <<>> = imported
      BY ListIsSeq
    <3>2. QED
      BY <1>3, <3>1 DEF Fills
  <2>2. PICK ok : ok = TRUE
    OBVIOUS
  <2>3. Done(loader, imported, ok)
    BY <1>3, <2>2 DEF LoadBoth
  <2>4. QED
    BY <1>1, <2>1, <2>2, <2>3, DoneExactly
<1>4. QED
  BY <1>2, <1>3
-----------------------------------------------------------------------------
(* Each loader of a stream that is whole.                                  *)
ReadWhole(items, m, layout) == Laid(items, m, layout) /\ AllWhole(layout)

(* Each entry is read back, so the list is what was declared.              *)
LEMMA WholeFills ==
  ASSUME NEW items, NEW m, NEW layout, ReadWhole(items, m, layout), NEW id \in SectionNames,
         NEW sure, NEW list, list = Listed(m, id), \A e : ReadBack(m, id, sure, e, e)
  PROVE  IsList(list) /\ Fills(id, sure, list)
<1>1. Laid(items, m, layout) /\ WholeKind(layout, id)
  BY DEF ReadWhole, AllWhole
<1>2. QED
  BY <1>1, KindFills

(* Types.                                                                  *)
LEMMA TypesExactly ==
  ASSUME NEW items, NEW m, NEW layout, TypeInv, ReadWhole(items, m, layout), LoadTypes
  PROVE  Exactly("types", m) /\ Alone("types")
<1>1. StreamTyped
  BY DEF TypeInv
<1>2. PICK sure, loader, id, list : /\ sure = TRUE /\ loader = "types" /\ id = "type"
                                    /\ list = m.types
  OBVIOUS
<1>3. id \in SectionNames /\ list = Listed(m, id)
  BY <1>2 DEF SectionNames, Listed
<1>4. \A e : ReadBack(m, id, sure, e, e)
  BY <1>1, <1>2, TypeBack
<1>5. IsList(list) /\ Fills(id, sure, list)
  BY <1>3, <1>4, WholeFills
<1>6. loader \in {"types", "exports"} /\ LoadRequired(loader, id) /\ list = Stated(m)[loader]
  BY <1>2 DEF LoadTypes, Stated
<1>7. Fills(id, TRUE, list)
  BY <1>2, <1>5
<1>8. Exactly(loader, m) /\ Alone(loader)
  BY <1>5, <1>6, <1>7, RequiredExactly
<1>9. QED
  BY <1>2, <1>8

(* Exports.                                                                *)
LEMMA ExportsExactly ==
  ASSUME NEW items, NEW m, NEW layout, TypeInv, ReadWhole(items, m, layout), LoadExports
  PROVE  Exactly("exports", m) /\ Alone("exports")
<1>1. StreamTyped
  BY DEF TypeInv
<1>2. PICK sure, loader, id, list : /\ sure = TRUE /\ loader = "exports" /\ id = "export"
                                    /\ list = m.exports
  OBVIOUS
<1>3. id \in SectionNames /\ list = Listed(m, id)
  BY <1>2 DEF SectionNames, Listed
<1>4. \A e : ReadBack(m, id, sure, e, e)
  BY <1>1, <1>2, ExportBack
<1>5. IsList(list) /\ Fills(id, sure, list)
  BY <1>3, <1>4, WholeFills
<1>6. loader \in {"types", "exports"} /\ LoadRequired(loader, id) /\ list = Stated(m)[loader]
  BY <1>2 DEF LoadExports, Stated
<1>7. Fills(id, TRUE, list)
  BY <1>2, <1>5
<1>8. Exactly(loader, m) /\ Alone(loader)
  BY <1>5, <1>6, <1>7, RequiredExactly
<1>9. QED
  BY <1>2, <1>8

(* Data segments.                                                          *)
LEMMA DataExactly ==
  ASSUME NEW items, NEW m, NEW layout, TypeInv, ReadWhole(items, m, layout), LoadData
  PROVE  Exactly("data", m) /\ Alone("data")
<1>1. StreamTyped
  BY DEF TypeInv
<1>2. PICK sure, loader, id, list : /\ sure = TRUE /\ loader = "data" /\ id = "data"
                                    /\ list = m.data
  OBVIOUS
<1>3. id \in SectionNames /\ list = Listed(m, id)
  BY <1>2 DEF SectionNames, Listed
<1>4. \A e : ReadBack(m, id, sure, e, e)
  BY <1>1, <1>2, DataBack
<1>5. IsList(list) /\ Fills(id, sure, list)
  BY <1>3, <1>4, WholeFills
<1>6. loader \in {"elements", "data"} /\ LoadOptional(loader, id) /\ list = Stated(m)[loader]
  BY <1>2 DEF LoadData, Stated
<1>7. ~ sure => loader = "elements" /\ result["globals"] # "ok"
  BY <1>2
<1>8. Exactly(loader, m) /\ Alone(loader)
  BY <1>5, <1>6, <1>7, OptionalExactly
<1>9. QED
  BY <1>2, <1>8

(* The globals are what was declared once they have been loaded.           *)
GlobalsKept(m) == result["globals"] = "ok" => module["globals"] = GlobalsStated(m)

(* Element segments, once the globals are loaded.                          *)
LEMMA ElementsExactly ==
  ASSUME NEW items, NEW m, NEW layout, TypeInv, ReadWhole(items, m, layout), GlobalsKept(m),
         LoadElements
  PROVE  Exactly("elements", m) /\ Alone("elements")
<1>1. StreamTyped /\ LaidOut(items, m, layout)
  BY DEF TypeInv, ReadWhole, Laid
<1>2. PICK sure, loader, id, list : /\ sure = (result["globals"] = "ok") /\ loader = "elements"
                                    /\ id = "element" /\ list = m.elements
  OBVIOUS
<1>3. id \in SectionNames /\ list = Listed(m, id)
  BY <1>2 DEF SectionNames, Listed
<1>4. sure => GlobalsKnown(m)
  <2>1. /\ Len(GlobalsStated(m)) \in Nat
        /\ \A k \in 1 .. Len(GlobalsStated(m)) : GlobalsStated(m)[k] # <<>>
    BY <1>1, GlobalsWritten
  <2>2. sure => module["globals"] = GlobalsStated(m)
    BY <1>2 DEF GlobalsKept
  <2>3. QED
    BY <2>1, <2>2 DEF GlobalsKnown
<1>5. \A e : ReadBack(m, id, sure, e, e)
  BY <1>1, <1>2, <1>4, SegmentBack
<1>6. IsList(list) /\ Fills(id, sure, list)
  BY <1>3, <1>5, WholeFills
<1>7. loader \in {"elements", "data"} /\ LoadOptional(loader, id) /\ list = Stated(m)[loader]
  BY <1>2 DEF LoadElements, Stated
<1>8. ~ sure => loader = "elements" /\ result["globals"] # "ok"
  BY <1>2
<1>9. Exactly(loader, m) /\ Alone(loader)
  BY <1>6, <1>7, <1>8, OptionalExactly
<1>10. QED
  BY <1>2, <1>9

(* Imports come before what the section defines.                           *)
LEMMA ImportsWhole ==
  ASSUME NEW items, NEW m, NEW layout, ReadWhole(items, m, layout), NEW loader \in Walkers
  PROVE  IsList(m.imports) /\ Walk(loader).ok /\ Walk(loader).val = m.imports
<1>1. Laid(items, m, layout) /\ WholeKind(layout, "import")
  BY DEF ReadWhole, AllWhole, SectionNames
<1>2. QED
  BY <1>1, ImportsRead

(* Tables.                                                                 *)
LEMMA TablesExactly ==
  ASSUME NEW items, NEW m, NEW layout, TypeInv, ReadWhole(items, m, layout), LoadTables
  PROVE  Exactly("tables", m) /\ Alone("tables")
<1>1. StreamTyped
  BY DEF TypeInv
<1>2. PICK sure, loader, id, list, w :
        /\ sure = TRUE /\ loader = "tables" /\ id = "table" /\ list = m.tables
        /\ w = Walk("tables")
  OBVIOUS
<1>3. id \in SectionNames /\ list = Listed(m, id) /\ loader \in Walkers
  BY <1>2 DEF SectionNames, Listed, Walkers
<1>4. \A e : ReadBack(m, id, sure, e, e)
  BY <1>1, <1>2, TableBack
<1>5. Fills(id, TRUE, list)
  BY <1>2, <1>3, <1>4, WholeFills
<1>6. IsList(m.imports) /\ w.ok /\ w.val = m.imports
  BY <1>2, <1>3, ImportsWhole
<1>7. PICK imported : imported = Descs(Chosen(m.imports, "table")) /\ IsList(imported)
  BY <1>6, DescsAre
<1>8. loader \in {"tables", "memories", "globals"} /\ LoadBoth(loader, id, w, imported)
      /\ imported \o list = Stated(m)[loader]
  BY <1>2, <1>6, <1>7 DEF LoadTables, ImportedTables, Stated
<1>9. Exactly(loader, m) /\ Alone(loader)
  BY <1>5, <1>6, <1>7, <1>8, BothExactly
<1>10. QED
  BY <1>2, <1>9

(* Memories.                                                               *)
LEMMA MemoriesExactly ==
  ASSUME NEW items, NEW m, NEW layout, TypeInv, ReadWhole(items, m, layout), LoadMemories
  PROVE  Exactly("memories", m) /\ Alone("memories")
<1>1. StreamTyped
  BY DEF TypeInv
<1>2. PICK sure, loader, id, list, w :
        /\ sure = TRUE /\ loader = "memories" /\ id = "memory" /\ list = m.memories
        /\ w = Walk("memories")
  OBVIOUS
<1>3. id \in SectionNames /\ list = Listed(m, id) /\ loader \in Walkers
  BY <1>2 DEF SectionNames, Listed, Walkers
<1>4. \A e : ReadBack(m, id, sure, e, e)
  BY <1>1, <1>2, MemoryBack
<1>5. Fills(id, TRUE, list)
  BY <1>2, <1>3, <1>4, WholeFills
<1>6. IsList(m.imports) /\ w.ok /\ w.val = m.imports
  BY <1>2, <1>3, ImportsWhole
<1>7. PICK imported : imported = Descs(Chosen(m.imports, "memory")) /\ IsList(imported)
  BY <1>6, DescsAre
<1>8. loader \in {"tables", "memories", "globals"} /\ LoadBoth(loader, id, w, imported)
      /\ imported \o list = Stated(m)[loader]
  BY <1>2, <1>6, <1>7 DEF LoadMemories, ImportedMemories, Stated
<1>9. Exactly(loader, m) /\ Alone(loader)
  BY <1>5, <1>6, <1>7, <1>8, BothExactly
<1>10. QED
  BY <1>2, <1>9

(* Globals.                                                                *)
LEMMA GlobalsExactly ==
  ASSUME NEW items, NEW m, NEW layout, TypeInv, ReadWhole(items, m, layout), LoadGlobals
  PROVE  Exactly("globals", m) /\ Alone("globals")
<1>1. StreamTyped
  BY DEF TypeInv
<1>2. PICK sure, loader, id, list, w :
        /\ sure = TRUE /\ loader = "globals" /\ id = "global" /\ list = m.globals
        /\ w = Walk("globals")
  OBVIOUS
<1>3. id \in SectionNames /\ list = Listed(m, id) /\ loader \in Walkers
  BY <1>2 DEF SectionNames, Listed, Walkers
<1>4. \A e : ReadBack(m, id, sure, e, e)
  BY <1>1, <1>2, GlobalBack
<1>5. Fills(id, TRUE, list)
  BY <1>2, <1>3, <1>4, WholeFills
<1>6. IsList(m.imports) /\ w.ok /\ w.val = m.imports
  BY <1>2, <1>3, ImportsWhole
<1>7. PICK imported : /\ imported = Uninitialised(Descs(Chosen(m.imports, "global")))
                      /\ IsList(imported)
  BY <1>6, DescsAre
<1>8. loader \in {"tables", "memories", "globals"} /\ LoadBoth(loader, id, w, imported)
      /\ imported \o list = Stated(m)[loader]
  BY <1>2, <1>6, <1>7 DEF LoadGlobals, ImportedGlobals, Stated, GlobalsStated
<1>9. Exactly(loader, m) /\ Alone(loader)
  BY <1>5, <1>6, <1>7, <1>8, BothExactly
<1>10. QED
  BY <1>2, <1>9

(* Functions: the imports, the types and the bodies.                       *)
LEMMA FunctionsExactly ==
  ASSUME NEW items, NEW m, NEW layout, TypeInv, ReadWhole(items, m, layout), LoadFunctions
  PROVE  Exactly("functions", m) /\ Alone("functions")
<1>1. StreamTyped /\ LaidOut(items, m, layout) /\ Laid(items, m, layout)
  BY DEF TypeInv, ReadWhole, Laid
<1>2. "functions" \in Walkers /\ "functions" \in Loaders
  BY DEF Walkers, Loaders
<1>3. PICK w : w = Walk("functions") /\ w.ok /\ w.val = m.imports /\ IsList(m.imports)
  BY <1>2, ImportsWhole
<1>4. PICK c : c = Chosen(m.imports, "function") /\ IsList(c)
  BY <1>3, DescsAre
<1>5. PICK a \in Nat : a = Len(c)
  BY <1>4 DEF IsList
<1>6. PICK n : n = Len(m.functions)
  OBVIOUS
<1>7. WholeKind(layout, "function") /\ WholeKind(layout, "code")
  BY DEF ReadWhole, AllWhole, SectionNames
<1>8. n \in Nat
  BY <1>1, <1>6, <1>7, FunctionsRead
<1>9. /\ n \in Nat
      /\ IF Has("function")
         THEN \E q : Entries("function") = Got(TRUE, q, [i \in 1 .. n |-> m.functions[i][1]])
         ELSE m.functions = <<>>
  <2>1. Laid(items, m, layout)
    BY <1>1
  <2>2. WholeKind(layout, "function")
    BY <1>7
  <2>3. QED
    BY <1>6, <2>1, <2>2, FunctionsRead
<1>10. IF Has("code")
       THEN /\ Number(At("code")) = n /\ Entries("code").ok /\ CodeIs(m, n, Entries("code").val)
       ELSE m.functions = <<>>
  BY <1>1, <1>6, <1>7, <1>8, CodeRead
<1>11. PICK types, code :
         /\ types = (IF Has("function") THEN Entries("function").val ELSE <<>>)
         /\ code = (IF Has("function") /\ Has("code") THEN Entries("code") ELSE Got(TRUE, 0, <<>>))
  OBVIOUS
<1>12. n = Len(types) /\ \A i \in 1 .. n : types[i] = m.functions[i][1]
  <2>1. CASE Has("function")
    <3>1. types = [i \in 1 .. n |-> m.functions[i][1]]
      BY <1>9, <1>11, <2>1 DEF Got
    <3>2. types \in [1 .. n -> {types[k] : k \in 1 .. n}]
      BY <3>1
    <3>3. Len(types) = n
      BY <1>8, <3>2, FunctionIsSeq
    <3>4. QED
      BY <3>1, <3>3
  <2>2. CASE ~ Has("function")
    <3>1. m.functions = <<>> /\ types = <<>> /\ n = 0
      BY <1>6, <1>9, <1>11, <2>2
    <3>2. QED
      BY <3>1
  <2>3. QED
    BY <2>1, <2>2
<1>13. code.ok /\ n = Len(code.val) /\ CodeIs(m, n, code.val)
  <2>1. CASE Has("function") /\ Has("code")
    <3>1. code = Entries("code")
      BY <1>11, <2>1
    <3>2. QED
      BY <1>10, <2>1, <3>1 DEF CodeIs
  <2>2. CASE ~ (Has("function") /\ Has("code"))
    <3>1. m.functions = <<>> /\ n = 0
      <4>1. m.functions = <<>>
        BY <1>9, <1>10, <2>2
      <4>2. QED
        BY <1>6, <4>1
    <3>2. code.ok = TRUE /\ code.val = <<>>
      BY <1>11, <2>2 DEF Got
    <3>3. QED
      BY <3>1, <3>2 DEF CodeIs
  <2>3. QED
    BY <2>1, <2>2
<1>14. PICK bodies, t, ok : /\ bodies = code.val /\ t = WithBodies(c, types, bodies)
                            /\ ok = code.ok /\ ok
  BY <1>13
<1>15. Done("functions", t, ok)
  <2>1. FunctionsOf(c, types, code)
    BY <1>3, <1>4, <1>11 DEF LoadFunctions, ImportedFunctions
  <2>2. Has("function") /\ Has("code") => Number(At("code")) = Len(types)
    BY <1>10, <1>12
  <2>3. QED
    BY <1>14, <2>1, <2>2 DEF FunctionsOf
<1>16. /\ module'["functions"] = t /\ result'["functions"] = (IF ok THEN "ok" ELSE "fail")
  BY <1>2, <1>15, DoneIs
<1>17. Alone("functions")
  BY <1>2, <1>15, DoneIs
<1>18. LoadedFrom(t) = Stated(m).functions
  <2>1. n = Len(bodies) /\ CodeIs(m, n, bodies)
    BY <1>13, <1>14
  <2>2. LoadedFrom(t) = ImportsStated(c) \o FunctionsStated(m.functions)
    BY <1>1, <1>5, <1>6, <1>8, <1>12, <1>14, <2>1, TableExact
  <2>3. QED
    BY <1>4, <2>2 DEF Stated
<1>19. Loaded("functions")' = LoadedFrom(t)
  <2>1. input' = input
    BY <1>15 DEF Done
  <2>2. Loaded("functions")' =
          [k \in DOMAIN module'["functions"] |->
             LET f == module'["functions"][k]
             IN  [type |-> f.type, imported |-> f.imported, name |-> f.name,
                  body |-> SubSeq(Stream', f.offset + 1, f.offset + f.size)]]
    BY DEF Loaded
  <2>3. Stream' = Stream
    BY <2>1 DEF Stream
  <2>4. QED
    BY <1>16, <2>2, <2>3 DEF LoadedFrom, Pointed
<1>20. QED
  BY <1>14, <1>16, <1>17, <1>18, <1>19 DEF Exactly

(* One step of a stream that is whole.                                     *)
LEMMA GlobalsStay ==
  ASSUME NEW m, NEW loader \in Loaders \ {"globals"}, Alone(loader), GlobalsKept(m)
  PROVE  GlobalsKept(m)'
<1>1. "globals" \in Loaders \ {loader}
  BY DEF Loaders
<1>2. result'["globals"] = result["globals"] /\ module'["globals"] = module["globals"]
  BY <1>1 DEF Alone
<1>3. QED
  BY <1>2 DEF GlobalsKept

(* The action of a loader.                                                 *)
Load(loader) ==
  CASE loader = "types" -> LoadTypes [] loader = "functions" -> LoadFunctions
    [] loader = "exports" -> LoadExports [] loader = "tables" -> LoadTables
    [] loader = "memories" -> LoadMemories [] loader = "globals" -> LoadGlobals
    [] loader = "elements" -> LoadElements [] loader = "data" -> LoadData

(* Each loader does what it says.                                          *)
LEMMA LoadExactly ==
  ASSUME NEW items, NEW m, NEW layout, TypeInv, Kept(items, m, layout), AllWhole(layout),
         GlobalsKept(m), Scanned, NEW loader \in Loaders, Load(loader)
  PROVE  Exactly(loader, m) /\ Alone(loader) /\ GlobalsKept(m)'
<1>1. ReadWhole(items, m, layout)
  BY DEF ReadWhole, Laid, Kept, TypeInv
<1>2. Exactly(loader, m) /\ Alone(loader)
  <2>1. CASE loader = "types"
    BY <1>1, <2>1, TypesExactly DEF Load
  <2>2. CASE loader = "functions"
    BY <1>1, <2>2, FunctionsExactly DEF Load
  <2>3. CASE loader = "exports"
    BY <1>1, <2>3, ExportsExactly DEF Load
  <2>4. CASE loader = "tables"
    BY <1>1, <2>4, TablesExactly DEF Load
  <2>5. CASE loader = "memories"
    BY <1>1, <2>5, MemoriesExactly DEF Load
  <2>6. CASE loader = "globals"
    BY <1>1, <2>6, GlobalsExactly DEF Load
  <2>7. CASE loader = "elements"
    BY <1>1, <2>7, ElementsExactly DEF Load
  <2>8. CASE loader = "data"
    BY <1>1, <2>8, DataExactly DEF Load
  <2>9. QED
    BY <2>1, <2>2, <2>3, <2>4, <2>5, <2>6, <2>7, <2>8 DEF Loaders
<1>3. GlobalsKept(m)'
  <2>1. CASE loader # "globals"
    BY <1>2, <2>1, GlobalsStay
  <2>2. CASE loader = "globals"
    <3>1. result'["globals"] = "ok" => Loaded("globals")' = Stated(m).globals
      BY <1>2, <2>2 DEF Exactly
    <3>2. Loaded("globals")' = module'["globals"] /\ Stated(m).globals = GlobalsStated(m)
      BY DEF Loaded, Stated
    <3>3. QED
      BY <3>1, <3>2 DEF GlobalsKept
  <2>3. QED
    BY <2>1, <2>2
<1>4. QED
  BY <1>2, <1>3

(* A step leaves every loader exact.                                       *)
LEMMA StepExactly ==
  ASSUME NEW items, NEW m, NEW layout, TypeInv, Kept(items, m, layout), AllWhole(layout),
         GlobalsKept(m), [Next]_vars
  PROVE  /\ \A l \in Loaders : result'[l] # result[l] => Exactly(l, m)
         /\ GlobalsKept(m)'
<1>1. CASE \E loader \in Loaders : Scanned /\ Load(loader)
  <2>1. PICK loader \in Loaders : Scanned /\ Load(loader)
    BY <1>1
  <2>2. Exactly(loader, m) /\ Alone(loader)
    BY <2>1, LoadExactly
  <2>3. GlobalsKept(m)'
    BY <2>1, LoadExactly
  <2>4. QED
    BY <2>2, <2>3 DEF Alone
<1>2. CASE UNCHANGED module /\ \A l \in Loaders : result'[l] = result[l]
  <2>1. "globals" \in Loaders
    BY DEF Loaders
  <2>2. QED
    BY <1>2, <2>1 DEF GlobalsKept
<1>3. ASSUME NEW x \in {"header", "sections"}, NEW v, result' = [result EXCEPT ![x] = v]
      PROVE  \A l \in Loaders : result'[l] = result[l]
  <2>1. \A l \in Loaders : l # x /\ l \in DOMAIN result
    BY <1>3 DEF Loaders, TypeInv, TypeOK
  <2>2. QED
    BY <1>3, <2>1
<1>4. CASE LoadHeader
  BY <1>2, <1>3, <1>4 DEF LoadHeader
<1>5. CASE ScanSections
  BY <1>2, <1>3, <1>5 DEF ScanSections
<1>6. CASE \E i \in 1 .. Len(module["functions"]) : LoadBody(i)
  BY <1>2, <1>6 DEF LoadBody
<1>7. CASE UNCHANGED vars
  BY <1>2, <1>7 DEF vars
<1>8. CASE \/ LoadTypes \/ LoadFunctions \/ LoadExports \/ LoadTables \/ LoadMemories
           \/ LoadGlobals \/ LoadElements \/ LoadData
  <2>1. Scanned
    BY <1>8 DEF LoadTypes, LoadFunctions, LoadExports, LoadTables, LoadMemories, LoadGlobals,
                LoadElements, LoadData, LoadRequired, LoadBoth, LoadOptional
  <2>2. /\ LoadTypes => Load("types")
        /\ LoadFunctions => Load("functions")
        /\ LoadExports => Load("exports")
        /\ LoadTables => Load("tables")
        /\ LoadMemories => Load("memories")
        /\ LoadGlobals => Load("globals")
        /\ LoadElements => Load("elements")
        /\ LoadData => Load("data")
    BY DEF Load
  <2>3. \E loader \in Loaders : Load(loader)
    BY <1>8, <2>2 DEF Loaders
  <2>4. QED
    BY <1>1, <2>1, <2>3
<1>9. QED
  BY <1>4, <1>5, <1>6, <1>7, <1>8 DEF Next

(* The inductive invariant.                                                *)
WholeInv ==
  /\ RunInv
  /\ \A f : f = Files[input.name] /\ f.whole => GlobalsKept(f.written)

(* What is known of a stream that is whole.                                *)
LEMMA WholeKnown ==
  ASSUME WholeInv, NEW f, f = Files[input.name], f.whole
  PROVE  /\ f.declared = Stated(f.written) /\ TypeInv /\ GlobalsKept(f.written)
         /\ Kept(f.items, f.written, f.layout) /\ AllWhole(f.layout)
<1>1. input.name \in DOMAIN Files /\ Stream = f.stream
  BY DEF WholeInv, RunInv, Opened
<1>2. f.formed /\ Len(f.stream) = Len(f.items)
  BY <1>1, WholeAssumption
<1>3. LaidOut(f.items, f.written, f.layout) /\ f.declared = Stated(f.written)
  BY <1>1, <1>2, FormedAssumption
<1>4. TypeInv /\ Kept(f.items, f.written, f.layout) /\ GlobalsKept(f.written)
  BY <1>2 DEF WholeInv, RunInv
<1>5. Size = Len(f.items)
  BY <1>1, <1>2 DEF Size
<1>6. AllWhole(f.layout)
  <2>1. PICK items, m, layout : items = f.items /\ m = f.written /\ layout = f.layout
    OBVIOUS
  <2>2. AllWhole(layout)
    BY <1>3, <1>5, <2>1, WholeEverywhere
  <2>3. QED
    BY <2>1, <2>2
<1>7. QED
  BY <1>3, <1>4, <1>6

(* It is kept, and what has been loaded is exact.                          *)
LEMMA WholeStep ==
  ASSUME WholeInv, [Next]_vars, NEW f, f = Files[input.name], f.whole
  PROVE  /\ \A l \in Loaders : result'[l] # result[l] => Exactly(l, f.written)
         /\ GlobalsKept(f.written)'
<1>1. PICK items, m, layout : items = f.items /\ m = f.written /\ layout = f.layout
  OBVIOUS
<1>2. TypeInv /\ Kept(items, m, layout) /\ AllWhole(layout) /\ GlobalsKept(m)
  BY <1>1, WholeKnown
<1>3. \A l \in Loaders : result'[l] # result[l] => Exactly(l, m)
  BY <1>2, StepExactly
<1>4. GlobalsKept(m)'
  BY <1>2, StepExactly
<1>5. QED
  BY <1>1, <1>3, <1>4

(* A stream that is whole is read as it was written, in whatever order the *)
(* loaders are called: what each leaves is what the module declares, and   *)
(* nothing is refused but what MayRefuse says.                             *)
THEOREM LoadersCorrect == Spec => LoadersExact
<1>1. Init => WholeInv
  <2>1. ASSUME Init
        PROVE  RunInv /\ result["globals"] = "none"
    BY <2>1, RunBeginning DEF Init, Loaders
  <2>2. QED
    BY <2>1 DEF WholeInv, GlobalsKept
<1>2. WholeInv /\ [Next]_vars => WholeInv'
  <2>1. SUFFICES ASSUME WholeInv, [Next]_vars
                 PROVE  WholeInv'
    OBVIOUS
  <2>2. input' = input
    BY <2>1 DEF Next, vars, LoadHeader, ScanSections, LoadTypes, LoadFunctions, LoadExports,
         LoadTables, LoadMemories, LoadGlobals, LoadElements, LoadData, LoadBody,
         LoadRequired, LoadOptional, LoadBoth, DoneWith, FunctionsOf, Failed, Done
  <2>3. RunInv'
    BY <2>1, RunStep DEF WholeInv
  <2>4. ASSUME NEW f, f = Files[input.name], f.whole
        PROVE  GlobalsKept(f.written)'
    BY <2>1, <2>4, WholeStep
  <2>5. QED
    BY <2>2, <2>3, <2>4 DEF WholeInv
<1>3. WholeInv /\ [Next]_vars =>
        (Files[input.name].whole =>
           \A l \in Loaders : result'[l] # result[l] =>
             \/ result'[l] = "ok" /\ Loaded(l)' = Files[input.name].declared[l]
             \/ result'[l] = "fail" /\ MayRefuse(l))
  <2>1. SUFFICES ASSUME WholeInv, [Next]_vars, NEW f, f = Files[input.name], f.whole,
                        NEW l \in Loaders, result'[l] # result[l]
                 PROVE  \/ result'[l] = "ok" /\ Loaded(l)' = f.declared[l]
                        \/ result'[l] = "fail" /\ MayRefuse(l)
    OBVIOUS
  <2>2. Exactly(l, f.written)
    BY <2>1, WholeStep
  <2>3. f.declared = Stated(f.written)
    BY <2>1, WholeKnown
  <2>4. QED
    BY <2>1, <2>2, <2>3 DEF Exactly, MayRefuse
<1>4. QED
  BY <1>1, <1>2, <1>3, PTL DEF Spec, LoadersExact
=============================================================================
