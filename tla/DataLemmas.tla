------------------------------ MODULE DataLemmas -----------------------------
(* What the proofs about the components say again and again of sequences  *)
(* and of numbers.                                                         *)
EXTENDS SequenceTheorems, WellFoundedInduction, TLAPS

(* A function on 1 .. n is a sequence of n elements.                       *)
LEMMA FunctionIsSeq ==
  ASSUME NEW S, NEW n \in Nat, NEW f \in [1 .. n -> S]
  PROVE  f \in Seq(S) /\ Len(f) = n /\ DOMAIN f = 1 .. n
<1>1. f \in Seq(S)
  BY SeqDef
<1>2. QED
  BY <1>1, LenProperties

(* A set of numbers has a least one.                                       *)
LEMMA Least ==
  ASSUME NEW T, T \subseteq Nat, T # {}
  PROVE  \E x \in T : \A y \in T : x <= y
<1>1. PICK x \in T : \A y \in T : ~ (<<y, x>> \in OpToRel(<, Nat))
  BY NatLessThanWellFounded, WFMin
<1>2. ASSUME NEW y \in T, y < x
      PROVE  FALSE
  <2>1. <<y, x>> \in OpToRel(<, Nat)
    BY <1>2 DEF OpToRel
  <2>2. QED
    BY <1>1, <2>1
<1>3. QED
  BY <1>2, SMT

(* A set with 0 and with the successor of each of its numbers has all of   *)
(* them.                                                                   *)
LEMMA SetInduction ==
  ASSUME NEW S, 0 \in S, \A n \in Nat : n \in S => n + 1 \in S
  PROVE  Nat \subseteq S
<1> DEFINE T == Nat \ S
<1>1. SUFFICES ASSUME T # {}
               PROVE  FALSE
  OBVIOUS
<1>2. PICK x \in T : \A y \in T : x <= y
  BY <1>1, Least
<1>3. x # 0 /\ x - 1 \in Nat /\ x - 1 \notin T
  BY <1>2, SMT
<1>4. QED
  BY <1>2, <1>3, SMT

(* Short sequences.                                                        *)
LEMMA PairOf ==
  ASSUME NEW S, NEW t \in Seq(S), Len(t) = 2
  PROVE  t = <<t[1], t[2]>>
OBVIOUS

LEMMA TripleOf ==
  ASSUME NEW S, NEW t \in Seq(S), Len(t) = 3
  PROVE  t = <<t[1], t[2], t[3]>>
OBVIOUS

LEMMA AppendToOne ==
  ASSUME NEW S, NEW s \in Seq(S), Len(s) = 1, NEW e \in S, NEW t, t = Append(s, e)
  PROVE  t = <<s[1], e>>
<1>1. PICK n : n = Len(s)
  OBVIOUS
<1>2. t \in Seq(S) /\ Len(t) = n + 1
  BY <1>1, AppendProperties
<1>3. n = 1 /\ Len(t) = 2
  BY <1>1, <1>2
<1>4. t[1] = s[1]
  BY <1>1, <1>3, AppendProperties
<1>5. t[n + 1] = e
  BY <1>1, AppendProperties
<1>6. t[2] = e
  BY <1>3, <1>5
<1>7. t = <<t[1], t[2]>>
  BY <1>2, <1>3, PairOf
<1>8. QED
  BY <1>4, <1>6, <1>7

LEMMA AppendToTwo ==
  ASSUME NEW S, NEW s \in Seq(S), Len(s) = 2, NEW e \in S, NEW t, t = Append(s, e)
  PROVE  t = <<s[1], s[2], e>>
<1>1. PICK n : n = Len(s)
  OBVIOUS
<1>2. t \in Seq(S) /\ Len(t) = n + 1
  BY <1>1, AppendProperties
<1>3. n = 2 /\ Len(t) = 3
  BY <1>1, <1>2
<1>4. t[1] = s[1] /\ t[2] = s[2]
  BY <1>1, <1>3, AppendProperties
<1>5. t[n + 1] = e
  BY <1>1, AppendProperties
<1>6. t[3] = e
  BY <1>3, <1>5
<1>7. t = <<t[1], t[2], t[3]>>
  BY <1>2, <1>3, TripleOf
<1>8. QED
  BY <1>4, <1>6, <1>7

LEMMA Appending ==
  ASSUME NEW u, NEW v, NEW w
  PROVE  /\ Append(<<>>, u) = <<u>> /\ Append(<<u>>, v) = <<u, v>>
         /\ Append(<<u, v>>, w) = <<u, v, w>>
<1> DEFINE S == {u, v, w}
<1>1. u \in S /\ v \in S /\ w \in S
  OBVIOUS
<1>2. <<u>> \in Seq(S) /\ Len(<<u>>) = 1 /\ <<u>>[1] = u
  OBVIOUS
<1>3. <<u, v>> \in Seq(S) /\ Len(<<u, v>>) = 2 /\ <<u, v>>[1] = u /\ <<u, v>>[2] = v
  OBVIOUS
<1> HIDE DEF S
<1>5. Append(<<u>>, v) = <<<<u>>[1], v>>
  BY <1>1, <1>2, AppendToOne, Zenon
<1>6. Append(<<u, v>>, w) = <<<<u, v>>[1], <<u, v>>[2], w>>
  BY <1>1, <1>3, AppendToTwo, Zenon
<1>7. Append(<<>>, u) = <<u>>
  OBVIOUS
<1>8. Append(<<u>>, v) = <<u, v>>
  BY <1>2, <1>5, Zenon
<1>9. Append(<<u, v>>, w) = <<u, v, w>>
  BY <1>3, <1>6, Zenon
<1>10. QED
  BY <1>7, <1>8, <1>9

LEMMA Prepending ==
  ASSUME NEW S, NEW e \in S, NEW t \in Seq(S), NEW s, s = <<e>> \o t
  PROVE  /\ s \in Seq(S) /\ Len(t) \in Nat /\ Len(s) = Len(t) + 1 /\ s[1] = e
         /\ \A k \in 1 .. Len(t) : s[k + 1] = t[k]
<1>1. PICK h : h = <<e>>
  OBVIOUS
<1>2. h \in Seq(S) /\ Len(h) = 1 /\ h[1] = e
  BY <1>1
<1>3. s \in Seq(S) /\ Len(s) = Len(h) + Len(t)
  BY <1>1, <1>2, ConcatProperties
<1>4. PICK n \in Nat : n = Len(t)
  BY LenProperties
<1>5. Len(s) = n + 1 /\ n + 1 \in Nat
  BY <1>2, <1>3, <1>4
<1>6. s[1] = e
  <2>1. s[1] = IF 1 <= Len(h) THEN h[1] ELSE t[1 - Len(h)]
    <3>1. 1 \in 1 .. Len(h) + Len(t)
      BY <1>2, <1>4
    <3>2. QED
      BY <1>1, <1>2, <3>1, ConcatProperties
  <2>2. QED
    BY <1>2, <2>1
<1>7. ASSUME NEW k \in 1 .. n
      PROVE  s[k + 1] = t[k]
  <2>1. k + 1 \in 1 .. Len(h) + Len(t)
    BY <1>2, <1>4
  <2>2. s[k + 1] = IF k + 1 <= Len(h) THEN h[k + 1] ELSE t[k + 1 - Len(h)]
    BY <1>1, <1>2, <2>1, ConcatProperties
  <2>3. ~ (k + 1 <= Len(h)) /\ k + 1 - Len(h) = k
    BY <1>2
  <2>4. QED
    BY <2>2, <2>3
<1>8. QED
  BY <1>3, <1>4, <1>5, <1>6, <1>7

(* A part of a sequence is what stands in it there.                        *)
LEMMA SubSeqIs ==
  ASSUME NEW S, NEW s \in Seq(S), NEW t \in Seq(S), NEW q \in Nat, NEW n \in Nat,
         Len(t) = n, q + n <= Len(s), \A k \in 1 .. n : s[q + k] = t[k]
  PROVE  SubSeq(s, q + 1, q + n) = t
<1>1. PICK m \in Nat : m = Len(s)
  BY LenProperties
<1>2. PICK c : c = SubSeq(s, q + 1, q + n)
  OBVIOUS
<1>3. \A k \in q + 1 .. q + n : s[k] \in S
  BY <1>1, ElementOfSeq
<1>4. /\ c \in Seq(S)
      /\ Len(c) = IF q + 1 <= q + n THEN (q + n) - (q + 1) + 1 ELSE 0
      /\ \A k \in 1 .. (q + n) - (q + 1) + 1 : c[k] = s[(q + 1) + k - 1]
  BY <1>2, <1>3, SubSeqProperties
<1>5. Len(c) = n /\ (q + n) - (q + 1) + 1 = n
  BY <1>4
<1>6. ASSUME NEW k \in 1 .. n PROVE c[k] = t[k]
  <2>1. (q + 1) + k - 1 = q + k
    OBVIOUS
  <2>2. QED
    BY <1>4, <1>5, <2>1
<1>7. c = t
  BY <1>4, <1>5, <1>6, SeqEqual
<1>8. QED
  BY <1>2, <1>7

(* Values appended one after the other.                                    *)
LEMMA AppendNext ==
  ASSUME NEW V, NEW j \in Nat
  PROVE  /\ [k \in 1 .. 0 |-> V[k]] = <<>>
         /\ Append([k \in 1 .. j |-> V[k]], V[j + 1]) = [k \in 1 .. j + 1 |-> V[k]]
         /\ Len([k \in 1 .. j |-> V[k]]) = j
<1> DEFINE T == {V[k] : k \in 1 .. j + 1}
           f == [k \in 1 .. j |-> V[k]]
           g == [k \in 1 .. j + 1 |-> V[k]]
<1>1. f \in [1 .. j -> T] /\ V[j + 1] \in T /\ g \in [1 .. j + 1 -> T]
  OBVIOUS
<1>2. f[1] = f[1] /\ \A k \in 1 .. j : f[k] = V[k] /\ g[k] = V[k]
  OBVIOUS
<1>3. g[j + 1] = V[j + 1]
  OBVIOUS
<1> HIDE DEF T, f, g
<1>4. f \in Seq(T) /\ Len(f) = j
  BY <1>1, FunctionIsSeq
<1>5. j + 1 \in Nat
  OBVIOUS
<1>6. g \in Seq(T) /\ Len(g) = j + 1
  BY <1>1, <1>5, FunctionIsSeq
<1>7. PICK h : h = Append(f, V[j + 1])
  OBVIOUS
<1>8. h \in Seq(T) /\ Len(h) = j + 1 /\ \A k \in 1 .. j : h[k] = f[k]
  BY <1>1, <1>4, <1>7, AppendProperties
<1>9. h[j + 1] = V[j + 1]
  BY <1>1, <1>4, <1>7, AppendProperties
<1>10. h = g
  BY <1>2, <1>3, <1>6, <1>8, <1>9
<1>11. [k \in 1 .. 0 |-> V[k]] = <<>>
  OBVIOUS
<1>12. QED
  BY <1>4, <1>7, <1>10, <1>11 DEF f, g

(* A value after a sequence, and after a tuple.                            *)
LEMMA JoinOne ==
  ASSUME NEW S, NEW s \in Seq(S), NEW e \in S, NEW n \in Nat, n = Len(s), NEW t, t = s \o <<e>>
  PROVE  /\ t \in Seq(S) /\ Len(t) = n + 1 /\ t[n + 1] = e
         /\ \A k \in 1 .. n : t[k] = s[k]
<1>1. t = Append(s, e)
  BY AppendIsConcat
<1>2. t \in Seq(S) /\ Len(t) = Len(s) + 1
  BY <1>1, AppendProperties
<1>3. t[Len(s) + 1] = e /\ \A k \in 1 .. Len(s) : t[k] = s[k]
  BY <1>1, AppendProperties
<1>4. QED
  BY <1>2, <1>3

(* What makes a sequence longer by one value.                              *)
LongerBy(s, t, x, n) ==
  /\ Len(s) = n /\ Len(t) = n + 1 /\ t[n + 1] = x
  /\ \A m \in 1 .. n : t[m] = s[m]

LEMMA JoinLonger ==
  ASSUME NEW S, NEW s \in Seq(S), NEW t \in Seq(S), NEW x \in S, NEW n \in Nat,
         LongerBy(s, t, x, n)
  PROVE  s \o <<x>> = t
<1>1. PICK u : u = s \o <<x>>
  OBVIOUS
<1>2. /\ u \in Seq(S) /\ Len(u) = n + 1 /\ u[n + 1] = x
      /\ \A m \in 1 .. n : u[m] = s[m]
  BY <1>1, JoinOne DEF LongerBy
<1>3. \A m \in 1 .. n + 1 : u[m] = t[m]
  BY <1>2 DEF LongerBy
<1>4. u = t
  BY <1>2, <1>3, SeqEqual DEF LongerBy
<1>5. QED
  BY <1>1, <1>4

LEMMA JoinNone ==
  ASSUME NEW a, NEW b
  PROVE  <<a>> \o <<>> = <<a>> /\ <<a, b>> \o <<>> = <<a, b>>
<1>1. PICK S : S = {a, b}
  OBVIOUS
<1>2. <<a>> \in Seq(S) /\ <<a, b>> \in Seq(S)
  BY <1>1
<1>3. QED
  BY <1>2, ConcatEmptySeq

LEMMA JoinTwo ==
  ASSUME NEW a, NEW b
  PROVE  <<a>> \o <<b>> = <<a, b>>
<1>1. PICK S : S = {a, b}
  OBVIOUS
<1>2. PICK s, t : s = <<a>> /\ t = <<a, b>>
  OBVIOUS
<1>3. s \in Seq(S) /\ t \in Seq(S) /\ b \in S
  BY <1>1, <1>2
<1>4. LongerBy(s, t, b, 1)
  <2>1. /\ Len(s) = 1 /\ Len(t) = 2
        /\ s[1] = a
        /\ t[1] = a /\ t[2] = b
    BY <1>2
  <2>2. QED
    BY <2>1 DEF LongerBy
<1>5. s \o <<b>> = t
  BY <1>3, <1>4, JoinLonger
<1>6. QED
  BY <1>2, <1>5

LEMMA JoinThree ==
  ASSUME NEW a, NEW b, NEW c
  PROVE  <<a, b>> \o <<c>> = <<a, b, c>>
<1>1. PICK S : S = {a, b, c}
  OBVIOUS
<1>2. PICK s, t : s = <<a, b>> /\ t = <<a, b, c>>
  OBVIOUS
<1>3. s \in Seq(S) /\ t \in Seq(S) /\ c \in S
  BY <1>1, <1>2
<1>4. LongerBy(s, t, c, 2)
  <2>1. /\ Len(s) = 2 /\ Len(t) = 3
        /\ s[1] = a /\ s[2] = b
        /\ t[1] = a /\ t[2] = b /\ t[3] = c
    BY <1>2
  <2>2. QED
    BY <2>1 DEF LongerBy
<1>5. s \o <<c>> = t
  BY <1>3, <1>4, JoinLonger
<1>6. QED
  BY <1>2, <1>5

LEMMA JoinFour ==
  ASSUME NEW a, NEW b, NEW c, NEW d
  PROVE  <<a, b, c>> \o <<d>> = <<a, b, c, d>>
<1>1. PICK S : S = {a, b, c, d}
  OBVIOUS
<1>2. PICK s, t : s = <<a, b, c>> /\ t = <<a, b, c, d>>
  OBVIOUS
<1>3. s \in Seq(S) /\ t \in Seq(S) /\ d \in S
  BY <1>1, <1>2
<1>4. LongerBy(s, t, d, 3)
  <2>1. /\ Len(s) = 3 /\ Len(t) = 4
        /\ s[1] = a /\ s[2] = b /\ s[3] = c
        /\ t[1] = a /\ t[2] = b /\ t[3] = c /\ t[4] = d
    BY <1>2
  <2>2. QED
    BY <2>1 DEF LongerBy
<1>5. s \o <<d>> = t
  BY <1>3, <1>4, JoinLonger
<1>6. QED
  BY <1>2, <1>5

LEMMA JoinFive ==
  ASSUME NEW a, NEW b, NEW c, NEW d, NEW e
  PROVE  <<a, b, c, d>> \o <<e>> = <<a, b, c, d, e>>
<1>1. PICK S : S = {a, b, c, d, e}
  OBVIOUS
<1>2. PICK s, t : s = <<a, b, c, d>> /\ t = <<a, b, c, d, e>>
  OBVIOUS
<1>3. s \in Seq(S) /\ t \in Seq(S) /\ e \in S
  BY <1>1, <1>2
<1>4. LongerBy(s, t, e, 4)
  <2>1. /\ Len(s) = 4 /\ Len(t) = 5
        /\ s[1] = a /\ s[2] = b /\ s[3] = c /\ s[4] = d
        /\ t[1] = a /\ t[2] = b /\ t[3] = c /\ t[4] = d /\ t[5] = e
    BY <1>2
  <2>2. QED
    BY <2>1 DEF LongerBy
<1>5. s \o <<e>> = t
  BY <1>3, <1>4, JoinLonger
<1>6. QED
  BY <1>2, <1>5

(* Numbers each of which is no more than the next.                         *)
LEMMA Ascending ==
  ASSUME NEW n \in Nat, NEW a, \A k \in 1 .. n + 1 : a[k] \in Nat,
         \A k \in 1 .. n : a[k] <= a[k + 1],
         NEW i \in 1 .. n + 1, NEW j \in 1 .. n + 1, i <= j
  PROVE  a[i] <= a[j]
<1> DEFINE Q == {d \in Nat : i + d <= n + 1 => a[i] <= a[i + d]}
<1>1. 0 \in Q
  <2>1. i + 0 = i /\ a[i] \in Nat
    OBVIOUS
  <2>2. QED
    BY <2>1
<1>2. ASSUME NEW d \in Nat, d \in Q
      PROVE  d + 1 \in Q
  <2>1. SUFFICES ASSUME i + (d + 1) <= n + 1
                 PROVE  a[i] <= a[i + (d + 1)]
    OBVIOUS
  <2>2. /\ i + d \in 1 .. n /\ i + d \in 1 .. n + 1 /\ i + (d + 1) = (i + d) + 1
        /\ (i + d) + 1 \in 1 .. n + 1
    BY <2>1
  <2>3. a[i] <= a[i + d]
    BY <1>2, <2>2
  <2>4. a[i + d] <= a[(i + d) + 1]
    BY <2>2
  <2>5. a[i] \in Nat /\ a[i + d] \in Nat /\ a[(i + d) + 1] \in Nat
    BY <2>2
  <2>6. QED
    BY <2>2, <2>3, <2>4, <2>5
<1>3. PICK d : d = j - i
  OBVIOUS
<1>4. d \in Nat /\ i + d = j /\ j <= n + 1
  BY <1>3
<1>5. d \in Q
  BY <1>1, <1>2, <1>4, SetInduction
<1>6. QED
  BY <1>4, <1>5
=============================================================================
