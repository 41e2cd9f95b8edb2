-------------------------- MODULE InterpreterProofs --------------------------
(* What TLAPS proves of the execution loop: that its variables keep their  *)
(* types, that the operands, the control frames and the results of a job   *)
(* are what validation says they are, and that it implements structured    *)
(* control.                                                                *)
EXTENDS Interpreter, BodiesProofs

-----------------------------------------------------------------------------
(* The scan for the end of a block.                                        *)

(* One step of the scan: s before the instruction op, which ends at c.     *)
Scanned(s, op, c) ==
  IF s.end # 0 THEN s
  ELSE CASE op \in Openers -> [s EXCEPT !.depth = @ + 1]
         [] op = "else" /\ s.depth = 1 /\ s.else = 0 -> [s EXCEPT !.else = c]
         [] op = "end" ->
              [s EXCEPT !.depth = @ - 1, !.end = IF s.depth = 1 THEN c ELSE 0]
         [] OTHER -> s
NotScanned == [depth |-> 1, else |-> 0, end |-> 0]

(* The states A of the scan of b from pc, one before each instruction.     *)
Traced(A, b, n, pc) ==
  /\ A[pc] = NotScanned /\ Scan(b, pc) = A[n+1]
  /\ \A c \in pc .. n : A[c+1] = Scanned(A[c], b[c].op, c + 1)

(* The scan is what its steps make of it.                                  *)
LEMMA ScanSteps ==
  ASSUME NEW b, NEW n \in Nat, n = Len(b), NEW pc \in 1 .. n + 1
  PROVE  \E A : Traced(A, b, n, pc)
<1> DEFINE next(s, c) == Scanned(s, b[c-1].op, c)
           start == NotScanned
           Is(a, j) == a = [c \in pc .. j |-> IF c = pc THEN start ELSE next(a[c-1], c)]
           S == {j \in Nat : \E a : Is(a, pc + j)}
<1>1. Scan(b, pc) = (CHOOSE a : Is(a, n + 1))[n+1]
  BY Zenon DEF Scan, Scanned, NotScanned
<1> HIDE DEF start, next
<1>2. 0 \in S
  <2> DEFINE a == [c \in pc .. pc + 0 |-> start]
  <2>1. Is(a, pc + 0)
    OBVIOUS
  <2>2. QED
    BY <2>1
<1>3. ASSUME NEW j \in Nat, j \in S PROVE j + 1 \in S
  <2>1. PICK a : Is(a, pc + j)
    BY <1>3
  <2> DEFINE m == pc + j
             d == [c \in pc .. m + 1 |-> IF c = m + 1 THEN next(a[m], m + 1) ELSE a[c]]
  <2>2. m \in Nat /\ pc + (j + 1) = m + 1 /\ m >= pc
    OBVIOUS
  <2>3. a = [c \in pc .. m |-> IF c = pc THEN start ELSE next(a[c-1], c)]
    BY <2>1
  <2> HIDE DEF m
  <2>4. ASSUME NEW c \in pc .. m + 1
        PROVE  d[c] = IF c = pc THEN start ELSE next(d[c-1], c)
    <3>1. CASE c = m + 1
      <4>1. d[c] = next(a[m], m + 1) /\ c - 1 = m /\ d[m] = a[m] /\ c # pc
        BY <2>2, <3>1
      <4>2. QED
        BY <3>1, <4>1
    <3>2. CASE c # m + 1
      <4>1. c \in pc .. m /\ d[c] = a[c] /\ (c # pc => d[c-1] = a[c-1])
        BY <2>2, <3>2
      <4>2. a[c] = IF c = pc THEN start ELSE next(a[c-1], c)
        BY <2>3, <4>1
      <4>3. QED
        BY <4>1, <4>2
    <3>3. QED
      BY <3>1, <3>2
  <2>5. Is(d, m + 1)
    BY <2>4
  <2> HIDE DEF d, Is
  <2>6. \E a2 : Is(a2, pc + (j + 1))
    BY <2>2, <2>5
  <2>7. QED
    BY <2>6
<1>4. n + 1 - pc \in S
  <2>1. n + 1 - pc \in Nat
    OBVIOUS
  <2> HIDE DEF S
  <2>2. Nat \subseteq S
    BY <1>2, <1>3, SetInduction
  <2>3. QED
    BY <2>1, <2>2
<1> DEFINE A == CHOOSE a : Is(a, n + 1)
<1>5. Is(A, n + 1)
  <2>1. pc + (n + 1 - pc) = n + 1
    OBVIOUS
  <2> HIDE DEF Is
  <2>2. \E a : Is(a, n + 1)
    BY <1>4, <2>1
  <2>3. QED
    BY <2>2
<1>6. Scan(b, pc) = A[n+1]
  BY <1>1
<1> HIDE DEF A
<1>7. A = [c \in pc .. n + 1 |-> IF c = pc THEN start ELSE next(A[c-1], c)]
  BY <1>5
<1>8. A[pc] = start
  BY <1>7
<1>9. ASSUME NEW c \in pc .. n PROVE A[c+1] = next(A[c], c + 1)
  <2>1. c + 1 \in pc .. n + 1 /\ c + 1 # pc /\ c + 1 - 1 = c
    OBVIOUS
  <2>2. QED
    BY <1>7, <2>1
<1>10. ASSUME NEW c \in pc .. n PROVE next(A[c], c + 1) = Scanned(A[c], b[c].op, c + 1)
  <2>1. c + 1 - 1 = c
    OBVIOUS
  <2>2. QED
    BY <2>1 DEF next
<1>11. QED
  BY <1>6, <1>8, <1>9, <1>10 DEF start, Traced

(* x parts in two the block entered at p.                                  *)
PartsAt(fn, K, p, x) ==
  /\ fn.body[x].op = "else" /\ Level(K, x) = Level(K, p)
  /\ \A r \in p .. x : Level(K, r) >= Level(K, p)

(* The scan finds the end of the block it starts in, and its else.         *)
LEMMA ScanFound ==
  ASSUME NEW fn, NEW K, Typing(fn, K), NEW q \in 1 .. Len(fn.body), fn.body[q].op \in Openers
  PROVE  LET s == Scan(fn.body, q + 1)  p == q + 1
         IN  /\ s.end \in Nat /\ s.else \in Nat
             /\ ClosesAt(fn, K, p, Level(K, p), s.end - 1)
             /\ s.else # 0 => s.else - 1 \in p .. s.end - 1 /\ PartsAt(fn, K, p, s.else - 1)
             /\ s.else = 0 => \A x \in p .. s.end - 1 : ~ PartsAt(fn, K, p, x)
<1> DEFINE n == Len(fn.body)
           b == fn.body
           p == q + 1
           j == Level(K, p)
<1>1. /\ n \in Nat /\ q \in Nat /\ p \in Nat /\ p \in 1 .. n + 1
      /\ \A r \in 1 .. n + 1 : Level(K, r) \in Nat
      /\ Level(K, n + 1) = 0
      /\ \A r \in 1 .. n : Level(K, r+1) = IF b[r].op \in Openers THEN Level(K, r) + 1
                                           ELSE IF b[r].op = "end" THEN Level(K, r) - 1
                                           ELSE Level(K, r)
  BY Levels
<1>2. j = Level(K, q) + 1 /\ Level(K, q) \in Nat
  BY <1>1
<1>3. p \in 1 .. n /\ j \in 1 .. Level(K, p) /\ j \in Nat
  BY <1>1, <1>2
<1>4. PICK e \in p .. n : ClosesAt(fn, K, p, j, e)
  BY <1>3, Closed
<1>5. PICK A : /\ A[p] = NotScanned /\ Scan(b, p) = A[n+1]
               /\ \A c \in p .. n : A[c+1] = Scanned(A[c], b[c].op, c + 1)
  <2>1. \E A : Traced(A, b, n, p)
    <3> HIDE DEF j
    <3>1. n \in Nat /\ n = Len(b) /\ p \in 1 .. n + 1
      BY <1>1
    <3>2. QED
      BY <3>1, ScanSteps
  <2>2. QED
    BY <2>1, Zenon DEF Traced
<1>6. "end" \notin Openers /\ "else" \notin Openers
  BY DEF Openers
<1> DEFINE Found(c) == {x \in p .. c - 1 : x < e /\ b[x].op = "else" /\ Level(K, x) = j}
           Good(c) == /\ A[c] \in [depth : Int, else : Nat, end : Nat]
                      /\ A[c].end = IF c <= e THEN 0 ELSE e + 1
                      /\ c <= e => A[c].depth = Level(K, c) - j + 1
                      /\ A[c].else # 0 => A[c].else - 1 \in Found(c)
                      /\ A[c].else = 0 => Found(c) = {}
           S == {d \in Nat : p + d <= n + 1 => Good(p + d)}
<1>7. /\ b[e].op = "end" /\ Level(K, e) = j /\ e \in p .. n
      /\ \A r \in p .. e : Level(K, r) >= j
  BY <1>4 DEF ClosesAt
<1> HIDE DEF n, b, p, j
<1>20. \A c, x : x \in Found(c) <=> /\ x \in p .. c - 1 /\ x < e
                                    /\ b[x].op = "else" /\ Level(K, x) = j
  OBVIOUS
<1>8. 0 \in S
  <2>1. A[p] = [depth |-> 1, else |-> 0, end |-> 0] /\ p + 0 = p /\ p <= e
    BY <1>1, <1>5, <1>7 DEF NotScanned
  <2>2. Found(p) = {}
    BY <1>1
  <2> HIDE DEF Found
  <2>3. Good(p)
    BY <1>3, <2>1, <2>2 DEF j
  <2> HIDE DEF Good
  <2>4. QED
    BY <2>1, <2>3
<1>9. ASSUME NEW c \in p .. n, Good(c) PROVE Good(c + 1)
  <2> DEFINE s == A[c]
             t == A[c+1]
             op == b[c].op
  <2>1. t = Scanned(s, op, c + 1)
    BY <1>5
  <2>2. /\ s \in [depth : Int, else : Nat, end : Nat]
        /\ s.end = IF c <= e THEN 0 ELSE e + 1
        /\ c <= e => s.depth = Level(K, c) - j + 1
        /\ s.else # 0 => s.else - 1 \in Found(c)
        /\ s.else = 0 => Found(c) = {}
    BY <1>9
  <2>3. /\ c \in Nat /\ c \in 1 .. n /\ c + 1 - 1 = c /\ e \in Nat
        /\ c \in 1 .. n + 1 /\ Level(K, c) \in Nat
    BY <1>1, <1>7
  <2>4. Found(c + 1) = IF c < e /\ op = "else" /\ Level(K, c) = j
                       THEN Found(c) \cup {c} ELSE Found(c)
    <3>1. \A x : x \in p .. c + 1 - 1 <=> x \in p .. c - 1 \/ x = c
      BY <1>1, <2>3
    <3>2. QED
      BY <3>1
  <2>5. SUFFICES /\ t \in [depth : Int, else : Nat, end : Nat]
                 /\ t.end = IF c + 1 <= e THEN 0 ELSE e + 1
                 /\ c + 1 <= e => t.depth = Level(K, c + 1) - j + 1
                 /\ t.else # 0 => t.else - 1 \in Found(c + 1)
                 /\ t.else = 0 => Found(c + 1) = {}
    OBVIOUS
  <2>6. Level(K, c+1) = IF op \in Openers THEN Level(K, c) + 1
                        ELSE IF op = "end" THEN Level(K, c) - 1 ELSE Level(K, c)
    BY <1>1, <2>3
  <2>7. op = "end" /\ Level(K, c) = j /\ c <= e => c = e
    <3>1. SUFFICES ASSUME op = "end", Level(K, c) = j, c < e PROVE FALSE
      BY <1>1, <2>3
    <3>2. c + 1 \in p .. e /\ Level(K, c + 1) = j - 1
      BY <1>1, <1>6, <2>3, <2>6, <3>1
    <3>3. QED
      BY <1>3, <1>7, <3>2
  <2>8. s = [depth |-> s.depth, else |-> s.else, end |-> s.end]
        /\ s.depth \in Int /\ s.else \in Nat /\ s.end \in Nat
    BY <2>2
  <2> HIDE DEF s, t, op, Found, Good
  <2>9. CASE c > e
    <3>1. s.end # 0
      BY <2>2, <2>3, <2>9
    <3>2. t = s
      BY <2>1, <3>1 DEF Scanned
    <3>3. QED
      BY <2>2, <2>3, <2>4, <2>9, <3>2
  <2>10. CASE c <= e
    <3>1. s.end = 0 /\ s.depth = Level(K, c) - j + 1
      BY <2>2, <2>3, <2>10
    <3>2. CASE op \in Openers
      <4>1. t = [depth |-> s.depth + 1, else |-> s.else, end |-> s.end]
        BY <1>6, <2>1, <2>8, <3>1, <3>2 DEF Scanned
      <4>2. c # e /\ op # "else"
        BY <1>6, <1>7, <3>2 DEF op
      <4>3. QED
        BY <1>3, <2>2, <2>3, <2>4, <2>6, <2>8, <2>10, <3>1, <3>2, <4>1, <4>2
    <3>3. CASE op = "end"
      <4>1. t = [depth |-> s.depth - 1, else |-> s.else,
                 end |-> IF s.depth = 1 THEN c + 1 ELSE 0]
        BY <1>6, <2>1, <2>8, <3>1, <3>3 DEF Scanned
      <4>2. s.depth = 1 <=> c = e
        BY <1>3, <1>7, <2>3, <2>7, <2>10, <3>1, <3>3
      <4>3. Found(c + 1) = Found(c)
        BY <2>4, <3>3
      <4>4. Level(K, c+1) = Level(K, c) - 1
        BY <1>6, <2>6, <3>3
      <4>5. CASE c = e
        <5>1. t = [depth |-> s.depth - 1, else |-> s.else, end |-> e + 1]
          BY <4>1, <4>2, <4>5
        <5>2. ~ (c + 1 <= e)
          BY <2>3, <4>5
        <5>3. QED
          BY <2>2, <2>3, <2>8, <4>3, <5>1, <5>2
      <4>6. CASE c # e
        <5>1. t = [depth |-> s.depth - 1, else |-> s.else, end |-> 0]
          BY <4>1, <4>2, <4>6
        <5>2. c + 1 <= e
          BY <2>3, <2>10, <4>6
        <5>3. t.depth = Level(K, c+1) - j + 1 /\ t.depth \in Int
          BY <1>3, <2>3, <2>8, <3>1, <4>4, <5>1
        <5>4. t.else = s.else /\ t.end = 0
          BY <5>1
        <5>5. t \in [depth : Int, else : Nat, end : Nat]
          BY <2>8, <5>1
        <5>6. QED
          BY <2>2, <4>3, <5>2, <5>3, <5>4, <5>5
      <4>7. QED
        BY <4>5, <4>6
    <3>4. CASE op = "else"
      <4>1. c # e /\ c < e /\ c + 1 <= e
        BY <1>7, <2>3, <2>10, <3>4 DEF op
      <4>2. Level(K, c+1) = Level(K, c)
        BY <1>6, <2>6, <3>4
      <4>3. s.depth = 1 <=> Level(K, c) = j
        BY <1>3, <2>3, <3>1
      <4>4. CASE s.depth = 1 /\ s.else = 0
        <5>1. t = [depth |-> s.depth, else |-> c + 1, end |-> s.end]
          BY <1>6, <2>1, <2>8, <3>1, <3>4, <4>4 DEF Scanned
        <5>2. Found(c + 1) = Found(c) \cup {c}
          BY <2>4, <3>4, <4>1, <4>3, <4>4
        <5>3. QED
          BY <1>3, <2>2, <2>3, <2>8, <2>10, <3>1, <4>1, <4>2, <4>4, <5>1, <5>2
      <4>5. CASE ~ (s.depth = 1 /\ s.else = 0)
        <5>1. t = s
          BY <1>6, <2>1, <2>8, <3>1, <3>4, <4>5 DEF Scanned
        <5>2. s.else = 0 => Found(c + 1) = Found(c)
          BY <2>4, <4>3, <4>5
        <5>3. Found(c) \subseteq Found(c + 1)
          BY <2>4
        <5>4. QED
          BY <1>3, <2>2, <2>3, <2>8, <2>10, <3>1, <4>1, <4>2, <5>1, <5>2, <5>3
      <4>6. QED
        BY <4>4, <4>5
    <3>5. CASE op \notin Openers \cup {"end", "else"}
      <4>1. t = s
        BY <2>1, <2>8, <3>1, <3>5 DEF Scanned
      <4>2. c # e
        BY <1>7, <3>5 DEF op
      <4>3. QED
        BY <1>3, <2>2, <2>3, <2>4, <2>6, <2>8, <2>10, <3>1, <3>5, <4>1, <4>2
    <3>6. QED
      BY <3>2, <3>3, <3>4, <3>5
  <2>11. QED
    BY <1>1, <1>7, <2>3, <2>9, <2>10
<1> HIDE DEF Good
<1>10. ASSUME NEW d \in Nat, d \in S PROVE d + 1 \in S
  <2>1. SUFFICES ASSUME p + (d + 1) <= n + 1 PROVE Good(p + (d + 1))
    OBVIOUS
  <2>2. p + d \in p .. n /\ p + (d + 1) = p + d + 1 /\ p + d <= n + 1
    BY <1>1, <2>1
  <2>3. QED
    BY <1>9, <1>10, <2>2
<1>11. n + 1 - p \in S
  <2>1. n + 1 - p \in Nat
    BY <1>1
  <2> HIDE DEF S
  <2>2. Nat \subseteq S
    BY <1>8, <1>10, SetInduction
  <2>3. QED
    BY <2>1, <2>2
<1>12. Good(n + 1)
  <2>1. p + (n + 1 - p) = n + 1
    BY <1>1
  <2>2. QED
    BY <1>1, <1>11, <2>1
<1> DEFINE s == Scan(b, p)
<1>13. /\ s \in [depth : Int, else : Nat, end : Nat]
       /\ s.end = e + 1
       /\ s.else # 0 => s.else - 1 \in Found(n + 1)
       /\ s.else = 0 => Found(n + 1) = {}
  <2>1. ~ (n + 1 <= e)
    BY <1>1, <1>7
  <2>2. QED
    BY <1>5, <1>12, <2>1 DEF Good
<1> HIDE DEF s
<1>14. s.end \in Nat /\ s.else \in Nat /\ s.end - 1 = e
  BY <1>1, <1>7, <1>13
<1>15. ASSUME NEW x \in p .. e
       PROVE  PartsAt(fn, K, p, x) <=> x \in Found(n + 1)
  <2>1. x \in p .. n + 1 - 1 /\ x \in Nat
    BY <1>1, <1>7
  <2>2. \A r \in p .. x : Level(K, r) >= j
    BY <1>1, <1>7
  <2>3. x \in Found(n + 1) <=> b[x].op = "else" /\ Level(K, x) = j
    <3>1. CASE x = e
      <4>1. ~ (x < e) /\ b[x].op # "else"
        BY <1>1, <1>7, <3>1
      <4>2. QED
        BY <4>1
    <3>2. CASE x < e
      <4> HIDE DEF Found
      <4> DEFINE N == n + 1
      <4>1. x \in p .. N - 1 /\ N \in Int /\ p \in Int
        BY <1>1, <2>1
      <4> HIDE DEF N
      <4>2. x \in Found(N) <=> b[x].op = "else" /\ Level(K, x) = j
        BY <1>20, <3>2, <4>1
      <4>3. QED
        BY <4>2 DEF N
    <3>3. QED
      BY <1>1, <1>7, <3>1, <3>2
  <2>4. PartsAt(fn, K, p, x) <=> b[x].op = "else" /\ Level(K, x) = j
    BY <2>2 DEF PartsAt, j, b
  <2>5. QED
    BY <2>3, <2>4
<1>16. Found(n + 1) \subseteq p .. e
  BY <1>1, <1>7
<1> HIDE DEF Found
<1>17. s.else # 0 => s.else - 1 \in p .. e /\ PartsAt(fn, K, p, s.else - 1)
  BY <1>13, <1>15, <1>16
<1>18. s.else = 0 => \A x \in p .. e : ~ PartsAt(fn, K, p, x)
  BY <1>13, <1>15
<1>19. QED
  BY <1>4, <1>14, <1>17, <1>18 DEF s, b, p, j

-----------------------------------------------------------------------------
(* Types.                                                                  *)

FrameSet == [fn : Fns, pc : Nat, control : Seq(ControlFrames)]

(* A call frame of module m that can go on.                                *)
Stands(m, fr) ==
  /\ fr \in FrameSet
  /\ ~ m[fr.fn].imported
  /\ fr.pc >= 1
  /\ \A j \in 1 .. Len(fr.control) : fr.control[j].start >= 1 /\ fr.control[j].end >= 1

(* The frames of a job.                                                    *)
Upright(m, fs) ==
  /\ fs \in Seq(FrameSet)
  /\ Len(fs) <= MaxCallDepth
  /\ \A k \in 1 .. Len(fs) : Stands(m, fs[k])

Standing ==
  /\ TypeOK
  /\ code \in Modules
  /\ \A k \in 1 .. Len(frames) : Stands(code, frames[k])

(* What is known of the functions of a module.                             *)
LEMMA Coded ==
  ASSUME NEW m \in Modules, NEW f \in Fns
  PROVE  /\ m \in [Fns -> Functions] /\ m \in [DOMAIN m -> Functions] /\ f \in DOMAIN m
         /\ f \in Nat /\ m[f] \in Functions
         /\ m[f].params \in Seq(Types) /\ m[f].results \in Seq(Types)
         /\ m[f].imported \in BOOLEAN /\ m[f].body \in Seq(Instructions)
         /\ ~ m[f].imported => Valid(m, f) /\ Typing(m[f], Known(m, f))
<1>1. m \in [Fns -> Functions] /\ f \in Nat
  BY ModulesAssumption, FnsAssumption
<1>2. m \in [DOMAIN m -> Functions] /\ f \in DOMAIN m /\ m[f] \in Functions
  BY <1>1
<1>3. /\ m[f].params \in Seq(Types) /\ m[f].results \in Seq(Types)
      /\ m[f].imported \in BOOLEAN /\ m[f].body \in Seq(Instructions)
  BY <1>2 DEF Functions
<1>4. ASSUME ~ m[f].imported PROVE Valid(m, f) /\ Typing(m[f], Known(m, f))
  <2>1. Valid(m, f)
    BY <1>4, ValidAssumption
  <2>2. QED
    BY <1>2, <2>1, ValidTyping
<1>5. QED
  BY <1>1, <1>2, <1>3, <1>4

(* The last element of a sequence dropped, and another put in its place.   *)
LEMMA Replaced ==
  ASSUME NEW S, NEW s \in Seq(S), s # <<>>, NEW x \in S
  PROVE  LET b == SubSeq(s, 1, Len(s) - 1)  r == Append(b, x)
         IN  /\ b \in Seq(S) /\ Len(b) = Len(s) - 1 /\ Len(s) \in 1 .. Len(s)
             /\ \A k \in 1 .. Len(s) - 1 : b[k] = s[k] /\ r[k] = s[k]
             /\ r \in Seq(S) /\ Len(r) = Len(s) /\ r[Len(s)] = x /\ r # <<>>
<1> DEFINE n == Len(s)
           b == SubSeq(s, 1, n - 1)
           r == Append(b, x)
<1>1. n \in Nat /\ n >= 1
  BY EmptySeq, LenProperties
<1>2. b \in Seq(S) /\ Len(b) = n - 1 /\ \A k \in 1 .. n - 1 : b[k] = s[k]
  <2> DEFINE m == n - 1
  <2>1. m \in Nat /\ m <= Len(s)
    BY <1>1
  <2> HIDE DEF m, n
  <2>2. LET c == SubSeq(s, 1, m)
        IN  c \in Seq(S) /\ Len(c) = m /\ \A k \in 1 .. m : c[k] = s[k]
    BY <2>1
  <2>3. QED
    BY <2>2 DEF m
<1> HIDE DEF n, b
<1>3. r \in Seq(S) /\ Len(r) = n /\ r[n] = x /\ \A k \in 1 .. n - 1 : r[k] = b[k]
  BY <1>1, <1>2
<1>4. r # <<>>
  BY <1>1, <1>3
<1>5. QED
  BY <1>1, <1>2, <1>3, <1>4 DEF n, b

(* A job that goes on, or is over, has variables of their types.           *)
LEMMA Continued ==
  ASSUME Standing, NEW fs, Upright(code, fs), NEW s \in Seq(Types), Continue(fs, s),
         entry' \in Fns
  PROVE  Standing'
<1>1. fs = <<>> \/ fs # <<>>
  OBVIOUS
<1>2. /\ frames' = fs /\ stack' = s /\ code' = code
      /\ status' = IF fs = <<>> THEN "ok" ELSE "running"
  BY DEF Continue
<1>3. TypeOK'
  BY <1>1, <1>2 DEF Upright, Standing, TypeOK, FrameSet
<1>4. QED
  BY <1>2, <1>3 DEF Upright, Standing

(* So has a job that failed.                                               *)
LEMMA Aborted ==
  ASSUME Standing, NEW e \in Errors, NEW s \in Seq(Types), Abort(e, s), entry' \in Fns
  PROVE  Standing'
<1>1. frames' = <<>> /\ stack' = s /\ code' = code /\ status' = e
  BY DEF Abort
<1>2. e # "running"
  BY DEF Errors
<1>3. <<>> \in Seq(FrameSet) /\ Len(<<>>) = 0 /\ 0 <= MaxCallDepth
  BY DepthAssumption
<1>4. TypeOK'
  BY <1>1, <1>2, <1>3 DEF Standing, TypeOK, FrameSet
<1>5. QED
  BY <1>1, <1>3, <1>4 DEF Standing

(* Operands dropped.                                                       *)
LEMMA Dropped ==
  ASSUME NEW s \in Seq(Types), NEW n \in Nat, n <= Len(s)
  PROVE  Drop(s, n) \in Seq(Types) /\ Len(Drop(s, n)) = Len(s) - n
         /\ \A k \in 1 .. Len(s) - n : Drop(s, n)[k] = s[k]
BY DEF Drop

(* The call frame of a function that is entered.                           *)
First(m, f) ==
  [fn |-> f, pc |-> 1,
   control |-> <<[type |-> "block", start |-> 1, else |-> 0, end |-> Len(m[f].body) + 1,
                  params |-> <<>>, results |-> m[f].results, height |-> 0]>>]

(* It can go on.                                                           *)
LEMMA FirstStands ==
  ASSUME NEW m \in Modules, NEW f \in Fns, ~ m[f].imported
  PROVE  Stands(m, First(m, f))
<1> DEFINE first == [type |-> "block", start |-> 1, else |-> 0, end |-> Len(m[f].body) + 1,
                     params |-> <<>>, results |-> m[f].results, height |-> 0]
           new == First(m, f)
<1>1. m[f].results \in Seq(Types) /\ m[f].body \in Seq(Instructions)
  BY Coded
<1>2. first \in ControlFrames /\ first.start = 1 /\ first.end >= 1
  <2>1. Len(m[f].body) + 1 \in Nat /\ Len(m[f].body) + 1 >= 1 /\ <<>> \in Seq(Types)
    BY <1>1
  <2>2. QED
    BY <1>1, <2>1 DEF ControlFrames
<1>3. new = [fn |-> f, pc |-> 1, control |-> <<first>>]
  BY DEF First
<1> HIDE DEF first, new
<1>4. <<first>> \in Seq(ControlFrames) /\ Len(<<first>>) = 1 /\ <<first>>[1] = first
  BY <1>2
<1>5. QED
  BY <1>2, <1>3, <1>4 DEF Stands, FrameSet, new

(* A call that the limit, a trap or the callee may refuse.                 *)
LEMMA Called ==
  ASSUME Standing, NEW f \in Fns, NEW fs, Upright(code, fs), NEW s \in Seq(Types),
         CallFunction(f, fs, s), entry' \in Fns
  PROVE  Standing'
<1> DEFINE ps == code[f].params
           rs == code[f].results
           rest == Drop(s, Len(ps))
<1>1. /\ code \in Modules /\ ps \in Seq(Types) /\ rs \in Seq(Types)
      /\ code[f].body \in Seq(Instructions)
  BY Coded DEF Standing
<1>2. \A e \in {"TRAP", "HOST", "CALL_DEPTH_EXCEEDED"} : e \in Errors
  BY DEF Errors
<1>3. Typed(s, ps) => rest \in Seq(Types)
  BY <1>1, Dropped DEF Typed
<1>4. <<>> \in Seq(ControlFrames) /\ MaxCallDepth \in Nat
  BY DepthAssumption
<1>5. CASE Refused(f, s)
  <2>1. PICK e \in {"TRAP", "HOST"} : Abort(e, s)
    BY <1>5 DEF Refused
  <2>2. QED
    BY <1>2, <2>1, Aborted
<1>6. CASE CallImported(f, fs, s)
  <2>1. CASE ~ Typed(s, ps)
    <3>1. Abort("TRAP", s)
      BY <1>6, <2>1 DEF CallImported
    <3>2. QED
      BY <1>2, <3>1, Aborted
  <2>2. CASE Typed(s, ps)
    <3>1. rest \o rs \in Seq(Types)
      BY <1>1, <1>3, <2>2
    <3>2. CASE Continue(fs, rest \o rs)
      <4> HIDE DEF rest
      <4>1. QED
        BY <3>1, <3>2, Continued
    <3>3. CASE Abort("TRAP", s)
      BY <1>2, <3>3, Aborted
    <3>4. CASE \E e \in {"TRAP", "HOST"} : Abort(e, rest)
      <4>1. PICK e \in {"TRAP", "HOST"} : Abort(e, rest)
        BY <3>4
      <4> HIDE DEF rest
      <4>2. QED
        BY <1>2, <1>3, <2>2, <4>1, Aborted
    <3>5. CASE \E k \in 1 .. Len(rs) - 1 : Abort("TRAP", rest \o SubSeq(rs, 1, k))
      <4>1. PICK k \in 1 .. Len(rs) - 1 : Abort("TRAP", rest \o SubSeq(rs, 1, k))
        BY <3>5
      <4>2. SubSeq(rs, 1, k) \in Seq(Types)
        BY <1>1
      <4> DEFINE some == rest \o SubSeq(rs, 1, k)
      <4>3. some \in Seq(Types) /\ Abort("TRAP", some)
        BY <1>3, <2>2, <4>1, <4>2
      <4> HIDE DEF some
      <4>4. QED
        BY <1>2, <4>3, Aborted
    <3>6. QED
      BY <1>6, <2>2, <3>2, <3>3, <3>4, <3>5, Zenon DEF CallImported
  <2>3. QED
    BY <2>1, <2>2
<1>7. CASE PushFrame(f, fs, s)
  <2> DEFINE new == First(code, f)
             pushed == Append(fs, new)
  <2>1. /\ ~ code[f].imported
        /\ CASE Len(fs) >= MaxCallDepth -> Abort("CALL_DEPTH_EXCEEDED", s)
             [] Len(fs) < MaxCallDepth /\ Typed(s, ps) -> Continue(pushed, rest)
             [] Len(fs) < MaxCallDepth /\ Len(s) < Len(ps) /\ fs = <<>> ->
                  Continue(pushed, s)
             [] OTHER -> Abort("TRAP", s)
    BY <1>7, Zenon DEF PushFrame, First
  <2>2. Len(fs) \in Nat /\ fs \in Seq(FrameSet)
    BY DEF Upright
  <2>3. Stands(code, new)
    BY <1>1, <2>1, FirstStands
  <2>4. ASSUME Len(fs) < MaxCallDepth PROVE Upright(code, pushed)
    <3> HIDE DEF new
    <3>1. new \in FrameSet
      BY <2>3 DEF Stands
    <3>2. /\ pushed \in Seq(FrameSet) /\ Len(pushed) = Len(fs) + 1
          /\ pushed[Len(fs) + 1] = new /\ \A k \in 1 .. Len(fs) : pushed[k] = fs[k]
      BY <2>2, <3>1
    <3>3. Len(pushed) <= MaxCallDepth
      BY <1>4, <2>2, <2>4, <3>2
    <3>4. ASSUME NEW k \in 1 .. Len(pushed) PROVE Stands(code, pushed[k])
      <4>1. k = Len(fs) + 1 \/ k \in 1 .. Len(fs)
        BY <2>2, <3>2
      <4>2. QED
        BY <2>3, <3>2, <4>1 DEF Upright
    <3>5. QED
      BY <3>2, <3>3, <3>4 DEF Upright
  <2> HIDE DEF pushed, rest
  <2>5. CASE Len(fs) >= MaxCallDepth
    BY <1>2, <1>4, <2>1, <2>2, <2>5, Aborted
  <2>6. CASE Len(fs) < MaxCallDepth
    <3>1. ~ (Len(fs) >= MaxCallDepth)
      BY <1>4, <2>2, <2>6
    <3>2. CASE Typed(s, ps)
      <4>1. ~ (Len(s) < Len(ps))
        BY <1>1, <3>2 DEF Typed
      <4>2. Continue(pushed, rest)
        BY <2>1, <2>6, <3>1, <3>2, <4>1
      <4>3. QED
        BY <1>3, <2>4, <2>6, <3>2, <4>2, Continued
    <3>3. CASE ~ Typed(s, ps) /\ Len(s) < Len(ps) /\ fs = <<>>
      <4>1. Continue(pushed, s)
        BY <2>1, <2>6, <3>1, <3>3
      <4>2. QED
        BY <2>4, <2>6, <4>1, Continued
    <3>4. CASE ~ Typed(s, ps) /\ ~ (Len(s) < Len(ps) /\ fs = <<>>)
      <4>1. Abort("TRAP", s)
        BY <2>1, <2>6, <3>1, <3>4
      <4>2. QED
        BY <1>2, <4>1, Aborted
    <3>5. QED
      BY <3>2, <3>3, <3>4
  <2>7. QED
    BY <1>4, <2>2, <2>5, <2>6
<1>8. QED
  BY <1>5, <1>6, <1>7 DEF CallFunction

(* A job that runs has a frame that can go on, over others.                *)
LEMMA Running ==
  ASSUME Standing, status = "running"
  PROVE  /\ frames # <<>> /\ Len(frames) \in 1 .. MaxCallDepth /\ frames \in Seq(FrameSet)
         /\ Stands(code, Frame) /\ Frame \in FrameSet /\ Frame.fn \in Fns
         /\ code \in Modules /\ stack \in Seq(Types) /\ entry \in Fns
         /\ Body \in Seq(Instructions) /\ Len(Body) \in Nat
         /\ Valid(code, Frame.fn) /\ Typing(code[Frame.fn], Known(code, Frame.fn))
         /\ Upright(code, Below) /\ Len(Below) = Len(frames) - 1
         /\ \A k \in 1 .. Len(frames) - 1 : Below[k] = frames[k]
         /\ \A fr : Stands(code, fr) =>
              /\ Upright(code, With(fr)) /\ Len(With(fr)) = Len(frames) /\ With(fr) # <<>>
              /\ With(fr)[Len(frames)] = fr
              /\ \A k \in 1 .. Len(frames) - 1 : With(fr)[k] = frames[k]
<1>1. /\ frames # <<>> /\ frames \in Seq(FrameSet) /\ Len(frames) <= MaxCallDepth
      /\ stack \in Seq(Types) /\ entry \in Fns /\ code \in Modules
      /\ \A k \in 1 .. Len(frames) : Stands(code, frames[k])
  BY DEF Standing, TypeOK, FrameSet
<1>2. MaxCallDepth \in Nat
  BY DepthAssumption
<1> DEFINE n == Len(frames)
<1>3. n \in 1 .. n /\ n \in Nat
  BY <1>1
<1>4. Stands(code, Frame) /\ Frame \in FrameSet /\ Frame.fn \in Fns
  BY <1>1, <1>3 DEF Stands, Frame, FrameSet
<1>5. /\ Body \in Seq(Instructions) /\ Len(Body) \in Nat
      /\ Valid(code, Frame.fn) /\ Typing(code[Frame.fn], Known(code, Frame.fn))
  BY <1>1, <1>4, Coded DEF Stands, Body
<1>6. /\ Below \in Seq(FrameSet) /\ Len(Below) = n - 1
      /\ \A k \in 1 .. n - 1 : Below[k] = frames[k]
  BY <1>1, <1>4, Replaced DEF Below
<1>7. Upright(code, Below)
  <2>1. \A k \in 1 .. n - 1 : k \in 1 .. n
    BY <1>3
  <2> HIDE DEF n
  <2>2. n - 1 <= MaxCallDepth
    BY <1>1, <1>2, <1>3 DEF n
  <2>3. QED
    BY <1>1, <1>6, <2>1, <2>2 DEF Upright, n
<1>8. ASSUME NEW fr, Stands(code, fr)
      PROVE  /\ Upright(code, With(fr)) /\ Len(With(fr)) = n /\ With(fr) # <<>>
             /\ With(fr)[n] = fr
             /\ \A k \in 1 .. n - 1 : With(fr)[k] = frames[k]
  <2>1. fr \in FrameSet
    BY <1>8 DEF Stands
  <2>2. /\ With(fr) \in Seq(FrameSet) /\ Len(With(fr)) = n /\ With(fr) # <<>>
        /\ With(fr)[n] = fr
        /\ \A k \in 1 .. n - 1 : With(fr)[k] = frames[k]
    BY <1>1, <2>1, Replaced DEF Below, With
  <2>3. \A k \in 1 .. n : k = n \/ (k \in 1 .. n - 1 /\ k \in 1 .. n)
    BY <1>3
  <2>4. QED
    BY <1>1, <1>8, <2>2, <2>3 DEF Upright
<1>9. QED
  BY <1>1, <1>2, <1>3, <1>4, <1>5, <1>6, <1>7, <1>8

(* The instruction that is executed.                                       *)
LEMMA Executed ==
  ASSUME Standing, NEW op, Executing(op)
  PROVE  /\ status = "running" /\ Instr.op = op
         /\ Frame.pc \in 1 .. Len(Body) /\ Instr \in Instructions /\ Formed(code, Instr)
         /\ Instr.in \in Seq(Types) /\ Instr.out \in Seq(Types)
         /\ \A k \in 1 .. Len(Instr.arg) : Instr.arg[k] \in Nat
         /\ Instr.op \in {"br", "br_if", "call"} => Instr.arg[1] \in Nat
         /\ Instr.op = "call" => Instr.arg[1] \in Fns
         /\ Stands(code, Advance)
         /\ Advance.pc = Frame.pc + 1 /\ Advance.fn = Frame.fn
         /\ Advance.control = Frame.control
<1>1. status = "running" /\ Frame.pc <= Len(Body) /\ Instr.op = op
  BY DEF Executing, Op, Instr
<1>2. /\ Stands(code, Frame) /\ Body \in Seq(Instructions) /\ Valid(code, Frame.fn)
      /\ Frame.fn \in Fns /\ code \in Modules /\ Frame \in FrameSet
  BY <1>1, Running
<1>3. Frame.pc \in 1 .. Len(Body)
  BY <1>1, <1>2 DEF Stands, FrameSet
<1>4. Instr \in Instructions
  BY <1>2, <1>3 DEF Instr
<1>5. Formed(code, Instr)
  <2>1. LET b == code[Frame.fn].body
            known == Known(code, Frame.fn)
        IN  \A p \in 1 .. Len(b) : Formed(code, b[p]) /\ known[p].ctrl # <<>>
    BY <1>2, Zenon DEF Valid
  <2>2. QED
    BY <1>3, <2>1 DEF Instr, Body
<1>6. Instr.in \in Seq(Types) /\ Instr.out \in Seq(Types) /\ Instr.arg \in Seq(Nat)
  BY <1>4 DEF Instructions
<1>7. DOMAIN code = Fns
  BY <1>2, ModulesAssumption
<1>8. /\ Instr.op \in {"br", "br_if", "call"} => Instr.arg[1] \in Nat
      /\ Instr.op = "call" => Instr.arg[1] \in Fns
  <2>1. Instr.op \in {"br", "br_if", "call"} => 1 \in 1 .. Len(Instr.arg)
    BY <1>5, <1>6 DEF Formed
  <2>2. QED
    BY <1>5, <1>6, <1>7, <2>1 DEF Formed
<1>9. /\ Advance.pc = Frame.pc + 1 /\ Advance.fn = Frame.fn
      /\ Advance.control = Frame.control /\ Advance \in FrameSet
  BY <1>2 DEF Advance, FrameSet
<1>10. Stands(code, Advance)
  BY <1>2, <1>3, <1>9 DEF Stands
<1>11. QED
  BY <1>1, <1>3, <1>4, <1>5, <1>6, <1>8, <1>9, <1>10

(* The control frame of a block that is entered.                           *)
Pushed(fr, i, height) ==
  LET s == Scan(code[fr.fn].body, fr.pc + 1)
  IN  [type |-> i.op, start |-> fr.pc + 1, else |-> IF i.op = "if" THEN s.else ELSE 0,
       end |-> s.end, params |-> i.in, results |-> i.out, height |-> height]

(* A block is entered at its first instruction.                            *)
LEMMA EntersTyped ==
  ASSUME Standing, NEW op \in Openers, Executing(op), NEW h \in Nat
  PROVE  LET fr == Entered(Frame, Instr, h)  t == Pushed(Frame, Instr, h)
             s == Scan(code[Frame.fn].body, Frame.pc + 1)
         IN  /\ Stands(code, fr)
             /\ fr = [fn |-> Frame.fn, pc |-> Frame.pc + 1,
                      control |-> Append(Frame.control, t)]
             /\ t \in ControlFrames
             /\ t.type = op /\ t.start = Frame.pc + 1 /\ t.end = s.end /\ t.params = Instr.in
             /\ t.results = Instr.out /\ t.height = h /\ (op = "if" => t.else = s.else)
             /\ Label(fr, 0) = t
<1> DEFINE fr == Entered(Frame, Instr, h)
           t == Pushed(Frame, Instr, h)
           s == Scan(code[Frame.fn].body, Frame.pc + 1)
           K == Known(code, Frame.fn)
<1>1. /\ status = "running" /\ Frame.pc \in 1 .. Len(Body) /\ Instr \in Instructions
      /\ Instr.op = op /\ Instr.in \in Seq(Types) /\ Instr.out \in Seq(Types)
  BY Executed
<1>2. /\ Stands(code, Frame) /\ Frame \in FrameSet /\ Typing(code[Frame.fn], K)
      /\ Len(Body) \in Nat
  BY <1>1, Running
<1>3. /\ s.end \in Nat /\ s.else \in Nat
      /\ ClosesAt(code[Frame.fn], K, Frame.pc + 1, Level(K, Frame.pc + 1), s.end - 1)
  <2> DEFINE b == code[Frame.fn]
  <2>1. Frame.pc \in 1 .. Len(b.body) /\ b.body[Frame.pc].op \in Openers /\ Typing(b, K)
    BY <1>1, <1>2 DEF Body, Instr
  <2> HIDE DEF b, K
  <2>2. QED
    BY <2>1, ScanFound DEF b
<1>4. s.end >= 1
  <2>1. s.end - 1 \in Frame.pc + 1 .. Len(code[Frame.fn].body)
    BY <1>3 DEF ClosesAt
  <2>2. QED
    BY <1>1, <1>2, <1>3, <2>1
<1> HIDE DEF K
<1>5. /\ t \in ControlFrames /\ t.start = Frame.pc + 1 /\ t.end = s.end /\ t.type = op
      /\ t.params = Instr.in
      /\ t.results = Instr.out /\ t.height = h /\ (op = "if" => t.else = s.else)
  <2> HIDE DEF s
  <2>1. t = [type |-> Instr.op, start |-> Frame.pc + 1,
             else |-> IF Instr.op = "if" THEN s.else ELSE 0,
             end |-> s.end, params |-> Instr.in, results |-> Instr.out, height |-> h]
    BY Zenon DEF Pushed, s
  <2>2. op \in {"block", "loop", "if"} /\ Frame.pc + 1 \in Nat
    BY <1>1, <1>2 DEF Openers
  <2>3. (IF Instr.op = "if" THEN s.else ELSE 0) \in Nat
    BY <1>3
  <2> HIDE DEF t
  <2>4. QED
    BY <1>1, <1>3, <2>1, <2>2, <2>3 DEF ControlFrames
<1>6. fr = [fn |-> Frame.fn, pc |-> Frame.pc + 1, control |-> Append(Frame.control, t)]
  <2>1. fr = [Frame EXCEPT !.pc = @ + 1, !.control = Append(@, t)]
    BY Zenon DEF Entered, Pushed
  <2> HIDE DEF fr, t
  <2>2. QED
    BY <1>2, <2>1 DEF FrameSet
<1> HIDE DEF fr, t, s
<1>7. Frame.control \in Seq(ControlFrames)
  BY <1>2 DEF FrameSet
<1> DEFINE c == Append(Frame.control, t)
<1>8. /\ c \in Seq(ControlFrames) /\ Len(c) = Len(Frame.control) + 1 /\ c[Len(c)] = t
      /\ Len(Frame.control) \in Nat
      /\ \A j \in 1 .. Len(Frame.control) : c[j] = Frame.control[j]
  BY <1>5, <1>7
<1>9. /\ fr.fn = Frame.fn /\ fr.pc = Frame.pc + 1 /\ fr.control = c
  BY <1>6
<1> HIDE DEF c
<1>10. fr \in FrameSet
  BY <1>1, <1>2, <1>6, <1>8 DEF FrameSet, c
<1>11. ASSUME NEW j \in 1 .. Len(c) PROVE c[j].start >= 1 /\ c[j].end >= 1
  <2>1. CASE j = Len(c)
    <3>1. t.start >= 1
      BY <1>1, <1>2, <1>5
    <3>2. QED
      BY <1>4, <1>5, <1>8, <2>1, <3>1
  <2>2. CASE j \in 1 .. Len(Frame.control)
    BY <1>2, <1>8, <2>2 DEF Stands
  <2>3. QED
    BY <1>8, <2>1, <2>2
<1>12. Stands(code, fr)
  BY <1>1, <1>2, <1>9, <1>10, <1>11 DEF Stands
<1>13. Label(fr, 0) = t
  BY <1>8, <1>9 DEF Label
<1>14. QED
  BY <1>5, <1>6, <1>12, <1>13 DEF fr, t, s, c

(* What is left of the operands when a block is left is operands.          *)
LEMMA UnwoundTyped ==
  ASSUME NEW s \in Seq(Types), NEW h \in Nat, NEW ts \in Seq(Types), CanUnwind(s, h, ts)
  PROVE  Unwound(s, h, ts) \in Seq(Types)
<1> DEFINE n == Len(s) - Len(ts) + 1
<1>1. Len(s) >= h + Len(ts) /\ Len(ts) \in Nat /\ Len(s) \in Nat
  BY DEF CanUnwind
<1>2. n \in 1 .. Len(s) + 1 /\ h <= Len(s)
  BY <1>1
<1> HIDE DEF n
<1>3. SubSeq(s, 1, h) \in Seq(Types) /\ SubSeq(s, n, Len(s)) \in Seq(Types)
  BY <1>1, <1>2
<1>4. Unwound(s, h, ts) = SubSeq(s, 1, h) \o SubSeq(s, n, Len(s))
  BY Zenon DEF Unwound, Last, n
<1>5. QED
  BY <1>3, <1>4

(* A frame moved to pc with the first d of its control frames.             *)
Cut(fr, pc, d) == [fr EXCEPT !.pc = pc, !.control = SubSeq(@, 1, d)]

(* A label of the running frame.                                           *)
LEMMA LabelTyped ==
  ASSUME NEW fr \in FrameSet, Stands(code, fr), NEW l \in Nat, l < Len(fr.control)
  PROVE  /\ Label(fr, l) \in ControlFrames /\ Label(fr, l).height \in Nat
         /\ Label(fr, l).results \in Seq(Types) /\ Carried(Label(fr, l)) \in Seq(Types)
         /\ Len(fr.control) - l \in 1 .. Len(fr.control)
         /\ Stands(code, Branched(fr, l))
         /\ Branched(fr, l).fn = fr.fn
         /\ Branched(fr, l).pc = IF Label(fr, l).type = "loop" THEN Label(fr, l).start
                                 ELSE Label(fr, l).end
         /\ Branched(fr, l).control
              = IF Label(fr, l).type = "loop" THEN Drop(fr.control, l)
                ELSE Drop(fr.control, l + 1)
<1> DEFINE t == Label(fr, l)
           c == fr.control
           n == Len(c)
<1>1. c \in Seq(ControlFrames) /\ n \in Nat /\ n - l \in 1 .. n /\ t = c[n - l]
  BY DEF FrameSet, Label
<1>2. t \in ControlFrames /\ t.start >= 1 /\ t.end >= 1
  BY <1>1 DEF Stands
<1>3. /\ t.height \in Nat /\ t.results \in Seq(Types) /\ t.params \in Seq(Types)
      /\ t.start \in Nat /\ t.end \in Nat
  BY <1>2 DEF ControlFrames
<1>4. Carried(t) \in Seq(Types)
  BY <1>3 DEF Carried
<1> HIDE DEF t
<1>5. ASSUME NEW d \in 0 .. n
      PROVE  LET r == SubSeq(c, 1, d)
             IN  r \in Seq(ControlFrames) /\ Len(r) = d /\ \A j \in 1 .. d : r[j] = c[j]
  BY <1>1
<1> HIDE DEF n
<1>6. ASSUME NEW d \in 0 .. n, NEW pc \in Nat, pc >= 1,
             NEW fr2, fr2 = Cut(fr, pc, d)
      PROVE  Stands(code, fr2) /\ fr2.fn = fr.fn /\ fr2.pc = pc /\ fr2.control = SubSeq(c, 1, d)
  <2> DEFINE r == SubSeq(c, 1, d)
  <2>1. r \in Seq(ControlFrames) /\ Len(r) = d /\ \A j \in 1 .. d : r[j] = c[j]
    BY <1>5
  <2>2. \A j \in 1 .. d : j \in 1 .. n
    BY <1>1
  <2> HIDE DEF r
  <2>3. fr2 = [fn |-> fr.fn, pc |-> pc, control |-> r]
    BY <1>6 DEF FrameSet, Cut, r
  <2>4. fr2 \in FrameSet
    BY <1>6, <2>1, <2>3 DEF FrameSet
  <2>5. Stands(code, fr2)
    BY <1>6, <2>1, <2>2, <2>3, <2>4 DEF Stands, n
  <2>6. QED
    BY <2>3, <2>5 DEF r
<1>7. n - l \in 0 .. n /\ n - (l + 1) \in 0 .. n
  BY <1>1
<1>8. CASE t.type = "loop"
  <2>1. Branched(fr, l) = Cut(fr, t.start, n - l)
    BY <1>8, Zenon DEF Branched, Cut, Drop, t, n
  <2>2. /\ Stands(code, Branched(fr, l)) /\ Branched(fr, l).fn = fr.fn
        /\ Branched(fr, l).pc = t.start /\ Branched(fr, l).control = SubSeq(c, 1, n - l)
    BY <1>2, <1>3, <1>6, <1>7, <2>1
  <2>3. QED
    BY <1>1, <1>2, <1>3, <1>4, <1>8, <2>2, Zenon DEF Drop, t, n
<1>9. CASE t.type # "loop"
  <2>1. Branched(fr, l) = Cut(fr, t.end, n - (l + 1))
    BY <1>9, Zenon DEF Branched, Cut, Drop, t, n
  <2>2. /\ Stands(code, Branched(fr, l)) /\ Branched(fr, l).fn = fr.fn
        /\ Branched(fr, l).pc = t.end /\ Branched(fr, l).control = SubSeq(c, 1, n - (l + 1))
    BY <1>2, <1>3, <1>6, <1>7, <2>1
  <2>3. QED
    BY <1>1, <1>2, <1>3, <1>4, <1>9, <2>2, Zenon DEF Drop, t, n
<1>10. QED
  BY <1>8, <1>9

(* A branch keeps the types.                                               *)
LEMMA BranchTyped ==
  ASSUME Standing, status = "running", NEW s \in Seq(Types), NEW l \in Nat,
         Branch(Frame, s, l), entry' \in Fns
  PROVE  Standing'
<1>1. /\ Stands(code, Frame) /\ Frame \in FrameSet
      /\ \A fr : Stands(code, fr) => Upright(code, With(fr))
  BY Running
<1>2. "TRAP" \in Errors
  BY DEF Errors
<1>3. CASE ~ CanBranch(s, l)
  <2>1. Abort("TRAP", s)
    BY <1>3 DEF Branch
  <2>2. QED
    BY <1>2, <2>1, Aborted
<1>4. CASE CanBranch(s, l)
  <2>1. l < Len(Frame.control) /\ Continue(With(Branched(Frame, l)), Carry(s, l))
    BY <1>4 DEF Branch, CanBranch
  <2>2. /\ Label(Frame, l).height \in Nat /\ Carried(Label(Frame, l)) \in Seq(Types)
        /\ Stands(code, Branched(Frame, l))
    BY <1>1, <2>1, LabelTyped
  <2>3. Carry(s, l) \in Seq(Types)
    BY <1>4, <2>2, UnwoundTyped DEF CanBranch, Carry
  <2>4. Upright(code, With(Branched(Frame, l)))
    BY <1>1, <2>2
  <2>5. QED
    BY <2>1, <2>3, <2>4, Continued
<1>5. QED
  BY <1>3, <1>4

(* The operands on top are there.                                          *)
LEMMA TypedLength ==
  ASSUME NEW s \in Seq(Types), NEW ts \in Seq(Types), Typed(s, ts)
  PROVE  Len(s) \in Nat /\ Len(ts) \in Nat /\ Len(ts) <= Len(s) /\ Len(s) - Len(ts) \in Nat
         /\ Drop(s, Len(ts)) \in Seq(Types)
<1>1. Len(s) \in Nat /\ Len(ts) \in Nat /\ Len(ts) <= Len(s)
  BY DEF Typed
<1>2. QED
  BY <1>1, Dropped

(* The condition of an instruction is taken.                               *)
LEMMA Popped ==
  ASSUME NEW s \in Seq(Types), s # <<>>
  PROVE  Drop(s, 1) \in Seq(Types) /\ Len(s) >= 1 /\ Len(Drop(s, 1)) = Len(s) - 1
<1>1. Len(s) \in Nat /\ Len(s) >= 1
  BY EmptySeq, LenProperties
<1>2. QED
  BY <1>1, Dropped

(* Entering a block keeps the types.                                       *)
LEMMA BlockTyped ==
  ASSUME Standing, Block, entry' \in Fns
  PROVE  Standing'
<1>1. PICK op \in {"block", "loop"} : Executing(op)
  BY DEF Block
<1>2. status = "running" /\ Instr.in \in Seq(Types) /\ op \in Openers
  BY <1>1, Executed DEF Openers
<1>3. stack \in Seq(Types) /\ \A fr : Stands(code, fr) => Upright(code, With(fr))
  BY <1>2, Running
<1>4. CASE Typed(stack, Instr.in)
  <2> DEFINE h == Len(stack) - Len(Instr.in)
  <2>1. Continue(With(Entered(Frame, Instr, h)), stack)
    BY <1>4 DEF Block
  <2>2. h \in Nat
    BY <1>2, <1>3, <1>4, TypedLength
  <2> HIDE DEF h
  <2>3. Stands(code, Entered(Frame, Instr, h))
    BY <1>1, <1>2, <2>2, EntersTyped
  <2>4. QED
    BY <1>3, <2>1, <2>3, Continued
<1>5. CASE ~ Typed(stack, Instr.in)
  <2>1. Abort("TRAP", stack) /\ "TRAP" \in Errors
    BY <1>5 DEF Block, Errors
  <2>2. QED
    BY <1>3, <2>1, Aborted
<1>6. QED
  BY <1>4, <1>5

(* Entering an if, or passing it by, keeps the types.                      *)
LEMMA IfTyped ==
  ASSUME Standing, If, entry' \in Fns
  PROVE  Standing'
<1> DEFINE s == Drop(stack, 1)
           h == Len(s) - Len(Instr.in)
           fr == Entered(Frame, Instr, h)
           t == Label(fr, 0)
<1>1. /\ Executing("if")
      /\ \/ Abort("UNSUPPORTED", stack)
         \/ /\ stack = <<>> \/ ~ Typed(s, Instr.in)
            /\ Abort("TRAP", s)
         \/ /\ stack # <<>> /\ Typed(s, Instr.in)
            /\ \/ Continue(With(fr), s)
               \/ /\ t.else # 0
                  /\ Continue(With([fr EXCEPT !.pc = t.else]), s)
               \/ /\ t.else = 0
                  /\ IF CanUnwind(s, t.height, t.results)
                     THEN Continue(With(Branched(fr, 0)), Unwound(s, t.height, t.results))
                     ELSE Abort("TRAP", s)
  BY Zenon DEF If
<1>2. status = "running" /\ Instr.in \in Seq(Types) /\ "if" \in Openers
  BY <1>1, Executed DEF Openers
<1>3. stack \in Seq(Types) /\ \A x : Stands(code, x) => Upright(code, With(x))
  BY <1>2, Running
<1>4. "TRAP" \in Errors /\ "UNSUPPORTED" \in Errors
  BY DEF Errors
<1>5. s \in Seq(Types)
  <2>1. CASE stack = <<>>
    BY <2>1 DEF Drop
  <2>2. CASE stack # <<>>
    BY <1>3, <2>2, Popped
  <2>3. QED
    BY <2>1, <2>2
<1>6. CASE Abort("UNSUPPORTED", stack)
  BY <1>3, <1>4, <1>6, Aborted
<1> HIDE DEF s
<1>7. CASE Abort("TRAP", s)
  BY <1>4, <1>5, <1>7, Aborted
<1>8. CASE Typed(s, Instr.in)
  <2>1. h \in Nat
    BY <1>2, <1>5, <1>8, TypedLength
  <2> HIDE DEF h
  <2>2. /\ Stands(code, fr) /\ t \in ControlFrames /\ t = Pushed(Frame, Instr, h)
        /\ fr = [fn |-> Frame.fn, pc |-> Frame.pc + 1,
                 control |-> Append(Frame.control, t)]
    BY <1>1, <1>2, <2>1, EntersTyped
  <2> HIDE DEF fr, t
  <2>3. fr \in FrameSet /\ t.else \in Nat /\ t.height \in Nat /\ t.results \in Seq(Types)
    BY <2>2 DEF Stands, ControlFrames
  <2>4. CASE Continue(With(fr), s)
    BY <1>3, <1>5, <2>2, <2>4, Continued
  <2>5. CASE t.else # 0 /\ Continue(With([fr EXCEPT !.pc = t.else]), s)
    <3> DEFINE x == [fr EXCEPT !.pc = t.else]
    <3>1. x = [fn |-> fr.fn, pc |-> t.else, control |-> fr.control]
      BY <2>3 DEF FrameSet
    <3> HIDE DEF x
    <3>2. x.fn = fr.fn /\ x.pc = t.else /\ x.control = fr.control /\ x \in FrameSet
      BY <2>3, <3>1 DEF FrameSet
    <3>3. t.else >= 1
      BY <2>3, <2>5
    <3>4. Stands(code, x)
      BY <2>2, <3>2, <3>3 DEF Stands
    <3>5. Continue(With(x), s)
      BY <2>5 DEF x
    <3>6. QED
      BY <1>3, <1>5, <3>4, <3>5, Continued
  <2>6. CASE /\ CanUnwind(s, t.height, t.results)
             /\ Continue(With(Branched(fr, 0)), Unwound(s, t.height, t.results))
    <3>1. 0 < Len(fr.control)
      <4>1. Frame.control \in Seq(ControlFrames)
        BY <1>2, Running DEF FrameSet
      <4>2. fr.control = Append(Frame.control, t)
        BY <2>2
      <4>3. QED
        BY <2>2, <4>1, <4>2
    <3>2. Stands(code, Branched(fr, 0))
      BY <2>2, <2>3, <3>1, LabelTyped
    <3>3. Unwound(s, t.height, t.results) \in Seq(Types)
      BY <1>5, <2>3, <2>6, UnwoundTyped
    <3>4. QED
      BY <1>3, <2>6, <3>2, <3>3, Continued
  <2>7. QED
    BY <1>1, <1>6, <1>7, <2>4, <2>5, <2>6, Zenon DEF fr, t
<1>9. QED
  BY <1>1, <1>6, <1>7, <1>8

(* An operation keeps the types.                                           *)
LEMMA OrdinaryTyped ==
  ASSUME Standing, Ordinary, entry' \in Fns
  PROVE  Standing'
<1>1. PICK op \in {"apply", "div"} : Executing(op)
  BY DEF Ordinary
<1>2. /\ status = "running" /\ Instr.in \in Seq(Types) /\ Instr.out \in Seq(Types)
      /\ Stands(code, Advance)
  BY <1>1, Executed
<1>3. stack \in Seq(Types) /\ \A fr : Stands(code, fr) => Upright(code, With(fr))
  BY <1>2, Running
<1> DEFINE s == Drop(stack, Len(Instr.in)) \o Instr.out
<1>4. CASE Typed(stack, Instr.in) /\ Continue(With(Advance), s)
  <2>1. s \in Seq(Types)
    BY <1>2, <1>3, <1>4, TypedLength
  <2> HIDE DEF s
  <2>2. QED
    BY <1>2, <1>3, <1>4, <2>1, Continued
<1>5. CASE Abort("TRAP", stack)
  <2>1. "TRAP" \in Errors
    BY DEF Errors
  <2>2. QED
    BY <1>3, <1>5, <2>1, Aborted
<1>6. QED
  BY <1>4, <1>5, Zenon DEF Ordinary

(* The frame that goes on after the end of a block.                        *)
LEMMA Closes ==
  ASSUME Standing, Executing("end"), Frame.control # <<>>
  PROVE  LET x == [Advance EXCEPT !.control = Drop(@, 1)]
         IN  /\ Stands(code, x) /\ x.fn = Frame.fn /\ x.pc = Frame.pc + 1
             /\ x.control = Drop(Frame.control, 1)
<1> DEFINE c == Frame.control
           x == [Advance EXCEPT !.control = Drop(@, 1)]
           n == Len(c) - 1
           r == SubSeq(c, 1, n)
<1>1. /\ status = "running" /\ Stands(code, Advance) /\ Advance.control = c
      /\ Advance.fn = Frame.fn /\ Advance.pc = Frame.pc + 1
  BY Executed
<1>2. Frame \in FrameSet
  BY <1>1, Running
<1>3. c \in Seq(ControlFrames) /\ n \in Nat /\ n <= Len(c) /\ Len(c) \in Nat
  BY <1>2 DEF FrameSet
<1>4. x = [Advance EXCEPT !.control = SubSeq(c, 1, n)] /\ r = Drop(c, 1)
  BY <1>1, Zenon DEF Drop
<1> HIDE DEF n, x, c
<1>5. r \in Seq(ControlFrames) /\ Len(r) = n /\ \A j \in 1 .. n : r[j] = c[j]
  BY <1>3
<1>6. \A j \in 1 .. n : j \in 1 .. Len(c)
  BY <1>3
<1> HIDE DEF r
<1>7. x = [fn |-> Advance.fn, pc |-> Advance.pc, control |-> r]
  BY <1>1, <1>4 DEF Stands, FrameSet, r
<1>8. Advance \in FrameSet
  BY <1>1 DEF Stands
<1>9. x \in FrameSet /\ x.fn = Advance.fn /\ x.pc = Advance.pc /\ x.control = r
  BY <1>5, <1>7, <1>8 DEF FrameSet
<1>10. Stands(code, x)
  BY <1>1, <1>5, <1>6, <1>9 DEF Stands
<1>11. QED
  BY <1>1, <1>4, <1>9, <1>10 DEF x, c

(* The end of a block keeps the types.                                     *)
LEMMA EndTyped ==
  ASSUME Standing, End, entry' \in Fns
  PROVE  Standing'
<1> DEFINE t == Label(Frame, 0)
           c == Frame.control
           x == [Advance EXCEPT !.control = Drop(@, 1)]
           s == Unwound(stack, t.height, t.results)
<1>1. /\ Executing("end") /\ c # <<>>
      /\ IF CanUnwind(stack, t.height, t.results)
         THEN Continue(IF Len(c) = 1 THEN Below ELSE With(x), s)
         ELSE Abort("TRAP", stack)
  BY Zenon DEF End
<1>2. /\ status = "running" /\ Stands(code, Advance)
      /\ Advance.control = c
  BY <1>1, Executed
<1>3. /\ stack \in Seq(Types) /\ Upright(code, Below) /\ Frame \in FrameSet
      /\ Stands(code, Frame)
      /\ \A fr : Stands(code, fr) => Upright(code, With(fr))
  BY <1>2, Running
<1>4. c \in Seq(ControlFrames) /\ 0 < Len(c) /\ Len(c) \in Nat
  BY <1>1, <1>3 DEF FrameSet
<1>5. t.height \in Nat /\ t.results \in Seq(Types)
  BY <1>3, <1>4, LabelTyped
<1>6. CASE CanUnwind(stack, t.height, t.results)
  <2>1. s \in Seq(Types)
    BY <1>3, <1>5, <1>6, UnwoundTyped
  <2>2. Continue(IF Len(c) = 1 THEN Below ELSE With(x), s)
    BY <1>1, <1>6
  <2> HIDE DEF s, t
  <2>3. CASE Len(c) = 1
    BY <1>3, <2>1, <2>2, <2>3, Continued
  <2>4. CASE Len(c) # 1
    <3>1. Stands(code, x)
      BY <1>1, Closes
    <3> HIDE DEF x, c
    <3>2. QED
      BY <1>3, <2>1, <2>2, <2>4, <3>1, Continued
  <2>5. QED
    BY <2>3, <2>4
<1>7. CASE ~ CanUnwind(stack, t.height, t.results)
  <2>1. Abort("TRAP", stack) /\ "TRAP" \in Errors
    BY <1>1, <1>7 DEF Errors
  <2>2. QED
    BY <1>3, <2>1, Aborted
<1>8. QED
  BY <1>6, <1>7

(* A return keeps the types.                                               *)
LEMMA ReturnTyped ==
  ASSUME Standing, Return, entry' \in Fns
  PROVE  Standing'
<1> DEFINE l == Len(Frame.control) - 1
<1>1. /\ Executing("return")
      /\ IF Frame.control = <<>> THEN Continue(Below, stack)
         ELSE IF CanBranch(stack, l) THEN Continue(Below, Carry(stack, l))
         ELSE Abort("TRAP", stack)
  BY Zenon DEF Return
<1>2. status = "running"
  BY <1>1, Executed
<1>3. /\ stack \in Seq(Types) /\ Upright(code, Below) /\ Frame \in FrameSet
      /\ Stands(code, Frame)
  BY <1>2, Running
<1>4. CASE Frame.control = <<>>
  BY <1>1, <1>3, <1>4, Continued
<1>5. CASE Frame.control # <<>> /\ CanBranch(stack, l)
  <2>1. l \in Nat /\ l < Len(Frame.control)
    BY <1>3, <1>5 DEF FrameSet
  <2> HIDE DEF l
  <2>2. Label(Frame, l).height \in Nat /\ Carried(Label(Frame, l)) \in Seq(Types)
    BY <1>3, <2>1, LabelTyped
  <2>3. Carry(stack, l) \in Seq(Types)
    BY <1>3, <1>5, <2>2, UnwoundTyped DEF CanBranch, Carry
  <2>4. QED
    BY <1>1, <1>3, <1>5, <2>3, Continued
<1>6. CASE Frame.control # <<>> /\ ~ CanBranch(stack, l)
  <2>1. Abort("TRAP", stack) /\ "TRAP" \in Errors
    BY <1>1, <1>6 DEF Errors
  <2>2. QED
    BY <1>3, <2>1, Aborted
<1>7. QED
  BY <1>4, <1>5, <1>6

(* A call keeps the types.                                                 *)
LEMMA CallsTyped ==
  ASSUME Standing, Call \/ CallIndirect, entry' \in Fns
  PROVE  Standing'
<1>1. "TRAP" \in Errors
  BY DEF Errors
<1>2. ASSUME NEW op, Executing(op)
      PROVE  stack \in Seq(Types) /\ Upright(code, With(Advance))
  BY <1>2, Executed, Running
<1>3. CASE Call
  <2>1. Executing("call") /\ CallFunction(Instr.arg[1], With(Advance), stack)
    BY <1>3 DEF Call
  <2>2. Instr.arg[1] \in Fns
    BY <2>1, Executed
  <2>3. QED
    BY <1>2, <2>1, <2>2, Called
<1>4. CASE CallIndirect
  <2> DEFINE s == Drop(stack, IF stack = <<>> THEN 0 ELSE 1)
  <2>1. /\ Executing("call_indirect")
        /\ \/ Abort("TRAP", s)
           \/ stack # <<>> /\ \E f \in Fns : CallFunction(f, With(Advance), Drop(stack, 1))
    BY <1>4 DEF CallIndirect
  <2>2. stack \in Seq(Types) /\ Upright(code, With(Advance))
    BY <1>2, <2>1
  <2>3. stack # <<>> => Drop(stack, 1) \in Seq(Types)
    BY <2>2, Popped
  <2>4. s \in Seq(Types)
    <3>1. CASE stack = <<>>
      <4>1. Drop(stack, 0) \in Seq(Types)
        BY <3>1 DEF Drop
      <4>2. QED
        BY <3>1, <4>1
    <3>2. CASE stack # <<>>
      BY <2>3, <3>2
    <3>3. QED
      BY <3>1, <3>2
  <2> HIDE DEF s
  <2>5. QED
    BY <1>1, <2>1, <2>2, <2>3, <2>4, Aborted, Called
<1>5. QED
  BY <1>3, <1>4

(* Every step keeps the types.                                             *)
LEMMA StandingStep == Standing /\ [Next]_vars => Standing'
<1> SUFFICES ASSUME Standing, [Next]_vars PROVE Standing'
  OBVIOUS
<1>1. entry \in Fns /\ "TRAP" \in Errors /\ "TRAP" \in Errors /\ stack \in Seq(Types)
  BY DEF Standing, TypeOK, Errors
<1>2. ASSUME NEW f \in Fns, StartJob(f) PROVE Standing'
  <2>1. PICK args \in {<<>>, code[f].params} : entry' = f /\ CallFunction(f, <<>>, args)
    BY <1>2 DEF StartJob
  <2>2. args \in Seq(Types)
    <3>1. code[f].params \in Seq(Types) /\ <<>> \in Seq(Types)
      BY Coded DEF Standing
    <3>2. QED
      BY <3>1
  <2>3. Upright(code, <<>>)
    BY DepthAssumption DEF Upright
  <2>4. QED
    BY <2>1, <2>2, <2>3, Called
<1>3. ASSUME Turn PROVE Standing'
  <2>1. entry' \in Fns
    BY <1>1, <1>3 DEF Turn
  <2>2. ASSUME LeaveFrame PROVE Standing'
    <3>1. status = "running" /\ Continue(Below, stack)
      BY <2>2 DEF LeaveFrame
    <3>2. QED
      BY <1>1, <2>1, <3>1, Running, Continued
  <2>3. ASSUME Ordinary PROVE Standing'
    BY <2>1, <2>3, OrdinaryTyped
  <2>4. ASSUME Block PROVE Standing'
    BY <2>1, <2>4, BlockTyped
  <2>5. ASSUME If PROVE Standing'
    BY <2>1, <2>5, IfTyped
  <2>6. ASSUME Else PROVE Standing'
    <3>1. Executing("else") /\ Branch(Frame, stack, 0)
      BY <2>6 DEF Else
    <3>2. QED
      BY <1>1, <2>1, <3>1, Executed, BranchTyped
  <2>7. ASSUME End PROVE Standing'
    BY <2>1, <2>7, EndTyped
  <2>8. ASSUME Br PROVE Standing'
    <3>1. Executing("br") /\ Branch(Frame, stack, Instr.arg[1])
      BY <2>8 DEF Br
    <3>2. QED
      BY <1>1, <2>1, <3>1, Executed, BranchTyped
  <2>9. ASSUME BrIf PROVE Standing'
    <3>1. Executing("br_if")
      BY <2>9 DEF BrIf
    <3>2. status = "running" /\ Instr.arg[1] \in Nat /\ Stands(code, Advance)
      BY <3>1, Executed
    <3>3. CASE stack = <<>>
      <4>1. Abort("TRAP", stack)
        BY <2>9, <3>3 DEF BrIf
      <4>2. QED
        BY <1>1, <2>1, <4>1, Aborted
    <3>4. CASE stack # <<>>
      <4>1. Drop(stack, 1) \in Seq(Types)
        BY <1>1, <3>4, Popped
      <4>2. CASE Continue(With(Advance), Drop(stack, 1))
        <5>1. Upright(code, With(Advance))
          BY <3>2, Running
        <5>2. QED
          BY <2>1, <4>1, <4>2, <5>1, Continued
      <4>3. CASE Branch(Frame, Drop(stack, 1), Instr.arg[1])
        BY <2>1, <3>2, <4>1, <4>3, BranchTyped
      <4>4. QED
        BY <2>9, <3>4, <4>2, <4>3 DEF BrIf
    <3>5. QED
      BY <3>3, <3>4
  <2>10. ASSUME BrTable PROVE Standing'
    <3>1. Executing("br_table")
      BY <2>10 DEF BrTable
    <3>2. status = "running" /\ \A k \in 1 .. Len(Instr.arg) : Instr.arg[k] \in Nat
      BY <3>1, Executed
    <3>3. CASE stack = <<>>
      <4>1. Abort("TRAP", stack)
        BY <2>10, <3>3 DEF BrTable
      <4>2. QED
        BY <1>1, <2>1, <4>1, Aborted
    <3>4. CASE stack # <<>>
      <4>1. Drop(stack, 1) \in Seq(Types)
        BY <1>1, <3>4, Popped
      <4>2. PICK k \in 1 .. Len(Instr.arg) : Branch(Frame, Drop(stack, 1), Instr.arg[k])
        BY <2>10, <3>4 DEF BrTable
      <4>3. QED
        BY <2>1, <3>2, <4>1, <4>2, BranchTyped
    <3>5. QED
      BY <3>3, <3>4
  <2>11. ASSUME Return PROVE Standing'
    BY <2>1, <2>11, ReturnTyped
  <2>12. ASSUME Unreachable PROVE Standing'
    <3>1. Abort("TRAP", <<>>) /\ <<>> \in Seq(Types)
      BY <2>12 DEF Unreachable
    <3>2. QED
      BY <1>1, <2>1, <3>1, Aborted
  <2>13. ASSUME Call \/ CallIndirect PROVE Standing'
    BY <2>1, <2>13, CallsTyped
  <2>14. QED
    BY <1>3, <2>2, <2>3, <2>4, <2>5, <2>6, <2>7, <2>8, <2>9, <2>10, <2>11, <2>12, <2>13
       DEF Turn
<1>4. ASSUME UNCHANGED vars PROVE Standing'
  BY <1>4 DEF vars, Standing, TypeOK
<1>5. QED
  BY <1>2, <1>3, <1>4 DEF Next

(* There is no frame at first.                                             *)
LEMMA StandingInitially == Init => Standing
<1> SUFFICES ASSUME Init PROVE Standing
  OBVIOUS
<1>1. /\ code \in Modules /\ frames = <<>> /\ stack = <<>> /\ status = "idle" /\ entry \in Fns
  BY DEF Init
<1>2. code \in [Fns -> Functions]
  BY <1>1, ModulesAssumption
<1>3. Len(frames) = 0 /\ 0 <= MaxCallDepth
  BY <1>1, DepthAssumption
<1>4. QED
  BY <1>1, <1>2, <1>3 DEF Standing, TypeOK

(* Frames can go on and variables have their types, always.                *)
LEMMA Stood == Spec => []Standing
<1>1. QED
  BY StandingInitially, StandingStep, PTL DEF Spec

(* The variables of the loop keep their types, and a job has frames        *)
(* exactly as long as it runs, whatever valid module it runs.              *)
THEOREM TypeCorrect == Spec => []TypeOK
<1>1. Standing => TypeOK
  BY DEF Standing
<1>2. QED
  BY <1>1, Stood, PTL

-----------------------------------------------------------------------------
(* What a job has before an instruction is what validation knows of it.    *)

(* A part of the operands that yields ts to a block of height h.           *)
LEMMA Unwinds ==
  ASSUME NEW ops \in Seq(Types), NEW s, NEW m \in 0 .. Len(ops), s = SubSeq(ops, 1, m),
         NEW ts \in Seq(Types), Top(s, ts), NEW h \in Nat, h + Len(ts) <= Len(s)
  PROVE  CanUnwind(s, h, ts) /\ OnBase(Unwound(s, h, ts), ops, h, ts)
<1>1. s \in Seq(Types) /\ Len(s) = m /\ Len(ops) \in Nat /\ Len(ts) \in Nat
  OBVIOUS
<1>2. Len(s) >= Len(ts) /\ Last(s, Len(ts)) = ts
  BY DEF Top, Last
<1>3. CanUnwind(s, h, ts)
  BY <1>1, <1>2 DEF CanUnwind, Typed
<1>4. SubSeq(s, 1, h) = SubSeq(ops, 1, h)
  <2>1. h <= m
    BY <1>1
  <2>2. QED
    BY <1>1, <2>1
<1>5. Unwound(s, h, ts) = SubSeq(s, 1, h) \o Last(s, Len(ts))
  BY Zenon DEF Unwound
<1>6. OnBase(Unwound(s, h, ts), ops, h, ts)
  BY <1>2, <1>4, <1>5, Zenon DEF OnBase
<1>7. QED
  BY <1>3, <1>6

(* s is what is left of the operands ops when some on top are taken.       *)
Prefix(s, ops) == \E m \in 0 .. Len(ops) : s = SubSeq(ops, 1, m)

(* A branch to label l of the control frames c goes, with the operands s,  *)
(* where validation has what it carries.                                   *)
Arrives(fn, K, c, l, s) ==
  LET t == c[Len(c) - l]  w == Unwound(s, t.height, Carried(t)) IN
  /\ CanUnwind(s, t.height, Carried(t))
  /\ t.type = "loop" => Framed(fn, K, t.start, Drop(c, l)) /\ K[t.start].ops = w
  /\ t.type # "loop" => Framed(fn, K, t.end, Drop(c, l + 1)) /\ K[t.end].ops = w

(* So does every branch validation accepts.                                *)
LEMMA Lands ==
  ASSUME NEW fn, NEW K, Typing(fn, K), fn.results \in Seq(Types),
         NEW p \in 1 .. Len(fn.body), NEW c \in Seq(ControlFrames), Framed(fn, K, p, c),
         NEW l \in Nat, l < Len(c), NEW s, Prefix(s, K[p].ops),
         Yields(K[p], s, LabelTypes(K[p], l)),
         LET e == K[p].ctrl[Len(K[p].ctrl) - l]
         IN  e.kind = "loop" => e.params # <<>> \/ e.results = <<>>
  PROVE  Arrives(fn, K, c, l, s)
<1>0. PICK m \in 0 .. Len(K[p].ops) : s = SubSeq(K[p].ops, 1, m)
  BY DEF Prefix
<1> DEFINE n == Len(c)
           j == n - l
           t == c[j]
           v == K[p]
           e == v.ctrl[j]
           ts == LabelTypes(v, l)
<1>1. p \in 1 .. Len(fn.body) + 1 /\ Level(K, p) \in Nat /\ Level(K, p) >= 1
  BY Levels
<1>2. n = Level(K, p) /\ n = Len(v.ctrl) /\ \A i \in 1 .. n : Holds(fn, K, p, i, c[i])
  BY DEF Framed, Level
<1>3. j \in 1 .. n /\ n \in Nat /\ n - (l + 1) = j - 1
  BY <1>1, <1>2
<1>4. Stacked(v) /\ v.ctrl # <<>>
  BY <1>1 DEF Typing
<1>5. /\ v.ops \in Seq(Types) /\ e.height \in Nat /\ e.height <= Inner(v).height
      /\ Inner(v).height \in Nat
      /\ e.params \in Seq(Types) /\ e.results \in Seq(Types)
  <2>1. /\ v.ops \in Seq(Types) /\ v.ctrl[j] \in Entries
        /\ v.ctrl[j].height <= Inner(v).height /\ Inner(v) \in Entries
    BY <1>2, <1>3, <1>4, StackedParts
  <2>2. QED
    BY <2>1 DEF Entries
<1>6. /\ t.type = (IF e.kind = "else" THEN "if" ELSE e.kind)
      /\ t.params = e.params /\ t.results = e.results /\ t.height = e.height
  BY <1>2, <1>3 DEF Holds
<1>7. ts = IF e.kind = "loop" THEN e.params ELSE e.results
  BY <1>2 DEF LabelTypes
<1>8. Carried(t) = ts
  <2>1. e.kind = "loop" => e.params # <<>> \/ e.results = <<>>
    BY <1>2
  <2> HIDE DEF t, e, ts
  <2>2. QED
    BY <1>6, <1>7, <2>1 DEF Carried
<1>9. ts \in Seq(Types)
  BY <1>5, <1>7
<1>10. Top(s, ts) /\ e.height + Len(ts) <= Len(s)
  <2>1. Top(s, ts) /\ Inner(v).height + Len(ts) <= Len(s)
    BY DEF Yields
  <2>2. Len(s) = m /\ m \in Nat /\ Len(ts) \in Nat
    BY <1>0, <1>5, <1>9
  <2> HIDE DEF ts, e, v
  <2>3. QED
    BY <1>5, <2>1, <2>2
<1>11. CanUnwind(s, t.height, Carried(t))
       /\ OnBase(Unwound(s, t.height, Carried(t)), v.ops, e.height, ts)
  <2> DEFINE ops == v.ops
             h == e.height
  <2>1. m \in 0 .. Len(ops) /\ s = SubSeq(ops, 1, m) /\ ops \in Seq(Types) /\ h \in Nat
        /\ h + Len(ts) <= Len(s)
    BY <1>0, <1>5, <1>10
  <2> HIDE DEF ts, h, t, ops
  <2>2. CanUnwind(s, h, ts) /\ OnBase(Unwound(s, h, ts), ops, h, ts)
    BY <1>9, <1>10, <2>1, Unwinds
  <2>3. QED
    BY <1>6, <1>8, <2>2 DEF h, ops
<1>12. ASSUME t.type = "loop"
       PROVE  /\ Framed(fn, K, t.start, SubSeq(c, 1, j))
              /\ OnBase(K[t.start].ops, v.ops, e.height, ts)
  <2>1. Framed(fn, K, t.start, SubSeq(c, 1, j))
        /\ OnBase(K[t.start].ops, v.ops, t.height, t.params)
    <3> HIDE DEF j, n
    <3>1. j \in 1 .. Level(K, p)
      BY <1>2, <1>3
    <3>2. QED
      BY <1>1, <1>12, <3>1, BranchesBack
  <2>2. ts = t.params
    BY <1>6, <1>7, <1>12
  <2>3. QED
    BY <1>6, <2>1, <2>2
<1>13. ASSUME t.type # "loop"
       PROVE  /\ Framed(fn, K, t.end, SubSeq(c, 1, j - 1))
              /\ OnBase(K[t.end].ops, v.ops, e.height, ts)
  <2>1. Framed(fn, K, t.end, SubSeq(c, 1, j - 1))
        /\ OnBase(K[t.end].ops, v.ops, t.height, t.results)
    <3> HIDE DEF j, n
    <3>1. j \in 1 .. Level(K, p)
      BY <1>2, <1>3
    <3>2. QED
      BY <1>1, <3>1, BranchesOut
  <2>2. ts = t.results
    <3>1. e.kind # "loop"
      BY <1>6, <1>13
    <3>2. QED
      BY <1>6, <1>7, <3>1
  <2>3. QED
    BY <1>6, <2>1, <2>2
<1>14. ASSUME NEW x, NEW y, OnBase(x, v.ops, e.height, ts), OnBase(y, v.ops, e.height, ts)
       PROVE  x = y
  BY <1>14, Zenon DEF OnBase
<1> HIDE DEF t, e, ts, v, j
<1>15. /\ t.type = "loop" => /\ Framed(fn, K, t.start, SubSeq(c, 1, j))
                              /\ K[t.start].ops = Unwound(s, t.height, Carried(t))
       /\ t.type # "loop" => /\ Framed(fn, K, t.end, SubSeq(c, 1, j - 1))
                             /\ K[t.end].ops = Unwound(s, t.height, Carried(t))
  BY <1>11, <1>12, <1>13, <1>14
<1>16. SubSeq(c, 1, j) = Drop(c, l) /\ SubSeq(c, 1, j - 1) = Drop(c, l + 1)
  BY <1>3, Zenon DEF Drop, j, n
<1>17. QED
  BY <1>11, <1>15, <1>16, Zenon DEF Arrives, j, t, n

(* The place a control frame names is the one the nesting of the text      *)
(* gives its label.                                                        *)
LEMMA LandsAt ==
  ASSUME NEW fn, NEW K, Typing(fn, K), NEW p \in 1 .. Len(fn.body), NEW c, Framed(fn, K, p, c),
         NEW l \in Nat, l < Len(c), fn.results \in Seq(Types)
  PROVE  LET t == c[Len(c) - l]  q == Labelled(fn.body, p, l)
         IN  /\ t.end = EndOf(fn.body, q) + 1
             /\ (IF t.type = "loop" THEN t.start ELSE t.end) = Target(fn.body, q)
<1> DEFINE j == Len(c) - l
           t == c[j]
           b == fn.body
           n == Len(b)
           q == Opener(fn, K, p, j)
<1>1. /\ p \in 1 .. n + 1 /\ n \in Nat /\ \A r \in 1 .. n + 1 : Level(K, r) \in Nat
      /\ Level(K, 1) = 1
  BY Levels
<1>2. Len(c) = Level(K, p) /\ j \in 1 .. Level(K, p) /\ Holds(fn, K, p, j, t)
      /\ j = Level(K, p) - l /\ l < Level(K, p) /\ j \in Nat /\ p \in 1 .. n /\ p \in Nat
  BY <1>1 DEF Framed
<1>3. Labelled(b, p, l) = q
  BY <1>2, LabelFound
<1>4. /\ j = 1 => q = 0
      /\ j # 1 => q \in 1 .. p - 1 /\ OpensAt(fn, K, p, j, q)
  BY <1>2, OpenerFound
<1> HIDE DEF q
<1>5. t.end \in Nat /\ ClosesAt(fn, K, p, j, t.end - 1)
  BY <1>2 DEF Holds
<1>6. j > 1 => t.start \in Nat /\ OpensAt(fn, K, p, j, t.start - 1) /\ b[t.start - 1].op = t.type
  BY <1>2 DEF Holds
<1>7. j # 1 => t.start = q + 1
  <2>1. SUFFICES ASSUME j # 1 PROVE t.start = q + 1
    OBVIOUS
  <2> DEFINE x == t.start - 1
  <2>2. OpensAt(fn, K, p, j, x) /\ OpensAt(fn, K, p, j, q) /\ t.start \in Nat
    BY <1>2, <1>4, <1>6, <2>1
  <2> HIDE DEF x, j
  <2>3. x = q
    BY <1>1, <1>2, <2>2, OpenedOnce DEF n, b
  <2>4. QED
    BY <2>2, <2>3 DEF x
<1> DEFINE e == t.end - 1
<1>8. j = 1 => t.type # "loop"
  <2>1. K[p].ctrl[1].kind = "block"
    BY Outermost
  <2>2. QED
    BY <1>2, <2>1 DEF Holds
<1> HIDE DEF j, t, b, n
<1>9. /\ e \in p .. n /\ b[e].op = "end" /\ Level(K, e) = j
      /\ \A r \in p .. e : Level(K, r) >= j
  BY <1>5 DEF ClosesAt, n, b
<1>10. /\ q \in 0 .. n /\ (q = 0 \/ b[q].op \in Openers) /\ Level(K, q + 1) = j
       /\ q \in 0 .. p - 1 /\ \A r \in q + 1 .. p : Level(K, r) >= j
  <2>1. CASE j = 1
    <3>1. q = 0 /\ q + 1 = 1
      BY <1>4, <2>1
    <3>2. ASSUME NEW r \in 1 .. p PROVE Level(K, r) >= j
      <4>1. r \in 1 .. n
        BY <1>1, <1>2
      <4>2. QED
        BY <2>1, <4>1, Levels DEF n, b
    <3>3. QED
      BY <1>1, <1>2, <2>1, <3>1, <3>2
  <2>2. CASE j # 1
    <3>1. q \in 1 .. p - 1 /\ OpensAt(fn, K, p, j, q)
      BY <1>4, <2>2
    <3>2. q \in 1 .. n /\ Level(K, q + 1) = j
      BY <1>1, <1>2, <3>1, Inside DEF n, b
    <3>3. b[q].op \in Openers /\ \A r \in q + 1 .. p : Level(K, r) >= j
      BY <3>1 DEF OpensAt, b
    <3>4. QED
      BY <1>2, <3>1, <3>2, <3>3
  <2>3. QED
    BY <2>1, <2>2
<1>11. ClosesAt(fn, K, q + 1, Level(K, q + 1), e)
  <2>1. e \in q + 1 .. n
    BY <1>2, <1>9, <1>10
  <2>2. \A r \in q + 1 .. e : r \in q + 1 .. p \/ r \in p .. e
    BY <1>2, <1>9, <1>10
  <2>3. QED
    BY <1>9, <1>10, <2>1, <2>2 DEF ClosesAt, n, b
<1>12. EndOf(b, q) = e
  BY <1>10, <1>11, EndFound DEF n, b
<1>13. t.end = e + 1
  BY <1>5
<1> HIDE DEF e
<1>14. t.end = EndOf(b, q) + 1
  BY <1>12, <1>13
<1>15. (IF t.type = "loop" THEN t.start ELSE t.end) = Target(b, q)
  <2>1. CASE j = 1
    BY <1>4, <1>8, <1>14, <2>1 DEF Target
  <2>2. CASE j # 1
    <3>1. t.start = q + 1 /\ q # 0 /\ q \in Nat
      BY <1>2, <1>4, <1>7, <2>2
    <3>2. t.start - 1 = q /\ b[q].op = t.type
      BY <1>2, <1>6, <2>2, <3>1
    <3>3. QED
      BY <1>14, <3>1, <3>2 DEF Target
  <2>3. QED
    BY <2>1, <2>2
<1>16. QED
  BY <1>3, <1>14, <1>15 DEF j, t, b

(* A call frame is at an instruction that can be reached, with the control *)
(* frames of the blocks around it.                                         *)
Sound(m, fr) == Framed(m[fr.fn], Known(m, fr.fn), fr.pc, fr.control)

(* The operands validation knows there.                                    *)
Ops(m, fr) == Known(m, fr.fn)[fr.pc].ops

(* A call frame waits for a call of g, with nothing but what g gives.      *)
Waits(m, fr, g) ==
  LET v == Known(m, fr.fn)[fr.pc - 1]
      i == m[fr.fn].body[fr.pc - 1]
  IN  /\ fr.pc \in 2 .. Len(m[fr.fn].body)
      /\ Drop(v.ops, IF i.op = "call" THEN Len(m[i.arg[1]].params) ELSE Len(i.in) + 1) = <<>>
      /\ Ops(m, fr) = m[g].results

(* The frames fs of a job that began with the function e, each but the     *)
(* last one waiting for the one above it.                                  *)
Chained(m, e, fs) ==
  /\ \A k \in 1 .. Len(fs) : Sound(m, fs[k])
  /\ \A k \in 1 .. Len(fs) - 1 : Waits(m, fs[k], fs[k+1].fn)
  /\ fs # <<>> => fs[1].fn = e

(* The operands s of such a job.                                           *)
Left(m, e, fs) == IF fs = <<>> THEN m[e].results ELSE Ops(m, fs[Len(fs)])

Agreeing ==
  status \in {"running", "ok"} =>
    Chained(code, entry, frames) /\ stack = Left(code, entry, frames)

(* The frame fr takes the place of the running one.                        *)
Moved(fr, s) ==
  /\ Stands(code, fr) /\ Sound(code, fr) /\ fr.fn = Frame.fn
  /\ s = Ops(code, fr)
  /\ Continue(With(fr), s)

(* What is known of the running frame.                                     *)
LEMMA RunningSound ==
  ASSUME Standing, Agreeing, status = "running"
  PROVE  LET fn == code[Frame.fn]  K == Known(code, Frame.fn)
         IN  /\ Typing(fn, K) /\ Framed(fn, K, Frame.pc, Frame.control)
             /\ stack = K[Frame.pc].ops /\ fn.results \in Seq(Types) /\ fn.body = Body
             /\ Frame.control \in Seq(ControlFrames)
             /\ code \in [DOMAIN code -> Functions] /\ fn.body \in Seq(Instructions)
             /\ Reachable(K[Frame.pc])
<1>1. /\ frames # <<>> /\ Len(frames) \in Nat /\ Len(frames) \in 1 .. Len(frames)
      /\ Frame \in FrameSet /\ Frame.fn \in Fns
      /\ Typing(code[Frame.fn], Known(code, Frame.fn)) /\ code \in Modules
  BY Running
<1>2. Chained(code, entry, frames) /\ stack = Left(code, entry, frames)
  BY DEF Agreeing
<1>3. Sound(code, Frame)
  BY <1>1, <1>2 DEF Chained, Frame
<1>4. stack = Ops(code, Frame)
  BY <1>1, <1>2 DEF Left, Frame
<1>5. /\ code[Frame.fn].results \in Seq(Types) /\ code \in [DOMAIN code -> Functions]
      /\ code[Frame.fn].body \in Seq(Instructions)
  BY <1>1, Coded
<1>6. Frame.control \in Seq(ControlFrames)
  BY <1>1 DEF FrameSet
<1>7. Reachable(Known(code, Frame.fn)[Frame.pc])
  BY <1>3 DEF Sound, Framed
<1>8. QED
  BY <1>1, <1>3, <1>4, <1>5, <1>6, <1>7 DEF Sound, Ops, Body

(* A frame put in the place of the running one is among the others as it   *)
(* was.                                                                    *)
LEMMA Placed ==
  ASSUME Standing, Agreeing, status = "running", NEW fr, Stands(code, fr), Sound(code, fr),
         fr.fn = Frame.fn
  PROVE  LET fs == With(fr) IN
         /\ Chained(code, entry, fs) /\ fs # <<>> /\ fs[Len(fs)] = fr
         /\ Len(fs) = Len(frames) /\ Upright(code, fs)
<1> DEFINE n == Len(frames)
           fs == With(fr)
<1>1. /\ n \in Nat /\ n \in 1 .. n /\ frames # <<>> /\ Upright(code, fs)
      /\ fs # <<>> /\ Len(fs) = n /\ fs[n] = fr /\ \A k \in 1 .. n - 1 : fs[k] = frames[k]
  BY Running
<1>2. Chained(code, entry, frames)
  BY DEF Agreeing
<1> HIDE DEF n, fs
<1>3. ASSUME NEW k \in 1 .. n PROVE Sound(code, fs[k])
  <2>1. k = n \/ k \in 1 .. n - 1
    BY <1>1
  <2>2. QED
    BY <1>1, <1>2, <2>1 DEF Chained, n
<1>4. ASSUME NEW k \in 1 .. n - 1 PROVE Waits(code, fs[k], fs[k+1].fn)
  <2>1. Waits(code, frames[k], frames[k+1].fn)
    BY <1>2 DEF Chained, n
  <2>2. fs[k+1].fn = frames[k+1].fn
    <3>1. k + 1 = n \/ k + 1 \in 1 .. n - 1
      BY <1>1
    <3>2. QED
      BY <1>1, <3>1 DEF Frame, n
  <2>3. QED
    BY <1>1, <2>1, <2>2
<1>5. fs[1].fn = entry
  <2>1. n = 1 \/ 1 \in 1 .. n - 1
    BY <1>1
  <2>2. QED
    BY <1>1, <1>2, <2>1 DEF Frame, Chained, n
<1>6. Chained(code, entry, fs)
  BY <1>1, <1>3, <1>4, <1>5 DEF Chained
<1>7. QED
  BY <1>1, <1>6 DEF fs, n

(* A job that moves to an instruction it can be at agrees.                 *)
LEMMA MovedAgrees ==
  ASSUME Standing, Agreeing, status = "running", NEW fr, NEW s, Moved(fr, s), entry' = entry
  PROVE  Agreeing'
<1> DEFINE fs == With(fr)
<1>1. Chained(code, entry, fs) /\ fs # <<>> /\ fs[Len(fs)] = fr
  BY Placed DEF Moved
<1> HIDE DEF fs
<1>2. s = Left(code, entry, fs)
  BY <1>1 DEF Left, Moved
<1>3. code' = code /\ frames' = fs /\ stack' = s
  BY DEF Moved, Continue, fs
<1>4. QED
  BY <1>1, <1>2, <1>3 DEF Agreeing

(* A job that leaves a function with its results agrees.                   *)
LEMMA LeftAgrees ==
  ASSUME Standing, Agreeing, status = "running", NEW s, s = code[Frame.fn].results,
         Continue(Below, s), entry' = entry
  PROVE  Agreeing'
<1> DEFINE n == Len(frames)
           fs == Below
<1>1. /\ n \in Nat /\ n \in 1 .. n /\ frames # <<>> /\ frames[n] = Frame
      /\ Len(fs) = n - 1 /\ \A k \in 1 .. n - 1 : fs[k] = frames[k]
  BY Running DEF Frame
<1>2. Chained(code, entry, frames)
  BY DEF Agreeing
<1> HIDE DEF n, fs
<1>3. ASSUME NEW k \in 1 .. n - 1 PROVE Sound(code, fs[k])
  BY <1>1, <1>2 DEF Chained, n
<1>4. ASSUME NEW k \in 1 .. n - 2 PROVE Waits(code, fs[k], fs[k+1].fn)
  <2>1. k \in 1 .. n - 1 /\ k + 1 \in 1 .. n - 1
    BY <1>1
  <2>2. Waits(code, frames[k], frames[k+1].fn)
    BY <1>2, <2>1 DEF Chained, n
  <2>3. QED
    BY <1>1, <2>1, <2>2
<1>5. CASE n = 1
  <2>1. Len(fs) = 0 /\ fs = <<>>
    <3>1. Below \in Seq(FrameSet)
      BY Running DEF Upright
    <3>2. Len(fs) = 0
      BY <1>1, <1>5
    <3>3. QED
      BY <3>1, <3>2, EmptySeq DEF fs
  <2>2. entry = Frame.fn
    BY <1>1, <1>2, <1>5 DEF Chained
  <2>3. QED
    BY <2>1, <2>2 DEF Agreeing, Continue, Chained, Left, fs
<1>6. CASE n # 1
  <2>1. n - 1 \in 1 .. n - 1 /\ n - 1 + 1 = n /\ 1 \in 1 .. n - 1 /\ n - 1 - 1 = n - 2
    BY <1>1, <1>6
  <2>2. Waits(code, frames[n-1], Frame.fn)
    BY <1>1, <1>2, <2>1 DEF Chained, n
  <2>3. s = Ops(code, fs[n-1])
    BY <1>1, <2>1, <2>2 DEF Waits
  <2>4. fs[1].fn = entry
    BY <1>1, <1>2, <2>1 DEF Chained
  <2>5. fs # <<>>
    BY <1>1, <2>1
  <2>6. Chained(code, entry, fs) /\ s = Left(code, entry, fs)
    BY <1>1, <1>3, <1>4, <2>1, <2>3, <2>4, <2>5 DEF Chained, Left
  <2>7. code' = code /\ frames' = fs /\ stack' = s
    BY DEF Continue, fs
  <2>8. QED
    BY <2>6, <2>7 DEF Agreeing
<1>7. QED
  BY <1>5, <1>6

(* A job that failed agrees.                                               *)
LEMMA AbortedAgrees ==
  ASSUME NEW e \in Errors, NEW s, Abort(e, s)
  PROVE  Agreeing'
<1>1. status' = e /\ e \notin {"running", "ok"}
  BY DEF Abort, Errors
<1>2. QED
  BY <1>1 DEF Agreeing

(* It is at its first instruction, without operands.                      *)
LEMMA FirstSound ==
  ASSUME NEW m \in Modules, NEW f \in Fns, ~ m[f].imported
  PROVE  Sound(m, First(m, f)) /\ Ops(m, First(m, f)) = <<>> /\ First(m, f).fn = f
<1> DEFINE fn == m[f]
           K == Known(m, f)
           b == fn.body
           n == Len(b)
           t == [type |-> "block", start |-> 1, else |-> 0, end |-> n + 1,
                 params |-> <<>>, results |-> fn.results, height |-> 0]
           c == <<t>>
<1>1. Typing(fn, K) /\ fn.results \in Seq(Types)
  BY Coded
<1> HIDE DEF fn, K
<1>2. K[1] = Start(fn)
  BY <1>1 DEF Typing
<1>3. /\ K[1].ops = <<>> /\ Len(K[1].ctrl) = 1 /\ K[1].ctrl[1].kind = "block"
      /\ K[1].ctrl[1].params = <<>> /\ K[1].ctrl[1].results = fn.results
      /\ K[1].ctrl[1].height = 0 /\ ~ K[1].ctrl[1].dead
  BY <1>1, <1>2, Started
<1>4. /\ n \in Nat /\ n >= 1 /\ n \in 1 .. n /\ n \in 1 .. n + 1
      /\ \A r \in 1 .. n : Level(K, r) >= 1
      /\ Level(K, n + 1) = 0 /\ Level(K, n) \in Nat /\ Level(K, n) >= 1
      /\ Level(K, n+1) = IF b[n].op \in Openers THEN Level(K, n) + 1
                         ELSE IF b[n].op = "end" THEN Level(K, n) - 1 ELSE Level(K, n)
  BY <1>1, Levels
<1>5. b[n].op = "end" /\ Level(K, n) = 1
  BY <1>4
<1>6. ClosesAt(fn, K, 1, 1, n)
  BY <1>4, <1>5 DEF ClosesAt
<1> HIDE DEF n
<1>7. /\ t.type = "block" /\ t.params = <<>> /\ t.results = fn.results /\ t.height = 0
      /\ t.end = n + 1
  OBVIOUS
<1> HIDE DEF t
<1>8. t.end \in Nat /\ t.end - 1 = n
  BY <1>4, <1>7
<1>9. Holds(fn, K, 1, 1, t)
  BY <1>3, <1>6, <1>7, <1>8 DEF Holds
<1>10. Len(c) = 1 /\ c[1] = t /\ 1 \in 1 .. n + 1
  BY <1>4
<1> HIDE DEF c
<1>11. Reachable(K[1])
  BY <1>3 DEF Reachable
<1>12. Level(K, 1) = 1
  BY <1>3 DEF Level
<1>13. Framed(fn, K, 1, c)
  BY <1>9, <1>10, <1>11, <1>12 DEF Framed, n
<1>14. /\ First(m, f).fn = f /\ First(m, f).pc = 1 /\ First(m, f).control = c
  BY DEF First, c, t, n, fn
<1>15. QED
  BY <1>3, <1>13, <1>14 DEF Sound, Ops, fn, K

(* A call of f over the frames fs with the operands s is as validation has *)
(* it.                                                                     *)
Calling(m, e, fs, f, s) ==
  LET rest == Drop(s, Len(m[f].params)) IN
  /\ Chained(m, e, fs)
  /\ fs = <<>> => e = f /\ s \in {<<>>, m[f].params}
  /\ fs # <<>> => /\ Typed(s, m[f].params)
                  /\ rest \o m[f].results = Ops(m, fs[Len(fs)])
                  /\ ~ m[f].imported => rest = <<>> /\ Waits(m, fs[Len(fs)], f)

(* How it may fail.                                                        *)
Failures(m, f, fs) ==
  (IF f \in Trapped THEN {"TRAP", "HOST"} ELSE {})
  \cup (IF m[f].imported THEN {"TRAP", "HOST"}
        ELSE IF Len(fs) >= MaxCallDepth THEN {"CALL_DEPTH_EXCEEDED"} ELSE {})
Failed(es) == frames' = <<>> /\ status' \in es /\ code' = code
Settled(fs) == frames' = fs /\ status' = (IF fs = <<>> THEN "ok" ELSE "running") /\ code' = code

(* What a call of f over the frames fs may come to.                        *)
Made(f, fs) ==
  \/ Failed(Failures(code, f, fs))
  \/ code[f].imported /\ Settled(fs)
  \/ /\ ~ code[f].imported /\ Len(fs) < MaxCallDepth
     /\ Settled(Append(fs, First(code, f)))

(* So it does, and leaves a job that agrees.                               *)
LEMMA CallAgrees ==
  ASSUME Standing, NEW f \in Fns, NEW fs, Upright(code, fs), NEW s \in Seq(Types), NEW e,
         Calling(code, e, fs, f, s), entry' = e, CallFunction(f, fs, s)
  PROVE  Agreeing' /\ Made(f, fs)
<1> DEFINE ps == code[f].params
           rs == code[f].results
           rest == Drop(s, Len(ps))
           Done == Agreeing' /\ Made(f, fs)
<1>1. /\ code \in Modules /\ ps \in Seq(Types) /\ rs \in Seq(Types)
      /\ fs \in Seq(FrameSet) /\ Len(fs) \in Nat /\ MaxCallDepth \in Nat
  BY Coded, DepthAssumption DEF Standing, Upright
<1>2. /\ Chained(code, e, fs)
      /\ fs = <<>> => e = f /\ s \in {<<>>, ps}
      /\ fs # <<>> => /\ Typed(s, ps)
                      /\ rest \o rs = Ops(code, fs[Len(fs)])
                      /\ ~ code[f].imported => rest = <<>> /\ Waits(code, fs[Len(fs)], f)
  BY Zenon DEF Calling
<1> SUFFICES Done
  OBVIOUS
<1>20. ASSUME NEW er \in Failures(code, f, fs), NEW x, Abort(er, x) PROVE Done
  <2>1. er \in Errors
    BY DEF Failures, Errors
  <2>2. Agreeing'
    BY <1>20, <2>1, AbortedAgrees
  <2>3. Failed(Failures(code, f, fs))
    BY <1>20 DEF Abort, Failed
  <2>4. QED
    BY <2>2, <2>3 DEF Made
<1>3. CASE Refused(f, s)
  <2>1. f \in Trapped /\ \E er \in {"TRAP", "HOST"} : Abort(er, s)
    BY <1>3 DEF Refused
  <2>2. {"TRAP", "HOST"} \subseteq Failures(code, f, fs)
    BY <2>1 DEF Failures
  <2> HIDE DEF Done
  <2>3. QED
    BY <1>20, <2>1, <2>2
<1>4. CASE CallImported(f, fs, s)
  <2>1. code[f].imported
    BY <1>4 DEF CallImported
  <2>2. {"TRAP", "HOST"} \subseteq Failures(code, f, fs)
    BY <2>1 DEF Failures
  <2>3. CASE Typed(s, ps) /\ Continue(fs, rest \o rs)
    <3>1. rest \o rs = Left(code, e, fs)
      <4>1. CASE fs = <<>>
        <5>1. rest = <<>>
          <6>1. s = <<>> \/ s = ps
            BY <1>2, <4>1
          <6>2. Len(s) = Len(ps)
            BY <1>1, <2>3, <6>1 DEF Typed
          <6>3. QED
            BY <1>1, <6>2 DEF Drop
        <5>2. rest \o rs = rs
          <6> HIDE DEF rest, rs
          <6>1. QED
            BY <1>1, <5>1
        <5>3. QED
          BY <1>2, <4>1, <5>2 DEF Left
      <4>2. CASE fs # <<>>
        BY <1>2, <4>2 DEF Left
      <4>3. QED
        BY <4>1, <4>2
    <3> DEFINE all == rest \o rs
    <3>2. all = Left(code, e, fs) /\ Continue(fs, all)
      BY <2>3, <3>1
    <3> HIDE DEF all, rest, Done
    <3>3. code' = code /\ frames' = fs /\ stack' = all
      BY <3>2 DEF Continue
    <3>4. Agreeing'
      BY <1>2, <3>2, <3>3 DEF Agreeing
    <3>5. Settled(fs)
      BY <3>2 DEF Continue, Settled
    <3>6. QED
      BY <2>1, <3>4, <3>5 DEF Done, Made
  <2>4. CASE \E er \in {"TRAP", "HOST"} : \E x : Abort(er, x)
    <3> HIDE DEF Done
    <3>1. QED
      BY <1>20, <2>2, <2>4
  <2>5. QED
    <3> HIDE DEF Done
    <3>1. \/ Typed(s, ps) /\ Continue(fs, rest \o rs)
          \/ Abort("TRAP", s)
          \/ \E er \in {"TRAP", "HOST"} : Abort(er, rest)
          \/ \E k \in 1 .. Len(rs) - 1 : Abort("TRAP", rest \o SubSeq(rs, 1, k))
      BY <1>4, Zenon DEF CallImported
    <3>2. QED
      BY <2>3, <2>4, <3>1, Zenon
<1>5. CASE PushFrame(f, fs, s)
  <2> DEFINE pushed == Append(fs, First(code, f))
  <2>1. /\ ~ code[f].imported
        /\ CASE Len(fs) >= MaxCallDepth -> Abort("CALL_DEPTH_EXCEEDED", s)
             [] Len(fs) < MaxCallDepth /\ Typed(s, ps) -> Continue(pushed, rest)
             [] Len(fs) < MaxCallDepth /\ Len(s) < Len(ps) /\ fs = <<>> ->
                  Continue(pushed, s)
             [] OTHER -> Abort("TRAP", s)
    BY <1>5, Zenon DEF PushFrame, First
  <2> HIDE DEF Done
  <2>2. CASE Len(fs) >= MaxCallDepth
    <3>1. Abort("CALL_DEPTH_EXCEEDED", s)
      BY <1>1, <2>1, <2>2
    <3>2. "CALL_DEPTH_EXCEEDED" \in Failures(code, f, fs)
      BY <2>1, <2>2 DEF Failures
    <3>3. QED
      BY <1>20, <3>1, <3>2
  <2>3. CASE Len(fs) < MaxCallDepth
    <3>1. ~ (Len(fs) >= MaxCallDepth)
      BY <1>1, <2>3
    <3>2. Continue(pushed, <<>>)
      <4>1. CASE fs # <<>>
        <5>1. Typed(s, ps) /\ rest = <<>>
          BY <1>2, <2>1, <4>1
        <5>2. ~ (Len(s) < Len(ps))
          BY <1>1, <5>1 DEF Typed
        <5> HIDE DEF rest, pushed
        <5>3. QED
          BY <2>1, <2>3, <3>1, <5>1, <5>2
      <4>2. CASE fs = <<>>
        <5>1. s = <<>> \/ s = ps
          BY <1>2, <4>2
        <5>2. CASE Typed(s, ps)
          <6>1. Len(s) = Len(ps)
            BY <1>1, <5>1, <5>2 DEF Typed
          <6>2. rest = <<>>
            BY <1>1, <6>1 DEF Drop
          <6>3. ~ (Len(s) < Len(ps))
            BY <1>1, <6>1
          <6> HIDE DEF rest, pushed
          <6>4. QED
            BY <2>1, <2>3, <3>1, <5>2, <6>2, <6>3
        <5>3. CASE ~ Typed(s, ps)
          <6>1. s = <<>> /\ Len(s) < Len(ps)
            <7>1. s # ps
              <8>1. Typed(ps, ps)
                BY <1>1 DEF Typed, Last
              <8>2. QED
                BY <5>3, <8>1
            <7>2. s = <<>>
              BY <5>1, <7>1
            <7>3. QED
              BY <1>1, <7>1, <7>2, EmptySeq
          <6> HIDE DEF rest, pushed
          <6>2. QED
            BY <2>1, <2>3, <3>1, <4>2, <5>3, <6>1
        <5>4. QED
          BY <5>2, <5>3
      <4>3. QED
        BY <4>1, <4>2
    <3> DEFINE new == First(code, f)
               n == Len(fs)
    <3>3. Sound(code, new) /\ Ops(code, new) = <<>> /\ new.fn = f
      BY <1>1, <2>1, FirstSound
    <3>4. new \in FrameSet
      BY <1>1, <2>1, FirstStands DEF Stands
    <3>5. /\ Len(pushed) = n + 1 /\ pushed # <<>> /\ pushed[n+1] = new /\ n \in Nat
          /\ \A k \in 1 .. n : pushed[k] = fs[k]
      <4>1. pushed = Append(fs, new)
        OBVIOUS
      <4> HIDE DEF new, pushed
      <4>2. /\ Len(pushed) = Len(fs) + 1 /\ pushed[Len(fs)+1] = new
            /\ \A k \in 1 .. Len(fs) : pushed[k] = fs[k]
        BY <1>1, <3>4, <4>1, AppendProperties
      <4>3. pushed # <<>>
        <5>1. pushed \in Seq(FrameSet)
          BY <1>1, <3>4, <4>1, AppendProperties
        <5>2. QED
          BY <1>1, <4>2, <5>1, EmptySeq
      <4>4. QED
        BY <1>1, <4>2, <4>3
    <3> HIDE DEF pushed, new, n
    <3>6. ASSUME NEW k \in 1 .. n + 1 PROVE Sound(code, pushed[k])
      <4>1. k = n + 1 \/ k \in 1 .. n
        BY <3>5
      <4>2. QED
        BY <1>2, <3>3, <3>5, <4>1 DEF Chained, n
    <3>7. ASSUME NEW k \in 1 .. n PROVE Waits(code, pushed[k], pushed[k+1].fn)
      <4>1. CASE k = n
        <5>1. fs # <<>>
          BY <3>5, <4>1, EmptySeq DEF n
        <5>2. Waits(code, fs[n], f)
          BY <1>2, <2>1, <5>1 DEF n
        <5>3. QED
          BY <3>3, <3>5, <4>1, <5>2
      <4>2. CASE k # n
        <5>1. k \in 1 .. n - 1 /\ k + 1 \in 1 .. n
          BY <3>5, <4>2
        <5>2. Waits(code, fs[k], fs[k+1].fn)
          BY <1>2, <5>1 DEF Chained, n
        <5>3. QED
          BY <3>5, <5>1, <5>2
      <4>3. QED
        BY <4>1, <4>2
    <3>8. pushed[1].fn = e
      <4>1. CASE fs = <<>>
        <5>1. n + 1 = 1
          BY <4>1, EmptySeq DEF n
        <5>2. QED
          BY <1>2, <3>3, <3>5, <4>1, <5>1
      <4>2. CASE fs # <<>>
        <5>1. n # 0
          BY <1>1, <4>2, EmptySeq DEF n
        <5>2. 1 \in 1 .. n
          BY <3>5, <5>1
        <5>3. QED
          BY <1>2, <3>5, <4>2, <5>2 DEF Chained
      <4>3. QED
        BY <4>1, <4>2
    <3>9. \A k \in 1 .. n + 1 - 1 : k \in 1 .. n
      BY <3>5
    <3>10. Chained(code, e, pushed)
      BY <3>5, <3>6, <3>7, <3>8, <3>9 DEF Chained
    <3>11. <<>> = Left(code, e, pushed)
      BY <3>3, <3>5 DEF Left
    <3>12. code' = code /\ frames' = pushed /\ stack' = <<>>
      BY <3>2 DEF Continue
    <3>13. Agreeing'
      BY <3>10, <3>11, <3>12 DEF Agreeing
    <3>14. Settled(pushed)
      BY <3>2 DEF Continue, Settled
    <3>15. QED
      BY <2>1, <2>3, <3>13, <3>14 DEF Done, Made, pushed, new
  <2>4. QED
    BY <1>1, <2>2, <2>3
<1>6. QED
  BY <1>3, <1>4, <1>5 DEF CallFunction

-----------------------------------------------------------------------------
(* One turn of the loop, as validation and the nesting of the text have it. *)

(* What is known of the instruction that is executed.                      *)
LEMMA Here ==
  ASSUME Standing, Agreeing, NEW op, Executing(op)
  PROVE  LET fn == code[Frame.fn]  K == Known(code, Frame.fn)  p == Frame.pc
         IN  /\ status = "running" /\ op = Instr.op
             /\ p \in 1 .. Len(fn.body) /\ fn.body = Body /\ fn.body[p] = Instr
             /\ Typing(fn, K) /\ Framed(fn, K, p, Frame.control)
             /\ stack = K[p].ops /\ stack \in Seq(Types)
             /\ fn.results \in Seq(Types)
             /\ Serves(code, K[p], Instr, K[p+1])
             /\ Frame.control \in Seq(ControlFrames)
             /\ Len(Frame.control) = Len(K[p].ctrl) /\ Len(K[p].ctrl) >= 1
             /\ Len(K[p].ctrl) \in Nat
             /\ Stacked(K[p]) /\ Stacked(K[p+1]) /\ Moves(K[p], Instr, K[p+1])
             /\ Instr \in Instructions /\ Formed(code, Instr)
             /\ Instr.in \in Seq(Types) /\ Instr.out \in Seq(Types) /\ Instr.arg \in Seq(Nat)
             /\ Reachable(K[p])
<1> DEFINE fn == code[Frame.fn]
           K == Known(code, Frame.fn)
           p == Frame.pc
<1>1. /\ status = "running" /\ Instr.op = op /\ p \in 1 .. Len(Body)
      /\ Instr \in Instructions /\ Formed(code, Instr)
  BY Executed
<1>2. /\ Typing(fn, K) /\ Framed(fn, K, p, Frame.control)
      /\ stack = K[p].ops /\ fn.results \in Seq(Types) /\ fn.body = Body
      /\ Frame.control \in Seq(ControlFrames) /\ Reachable(K[p])
  BY <1>1, RunningSound
<1>3. /\ Valid(code, Frame.fn) /\ Frame.fn \in Fns /\ code \in Modules /\ stack \in Seq(Types)
  BY <1>1, Running
<1>4. code \in [DOMAIN code -> Functions] /\ Frame.fn \in DOMAIN code
  BY <1>3, Coded
<1>5. fn.body[p] = Instr
  BY DEF Instr, Body
<1>6. Level(K, p) >= 1 /\ Level(K, p) \in Nat /\ p \in 1 .. Len(fn.body) + 1
      /\ p + 1 \in 1 .. Len(fn.body) + 1
  BY <1>1, <1>2, Levels
<1>7. ~ Inner(K[p]).dead
  BY <1>2, <1>6 DEF Reachable, Inner, Level
<1>8. Serves(code, K[p], Instr, K[p+1])
  BY <1>1, <1>2, <1>3, <1>4, <1>5, <1>7, ValidTyping
<1>9. Stacked(K[p]) /\ Stacked(K[p+1]) /\ Moves(K[p], Instr, K[p+1])
  BY <1>1, <1>2, <1>5, <1>6 DEF Typing
<1>10. /\ Instr.in \in Seq(Types) /\ Instr.out \in Seq(Types) /\ Instr.arg \in Seq(Nat)
  BY <1>1 DEF Instructions
<1>11. Len(Frame.control) = Len(K[p].ctrl)
  BY <1>2 DEF Framed, Level
<1>12. QED
  BY <1>1, <1>2, <1>3, <1>5, <1>6, <1>8, <1>9, <1>10, <1>11 DEF Level

(* After an instruction that neither opens nor ends a block, and after     *)
(* which validation has the same blocks, a frame goes on at the next one.  *)
LEMMA Advanced ==
  ASSUME Standing, Agreeing, NEW op \in {"apply", "div", "br_if", "call", "call_indirect"},
         Executing(op)
  PROVE  /\ Stands(code, Advance) /\ Sound(code, Advance) /\ Advance.fn = Frame.fn
         /\ Advance.pc = Frame.pc + 1
         /\ Ops(code, Advance) = Known(code, Frame.fn)[Frame.pc + 1].ops
<1> DEFINE fn == code[Frame.fn]
           K == Known(code, Frame.fn)
           p == Frame.pc
<1>1. /\ Stands(code, Advance) /\ Advance.pc = p + 1 /\ Advance.fn = Frame.fn
      /\ Advance.control = Frame.control
  BY Executed
<1>2. /\ op = Instr.op /\ p \in 1 .. Len(fn.body) /\ fn.body[p] = Instr
      /\ Typing(fn, K) /\ Framed(fn, K, p, Frame.control)
      /\ Serves(code, K[p], Instr, K[p+1]) /\ Reachable(K[p])
  BY Here
<1> HIDE DEF fn, K, p
<1>3. K[p+1].ctrl = K[p].ctrl
  BY <1>2 DEF Serves
<1>4. Reachable(K[p+1])
  BY <1>2, <1>3 DEF Reachable
<1>5. Framed(fn, K, p + 1, Frame.control)
  BY <1>2, <1>4, FallsThrough DEF Openers
<1>6. QED
  BY <1>1, <1>5 DEF Sound, Ops, fn, K, p

(* The instructions a turn may go to.                                      *)
Reaches ==
  LET i == Instr  p == Frame.pc IN
  CASE i.op = "if" -> {p + 1} \cup
         (IF ElseOf(Body, p) = {} THEN {EndOf(Body, p) + 1}
          ELSE {e + 1 : e \in ElseOf(Body, p)})
    [] i.op = "else" -> {EndOf(Body, Labelled(Body, p, 0)) + 1}
    [] i.op \in {"br", "br_table"} ->
         {Target(Body, Labelled(Body, p, i.arg[k])) : k \in 1 .. Len(i.arg)}
    [] i.op = "br_if" -> {p + 1, Target(Body, Labelled(Body, p, i.arg[1]))}
    [] i.op = "return" -> {Len(Body) + 1}
    [] i.op = "unreachable" -> {}
    [] OTHER -> {p + 1}

(* It goes there with the operands validation has, or leaves the function  *)
(* with its results.                                                       *)
Went(P) ==
  \/ \E fr, s : Moved(fr, s) /\ fr.pc \in P
  \/ Continue(Below, code[Frame.fn].results) /\ Len(Body) + 1 \in P

(* It fails where the program asks for it.                                 *)
Stopped ==
  \/ Instr.op \in {"unreachable", "div", "call_indirect"} /\ Failed({"TRAP"})
  \/ /\ Instr.op = "if" /\ Instr.out # <<>> /\ ElseOf(Body, Frame.pc) = {}
     /\ Failed({"UNSUPPORTED"})

(* A turn of which this is said leaves a job that agrees.                  *)
LEMMA WentAgrees ==
  ASSUME Standing, Agreeing, status = "running", entry' = entry,
         \/ \E P : Went(P)
         \/ Stopped
  PROVE  Agreeing'
<1>1. ASSUME NEW P, Went(P) PROVE Agreeing'
  BY <1>1, MovedAgrees, LeftAgrees DEF Went
<1>2. CASE Stopped
  <2>1. status' \in {"TRAP", "UNSUPPORTED"}
    BY <1>2 DEF Stopped, Failed
  <2>2. QED
    BY <2>1 DEF Agreeing
<1>3. QED
  BY <1>1, <1>2

(* A failure of a step.                                                    *)
LEMMA AbortFails ==
  ASSUME NEW e, NEW s, Abort(e, s), NEW es, e \in es
  PROVE  Failed(es)
BY DEF Abort, Failed

(* An operation goes on with its results on the operands.                  *)
LEMMA OrdinaryGoes ==
  ASSUME Standing, Agreeing, Ordinary
  PROVE  Went(Reaches) \/ Stopped
<1>1. PICK op \in {"apply", "div"} : Executing(op)
  BY DEF Ordinary
<1> DEFINE s == Drop(stack, Len(Instr.in)) \o Instr.out
           K == Known(code, Frame.fn)
           w == K[Frame.pc + 1]
<1>2. /\ op = Instr.op /\ stack = K[Frame.pc].ops /\ Serves(code, K[Frame.pc], Instr, w)
      /\ Instr.in \in Seq(Types)
  BY <1>1, Here
<1>3. Top(stack, Instr.in) /\ w.ops = Without(stack, Len(Instr.in)) \o Instr.out
  <2> HIDE DEF w, K
  <2>1. QED
    BY <1>2 DEF Serves
<1>4. Typed(stack, Instr.in)
  BY <1>3 DEF Typed, Top, Last
<1>5. w.ops = s
  <2> HIDE DEF w
  <2>1. QED
    BY <1>3, Zenon DEF Without, Drop
<1>6. CASE Continue(With(Advance), s)
  <2>1. Moved(Advance, s) /\ Advance.pc = Frame.pc + 1
    BY <1>1, <1>5, <1>6, Advanced DEF Moved
  <2>2. Frame.pc + 1 \in Reaches
    BY <1>2 DEF Reaches
  <2>3. QED
    BY <2>1, <2>2 DEF Went
<1>7. CASE Op = "div" /\ Abort("TRAP", stack)
  <2>1. Failed({"TRAP"})
    BY <1>7, AbortFails
  <2>2. Instr.op = "div"
    BY <1>7 DEF Op, Instr
  <2>3. QED
    BY <2>1, <2>2 DEF Stopped
<1>8. QED
  BY <1>4, <1>6, <1>7, Zenon DEF Ordinary

(* A block that is entered has the operands validation has in it.          *)
LEMMA EntersSound ==
  ASSUME Standing, Agreeing, NEW op \in Openers, Executing(op), NEW h \in Nat,
         LET w == Known(code, Frame.fn)[Frame.pc + 1] IN h = w.ctrl[Len(w.ctrl)].height
  PROVE  LET fr == Entered(Frame, Instr, h) IN
         /\ Stands(code, fr) /\ Sound(code, fr) /\ fr.fn = Frame.fn /\ fr.pc = Frame.pc + 1
         /\ Ops(code, fr) = Known(code, Frame.fn)[Frame.pc + 1].ops
<1> DEFINE fr == Entered(Frame, Instr, h)
           t == Pushed(Frame, Instr, h)
           fn == code[Frame.fn]
           K == Known(code, Frame.fn)
           p == Frame.pc
           s == Scan(fn.body, p + 1)
           w == K[p+1]
<1>1. /\ Stands(code, fr) /\ t \in ControlFrames
      /\ fr = [fn |-> Frame.fn, pc |-> p + 1, control |-> Append(Frame.control, t)]
  BY EntersTyped
<1>2. /\ op = Instr.op /\ p \in 1 .. Len(fn.body) /\ fn.body[p] = Instr
      /\ Typing(fn, K) /\ Framed(fn, K, p, Frame.control)
      /\ Frame.control \in Seq(ControlFrames)
  BY Here
<1>3. t = [type |-> Instr.op, start |-> p + 1,
           else |-> IF Instr.op = "if" THEN s.else ELSE 0, end |-> s.end,
           params |-> Instr.in, results |-> Instr.out, height |-> h]
  BY Zenon DEF Pushed
<1> HIDE DEF t, fr
<1>4. /\ t.type = Instr.op /\ t.params = Instr.in /\ t.results = Instr.out
      /\ t.height = h /\ t.start = p + 1 /\ t.end = s.end
  BY <1>3
<1> HIDE DEF fn, K, p, s
<1>5. s.end \in Nat /\ ClosesAt(fn, K, p + 1, Level(K, p + 1), s.end - 1)
  BY <1>2, ScanFound DEF s
<1>6. h = w.ctrl[Len(w.ctrl)].height
  BY DEF K, p
<1>7. Framed(fn, K, p + 1, Append(Frame.control, t))
  BY <1>1, <1>2, <1>4, <1>5, <1>6, EntersBlock
<1>8. fr.fn = Frame.fn /\ fr.pc = p + 1 /\ fr.control = Append(Frame.control, t)
  BY <1>1
<1>9. QED
  BY <1>1, <1>7, <1>8 DEF Sound, Ops, fn, K, p, fr

(* A block or a loop is entered.                                           *)
LEMMA BlockGoes ==
  ASSUME Standing, Agreeing, Block
  PROVE  Went(Reaches)
<1>1. PICK op \in {"block", "loop"} : Executing(op)
  BY DEF Block
<1> DEFINE h == Len(stack) - Len(Instr.in)
           K == Known(code, Frame.fn)
           w == K[Frame.pc + 1]
           fr == Entered(Frame, Instr, h)
<1>2. /\ op = Instr.op /\ stack = K[Frame.pc].ops /\ Serves(code, K[Frame.pc], Instr, w)
      /\ Instr.in \in Seq(Types) /\ stack \in Seq(Types)
  BY <1>1, Here
<1>3. Top(stack, Instr.in) /\ w.ops = stack /\ w.ctrl[Len(w.ctrl)].height = h
  <2> HIDE DEF w, K
  <2>1. QED
    BY <1>2 DEF Serves
<1>4. Typed(stack, Instr.in)
  BY <1>3 DEF Typed, Top, Last
<1>5. Continue(With(fr), stack)
  BY <1>4, Zenon DEF Block
<1>6. h \in Nat
  BY <1>2, <1>4, TypedLength
<1>7. op \in Openers
  BY DEF Openers
<1> HIDE DEF h
<1>8. /\ Stands(code, fr) /\ Sound(code, fr) /\ fr.fn = Frame.fn /\ fr.pc = Frame.pc + 1
      /\ Ops(code, fr) = w.ops
  BY <1>1, <1>3, <1>6, <1>7, EntersSound
<1>9. Frame.pc + 1 \in Reaches
  BY <1>2 DEF Reaches
<1> HIDE DEF fr, w
<1>10. Moved(fr, stack)
  BY <1>3, <1>5, <1>8 DEF Moved
<1>11. QED
  BY <1>8, <1>9, <1>10 DEF Went

(* The else of an if is what its scan finds.                               *)
LEMMA ElseFound ==
  ASSUME NEW fn, NEW K, Typing(fn, K), NEW p \in 1 .. Len(fn.body), fn.body[p].op \in Openers
  PROVE  LET s == Scan(fn.body, p + 1)
         IN  /\ s.end = EndOf(fn.body, p) + 1
             /\ s.else = 0 => ElseOf(fn.body, p) = {}
             /\ s.else # 0 => s.else - 1 \in ElseOf(fn.body, p)
<1> DEFINE s == Scan(fn.body, p + 1)
           b == fn.body
           e == s.end - 1
           n == Len(b)
<1>1. /\ s.end \in Nat /\ s.else \in Nat
      /\ ClosesAt(fn, K, p + 1, Level(K, p + 1), e)
      /\ s.else # 0 => s.else - 1 \in p + 1 .. e /\ PartsAt(fn, K, p + 1, s.else - 1)
      /\ s.else = 0 => \A x \in p + 1 .. e : ~ PartsAt(fn, K, p + 1, x)
  BY ScanFound
<1> HIDE DEF s
<1>2. p \in 0 .. Len(fn.body)
  OBVIOUS
<1>3. EndOf(b, p) = e
  <2> HIDE DEF e
  <2>1. QED
    BY <1>1, <1>2, EndFound
<1>4. /\ n \in Nat /\ Level(K, p + 1) = Level(K, p) + 1 /\ Level(K, p) \in Nat /\ p \in 1 .. n + 1
  BY Levels
<1>5. Depth(b, p) = Level(K, p) - 1
  BY <1>4, Depths
<1>6. e \in p + 1 .. n /\ \A r \in p + 1 .. e : Level(K, r) >= Level(K, p + 1)
  BY <1>1 DEF ClosesAt
<1>7. b[e].op # "else"
  BY <1>1 DEF ClosesAt
<1> HIDE DEF e
<1>8. ASSUME NEW x \in p + 1 .. e
      PROVE  PartsAt(fn, K, p + 1, x) <=> x \in ElseOf(b, p)
  <2>1. x \in 1 .. n + 1 /\ x \in p + 1 .. n /\ p # 0
    BY <1>4, <1>6
  <2>2. Level(K, x) \in Nat
    BY <2>1, Levels
  <2>3. Depth(b, x) = Level(K, x) - 1
    BY <2>1, Depths
  <2>4. Depth(b, x) = Depth(b, p) + 1 <=> Level(K, x) = Level(K, p + 1)
    BY <1>4, <1>5, <2>2, <2>3
  <2>5. x \in Parts(b, p, "else") <=> b[x].op = "else" /\ Level(K, x) = Level(K, p + 1)
    BY <2>1, <2>4 DEF Parts
  <2>6. b[x].op = "else" => x < e
    BY <1>6, <1>7
  <2>7. \A r \in p + 1 .. x : r \in p + 1 .. e
    BY <1>4, <1>6
  <2>8. x \in ElseOf(b, p) <=> x \in Parts(b, p, "else") /\ x < e
    BY <1>3 DEF ElseOf
  <2>9. QED
    BY <1>6, <2>5, <2>6, <2>7, <2>8 DEF PartsAt
<1>9. ElseOf(b, p) \subseteq p + 1 .. e
  <2>1. \A x \in Parts(b, p, "else") : x \in p + 1 .. n
    BY DEF Parts
  <2>2. \A x \in ElseOf(b, p) : x \in p + 1 .. n /\ x < e
    BY <1>3, <2>1 DEF ElseOf
  <2>3. QED
    BY <1>4, <1>6, <2>2
<1>10. s.end = e + 1
  BY <1>1 DEF e
<1>11. QED
  BY <1>1, <1>3, <1>8, <1>9, <1>10 DEF s

(* A branch that may be taken goes where the nesting of the text says.     *)
LEMMA BranchLands ==
  ASSUME code \in Modules, NEW fr \in FrameSet, Stands(code, fr), Sound(code, fr),
         NEW l \in Nat, NEW s, Prefix(s, Ops(code, fr)),
         LET v == Known(code, fr.fn)[fr.pc]  e == v.ctrl[Len(v.ctrl) - l]
         IN  /\ fr.pc \in 1 .. Len(code[fr.fn].body)
             /\ l < Len(v.ctrl)
             /\ Yields(v, s, LabelTypes(v, l))
             /\ e.kind = "loop" => e.params # <<>> \/ e.results = <<>>
  PROVE  LET t == Label(fr, l)  to == Branched(fr, l)  b == code[fr.fn].body IN
         /\ l < Len(fr.control)
         /\ CanUnwind(s, t.height, Carried(t))
         /\ Stands(code, to) /\ Sound(code, to) /\ to.fn = fr.fn
         /\ to.pc = Target(b, Labelled(b, fr.pc, l))
         /\ t.end = EndOf(b, Labelled(b, fr.pc, l)) + 1
         /\ Ops(code, to) = Unwound(s, t.height, Carried(t))
<1> DEFINE fn == code[fr.fn]
           K == Known(code, fr.fn)
           p == fr.pc
           c == fr.control
           t == Label(fr, l)
           to == Branched(fr, l)
           b == fn.body
           n == Len(c)
           v == K[p]
           e == v.ctrl[Len(v.ctrl) - l]
           u == Unwound(s, t.height, Carried(t))
<1>1. /\ fr.fn \in Fns /\ c \in Seq(ControlFrames) /\ ~ fn.imported
  BY DEF FrameSet, Stands
<1>2. Typing(fn, K) /\ fn.results \in Seq(Types)
  BY <1>1, Coded
<1>3. Framed(fn, K, p, c)
  BY DEF Sound
<1>4. n = Len(v.ctrl)
  BY <1>3 DEF Framed, Level
<1>5. /\ p \in 1 .. Len(b) /\ l < Len(v.ctrl) /\ Yields(v, s, LabelTypes(v, l))
      /\ e.kind = "loop" => e.params # <<>> \/ e.results = <<>>
  OBVIOUS
<1>6. l < n
  BY <1>4, <1>5
<1>7. Prefix(s, v.ops)
  BY DEF Ops
<1>8. t = c[n - l]
  BY DEF Label
<1>9. /\ Stands(code, to) /\ to.fn = fr.fn
      /\ to.pc = IF t.type = "loop" THEN t.start ELSE t.end
      /\ to.control = IF t.type = "loop" THEN Drop(c, l) ELSE Drop(c, l + 1)
  BY <1>6, LabelTyped
<1> HIDE DEF fn, K, p, c, t, to, u
<1>10. /\ CanUnwind(s, t.height, Carried(t))
       /\ t.type = "loop" => Framed(fn, K, t.start, Drop(c, l)) /\ K[t.start].ops = u
       /\ t.type # "loop" => Framed(fn, K, t.end, Drop(c, l + 1)) /\ K[t.end].ops = u
  <2>1. Arrives(fn, K, c, l, s)
    BY <1>1, <1>2, <1>3, <1>5, <1>6, <1>7, Lands
  <2>2. QED
    BY <1>8, <2>1, Zenon DEF Arrives, u, n
<1>11. /\ t.end = EndOf(b, Labelled(b, p, l)) + 1
       /\ (IF t.type = "loop" THEN t.start ELSE t.end) = Target(b, Labelled(b, p, l))
  BY <1>2, <1>3, <1>5, <1>6, <1>8, LandsAt
<1>12. Framed(fn, K, to.pc, to.control) /\ K[to.pc].ops = u
  <2> HIDE DEF n
  <2>1. QED
    BY <1>9, <1>10
<1>13. Sound(code, to) /\ Ops(code, to) = u
  BY <1>9, <1>12 DEF Sound, Ops, fn, K
<1>14. QED
  BY <1>6, <1>9, <1>10, <1>11, <1>13 DEF fn, p, c, t, to, u

(* The running frame, seen so.                                             *)
LEMMA HereSound ==
  ASSUME Standing, Agreeing, status = "running"
  PROVE  Sound(code, Frame) /\ stack = Ops(code, Frame) /\ Stands(code, Frame)
         /\ Frame \in FrameSet /\ code \in Modules
<1>1. /\ frames # <<>> /\ Len(frames) \in Nat /\ Len(frames) \in 1 .. Len(frames)
      /\ Frame \in FrameSet /\ Stands(code, Frame) /\ code \in Modules
  BY Running
<1>2. Chained(code, entry, frames) /\ stack = Left(code, entry, frames)
  BY DEF Agreeing
<1>3. Sound(code, Frame)
  BY <1>1, <1>2 DEF Chained, Frame
<1>4. stack = Ops(code, Frame)
  BY <1>1, <1>2 DEF Left, Frame
<1>5. QED
  BY <1>1, <1>3, <1>4

(* A branch of the running frame.                                          *)
LEMMA BranchGoes ==
  ASSUME Standing, Agreeing, status = "running",
         NEW l \in Nat, NEW s, Prefix(s, stack),
         LET v == Known(code, Frame.fn)[Frame.pc]  e == v.ctrl[Len(v.ctrl) - l]
         IN  /\ Frame.pc \in 1 .. Len(code[Frame.fn].body)
             /\ l < Len(v.ctrl)
             /\ Yields(v, s, LabelTypes(v, l))
             /\ e.kind = "loop" => e.params # <<>> \/ e.results = <<>>,
         Branch(Frame, s, l)
  PROVE  Went({Target(Body, Labelled(Body, Frame.pc, l))})
<1> DEFINE t == Label(Frame, l)
           to == Branched(Frame, l)
           b == code[Frame.fn].body
<1>1. /\ Sound(code, Frame) /\ stack = Ops(code, Frame) /\ Stands(code, Frame)
      /\ Frame \in FrameSet /\ code \in Modules
  BY HereSound
<1>2. /\ l < Len(Frame.control)
      /\ CanUnwind(s, t.height, Carried(t))
      /\ Stands(code, to) /\ Sound(code, to) /\ to.fn = Frame.fn
      /\ to.pc = Target(b, Labelled(b, Frame.pc, l))
      /\ Ops(code, to) = Unwound(s, t.height, Carried(t))
  BY <1>1, BranchLands
<1>3. CanBranch(s, l)
  BY <1>2, Zenon DEF CanBranch
<1>4. Continue(With(to), Carry(s, l))
  BY <1>3, Zenon DEF Branch
<1>5. Ops(code, to) = Carry(s, l)
  BY <1>2, Zenon DEF Carry
<1> HIDE DEF to
<1>6. Moved(to, Carry(s, l))
  BY <1>2, <1>4, <1>5 DEF Moved
<1>7. QED
  BY <1>2, <1>6 DEF Went, Body

(* An if goes to one of its parts, or past them.                           *)
LEMMA IfGoes ==
  ASSUME Standing, Agreeing, If
  PROVE  Went(Reaches) \/ Stopped
<1> DEFINE s == Drop(stack, 1)
           h == Len(s) - Len(Instr.in)
           fr == Entered(Frame, Instr, h)
           t == Label(fr, 0)
           fn == code[Frame.fn]
           K == Known(code, Frame.fn)
           p == Frame.pc
           w == K[p+1]
           sc == Scan(fn.body, p + 1)
<1>1. /\ Executing("if")
      /\ \/ Instr.out # <<>> /\ t.else = 0 /\ Abort("UNSUPPORTED", stack)
         \/ (stack = <<>> \/ ~ Typed(s, Instr.in)) /\ Abort("TRAP", s)
         \/ /\ Instr.out = <<>> \/ t.else # 0
            /\ Typed(s, Instr.in)
            /\ \/ Continue(With(fr), s)
               \/ /\ t.else # 0
                  /\ Continue(With([fr EXCEPT !.pc = t.else]), s)
               \/ /\ t.else = 0
                  /\ IF CanUnwind(s, t.height, t.results)
                     THEN Continue(With(Branched(fr, 0)), Unwound(s, t.height, t.results))
                     ELSE Abort("TRAP", s)
  BY Zenon DEF If
<1>2. /\ "if" = Instr.op /\ stack = K[p].ops /\ Serves(code, K[p], Instr, w)
      /\ Instr.in \in Seq(Types) /\ stack \in Seq(Types) /\ Typing(fn, K)
      /\ p \in 1 .. Len(fn.body) /\ fn.body[p] = Instr /\ fn.body = Body
      /\ status = "running" /\ fn.results \in Seq(Types) /\ Instr.out \in Seq(Types)
  BY <1>1, Here
<1>3. stack # <<>> /\ Top(s, Instr.in) /\ w.ops = s /\ w.ctrl[Len(w.ctrl)].height = h
  <2> HIDE DEF w, K
  <2>1. Drop(stack, 1) = Without(stack, 1)
    BY Zenon DEF Drop, Without
  <2>2. QED
    BY <1>2, <2>1 DEF Serves
<1>4. Typed(s, Instr.in)
  <2> HIDE DEF s
  <2>1. QED
    BY <1>3 DEF Typed, Top, Last
<1>5. s \in Seq(Types)
  BY <1>2, <1>3, Popped
<1> HIDE DEF s
<1>6. h \in Nat
  BY <1>2, <1>4, <1>5, TypedLength
<1>7. "if" \in Openers
  BY DEF Openers
<1> HIDE DEF h
<1>8. /\ Stands(code, fr) /\ Sound(code, fr) /\ fr.fn = Frame.fn /\ fr.pc = p + 1
      /\ Ops(code, fr) = w.ops
  BY <1>1, <1>3, <1>6, <1>7, EntersSound
<1>9. t.end = sc.end /\ t.else = sc.else /\ t.results = Instr.out /\ t.type = "if" /\ t.height = h
  <2>1. /\ Pushed(Frame, Instr, h).type = "if" /\ Pushed(Frame, Instr, h).end = sc.end
        /\ Pushed(Frame, Instr, h).results = Instr.out /\ Pushed(Frame, Instr, h).height = h
        /\ Pushed(Frame, Instr, h).else = sc.else /\ t = Pushed(Frame, Instr, h)
    BY <1>1, <1>6, <1>7, EntersTyped
  <2> HIDE DEF t, sc
  <2>2. QED
    BY <2>1
<1> HIDE DEF fr, t, sc, K, fn, p
<1>10. /\ sc.end = EndOf(Body, p) + 1
       /\ sc.else = 0 => ElseOf(Body, p) = {}
       /\ sc.else # 0 => sc.else - 1 \in ElseOf(Body, p)
  BY <1>2, <1>7, ElseFound DEF sc
<1>11. Reaches = {p + 1} \cup (IF ElseOf(Body, p) = {} THEN {EndOf(Body, p) + 1}
                               ELSE {e + 1 : e \in ElseOf(Body, p)})
  BY <1>2 DEF Reaches, p
<1>12. fr \in FrameSet /\ Framed(fn, K, p + 1, fr.control) /\ Len(fr.control) = Len(w.ctrl)
       /\ fr.control \in Seq(ControlFrames)
  BY <1>8 DEF Stands, FrameSet, Sound, Framed, Level, fn, K
<1>13. CASE Instr.out # <<>> /\ t.else = 0 /\ Abort("UNSUPPORTED", stack)
  <2>1. Failed({"UNSUPPORTED"})
    BY <1>13, AbortFails
  <2>2. QED
    BY <1>2, <1>9, <1>10, <1>13, <2>1 DEF Stopped, p
<1>14. CASE Continue(With(fr), s)
  <2>1. Moved(fr, s)
    BY <1>3, <1>8, <1>14 DEF Moved
  <2>2. QED
    BY <1>8, <1>11, <2>1 DEF Went
<1>15. CASE t.else # 0 /\ Continue(With([fr EXCEPT !.pc = t.else]), s)
  <2> DEFINE x == [fr EXCEPT !.pc = t.else]
             y == sc.else - 1
  <2>1. /\ sc.else \in Nat
        /\ sc.else - 1 \in p + 1 .. sc.end - 1 /\ PartsAt(fn, K, p + 1, sc.else - 1)
        /\ ClosesAt(fn, K, p + 1, Level(K, p + 1), sc.end - 1)
    BY <1>2, <1>7, <1>9, <1>15, ScanFound DEF sc
  <2>2. y \in p + 1 .. Len(fn.body)
    BY <1>2, <2>1 DEF ClosesAt
  <2>3. y + 1 = sc.else
    BY <2>1
  <2>4. PartsAt(fn, K, p + 1, y)
    BY <2>1
  <2> HIDE DEF y
  <2>5. Framed(fn, K, y + 1, fr.control) /\ K[y+1].ops = K[p+1].ops
    BY <1>2, <1>12, <2>2, <2>4, ElsePart DEF PartsAt
  <2>6. x = [fn |-> fr.fn, pc |-> t.else, control |-> fr.control] /\ t.else \in Nat
    BY <1>9, <1>12, <2>1 DEF FrameSet
  <2> HIDE DEF x
  <2>7. x.fn = fr.fn /\ x.pc = t.else /\ x.control = fr.control /\ x \in FrameSet
    BY <1>12, <2>6 DEF FrameSet
  <2>8. t.else >= 1
    BY <1>15, <2>6
  <2>9. Stands(code, x)
    BY <1>8, <2>7, <2>8 DEF Stands
  <2>10. Sound(code, x) /\ Ops(code, x) = s
    BY <1>3, <1>8, <1>9, <2>3, <2>5, <2>7 DEF Sound, Ops, fn, K
  <2>11. Moved(x, s)
    BY <1>8, <1>15, <2>7, <2>9, <2>10 DEF Moved, x
  <2>12. x.pc \in Reaches
    <3>1. y \in ElseOf(Body, p) /\ x.pc = y + 1
      BY <1>9, <1>10, <1>15, <2>3, <2>7 DEF y
    <3>2. QED
      BY <1>11, <3>1
  <2>13. QED
    BY <2>11, <2>12 DEF Went
<1>16. CASE /\ t.else = 0 /\ Instr.out = <<>>
            /\ IF CanUnwind(s, t.height, t.results)
               THEN Continue(With(Branched(fr, 0)), Unwound(s, t.height, t.results))
               ELSE Abort("TRAP", s)
  <2> DEFINE to == Branched(fr, 0)
  <2>1. /\ Len(fn.body) \in Nat /\ p + 1 \in 1 .. Len(fn.body)
        /\ Level(K, p + 1) = Level(K, p) + 1 /\ Level(K, p) \in Nat
    <3>1. /\ Len(fn.body) \in Nat /\ Level(K, p) \in Nat /\ Level(K, p) >= 1
          /\ Level(K, p + 1) = Level(K, p) + 1 /\ Level(K, Len(fn.body) + 1) = 0
          /\ p \in 1 .. Len(fn.body)
      BY <1>2, <1>7, Levels
    <3>2. p # Len(fn.body)
      BY <3>1
    <3>3. QED
      BY <3>1, <3>2
  <2>2. Moves(K[p], Instr, w)
    BY <1>2 DEF Typing
  <2>3. /\ w.ctrl[Len(w.ctrl)].kind = "if" /\ w.ctrl[Len(w.ctrl)].results = <<>>
    BY <1>2, <1>7, <1>16, <2>2 DEF Moves
  <2>4. Len(w.ctrl) - 0 = Len(w.ctrl) /\ 0 < Len(w.ctrl) /\ Len(w.ctrl) \in Nat
    BY <2>1 DEF Level
  <2>5. LabelTypes(w, 0) = <<>>
    <3> HIDE DEF w
    <3>1. QED
      BY <2>3, <2>4 DEF LabelTypes
  <2>6. Yields(w, s, LabelTypes(w, 0))
    <3>1. Inner(w).height = h /\ h + Len(Instr.in) = Len(s) /\ Len(s) \in Nat /\ Len(Instr.in) \in Nat
      BY <1>2, <1>3, <1>5 DEF Inner, h
    <3>2. Top(s, <<>>)
      BY <1>5 DEF Top
    <3> HIDE DEF w, h
    <3>3. Inner(w).height + Len(<<>>) <= Len(s)
      BY <1>6, <3>1
    <3>4. QED
      BY <2>5, <3>2, <3>3 DEF Yields
  <2>7. Prefix(s, Ops(code, fr))
    <3>1. s = SubSeq(s, 1, Len(s)) /\ Len(s) \in 0 .. Len(s) /\ Ops(code, fr) = s
      BY <1>3, <1>5, <1>8
    <3>2. QED
      BY <3>1, Zenon DEF Prefix
  <2>8. code \in Modules
    BY <1>2, Running
  <2>9. LET v == Known(code, fr.fn)[fr.pc]  e == v.ctrl[Len(v.ctrl) - 0]
        IN  /\ fr.pc \in 1 .. Len(code[fr.fn].body)
            /\ 0 < Len(v.ctrl)
            /\ Yields(v, s, LabelTypes(v, 0))
            /\ e.kind = "loop" => e.params # <<>> \/ e.results = <<>>
    <3>1. Known(code, fr.fn)[fr.pc] = w /\ code[fr.fn].body = fn.body /\ fr.pc = p + 1
      BY <1>8 DEF K, fn
    <3> HIDE DEF w
    <3>2. QED
      BY <2>1, <2>3, <2>4, <2>6, <3>1
  <2>10. /\ CanUnwind(s, t.height, Carried(t))
         /\ Stands(code, to) /\ Sound(code, to) /\ to.fn = fr.fn
         /\ Ops(code, to) = Unwound(s, t.height, Carried(t))
         /\ 0 < Len(fr.control)
    BY <1>8, <1>12, <2>7, <2>8, <2>9, BranchLands DEF t
  <2>11. Carried(t) = t.results
    BY <1>9 DEF Carried
  <2>12. to.pc = t.end
    BY <1>8, <1>9, <1>12, <2>10, LabelTyped DEF t
  <2> DEFINE u == Unwound(s, t.height, t.results)
  <2>13. Continue(With(to), u) /\ Ops(code, to) = u
    BY <1>16, <2>10, <2>11
  <2> HIDE DEF to, u
  <2>14. Moved(to, u)
    BY <1>8, <2>10, <2>13 DEF Moved
  <2>15. to.pc \in Reaches
    BY <1>9, <1>10, <1>11, <1>16, <2>12
  <2>16. QED
    BY <2>14, <2>15 DEF Went
<1>17. QED
  BY <1>1, <1>3, <1>4, <1>13, <1>14, <1>15, <1>16, Zenon DEF fr, t

(* The end of the then part goes to the end of the if.                     *)
LEMMA ElseGoes ==
  ASSUME Standing, Agreeing, Else
  PROVE  Went(Reaches)
<1> DEFINE K == Known(code, Frame.fn)
           p == Frame.pc
           v == K[p]
           L == Len(v.ctrl)
           b == code[Frame.fn].body
           c == Frame.control
           t == Label(Frame, 0)
           to == Branched(Frame, 0)
<1>1. Executing("else") /\ Branch(Frame, stack, 0)
  BY DEF Else
<1>2. /\ status = "running" /\ Instr.op = "else" /\ stack = v.ops /\ stack \in Seq(Types)
      /\ p \in 1 .. Len(b) /\ b = Body
      /\ Serves(code, v, Instr, K[p+1]) /\ Moves(v, Instr, K[p+1])
      /\ Framed(code[Frame.fn], K, p, c) /\ Len(c) = L /\ L >= 1 /\ L \in Nat
  BY <1>1, Here
<1>3. v.ctrl[L].kind = "if" /\ Yields(v, stack, v.ctrl[L].results)
  <2> HIDE DEF v
  <2>1. QED
    BY <1>2 DEF Serves, Moves
<1>4. /\ Sound(code, Frame) /\ stack = Ops(code, Frame) /\ Stands(code, Frame)
      /\ Frame \in FrameSet /\ code \in Modules
  BY <1>2, HereSound
<1>5. Prefix(stack, stack)
  <2>1. stack = SubSeq(stack, 1, Len(stack)) /\ Len(stack) \in 0 .. Len(stack)
    BY <1>2
  <2>2. QED
    BY <2>1, Zenon DEF Prefix
<1>6. L - 0 = L /\ 0 < L
  BY <1>2
<1>7. LabelTypes(v, 0) = v.ctrl[L].results
  <2> HIDE DEF v
  <2>1. QED
    BY <1>3, <1>6 DEF LabelTypes
<1>8. LET e == v.ctrl[L - 0]
      IN  /\ 0 < L /\ Yields(v, stack, LabelTypes(v, 0))
          /\ e.kind = "loop" => e.params # <<>> \/ e.results = <<>>
  <2> HIDE DEF v
  <2>1. QED
    BY <1>3, <1>6, <1>7
<1>9. Went({Target(Body, Labelled(Body, p, 0))})
  BY <1>1, <1>2, <1>5, <1>8, BranchGoes
<1>10. /\ 0 < Len(c)
       /\ to.pc = Target(b, Labelled(b, p, 0))
       /\ t.end = EndOf(b, Labelled(b, p, 0)) + 1
  BY <1>2, <1>4, <1>5, <1>8, BranchLands
<1>11. t.type = "if"
  <2>1. t = c[L]
    BY <1>2, <1>6 DEF Label
  <2>2. Holds(code[Frame.fn], K, p, L, c[L])
    BY <1>2 DEF Framed, Level
  <2>3. QED
    BY <1>3, <2>1, <2>2 DEF Holds
<1>12. to.pc = t.end
  BY <1>4, <1>10, <1>11, LabelTyped
<1>13. Reaches = {Target(Body, Labelled(Body, p, 0))}
  <2> HIDE DEF to, t
  <2>1. QED
    BY <1>2, <1>10, <1>12 DEF Reaches
<1>14. QED
  BY <1>9, <1>13

(* Past its last instruction a function has its results.                   *)
LEMMA AtTheEnd ==
  ASSUME NEW fn, NEW K, Typing(fn, K), fn.results \in Seq(Types)
  PROVE  K[Len(fn.body) + 1].ops = fn.results
<1> DEFINE n == Len(fn.body)
           v == K[n]
           w == K[n+1]
<1>1. /\ n \in 1 .. n /\ Level(K, n) >= 1 /\ Level(K, n) \in Nat /\ Level(K, n + 1) = 0
      /\ Level(K, n + 1) = IF fn.body[n].op \in Openers THEN Level(K, n) + 1
                           ELSE IF fn.body[n].op = "end" THEN Level(K, n) - 1 ELSE Level(K, n)
  BY Levels
<1>2. fn.body[n].op = "end" /\ Len(v.ctrl) = 1
  <2> HIDE DEF n
  <2>1. fn.body[n].op = "end" /\ Level(K, n) = 1
    BY <1>1
  <2>2. QED
    BY <2>1 DEF Level
<1>3. Moves(v, fn.body[n], w) /\ Stacked(v)
  BY <1>1 DEF Typing
<1>4. v.ctrl[1].results = fn.results /\ v.ctrl[1].height = 0
  BY <1>1, Outermost
<1>5. v.ops \in Seq(Types)
  BY <1>3 DEF Stacked, States
<1> HIDE DEF v, w
<1>6. OnBase(w.ops, v.ops, Inner(v).height, fn.results)
  <2>1. w.ops = SubSeq(v.ops, 1, Inner(v).height) \o v.ctrl[1].results
    BY <1>2, <1>3 DEF Moves
  <2>2. QED
    BY <1>4, <2>1 DEF OnBase
<1>7. Inner(v).height = 0
  BY <1>2, <1>4 DEF Inner
<1>8. w.ops = SubSeq(v.ops, 1, 0) \o fn.results
  BY <1>6, <1>7 DEF OnBase
<1>9. SubSeq(v.ops, 1, 0) = <<>>
  BY <1>5
<1>10. <<>> \o fn.results = fn.results
  BY ConcatEmptySeq
<1>11. QED
  BY <1>8, <1>9, <1>10 DEF w

(* Only the results are left above no operands.                            *)
LEMMA OnNothing ==
  ASSUME NEW x, NEW s \in Seq(Types), NEW ts \in Seq(Types), OnBase(x, s, 0, ts)
  PROVE  x = ts
<1>1. SubSeq(s, 1, 0) = <<>>
  OBVIOUS
<1>2. <<>> \o ts = ts
  BY ConcatEmptySeq
<1>3. QED
  BY <1>1, <1>2 DEF OnBase

(* A frame past its last instruction is left.                              *)
LEMMA LeaveGoes ==
  ASSUME Standing, Agreeing, LeaveFrame
  PROVE  /\ status = "running" /\ Continue(Below, code[Frame.fn].results)
         /\ Frame.pc = Len(Body) + 1
<1> DEFINE fn == code[Frame.fn]
           K == Known(code, Frame.fn)
<1>1. status = "running" /\ Frame.pc > Len(Body) /\ Continue(Below, stack)
  BY DEF LeaveFrame
<1>2. /\ Typing(fn, K) /\ Framed(fn, K, Frame.pc, Frame.control)
      /\ stack = K[Frame.pc].ops /\ fn.results \in Seq(Types) /\ fn.body = Body
  BY <1>1, RunningSound
<1>3. Frame.pc = Len(Body) + 1
  BY <1>1, <1>2, Levels DEF Framed
<1> HIDE DEF fn, K
<1>4. stack = fn.results
  BY <1>2, <1>3, AtTheEnd
<1>5. QED
  BY <1>1, <1>3, <1>4 DEF fn

(* An end closes the block, or leaves the function.                        *)
LEMMA EndGoes ==
  ASSUME Standing, Agreeing, End
  PROVE  Went(Reaches)
<1> DEFINE fn == code[Frame.fn]
           K == Known(code, Frame.fn)
           p == Frame.pc
           v == K[p]
           c == Frame.control
           n == Len(c)
           t == Label(Frame, 0)
           h == c[n].height
           ts == c[n].results
           x == [Advance EXCEPT !.control = Drop(@, 1)]
           u == Unwound(stack, t.height, t.results)
<1>1. /\ Executing("end") /\ c # <<>>
      /\ IF CanUnwind(stack, t.height, t.results)
         THEN Continue(IF n = 1 THEN Below ELSE With(x), u)
         ELSE Abort("TRAP", stack)
  BY Zenon DEF End
<1>2. /\ status = "running" /\ Instr.op = "end" /\ stack = v.ops /\ stack \in Seq(Types)
      /\ p \in 1 .. Len(fn.body) /\ fn.body = Body /\ fn.body[p] = Instr
      /\ Typing(fn, K) /\ fn.results \in Seq(Types)
      /\ Serves(code, v, Instr, K[p+1])
      /\ Framed(fn, K, p, c) /\ n = Len(v.ctrl) /\ n >= 1 /\ n \in Nat
      /\ c \in Seq(ControlFrames)
  BY <1>1, Here
<1>3. n \in 1 .. n /\ n - 0 = n /\ n - (0 + 1) = n - 1
  BY <1>2
<1>4. t = c[n]
  BY <1>3 DEF Label
<1>5. /\ Holds(fn, K, p, n, c[n])
  BY <1>2, <1>3 DEF Framed, Level
<1>6. ts = v.ctrl[n].results /\ h = v.ctrl[n].height /\ h \in Nat /\ ts \in Seq(Types)
  <2>1. c[n] \in ControlFrames
    BY <1>2, <1>3
  <2>2. QED
    BY <1>5, <2>1 DEF Holds, ControlFrames
<1>7. Top(stack, ts) /\ h + Len(ts) <= Len(stack)
  <2> HIDE DEF v, n, h, ts
  <2>1. Yields(v, stack, ts) /\ Inner(v).height = h
    BY <1>2, <1>6 DEF Serves, Inner
  <2>2. QED
    BY <2>1 DEF Yields
<1>8. stack = SubSeq(stack, 1, Len(stack)) /\ Len(stack) \in 0 .. Len(stack)
  BY <1>2
<1>9. CanUnwind(stack, h, ts) /\ OnBase(Unwound(stack, h, ts), stack, h, ts)
  <2> HIDE DEF h, ts
  <2>1. QED
    BY <1>2, <1>6, <1>7, <1>8, Unwinds
<1>10. p \in 1 .. Len(fn.body) + 1 /\ n \in 1 .. Level(K, p)
  BY <1>2, <1>3, Levels DEF Level
<1> HIDE DEF t, x, u, c, K, fn, p
<1>11. c[n].end = p + 1
  BY <1>2, EndsHere DEF n
<1>12. /\ Framed(fn, K, p + 1, SubSeq(c, 1, n - 1))
       /\ OnBase(K[p+1].ops, stack, h, ts)
  BY <1>2, <1>10, <1>11, BranchesOut
<1>13. SubSeq(c, 1, n - 1) = Drop(c, 1)
  BY Zenon DEF Drop, n
<1>14. K[p+1].ops = u
  <2>1. u = Unwound(stack, h, ts)
    BY <1>4 DEF u
  <2> HIDE DEF h, ts
  <2>2. OnBase(u, stack, h, ts)
    BY <1>9, <2>1
  <2>3. QED
    BY <1>12, <2>2, Zenon DEF OnBase
<1>15. Continue(IF n = 1 THEN Below ELSE With(x), u)
  BY <1>1, <1>4, <1>9
<1>16. p + 1 \in Reaches
  BY <1>2 DEF Reaches, p
<1>17. CASE n = 1
  <2>1. /\ Level(K, p) = 1 /\ Level(K, p + 1) = 0
        /\ \A r \in 1 .. Len(fn.body) : Level(K, r) >= 1
    <3>1. Level(K, p) = 1
      BY <1>2, <1>17 DEF Level
    <3>2. /\ \A r \in 1 .. Len(fn.body) : Level(K, r) >= 1
          /\ Level(K, p+1) = IF fn.body[p].op \in Openers THEN Level(K, p) + 1
                             ELSE IF fn.body[p].op = "end" THEN Level(K, p) - 1
                             ELSE Level(K, p)
      BY <1>2, Levels
    <3>3. QED
      BY <1>2, <3>1, <3>2 DEF Openers
  <2>2. p + 1 = Len(fn.body) + 1
    <3>1. Len(fn.body) \in Nat /\ (p + 1 \in 1 .. Len(fn.body) => Level(K, p + 1) >= 1)
      BY <1>2, <2>1
    <3>2. QED
      BY <1>2, <2>1, <3>1
  <2>3. u = fn.results
    BY <1>2, <1>14, <2>2, AtTheEnd
  <2>4. Continue(Below, fn.results)
    BY <1>15, <1>17, <2>3
  <2>5. QED
    BY <1>2, <1>16, <2>2, <2>4 DEF Went, fn
<1>18. CASE n # 1
  <2>1. Stands(code, x) /\ x.fn = Frame.fn /\ x.pc = p + 1 /\ x.control = Drop(c, 1)
    BY <1>1, Closes DEF x, c, p
  <2>2. Framed(fn, K, x.pc, x.control) /\ K[x.pc].ops = u
    BY <1>12, <1>13, <1>14, <2>1
  <2>3. Sound(code, x) /\ u = Ops(code, x)
    BY <2>1, <2>2 DEF Sound, Ops, fn, K
  <2>4. Moved(x, u)
    BY <1>15, <1>18, <2>1, <2>3 DEF Moved
  <2>5. QED
    BY <1>16, <2>1, <2>4 DEF Went
<1>19. QED
  BY <1>17, <1>18

(* A return leaves the function.                                           *)
LEMMA ReturnGoes ==
  ASSUME Standing, Agreeing, Return
  PROVE  Went(Reaches)
<1> DEFINE fn == code[Frame.fn]
           K == Known(code, Frame.fn)
           p == Frame.pc
           v == K[p]
           c == Frame.control
           l == Len(c) - 1
           t == Label(Frame, l)
           rs == fn.results
<1>1. /\ Executing("return")
      /\ IF c = <<>> THEN Continue(Below, stack)
         ELSE IF CanBranch(stack, l) THEN Continue(Below, Carry(stack, l))
         ELSE Abort("TRAP", stack)
  BY Zenon DEF Return
<1>2. /\ status = "running" /\ Instr.op = "return" /\ stack = v.ops /\ stack \in Seq(Types)
      /\ p \in 1 .. Len(fn.body) /\ fn.body = Body
      /\ Typing(fn, K) /\ rs \in Seq(Types) /\ Stacked(v)
      /\ Serves(code, v, Instr, K[p+1])
      /\ Framed(fn, K, p, c) /\ Len(c) = Len(v.ctrl) /\ Len(c) >= 1 /\ Len(c) \in Nat
      /\ c \in Seq(ControlFrames)
  BY <1>1, Here
<1>3. l \in Nat /\ l < Len(c) /\ Len(c) - l = 1 /\ c # <<>> /\ 1 \in 1 .. Len(c)
      /\ Len(c) \in 1 .. Len(c)
  <2> HIDE DEF c, v, fn
  <2>1. Len(c) >= 1 /\ Len(c) \in Nat /\ c # <<>>
    BY <1>2, EmptySeq
  <2>2. QED
    BY <2>1
<1>4. t = c[1]
  BY <1>3, Zenon DEF Label
<1>5. v.ctrl[1].kind = "block" /\ v.ctrl[1].results = rs /\ v.ctrl[1].height = 0
  <2> HIDE DEF fn, K, p, c
  <2>1. p \in 1 .. Len(fn.body) + 1
    BY <1>2, Levels
  <2>2. QED
    BY <1>2, <2>1, Outermost
<1>6. Holds(fn, K, p, 1, c[1])
  BY <1>2, <1>3 DEF Framed, Level
<1>7. t.type = "block" /\ t.results = rs /\ t.height = 0
  BY <1>4, <1>5, <1>6 DEF Holds
<1>8. Carried(t) = rs
  BY <1>7 DEF Carried
<1>9. Top(stack, rs) /\ 0 + Len(rs) <= Len(stack)
  <2>1. Inner(v).height \in Nat
    <3>1. Inner(v) \in Entries
      BY <1>2, <1>3, StackedParts
    <3>2. QED
      BY <3>1 DEF Entries
  <2> HIDE DEF v, rs
  <2>2. Yields(v, stack, rs)
    BY <1>2, <1>5 DEF Serves
  <2>3. QED
    BY <1>2, <2>1, <2>2 DEF Yields
<1>10. stack = SubSeq(stack, 1, Len(stack)) /\ Len(stack) \in 0 .. Len(stack)
  BY <1>2
<1> HIDE DEF rs, t, l, c
<1>11. CanUnwind(stack, 0, rs) /\ OnBase(Unwound(stack, 0, rs), stack, 0, rs)
  BY <1>2, <1>9, <1>10, Unwinds
<1>12. Unwound(stack, 0, rs) = rs
  BY <1>2, <1>11, OnNothing
<1>13. CanBranch(stack, l) /\ Carry(stack, l) = rs
  BY <1>3, <1>7, <1>8, <1>11, <1>12 DEF CanBranch, Carry, t, c
<1>14. Continue(Below, rs)
  BY <1>1, <1>3, <1>13
<1>15. Len(Body) + 1 \in Reaches
  BY <1>2 DEF Reaches
<1>16. QED
  BY <1>14, <1>15 DEF Went, rs

(* An unreachable instruction is a trap.                                   *)
LEMMA UnreachableStops ==
  ASSUME Unreachable
  PROVE  Stopped
<1>1. Instr.op = "unreachable" /\ Failed({"TRAP"})
  BY AbortFails DEF Unreachable, Executing, Op, Instr
<1>2. QED
  BY <1>1 DEF Stopped

(* The label of a branch in a module that is supported.                    *)
LEMMA LabelSupported ==
  ASSUME Standing, Agreeing, Supported(code), NEW op \in {"br", "br_if", "br_table"},
         Executing(op), NEW k \in 1 .. Len(Instr.arg),
         LET v == Known(code, Frame.fn)[Frame.pc] IN Instr.arg[k] < Len(v.ctrl)
  PROVE  /\ Instr.arg[k] \in Nat
         /\ LET v == Known(code, Frame.fn)[Frame.pc]  e == v.ctrl[Len(v.ctrl) - Instr.arg[k]]
            IN  e.kind = "loop" => e.params # <<>> \/ e.results = <<>>
<1> DEFINE v == Known(code, Frame.fn)[Frame.pc]
           b == code[Frame.fn].body
<1>1. /\ Instr.op = op /\ Frame.pc \in 1 .. Len(b) /\ b[Frame.pc] = Instr
      /\ Instr.arg \in Seq(Nat) /\ status = "running"
  BY Here
<1>2. Frame.fn \in DOMAIN code
  BY <1>1, Running, Coded
<1>3. b[Frame.pc].op \in {"br", "br_if", "br_table"} =>
        \A i \in 1 .. Len(b[Frame.pc].arg) :
          b[Frame.pc].arg[i] < Len(v.ctrl) =>
            LET t == v.ctrl[Len(v.ctrl) - b[Frame.pc].arg[i]]
            IN  t.kind = "loop" => t.params # <<>> \/ t.results = <<>>
  BY <1>1, <1>2, Zenon DEF Supported
<1> DEFINE l == Instr.arg[k]
           t == v.ctrl[Len(v.ctrl) - l]
<1>4. l \in Nat /\ l < Len(v.ctrl)
  BY <1>1
<1>5. t.kind = "loop" => t.params # <<>> \/ t.results = <<>>
  <2> HIDE DEF v
  <2>1. QED
    BY <1>1, <1>3, <1>4
<1>6. QED
  BY <1>4, <1>5

(* A branch goes to its label.                                             *)
LEMMA BrGoes ==
  ASSUME Standing, Agreeing, Supported(code), Br
  PROVE  Went(Reaches)
<1> DEFINE v == Known(code, Frame.fn)[Frame.pc]
           l == Instr.arg[1]
<1>1. Executing("br") /\ Branch(Frame, stack, l)
  BY DEF Br
<1>2. /\ status = "running" /\ Instr.op = "br" /\ stack = v.ops /\ stack \in Seq(Types)
      /\ Frame.pc \in 1 .. Len(code[Frame.fn].body)
      /\ Serves(code, v, Instr, Known(code, Frame.fn)[Frame.pc + 1])
      /\ Instr.arg \in Seq(Nat) /\ Formed(code, Instr)
  BY <1>1, Here
<1>3. 1 \in 1 .. Len(Instr.arg)
  BY <1>2 DEF Formed
<1>4. l < Len(v.ctrl) /\ Yields(v, stack, LabelTypes(v, l))
  <2> HIDE DEF v
  <2>1. QED
    BY <1>2 DEF Serves
<1>5. l \in Nat /\ LET e == v.ctrl[Len(v.ctrl) - l]
                   IN  e.kind = "loop" => e.params # <<>> \/ e.results = <<>>
  BY <1>1, <1>3, <1>4, LabelSupported
<1>6. Prefix(stack, stack)
  <2>1. stack = SubSeq(stack, 1, Len(stack)) /\ Len(stack) \in 0 .. Len(stack)
    BY <1>2
  <2>2. QED
    BY <2>1, Zenon DEF Prefix
<1>7. Went({Target(Body, Labelled(Body, Frame.pc, l))})
  <2> HIDE DEF l
  <2>1. QED
    BY <1>1, <1>2, <1>4, <1>5, <1>6, BranchGoes
<1>8. Target(Body, Labelled(Body, Frame.pc, l)) \in Reaches
  BY <1>2, <1>3 DEF Reaches
<1>9. QED
  BY <1>7, <1>8 DEF Went

(* The operands but the condition.                                         *)
LEMMA LessOne ==
  ASSUME NEW s \in Seq(Types), s # <<>>
  PROVE  Prefix(Drop(s, 1), s) /\ Drop(s, 1) = Without(s, 1)
<1> DEFINE n == Len(s) - 1
<1>1. n \in 0 .. Len(s)
  BY EmptySeq
<1>2. Drop(s, 1) = SubSeq(s, 1, n) /\ Without(s, 1) = SubSeq(s, 1, n)
  BY Zenon DEF Drop, Without
<1> HIDE DEF n
<1>3. QED
  BY <1>1, <1>2, Zenon DEF Prefix

(* A conditional branch goes on, or to its label.                          *)
LEMMA BrIfGoes ==
  ASSUME Standing, Agreeing, Supported(code), BrIf
  PROVE  Went(Reaches)
<1> DEFINE v == Known(code, Frame.fn)[Frame.pc]
           w == Known(code, Frame.fn)[Frame.pc + 1]
           l == Instr.arg[1]
           s == Drop(stack, 1)
<1>1. Executing("br_if")
  BY DEF BrIf
<1>2. /\ status = "running" /\ Instr.op = "br_if" /\ stack = v.ops /\ stack \in Seq(Types)
      /\ Frame.pc \in 1 .. Len(code[Frame.fn].body)
      /\ Serves(code, v, Instr, w)
      /\ Instr.arg \in Seq(Nat) /\ Formed(code, Instr)
  BY <1>1, Here
<1>3. 1 \in 1 .. Len(Instr.arg)
  BY <1>2 DEF Formed
<1>4. stack # <<>> /\ l < Len(v.ctrl) /\ Yields(v, Without(stack, 1), LabelTypes(v, l))
      /\ w.ops = Without(stack, 1)
  <2> HIDE DEF v, w
  <2>1. QED
    BY <1>2 DEF Serves
<1>5. l \in Nat /\ LET e == v.ctrl[Len(v.ctrl) - l]
                   IN  e.kind = "loop" => e.params # <<>> \/ e.results = <<>>
  BY <1>1, <1>3, <1>4, LabelSupported
<1>6. Prefix(s, stack) /\ s = Without(stack, 1)
  BY <1>2, <1>4, LessOne
<1>7. Continue(With(Advance), s) \/ Branch(Frame, s, l)
  BY <1>4, Zenon DEF BrIf
<1> HIDE DEF s
<1>8. ASSUME Branch(Frame, s, l) PROVE Went({Target(Body, Labelled(Body, Frame.pc, l))})
  <2> HIDE DEF l
  <2>1. QED
    BY <1>2, <1>4, <1>5, <1>6, <1>8, BranchGoes
<1>9. /\ Target(Body, Labelled(Body, Frame.pc, l)) \in Reaches
      /\ Frame.pc + 1 \in Reaches
  BY <1>2, <1>3 DEF Reaches
<1>10. CASE Continue(With(Advance), s)
  <2>1. Moved(Advance, s) /\ Advance.pc = Frame.pc + 1
    BY <1>1, <1>4, <1>6, <1>10, Advanced DEF Moved
  <2>2. QED
    BY <1>9, <2>1 DEF Went
<1>11. CASE Branch(Frame, s, l)
  BY <1>8, <1>9, <1>11 DEF Went
<1>12. QED
  BY <1>7, <1>10, <1>11

(* A branch by a table goes to one of its labels.                          *)
LEMMA BrTableGoes ==
  ASSUME Standing, Agreeing, Supported(code), BrTable
  PROVE  Went(Reaches)
<1> DEFINE v == Known(code, Frame.fn)[Frame.pc]
           s == Drop(stack, 1)
<1>1. Executing("br_table")
  BY DEF BrTable
<1>2. /\ status = "running" /\ Instr.op = "br_table" /\ stack = v.ops /\ stack \in Seq(Types)
      /\ Frame.pc \in 1 .. Len(code[Frame.fn].body)
      /\ Serves(code, v, Instr, Known(code, Frame.fn)[Frame.pc + 1])
      /\ Instr.arg \in Seq(Nat)
  BY <1>1, Here
<1>3. /\ stack # <<>>
      /\ \A k \in 1 .. Len(Instr.arg) :
           Instr.arg[k] < Len(v.ctrl) /\ Yields(v, Without(stack, 1), LabelTypes(v, Instr.arg[k]))
  <2> HIDE DEF v
  <2>1. QED
    BY <1>2 DEF Serves
<1>4. PICK k \in 1 .. Len(Instr.arg) : Branch(Frame, s, Instr.arg[k])
  BY <1>3, Zenon DEF BrTable
<1> DEFINE l == Instr.arg[k]
<1>5. l < Len(v.ctrl) /\ Yields(v, Without(stack, 1), LabelTypes(v, l))
  BY <1>3
<1>6. l \in Nat /\ LET e == v.ctrl[Len(v.ctrl) - l]
                   IN  e.kind = "loop" => e.params # <<>> \/ e.results = <<>>
  BY <1>1, <1>5, LabelSupported
<1>7. Prefix(s, stack) /\ s = Without(stack, 1)
  BY <1>2, <1>3, LessOne
<1> HIDE DEF s
<1>8. Went({Target(Body, Labelled(Body, Frame.pc, l))})
  <2> HIDE DEF l
  <2>1. Branch(Frame, s, l)
    BY <1>4 DEF l
  <2>2. QED
    BY <1>2, <1>5, <1>6, <1>7, <2>1, BranchGoes
<1>9. Target(Body, Labelled(Body, Frame.pc, l)) \in Reaches
  BY <1>2 DEF Reaches
<1>10. QED
  BY <1>8, <1>9 DEF Went

(* A call made by the running frame, with operands that had rest under the *)
(* arguments.                                                              *)
LEMMA CallPlaced ==
  ASSUME Standing, Agreeing, NEW op \in {"call", "call_indirect"}, Executing(op),
         NEW f \in Fns, NEW s \in Seq(Types), Typed(s, code[f].params),
         Drop(s, Len(code[f].params)) \o code[f].results = Ops(code, Advance),
         ~ code[f].imported => /\ Drop(s, Len(code[f].params)) = <<>>
                               /\ Waits(code, Advance, f),
         CallFunction(f, With(Advance), s), entry' = entry
  PROVE  Agreeing' /\ Made(f, With(Advance))
<1> DEFINE fs == With(Advance)
<1>1. Stands(code, Advance) /\ Sound(code, Advance) /\ Advance.fn = Frame.fn
  BY Advanced
<1>2. status = "running"
  BY Executed
<1>3. /\ Chained(code, entry, fs) /\ fs # <<>> /\ fs[Len(fs)] = Advance
      /\ Upright(code, fs)
  BY <1>1, <1>2, Placed
<1>4. CallFunction(f, fs, s)
  OBVIOUS
<1> HIDE DEF fs
<1>5. Calling(code, entry, fs, f, s)
  BY <1>3, Zenon DEF Calling
<1>6. Agreeing' /\ Made(f, fs)
  BY <1>3, <1>4, <1>5, CallAgrees
<1>7. QED
  BY <1>6 DEF fs

(* A call is not the last instruction.                                     *)
LEMMA NotLast ==
  ASSUME Standing, Agreeing, NEW op \in {"call", "call_indirect"}, Executing(op)
  PROVE  Frame.pc + 1 \in 2 .. Len(code[Frame.fn].body)
<1> DEFINE fn == code[Frame.fn]
           K == Known(code, Frame.fn)
           p == Frame.pc
<1>1. Instr.op = op /\ p \in 1 .. Len(fn.body) /\ fn.body[p] = Instr /\ Typing(fn, K)
  BY Here
<1> HIDE DEF fn, K, p
<1>2. /\ Len(fn.body) \in Nat /\ Level(K, p) >= 1 /\ Level(K, Len(fn.body) + 1) = 0
      /\ Level(K, p+1) = IF fn.body[p].op \in Openers THEN Level(K, p) + 1
                         ELSE IF fn.body[p].op = "end" THEN Level(K, p) - 1
                         ELSE Level(K, p)
  BY <1>1, Levels
<1>3. Level(K, p + 1) = Level(K, p)
  BY <1>1, <1>2 DEF Openers
<1>4. p # Len(fn.body)
  BY <1>2, <1>3
<1>5. QED
  BY <1>1, <1>2, <1>4 DEF fn, p

(* A frame that called a function that takes all its operands waits for    *)
(* its results.                                                            *)
LEMMA AdvanceWaits ==
  ASSUME Standing, Agreeing, NEW op \in {"call", "call_indirect"}, Executing(op),
         NEW f \in Fns,
         LET n == IF op = "call" THEN Len(code[Instr.arg[1]].params) ELSE Len(Instr.in) + 1
         IN  n \in Nat /\ n = Len(stack),
         Ops(code, Advance) = code[f].results
  PROVE  Waits(code, Advance, f)
<1> DEFINE K == Known(code, Frame.fn)
           p == Frame.pc
           fn == code[Frame.fn]
           n == IF op = "call" THEN Len(code[Instr.arg[1]].params) ELSE Len(Instr.in) + 1
           v == Known(code, Advance.fn)[Advance.pc - 1]
           i == code[Advance.fn].body[Advance.pc - 1]
<1>1. /\ Instr.op = op /\ stack = K[p].ops /\ stack \in Seq(Types) /\ p \in Nat /\ p >= 1
      /\ code[Frame.fn].body[p] = Instr
  BY Here
<1>2. Advance.fn = Frame.fn /\ Advance.pc = p + 1
  BY Advanced
<1>3. Advance.pc - 1 = p /\ Advance.pc \in 2 .. Len(code[Advance.fn].body)
  BY <1>1, <1>2, NotLast
<1>4. v = K[p] /\ i = Instr
  BY <1>1, <1>2, <1>3
<1>5. n = Len(stack)
  OBVIOUS
<1>6. (IF i.op = "call" THEN Len(code[i.arg[1]].params) ELSE Len(i.in) + 1) = n
  BY <1>1, <1>4
<1> HIDE DEF n, v, i, K, p
<1>7. Drop(v.ops, n) = <<>>
  BY <1>1, <1>4, <1>5 DEF Drop
<1>8. QED
  BY <1>3, <1>6, <1>7 DEF Waits, v, i

(* A call.                                                                 *)
LEMMA CallGoes ==
  ASSUME Standing, Agreeing, Supported(code), Call, entry' = entry
  PROVE  Agreeing' /\ Instr.op = "call" /\ Made(Instr.arg[1], With(Advance))
<1> DEFINE f == Instr.arg[1]
           v == Known(code, Frame.fn)[Frame.pc]
           w == Known(code, Frame.fn)[Frame.pc + 1]
           ps == code[f].params
           rs == code[f].results
           n == Len(ps)
           b == code[Frame.fn].body
<1>1. Executing("call") /\ CallFunction(f, With(Advance), stack)
  BY DEF Call
<1>2. /\ status = "running" /\ Instr.op = "call" /\ stack = v.ops /\ stack \in Seq(Types)
      /\ Frame.pc \in 1 .. Len(b) /\ b[Frame.pc] = Instr
      /\ Serves(code, v, Instr, w)
  BY <1>1, Here
<1>3. f \in Fns
  BY <1>1, Executed
<1>4. ps \in Seq(Types) /\ rs \in Seq(Types) /\ Frame.fn \in DOMAIN code
  BY <1>2, <1>3, Running, Coded
<1>5. Top(stack, ps) /\ OnBase(w.ops, stack, Len(stack) - n, rs)
  <2> HIDE DEF v, w
  <2>1. LET g == code[Instr.arg[1]]
        IN  Top(stack, g.params) /\ w.ops = Without(stack, Len(g.params)) \o g.results
    BY <1>2 DEF Serves
  <2>2. QED
    BY <2>1, Zenon DEF Without, OnBase
<1>6. Typed(stack, ps)
  BY <1>5 DEF Typed, Top, Last
<1>7. Ops(code, Advance) = w.ops
  BY <1>1, Advanced
<1>8. Ops(code, Advance) = Drop(stack, n) \o rs
  <2> HIDE DEF w, n
  <2>1. QED
    BY <1>5, <1>7, Zenon DEF OnBase, Drop
<1>9. ASSUME ~ code[f].imported PROVE Drop(stack, n) = <<>> /\ Waits(code, Advance, f)
  <2>1. Len(v.ops) <= n
    <3>1. b[Frame.pc].op = "call" /\ ~ code[b[Frame.pc].arg[1]].imported
            => Len(v.ops) <= Len(code[b[Frame.pc].arg[1]].params)
      BY <1>2, <1>4, Zenon DEF Supported
    <3>2. QED
      BY <1>2, <1>9, <3>1
  <2>2. n = Len(stack) /\ n \in Nat
    BY <1>2, <1>4, <1>6, <2>1 DEF Typed
  <2> HIDE DEF v, w, ps, rs
  <2>3. Drop(stack, n) = <<>>
    BY <1>2, <2>2 DEF Drop
  <2>4. Ops(code, Advance) = rs
    <3>1. <<>> \o rs = rs
      BY <1>4, ConcatEmptySeq
    <3> HIDE DEF n
    <3>2. QED
      BY <1>8, <2>3, <3>1
  <2>5. Waits(code, Advance, f)
    BY <1>1, <1>3, <2>2, <2>4, AdvanceWaits DEF rs, ps
  <2>6. QED
    BY <2>3, <2>5
<1> HIDE DEF f
<1>10. Agreeing' /\ Made(f, With(Advance))
  BY <1>1, <1>2, <1>3, <1>6, <1>8, <1>9, CallPlaced
<1>11. QED
  BY <1>2, <1>10 DEF f

(* A call through a table, of a function of the signature asked for.       *)
LEMMA CallIndirectGoes ==
  ASSUME Standing, Agreeing, Supported(code), CallIndirect, entry' = entry
  PROVE  /\ Agreeing' /\ Instr.op = "call_indirect"
         /\ \/ Failed({"TRAP"})
            \/ \E f \in Fns : /\ code[f].params = Instr.in /\ code[f].results = Instr.out
                              /\ Made(f, With(Advance))
<1> DEFINE v == Known(code, Frame.fn)[Frame.pc]
           w == Known(code, Frame.fn)[Frame.pc + 1]
           ps == Instr.in
           rs == Instr.out
           n == Len(ps)
           b == code[Frame.fn].body
           s == Drop(stack, 1)
           Done == /\ Agreeing' /\ Instr.op = "call_indirect"
                   /\ \/ Failed({"TRAP"})
                      \/ \E f \in Fns : /\ code[f].params = Instr.in
                                        /\ code[f].results = Instr.out
                                        /\ Made(f, With(Advance))
<1> SUFFICES Done
  OBVIOUS
<1>1. Executing("call_indirect")
  BY DEF CallIndirect
<1>2. /\ status = "running" /\ Instr.op = "call_indirect" /\ stack = v.ops
      /\ stack \in Seq(Types) /\ ps \in Seq(Types) /\ rs \in Seq(Types)
      /\ Frame.pc \in 1 .. Len(b) /\ b[Frame.pc] = Instr
      /\ Serves(code, v, Instr, w)
  BY <1>1, Here
<1>3. Frame.fn \in DOMAIN code
  BY <1>2, Running, Coded
<1>4. /\ stack # <<>> /\ Top(Without(stack, 1), ps)
      /\ OnBase(w.ops, Without(stack, 1), Len(Without(stack, 1)) - n, rs)
  <2> HIDE DEF v, w
  <2>1. stack # <<>> /\ Top(Without(stack, 1), Instr.in)
        /\ w.ops = Without(Without(stack, 1), Len(Instr.in)) \o Instr.out
    BY <1>2 DEF Serves
  <2>2. w.ops = SubSeq(Without(stack, 1), 1, Len(Without(stack, 1)) - n) \o rs
    BY <2>1, Zenon DEF Without
  <2>3. QED
    BY <2>1, <2>2, Zenon DEF OnBase
<1>5. /\ s = Without(stack, 1) /\ s \in Seq(Types) /\ Len(s) = Len(stack) - 1
      /\ Len(stack) \in Nat /\ Len(s) \in Nat
  BY <1>2, <1>4, LessOne, Popped
<1>6. CASE \E x : Abort("TRAP", x)
  <2>1. Agreeing' /\ Failed({"TRAP"})
    BY <1>6, AbortedAgrees, AbortFails DEF Errors
  <2>2. QED
    BY <1>2, <2>1
<1> HIDE DEF s
<1>7. Typed(s, ps)
  BY <1>4, <1>5 DEF Typed, Top, Last
<1>8. Ops(code, Advance) = Drop(s, n) \o rs
  <2>1. Ops(code, Advance) = w.ops
    BY <1>1, Advanced
  <2> HIDE DEF w, n
  <2>2. OnBase(w.ops, s, Len(s) - n, rs)
    BY <1>4, <1>5
  <2>3. QED
    BY <2>1, <2>2, Zenon DEF OnBase, Drop
<1>9. Len(stack) = n + 1 /\ n \in Nat
  <2>1. Len(v.ops) <= n + 1
    <3>1. b[Frame.pc].op = "call_indirect" => Len(v.ops) <= Len(b[Frame.pc].in) + 1
      BY <1>2, <1>3, Zenon DEF Supported
    <3>2. QED
      BY <1>2, <3>1
  <2>2. QED
    BY <1>2, <1>5, <1>7, <2>1 DEF Typed
<1>10. Drop(s, n) = <<>>
  <2>1. Len(s) - n = 0
    BY <1>5, <1>9
  <2>2. QED
    BY <1>5, <2>1 DEF Drop
<1>11. Ops(code, Advance) = rs
  <2>1. <<>> \o rs = rs
    BY <1>2, ConcatEmptySeq
  <2> HIDE DEF n, rs
  <2>2. QED
    BY <1>8, <1>10, <2>1
<1> HIDE DEF Done
<1>12. ASSUME NEW f \in Fns, code[f].params = ps, code[f].results = rs,
              CallFunction(f, With(Advance), s)
       PROVE  Done
  <2>1. Waits(code, Advance, f)
    BY <1>1, <1>9, <1>11, <1>12, AdvanceWaits
  <2>2. /\ Typed(s, code[f].params) /\ Drop(s, Len(code[f].params)) = <<>>
        /\ Drop(s, Len(code[f].params)) \o code[f].results = Ops(code, Advance)
    <3>1. /\ Typed(s, ps) /\ Drop(s, Len(ps)) = <<>>
          /\ Drop(s, Len(ps)) \o rs = Ops(code, Advance)
      BY <1>7, <1>8, <1>10
    <3> HIDE DEF ps, rs
    <3>2. QED
      BY <1>12, <3>1
  <2>3. Agreeing' /\ Made(f, With(Advance))
    BY <1>1, <1>5, <1>12, <2>1, <2>2, CallPlaced
  <2>4. QED
    BY <1>2, <1>12, <2>3 DEF Done
<1>13. QED
  BY <1>4, <1>6, <1>12, Zenon DEF CallIndirect, s

(* A job that is started.                                                  *)
LEMMA StartGoes ==
  ASSUME Standing, NEW f \in Fns, StartJob(f)
  PROVE  Agreeing' /\ Made(f, <<>>)
<1>1. PICK args \in {<<>>, code[f].params} : CallFunction(f, <<>>, args)
  BY DEF StartJob
<1>2. entry' = f
  BY DEF StartJob
<1>3. code[f].params \in Seq(Types)
  BY Coded DEF Standing
<1>4. args \in Seq(Types)
  <2>1. args = <<>> \/ args = code[f].params
    OBVIOUS
  <2>2. <<>> \in Seq(Types)
    OBVIOUS
  <2>3. QED
    BY <1>3, <2>1, <2>2
<1>5. Upright(code, <<>>)
  BY DepthAssumption DEF Upright
<1>6. Calling(code, f, <<>>, f, args)
  BY <1>1 DEF Calling, Chained
<1>7. QED
  BY <1>1, <1>2, <1>4, <1>5, <1>6, CallAgrees

-----------------------------------------------------------------------------
(* Every step of a module that is supported keeps the agreement with       *)
(* validation.                                                             *)
LEMMA AgreeingStep ==
  Standing /\ Agreeing /\ Supported(code) /\ [Next]_vars => Agreeing'
<1> SUFFICES ASSUME Standing, Agreeing, Supported(code), [Next]_vars PROVE Agreeing'
  OBVIOUS
<1>1. CASE UNCHANGED vars
  <2>1. code' = code /\ frames' = frames /\ stack' = stack /\ status' = status /\ entry' = entry
    BY <1>1 DEF vars
  <2>2. QED
    BY <2>1 DEF Agreeing
<1>2. ASSUME NEW f \in Fns, StartJob(f) PROVE Agreeing'
  BY <1>2, StartGoes
<1>3. ASSUME Turn PROVE Agreeing'
  <2>1. entry' = entry
    BY <1>3 DEF Turn
  <2>2. CASE LeaveFrame
    BY <2>1, <2>2, LeaveGoes, LeftAgrees
  <2>3. ASSUME status = "running", Went(Reaches) \/ Stopped PROVE Agreeing'
    BY <2>1, <2>3, WentAgrees
  <2>4. ASSUME NEW op, Executing(op) PROVE status = "running"
    BY <2>4 DEF Executing
  <2>5. CASE Ordinary
    BY <2>3, <2>4, <2>5, OrdinaryGoes DEF Ordinary
  <2>6. CASE Block
    BY <2>3, <2>4, <2>6, BlockGoes DEF Block
  <2>7. CASE If
    <3>1. Executing("if")
      BY <2>7, Zenon DEF If
    <3>2. QED
      BY <2>3, <2>4, <2>7, <3>1, IfGoes
  <2>8. CASE Else
    BY <2>3, <2>4, <2>8, ElseGoes DEF Else
  <2>9. CASE End
    <3>1. Executing("end")
      BY <2>9, Zenon DEF End
    <3>2. QED
      BY <2>3, <2>4, <2>9, <3>1, EndGoes
  <2>10. CASE Br
    BY <2>3, <2>4, <2>10, BrGoes DEF Br
  <2>11. CASE BrIf
    BY <2>3, <2>4, <2>11, BrIfGoes DEF BrIf
  <2>12. CASE BrTable
    BY <2>3, <2>4, <2>12, BrTableGoes DEF BrTable
  <2>13. CASE Return
    <3>1. Executing("return")
      BY <2>13, Zenon DEF Return
    <3>2. QED
      BY <2>3, <2>4, <2>13, <3>1, ReturnGoes
  <2>14. CASE Unreachable
    BY <2>3, <2>4, <2>14, UnreachableStops DEF Unreachable
  <2>15. CASE Call
    BY <2>1, <2>15, CallGoes
  <2>16. CASE CallIndirect
    BY <2>1, <2>16, CallIndirectGoes
  <2>17. QED
    BY <1>3, <2>2, <2>5, <2>6, <2>7, <2>8, <2>9, <2>10, <2>11, <2>12, <2>13, <2>14, <2>15,
       <2>16 DEF Turn
<1>4. QED
  BY <1>1, <1>2, <1>3 DEF Next

(* The modules a job may run are all supported.                            *)
Runnable == \A m \in Modules : Supported(m)

(* At every instruction of every call frame a job has what validation      *)
(* says, in a runtime whose modules are supported.                         *)
LEMMA Agreed ==
  ASSUME Runnable
  PROVE  Spec => [](Standing /\ Agreeing)
<1>1. Init => Standing /\ Agreeing
  BY StandingInitially DEF Init, Agreeing
<1>2. Standing /\ Agreeing /\ [Next]_vars => (Standing /\ Agreeing)'
  <2> SUFFICES ASSUME Standing, Agreeing, [Next]_vars PROVE (Standing /\ Agreeing)'
    OBVIOUS
  <2>1. Supported(code)
    BY DEF Runnable, Standing
  <2>2. Standing'
    BY StandingStep
  <2>3. Agreeing'
    BY <2>1, AgreeingStep
  <2>4. QED
    BY <2>2, <2>3
<1>3. QED
  BY <1>1, <1>2, PTL DEF Spec

(* No waiting call leaves operands under those of the running function.    *)
LEMMA NothingBelow ==
  ASSUME Standing, Agreeing, NEW k \in 1 .. Len(frames)
  PROVE  Base(k) = <<>>
<1> DEFINE Step(f, j) == IF j = 1 THEN <<>> ELSE f[j-1] \o Waiting(j-1)
           Is(f) == f = [j \in 1 .. k |-> Step(f, j)]
           U == CHOOSE f : Is(f)
           none == [j \in 1 .. k |-> <<>>]
<1>1. /\ k \in Nat /\ k >= 1 /\ Len(frames) \in Nat /\ frames # <<>>
      /\ \A j \in 2 .. k : j - 1 \in 1 .. Len(frames) - 1 /\ j - 1 \in 1 .. k
      /\ \A j \in 1 .. k : j = 1 \/ j \in 2 .. k
  BY DEF Standing, TypeOK
<1>2. status = "running"
  BY <1>1 DEF Standing, TypeOK
<1>3. Chained(code, entry, frames)
  BY <1>2 DEF Agreeing
<1>4. ASSUME NEW j \in 2 .. k PROVE Waiting(j-1) = <<>>
  <2> DEFINE i == j - 1
  <2>1. i \in 1 .. Len(frames) - 1
    BY <1>1
  <2> HIDE DEF i
  <2>2. Waits(code, frames[i], frames[i+1].fn)
    BY <1>3, <2>1 DEF Chained
  <2>3. Waiting(i) = <<>>
    BY <2>2, Zenon DEF Waits, Waiting
  <2>4. QED
    BY <2>3 DEF i
<1>5. Base(k) = U[k]
  BY Zenon DEF Base
<1>6. <<>> \o <<>> = <<>>
  OBVIOUS
<1>7. Is(none)
  <2>1. ASSUME NEW j \in 1 .. k PROVE Step(none, j) = <<>>
    <3>1. CASE j = 1
      BY <3>1
    <3>2. CASE j # 1
      <4>1. j \in 2 .. k /\ j - 1 \in 1 .. k
        BY <1>1, <3>2
      <4>2. none[j-1] = <<>> /\ Waiting(j-1) = <<>>
        BY <1>4, <4>1
      <4> HIDE DEF none
      <4>3. QED
        BY <1>6, <3>2, <4>2
    <3>3. QED
      BY <3>1, <3>2
  <2> HIDE DEF Step
  <2>2. none = [j \in 1 .. k |-> Step(none, j)]
    BY <2>1
  <2>3. QED
    BY <2>2
<1> HIDE DEF none
<1>8. Is(U)
  <2> HIDE DEF Is
  <2>1. QED
    BY <1>7
<1> HIDE DEF U
<1>9. \A j \in 1 .. k : U[j] = Step(U, j)
  <2> HIDE DEF Step
  <2>1. QED
    BY <1>8
<1> DEFINE S == {j \in Nat : j + 1 \in 1 .. k => U[j+1] = <<>>}
<1>10. 0 \in S
  <2>1. U[1] = <<>> /\ 0 + 1 = 1
    BY <1>1, <1>9
  <2>2. QED
    BY <2>1
<1>11. ASSUME NEW j \in Nat, j \in S PROVE j + 1 \in S
  <2> DEFINE i == j + 2
  <2> SUFFICES ASSUME i \in 1 .. k PROVE U[i] = <<>>
    OBVIOUS
  <2>1. i \in 2 .. k /\ i # 1 /\ i - 1 = j + 1 /\ j + 1 \in 1 .. k
    BY <1>1
  <2>2. U[j+1] = <<>>
    BY <1>11, <2>1
  <2> HIDE DEF i
  <2>3. U[i] = U[i-1] \o Waiting(i-1)
    BY <1>1, <1>9, <2>1
  <2>4. Waiting(i-1) = <<>>
    BY <1>4, <2>1
  <2>5. QED
    BY <1>6, <2>1, <2>2, <2>3, <2>4
<1>12. Nat \subseteq S
  <2> HIDE DEF S
  <2>1. QED
    BY <1>10, <1>11, SetInduction
<1>13. k - 1 \in S /\ k - 1 + 1 = k /\ k \in 1 .. k
  BY <1>1, <1>12
<1>14. U[k] = <<>>
  BY <1>13
<1>15. QED
  BY <1>5, <1>14

(* Before every instruction the one operand stack holds what validation    *)
(* says, the operands of the calls that wait and those of the running      *)
(* function, whatever path led there.                                      *)
THEOREM OperandsCorrect ==
  ASSUME Runnable
  PROVE  Spec => []OperandsAgree
<1>1. Standing /\ Agreeing => OperandsAgree
  <2> SUFFICES ASSUME Standing, Agreeing, frames # <<>>
               PROVE  stack = Base(Len(frames)) \o KnownAt(Len(frames)).ops
    BY DEF OperandsAgree
  <2> DEFINE n == Len(frames)
  <2>1. status = "running" /\ n \in 1 .. n
    BY DEF Standing, TypeOK
  <2>2. stack = Ops(code, frames[n]) /\ stack \in Seq(Types)
    BY <2>1 DEF Agreeing, Left, Standing, TypeOK
  <2>3. KnownAt(n).ops = stack
    BY <2>2 DEF KnownAt, Ops
  <2>4. Base(n) = <<>>
    BY <2>1, NothingBelow
  <2>5. <<>> \o stack = stack
    BY <2>2, ConcatEmptySeq
  <2> HIDE DEF n
  <2>6. Base(n) \o KnownAt(n).ops = stack
    BY <2>3, <2>4, <2>5
  <2>7. QED
    BY <2>6 DEF n
<1>2. QED
  BY <1>1, Agreed, PTL

(* The control frames of every call frame are the blocks the text has      *)
(* around its instruction, with their ends, results and heights, and no    *)
(* instruction is reached that validation calls dead.                      *)
THEOREM ControlCorrect ==
  ASSUME Runnable
  PROVE  Spec => []ControlAgrees
<1>1. Standing /\ Agreeing => ControlAgrees
  <2> SUFFICES ASSUME Standing, Agreeing, NEW k \in 1 .. Len(frames)
               PROVE  LET v == KnownAt(k)
                          c == frames[k].control
                          b == code[frames[k].fn].body
                      IN  /\ Reachable(v)
                          /\ Len(c) = Len(v.ctrl)
                          /\ \A j \in 1 .. Len(c) :
                               /\ c[j].end = EndOf(b, Labelled(b, frames[k].pc, Len(c) - j)) + 1
                               /\ c[j].results = v.ctrl[j].results
                               /\ c[j].height = Len(Base(k)) + v.ctrl[j].height
    BY Zenon DEF ControlAgrees
  <2> DEFINE fr == frames[k]
             fn == code[fr.fn]
             K == Known(code, fr.fn)
             p == fr.pc
             c == fr.control
             v == K[p]
             b == fn.body
  <2>1. /\ status = "running" /\ Stands(code, fr) /\ fr \in FrameSet /\ code \in Modules
    BY DEF Standing, TypeOK, Stands
  <2>2. Sound(code, fr)
    BY <2>1 DEF Agreeing, Chained
  <2>3. fr.fn \in Fns /\ ~ fn.imported /\ c \in Seq(ControlFrames)
    BY <2>1 DEF Stands, FrameSet
  <2>4. Typing(fn, K) /\ fn.results \in Seq(Types)
    BY <2>1, <2>3, Coded
  <2>5. Framed(fn, K, p, c)
    BY <2>2 DEF Sound
  <2>6. Base(k) = <<>>
    BY NothingBelow
  <2>7. KnownAt(k) = v
    BY DEF KnownAt
  <2> HIDE DEF fn, K, p, c, fr
  <2>8. /\ Reachable(v) /\ Len(c) = Len(v.ctrl) /\ p \in 1 .. Len(b) + 1
        /\ \A j \in 1 .. Len(c) : Holds(fn, K, p, j, c[j])
    BY <2>5 DEF Framed, Level
  <2>9. ASSUME NEW j \in 1 .. Len(c)
        PROVE  /\ c[j].end = EndOf(b, Labelled(b, p, Len(c) - j)) + 1
               /\ c[j].results = v.ctrl[j].results
               /\ c[j].height = Len(Base(k)) + v.ctrl[j].height
    <3> DEFINE l == Len(c) - j
    <3>1. l \in Nat /\ l < Len(c) /\ Len(c) - l = j /\ Len(c) >= 1 /\ c[j] \in ControlFrames
      BY <2>3
    <3>2. p \in 1 .. Len(b)
      <4>1. Level(K, Len(b) + 1) = 0 /\ Len(b) \in Nat
        BY <2>4, Levels
      <4>2. p # Len(b) + 1
        BY <2>8, <3>1, <4>1 DEF Level
      <4>3. QED
        BY <2>8, <4>1, <4>2
    <3> HIDE DEF l
    <3>3. c[Len(c) - l].end = EndOf(b, Labelled(b, p, l)) + 1
      BY <2>4, <2>5, <3>1, <3>2, LandsAt
    <3>4. c[j].results = v.ctrl[j].results /\ c[j].height = v.ctrl[j].height
      BY <2>8 DEF Holds
    <3>5. Len(Base(k)) = 0 /\ c[j].height \in Nat
      BY <2>6, <3>1 DEF ControlFrames
    <3>6. c[j].height = Len(Base(k)) + v.ctrl[j].height
      BY <3>4, <3>5
    <3>7. QED
      BY <3>1, <3>3, <3>4, <3>6 DEF l
  <2>10. QED
    BY <2>7, <2>8, <2>9, Zenon DEF fr, fn, K, p, c
<1>2. QED
  BY <1>1, Agreed, PTL

(* A job that ends well leaves the results of its function and nothing     *)
(* else, by whatever return, branch or end it left.                        *)
THEOREM ResultsCorrect ==
  ASSUME Runnable
  PROVE  Spec => []ResultsDelivered
<1>1. Standing /\ Agreeing => ResultsDelivered
  <2>1. SUFFICES ASSUME Standing, Agreeing, status = "ok" PROVE stack = code[entry].results
    BY DEF ResultsDelivered
  <2>2. frames = <<>>
    BY <2>1 DEF Standing, TypeOK
  <2>3. QED
    BY <2>1, <2>2 DEF Agreeing, Left
<1>2. QED
  BY <1>1, Agreed, PTL

-----------------------------------------------------------------------------
(* The loop implements structured control.                                 *)

(* The reference is the same on both sides.                                *)
LEMMA SameReference ==
  /\ \A b, q : Structured!EndOf(b, q) = EndOf(b, q) /\ Structured!ElseOf(b, q) = ElseOf(b, q)
  /\ \A b, p : Structured!Around(b, p) = Around(b, p)
  /\ \A b, p, l : Structured!Labelled(b, p, l) = Labelled(b, p, l)
  /\ \A b, q : Structured!Target(b, q) = Target(b, q)
<1>1. Structured!Openers = Openers
  BY DEF Structured!Openers, Openers
<1>2. ASSUME NEW S PROVE Structured!Cardinality(S) = Cardinality(S)
  BY Zenon DEF Structured!Cardinality, Cardinality
<1>3. ASSUME NEW b, NEW p PROVE Structured!Depth(b, p) = Depth(b, p)
  <2> DEFINE D(S) == Cardinality({q \in 1 .. p-1 : b[q].op \in S})
                     - Cardinality({q \in 1 .. p-1 : b[q].op = "end"})
  <2>1. Structured!Depth(b, p) = D(Structured!Openers)
    BY <1>2, Zenon DEF Structured!Depth
  <2>2. Depth(b, p) = D(Openers)
    BY Zenon DEF Depth
  <2> HIDE DEF D
  <2>3. QED
    BY <1>1, <2>1, <2>2
<1>4. ASSUME NEW b, NEW q PROVE Structured!EndOf(b, q) = EndOf(b, q) /\ Structured!ElseOf(b, q) = ElseOf(b, q)
  <2>1. ASSUME NEW op PROVE Structured!Parts(b, q, op) = Parts(b, q, op)
    BY <1>3 DEF Structured!Parts, Parts
  <2>2. Structured!EndOf(b, q) = EndOf(b, q)
    BY <2>1 DEF Structured!EndOf, EndOf
  <2>3. QED
    BY <2>1, <2>2 DEF Structured!ElseOf, ElseOf
<1>5. ASSUME NEW b, NEW p PROVE Structured!Around(b, p) = Around(b, p)
  BY <1>1, <1>4 DEF Structured!Around, Around
<1>6. ASSUME NEW b, NEW p, NEW l PROVE Structured!Labelled(b, p, l) = Labelled(b, p, l)
  <2> DEFINE L(S) == CHOOSE q \in S : Cardinality({r \in S : r > q}) = l
  <2>1. Structured!Labelled(b, p, l) = L(Structured!Around(b, p))
    BY <1>2, Zenon DEF Structured!Labelled
  <2>2. Labelled(b, p, l) = L(Around(b, p))
    BY Zenon DEF Labelled
  <2> HIDE DEF L
  <2>3. QED
    BY <1>5, <2>1, <2>2
<1>7. \A b, q : Structured!Target(b, q) = Target(b, q)
  BY <1>4, Zenon DEF Structured!Target, Target
<1>8. QED
  BY <1>4, <1>5, <1>6, <1>7

(* The calls of the frames fs, those shown, and the outcome shown.         *)
View(fs) == [k \in 1 .. Len(fs) |-> [fn |-> fs[k].fn, at |-> fs[k].pc]]
Calls == View(Shown)
Outcome == IF status = "running" /\ Shown = <<>> THEN "ok" ELSE status

(* The calls of a job.                                                     *)
CallSet == [fn : Fns, at : Nat]

(* There is a call for each frame.                                         *)
LEMMA Viewed ==
  ASSUME NEW fs \in Seq(FrameSet)
  PROVE  /\ View(fs) \in Seq(CallSet) /\ Len(View(fs)) = Len(fs) /\ Len(fs) \in Nat
         /\ \A k \in 1 .. Len(fs) : View(fs)[k] = [fn |-> fs[k].fn, at |-> fs[k].pc]
         /\ View(fs) = <<>> <=> fs = <<>>
<1>1. Len(fs) \in Nat /\ \A k \in 1 .. Len(fs) : fs[k] \in FrameSet
  OBVIOUS
<1>2. \A k \in 1 .. Len(fs) : [fn |-> fs[k].fn, at |-> fs[k].pc] \in CallSet
  BY <1>1 DEF FrameSet, CallSet
<1>3. View(fs) \in Seq(CallSet) /\ Len(View(fs)) = Len(fs)
  BY <1>1, <1>2 DEF View
<1>4. \A k \in 1 .. Len(fs) : View(fs)[k] = [fn |-> fs[k].fn, at |-> fs[k].pc]
  BY DEF View
<1>5. View(fs) = <<>> <=> Len(View(fs)) = 0
  BY <1>3, EmptySeq
<1>6. fs = <<>> <=> Len(fs) = 0
  BY EmptySeq
<1>7. QED
  BY <1>1, <1>3, <1>4, <1>5, <1>6

(* A frame put on others is a call put on others.                          *)
LEMMA ViewedAppend ==
  ASSUME NEW fs \in Seq(FrameSet), NEW x \in FrameSet
  PROVE  View(Append(fs, x)) = Append(View(fs), [fn |-> x.fn, at |-> x.pc])
<1> DEFINE gs == Append(fs, x)
           y == [fn |-> x.fn, at |-> x.pc]
           n == Len(fs)
           u == View(gs)
           w == Append(View(fs), y)
<1>1. gs \in Seq(FrameSet) /\ Len(gs) = n + 1 /\ gs[n+1] = x /\ n \in Nat
      /\ \A k \in 1 .. n : gs[k] = fs[k]
  BY AppendProperties
<1> HIDE DEF gs
<1>2. /\ u \in Seq(CallSet) /\ Len(u) = n + 1
      /\ \A k \in 1 .. n + 1 : u[k] = [fn |-> gs[k].fn, at |-> gs[k].pc]
  BY <1>1, Viewed
<1>3. /\ View(fs) \in Seq(CallSet) /\ Len(View(fs)) = n
      /\ \A k \in 1 .. n : View(fs)[k] = [fn |-> fs[k].fn, at |-> fs[k].pc]
  BY Viewed
<1>4. y \in CallSet
  BY DEF CallSet, FrameSet
<1> HIDE DEF y
<1>5. /\ w \in Seq(CallSet) /\ Len(w) = n + 1 /\ w[n+1] = y
      /\ \A k \in 1 .. n : w[k] = View(fs)[k]
  BY <1>3, <1>4, AppendProperties
<1> HIDE DEF u, w, n
<1>6. ASSUME NEW k \in 1 .. n + 1 PROVE u[k] = w[k]
  <2>1. k = n + 1 \/ k \in 1 .. n
    BY <1>1
  <2>2. CASE k = n + 1
    BY <1>1, <1>2, <1>5, <2>2 DEF y
  <2>3. CASE k \in 1 .. n
    BY <1>1, <1>2, <1>3, <1>5, <2>3
  <2>4. QED
    BY <2>1, <2>2, <2>3
<1>7. u = w
  BY <1>2, <1>5, <1>6, SeqEqual
<1>8. QED
  BY <1>7 DEF u, w, gs, y

(* The frames but the last are the calls but the last.                     *)
LEMMA ViewedBelow ==
  ASSUME NEW fs \in Seq(FrameSet), fs # <<>>
  PROVE  View(SubSeq(fs, 1, Len(fs) - 1)) = SubSeq(View(fs), 1, Len(View(fs)) - 1)
<1> DEFINE n == Len(fs) - 1
           gs == SubSeq(fs, 1, n)
           u == View(gs)
           w == SubSeq(View(fs), 1, n)
<1>1. /\ gs \in Seq(FrameSet) /\ Len(gs) = n /\ n \in Nat /\ Len(fs) = n + 1
      /\ \A k \in 1 .. n : gs[k] = fs[k]
  <2>1. Len(fs) \in Nat /\ Len(fs) >= 1
    BY EmptySeq
  <2>2. n \in Nat /\ n <= Len(fs) /\ Len(fs) = n + 1
    BY <2>1
  <2> HIDE DEF n
  <2>3. QED
    BY <2>2
<1> HIDE DEF gs
<1>2. /\ u \in Seq(CallSet) /\ Len(u) = n
      /\ \A k \in 1 .. n : u[k] = [fn |-> gs[k].fn, at |-> gs[k].pc]
  BY <1>1, Viewed
<1>3. /\ View(fs) \in Seq(CallSet) /\ Len(View(fs)) = Len(fs)
      /\ \A k \in 1 .. Len(fs) : View(fs)[k] = [fn |-> fs[k].fn, at |-> fs[k].pc]
  BY Viewed
<1>4. \A k \in 1 .. n : k \in 1 .. Len(fs)
  BY <1>1
<1> HIDE DEF n
<1>5. w \in Seq(CallSet) /\ Len(w) = n /\ \A k \in 1 .. n : w[k] = View(fs)[k]
  BY <1>1, <1>3
<1> HIDE DEF u, w
<1>6. ASSUME NEW k \in 1 .. n PROVE u[k] = w[k]
  BY <1>1, <1>2, <1>3, <1>4, <1>5
<1>7. u = w
  BY <1>2, <1>5, <1>6, SeqEqual
<1>8. QED
  BY <1>3, <1>7 DEF u, w, gs, n
(* What is shown of the frames fs, and what the promise shows of calls c.  *)
Returned(fs) ==
  IF fs # <<>> /\ fs[Len(fs)].pc > Len(code[fs[Len(fs)].fn].body)
  THEN SubSeq(fs, 1, Len(fs) - 1) ELSE fs
Trimmed(m, c) ==
  IF c # <<>> /\ c[Len(c)].at > Len(m[c[Len(c)].fn].body)
  THEN SubSeq(c, 1, Len(c) - 1) ELSE c

(* A function that is past its end has returned, on both sides.            *)
LEMMA ReturningViewed ==
  ASSUME NEW fs \in Seq(FrameSet)
  PROVE  /\ Trimmed(code, View(fs)) = View(Returned(fs))
         /\ Returned(fs) \in Seq(FrameSet)
<1> DEFINE n == Len(fs)
           c == View(fs)
           fr == fs[n]
           below == SubSeq(fs, 1, n - 1)
           Over == fs # <<>> /\ fr.pc > Len(code[fr.fn].body)
<1>1. /\ c \in Seq(CallSet) /\ Len(c) = n /\ n \in Nat
      /\ \A k \in 1 .. n : c[k] = [fn |-> fs[k].fn, at |-> fs[k].pc]
      /\ c = <<>> <=> fs = <<>>
  BY Viewed
<1>2. ASSUME fs # <<>>
      PROVE  /\ c[n] = [fn |-> fr.fn, at |-> fr.pc]
             /\ View(below) = SubSeq(c, 1, n - 1) /\ below \in Seq(FrameSet)
  <2>1. n # 0
    BY <1>2, EmptySeq
  <2> HIDE DEF c
  <2>2. n \in 1 .. n
    BY <1>1, <2>1
  <2>3. c[n] = [fn |-> fr.fn, at |-> fr.pc]
    BY <1>1, <2>2
  <2>4. View(below) = SubSeq(c, 1, n - 1)
    BY <1>1, <1>2, ViewedBelow DEF c
  <2>5. below \in Seq(FrameSet)
    BY <2>2
  <2>6. QED
    BY <2>3, <2>4, <2>5
<1>3. Returned(fs) = IF Over THEN below ELSE fs
  BY Zenon DEF Returned
<1> HIDE DEF c, below
<1>4. Trimmed(code, c) = IF Over THEN SubSeq(c, 1, n - 1) ELSE c
  <2>1. CASE fs = <<>>
    BY <1>1, <2>1 DEF Trimmed
  <2>2. CASE fs # <<>>
    <3>1. c # <<>> /\ c[Len(c)].at = fr.pc /\ c[Len(c)].fn = fr.fn /\ Len(c) = n
      BY <1>1, <1>2, <2>2
    <3> HIDE DEF n, fr
    <3>2. Trimmed(code, c)
            = IF fr.pc > Len(code[fr.fn].body) THEN SubSeq(c, 1, n - 1) ELSE c
      BY <3>1 DEF Trimmed
    <3>3. QED
      BY <2>2, <3>2
  <2>3. QED
    BY <2>1, <2>2
<1> HIDE DEF Over
<1>5. CASE Over
  <2>1. fs # <<>>
    BY <1>5 DEF Over
  <2>2. QED
    BY <1>2, <1>3, <1>4, <1>5, <2>1 DEF c
<1>6. CASE ~ Over
  BY <1>3, <1>4, <1>6 DEF c
<1>7. QED
  BY <1>5, <1>6

(* Where a step puts the frames, it shows their calls.                     *)
LEMMA SettledShows ==
  ASSUME NEW fs \in Seq(FrameSet), Settled(fs)
  PROVE  LET c == Trimmed(code, View(fs))
         IN  Calls' = c /\ Outcome' = (IF c = <<>> THEN "ok" ELSE "running") /\ code' = code
<1> DEFINE r == Returned(fs)
           c == View(r)
<1>1. Trimmed(code, View(fs)) = c /\ r \in Seq(FrameSet)
  BY ReturningViewed
<1>2. c = <<>> <=> r = <<>>
  BY <1>1, Viewed
<1>3. /\ frames' = fs /\ code' = code
      /\ status' = IF fs = <<>> THEN "ok" ELSE "running"
  BY DEF Settled
<1>4. Shown' = r
  BY <1>3 DEF Shown, Returned, Frame, Body, Below
<1>5. fs = <<>> => r = <<>>
  BY DEF Returned
<1> HIDE DEF r
<1>6. Calls' = c
  BY <1>4 DEF Calls, View
<1> HIDE DEF c
<1>7. Outcome' = IF c = <<>> THEN "ok" ELSE "running"
  <2>1. Outcome' = IF status' = "running" /\ r = <<>> THEN "ok" ELSE status'
    BY <1>4 DEF Outcome
  <2>2. QED
    BY <1>2, <1>3, <1>5, <2>1
<1>8. QED
  BY <1>1, <1>3, <1>6, <1>7

(* A failure is shown.                                                     *)
LEMMA FailedShows ==
  ASSUME NEW es \in SUBSET Errors, Failed(es)
  PROVE  Calls' = <<>> /\ Outcome' \in es /\ code' = code
<1>1. frames' = <<>> /\ status' \in es /\ code' = code
  BY DEF Failed
<1>2. Shown' = <<>>
  BY <1>1 DEF Shown
<1>3. Calls' = <<>>
  BY <1>2 DEF Calls, View
<1>4. Outcome' = status'
  BY <1>1 DEF Outcome, Errors
<1>5. QED
  BY <1>1, <1>3, <1>4

(* What the promise sees of the instruction that is executed.              *)
LEMMA Seen ==
  ASSUME Standing, Agreeing, NEW op, Executing(op)
  PROVE  /\ Calls = View(frames) /\ Outcome = "running"
         /\ Structured!Innermost = [fn |-> Frame.fn, at |-> Frame.pc]
         /\ Structured!At = Frame.pc /\ Structured!Text = Body /\ Structured!Now = Instr
         /\ Structured!Outer = View(Below)
<1> DEFINE n == Len(frames)
           c == View(frames)
<1>1. /\ status = "running" /\ Frame.pc \in 1 .. Len(Body)
      /\ frames # <<>> /\ frames \in Seq(FrameSet) /\ n \in 1 .. n /\ Len(Body) \in Nat
  BY Executed, Running
<1>2. Shown = frames
  BY <1>1 DEF Shown
<1>3. Calls = c /\ Outcome = "running"
  BY <1>1, <1>2 DEF Calls, Outcome
<1>4. Len(c) = n /\ \A k \in 1 .. n : c[k] = [fn |-> frames[k].fn, at |-> frames[k].pc]
  BY <1>1, Viewed
<1>5. Structured!Innermost = Calls[Len(Calls)]
  BY Zenon DEF Structured!Innermost, Calls, View
<1>6. Structured!Outer = SubSeq(Calls, 1, Len(Calls) - 1)
  BY Zenon DEF Structured!Outer, Calls, View
<1>7. View(Below) = SubSeq(c, 1, Len(c) - 1)
  BY <1>1, ViewedBelow DEF Below
<1> HIDE DEF c, n
<1>8. Structured!Innermost = [fn |-> Frame.fn, at |-> Frame.pc]
  BY <1>1, <1>3, <1>4, <1>5 DEF Frame, n
<1>9. Structured!Outer = View(Below)
  <2> DEFINE x == SubSeq(c, 1, Len(c) - 1)
             v == View(Below)
  <2>1. v = x /\ Structured!Outer = SubSeq(Calls, 1, Len(Calls) - 1)
    BY <1>6, <1>7
  <2>2. SubSeq(Calls, 1, Len(Calls) - 1) = x
    BY <1>3
  <2> HIDE DEF x, v
  <2>3. Structured!Outer = v
    BY <2>1, <2>2
  <2>4. QED
    BY <2>3 DEF v
<1>10. Structured!At = Frame.pc /\ Structured!Text = Body
  BY <1>8 DEF Structured!At, Structured!Text, Body
<1>11. Structured!Now = Instr
  BY <1>10 DEF Structured!Now, Instr
<1>12. QED
  BY <1>3, <1>8, <1>9, <1>10, <1>11 DEF c

(* The promise goes to the same instructions.                              *)
LEMMA SamePlaces ==
  ASSUME Standing, Agreeing, NEW op, Executing(op)
  PROVE  Structured!Places = Reaches
<1>1. Structured!At = Frame.pc /\ Structured!Text = Body /\ Structured!Now = Instr
  BY Seen
<1>2. Structured!Block = Labelled(Body, Frame.pc, 0)
  <2> DEFINE Innermost(S) == CHOOSE q \in S : \A r \in S : r <= q
  <2>1. Structured!Block = Innermost(Structured!Around(Structured!Text, Structured!At))
    BY Zenon DEF Structured!Block
  <2>2. Innermost(Around(Body, Frame.pc)) = Labelled(Body, Frame.pc, 0)
    <3>1. /\ Frame.pc \in 1 .. Len(code[Frame.fn].body) /\ code[Frame.fn].body = Body
          /\ Typing(code[Frame.fn], Known(code, Frame.fn))
      BY Here
    <3> HIDE DEF Innermost
    <3>2. Innermost(Around(code[Frame.fn].body, Frame.pc))
            = Labelled(code[Frame.fn].body, Frame.pc, 0)
      BY <3>1, BlockFound DEF Innermost
    <3>3. QED
      BY <3>1, <3>2
  <2> HIDE DEF Innermost
  <2>3. Structured!Around(Structured!Text, Structured!At) = Around(Body, Frame.pc)
    BY <1>1, SameReference
  <2>4. QED
    BY <2>1, <2>2, <2>3
<1>3. /\ \A q : Structured!EndOf(Body, q) = EndOf(Body, q)
      /\ \A q : Structured!ElseOf(Body, q) = ElseOf(Body, q)
      /\ \A q : Structured!Target(Body, q) = Target(Body, q)
      /\ \A l : Structured!Labelled(Body, Frame.pc, l) = Labelled(Body, Frame.pc, l)
  BY SameReference
<1> DEFINE Arms(i, a, b, c, d, e, n) ==
             CASE i.op = "if" -> a
               [] i.op = "else" -> b
               [] i.op \in {"br", "br_table"} -> c
               [] i.op = "br_if" -> d
               [] i.op = "return" -> e
               [] i.op = "unreachable" -> {}
               [] OTHER -> n
           t == Structured!Text
           at == Structured!At
           i == Structured!Now
           a == {at + 1} \cup (IF Structured!ElseOf(t, at) = {}
                               THEN {Structured!EndOf(t, at) + 1}
                               ELSE {e + 1 : e \in Structured!ElseOf(t, at)})
           b == {Structured!EndOf(t, Structured!Block) + 1}
           c == {Structured!Target(t, Structured!Labelled(t, at, i.arg[k])) :
                   k \in 1 .. Len(i.arg)}
           d == {at + 1, Structured!Target(t, Structured!Labelled(t, at, i.arg[1]))}
           x == {Frame.pc + 1} \cup (IF ElseOf(Body, Frame.pc) = {}
                                     THEN {EndOf(Body, Frame.pc) + 1}
                                     ELSE {e + 1 : e \in ElseOf(Body, Frame.pc)})
           y == {EndOf(Body, Labelled(Body, Frame.pc, 0)) + 1}
           z == {Target(Body, Labelled(Body, Frame.pc, Instr.arg[k])) :
                   k \in 1 .. Len(Instr.arg)}
           w == {Frame.pc + 1, Target(Body, Labelled(Body, Frame.pc, Instr.arg[1]))}
<1>4. Structured!Places = Arms(i, a, b, c, d, {Len(t) + 1}, {at + 1})
  BY Zenon DEF Structured!Places
<1>5. Reaches = Arms(Instr, x, y, z, w, {Len(Body) + 1}, {Frame.pc + 1})
  BY Zenon DEF Reaches
<1>6. t = Body /\ at = Frame.pc /\ i = Instr
  BY <1>1
<1> HIDE DEF t, at, i, Arms
<1>7. a = x
  BY <1>3, <1>6
<1>8. b = y
  BY <1>2, <1>3, <1>6
<1>9. c = z
  BY <1>3, <1>6
<1>10. d = w
  BY <1>3, <1>6
<1> HIDE DEF a, b, c, d, x, y, z, w
<1>11. QED
  BY <1>4, <1>5, <1>6, <1>7, <1>8, <1>9, <1>10

(* What was appended is what is dropped.                                   *)
LEMMA AppendedDropped ==
  ASSUME NEW S, NEW s \in Seq(S), NEW x \in S
  PROVE  SubSeq(Append(s, x), 1, Len(Append(s, x)) - 1) = s
<1> DEFINE n == Len(s)
           w == Append(s, x)
           u == SubSeq(w, 1, n)
<1>1. w \in Seq(S) /\ Len(w) = n + 1 /\ n \in Nat /\ \A k \in 1 .. n : w[k] = s[k]
  BY AppendProperties
<1>2. n <= Len(w) /\ Len(w) - 1 = n
  BY <1>1
<1> HIDE DEF w
<1>3. u \in Seq(S) /\ Len(u) = n /\ \A k \in 1 .. n : u[k] = w[k]
  <2> HIDE DEF n
  <2>1. QED
    BY <1>1, <1>2
<1> HIDE DEF u
<1>4. u = s
  BY <1>1, <1>3, SeqEqual
<1>5. QED
  BY <1>2, <1>4 DEF u, w

(* Under the running frame none is past its end.                           *)
LEMMA BelowReturned ==
  ASSUME Standing, Agreeing, status = "running"
  PROVE  Trimmed(code, View(Below)) = View(Below)
<1> DEFINE m == Len(Below)
<1>1. /\ Below \in Seq(FrameSet) /\ m = Len(frames) - 1 /\ Len(frames) \in Nat
      /\ \A k \in 1 .. Len(frames) - 1 : Below[k] = frames[k]
  BY Running DEF Upright
<1>2. ASSUME Below # <<>> PROVE ~ (Below[m].pc > Len(code[Below[m].fn].body))
  <2>1. m # 0 /\ m \in Nat
    BY <1>1, <1>2, EmptySeq
  <2>2. m \in 1 .. m /\ m \in 1 .. Len(frames) - 1
    BY <1>1, <2>1
  <2>3. Below[m] = frames[m] /\ Waits(code, frames[m], frames[m+1].fn)
    BY <1>1, <2>2 DEF Agreeing, Chained
  <2>4. Below[m].pc \in 2 .. Len(code[Below[m].fn].body)
    BY <2>3 DEF Waits
  <2> HIDE DEF m
  <2>5. Below[m] \in FrameSet
    BY <1>1, <2>2 DEF m
  <2>6. Below[m].fn \in Fns /\ code \in Modules
    BY <2>5 DEF FrameSet, Standing
  <2>7. Len(code[Below[m].fn].body) \in Nat
    BY <2>6, Coded
  <2>8. QED
    BY <2>4, <2>7
<1>3. Returned(Below) = Below
  BY <1>2 DEF Returned
<1>4. QED
  BY <1>1, <1>3, ReturningViewed

(* A turn within a function is a step of the promise.                      *)
LEMMA WentShows ==
  ASSUME Standing, Agreeing, NEW op \in Operations \ {"call", "call_indirect"}, Executing(op),
         Went(Reaches)
  PROVE  Structured!Step
<1> DEFINE y(p) == [fn |-> Frame.fn, at |-> p]
           after(p) == Trimmed(code, Append(View(Below), y(p)))
           Goes == \E p \in Reaches :
                     /\ Calls' = after(p)
                     /\ Outcome' = IF after(p) = <<>> THEN "ok" ELSE "running"
                     /\ code' = code
           m == Len(Below)
<1>1. /\ status = "running" /\ Instr.op = op /\ Frame.fn \in Fns /\ Len(Body) \in Nat
      /\ Below \in Seq(FrameSet) /\ frames # <<>> /\ Len(frames) \in Nat
      /\ m = Len(frames) - 1
      /\ \A k \in 1 .. Len(frames) - 1 : Below[k] = frames[k]
  BY Executed, Running DEF Upright
<1>2. /\ Outcome = "running" /\ Structured!Now = Instr /\ Structured!Places = Reaches
      /\ Structured!Innermost.fn = Frame.fn /\ Structured!Outer = View(Below)
  BY Seen, SamePlaces
<1>3. ASSUME NEW fr, NEW s, Moved(fr, s), fr.pc \in Reaches PROVE Goes
  <2>1. fr \in FrameSet /\ fr.fn = Frame.fn /\ Continue(With(fr), s)
    BY <1>3 DEF Moved, Stands
  <2>2. Settled(With(fr)) /\ With(fr) \in Seq(FrameSet)
    BY <1>1, <2>1 DEF Continue, Settled, With
  <2>3. View(With(fr)) = Append(View(Below), y(fr.pc))
    BY <1>1, <2>1, ViewedAppend DEF With
  <2> HIDE DEF y
  <2>4. QED
    BY <1>3, <2>2, <2>3, SettledShows
<1>4. ASSUME NEW s, Continue(Below, s), Len(Body) + 1 \in Reaches PROVE Goes
  <2>1. Settled(Below)
    BY <1>4 DEF Continue, Settled
  <2>3. Trimmed(code, View(Below)) = View(Below)
    BY <1>1, BelowReturned
  <2> DEFINE p == Len(Body) + 1
             v == View(Below)
             c == Append(v, y(p))
  <2>4. after(p) = v
    <3>1. y(p) \in CallSet /\ v \in Seq(CallSet)
      <4>1. p \in Nat
        BY <1>1
      <4>2. v \in Seq(CallSet)
        BY <1>1, Viewed
      <4> HIDE DEF p, v
      <4>3. QED
        BY <1>1, <4>1, <4>2 DEF CallSet
    <3>2. y(p).fn = Frame.fn /\ y(p).at > Len(code[y(p).fn].body)
      BY <1>1 DEF Body
    <3> HIDE DEF y, p, v
    <3>3. c \in Seq(CallSet) /\ Len(c) = Len(v) + 1 /\ Len(v) \in Nat /\ c[Len(v) + 1] = y(p)
      BY <3>1, AppendProperties
    <3>4. SubSeq(c, 1, Len(c) - 1) = v
      BY <3>1, AppendedDropped
    <3> HIDE DEF c
    <3>5. c # <<>> /\ c[Len(c)] = y(p)
      BY <3>3
    <3>6. Trimmed(code, c) = SubSeq(c, 1, Len(c) - 1)
      BY <3>2, <3>5 DEF Trimmed
    <3>7. Trimmed(code, c) = v
      BY <3>4, <3>6
    <3>8. QED
      BY <3>7 DEF c, v
  <2>5. /\ Calls' = v /\ Outcome' = (IF v = <<>> THEN "ok" ELSE "running") /\ code' = code
    BY <1>1, <2>1, <2>3, SettledShows
  <2> HIDE DEF v, p, after
  <2>6. p \in Reaches
    BY <1>4 DEF p
  <2>7. QED
    BY <2>4, <2>5, <2>6
<1>5. Goes
  BY <1>3, <1>4, Zenon DEF Went
<1>6. PICK p \in Reaches : /\ Calls' = after(p)
                           /\ Outcome' = (IF after(p) = <<>> THEN "ok" ELSE "running")
                           /\ code' = code
  BY <1>5
<1> DEFINE c == Append(Structured!Outer, [fn |-> Structured!Innermost.fn, at |-> p])
           d == Structured!Returning(c)
<1>7. Structured!Returning(c) = Trimmed(code, c)
  BY Zenon DEF Structured!Returning, Trimmed
<1>8. c = Append(View(Below), y(p))
  BY <1>2
<1>9. d = after(p)
  <2> HIDE DEF c
  <2>1. QED
    BY <1>7, <1>8
<1> HIDE DEF d, after
<1>10. Structured!Settle(d)
  <2>1. Calls' = d /\ Outcome' = (IF d = <<>> THEN "ok" ELSE "running") /\ code' = code
    BY <1>6, <1>9
  <2>2. QED
    BY <2>1, Zenon DEF Structured!Settle, Calls, Outcome, View
<1>11. Structured!Go
  <2>1. p \in Structured!Places
    BY <1>2
  <2>2. QED
    BY <1>10, <2>1, Zenon DEF Structured!Go, d, c
<1>12. QED
  <2>1. Structured!Now.op \notin {"call", "call_indirect"}
    BY <1>1, <1>2
  <2>2. Outcome = "running"
    BY <1>2
  <2>3. QED
    BY <1>11, <2>1, <2>2, Zenon DEF Structured!Step, Outcome

(* A failure the program asks for is one of the promise.                   *)
LEMMA StoppedShows ==
  ASSUME Standing, Agreeing, NEW op, Executing(op), Stopped
  PROVE  Structured!Stop
<1>1. /\ Outcome = "running" /\ Structured!Now = Instr
      /\ Structured!At = Frame.pc /\ Structured!Text = Body
  BY Seen
<1>2. Structured!ElseOf(Structured!Text, Structured!At) = ElseOf(Body, Frame.pc)
  BY <1>1, SameReference
<1>3. {"TRAP"} \in SUBSET Errors /\ {"UNSUPPORTED"} \in SUBSET Errors
  BY DEF Errors
<1>4. CASE Instr.op \in {"unreachable", "div", "call_indirect"} /\ Failed({"TRAP"})
  <2>1. Calls' = <<>> /\ Outcome' = "TRAP" /\ code' = code
    BY <1>3, <1>4, FailedShows
  <2>2. Structured!Fail("TRAP")
    BY <2>1, Zenon DEF Structured!Fail, Calls, Outcome, View
  <2>3. Structured!Now.op \in {"unreachable", "div", "call_indirect"}
    BY <1>1, <1>4
  <2>4. QED
    BY <1>1, <2>2, <2>3, Zenon DEF Structured!Stop, Outcome
<1>5. CASE /\ Instr.op = "if" /\ Instr.out # <<>> /\ ElseOf(Body, Frame.pc) = {}
           /\ Failed({"UNSUPPORTED"})
  <2>1. Calls' = <<>> /\ Outcome' = "UNSUPPORTED" /\ code' = code
    BY <1>3, <1>5, FailedShows
  <2>2. Structured!Fail("UNSUPPORTED")
    BY <2>1, Zenon DEF Structured!Fail, Calls, Outcome, View
  <2>3. /\ Structured!Now.op = "if" /\ Structured!Now.out # <<>>
        /\ Structured!ElseOf(Structured!Text, Structured!At) = {}
    BY <1>1, <1>2, <1>5
  <2>4. QED
    BY <1>1, <2>2, <2>3, Zenon DEF Structured!Stop, Outcome
<1>6. QED
  BY <1>4, <1>5 DEF Stopped

(* What a call of f over the frames fs shows, where c is shown of them.    *)
Shows(f, fs, c) ==
  \/ Calls' = <<>> /\ Outcome' \in Failures(code, f, fs) /\ code' = code
  \/ /\ code[f].imported
     /\ Calls' = c /\ Outcome' = (IF c = <<>> THEN "ok" ELSE "running") /\ code' = code
  \/ /\ ~ code[f].imported /\ Len(fs) < MaxCallDepth
     /\ Calls' = Append(c, [fn |-> f, at |-> 1]) /\ Outcome' = "running" /\ code' = code

(* So it does, when the calling frame goes on.                             *)
LEMMA MadeShows ==
  ASSUME Standing, NEW f \in Fns, NEW fs \in Seq(FrameSet), Made(f, fs),
         Trimmed(code, View(fs)) = View(fs)
  PROVE  Shows(f, fs, View(fs))
<1> DEFINE c == View(fs)
           new == First(code, f)
           y == [fn |-> f, at |-> 1]
           gs == Append(fs, new)
           d == View(gs)
<1>1. CASE Failed(Failures(code, f, fs))
  <2>1. Failures(code, f, fs) \in SUBSET Errors
    BY DEF Failures, Errors
  <2>2. QED
    BY <1>1, <2>1, FailedShows DEF Shows
<1>2. CASE code[f].imported /\ Settled(fs)
  BY <1>2, SettledShows DEF Shows
<1>3. CASE ~ code[f].imported /\ Len(fs) < MaxCallDepth /\ Settled(gs)
  <2>1. new \in FrameSet /\ new.fn = f /\ new.pc = 1
    <3>1. Stands(code, new)
      BY <1>3, FirstStands DEF Standing
    <3>2. QED
      BY <3>1 DEF Stands, First
  <2> HIDE DEF new
  <2>2. gs \in Seq(FrameSet)
    BY <2>1, AppendProperties
  <2>3. d = Append(c, y) /\ c \in Seq(CallSet) /\ y \in CallSet
    <3>1. y \in CallSet
      BY DEF CallSet
    <3>2. QED
      BY <2>1, <3>1, ViewedAppend, Viewed
  <2> HIDE DEF gs, c, y
  <2>4. d # <<>> /\ d[Len(d)] = y
    BY <2>3, AppendProperties
  <2>5. Trimmed(code, d) = d
    <3>1. Len(code[f].body) \in Nat /\ Len(code[f].body) >= 1
      BY <1>3, Coded, Levels DEF Standing
    <3>2. d[Len(d)].fn = f /\ d[Len(d)].at = 1
      BY <2>4 DEF y
    <3> HIDE DEF d
    <3>3. ~ (d[Len(d)].at > Len(code[d[Len(d)].fn].body))
      BY <3>1, <3>2
    <3>4. QED
      BY <3>3 DEF Trimmed
  <2>6. Calls' = d /\ Outcome' = (IF d = <<>> THEN "ok" ELSE "running") /\ code' = code
    BY <1>3, <2>2, <2>5, SettledShows
  <2> HIDE DEF d
  <2>7. Calls' = Append(c, y) /\ Outcome' = "running" /\ code' = code
    BY <2>3, <2>4, <2>6
  <2>8. QED
    BY <1>3, <2>7, Zenon DEF Shows, y, c
<1>4. QED
  BY <1>1, <1>2, <1>3 DEF Made

(* A call the running frame makes is a step of the promise.                *)
LEMMA CallShows ==
  ASSUME Standing, Agreeing, NEW op \in {"call", "call_indirect"}, Executing(op),
         NEW f \in Fns, Made(f, With(Advance)),
         op = "call" => f = Instr.arg[1],
         op = "call_indirect" => code[f].params = Instr.in /\ code[f].results = Instr.out
  PROVE  Structured!Step
<1> DEFINE fs == With(Advance)
           y == [fn |-> Frame.fn, at |-> Frame.pc + 1]
           v == View(fs)
           c == Append(Structured!Outer,
                       [fn |-> Structured!Innermost.fn, at |-> Structured!At + 1])
           first == [fn |-> f, at |-> 1]
           g == Append(c, first)
<1>1. /\ status = "running" /\ Instr.op = op /\ Frame.fn \in Fns
      /\ Below \in Seq(FrameSet) /\ Advance \in FrameSet
      /\ Advance.fn = Frame.fn /\ Advance.pc = Frame.pc + 1 /\ code \in Modules
  BY Executed, Running DEF Upright, Stands
<1>2. /\ Outcome = "running" /\ Structured!Now = Instr /\ Structured!At = Frame.pc
      /\ Structured!Innermost.fn = Frame.fn /\ Structured!Outer = View(Below)
  BY Seen
<1>3. fs \in Seq(FrameSet) /\ v = Append(View(Below), y)
  BY <1>1, AppendProperties, ViewedAppend DEF With
<1>4. c = v
  BY <1>2, <1>3
<1>5. y \in CallSet /\ View(Below) \in Seq(CallSet) /\ first \in CallSet
  <2>1. Frame.pc + 1 \in Nat
    BY <1>1 DEF FrameSet
  <2>2. View(Below) \in Seq(CallSet)
    BY <1>1, Viewed
  <2>3. QED
    BY <1>1, <2>1, <2>2 DEF CallSet
<1>6. v \in Seq(CallSet) /\ v # <<>> /\ v[Len(v)] = y /\ Len(v) = Len(fs)
  <2>1. Len(v) = Len(fs)
    BY <1>3, Viewed
  <2> HIDE DEF y, v, fs
  <2>2. QED
    BY <1>3, <1>5, <2>1, AppendProperties
<1>7. Trimmed(code, v) = v
  <2>1. Frame.pc + 1 \in 2 .. Len(code[Frame.fn].body) /\ Len(code[Frame.fn].body) \in Nat
    BY <1>1, NotLast, Coded
  <2>2. v[Len(v)].at = Frame.pc + 1 /\ v[Len(v)].fn = Frame.fn
    BY <1>6
  <2> HIDE DEF v
  <2>3. ~ (v[Len(v)].at > Len(code[v[Len(v)].fn].body))
    BY <2>1, <2>2
  <2>4. QED
    BY <2>3 DEF Trimmed
<1>8. Shows(f, fs, v)
  BY <1>3, <1>7, MadeShows
<1>9. g # <<>>
  <2> HIDE DEF v, first, c
  <2>1. QED
    BY <1>4, <1>5, <1>6, AppendProperties
<1> HIDE DEF fs, v, c, first, g
<1>10. ASSUME Calls' = <<>>, Outcome' \in Failures(code, f, fs), code' = code
       PROVE  Structured!Call(f, c)
  <2>1. Structured!CallErrors(f, c) = Failures(code, f, fs)
    BY <1>4, <1>6 DEF Structured!CallErrors, Failures
  <2>2. PICK e \in Failures(code, f, fs) : Outcome' = e
    BY <1>10
  <2>3. Structured!Fail(e)
    BY <1>10, <2>2, Zenon DEF Structured!Fail, Calls, Outcome, View
  <2>4. \E x \in Structured!CallErrors(f, c) : Structured!Fail(x)
    BY <2>1, <2>2, <2>3
  <2>5. QED
    BY <2>4, Zenon DEF Structured!Call
<1>11. ASSUME code[f].imported,
              Calls' = v /\ Outcome' = (IF v = <<>> THEN "ok" ELSE "running") /\ code' = code
       PROVE  Structured!Call(f, c)
  <2>1. Calls' = c /\ Outcome' = (IF c = <<>> THEN "ok" ELSE "running") /\ code' = code
    BY <1>4, <1>11
  <2>2. Structured!Settle(c)
    BY <2>1, Zenon DEF Structured!Settle, Calls, Outcome, View
  <2>3. QED
    BY <1>11, <2>2, Zenon DEF Structured!Call
<1>12. ASSUME ~ code[f].imported, Len(fs) < MaxCallDepth,
              Calls' = Append(v, first) /\ Outcome' = "running" /\ code' = code
       PROVE  Structured!Call(f, c)
  <2>1. Calls' = g /\ Outcome' = (IF g = <<>> THEN "ok" ELSE "running") /\ code' = code
    BY <1>4, <1>9, <1>12 DEF g
  <2>2. Structured!Settle(g)
    BY <2>1, Zenon DEF Structured!Settle, Calls, Outcome, View
  <2>3. Len(c) < MaxCallDepth
    BY <1>4, <1>6, <1>12
  <2>4. QED
    BY <1>12, <2>2, <2>3, Zenon DEF Structured!Call, g, first
<1>13. Structured!Call(f, c)
  BY <1>8, <1>10, <1>11, <1>12, Zenon DEF Shows, first
<1>14. f \in Structured!Callees
  BY <1>1, <1>2 DEF Structured!Callees
<1>15. Structured!Now.op \in {"call", "call_indirect"}
  BY <1>1, <1>2
<1>16. QED
  BY <1>2, <1>13, <1>14, <1>15, Zenon DEF Structured!Step, Outcome, c

(* A job that is started begins the promise.                               *)
LEMMA StartShows ==
  ASSUME Standing, NEW f \in Fns, StartJob(f)
  PROVE  Structured!Begin
<1>1. Made(f, <<>>)
  BY StartGoes
<1>2. status # "running" /\ Outcome # "running"
  BY DEF StartJob, Outcome
<1>3. <<>> \in Seq(FrameSet) /\ View(<<>>) = <<>> /\ Trimmed(code, <<>>) = <<>>
  BY DEF View, Trimmed
<1>4. Shows(f, <<>>, <<>>)
  <2>1. Shows(f, <<>>, View(<<>>))
    BY <1>1, <1>3, MadeShows
  <2>2. QED
    BY <1>3, <2>1, Zenon DEF Shows
<1> DEFINE g == Append(<<>>, [fn |-> f, at |-> 1])
<1>5. CASE Calls' = <<>> /\ Outcome' \in Failures(code, f, <<>>) /\ code' = code
  <2>1. Structured!CallErrors(f, <<>>) = Failures(code, f, <<>>)
    BY DEF Structured!CallErrors, Failures
  <2>2. PICK e \in Failures(code, f, <<>>) : Outcome' = e
    BY <1>5
  <2>3. Structured!Fail(e)
    BY <1>5, <2>2, Zenon DEF Structured!Fail, Calls, Outcome, View
  <2>4. \E x \in Structured!CallErrors(f, <<>>) : Structured!Fail(x)
    BY <2>1, <2>2, <2>3
  <2>5. Structured!Call(f, <<>>)
    BY <2>4, Zenon DEF Structured!Call
  <2>6. QED
    BY <1>2, <2>5, Zenon DEF Structured!Begin, Outcome
<1>6. CASE /\ code[f].imported
           /\ Calls' = <<>> /\ Outcome' = (IF <<>> = <<>> THEN "ok" ELSE "running")
           /\ code' = code
  <2>1. Structured!Settle(<<>>)
    BY <1>6, Zenon DEF Structured!Settle, Calls, Outcome, View
  <2>2. Structured!Call(f, <<>>)
    BY <1>6, <2>1, Zenon DEF Structured!Call
  <2>3. QED
    BY <1>2, <2>2, Zenon DEF Structured!Begin, Outcome
<1>7. CASE /\ ~ code[f].imported /\ Len(<<>>) < MaxCallDepth
           /\ Calls' = g /\ Outcome' = "running" /\ code' = code
  <2>1. g # <<>>
    OBVIOUS
  <2> HIDE DEF g
  <2>2. Calls' = g /\ Outcome' = (IF g = <<>> THEN "ok" ELSE "running") /\ code' = code
    BY <1>7, <2>1
  <2>3. Structured!Settle(g)
    BY <2>2, Zenon DEF Structured!Settle, Calls, Outcome, View
  <2>4. Structured!Call(f, <<>>)
    BY <1>7, <2>3, Zenon DEF Structured!Call, g
  <2>5. QED
    BY <1>2, <2>4, Zenon DEF Structured!Begin, Outcome
<1>8. QED
  BY <1>4, <1>5, <1>6, <1>7, Zenon DEF Shows

(* A frame that is left was not shown any more.                            *)
LEMMA LeaveShows ==
  ASSUME Standing, Agreeing, LeaveFrame
  PROVE  UNCHANGED Structured!abstractVars
<1>1. /\ status = "running" /\ Continue(Below, code[Frame.fn].results)
      /\ Frame.pc = Len(Body) + 1
  BY LeaveGoes
<1>2. frames # <<>> /\ Below \in Seq(FrameSet) /\ Len(Body) \in Nat
  BY <1>1, Running DEF Upright
<1>3. Shown = Below
  BY <1>1, <1>2 DEF Shown
<1> DEFINE v == View(Below)
<1>4. Calls = v /\ Outcome = (IF Below = <<>> THEN "ok" ELSE "running")
  BY <1>1, <1>3 DEF Calls, Outcome
<1>5. Settled(Below)
  BY <1>1 DEF Continue, Settled
<1>6. Trimmed(code, v) = v /\ (v = <<>> <=> Below = <<>>)
  BY <1>1, <1>2, BelowReturned, Viewed
<1> HIDE DEF v
<1>7. Calls' = v /\ Outcome' = (IF v = <<>> THEN "ok" ELSE "running") /\ code' = code
  BY <1>2, <1>5, <1>6, SettledShows DEF v
<1>8. Calls' = Calls /\ Outcome' = Outcome /\ code' = code
  BY <1>4, <1>6, <1>7
<1>9. QED
  BY <1>8, Zenon DEF Structured!abstractVars, Calls, Outcome, View

(* Every step of a job is one of the promise, or shows nothing.            *)
LEMMA StructuredStep ==
  ASSUME Standing, Agreeing, Supported(code), [Next]_vars
  PROVE  [Structured!Begin \/ Structured!Step \/ Structured!Stop]_(Structured!abstractVars)
<1> DEFINE Allowed == \/ Structured!Begin \/ Structured!Step \/ Structured!Stop
                      \/ UNCHANGED Structured!abstractVars
<1> SUFFICES Allowed
  OBVIOUS
<1>1. CASE UNCHANGED vars
  <2>1. code' = code /\ frames' = frames /\ status' = status
    BY <1>1 DEF vars
  <2>2. Shown' = Shown
    BY <2>1 DEF Shown, Frame, Body, Below
  <2>3. Calls' = Calls /\ Outcome' = Outcome
    BY <2>1, <2>2 DEF Calls, Outcome, View
  <2>4. QED
    BY <2>1, <2>3, Zenon DEF Structured!abstractVars, Calls, Outcome, View
<1>2. ASSUME NEW f \in Fns, StartJob(f) PROVE Allowed
  BY <1>2, StartShows
<1> HIDE DEF Allowed
<1>3. ASSUME Turn PROVE Allowed
  <2>1. entry' = entry
    BY <1>3 DEF Turn
  <2>2. CASE LeaveFrame
    BY <2>2, LeaveShows DEF Allowed
  <2>3. ASSUME NEW op \in Operations \ {"call", "call_indirect"}, Executing(op),
               Went(Reaches) \/ Stopped
        PROVE  Allowed
    BY <2>3, WentShows, StoppedShows DEF Allowed
  <2>4. \A op \in {"apply", "div", "block", "loop", "if", "else", "end", "br", "br_if",
                   "br_table", "return", "unreachable"} :
          op \in Operations \ {"call", "call_indirect"}
    BY DEF Operations, Openers
  <2>5. CASE Ordinary
    <3>1. Went(Reaches) \/ Stopped
      BY <2>5, OrdinaryGoes
    <3>2. PICK op \in {"apply", "div"} : Executing(op)
      BY <2>5 DEF Ordinary
    <3>3. QED
      BY <2>3, <2>4, <3>1, <3>2
  <2>6. CASE Block
    <3>1. Went(Reaches) \/ Stopped
      BY <2>6, BlockGoes
    <3>2. PICK op \in {"block", "loop"} : Executing(op)
      BY <2>6 DEF Block
    <3>3. QED
      BY <2>3, <2>4, <3>1, <3>2
  <2>7. CASE If
    <3>1. Executing("if")
      BY <2>7, Zenon DEF If
    <3>2. QED
      BY <2>3, <2>4, <2>7, <3>1, IfGoes
  <2>8. CASE Else
    <3>1. Executing("else")
      BY <2>8, Zenon DEF Else
    <3>2. QED
      BY <2>3, <2>4, <2>8, <3>1, ElseGoes
  <2>9. CASE End
    <3>1. Executing("end")
      BY <2>9, Zenon DEF End
    <3>2. QED
      BY <2>3, <2>4, <2>9, <3>1, EndGoes
  <2>10. CASE Br
    <3>1. Executing("br")
      BY <2>10, Zenon DEF Br
    <3>2. QED
      BY <2>3, <2>4, <2>10, <3>1, BrGoes
  <2>11. CASE BrIf
    <3>1. Executing("br_if")
      BY <2>11, Zenon DEF BrIf
    <3>2. QED
      BY <2>3, <2>4, <2>11, <3>1, BrIfGoes
  <2>12. CASE BrTable
    <3>1. Executing("br_table")
      BY <2>12, Zenon DEF BrTable
    <3>2. QED
      BY <2>3, <2>4, <2>12, <3>1, BrTableGoes
  <2>13. CASE Return
    <3>1. Executing("return")
      BY <2>13, Zenon DEF Return
    <3>2. QED
      BY <2>3, <2>4, <2>13, <3>1, ReturnGoes
  <2>14. CASE Unreachable
    <3>1. Executing("unreachable")
      BY <2>14, Zenon DEF Unreachable
    <3>2. QED
      BY <2>3, <2>4, <2>14, <3>1, UnreachableStops
  <2>15. CASE Call
    <3>1. Executing("call")
      BY <2>15, Zenon DEF Call
    <3>2. Made(Instr.arg[1], With(Advance)) /\ Instr.arg[1] \in Fns
      BY <2>1, <2>15, <3>1, CallGoes, Executed
    <3>3. QED
      BY <3>1, <3>2, CallShows DEF Allowed
  <2>16. CASE CallIndirect
    <3>1. Executing("call_indirect")
      BY <2>16, Zenon DEF CallIndirect
    <3>2. /\ Instr.op = "call_indirect"
          /\ \/ Failed({"TRAP"})
             \/ \E f \in Fns : /\ code[f].params = Instr.in /\ code[f].results = Instr.out
                               /\ Made(f, With(Advance))
      BY <2>1, <2>16, CallIndirectGoes
    <3>3. CASE Failed({"TRAP"})
      BY <3>1, <3>2, <3>3, StoppedShows DEF Stopped, Allowed
    <3>4. ASSUME NEW f \in Fns, code[f].params = Instr.in, code[f].results = Instr.out,
                 Made(f, With(Advance))
          PROVE  Allowed
      BY <3>1, <3>4, CallShows DEF Allowed
    <3>5. QED
      BY <3>2, <3>3, <3>4
  <2>17. QED
    BY <1>3, <2>2, <2>5, <2>6, <2>7, <2>8, <2>9, <2>10, <2>11, <2>12, <2>13, <2>14, <2>15,
       <2>16 DEF Turn
<1>4. QED
  BY <1>1, <1>2, <1>3 DEF Next

(* The interpreter, which finds the end of a block by scanning for it and  *)
(* branches by what its control frames say, goes where the nesting of the  *)
(* text says, calls what the text calls and fails only where it may: it    *)
(* implements structured control, whatever the modules.                    *)
THEOREM StructuredCorrect ==
  ASSUME Runnable
  PROVE  Spec => StructuredControl
<1>1. Init => Structured!Initially
  <2> SUFFICES ASSUME Init PROVE Structured!Initially
    OBVIOUS
  <2>1. frames = <<>> /\ status = "idle"
    BY DEF Init
  <2>2. Calls = <<>> /\ Outcome = "idle"
    BY <2>1 DEF Calls, Outcome, View, Shown
  <2>3. QED
    BY <2>2, Zenon DEF Structured!Initially, Calls, Outcome, View
<1>2. Standing /\ Agreeing /\ [Next]_vars
        => [Structured!Begin \/ Structured!Step \/ Structured!Stop]_(Structured!abstractVars)
  <2>1. Standing => Supported(code)
    BY DEF Runnable, Standing
  <2>2. QED
    BY <2>1, StructuredStep
<1>3. Spec => [](Standing /\ Agreeing)
  BY Agreed
<1>4. QED
  BY <1>1, <1>2, <1>3, PTL DEF Spec, StructuredControl, Structured!Promise
=============================================================================
