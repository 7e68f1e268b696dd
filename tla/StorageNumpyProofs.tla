------------------------- MODULE StorageNumpyProofs -------------------------
(***************************************************************************)
(* Theorems about StorageNumpy, for any array that the generators cut into *)
(* blocks as they should (ArrayCut, which TLC checks for each array of its *)
(* run), any processes, index expressions and number of operations.  Two   *)
(* inductive invariants: TypeInv, that views and parts have the form they  *)
(* should, and DataInv, that what is in memory, queued and stored is what  *)
(* was written, for programs that split an array before they load some of  *)
(* it and hand over only the array and its parts.                          *)
(***************************************************************************)
EXTENDS StorageNumpy, FiniteSetTheorems, SequenceTheorems, WellFoundedInduction, TLAPS

-----------------------------------------------------------------------------
(* Division. *)

\* q is x / d, rounded up.
IsCeil(x, d, q) == (q - 1) * d < x /\ x <= q * d

\* Multiplying by a natural number keeps the order.
LEMMA MulLe ==
  ASSUME NEW a \in Int, NEW b \in Int, NEW d \in Nat, a <= b
  PROVE  a * d <= b * d
<1>1. PICK k \in Nat : b = a + k
  <2>1. b - a \in Nat /\ b = a + (b - a)
    OBVIOUS
  <2> QED
    BY <2>1
<1>2. b * d = a * d + k * d
  BY <1>1, SMT
<1>3. k * d \in Nat
  BY SMT
<1>4. a * d \in Int
  BY SMT
<1> QED
  BY <1>2, <1>3, <1>4

\* A quotient lies within one divisor of what was divided.
LEMMA DivBounds ==
  ASSUME NEW x \in Int, NEW d \in Nat \ {0}
  PROVE  /\ x \div d \in Int
         /\ (x \div d) * d <= x /\ x < (x \div d) * d + d
BY SMT

\* Adding one less than the divisor first rounds the quotient up.
LEMMA CeilDiv ==
  ASSUME NEW x \in Int, NEW d \in Nat \ {0}
  PROVE  (x + d - 1) \div d \in Int /\ IsCeil(x, d, (x + d - 1) \div d)
<1> DEFINE q == (x + d - 1) \div d
<1>1. /\ q \in Int
      /\ q * d <= x + d - 1 /\ x + d - 1 < q * d + d
  <2>1. x + d - 1 \in Int
    OBVIOUS
  <2> QED
    BY <2>1, DivBounds
<1> HIDE DEF q
<1>2. (q - 1) * d = q * d - d /\ q * d \in Int
  BY <1>1, SMT
<1>3. IsCeil(x, d, q)
  BY <1>1, <1>2 DEF IsCeil
<1> QED
  BY <1>1, <1>3 DEF q

\* There is one quotient that is rounded up.
LEMMA CeilUnique ==
  ASSUME NEW x \in Int, NEW d \in Nat \ {0}, NEW q \in Int, NEW r \in Int,
         IsCeil(x, d, q), IsCeil(x, d, r)
  PROVE  q = r
<1>1. ASSUME NEW a \in Int, NEW b \in Int, IsCeil(x, d, a), IsCeil(x, d, b), a < b
      PROVE  FALSE
  <2>1. a * d <= (b - 1) * d
    BY <1>1, MulLe
  <2>2. a * d \in Int /\ (b - 1) * d \in Int
    BY <1>1, SMT
  <2> QED
    BY <1>1, <2>1, <2>2 DEF IsCeil
<1>2. ~ (q < r) /\ ~ (r < q)
  BY <1>1
<1> QED
  BY <1>2

\* Rounding up twice, by d and by e, is rounding up once by their product.
LEMMA CeilNested ==
  ASSUME NEW x \in Int, NEW a \in Nat \ {0}, NEW b \in Nat \ {0}, NEW c \in Int, NEW k \in Int,
         IsCeil(x, a, c), IsCeil(c, b, k)
  PROVE  a * b \in Nat \ {0} /\ IsCeil(x, a * b, k)
<1>1. (k - 1) * b \in Int /\ k * b \in Int
  BY SMT
<1>2. (k - 1) * b <= c - 1 /\ c <= k * b
  BY <1>1 DEF IsCeil
<1>3. ((k - 1) * b) * a <= (c - 1) * a
  BY <1>1, <1>2, MulLe
<1>4. c * a <= (k * b) * a
  BY <1>1, <1>2, MulLe
<1>5. ((k - 1) * b) * a = (k - 1) * (a * b) /\ (k * b) * a = k * (a * b)
  BY SMT
<1>6. (c - 1) * a \in Int /\ c * a \in Int /\ (k - 1) * (a * b) \in Int /\ k * (a * b) \in Int
  BY SMT
<1>7. a * b \in Nat \ {0}
  BY SMT
<1>8. (k - 1) * (a * b) <= (c - 1) * a /\ c * a <= k * (a * b)
  BY <1>3, <1>4, <1>5
<1>9. (c - 1) * a < x /\ x <= c * a
  BY DEF IsCeil
<1>10. (k - 1) * (a * b) < x /\ x <= k * (a * b)
  BY <1>6, <1>8, <1>9
<1> QED
  BY <1>7, <1>10 DEF IsCeil

\* A quotient is positive when what is divided is.
LEMMA CeilPositive ==
  ASSUME NEW x \in Int, NEW d \in Nat \ {0}, NEW q \in Int, IsCeil(x, d, q)
  PROVE  x > 0 <=> q > 0
<1>1. ASSUME x > 0, ~ (q > 0) PROVE FALSE
  <2>1. q * d <= 0 * d
    BY <1>1, MulLe
  <2>2. q * d \in Int /\ 0 * d = 0
    BY SMT
  <2> QED
    BY <1>1, <2>1, <2>2 DEF IsCeil
<1>2. ASSUME q > 0, ~ (x > 0) PROVE FALSE
  <2>1. 0 * d <= (q - 1) * d
    BY <1>2, MulLe
  <2>2. (q - 1) * d \in Int /\ 0 * d = 0
    BY SMT
  <2> QED
    BY <1>2, <2>1, <2>2 DEF IsCeil
<1> QED
  BY <1>1, <1>2

\* The smaller one of two numbers.
LEMMA MinTwo ==
  ASSUME NEW p \in Int, NEW q \in Int
  PROVE  Min({p, q}) = IF p <= q THEN p ELSE q
<1> DEFINE m == IF p <= q THEN p ELSE q
<1>1. m \in {p, q} /\ \A y \in {p, q} : m <= y
  OBVIOUS
<1>2. PICK x : x = Min({p, q})
  OBVIOUS
<1>3. x \in {p, q} /\ \A y \in {p, q} : x <= y
  BY <1>1, <1>2 DEF Min
<1> QED
  BY <1>2, <1>3

-----------------------------------------------------------------------------
(* Index expressions: what is selected of an axis. *)

\* The end and the step of a slice of an axis of n elements.
Stop(s, n) == IF s.stop = 0 THEN n ELSE s.stop
Step(s) == IF s.step = 0 THEN 1 ELSE s.step

ValidSlice(s, n) ==
  /\ s \in [kind : {"slice"}, start : Nat, stop : Nat, step : Nat]
  /\ s.start < Stop(s, n) /\ Stop(s, n) <= n
ValidInt(s, n) == s \in [kind : {"int"}, pos : Nat] /\ s.pos < n
Valid(s, n) == ValidInt(s, n) \/ ValidSlice(s, n)

\* An axis of n elements, and what an index expression selects of it.
Base(n) == [i \in 1..n |-> i - 1]
Axis(s, n) == Selected(Base(n), s)
Size(s, n) == (Stop(s, n) - s.start + Step(s) - 1) \div Step(s)

\* A slice that is not empty selects as many elements as it has steps, rounded up.
LEMMA SliceSize ==
  ASSUME NEW n \in Nat \ {0}, NEW s, ValidSlice(s, n)
  PROVE  /\ Step(s) \in Nat \ {0} /\ Stop(s, n) \in Nat /\ s.start \in Nat /\ s.kind = "slice"
         /\ Size(s, n) \in Nat \ {0}
         /\ IsCeil(Stop(s, n) - s.start, Step(s), Size(s, n))
<1>1. Step(s) \in Nat \ {0} /\ Stop(s, n) \in Nat /\ s.start \in Nat /\ s.kind = "slice"
  BY DEF ValidSlice, Step, Stop
<1>2. Stop(s, n) - s.start \in Int /\ Stop(s, n) - s.start > 0
  BY <1>1 DEF ValidSlice
<1>3. Size(s, n) \in Int /\ IsCeil(Stop(s, n) - s.start, Step(s), Size(s, n))
  BY <1>1, <1>2, CeilDiv DEF Size
<1>4. Size(s, n) > 0
  BY <1>1, <1>2, <1>3, CeilPositive
<1> QED
  BY <1>1, <1>3, <1>4

\* The elements of a slice are within it.
LEMMA SliceWithin ==
  ASSUME NEW n \in Nat \ {0}, NEW s, ValidSlice(s, n), NEW i \in 1..Size(s, n)
  PROVE  /\ s.start + (i - 1) * Step(s) \in Nat
         /\ s.start <= s.start + (i - 1) * Step(s)
         /\ s.start + (i - 1) * Step(s) < Stop(s, n)
<1> DEFINE a == s.start
           d == Step(s)
           e == Stop(s, n)
           L == Size(s, n)
<1>1. d \in Nat \ {0} /\ e \in Nat /\ a \in Nat /\ L \in Nat \ {0} /\ IsCeil(e - a, d, L)
  BY SliceSize
<1> HIDE DEF a, d, e, L
<1>2. i \in Nat /\ i <= L /\ 1 <= i
  BY <1>1 DEF L
<1>3. (i - 1) * d <= (L - 1) * d /\ 0 * d <= (i - 1) * d
  BY <1>1, <1>2, MulLe
<1>4. (i - 1) * d \in Int /\ (L - 1) * d \in Int /\ 0 * d = 0
  BY <1>1, <1>2, SMT
<1>5. (L - 1) * d < e - a
  BY <1>1 DEF IsCeil
<1>6. a + (i - 1) * d \in Nat /\ a <= a + (i - 1) * d /\ a + (i - 1) * d < e
  BY <1>1, <1>3, <1>4, <1>5
<1> QED
  BY <1>6 DEF a, d, e

\* A slice selects the elements from its start on, a step apart.
LEMMA AxisOfSlice ==
  ASSUME NEW n \in Nat \ {0}, NEW s, ValidSlice(s, n)
  PROVE  Axis(s, n) = [i \in 1..Size(s, n) |-> s.start + (i - 1) * Step(s)]
<1>1. /\ Step(s) \in Nat \ {0} /\ Stop(s, n) \in Nat /\ s.start \in Nat /\ s.kind = "slice"
      /\ Size(s, n) \in Nat \ {0}
  BY SliceSize
<1>2. Base(n) \in Seq(Int) /\ Len(Base(n)) = n /\ \A k \in 1..n : Base(n)[k] = k - 1
  BY DEF Base
<1>3. s.stop \in Nat /\ (s.stop = 0 \/ s.stop > n => Stop(s, n) = n) /\ (~ (s.stop = 0 \/ s.stop > n) => Stop(s, n) = s.stop)
  BY DEF ValidSlice, Stop
<1>4. Axis(s, n) = [i \in 1..(IF Size(s, n) > 0 THEN Size(s, n) ELSE 0) |-> Base(n)[s.start + (i - 1) * Step(s) + 1]]
  BY <1>1, <1>2, <1>3 DEF Axis, Selected, Size, Step
<1>5. ASSUME NEW i \in 1..Size(s, n)
      PROVE  Base(n)[s.start + (i - 1) * Step(s) + 1] = s.start + (i - 1) * Step(s)
  <2>1. PICK x \in Nat : x = s.start + (i - 1) * Step(s)
    BY SliceWithin
  <2>2. x < n
    BY <2>1, <1>1, SliceWithin DEF ValidSlice
  <2> QED
    BY <1>2, <2>1, <2>2
<1> QED
  BY <1>1, <1>4, <1>5

\* A position selects one element.
LEMMA AxisOfInt ==
  ASSUME NEW n \in Nat \ {0}, NEW s, ValidInt(s, n)
  PROVE  Axis(s, n) = <<s.pos>>
<1>1. s.kind = "int" /\ s.pos \in Nat /\ s.pos < n
  BY DEF ValidInt
<1>2. Len(Base(n)) = n /\ Base(n)[s.pos + 1] = s.pos
  BY <1>1 DEF Base
<1> QED
  BY <1>1, <1>2 DEF Axis, Selected

\* c, of an axis of n elements, is within s.
Within(c, s, n) ==
  IF c.kind = "int" THEN s.start <= c.pos /\ c.pos < Stop(s, n)
  ELSE s.start <= c.start /\ Stop(c, n) <= Stop(s, n)

\* The i-th element of the axis of a slice, from 0.
LEMMA AxisLen ==
  ASSUME NEW n \in Nat \ {0}, NEW s, ValidSlice(s, n)
  PROVE  Len(Axis(s, n)) = Size(s, n) /\ DOMAIN Axis(s, n) = 1..Size(s, n) /\ Axis(s, n) \in Seq(Nat)
<1>1. Size(s, n) \in Nat \ {0}
  BY SliceSize
<1>2. \A i \in 1..Size(s, n) : s.start + (i - 1) * Step(s) \in Nat
  BY SliceWithin
<1>3. Axis(s, n) \in [1..Size(s, n) -> Nat]
  BY <1>2, AxisOfSlice
<1> QED
  BY <1>1, <1>3, IsASeq

\* A position of a view, and the same position of the base.
LEMMA ComposeInt ==
  ASSUME NEW n \in Nat \ {0}, NEW s, ValidSlice(s, n), NEW x \in [kind : {"int"}, pos : Int],
         Inside(s, Axis(s, n), x)
  PROVE  /\ ValidInt(ComposeAxis(n, s, x), n)
         /\ Selected(Axis(s, n), x) = Axis(ComposeAxis(n, s, x), n)
         /\ Within(ComposeAxis(n, s, x), s, n)
<1> DEFINE a == s.start
           d == Step(s)
           e == Stop(s, n)
           L == Size(s, n)
           at == IF x.pos < 0 THEN x.pos + L ELSE x.pos
           c == ComposeAxis(n, s, x)
<1>1. d \in Nat \ {0} /\ e \in Nat /\ a \in Nat /\ L \in Nat \ {0} /\ IsCeil(e - a, d, L)
  BY SliceSize
<1>2. Len(Axis(s, n)) = L
  BY AxisLen
<1>3. x.kind = "int" /\ x.pos \in Int /\ x.pos < L /\ (x.pos < 0 => s.step \in {0, 1} /\ x.pos + L >= 0)
  BY <1>2 DEF Inside
<1>4. at \in 0..(L - 1)
  BY <1>1, <1>3
<1>5. c = int(IF x.pos < 0 THEN e + x.pos * d ELSE a + x.pos * d)
  BY <1>3 DEF ComposeAxis, _compose_index, removenones, slice, Stop, Step
<1>6. at + 1 \in 1..L /\ (at + 1) - 1 = at
  BY <1>1, <1>4
<1>7. Axis(s, n)[at + 1] = a + at * d
  <2>1. \A i \in 1..L : Axis(s, n)[i] = a + (i - 1) * d
    BY AxisOfSlice
  <2> HIDE DEF a, d, L, at
  <2>2. Axis(s, n)[at + 1] = a + ((at + 1) - 1) * d
    BY <2>1, <1>6
  <2> QED
    BY <2>2, <1>6
<1>8. a + at * d \in Nat /\ a <= a + at * d /\ a + at * d < e
  <2>1. a + ((at + 1) - 1) * d \in Nat /\ a <= a + ((at + 1) - 1) * d /\ a + ((at + 1) - 1) * d < e
    BY <1>6, SliceWithin
  <2> QED
    BY <2>1, <1>6
<1>9. c = int(a + at * d)
  <2>1. CASE x.pos < 0
    <3>1. d = 1
      BY <1>3, <2>1 DEF Step
    <3>2. L = e - a
      BY <1>1, <3>1 DEF IsCeil
    <3>3. a + at * d = e + x.pos * d
      BY <1>1, <1>3, <2>1, <3>1, <3>2
    <3> QED
      BY <1>5, <2>1, <3>3
  <2>2. CASE ~ (x.pos < 0)
    BY <1>5, <2>2
  <2> QED
    BY <2>1, <2>2
<1>10. Selected(Axis(s, n), x) = <<a + at * d>>
  BY <1>2, <1>3, <1>7 DEF Selected
<1> HIDE DEF a, d, e, L, at, c
<1>11. e <= n
  BY DEF ValidSlice, e
<1>12. ValidInt(c, n) /\ c.kind = "int" /\ c.pos = a + at * d
  BY <1>8, <1>9, <1>1, <1>11 DEF ValidInt, int
<1>13. Axis(c, n) = <<c.pos>>
  BY <1>12, AxisOfInt
<1>14. Within(c, s, n)
  BY <1>12, <1>8 DEF Within, a, e
<1> QED
  BY <1>10, <1>12, <1>13, <1>14 DEF c

\* A range x of a view: its bounds in the view, from lo to hi, and what they select.
SliceBounds(s, n, x, lo, hi) ==
  /\ lo = IF x.start < 0 THEN x.start + Size(s, n) ELSE x.start
  /\ hi = IF x.stop = 0 \/ x.stop > Size(s, n) THEN Size(s, n) ELSE IF x.stop < 0 THEN x.stop + Size(s, n) ELSE x.stop
  /\ lo < hi /\ hi <= Size(s, n)
  /\ x.start < 0 \/ x.stop < 0 => Step(s) = 1
  /\ (hi - lo + Step(x) - 1) \div Step(x) \in Nat \ {0}
  /\ IsCeil(hi - lo, Step(x), (hi - lo + Step(x) - 1) \div Step(x))
  /\ Selected(Axis(s, n), x) =
       [i \in 1..((hi - lo + Step(x) - 1) \div Step(x)) |-> Axis(s, n)[lo + (i - 1) * Step(x) + 1]]

\* The bounds of a slice of a slice, once negative ones are resolved against the selection.
LEMMA SliceOfSlice ==
  ASSUME NEW n \in Nat \ {0}, NEW s, ValidSlice(s, n), NEW x \in [kind : {"slice"}, start : Int, stop : Int, step : Nat],
         Inside(s, Axis(s, n), x)
  PROVE  \E lo \in Nat, hi \in Nat : SliceBounds(s, n, x, lo, hi)
<1> DEFINE L == Size(s, n)
           t == Step(x)
           lo == IF x.start < 0 THEN x.start + L ELSE x.start
           hi == IF x.stop = 0 \/ x.stop > L THEN L ELSE IF x.stop < 0 THEN x.stop + L ELSE x.stop
           k == (hi - lo + t - 1) \div t
           axis == Axis(s, n)
<1>1. L \in Nat \ {0} /\ Len(axis) = L
  BY SliceSize, AxisLen
<1>2. t \in Nat \ {0}
  BY DEF Step
<1>3. /\ x.start < 0 => s.step \in {0, 1} /\ x.start + L >= 0
      /\ x.stop < 0 => s.step \in {0, 1} /\ x.stop + L >= 0
      /\ Selected(axis, x) # << >>
  BY <1>1 DEF Inside
<1>4. lo \in Nat /\ hi \in Nat /\ hi <= L
  BY <1>1, <1>3
<1>5. x.start < 0 \/ x.stop < 0 => Step(s) = 1
  BY <1>3 DEF Step
<1>6. Selected(axis, x) = [i \in 1..(IF k > 0 THEN k ELSE 0) |-> axis[lo + (i - 1) * t + 1]]
  BY <1>1 DEF Selected, Step
<1> HIDE DEF L, t, lo, hi, axis
<1>7. k \in Int /\ IsCeil(hi - lo, t, k)
  BY <1>2, <1>4, CeilDiv
<1> HIDE DEF k
<1>8. k > 0
  <2>1. SUFFICES ASSUME ~ (k > 0) PROVE FALSE
    OBVIOUS
  <2>2. Selected(axis, x) = [i \in 1..0 |-> axis[lo + (i - 1) * t + 1]]
    BY <2>1, <1>6
  <2>3. Selected(axis, x) = << >>
    BY <2>2
  <2> QED
    BY <2>3, <1>3
<1>9. hi - lo > 0
  BY <1>2, <1>4, <1>7, <1>8, CeilPositive
<1>10. lo < hi /\ k \in Nat \ {0} /\ Selected(axis, x) = [i \in 1..k |-> axis[lo + (i - 1) * t + 1]]
  BY <1>4, <1>6, <1>7, <1>8, <1>9
<1> QED
  <2>1. SliceBounds(s, n, x, lo, hi)
    BY <1>4, <1>5, <1>7, <1>10 DEF SliceBounds, L, t, lo, hi, k, axis
  <2> QED
    BY <1>4, <2>1

\* The bounds of a range of a view, in the base: they hold as many elements.
LEMMA ComposedBounds ==
  ASSUME NEW n \in Nat \ {0}, NEW s, ValidSlice(s, n), NEW x \in [kind : {"slice"}, start : Int, stop : Int, step : Nat],
         NEW lo \in Nat, NEW hi \in Nat, SliceBounds(s, n, x, lo, hi)
  PROVE  \E stop \in Nat :
           /\ ComposeAxis(n, s, x) = slice(s.start + lo * Step(s), stop, Step(s) * Step(x))
           /\ stop <= Stop(s, n) /\ (hi = Size(s, n) => stop = Stop(s, n))
           /\ s.start + lo * Step(s) \in Nat /\ s.start <= s.start + lo * Step(s)
           /\ IsCeil(stop - (s.start + lo * Step(s)), Step(s), hi - lo)
<1> DEFINE a == s.start
           d == Step(s)
           e == Stop(s, n)
           L == Size(s, n)
           top == IF x.stop = 0 THEN n ELSE x.stop
           ws == IF x.start < 0 THEN e + x.start * d ELSE a + x.start * d
           wt == IF top < 0 THEN e + top * d ELSE a + top * d
           c == ComposeAxis(n, s, x)
<1>0. /\ lo = IF x.start < 0 THEN x.start + L ELSE x.start
      /\ hi = IF x.stop = 0 \/ x.stop > L THEN L ELSE IF x.stop < 0 THEN x.stop + L ELSE x.stop
      /\ lo < hi /\ hi <= L
      /\ x.start < 0 \/ x.stop < 0 => d = 1
  BY DEF SliceBounds
<1>1. d \in Nat \ {0} /\ e \in Nat /\ a \in Nat /\ L \in Nat \ {0} /\ IsCeil(e - a, d, L)
  BY SliceSize
<1>2. c = slice(ws, Min({wt, e}), d * Step(x))
  BY DEF ComposeAxis, _compose_index, removenones, slice, Stop, Step
<1>3. e <= n
  BY DEF ValidSlice
<1> HIDE DEF a, d, e, L, c
<1>4. (L - 1) * d < e - a /\ e - a <= L * d /\ (L - 1) * d \in Int /\ L * d \in Int /\ lo * d \in Int /\ hi * d \in Int /\ n * d \in Int
  BY <1>1, SMT DEF IsCeil
<1>5. d = 1 => L = e - a
  BY <1>1, <1>4
<1>6. ws = a + lo * d
  <2>1. CASE x.start < 0
    <3>1. d = 1
      BY <2>1, <1>0
    <3>2. lo = x.start + L
      BY <2>1, <1>0
    <3> QED
      BY <1>1, <1>5, <2>1, <3>1, <3>2
  <2>2. CASE ~ (x.start < 0)
    BY <2>2, <1>0
  <2> QED
    BY <2>1, <2>2
<1>7. 0 * d <= lo * d /\ 0 * d = 0
  BY <1>1, MulLe, SMT
<1>8. ws \in Nat /\ a <= ws
  BY <1>1, <1>4, <1>6, <1>7
<1>9. top \in Int /\ wt \in Int
  BY <1>1, SMT
<1>10. Min({wt, e}) = IF wt <= e THEN wt ELSE e
  BY <1>1, <1>9, MinTwo
<1>11. hi = L => Min({wt, e}) = e
  <2>0. \A w \in Int : e <= w => (IF w <= e THEN w ELSE e) = e
    BY <1>1
  <2>1. SUFFICES ASSUME hi = L PROVE e <= wt
    BY <2>0, <1>9, <1>10
  <2>2. top >= L
    <3>1. CASE x.stop = 0
      <4>1. L <= n
        <5>1. SUFFICES ASSUME n < L PROVE FALSE
          BY <1>1
        <5>2. n * d <= (L - 1) * d
          BY <5>1, <1>1, MulLe
        <5>3. n * 1 <= n * d
          BY <1>1, SMT
        <5> QED
          BY <5>2, <5>3, <1>1, <1>3, <1>4
      <4> QED
        BY <3>1, <4>1
    <3>2. CASE x.stop # 0
      <4>1. x.stop > L \/ (x.stop >= 0 /\ x.stop <= L /\ hi = x.stop) \/ (x.stop < 0 /\ hi = x.stop + L)
        BY <1>1, <3>2, <1>0
      <4> QED
        BY <1>1, <2>1, <3>2, <4>1
    <3> QED
      BY <3>1, <3>2
  <2>3. L * d <= top * d /\ top * d \in Int
    BY <2>2, <1>1, <1>9, MulLe, SMT
  <2>4. wt = a + top * d
    BY <2>2, <1>1, <1>9
  <2> QED
    BY <1>1, <1>4, <2>3, <2>4
<1>12. hi # L => Min({wt, e}) = a + hi * d
  <2>1. SUFFICES ASSUME hi < L PROVE wt = a + hi * d /\ wt <= e
    BY <1>0, <1>1, <1>9, <1>10
  <2>2. x.stop # 0 /\ ~ (x.stop > L) /\ top = x.stop /\ hi = IF x.stop < 0 THEN x.stop + L ELSE x.stop
    BY <2>1, <1>0
  <2>3. hi * d <= (L - 1) * d
    BY <2>1, <1>1, MulLe
  <2>4. wt = a + hi * d
    <3>1. CASE x.stop < 0
      <4>1. d = 1
        BY <3>1, <1>0
      <4> QED
        BY <1>1, <1>5, <2>2, <3>1, <4>1
    <3>2. CASE ~ (x.stop < 0)
      BY <2>2, <3>2
    <3> QED
      BY <3>1, <3>2
  <2> QED
    BY <1>1, <1>4, <2>3, <2>4
<1>13. PICK stop : stop = Min({wt, e})
  OBVIOUS
<1> HIDE DEF ws, wt, top
<1>14. (hi - lo) * d = hi * d - lo * d /\ (hi - lo - 1) * d = hi * d - lo * d - d
  BY <1>1, SMT
<1>15. IsCeil(stop - ws, d, hi - lo) /\ stop \in Int /\ stop <= e
  <2>1. CASE hi = L
    <3>1. stop = e
      BY <2>1, <1>11, <1>13
    <3>2. (L - 1) * d = L * d - d
      BY <1>1, SMT
    <3> QED
      BY <1>1, <1>4, <1>6, <1>14, <2>1, <3>1, <3>2 DEF IsCeil
  <2>2. CASE hi # L
    <3>1. stop = a + hi * d
      BY <2>2, <1>12, <1>13
    <3>2. stop <= e
      BY <1>10, <1>13, <1>9, <1>1
    <3> QED
      BY <1>1, <1>4, <1>6, <1>14, <2>2, <3>1, <3>2 DEF IsCeil
  <2> QED
    BY <2>1, <2>2
<1>16. stop > ws
  <2>1. stop - ws > 0
    BY <1>0, <1>15, <1>1, <1>8, CeilPositive
  <2> QED
    BY <2>1, <1>15, <1>8
<1>17. stop \in Nat /\ (hi = L => stop = e) /\ c = slice(ws, stop, d * Step(x))
  BY <1>2, <1>8, <1>11, <1>13, <1>15, <1>16
<1> QED
  BY <1>6, <1>8, <1>15, <1>17 DEF a, d, e, L, c

\* A range of a view, and the same range of the base.
LEMMA ComposeSlice ==
  ASSUME NEW n \in Nat \ {0}, NEW s, ValidSlice(s, n), NEW x \in [kind : {"slice"}, start : Int, stop : Int, step : Nat],
         Inside(s, Axis(s, n), x)
  PROVE  /\ ValidSlice(ComposeAxis(n, s, x), n)
         /\ Selected(Axis(s, n), x) = Axis(ComposeAxis(n, s, x), n)
         /\ Within(ComposeAxis(n, s, x), s, n)
         /\ Len(Axis(ComposeAxis(n, s, x), n)) = Len(Axis(s, n))
              => /\ Axis(ComposeAxis(n, s, x), n) = Axis(s, n)
                 /\ ComposeAxis(n, s, x).start = s.start /\ Stop(ComposeAxis(n, s, x), n) = Stop(s, n)
<1> DEFINE a == s.start
           d == Step(s)
           e == Stop(s, n)
           L == Size(s, n)
           t == Step(x)
           c == ComposeAxis(n, s, x)
           axis == Axis(s, n)
<1>1. d \in Nat \ {0} /\ e \in Nat /\ a \in Nat /\ L \in Nat \ {0} /\ IsCeil(e - a, d, L)
  BY SliceSize
<1>2. t \in Nat \ {0}
  BY DEF Step
<1>3. PICK lo \in Nat, hi \in Nat : SliceBounds(s, n, x, lo, hi)
  BY SliceOfSlice
<1>3a. lo < hi /\ hi <= L
  BY <1>3 DEF SliceBounds
<1>4. PICK stop \in Nat :
           /\ c = slice(a + lo * d, stop, d * t)
           /\ stop <= e /\ (hi = L => stop = e)
           /\ a + lo * d \in Nat /\ a <= a + lo * d
           /\ IsCeil(stop - (a + lo * d), d, hi - lo)
  BY <1>3, ComposedBounds
<1>5. e <= n /\ ValidSlice(s, n)
  BY DEF ValidSlice
<1>6. \A i \in 1..L : axis[i] = a + (i - 1) * d
  BY AxisOfSlice
<1>6b. Len(axis) = L /\ axis = [i \in 1..L |-> a + (i - 1) * d]
  BY AxisLen, AxisOfSlice
<1> DEFINE k == (hi - lo + t - 1) \div t
           from == a + lo * d
<1>7. k \in Nat \ {0} /\ IsCeil(hi - lo, t, k) /\ Selected(axis, x) = [i \in 1..k |-> axis[lo + (i - 1) * t + 1]]
  BY <1>3 DEF SliceBounds
<1>8. from \in Nat /\ c = slice(from, stop, d * t) /\ IsCeil(stop - from, d, hi - lo) /\ a <= from
  BY <1>4
<1> HIDE DEF a, d, e, L, t, c, axis, k
<1>9. d * t \in Nat \ {0} /\ IsCeil(stop - from, d * t, k)
  <2>1. stop - from \in Int /\ hi - lo \in Int /\ k \in Int
    BY <1>7, <1>8
  <2> HIDE DEF from
  <2> QED
    BY <1>1, <1>2, <1>7, <1>8, <2>1, CeilNested
<1>10. stop - from > 0
  <2>1. hi - lo \in Int /\ hi - lo > 0 /\ stop - from \in Int
    BY <1>3a, <1>8
  <2> HIDE DEF from
  <2> QED
    BY <1>1, <1>8, <2>1, CeilPositive
<1>11. stop # 0 /\ from < stop /\ stop <= n
  <2> HIDE DEF from
  <2> QED
    BY <1>10, <1>8, <1>4, <1>5, <1>1
<1>12. ValidSlice(c, n) /\ Stop(c, n) = stop /\ Step(c) = d * t /\ c.start = from /\ c.kind = "slice"
  <2> HIDE DEF from
  <2>1. c.start = from /\ c.stop = stop /\ c.step = d * t /\ c.kind = "slice"
    BY <1>8 DEF slice
  <2>2. c \in [kind : {"slice"}, start : Nat, stop : Nat, step : Nat]
    BY <1>8, <1>9 DEF slice
  <2> QED
    BY <2>1, <2>2, <1>9, <1>11 DEF ValidSlice, Stop, Step
<1>13. Size(c, n) = k
  <2>1. Size(c, n) \in Int /\ IsCeil(stop - from, d * t, Size(c, n))
    BY <1>12, SliceSize
  <2> HIDE DEF from
  <2> QED
    BY <1>7, <1>8, <1>9, <2>1, CeilUnique
<1>14. Axis(c, n) = [i \in 1..k |-> from + (i - 1) * (d * t)] /\ Len(Axis(c, n)) = k
  BY <1>12, <1>13, AxisOfSlice, AxisLen
<1>15. ASSUME NEW i \in 1..k
       PROVE  axis[lo + (i - 1) * t + 1] = from + (i - 1) * (d * t)
  <2>1. i \in Nat /\ 1 <= i /\ i <= k
    BY <1>7
  <2>2. (i - 1) * t <= (k - 1) * t /\ 0 * t <= (i - 1) * t
    BY <2>1, <1>2, <1>7, MulLe
  <2>3. (k - 1) * t < hi - lo
    BY <1>7 DEF IsCeil
  <2>4. PICK m \in Nat : m = (i - 1) * t
    BY <2>1, <1>2, SMT
  <2>5. (k - 1) * t \in Int
    BY <1>2, <1>7, SMT
  <2>6. lo + m + 1 \in 1..L
    BY <2>2, <2>3, <2>4, <2>5, <1>1, <1>3a
  <2>7. axis[lo + m + 1] = a + (lo + m + 1 - 1) * d
    BY <2>6, <1>6
  <2>8. (lo + m + 1 - 1) * d = lo * d + m * d
    BY <1>1, SMT
  <2>9. m * d = (i - 1) * (d * t)
    <3>1. ((i - 1) * t) * d = (i - 1) * (d * t)
      BY <2>1, <1>1, <1>2, SMT
    <3> QED
      BY <3>1, <2>4
  <2>10. lo * d \in Int /\ m * d \in Int
    BY <1>1, SMT
  <2> QED
    BY <2>4, <2>7, <2>8, <2>9, <2>10, <1>1
<1>16. Selected(axis, x) = Axis(c, n)
  <2> HIDE DEF from
  <2> QED
    BY <1>7, <1>14, <1>15
<1>17. Within(c, s, n)
  BY <1>4, <1>8, <1>12 DEF Within, a, e
<1>18. ASSUME Len(Axis(c, n)) = Len(axis)
       PROVE  Axis(c, n) = axis /\ c.start = a /\ Stop(c, n) = e
  <2>1. k = L
    BY <1>18, <1>14, <1>6b
  <2>2. (k - 1) * 1 <= (k - 1) * t
    BY <1>2, <1>7, SMT
  <2>3. (k - 1) * t < hi - lo /\ (k - 1) * t \in Int
    BY <1>7, <1>2, SMT DEF IsCeil
  <2>4. lo = 0 /\ hi = L
    BY <2>1, <2>2, <2>3, <1>1, <1>3a
  <2>5. from = a /\ stop = e
    <3>1. 0 * d = 0
      BY <1>1, SMT
    <3> QED
      BY <2>4, <3>1, <1>1, <1>4 DEF L
  <2>6. k = 1 \/ t = 1
    <3>1. SUFFICES ASSUME k # 1, t # 1 PROVE FALSE
      OBVIOUS
    <3>2. 2 * (k - 1) <= t * (k - 1) /\ t * (k - 1) = (k - 1) * t
      <4>1. 2 <= t /\ k - 1 \in Nat
        BY <3>1, <1>2, <1>7
      <4> QED
        BY <4>1, <1>2, MulLe
    <3> QED
      BY <3>1, <3>2, <2>1, <2>3, <2>4, <1>7, <1>1
  <2>7. \A i \in 1..k : from + (i - 1) * (d * t) = a + (i - 1) * d
    <3>1. CASE t = 1
      BY <3>1, <2>5, <1>1, <1>7
    <3>2. CASE k = 1
      <4>1. 0 * (d * t) = 0 /\ 0 * d = 0
        BY <1>1, <1>2, SMT
      <4>2. \A i \in 1..k : i - 1 = 0
        BY <3>2
      <4> QED
        BY <4>1, <4>2, <2>5
    <3> QED
      BY <3>1, <3>2, <2>6
  <2> QED
    BY <2>1, <2>5, <2>7, <1>6b, <1>12, <1>14
<1> QED
  BY <1>12, <1>16, <1>17, <1>18 DEF a, e, c, axis

-----------------------------------------------------------------------------
(* The blocks that an axis meets. *)

\* A quotient is known from its bounds.
LEMMA DivIs ==
  ASSUME NEW x \in Int, NEW d \in Nat \ {0}, NEW q \in Int, q * d <= x, x < q * d + d
  PROVE  x \div d = q
<1>1. PICK r : r = x \div d
  OBVIOUS
<1>2. r \in Int /\ r * d <= x /\ x < r * d + d
  BY <1>1, DivBounds
<1>3. ASSUME NEW a \in Int, NEW b \in Int, a < b, b * d <= x, x < a * d + d PROVE FALSE
  <2>1. (a + 1) * d <= b * d
    BY <1>3, MulLe
  <2>2. (a + 1) * d = a * d + d /\ a * d \in Int /\ b * d \in Int
    BY <1>3, SMT
  <2> QED
    BY <1>3, <2>1, <2>2
<1>4. ~ (q < r) /\ ~ (r < q)
  BY <1>2, <1>3
<1> QED
  BY <1>1, <1>2, <1>4

\* Division keeps the order.
LEMMA DivMono ==
  ASSUME NEW x \in Int, NEW y \in Int, NEW d \in Nat \ {0}, x <= y
  PROVE  x \div d <= y \div d
<1>1. PICK q, r : q = x \div d /\ r = y \div d
  OBVIOUS
<1>2. q \in Int /\ q * d <= x /\ x < q * d + d /\ r \in Int /\ r * d <= y /\ y < r * d + d
  BY <1>1, DivBounds
<1>3. SUFFICES ASSUME r < q PROVE FALSE
  BY <1>1, <1>2
<1>4. (r + 1) * d <= q * d
  BY <1>2, <1>3, MulLe
<1>5. (r + 1) * d = r * d + d /\ r * d \in Int /\ q * d \in Int
  BY <1>2, SMT
<1> QED
  BY <1>2, <1>4, <1>5

\* The quotient of a natural number is one.
LEMMA DivNat ==
  ASSUME NEW x \in Nat, NEW d \in Nat \ {0}
  PROVE  x \div d \in Nat
<1>1. 0 \div d <= x \div d /\ x \div d \in Int
  BY DivMono, DivBounds
<1>2. 0 \div d = 0
  <2>1. 0 * d = 0
    BY SMT
  <2> QED
    BY <2>1, DivIs
<1> QED
  BY <1>1, <1>2

\* What is below a multiple of the divisor has a smaller quotient.
LEMMA DivUnder ==
  ASSUME NEW x \in Int, NEW d \in Nat \ {0}, NEW q \in Int, x < q * d
  PROVE  x \div d < q
<1>1. PICK r : r = x \div d
  OBVIOUS
<1>2. r \in Int /\ r * d <= x
  BY <1>1, DivBounds
<1>3. SUFFICES ASSUME q <= r PROVE FALSE
  BY <1>1, <1>2
<1>4. q * d <= r * d /\ q * d \in Int /\ r * d \in Int
  BY <1>2, <1>3, MulLe, SMT
<1> QED
  BY <1>2, <1>4

\* The block coordinates between the first and the last element on an axis of n elements,
\* with r elements to a block.
OnAxis(s, n, r) == IF s.kind = "int" THEN {s.pos \div r} ELSE (s.start \div r)..((Stop(s, n) - 1) \div r)

\* x lies between the bounds of s.
Between(x, s, n) == IF s.kind = "int" THEN x = s.pos ELSE s.start <= x /\ x < Stop(s, n)

\* A valid index expression is a position or a range of the axis that is not empty.
LEMMA ValidFacts ==
  ASSUME NEW n \in Nat \ {0}, NEW s, Valid(s, n)
  PROVE  /\ s.kind = "int" => ValidInt(s, n) /\ s.pos \in Nat /\ s.pos < n
         /\ s.kind # "int" => /\ ValidSlice(s, n) /\ s.kind = "slice" /\ s.start \in Nat
                              /\ Stop(s, n) \in Nat /\ s.start < Stop(s, n) /\ Stop(s, n) <= n
BY DEF Valid, ValidInt, ValidSlice, Stop

\* What lies within a range meets no more blocks than the range.
LEMMA OnAxisWithin ==
  ASSUME NEW n \in Nat \ {0}, NEW r \in Nat \ {0}, NEW s, ValidSlice(s, n), NEW c, Valid(c, n), Within(c, s, n)
  PROVE  OnAxis(c, n, r) \subseteq OnAxis(s, n, r)
<1>1. s.kind = "slice" /\ s.start \in Nat /\ Stop(s, n) \in Nat
  BY SliceSize
<1>2. CASE c.kind = "int"
  <2>1. c.pos \in Nat /\ s.start <= c.pos /\ c.pos <= Stop(s, n) - 1
    BY <1>1, <1>2, ValidFacts DEF Within
  <2>2. s.start \div r <= c.pos \div r /\ c.pos \div r <= (Stop(s, n) - 1) \div r
    <3>1. s.start \in Int /\ c.pos \in Int /\ Stop(s, n) - 1 \in Int
      BY <1>1, <2>1
    <3> QED
      BY <2>1, <3>1, DivMono, Zenon
  <2>3. c.pos \div r \in Int
    BY <2>1, DivBounds
  <2> QED
    BY <1>1, <1>2, <2>2, <2>3 DEF OnAxis
<1>3. CASE c.kind # "int"
  <2>1. c.start \in Nat /\ Stop(c, n) \in Nat /\ s.start <= c.start /\ Stop(c, n) - 1 <= Stop(s, n) - 1
    BY <1>1, <1>3, ValidFacts DEF Within
  <2>2. s.start \div r <= c.start \div r /\ (Stop(c, n) - 1) \div r <= (Stop(s, n) - 1) \div r
    <3>1. s.start \in Int /\ c.start \in Int /\ s.start <= c.start
      BY <1>1, <2>1
    <3>2. /\ Stop(c, n) - 1 \in Int /\ Stop(s, n) - 1 \in Int
          /\ Stop(c, n) - 1 <= Stop(s, n) - 1
      BY <1>1, <2>1
    <3> QED
      BY <3>1, <3>2, DivMono, Zenon
  <2>3. /\ c.start \div r \in Int /\ s.start \div r \in Int
        /\ (Stop(c, n) - 1) \div r \in Int /\ (Stop(s, n) - 1) \div r \in Int
    BY <1>1, <2>1, DivBounds
  <2> QED
    BY <1>1, <1>3, <2>2, <2>3 DEF OnAxis
<1> QED
  BY <1>2, <1>3

\* An element between the bounds is in one of these blocks, and each block has one.
LEMMA BetweenOnAxis ==
  ASSUME NEW n \in Nat \ {0}, NEW r \in Nat \ {0}, NEW s, Valid(s, n), NEW x \in Nat, Between(x, s, n)
  PROVE  x \div r \in OnAxis(s, n, r) /\ x < n
<1>1. CASE s.kind = "int"
  BY <1>1, ValidFacts DEF OnAxis, Between
<1>2. CASE s.kind # "int"
  <2>1. s.start \in Nat /\ Stop(s, n) \in Nat /\ Stop(s, n) <= n /\ s.start <= x /\ x <= Stop(s, n) - 1
    BY <1>2, ValidFacts DEF Between
  <2>2. s.start \div r <= x \div r /\ x \div r <= (Stop(s, n) - 1) \div r
    BY <2>1, DivMono
  <2>3. x \div r \in Int /\ s.start \div r \in Int /\ (Stop(s, n) - 1) \div r \in Int
    BY <2>1, DivBounds
  <2> QED
    BY <1>2, <2>1, <2>2, <2>3 DEF OnAxis
<1> QED
  BY <1>1, <1>2

\* Every block of the range of blocks has an element between the bounds.
LEMMA OnAxisBetween ==
  ASSUME NEW n \in Nat \ {0}, NEW r \in Nat \ {0}, NEW s, Valid(s, n), NEW b \in OnAxis(s, n, r)
  PROVE  \E x \in Nat : x \div r = b /\ Between(x, s, n)
<1>1. CASE s.kind = "int"
  BY <1>1, ValidFacts DEF OnAxis, Between
<1>2. CASE s.kind # "int"
  <2>1. s.start \in Nat /\ Stop(s, n) \in Nat /\ s.start < Stop(s, n)
    BY <1>2, ValidFacts
  <2>2. PICK p, q : p = s.start \div r /\ q = (Stop(s, n) - 1) \div r
    OBVIOUS
  <2>3. /\ p \in Int /\ p * r <= s.start /\ s.start < p * r + r
        /\ q \in Int /\ q * r <= Stop(s, n) - 1 /\ Stop(s, n) - 1 < q * r + r
    <3>0. s.start \in Int
      BY <2>1
    <3>1. p \in Int /\ p * r <= s.start /\ s.start < p * r + r
      BY <2>2, <3>0, DivBounds
    <3>2. Stop(s, n) - 1 \in Int
      BY <2>1
    <3>3. q \in Int /\ q * r <= Stop(s, n) - 1 /\ Stop(s, n) - 1 < q * r + r
      BY <2>2, <3>2, DivBounds
    <3> QED
      BY <3>1, <3>3
  <2>4. b \in Int /\ p <= b /\ b <= q
    BY <1>2, <2>2, <2>3 DEF OnAxis
  <2>5. b * r \in Int /\ p * r \in Int /\ b * r <= q * r /\ q * r \in Int
    BY <2>3, <2>4, MulLe, SMT
  <2>6. CASE b = p
    <3>1. s.start \div r = b /\ Between(s.start, s, n)
      BY <1>2, <2>1, <2>2, <2>6 DEF Between
    <3> QED
      BY <2>1, <3>1
  <2>7. CASE b # p
    <3>1. (p + 1) * r <= b * r /\ (p + 1) * r = p * r + r
      BY <2>3, <2>4, <2>7, MulLe, SMT
    <3>2. b * r \in Nat /\ s.start <= b * r /\ b * r < Stop(s, n)
      BY <2>1, <2>3, <2>5, <3>1
    <3>3. (b * r) \div r = b
      BY <2>4, <2>5, DivIs
    <3> QED
      BY <1>2, <3>2, <3>3 DEF Between
  <2> QED
    BY <2>6, <2>7
<1> QED
  BY <1>1, <1>2

\* What is selected lies between the bounds.
LEMMA AxisBetween ==
  ASSUME NEW n \in Nat \ {0}, NEW s, Valid(s, n), NEW x \in ToSet(Axis(s, n))
  PROVE  x \in Nat /\ Between(x, s, n)
<1>1. CASE s.kind = "int"
  BY <1>1, ValidFacts, AxisOfInt DEF ToSet, Between
<1>2. CASE s.kind # "int"
  <2>1. ValidSlice(s, n)
    BY <1>2, ValidFacts
  <2>2. PICK i \in 1..Size(s, n) : x = s.start + (i - 1) * Step(s)
    <3>1. PICK f : f = Axis(s, n)
      OBVIOUS
    <3>2. f = [i \in 1..Size(s, n) |-> s.start + (i - 1) * Step(s)]
      BY <2>1, <3>1, AxisOfSlice
    <3>3. PICK i \in DOMAIN f : x = f[i]
      BY <3>1 DEF ToSet
    <3> QED
      BY <3>2, <3>3
  <2> QED
    BY <1>2, <2>1, <2>2, SliceWithin DEF Between
<1> QED
  BY <1>1, <1>2

\* view_composer_internal on one axis: the composed expression is valid, selects what numpy
\* selects of the selection, and meets no other blocks.
LEMMA ComposeAxisOK ==
  ASSUME NEW n \in Nat \ {0}, NEW r \in Nat \ {0}, NEW s, ValidSlice(s, n), NEW x \in IndexPart,
         Inside(s, Axis(s, n), x), NEW c, c = ComposeAxis(n, s, x)
  PROVE  /\ Valid(c, n) /\ c.kind = x.kind
         /\ Selected(Axis(s, n), x) = Axis(c, n)
         /\ OnAxis(c, n, r) \subseteq OnAxis(s, n, r)
         /\ c.kind = "slice" /\ Len(Axis(c, n)) = Len(Axis(s, n))
              => Axis(c, n) = Axis(s, n) /\ OnAxis(c, n, r) = OnAxis(s, n, r)
<1>1. CASE x \in [kind : {"int"}, pos : Int]
  <2>1. ValidInt(c, n) /\ Selected(Axis(s, n), x) = Axis(c, n) /\ Within(c, s, n)
    BY <1>1, ComposeInt
  <2>2. Valid(c, n) /\ c.kind = "int" /\ x.kind = "int"
    BY <1>1, <2>1 DEF Valid, ValidInt
  <2>3. OnAxis(c, n, r) \subseteq OnAxis(s, n, r)
    BY <2>1, <2>2, OnAxisWithin
  <2> QED
    BY <2>1, <2>2, <2>3
<1>2. CASE x \in [kind : {"slice"}, start : Int, stop : Int, step : Nat]
  <2>1. /\ ValidSlice(c, n) /\ Selected(Axis(s, n), x) = Axis(c, n) /\ Within(c, s, n)
        /\ Len(Axis(c, n)) = Len(Axis(s, n))
             => Axis(c, n) = Axis(s, n) /\ c.start = s.start /\ Stop(c, n) = Stop(s, n)
    BY <1>2, ComposeSlice
  <2>2. Valid(c, n) /\ c.kind = "slice" /\ x.kind = "slice" /\ s.kind = "slice"
    BY <1>2, <2>1 DEF Valid, ValidSlice
  <2>3. OnAxis(c, n, r) \subseteq OnAxis(s, n, r)
    BY <2>1, <2>2, OnAxisWithin
  <2> QED
    BY <2>1, <2>2, <2>3 DEF OnAxis
<1> QED
  BY <1>1, <1>2 DEF IndexPart

-----------------------------------------------------------------------------
(* The array: its elements and its blocks. *)

R == g.row_elements
Cells == 0..(Product(Shape) - 1)

\* The elements of a block.
In(b) == Range(g.blocks[b].offsets)

ValidSer(ser) == DOMAIN ser = DOMAIN Shape /\ \A j \in DOMAIN Shape : Valid(ser[j], Shape[j])

\* The dimensions of the array and of its blocks.
LEMMA Geometry ==
  ASSUME ArrayCut
  PROVE  /\ R \in Nat \ {0} /\ Product(Shape) \in Nat
         /\ DOMAIN Shape = 1..Len(Shape) /\ Len(Shape) \in Nat
         /\ DOMAIN g.blocks_dim = DOMAIN Shape
         /\ \A j \in DOMAIN Shape : /\ Shape[j] \in Nat \ {0} /\ g.blocks_dim[j] \in Nat
                                    /\ (g.blocks_dim[j] - 1) * R < Shape[j] /\ Shape[j] <= g.blocks_dim[j] * R
<1>1. Shape \in Seq(Nat \ {0})
  BY DEF ArrayCut
<1>2. DOMAIN Shape = 1..Len(Shape) /\ Len(Shape) \in Nat /\ \A j \in DOMAIN Shape : Shape[j] \in Nat \ {0}
  BY <1>1
<1> QED
  BY <1>2 DEF ArrayCut, R

\* The coordinates of an array of some shape.
LEMMA BoxIs ==
  ASSUME NEW dims, \A j \in DOMAIN dims : dims[j] \in Nat, NEW c
  PROVE  c \in Box(dims) <=> c \in [DOMAIN dims -> Nat] /\ \A j \in DOMAIN dims : c[j] < dims[j]
<1>1. ASSUME c \in Box(dims)
      PROVE  c \in [DOMAIN dims -> Nat] /\ \A j \in DOMAIN dims : c[j] < dims[j]
  <2>1. c \in [DOMAIN dims -> UNION {0 .. dims[j] - 1 : j \in DOMAIN dims}] /\ \A j \in DOMAIN dims : c[j] < dims[j]
    BY <1>1 DEF Box
  <2>2. UNION {0 .. dims[j] - 1 : j \in DOMAIN dims} \subseteq Nat
    OBVIOUS
  <2> QED
    BY <2>1, <2>2
<1>2. ASSUME c \in [DOMAIN dims -> Nat], \A j \in DOMAIN dims : c[j] < dims[j]
      PROVE  c \in Box(dims)
  <2>1. \A j \in DOMAIN dims : c[j] \in 0 .. dims[j] - 1
    BY <1>2
  <2>2. c \in [DOMAIN dims -> UNION {0 .. dims[j] - 1 : j \in DOMAIN dims}]
    BY <1>2, <2>1
  <2> QED
    BY <1>2, <2>2 DEF Box
<1> QED
  BY <1>1, <1>2

\* The blocks on an axis are blocks of the array, and there is one.
LEMMA OnAxisType ==
  ASSUME ArrayCut, NEW j \in DOMAIN Shape, NEW s, Valid(s, Shape[j])
  PROVE  OnAxis(s, Shape[j], R) \subseteq {b \in Nat : b < g.blocks_dim[j]} /\ OnAxis(s, Shape[j], R) # {}
<1>1. Shape[j] \in Nat \ {0} /\ R \in Nat \ {0} /\ g.blocks_dim[j] \in Nat /\ Shape[j] <= g.blocks_dim[j] * R
  BY Geometry
<1>2. ASSUME NEW b \in OnAxis(s, Shape[j], R)
      PROVE  b \in Nat /\ b < g.blocks_dim[j]
  <2>1. PICK x \in Nat : x \div R = b /\ Between(x, s, Shape[j])
    BY <1>1, OnAxisBetween
  <2>2. x < Shape[j]
    BY <1>1, <2>1, BetweenOnAxis
  <2>3. g.blocks_dim[j] * R \in Int
    BY <1>1, SMT
  <2>4. x < g.blocks_dim[j] * R
    BY <1>1, <2>2, <2>3
  <2> QED
    BY <1>1, <2>1, <2>4, DivUnder, DivNat
<1>3. OnAxis(s, Shape[j], R) # {}
  <2>1. CASE s.kind = "int"
    BY <2>1 DEF OnAxis
  <2>2. CASE s.kind # "int"
    <3>1. s.start \in Nat /\ Between(s.start, s, Shape[j])
      BY <1>1, <2>2, ValidFacts DEF Between
    <3> QED
      BY <1>1, <3>1, BetweenOnAxis
  <2> QED
    BY <2>1, <2>2
<1> QED
  BY <1>2, <1>3

\* The coordinates of a view are those that are on each axis.
LEMMA CoordsIs ==
  ASSUME ArrayCut, NEW ser, ValidSer(ser), NEW b
  PROVE  b \in calculate_block_coords(ser)
           <=> b \in [DOMAIN Shape -> Nat] /\ \A j \in DOMAIN Shape : b[j] \in OnAxis(ser[j], Shape[j], R)
<1> DEFINE l == calculate_list_of_ranges_of_block_coords(ser)
<1>1. DOMAIN l = DOMAIN Shape /\ \A j \in DOMAIN Shape : l[j] = OnAxis(ser[j], Shape[j], R)
  BY DEF calculate_list_of_ranges_of_block_coords, ValidSer, OnAxis, removenones, slice, Stop, R
<1>2. \A j \in DOMAIN Shape : l[j] \subseteq Nat
  BY <1>1, OnAxisType DEF ValidSer
<1>3. Range(l) = {l[j] : j \in DOMAIN Shape}
  BY <1>1 DEF Range
<1>4. b \in calculate_block_coords(ser)
        <=> b \in [DOMAIN Shape -> UNION Range(l)] /\ \A j \in DOMAIN Shape : b[j] \in l[j]
  BY DEF calculate_block_coords, ValidSer
<1> HIDE DEF l
<1>5. ASSUME b \in [DOMAIN Shape -> UNION Range(l)], \A j \in DOMAIN Shape : b[j] \in l[j]
      PROVE  b \in [DOMAIN Shape -> Nat]
  BY <1>2, <1>5
<1>6. ASSUME b \in [DOMAIN Shape -> Nat], \A j \in DOMAIN Shape : b[j] \in l[j]
      PROVE  b \in [DOMAIN Shape -> UNION Range(l)]
  BY <1>3, <1>6
<1> QED
  BY <1>1, <1>4, <1>5, <1>6

\* A view meets blocks of the array only, and at least one.
LEMMA CoordsType ==
  ASSUME ArrayCut, NEW ser, ValidSer(ser)
  PROVE  calculate_block_coords(ser) \subseteq DOMAIN g.blocks /\ calculate_block_coords(ser) # {}
<1>1. ASSUME NEW b \in calculate_block_coords(ser)
      PROVE  b \in DOMAIN g.blocks
  <2>1. b \in [DOMAIN Shape -> Nat] /\ \A j \in DOMAIN Shape : b[j] < g.blocks_dim[j]
    BY CoordsIs, OnAxisType DEF ValidSer
  <2>2. b \in Box(g.blocks_dim)
    BY <2>1, Geometry, BoxIs
  <2> QED
    BY <2>2 DEF ArrayCut
<1>2. calculate_block_coords(ser) # {}
  <2> DEFINE b == [j \in DOMAIN Shape |-> CHOOSE x \in OnAxis(ser[j], Shape[j], R) : TRUE]
  <2>1. \A j \in DOMAIN Shape : b[j] \in OnAxis(ser[j], Shape[j], R) /\ b[j] \in Nat
    BY OnAxisType DEF ValidSer
  <2>2. b \in calculate_block_coords(ser)
    BY <2>1, CoordsIs
  <2> QED
    BY <2>2
<1> QED
  BY <1>1, <1>2

-----------------------------------------------------------------------------
(* Views of views. *)

\* An index expression that stays inside a view.
Fits(ser, new) ==
  /\ new \in Seq(IndexPart)
  /\ \A j \in DOMAIN Shape : Indexed(ser, new, j) => Inside(ser[j], Positions(ser)[j], new[Rank(ser, j)])

\* The positions that an expression selects, axis by axis.
LEMMA PositionsIs ==
  ASSUME NEW ser, DOMAIN ser = DOMAIN Shape
  PROVE  Positions(ser) = [j \in DOMAIN Shape |-> Axis(ser[j], Shape[j])]
BY DEF Positions, Axis, Base

\* On one axis.
ComposedOn(ser, new, big, j) ==
  /\ Valid(big[j], Shape[j])
  /\ OnAxis(big[j], Shape[j], R) \subseteq OnAxis(ser[j], Shape[j], R)
  /\ Axis(big[j], Shape[j]) =
       IF Indexed(ser, new, j) THEN Selected(Axis(ser[j], Shape[j]), new[Rank(ser, j)]) ELSE Axis(ser[j], Shape[j])
  /\ big[j].kind = "slice" => ser[j].kind = "slice"
  /\ /\ big[j].kind = ser[j].kind
     /\ ser[j].kind = "slice" => Len(Axis(big[j], Shape[j])) = Len(Axis(ser[j], Shape[j]))
     => /\ Axis(big[j], Shape[j]) = Axis(ser[j], Shape[j])
        /\ OnAxis(big[j], Shape[j], R) = OnAxis(ser[j], Shape[j], R)

\* ComposeAxisOK for an axis of a view, indexed or not.
LEMMA ComposeOn ==
  ASSUME ArrayCut, NEW ser, ValidSer(ser), NEW new, Fits(ser, new), NEW j \in DOMAIN Shape
  PROVE  ComposedOn(ser, new, _view_composer_new(ser, new), j)
<1> DEFINE big == _view_composer_new(ser, new)
           n == Shape[j]
           x == new[Rank(ser, j)]
<1>1. n \in Nat \ {0} /\ R \in Nat \ {0} /\ Valid(ser[j], n) /\ DOMAIN ser = DOMAIN Shape
  BY Geometry DEF ValidSer
<1>2. big[j] = IF Indexed(ser, new, j) THEN ComposeAxis(n, ser[j], x) ELSE ser[j]
  BY <1>1 DEF _view_composer_new
<1>3. CASE Indexed(ser, new, j)
  <2>1. ser[j].kind = "slice" /\ x \in IndexPart
    BY <1>3 DEF Indexed, SliceAxes, Fits
  <2>2. ValidSlice(ser[j], n)
    BY <1>1, <2>1, ValidFacts
  <2>3. Inside(ser[j], Axis(ser[j], n), x)
    BY <1>1, <1>3, PositionsIs DEF Fits
  <2>4. big[j] = ComposeAxis(n, ser[j], x)
    BY <1>2, <1>3
  <2> HIDE DEF big, n, x
  <2>5. /\ Valid(big[j], n) /\ big[j].kind = x.kind
        /\ Selected(Axis(ser[j], n), x) = Axis(big[j], n)
        /\ OnAxis(big[j], n, R) \subseteq OnAxis(ser[j], n, R)
        /\ big[j].kind = "slice" /\ Len(Axis(big[j], n)) = Len(Axis(ser[j], n))
             => Axis(big[j], n) = Axis(ser[j], n) /\ OnAxis(big[j], n, R) = OnAxis(ser[j], n, R)
    BY <1>1, <2>1, <2>2, <2>3, <2>4, ComposeAxisOK
  <2>6. ComposedOn(ser, new, big, j)
    BY <1>3, <2>1, <2>5 DEF ComposedOn, n, x
  <2> QED
    BY <2>6 DEF big
<1>4. CASE ~ Indexed(ser, new, j)
  <2>1. big[j] = ser[j]
    BY <1>2, <1>4
  <2> HIDE DEF big
  <2>2. ComposedOn(ser, new, big, j)
    BY <1>1, <1>4, <2>1 DEF ComposedOn
  <2> QED
    BY <2>2 DEF big
<1> QED
  BY <1>3, <1>4

\* view_composer_internal: the composed view is valid, selects what numpy selects, and meets no
\* other blocks.
LEMMA ComposeOK ==
  ASSUME ArrayCut, NEW ser, ValidSer(ser), NEW new, Fits(ser, new), NEW big, big = _view_composer_new(ser, new)
  PROVE  /\ ValidSer(big)
         /\ calculate_block_coords(big) \subseteq calculate_block_coords(ser)
         /\ Positions(big) = [j \in DOMAIN Shape |->
              IF Indexed(ser, new, j) THEN Selected(Positions(ser)[j], new[Rank(ser, j)]) ELSE Positions(ser)[j]]
<1>1. DOMAIN big = DOMAIN Shape /\ DOMAIN ser = DOMAIN Shape
  BY DEF ValidSer, _view_composer_new
<1>2. \A j \in DOMAIN Shape : ComposedOn(ser, new, big, j)
  BY ComposeOn
<1>3. ValidSer(big)
  BY <1>1, <1>2 DEF ValidSer, ComposedOn
<1>4. calculate_block_coords(big) \subseteq calculate_block_coords(ser)
  <2> SUFFICES ASSUME NEW b \in calculate_block_coords(big)
               PROVE  b \in calculate_block_coords(ser)
    OBVIOUS
  <2>1. b \in [DOMAIN Shape -> Nat] /\ \A j \in DOMAIN Shape : b[j] \in OnAxis(big[j], Shape[j], R)
    BY <1>3, CoordsIs
  <2>2. \A j \in DOMAIN Shape : b[j] \in OnAxis(ser[j], Shape[j], R)
    BY <1>2, <2>1 DEF ComposedOn
  <2> QED
    BY <2>1, <2>2, CoordsIs
<1>5. Positions(big) = [j \in DOMAIN Shape |-> Axis(big[j], Shape[j])]
      /\ Positions(ser) = [j \in DOMAIN Shape |-> Axis(ser[j], Shape[j])]
  BY <1>1, PositionsIs
<1>6. \A j \in DOMAIN Shape :
        Axis(big[j], Shape[j]) =
          IF Indexed(ser, new, j) THEN Selected(Axis(ser[j], Shape[j]), new[Rank(ser, j)]) ELSE Axis(ser[j], Shape[j])
  BY <1>2 DEF ComposedOn
<1> QED
  BY <1>3, <1>4, <1>5, <1>6

\* A view of the same shape is the view: same elements, same blocks.
LEMMA SameShape ==
  ASSUME ArrayCut, NEW ser, ValidSer(ser), NEW new, Fits(ser, new), NEW big, big = _view_composer_new(ser, new),
         SliceAxes(big) = SliceAxes(ser),
         \A j \in SliceAxes(ser) : Len(Positions(big)[j]) = Len(Positions(ser)[j])
  PROVE  /\ Positions(big) = Positions(ser)
         /\ calculate_block_coords(big) = calculate_block_coords(ser)
<1>1. DOMAIN big = DOMAIN Shape /\ DOMAIN ser = DOMAIN Shape
  BY DEF ValidSer, _view_composer_new
<1>2. \A j \in DOMAIN Shape : ComposedOn(ser, new, big, j)
  BY ComposeOn
<1>3. Positions(big) = [j \in DOMAIN Shape |-> Axis(big[j], Shape[j])]
      /\ Positions(ser) = [j \in DOMAIN Shape |-> Axis(ser[j], Shape[j])]
  BY <1>1, PositionsIs
<1>4. ASSUME NEW j \in DOMAIN Shape
      PROVE  /\ Axis(big[j], Shape[j]) = Axis(ser[j], Shape[j])
             /\ OnAxis(big[j], Shape[j], R) = OnAxis(ser[j], Shape[j], R)
  <2>1. Valid(big[j], Shape[j]) /\ Valid(ser[j], Shape[j]) /\ Shape[j] \in Nat \ {0}
    BY <1>2, Geometry DEF ComposedOn, ValidSer
  <2>2. (big[j].kind = "slice") <=> (ser[j].kind = "slice")
    BY <1>1 DEF SliceAxes
  <2>3. big[j].kind \in {"int", "slice"} /\ ser[j].kind \in {"int", "slice"}
    BY <2>1 DEF Valid, ValidInt, ValidSlice
  <2>4. big[j].kind = ser[j].kind
    BY <2>2, <2>3
  <2>5. ser[j].kind = "slice" => Len(Axis(big[j], Shape[j])) = Len(Axis(ser[j], Shape[j]))
    BY <1>1, <1>3 DEF SliceAxes
  <2> QED
    BY <1>2, <2>4, <2>5 DEF ComposedOn
<1>5. Positions(big) = Positions(ser)
  BY <1>3, <1>4
<1>6. ValidSer(big)
  BY ComposeOK
<1>7. ASSUME NEW b
      PROVE  b \in calculate_block_coords(big) <=> b \in calculate_block_coords(ser)
  BY <1>4, <1>6, CoordsIs
<1> QED
  BY <1>5, <1>7

-----------------------------------------------------------------------------
(* The elements of views and of blocks. *)

\* The elements of a block are those at its positions.
LEMMA BlockCells ==
  ASSUME ArrayCut, NEW b \in DOMAIN g.blocks, NEW o
  PROVE  o \in In(b) <=> \E c \in DOMAIN place : BlockOf(c) = b /\ o = place[c]
<1>1. Range(g.blocks[b].offsets) = {place[c] : c \in {x \in DOMAIN place : BlockOf(x) = b}}
  BY DEF ArrayCut
<1> QED
  BY <1>1 DEF In

\* Each position of the array has an offset, and a block.
LEMMA CellType ==
  ASSUME ArrayCut, NEW c
  PROVE  /\ c \in DOMAIN place <=> c \in [DOMAIN Shape -> Nat] /\ \A j \in DOMAIN Shape : c[j] < Shape[j]
         /\ c \in DOMAIN place => /\ place[c] \in Cells /\ BlockOf(c) \in DOMAIN g.blocks
                                  /\ BlockOf(c) = [j \in DOMAIN Shape |-> c[j] \div R]
<1>1. c \in DOMAIN place <=> c \in [DOMAIN Shape -> Nat] /\ \A j \in DOMAIN Shape : c[j] < Shape[j]
  BY Geometry, BoxIs DEF ArrayCut
<1>2. ASSUME c \in DOMAIN place
      PROVE  place[c] \in Cells
  BY <1>2 DEF ArrayCut, Range, Cells
<1>3. ASSUME c \in DOMAIN place
      PROVE  BlockOf(c) \in DOMAIN g.blocks /\ BlockOf(c) = [j \in DOMAIN Shape |-> c[j] \div R]
  <2>1. DOMAIN c = DOMAIN Shape
    BY <1>1, <1>3
  <2>2. BlockOf(c) = [j \in DOMAIN Shape |-> c[j] \div R]
    BY <2>1 DEF BlockOf, R
  <2>3. ASSUME NEW j \in DOMAIN Shape
        PROVE  c[j] \div R \in Nat /\ c[j] \div R < g.blocks_dim[j]
    <3>1. /\ c[j] \in Nat /\ c[j] < Shape[j] /\ Shape[j] \in Nat /\ R \in Nat \ {0} /\ g.blocks_dim[j] \in Nat
          /\ Shape[j] <= g.blocks_dim[j] * R
      BY <1>1, <1>3, Geometry
    <3>2. g.blocks_dim[j] * R \in Int
      BY <3>1, SMT
    <3>3. c[j] < g.blocks_dim[j] * R
      BY <3>1, <3>2
    <3> QED
      BY <3>1, <3>3, DivUnder, DivNat
  <2>4. BlockOf(c) \in Box(g.blocks_dim)
    <3>1. DOMAIN g.blocks_dim = DOMAIN Shape /\ \A j \in DOMAIN Shape : g.blocks_dim[j] \in Nat
      BY Geometry
    <3>2. BlockOf(c) \in [DOMAIN Shape -> Nat] /\ \A j \in DOMAIN Shape : BlockOf(c)[j] < g.blocks_dim[j]
      BY <2>2, <2>3
    <3> QED
      BY <3>1, <3>2, BoxIs
  <2> QED
    BY <2>2, <2>4 DEF ArrayCut
<1> QED
  BY <1>1, <1>2, <1>3

\* Blocks hold elements of the array only.
LEMMA InCells ==
  ASSUME ArrayCut, NEW b \in DOMAIN g.blocks
  PROVE  In(b) \subseteq Cells
BY BlockCells, CellType

\* Every element is in a block.
LEMMA CellBlock ==
  ASSUME ArrayCut, NEW o \in Cells
  PROVE  \E b \in DOMAIN g.blocks : o \in In(b)
<1>1. PICK c \in DOMAIN place : o = place[c]
  BY DEF ArrayCut, Range, Cells
<1>2. BlockOf(c) \in DOMAIN g.blocks
  BY CellType
<1> QED
  BY <1>1, <1>2, BlockCells

\* An element is in one block only.
LEMMA OneBlock ==
  ASSUME ArrayCut, NEW a \in DOMAIN g.blocks, NEW b \in DOMAIN g.blocks, NEW o, o \in In(a), o \in In(b)
  PROVE  a = b
<1>1. PICK c \in DOMAIN place : BlockOf(c) = a /\ o = place[c]
  BY BlockCells
<1>2. PICK d \in DOMAIN place : BlockOf(d) = b /\ o = place[d]
  BY BlockCells
<1>3. c = d
  BY <1>1, <1>2 DEF ArrayCut, IsInjective
<1> QED
  BY <1>1, <1>2, <1>3

\* The elements that a view selects are in its blocks.
LEMMA SelectedIn ==
  ASSUME ArrayCut, NEW v, ValidSer(v.ser), v.axes = Positions(v.ser), NEW o \in Own(v)
  PROVE  o \in Cells /\ \E b \in calculate_block_coords(v.ser) : o \in In(b)
<1>1. DOMAIN v.ser = DOMAIN Shape /\ v.axes = [j \in DOMAIN Shape |-> Axis(v.ser[j], Shape[j])]
  BY PositionsIs DEF ValidSer
<1>2. PICK c \in DOMAIN place : o = place[c] /\ \A j \in DOMAIN Shape : c[j] \in ToSet(Axis(v.ser[j], Shape[j]))
  BY <1>1 DEF Own, Elements
<1>3. BlockOf(c) \in DOMAIN g.blocks /\ BlockOf(c) = [j \in DOMAIN Shape |-> c[j] \div R] /\ o \in Cells
  BY <1>2, CellType
<1>4. ASSUME NEW j \in DOMAIN Shape
      PROVE  c[j] \div R \in OnAxis(v.ser[j], Shape[j], R) /\ c[j] \div R \in Nat
  <2>1. Shape[j] \in Nat \ {0} /\ R \in Nat \ {0} /\ Valid(v.ser[j], Shape[j])
    BY Geometry DEF ValidSer
  <2>2. c[j] \in Nat /\ Between(c[j], v.ser[j], Shape[j])
    BY <1>2, <2>1, AxisBetween
  <2> QED
    BY <2>1, <2>2, BetweenOnAxis, DivNat
<1>5. BlockOf(c) \in calculate_block_coords(v.ser)
  BY <1>3, <1>4, CoordsIs
<1> QED
  BY <1>2, <1>3, <1>5, BlockCells

\* A slice without a step holds all that is between its bounds.
LEMMA AllBetween ==
  ASSUME NEW n \in Nat \ {0}, NEW s, Valid(s, n), NEW x \in Nat, Between(x, s, n)
  PROVE  x \in ToSet(Axis(IF s.kind = "int" THEN s ELSE slice(s.start, s.stop, 0), n))
<1>1. CASE s.kind = "int"
  BY <1>1, ValidFacts, AxisOfInt DEF ToSet, Between
<1>2. CASE s.kind # "int"
  <2>1. s.start \in Nat /\ s.stop \in Nat /\ s.start < Stop(s, n) /\ Stop(s, n) <= n /\ Stop(s, n) \in Nat
    BY <1>2, ValidFacts DEF ValidSlice
  <2>2. PICK t : t = slice(s.start, s.stop, 0)
    OBVIOUS
  <2>3. ValidSlice(t, n) /\ Step(t) = 1 /\ Stop(t, n) = Stop(s, n) /\ t.start = s.start
    BY <2>1, <2>2 DEF ValidSlice, slice, Stop, Step
  <2>4. Size(t, n) \in Nat /\ IsCeil(Stop(s, n) - s.start, 1, Size(t, n))
    BY <2>3, SliceSize
  <2>5. Size(t, n) = Stop(s, n) - s.start
    BY <2>1, <2>4 DEF IsCeil
  <2>6. PICK f : f = Axis(t, n)
    OBVIOUS
  <2>7. f = [i \in 1..Size(t, n) |-> s.start + (i - 1) * 1]
    BY <2>3, <2>6, AxisOfSlice
  <2>8. x - s.start + 1 \in 1..Size(t, n)
    BY <1>2, <2>1, <2>5 DEF Between
  <2>9. f[x - s.start + 1] = x
    BY <2>1, <2>7, <2>8
  <2>10. x \in ToSet(f)
    BY <2>7, <2>8, <2>9 DEF ToSet
  <2> QED
    BY <1>2, <2>2, <2>6, <2>10
<1> QED
  BY <1>1, <1>2

\* Each block of a view has an element between its bounds.
LEMMA SpanMeets ==
  ASSUME ArrayCut, NEW v, ValidSer(v.ser), NEW b \in calculate_block_coords(v.ser)
  PROVE  \E o \in Spanned(v) : o \in In(b)
<1> DEFINE all(j) == IF v.ser[j].kind = "int" THEN v.ser[j] ELSE slice(v.ser[j].start, v.ser[j].stop, 0)
           positions == Positions([j \in DOMAIN v.ser |-> all(j)])
<1>1. b \in [DOMAIN Shape -> Nat] /\ \A j \in DOMAIN Shape : b[j] \in OnAxis(v.ser[j], Shape[j], R)
  BY CoordsIs
<1>2. \A j \in DOMAIN Shape : Shape[j] \in Nat \ {0} /\ R \in Nat \ {0} /\ Valid(v.ser[j], Shape[j])
  BY Geometry DEF ValidSer
<1>3. \A j \in DOMAIN Shape : \E x \in Nat : x \div R = b[j] /\ Between(x, v.ser[j], Shape[j])
  BY <1>1, <1>2, OnAxisBetween
<1> DEFINE c == [j \in DOMAIN Shape |-> CHOOSE x \in Nat : x \div R = b[j] /\ Between(x, v.ser[j], Shape[j])]
<1>4. \A j \in DOMAIN Shape : c[j] \in Nat /\ c[j] \div R = b[j] /\ Between(c[j], v.ser[j], Shape[j])
  BY <1>3
<1>4a. c \in [DOMAIN Shape -> Nat]
  BY <1>4
<1> HIDE DEF c
<1>5. \A j \in DOMAIN Shape : c[j] < Shape[j]
  BY <1>2, <1>4, BetweenOnAxis
<1>6. c \in DOMAIN place
  BY <1>4, <1>4a, <1>5, CellType
<1>7. BlockOf(c) = b
  BY <1>1, <1>4, <1>6, CellType
<1>8. DOMAIN v.ser = DOMAIN Shape
  BY DEF ValidSer
<1>9. positions = [j \in DOMAIN Shape |-> Axis(all(j), Shape[j])]
  <2>1. DOMAIN [j \in DOMAIN v.ser |-> all(j)] = DOMAIN Shape
    BY <1>8
  <2> QED
    BY <1>8, <2>1, PositionsIs
<1>10. \A j \in DOMAIN Shape : c[j] \in ToSet(positions[j])
  BY <1>2, <1>4, <1>9, AllBetween
<1>11. place[c] \in Spanned(v)
  BY <1>6, <1>8, <1>10 DEF Spanned, Elements
<1>12. b \in DOMAIN g.blocks
  BY CoordsType
<1> QED
  BY <1>6, <1>7, <1>11, <1>12, BlockCells

-----------------------------------------------------------------------------
(* Types: the views, what is queued and what is stored. *)

IsSequence(s) == \E S : s \in Seq(S)

\* A view, and the elements and the blocks of its index expression.
ViewFields == {"proc", "sid", "ser", "loaded", "full", "axes", "nblocks", "persistance_needed", "part"}
ViewOK(v) ==
  /\ DOMAIN v = ViewFields
  /\ v.proc \in Procs
  /\ ValidSer(v.ser) /\ v.axes = Positions(v.ser)
  /\ v.loaded \subseteq DOMAIN g.blocks
  /\ v.nblocks = _calculate_nblocks(v.ser)

\* A partition of the block b, with a value for each of its elements.
PartOf(q, b) == q.key = g.blocks[b].key /\ DOMAIN q.data = DOMAIN g.blocks[b].offsets
PartOK(q) == \E b \in DOMAIN g.blocks : PartOf(q, b)

QueueOK(s) == IsSequence(s) /\ \A i \in 1..Len(s) : s[i] # {} /\ \A q \in s[i] : PartOK(q)

Ranked == Len(Shape) \in {Len(m.dims) : m \in Arrays}

TypeInv ==
  /\ ArrayCut /\ Ranked
  /\ DOMAIN truth = Cells /\ DOMAIN owner = Cells
  /\ DOMAIN mem = Procs /\ \A p \in Procs : DOMAIN mem[p] = Cells
  /\ DOMAIN pending = Procs /\ \A p \in Procs : QueueOK(pending[p])
  /\ \A q \in table : PartOK(q)
  /\ IsSequence(views) /\ \A i \in 1..Len(views) : ViewOK(views[i])
  /\ \A s \in DOMAIN istorage : ValidSer(istorage[s])

\* The array does not change, and neither does what is said of it.
LEMMA Frozen ==
  ASSUME array' = array
  PROVE  /\ ArrayCut' <=> ArrayCut
         /\ Ranked' <=> Ranked
         /\ Cells' = Cells
         /\ \A q : PartOK(q)' <=> PartOK(q)
         /\ \A s : QueueOK(s)' <=> QueueOK(s)
         /\ \A ser : ValidSer(ser)' <=> ValidSer(ser)
         /\ \A v : ViewOK(v)' <=> ViewOK(v)
<1>1. Shape' = Shape /\ g' = g /\ place' = place
  BY DEF Shape, g, place
<1>2. ArrayCut' <=> ArrayCut
  BY <1>1 DEF ArrayCut, BlockOf
<1>3. Ranked' <=> Ranked
  BY <1>1 DEF Ranked
<1>4. Cells' = Cells
  BY <1>1 DEF Cells
<1>5. \A q : PartOK(q)' <=> PartOK(q)
  BY <1>1 DEF PartOK, PartOf
<1>5a. \A s : QueueOK(s)' <=> QueueOK(s)
  BY <1>5 DEF QueueOK
<1>6. \A ser : ValidSer(ser)' <=> ValidSer(ser)
  BY <1>1 DEF ValidSer
<1>7. \A ser : Positions(ser)' = Positions(ser)
  BY <1>1 DEF Positions
<1>8. \A ser : calculate_block_coords(ser)' = calculate_block_coords(ser)
  BY <1>1 DEF calculate_block_coords, calculate_list_of_ranges_of_block_coords
<1>9. \A ser : _calculate_nblocks(ser)' = _calculate_nblocks(ser)
  BY <1>8 DEF _calculate_nblocks
<1>10. \A v : ViewOK(v)' <=> ViewOK(v)
  BY <1>1, <1>6, <1>7, <1>9 DEF ViewOK
<1> QED
  BY <1>2, <1>3, <1>4, <1>5, <1>5a, <1>6, <1>10

\* What has to be shown of a step that leaves the array alone.
LEMMA TypeNext ==
  ASSUME TypeInv, array' = array,
         DOMAIN truth' = Cells, DOMAIN owner' = Cells,
         DOMAIN mem' = Procs, \A p \in Procs : DOMAIN mem'[p] = Cells,
         DOMAIN pending' = Procs, \A p \in Procs : QueueOK(pending'[p]),
         \A q \in table' : PartOK(q),
         IsSequence(views'), \A i \in 1..Len(views') : ViewOK(views'[i]),
         \A s \in DOMAIN istorage' : ValidSer(istorage'[s])
  PROVE  TypeInv'
<1>1. /\ ArrayCut' <=> ArrayCut
      /\ Ranked' <=> Ranked
      /\ Cells' = Cells
      /\ \A q : PartOK(q)' <=> PartOK(q)
      /\ \A s : QueueOK(s)' <=> QueueOK(s)
      /\ \A ser : ValidSer(ser)' <=> ValidSer(ser)
      /\ \A v : ViewOK(v)' <=> ViewOK(v)
  BY Frozen
<1>2. ArrayCut /\ Ranked
  BY DEF TypeInv
<1>3. \A p \in Procs : QueueOK(pending[p])'
  <2> SUFFICES ASSUME NEW p \in Procs PROVE QueueOK(pending[p])'
    OBVIOUS
  <2>1. PICK s : s = pending'[p]
    OBVIOUS
  <2>2. QueueOK(s)'
    BY <1>1, <2>1
  <2> QED
    BY <2>1, <2>2 DEF QueueOK
<1>4. \A i \in 1..Len(views') : ViewOK(views[i])'
  <2> SUFFICES ASSUME NEW i \in 1..Len(views') PROVE ViewOK(views[i])'
    OBVIOUS
  <2>1. PICK v : v = views'[i]
    OBVIOUS
  <2>2. ViewOK(v)'
    BY <1>1, <2>1
  <2> QED
    BY <2>1, <2>2 DEF ViewOK
<1>5. \A s \in DOMAIN istorage' : ValidSer(istorage[s])'
  <2> SUFFICES ASSUME NEW s \in DOMAIN istorage' PROVE ValidSer(istorage[s])'
    OBVIOUS
  <2>1. PICK ser : ser = istorage'[s]
    OBVIOUS
  <2>2. ValidSer(ser)'
    BY <1>1, <2>1
  <2> QED
    BY <2>1, <2>2 DEF ValidSer
<1>6. \A q \in table' : PartOK(q)'
  BY <1>1
<1> QED
  BY <1>1, <1>2, <1>3, <1>4, <1>5, <1>6 DEF TypeInv

\* Facts that follow from the types.
LEMMA TypeFacts ==
  ASSUME TypeInv
  PROVE  /\ ArrayCut /\ Offsets = Cells
         /\ IsSequence(views) /\ Len(views) \in Nat /\ DOMAIN views = 1..Len(views)
         /\ \A i \in DOMAIN views : ViewOK(views[i])
         /\ \A new \in Indexes(Len(Shape)) : new \in Seq(IndexPart)
<1>1. PICK S : views \in Seq(S)
  BY DEF TypeInv, IsSequence
<1>2. Len(views) \in Nat /\ DOMAIN views = 1..Len(views)
  BY <1>1
<1>3. \A new \in Indexes(Len(Shape)) : new \in Seq(IndexPart)
  <2>1. PICK m \in Arrays : Len(Shape) = Len(m.dims)
    BY DEF TypeInv, Ranked
  <2> QED
    BY <2>1, NumpyAssumption
<1> QED
  BY <1>2, <1>3 DEF TypeInv, Offsets

\* The index expressions of a program stay inside the view.
LEMMA SupportedFits ==
  ASSUME ArrayCut, NEW v, ViewOK(v), NEW new \in Seq(IndexPart), Supported(v.ser, v.axes, new)
  PROVE  Fits(v.ser, new)
BY DEF Fits, Supported, ViewOK, ValidSer

\* What numpy selects, and the view that is composed.
LEMMA SubOK ==
  ASSUME ArrayCut, NEW v, ViewOK(v), NEW new, Fits(v.ser, new), NEW w, w = Sub(v, new)
  PROVE  /\ DOMAIN w = ViewFields
         /\ w.ser = _view_composer_new(v.ser, new) /\ ValidSer(w.ser)
         /\ w.axes = Positions(w.ser)
         /\ calculate_block_coords(w.ser) \subseteq calculate_block_coords(v.ser)
         /\ w.proc = v.proc /\ w.sid = v.sid /\ w.loaded = v.loaded /\ w.full = v.full /\ w.part = v.part
<1>1. /\ DOMAIN w = ViewFields
      /\ w.ser = _view_composer_new(v.ser, new)
      /\ w.axes = [j \in DOMAIN v.axes |->
                    IF Indexed(v.ser, new, j) THEN Selected(v.axes[j], new[Rank(v.ser, j)]) ELSE v.axes[j]]
      /\ w.proc = v.proc /\ w.sid = v.sid /\ w.loaded = v.loaded /\ w.full = v.full /\ w.part = v.part
  BY DEF Sub, ViewOK, ViewFields
<1>2. /\ ValidSer(w.ser) /\ calculate_block_coords(w.ser) \subseteq calculate_block_coords(v.ser)
      /\ Positions(w.ser) = [j \in DOMAIN Shape |->
              IF Indexed(v.ser, new, j) THEN Selected(Positions(v.ser)[j], new[Rank(v.ser, j)]) ELSE Positions(v.ser)[j]]
  BY <1>1, ComposeOK DEF ViewOK
<1>3. DOMAIN v.axes = DOMAIN Shape /\ v.axes = Positions(v.ser)
  BY PositionsIs DEF ViewOK, ValidSer
<1> QED
  BY <1>1, <1>2, <1>3

\* A view of a view: the view itself if it has the same shape.
LEMMA FinalizeOK ==
  ASSUME ArrayCut, NEW v, ViewOK(v), NEW new, Fits(v.ser, new), NEW w, w = __array_finalize__(v, new)
  PROVE  /\ ViewOK(w) /\ w.proc = v.proc /\ w.loaded = v.loaded /\ w.full = v.full /\ w.part = v.part
         /\ w = v \/ (w.sid = FreshId /\ w.ser = Sub(v, new).ser)
         /\ Own(w) = Own(Sub(v, new))
         /\ calculate_block_coords(w.ser) = calculate_block_coords(_view_composer_new(v.ser, new))
<1>1. PICK s : s = Sub(v, new)
  OBVIOUS
<1>2. /\ DOMAIN s = ViewFields
      /\ s.ser = _view_composer_new(v.ser, new) /\ ValidSer(s.ser)
      /\ s.axes = Positions(s.ser)
      /\ calculate_block_coords(s.ser) \subseteq calculate_block_coords(v.ser)
      /\ s.proc = v.proc /\ s.sid = v.sid /\ s.loaded = v.loaded /\ s.full = v.full /\ s.part = v.part
  BY <1>1, SubOK
<1>3. w = IF Dims(v) = Dims(s) THEN v ELSE _create_lazy_persistent_view(s)
  BY <1>1 DEF __array_finalize__
<1>4. CASE Dims(v) = Dims(s)
  <2>1. w = v
    BY <1>3, <1>4
  <2>2. SliceAxes(s.ser) = SliceAxes(v.ser) /\ \A j \in SliceAxes(v.ser) : Len(s.axes[j]) = Len(v.axes[j])
    <3>1. PICK d : d = Dims(v) /\ d = Dims(s)
      BY <1>4
    <3>2. d = [j \in SliceAxes(v.ser) |-> Len(v.axes[j])]
      BY <3>1 DEF Dims
    <3>3. d = [j \in SliceAxes(s.ser) |-> Len(s.axes[j])]
      BY <3>1 DEF Dims
    <3>4. SliceAxes(s.ser) = DOMAIN d /\ SliceAxes(v.ser) = DOMAIN d
      BY <3>2, <3>3
    <3>5. \A j \in DOMAIN d : d[j] = Len(v.axes[j]) /\ d[j] = Len(s.axes[j])
      BY <3>2, <3>3
    <3> QED
      BY <3>4, <3>5
  <2>3. v.axes = Positions(v.ser) /\ ValidSer(v.ser)
    BY DEF ViewOK
  <2>4. Positions(s.ser) = Positions(v.ser) /\ calculate_block_coords(s.ser) = calculate_block_coords(v.ser)
    BY <1>2, <2>2, <2>3, SameShape
  <2>5. Own(w) = Own(s)
    BY <1>2, <2>1, <2>3, <2>4 DEF Own
  <2> QED
    BY <1>1, <1>2, <2>1, <2>4, <2>5
<1>5. CASE Dims(v) # Dims(s)
  <2>1. w = [s EXCEPT !.sid = FreshId, !.nblocks = _calculate_nblocks(s.ser), !.persistance_needed = TRUE]
    BY <1>3, <1>5 DEF _create_lazy_persistent_view
  <2>2. /\ DOMAIN w = ViewFields /\ w.sid = FreshId /\ w.nblocks = _calculate_nblocks(s.ser) /\ w.ser = s.ser
        /\ w.axes = s.axes /\ w.proc = s.proc /\ w.loaded = s.loaded /\ w.full = s.full /\ w.part = s.part
    BY <1>2, <2>1 DEF ViewFields
  <2>3. ViewOK(w)
    BY <1>2, <2>2 DEF ViewOK
  <2>4. Own(w) = Own(s)
    BY <2>2 DEF Own
  <2> QED
    BY <1>1, <1>2, <2>2, <2>3, <2>4
<1> QED
  BY <1>4, <1>5

\* Loading blocks changes only what is loaded.
LoadedView(v, blocks, w) ==
  /\ ViewOK(w) /\ w.proc = v.proc /\ w.ser = v.ser /\ w.axes = v.axes /\ w.sid = v.sid /\ w.part = v.part
  /\ v.full => w = v
  /\ ~ v.full => /\ w.loaded = v.loaded \cup blocks
                 /\ w.full => v.loaded \cup blocks # v.loaded /\ Cardinality(v.loaded \cup blocks) = v.nblocks

\* _select_and_load_blocks changes what is loaded, and nothing else.
LEMMA LoadBlocksOK ==
  ASSUME ArrayCut, NEW v, ViewOK(v), NEW blocks, blocks \subseteq DOMAIN g.blocks
  PROVE  LoadedView(v, blocks, _select_and_load_blocks(v, blocks))
<1> DEFINE w == _select_and_load_blocks(v, blocks)
<1> SUFFICES LoadedView(v, blocks, w)
  OBVIOUS
<1>1. CASE v.full
  BY <1>1 DEF _select_and_load_blocks, LoadedView
<1>2. CASE ~ v.full
  <2>1. w = IF v.loaded \cup blocks = v.loaded THEN v
            ELSE [v EXCEPT !.loaded = v.loaded \cup blocks, !.full = (Cardinality(v.loaded \cup blocks) = v.nblocks)]
    BY <1>2 DEF _select_and_load_blocks, _load_blocks
  <2> HIDE DEF w
  <2>2. CASE v.loaded \cup blocks = v.loaded
    BY <1>2, <2>1, <2>2 DEF LoadedView
  <2>3. CASE v.loaded \cup blocks # v.loaded
    <3>1. w = [v EXCEPT !.loaded = v.loaded \cup blocks, !.full = (Cardinality(v.loaded \cup blocks) = v.nblocks)]
      BY <2>1, <2>3
    <3>2. DOMAIN v = ViewFields
      BY DEF ViewOK
    <3>3. /\ DOMAIN w = ViewFields /\ w.loaded = v.loaded \cup blocks
          /\ w.full = (Cardinality(v.loaded \cup blocks) = v.nblocks)
          /\ w.proc = v.proc /\ w.ser = v.ser /\ w.axes = v.axes /\ w.sid = v.sid /\ w.part = v.part /\ w.nblocks = v.nblocks
      BY <3>1, <3>2 DEF ViewFields
    <3>4. ViewOK(w)
      BY <3>3 DEF ViewOK
    <3> QED
      BY <1>2, <2>3, <3>3, <3>4 DEF LoadedView
  <2> QED
    BY <2>2, <2>3
<1> QED
  BY <1>1, <1>2

-----------------------------------------------------------------------------
(* Sequences of views and of calls. *)

\* The domain of a sequence.
LEMMA SequenceDomain ==
  ASSUME NEW s, IsSequence(s)
  PROVE  Len(s) \in Nat /\ DOMAIN s = 1..Len(s)
<1>1. PICK S : s \in Seq(S)
  BY DEF IsSequence
<1> QED
  BY <1>1

\* A sequence of elements of a larger set.
LEMMA Widened ==
  ASSUME NEW s, IsSequence(s), NEW e
  PROVE  \E S : s \in Seq(S) /\ e \in S
<1>1. PICK S : s \in Seq(S)
  BY DEF IsSequence
<1>2. s \in [1..Len(s) -> S \cup {e}] /\ Len(s) \in Nat
  BY <1>1
<1>3. s \in Seq(S \cup {e}) /\ e \in S \cup {e}
  BY <1>2, IsASeq
<1> QED
  BY <1>3

\* Append.
LEMMA AppendSequence ==
  ASSUME NEW s, IsSequence(s), NEW e
  PROVE  /\ IsSequence(Append(s, e)) /\ Len(Append(s, e)) = Len(s) + 1
         /\ \A i \in 1..Len(s) : Append(s, e)[i] = s[i]
         /\ Append(s, e)[Len(s) + 1] = e
<1>1. PICK S : s \in Seq(S) /\ e \in S
  BY Widened
<1>2. Append(s, e) \in Seq(S)
  BY <1>1, AppendProperties
<1>3. /\ Len(Append(s, e)) = Len(s) + 1
      /\ \A i \in 1..Len(s) : Append(s, e)[i] = s[i]
      /\ Append(s, e)[Len(s) + 1] = e
  BY <1>1, AppendProperties
<1> QED
  BY <1>2, <1>3 DEF IsSequence

\* A function with the domain of a sequence is a sequence.
LEMMA MapSequence ==
  ASSUME NEW s, IsSequence(s), NEW S, NEW t \in [DOMAIN s -> S]
  PROVE  IsSequence(t) /\ Len(t) = Len(s) /\ DOMAIN t = 1..Len(s)
<1>1. PICK n \in Nat : n = Len(s) /\ DOMAIN s = 1..n
  BY SequenceDomain
<1>2. t \in [1..n -> S]
  BY <1>1
<1>3. t \in Seq(S) /\ Len(t) = n
  BY <1>1, <1>2, IsASeq
<1> QED
  BY <1>1, <1>2, <1>3 DEF IsSequence

\* Head and Tail of a sequence that is not empty.
LEMMA TailSequence ==
  ASSUME NEW s, IsSequence(s), s # <<>>
  PROVE  /\ IsSequence(Tail(s)) /\ Len(Tail(s)) = Len(s) - 1 /\ Len(s) >= 1
         /\ \A i \in 1..(Len(s) - 1) : Tail(s)[i] = s[i + 1]
         /\ Head(s) = s[1]
<1>1. PICK S : s \in Seq(S)
  BY DEF IsSequence
<1>2. Tail(s) \in Seq(S) /\ Len(Tail(s)) = Len(s) - 1 /\ \A i \in 1..(Len(s) - 1) : Tail(s)[i] = s[i + 1]
  BY <1>1, HeadTailProperties
<1>3. Head(s) = s[1] /\ Len(s) >= 1
  BY <1>1
<1> QED
  BY <1>2, <1>3 DEF IsSequence

\* RemoveAt leaves elements of the sequence.
LEMMA RemoveSequence ==
  ASSUME NEW s, IsSequence(s), NEW i \in 1..Len(s)
  PROVE  /\ IsSequence(RemoveAt(s, i))
         /\ \A k \in 1..Len(RemoveAt(s, i)) : \E n \in 1..Len(s) : RemoveAt(s, i)[k] = s[n]
<1>1. PICK S : s \in Seq(S)
  BY DEF IsSequence
<1>2. PICK l \in Nat : l = Len(s)
  BY <1>1
<1> DEFINE a == SubSeq(s, 1, i - 1)
           b == SubSeq(s, i + 1, l)
<1>3. /\ a \in Seq(S) /\ Len(a) = (IF 1 <= i - 1 THEN i - 1 - 1 + 1 ELSE 0)
      /\ \A k \in 1..(i - 1 - 1 + 1) : a[k] = s[1 + k - 1]
  <2>1. 1 \in Int /\ i - 1 \in Int /\ \A k \in 1..(i - 1) : s[k] \in S
    BY <1>1, <1>2
  <2> QED
    BY <2>1, SubSeqProperties
<1>4. /\ b \in Seq(S) /\ Len(b) = (IF i + 1 <= l THEN l - (i + 1) + 1 ELSE 0)
      /\ \A k \in 1..(l - (i + 1) + 1) : b[k] = s[i + 1 + k - 1]
  <2>1. i + 1 \in Int /\ l \in Int /\ \A k \in (i + 1)..l : s[k] \in S
    BY <1>1, <1>2
  <2> QED
    BY <2>1, SubSeqProperties
<1> HIDE DEF a, b
<1>5. Len(a) = i - 1 /\ Len(b) = l - i
  BY <1>2, <1>3, <1>4
<1>6. /\ a \o b \in Seq(S) /\ Len(a \o b) = Len(a) + Len(b)
      /\ \A k \in 1..(Len(a) + Len(b)) : (a \o b)[k] = IF k <= Len(a) THEN a[k] ELSE b[k - Len(a)]
  BY <1>3, <1>4, ConcatProperties
<1>7. ASSUME NEW k \in 1..Len(a \o b)
      PROVE  \E n \in 1..l : (a \o b)[k] = s[n]
  <2>1. k \in Nat /\ 1 <= k /\ k <= l - 1
    BY <1>2, <1>5, <1>6, <1>7
  <2>2. CASE k <= i - 1
    <3>1. (a \o b)[k] = a[k] /\ a[k] = s[1 + k - 1] /\ 1 + k - 1 = k
      BY <1>2, <1>3, <1>5, <1>6, <2>1, <2>2
    <3> QED
      BY <1>2, <2>1, <3>1
  <2>3. CASE ~ (k <= i - 1)
    <3>1. (a \o b)[k] = b[k - (i - 1)] /\ k - (i - 1) \in 1..(l - (i + 1) + 1)
      BY <1>2, <1>5, <1>6, <2>1, <2>3
    <3>2. b[k - (i - 1)] = s[i + 1 + (k - (i - 1)) - 1]
      BY <1>4, <3>1
    <3>3. i + 1 + (k - (i - 1)) - 1 = k + 1 /\ k + 1 \in 1..l
      BY <1>2, <2>1
    <3> QED
      BY <3>1, <3>2, <3>3
  <2> QED
    BY <2>2, <2>3
<1>8. RemoveAt(s, i) = a \o b
  BY <1>2 DEF RemoveAt, a, b
<1> QED
  BY <1>2, <1>6, <1>7, <1>8 DEF IsSequence

\* SetToSeq lists elements of the set.
LEMMA SetToSeqOK ==
  ASSUME NEW S, IsFiniteSet(S)
  PROVE  Cardinality(S) \in Nat /\ SetToSeq(S) \in [1..Cardinality(S) -> S]
<1>1. Cardinality(S) \in Nat /\ ExistsBijection(1..Cardinality(S), S)
  BY FS_CardinalityType
<1>2. \E f \in [1..Cardinality(S) -> S] : IsInjective(f)
  BY <1>1 DEF ExistsBijection, Bijection, Injection
<1>3. SetToSeq(S) \in [1..Cardinality(S) -> S]
  BY <1>2, Zenon DEF SetToSeq
<1> QED
  BY <1>1, <1>3

\* Some of the entries of a sequence.
LEMMA FilterSequence ==
  ASSUME NEW s, IsSequence(s), NEW T, T \subseteq DOMAIN s
  PROVE  [k \in DOMAIN SetToSeq(T) |-> s[SetToSeq(T)[k]]] \in Seq({s[n] : n \in T})
<1> DEFINE kept == SetToSeq(T)
           f == [k \in DOMAIN kept |-> s[kept[k]]]
<1>1. Len(s) \in Nat /\ DOMAIN s = 1..Len(s)
  BY SequenceDomain
<1>2. IsFiniteSet(T)
  <2>1. IsFiniteSet(1..Len(s))
    BY <1>1, FS_Interval
  <2> QED
    BY <1>1, <2>1, FS_Subset
<1>3. PICK c \in Nat : c = Cardinality(T) /\ kept \in [1..c -> T]
  BY <1>2, SetToSeqOK
<1> HIDE DEF kept
<1>4. f \in [1..c -> {s[n] : n \in T}]
  BY <1>3
<1> HIDE DEF f
<1>5. f \in Seq({s[n] : n \in T})
  BY <1>4, IsASeq
<1> QED
  BY <1>5 DEF f, kept

-----------------------------------------------------------------------------
(* The whole array, its parts, and the blocks that are queued. *)

WholeSer == [j \in DOMAIN Shape |-> All]

\* All selects the whole axis.
LEMMA WholeAxis ==
  ASSUME NEW n \in Nat \ {0}
  PROVE  ValidSlice(All, n) /\ All.start = 0 /\ Stop(All, n) = n /\ Step(All) = 1 /\ Len(Axis(All, n)) = n
<1>1. ValidSlice(All, n) /\ All.start = 0 /\ Stop(All, n) = n /\ Step(All) = 1
  BY DEF All, slice, ValidSlice, Stop, Step
<1>2. Size(All, n) \in Nat /\ IsCeil(n - 0, 1, Size(All, n)) /\ Len(Axis(All, n)) = Size(All, n)
  BY <1>1, SliceSize, AxisLen
<1>3. Size(All, n) = n
  BY <1>2 DEF IsCeil
<1> QED
  BY <1>1, <1>2, <1>3

\* The whole array is a valid view.
LEMMA WholeValid ==
  ASSUME ArrayCut
  PROVE  ValidSer(WholeSer) /\ DOMAIN g.blocks # {}
<1>1. ValidSer(WholeSer)
  BY Geometry, WholeAxis DEF ValidSer, Valid, WholeSer
<1> QED
  BY <1>1, CoordsType

\* The slice of a row of blocks is inside the axis.
LEMMA BlockSliceInside ==
  ASSUME ArrayCut, NEW j \in DOMAIN Shape, NEW b \in Nat, b < g.blocks_dim[j]
  PROVE  BlockSlice(b) \in IndexPart /\ Inside(All, Axis(All, Shape[j]), BlockSlice(b))
<1> DEFINE n == Shape[j]
           axis == Axis(All, n)
           x == BlockSlice(b)
<1>1. /\ n \in Nat \ {0} /\ R \in Nat \ {0} /\ g.blocks_dim[j] \in Nat
      /\ (g.blocks_dim[j] - 1) * R < n
  BY Geometry
<1>2. Len(axis) = n
  BY <1>1, WholeAxis
<1> HIDE DEF n, axis
<1>3. PICK lo \in Nat, hi \in Nat : lo = b * R /\ hi = (b + 1) * R
  BY <1>1, SMT
<1>4. x = [kind |-> "slice", start |-> lo, stop |-> hi, step |-> 0]
  BY <1>3 DEF BlockSlice, slice, R
<1>5. lo < n /\ lo < hi
  <2>1. b * R <= (g.blocks_dim[j] - 1) * R /\ (g.blocks_dim[j] - 1) * R \in Int
    BY <1>1, MulLe, SMT
  <2>2. (b + 1) * R = b * R + R
    BY <1>1, SMT
  <2> QED
    BY <1>1, <1>3, <2>1, <2>2
<1> HIDE DEF x
<1>6. PICK top \in Nat : top = (IF hi = 0 \/ hi > n THEN n ELSE hi) /\ top > lo
  BY <1>1, <1>5
<1>7. Selected(axis, x) # << >>
  <2> DEFINE k == (top - lo + 1 - 1) \div 1
  <2>1. Selected(axis, x) = [i \in 1..(IF k > 0 THEN k ELSE 0) |-> axis[lo + (i - 1) * 1 + 1]]
    BY <1>2, <1>4, <1>6 DEF Selected
  <2>2. k = top - lo
    BY <1>6
  <2> HIDE DEF k
  <2>3. k > 0 /\ k \in Int
    BY <1>6, <2>2
  <2>4. 1 \in DOMAIN Selected(axis, x)
    BY <2>1, <2>3
  <2> QED
    BY <2>4
<1>8. Inside(All, axis, x)
  BY <1>4, <1>7 DEF Inside
<1>9. x \in IndexPart
  BY <1>4 DEF IndexPart
<1> QED
  BY <1>8, <1>9 DEF x, axis, n

\* All stays inside an axis.
LEMMA WholeInside ==
  ASSUME ArrayCut, NEW j \in DOMAIN Shape
  PROVE  All \in IndexPart /\ Inside(All, Axis(All, Shape[j]), All)
<1> DEFINE n == Shape[j]
           axis == Axis(All, n)
<1>1. n \in Nat \ {0}
  BY Geometry
<1>2. Len(axis) = n
  BY <1>1, WholeAxis
<1> HIDE DEF n, axis
<1>3. All = [kind |-> "slice", start |-> 0, stop |-> 0, step |-> 0]
  BY DEF All, slice
<1>4. Selected(axis, All) # << >>
  <2> DEFINE k == (n - 0 + 1 - 1) \div 1
  <2>1. Selected(axis, All) = [i \in 1..(IF k > 0 THEN k ELSE 0) |-> axis[0 + (i - 1) * 1 + 1]]
    BY <1>2, <1>3 DEF Selected
  <2>2. k = n
    BY <1>1
  <2> HIDE DEF k
  <2>3. 1 \in DOMAIN Selected(axis, All)
    BY <1>1, <2>1, <2>2
  <2> QED
    BY <2>3
<1>5. Inside(All, axis, All) /\ All \in IndexPart
  BY <1>3, <1>4 DEF Inside, IndexPart
<1> QED
  BY <1>5 DEF axis, n

\* In the whole array, index expressions and axes are in step.
LEMMA WholeRank ==
  ASSUME ArrayCut, NEW j \in DOMAIN Shape
  PROVE  Rank(WholeSer, j) = j
<1>1. DOMAIN Shape = 1..Len(Shape) /\ Len(Shape) \in Nat
  BY Geometry
<1>2. SliceAxes(WholeSer) = 1..Len(Shape)
  BY <1>1 DEF SliceAxes, WholeSer, All, slice
<1>3. {k \in SliceAxes(WholeSer) : k <= j} = 1..j
  BY <1>1, <1>2
<1>4. Cardinality(1..j) = j
  BY <1>1, FS_Interval
<1> QED
  BY <1>3, <1>4 DEF Rank

\* A part of split: on each axis a row of blocks, or all of it.
IsPart(x, j) == x = All \/ \E b \in Nat : b < g.blocks_dim[j] /\ x = BlockSlice(b)

\* Each part of split() has a block, or all, of each axis.
LEMMA PartsAre ==
  ASSUME ArrayCut, NEW part \in Parts(WholeSer)
  PROVE  part \in Seq(IndexPart) /\ Len(part) = Len(Shape) /\ \A j \in DOMAIN Shape : IsPart(part[j], j)
<1>1. DOMAIN Shape = 1..Len(Shape) /\ Len(Shape) \in Nat /\ DOMAIN g.blocks_dim = DOMAIN Shape
      /\ \A j \in DOMAIN Shape : g.blocks_dim[j] \in Nat
  BY Geometry
<1>2. \A j \in DOMAIN Shape : \A x : IsPart(x, j) => x \in IndexPart
  BY BlockSliceInside, WholeInside DEF IsPart
<1>3. ASSUME NEW n \in Nat, n = Len(Shape), DOMAIN part = 1..n, part = [j \in 1..n |-> part[j]], \A j \in 1..n : IsPart(part[j], j)
      PROVE  part \in Seq(IndexPart) /\ Len(part) = Len(Shape) /\ \A j \in DOMAIN Shape : IsPart(part[j], j)
  <2>1. \A j \in 1..n : part[j] \in IndexPart
    BY <1>1, <1>2, <1>3
  <2>2. part \in [1..n -> IndexPart]
    BY <1>3, <2>1
  <2> QED
    BY <1>1, <1>3, <2>2, IsASeq
<1>4. CASE part \in _split_by_blocks
  <2>1. PICK b \in DOMAIN g.blocks : part = [j \in DOMAIN b |-> BlockSlice(b[j])]
    BY <1>4 DEF _split_by_blocks, get_block_ids
  <2>2. b \in [DOMAIN Shape -> Nat] /\ \A j \in DOMAIN Shape : b[j] < g.blocks_dim[j]
    BY <1>1, BoxIs DEF ArrayCut
  <2>3. part = [j \in 1..Len(Shape) |-> BlockSlice(b[j])]
    BY <1>1, <2>1, <2>2
  <2>4. \A j \in 1..Len(Shape) : IsPart(part[j], j)
    BY <1>1, <2>2, <2>3 DEF IsPart
  <2> QED
    BY <1>1, <1>3, <2>3, <2>4
<1>5. CASE Len(WholeSer) = 2 /\ part \in _split_by_cols
  <2>1. Len(Shape) = 2
    BY <1>1, <1>5 DEF WholeSer
  <2>2. PICK c \in 0 .. g.blocks_dim[2] - 1 : part = <<All, BlockSlice(c)>>
    BY <1>5 DEF _split_by_cols
  <2>3. c \in Nat /\ c < g.blocks_dim[2]
    BY <1>1, <2>1
  <2>4. DOMAIN part = 1..2 /\ part[1] = All /\ part[2] = BlockSlice(c) /\ part = [j \in 1..2 |-> part[j]]
    BY <2>2
  <2>5. \A j \in 1..2 : IsPart(part[j], j)
    BY <2>3, <2>4 DEF IsPart
  <2> QED
    BY <1>3, <2>1, <2>4, <2>5
<1>6. CASE Len(WholeSer) = 2 /\ part \in _split_by_rows
  <2>1. Len(Shape) = 2
    BY <1>1, <1>6 DEF WholeSer
  <2>2. PICK c \in 0 .. g.blocks_dim[1] - 1 : part = <<BlockSlice(c), All>>
    BY <1>6 DEF _split_by_rows
  <2>3. c \in Nat /\ c < g.blocks_dim[1]
    BY <1>1, <2>1
  <2>4. DOMAIN part = 1..2 /\ part[2] = All /\ part[1] = BlockSlice(c) /\ part = [j \in 1..2 |-> part[j]]
    BY <2>2
  <2>5. \A j \in 1..2 : IsPart(part[j], j)
    BY <2>3, <2>4 DEF IsPart
  <2> QED
    BY <1>3, <2>1, <2>4, <2>5
<1> QED
  BY <1>4, <1>5, <1>6 DEF Parts

\* The parts of split() stay inside the array.
LEMMA PartsFit ==
  ASSUME ArrayCut, NEW part \in Parts(WholeSer)
  PROVE  Fits(WholeSer, part)
<1>1. part \in Seq(IndexPart) /\ \A j \in DOMAIN Shape : IsPart(part[j], j)
  BY PartsAre
<1>2. ASSUME NEW j \in DOMAIN Shape
      PROVE  Inside(WholeSer[j], Positions(WholeSer)[j], part[Rank(WholeSer, j)])
  <2>1. WholeSer[j] = All /\ Rank(WholeSer, j) = j
    BY WholeRank DEF WholeSer
  <2>2. Positions(WholeSer)[j] = Axis(All, Shape[j])
    BY <2>1, PositionsIs DEF WholeSer
  <2>3. Inside(All, Axis(All, Shape[j]), part[j])
    BY <1>1, BlockSliceInside, WholeInside DEF IsPart
  <2> QED
    BY <2>1, <2>2, <2>3
<1> QED
  BY <1>1, <1>2 DEF Fits

\* What a call of store_numpy queues.
Stored(coords, memory) ==
  {getNextPartition(g, b, memory) : b \in IF coords = {} THEN DOMAIN g.blocks ELSE coords}

\* What a call of store_numpy queues: parts of blocks, at least one.
LEMMA StoredParts ==
  ASSUME ArrayCut, NEW coords \in SUBSET DOMAIN g.blocks, NEW memory
  PROVE  /\ \A queue : store_numpy(queue, coords, memory) = Append(queue, Stored(coords, memory))
         /\ Stored(coords, memory) # {}
         /\ \A b \in DOMAIN g.blocks : PartOf(getNextPartition(g, b, memory), b)
         /\ \A q \in Stored(coords, memory) : PartOK(q)
<1>1. \A queue : store_numpy(queue, coords, memory) = Append(queue, Stored(coords, memory))
  BY DEF store_numpy, store_numpy_into_cas, store_numpy_into_cas_by_coords, store_numpy_partition_into_cas,
         None, get_block_ids, Stored
<1>2. Stored(coords, memory) # {}
  BY WholeValid DEF Stored
<1>3. \A b \in DOMAIN g.blocks : PartOf(getNextPartition(g, b, memory), b)
  BY DEF PartOf, getNextPartition
<1>4. \A q \in Stored(coords, memory) : PartOK(q)
  BY <1>3 DEF Stored, PartOK
<1> QED
  BY <1>1, <1>2, <1>3, <1>4

\* A queue stays well-formed when parts are queued.
LEMMA StoreQueue ==
  ASSUME ArrayCut, NEW coords \in SUBSET DOMAIN g.blocks, NEW memory, NEW s, QueueOK(s)
  PROVE  QueueOK(store_numpy(s, coords, memory))
<1>1. PICK S : S = Stored(coords, memory)
  OBVIOUS
<1>2. store_numpy(s, coords, memory) = Append(s, S) /\ S # {} /\ \A q \in S : PartOK(q)
  BY <1>1, StoredParts
<1>3. /\ IsSequence(Append(s, S)) /\ Len(Append(s, S)) = Len(s) + 1 /\ Len(s) \in Nat
      /\ \A i \in 1..Len(s) : Append(s, S)[i] = s[i]
      /\ Append(s, S)[Len(s) + 1] = S
  BY AppendSequence, SequenceDomain DEF QueueOK
<1>4. \A i \in 1..Len(Append(s, S)) : i \in 1..Len(s) \/ i = Len(s) + 1
  BY <1>3
<1> QED
  BY <1>2, <1>3, <1>4 DEF QueueOK

\* The queue without a block of its first call.
Without(s, q) == IF Head(s) = {q} THEN Tail(s) ELSE [s EXCEPT ![1] = Head(s) \ {q}]

\* A queue stays well-formed when a part of it is stored.
LEMMA WithoutQueue ==
  ASSUME NEW s, QueueOK(s), s # <<>>, NEW q \in Head(s)
  PROVE  QueueOK(Without(s, q))
<1>1. /\ IsSequence(Tail(s)) /\ Len(Tail(s)) = Len(s) - 1 /\ Len(s) >= 1 /\ Len(s) \in Nat
      /\ \A i \in 1..(Len(s) - 1) : Tail(s)[i] = s[i + 1]
      /\ Head(s) = s[1]
  BY TailSequence, SequenceDomain DEF QueueOK
<1>2. CASE Head(s) = {q}
  <2>1. \A i \in 1..(Len(s) - 1) : i + 1 \in 1..Len(s)
    BY <1>1
  <2> QED
    BY <1>1, <1>2, <2>1 DEF QueueOK, Without
<1>3. CASE Head(s) # {q}
  <2>1. 1 \in 1..Len(s) /\ IsSequence(s)
    BY <1>1 DEF QueueOK
  <2>2a. PICK e : e = Head(s) \ {q}
    OBVIOUS
  <2>2. PICK t : t = [s EXCEPT ![1] = e]
    OBVIOUS
  <2>3. IsSequence(t) /\ Len(t) = Len(s) /\ \A k \in 1..Len(s) : t[k] = IF k = 1 THEN e ELSE s[k]
    <3>1. PICK S : s \in Seq(S) /\ e \in S
      BY <2>1, Widened
    <3>2. t \in [DOMAIN s -> S] /\ \A k \in 1..Len(s) : t[k] = IF k = 1 THEN e ELSE s[k]
      BY <2>1, <2>2, <3>1
    <3> QED
      BY <2>1, <3>2, MapSequence
  <2>4. e # {} /\ e \subseteq Head(s)
    BY <1>3, <2>2a
  <2>5. \A i \in 1..Len(t) : t[i] # {} /\ \A x \in t[i] : PartOK(x)
    BY <1>1, <2>1, <2>3, <2>4 DEF QueueOK
  <2> QED
    BY <1>3, <2>2a, <2>2, <2>3, <2>5 DEF QueueOK, Without
<1> QED
  BY <1>2, <1>3

-----------------------------------------------------------------------------
(* What each step does, and to which views. *)

\* The views that there are.
Viewed == {views[k] : k \in DOMAIN views}

\* One entry of a sequence replaced, or added.
LEMMA PutSeq ==
  ASSUME NEW S, NEW s \in Seq(S), NEW i \in 1..Len(s), NEW e \in S
  PROVE  [s EXCEPT ![i] = e] \in Seq(S)
OBVIOUS

\* The views are a sequence of themselves.
LEMMA ViewSeq ==
  ASSUME TypeInv, NEW T
  PROVE  views \in Seq(Viewed \cup T)
<1>1. Len(views) \in Nat /\ DOMAIN views = 1..Len(views) /\ views \in Seq(Viewed)
  <2>1. PICK S : views \in Seq(S)
    BY DEF TypeInv, IsSequence
  <2>2. Len(views) \in Nat /\ DOMAIN views = 1..Len(views) /\ views = [k \in DOMAIN views |-> views[k]]
    BY <2>1
  <2>3. views \in [1..Len(views) -> Viewed]
    BY <2>2 DEF Viewed
  <2> QED
    BY <2>2, <2>3, IsASeq
<1>2. views \in [1..Len(views) -> Viewed \cup T]
  BY <1>1
<1> QED
  BY <1>1, <1>2, IsASeq

\* What a view needs for an index expression.
LEMMA Loading ==
  ASSUME TypeInv, NEW v, ViewOK(v), NEW blocks, blocks \subseteq calculate_block_coords(v.ser),
         NEW w, w = _select_and_load_blocks(v, blocks)
  PROVE  /\ blocks \subseteq DOMAIN g.blocks
         /\ ViewOK(w) /\ w.proc = v.proc /\ w.ser = v.ser /\ w.axes = v.axes /\ w.sid = v.sid /\ w.part = v.part
         /\ DOMAIN load_numpy_slices(v, blocks) = Cells
<1>1. blocks \subseteq DOMAIN g.blocks
  BY CoordsType DEF ViewOK, TypeInv
<1>2. /\ ViewOK(w) /\ w.proc = v.proc /\ w.ser = v.ser /\ w.axes = v.axes /\ w.sid = v.sid /\ w.part = v.part
  BY <1>1, LoadBlocksOK DEF TypeInv, LoadedView
<1>3. DOMAIN load_numpy_slices(v, blocks) = Cells
  BY DEF load_numpy_slices, load_numpy, merge_partitions, TypeInv, ViewOK
<1> QED
  BY <1>1, <1>2, <1>3

\* A view and the index expression of a step.
LEMMA IndexedView ==
  ASSUME TypeInv, NEW i \in DOMAIN views, NEW new \in Indexes(Len(Shape)), NEW v, v = views[i],
         Supported(v.ser, v.axes, new), NEW blocks, blocks = calculate_block_coords(_view_composer_new(v.ser, new))
  PROVE  /\ ViewOK(v) /\ Fits(v.ser, new) /\ blocks \subseteq calculate_block_coords(v.ser)
         /\ ValidSer(_view_composer_new(v.ser, new))
<1>1. ViewOK(v) /\ new \in Seq(IndexPart) /\ ArrayCut
  BY TypeFacts
<1>2. Fits(v.ser, new)
  BY <1>1, SupportedFits
<1>3. blocks \subseteq calculate_block_coords(v.ser) /\ ValidSer(_view_composer_new(v.ser, new))
  BY <1>1, <1>2, ComposeOK DEF ViewOK
<1> QED
  BY <1>1, <1>2, <1>3

\* What a read does.
ReadEffect(v, blocks, w, memory, res) ==
         /\ v \in Viewed /\ ViewOK(v) /\ blocks \subseteq calculate_block_coords(v.ser)
         /\ ViewOK(w) /\ ViewOK(res) /\ DOMAIN memory = Cells
         /\ res.proc = v.proc /\ res.full = TRUE /\ res.part = FALSE
         /\ res.sid \in {v.sid, FreshId}
         /\ calculate_block_coords(res.ser) = blocks
         /\ Holds(v.proc, Own(res))
         /\ Loads(v, blocks) => read_numpy_from_cas_by_coords(v.proc, blocks) # {}
         /\ mem' = [mem EXCEPT ![v.proc] = memory]
         /\ views' \in Seq(Viewed \cup {w, res})
         /\ got' = [o \in Own(res) |-> <<memory[o], truth[o]>>]
         /\ UNCHANGED <<array, table, istorage, pending, owner, truth, failed>>

\* __getitem__ reads.
LEMMA GetEffect ==
  ASSUME TypeInv, NEW i \in DOMAIN views, NEW new \in Indexes(Len(Shape)), __getitem__(i, new)
  PROVE  \E v, blocks, res :
           /\ v = views[i]
           /\ ReadEffect(v, blocks, _select_and_load_blocks(v, blocks), load_numpy_slices(v, blocks), res)
<1>a. PICK v : v = views[i]
  OBVIOUS
<1>b. PICK blocks : blocks = calculate_block_coords(_view_composer_new(v.ser, new))
  OBVIOUS
<1>c. PICK w : w = _select_and_load_blocks(v, blocks)
  OBVIOUS
<1>d. PICK memory : memory = load_numpy_slices(v, blocks)
  OBVIOUS
<1>e. PICK res : res = [__array_finalize__(w, new) EXCEPT !.full = TRUE, !.part = FALSE]
  OBVIOUS
<1> DEFINE r == __array_finalize__(w, new)
<1>1. /\ Supported(v.ser, v.axes, new) /\ Holds(v.proc, Own(Sub(v, new)))
      /\ Loads(v, blocks) => read_numpy_from_cas_by_coords(v.proc, blocks) # {}
      /\ mem' = [mem EXCEPT ![v.proc] = memory]
      /\ \/ views' = [views EXCEPT ![i] = w]
         \/ views' = Append([views EXCEPT ![i] = w], res)
      /\ got' = [o \in Own(r) |-> <<memory[o], truth[o]>>]
      /\ UNCHANGED <<array, table, istorage, pending, owner, truth, failed>>
  BY <1>a, <1>b, <1>c, <1>d, <1>e DEF __getitem__, cassandra, ghosts
<1>2. ViewOK(v) /\ Fits(v.ser, new) /\ blocks \subseteq calculate_block_coords(v.ser)
  BY <1>a, <1>b, <1>1, IndexedView
<1>3. /\ blocks \subseteq DOMAIN g.blocks /\ DOMAIN memory = Cells
      /\ ViewOK(w) /\ w.proc = v.proc /\ w.ser = v.ser /\ w.axes = v.axes /\ w.sid = v.sid
  BY <1>c, <1>d, <1>2, Loading
<1>4. ArrayCut /\ Fits(w.ser, new)
  BY <1>2, <1>3 DEF TypeInv
<1>5. /\ ViewOK(r) /\ r.proc = w.proc
      /\ r = w \/ (r.sid = FreshId /\ r.ser = Sub(w, new).ser)
      /\ Own(r) = Own(Sub(w, new))
      /\ calculate_block_coords(r.ser) = calculate_block_coords(_view_composer_new(w.ser, new))
  BY <1>3, <1>4, FinalizeOK
<1>6. Own(Sub(w, new)) = Own(Sub(v, new))
  <2>1. PICK x : x = Sub(v, new)
    OBVIOUS
  <2>2. PICK y : y = Sub(w, new)
    OBVIOUS
  <2>3. x.axes = y.axes
    BY <1>2, <1>3, <2>1, <2>2 DEF Sub, ViewOK, ViewFields
  <2> QED
    BY <2>1, <2>2, <2>3 DEF Own
<1> HIDE DEF r
<1>7. /\ DOMAIN res = ViewFields /\ res.proc = r.proc /\ res.full = TRUE /\ res.part = FALSE /\ res.sid = r.sid
      /\ res.ser = r.ser /\ res.axes = r.axes /\ res.loaded = r.loaded /\ res.nblocks = r.nblocks
  BY <1>e, <1>5 DEF ViewOK, ViewFields, r
<1>8. ViewOK(res)
  BY <1>5, <1>7 DEF ViewOK
<1>9. Own(res) = Own(r)
  BY <1>7 DEF Own
<1>10. views' \in Seq(Viewed \cup {w, res})
  <2>1. views \in Seq(Viewed \cup {w, res}) /\ w \in Viewed \cup {w, res} /\ i \in 1..Len(views)
    BY ViewSeq, TypeFacts
  <2>2. [views EXCEPT ![i] = w] \in Seq(Viewed \cup {w, res})
    BY <2>1, PutSeq
  <2>3. Append([views EXCEPT ![i] = w], res) \in Seq(Viewed \cup {w, res})
    BY <2>2, AppendProperties
  <2> QED
    BY <1>1, <2>2, <2>3
<1>11. v \in Viewed
  BY <1>a DEF Viewed
<1>12. res.sid \in {v.sid, FreshId} /\ res.proc = v.proc
  BY <1>3, <1>5, <1>7
<1>13. calculate_block_coords(res.ser) = blocks
  BY <1>b, <1>3, <1>5, <1>7
<1>14. Holds(v.proc, Own(res))
  BY <1>1, <1>5, <1>6, <1>9
<1>15. ReadEffect(v, blocks, w, memory, res)
  BY <1>1, <1>2, <1>3, <1>7, <1>8, <1>9, <1>10, <1>11, <1>12, <1>13, <1>14 DEF ReadEffect
<1> QED
  BY <1>a, <1>c, <1>d, <1>15

\* What a write does to the views, and what is written.
WriteEffect(v, elements, blocks, memory, w) ==
  /\ ViewOK(v) /\ blocks \subseteq calculate_block_coords(v.ser)
  /\ ViewOK(w) /\ DOMAIN memory = Cells
  /\ elements \subseteq Cells
  /\ \A o \in elements : \E b \in blocks : o \in In(b)
  /\ Loads(v, blocks) => read_numpy_from_cas_by_coords(v.proc, blocks) # {}
  /\ \A b \in blocks : \E o \in In(b) : owner[o] = v.proc
  /\ views' \in Seq(Viewed \cup {w})
  /\ Write(v.proc, elements, blocks, memory)
  /\ got' = NothingRead
  /\ UNCHANGED <<array, table, istorage, owner, failed>>

\* __setitem__ writes.
LEMMA SetEffect ==
  ASSUME TypeInv, NEW i \in DOMAIN views, NEW new \in Indexes(Len(Shape)), __setitem__(i, new),
         NEW v, v = views[i],
         NEW blocks, blocks = calculate_block_coords(_view_composer_new(v.ser, new))
  PROVE  WriteEffect(v, Own(Sub(v, new)), blocks, load_numpy_slices(v, blocks), _select_and_load_blocks(v, blocks))
<1>1. PICK w : w = _select_and_load_blocks(v, blocks)
  OBVIOUS
<1>2. PICK memory : memory = load_numpy_slices(v, blocks)
  OBVIOUS
<1>3. /\ Supported(v.ser, v.axes, new) /\ Holds(v.proc, Spanned(Sub(v, new)))
      /\ Loads(v, blocks) => read_numpy_from_cas_by_coords(v.proc, blocks) # {}
      /\ views' = [views EXCEPT ![i] = w]
      /\ Write(v.proc, Own(Sub(v, new)), blocks, memory)
      /\ got' = NothingRead
      /\ UNCHANGED <<array, table, istorage, owner, failed>>
  BY <1>1, <1>2 DEF __setitem__, cassandra
<1>4. ViewOK(v) /\ Fits(v.ser, new) /\ blocks \subseteq calculate_block_coords(v.ser) /\ ArrayCut
  BY <1>3, IndexedView DEF TypeInv
<1>5. ViewOK(w) /\ DOMAIN memory = Cells
  BY <1>1, <1>2, <1>4, Loading
<1>6. PICK s : s = Sub(v, new)
  OBVIOUS
<1>7. s.ser = _view_composer_new(v.ser, new) /\ ValidSer(s.ser) /\ s.axes = Positions(s.ser)
  BY <1>4, <1>6, SubOK
<1>8. calculate_block_coords(s.ser) = blocks
  BY <1>7
<1>9. Own(s) \subseteq Cells /\ \A o \in Own(s) : \E b \in blocks : o \in In(b)
  BY <1>4, <1>7, <1>8, SelectedIn
<1>10. \A b \in blocks : \E o \in In(b) : owner[o] = v.proc
  BY <1>3, <1>4, <1>6, <1>7, <1>8, SpanMeets DEF Holds
<1>11. views' \in Seq(Viewed \cup {w})
  <2>1. views \in Seq(Viewed \cup {w}) /\ w \in Viewed \cup {w} /\ i \in 1..Len(views)
    BY ViewSeq, TypeFacts
  <2> QED
    BY <1>3, <2>1, PutSeq
<1> QED
  BY <1>1, <1>2, <1>3, <1>4, <1>5, <1>6, <1>9, <1>10, <1>11 DEF WriteEffect

\* __array_ufunc__ writes.
LEMMA UfuncEffect ==
  ASSUME TypeInv, NEW i \in DOMAIN views, __array_ufunc__(i), NEW v, v = views[i],
         NEW blocks, blocks = calculate_block_coords(v.ser)
  PROVE  WriteEffect(v, Own(v), blocks, load_numpy_slices(v, blocks), _select_and_load_blocks(v, blocks))
<1>1. PICK w : w = _select_and_load_blocks(v, blocks)
  OBVIOUS
<1>2. PICK memory : memory = load_numpy_slices(v, blocks)
  OBVIOUS
<1>3. /\ Holds(v.proc, Spanned(v))
      /\ Loads(v, blocks) => read_numpy_from_cas_by_coords(v.proc, blocks) # {}
      /\ views' = [views EXCEPT ![i] = w]
      /\ Write(v.proc, Own(v), blocks, memory)
      /\ got' = NothingRead
      /\ UNCHANGED <<array, table, istorage, owner, failed>>
  BY <1>1, <1>2 DEF __array_ufunc__, cassandra
<1>4. ViewOK(v) /\ ArrayCut
  BY TypeFacts
<1>5. ViewOK(w) /\ DOMAIN memory = Cells
  BY <1>1, <1>2, <1>4, Loading
<1>7. ValidSer(v.ser) /\ v.axes = Positions(v.ser)
  BY <1>4 DEF ViewOK
<1>9. Own(v) \subseteq Cells /\ \A o \in Own(v) : \E b \in blocks : o \in In(b)
  BY <1>4, <1>7, SelectedIn
<1>10. \A b \in blocks : \E o \in In(b) : owner[o] = v.proc
  BY <1>3, <1>4, <1>7, SpanMeets DEF Holds
<1>11. views' \in Seq(Viewed \cup {w})
  <2>1. views \in Seq(Viewed \cup {w}) /\ w \in Viewed \cup {w} /\ i \in 1..Len(views)
    BY ViewSeq, TypeFacts
  <2> QED
    BY <1>3, <2>1, PutSeq
<1> QED
  BY <1>1, <1>2, <1>3, <1>4, <1>5, <1>9, <1>10, <1>11 DEF WriteEffect

\* What an exception does.
Failed(v) ==
  /\ v \in Viewed /\ ~ v.full
  /\ views' \in Seq({x \in Viewed : x.proc # v.proc})
  /\ mem' = [mem EXCEPT ![v.proc] = reserve_numpy_space]
  /\ got' = NothingRead
  /\ UNCHANGED <<array, table, istorage, pending, owner, truth, ops>>

\* load_fails ends the process.
LEMMA FailEffect ==
  ASSUME TypeInv, NEW i \in DOMAIN views, NEW new, load_fails(i, new), NEW v, v = views[i]
  PROVE  Failed(v)
<1> DEFINE T == {k \in DOMAIN views : views[k].proc # v.proc}
<1>2. /\ ~ v.full
      /\ views' = [k \in DOMAIN SetToSeq(T) |-> views[SetToSeq(T)[k]]]
      /\ mem' = [mem EXCEPT ![v.proc] = reserve_numpy_space]
      /\ got' = NothingRead
      /\ UNCHANGED <<array, table, istorage, pending, owner, truth, ops>>
  BY DEF load_fails, allocate_numpy, cassandra, ghosts
<1>3. v \in Viewed
  BY DEF Viewed
<1>4. IsSequence(views) /\ T \subseteq DOMAIN views
  BY TypeFacts
<1>5. {views[n] : n \in T} = {x \in Viewed : x.proc # v.proc}
  BY DEF Viewed
<1> HIDE DEF T
<1>6. views' \in Seq({views[n] : n \in T})
  BY <1>2, <1>4, FilterSequence
<1> QED
  BY <1>2, <1>3, <1>5, <1>6 DEF Failed

\* What split does.
SplitOff(v, part, res) ==
  /\ v \in Viewed /\ ViewOK(v) /\ v.ser = WholeSer /\ part \in Parts(WholeSer)
  /\ v.loaded = {} \/ v.full \/ SplitLoaded
  /\ ViewOK(res) /\ res.proc = v.proc /\ res.loaded = v.loaded /\ res.full = v.full /\ res.part = v.part
  /\ res = v \/ (res.sid = FreshId /\ res.ser = _view_composer_new(WholeSer, part))
  /\ calculate_block_coords(res.ser) \subseteq calculate_block_coords(v.ser)
  /\ views' \in Seq(Viewed \cup {res})
  /\ got' = NothingRead
  /\ UNCHANGED <<array, table, istorage, mem, pending, owner, truth>>

\* split adds a view.
LEMMA SplitEffect ==
  ASSUME TypeInv, NEW i \in DOMAIN views, NEW part \in Parts(views[i].ser), split(i, part),
         NEW v, v = views[i], NEW res, res = __array_finalize__(v, part)
  PROVE  SplitOff(v, part, res)
<1>1. /\ v.ser = WholeSer /\ part \in Parts(WholeSer)
      /\ v.loaded = {} \/ v.full \/ SplitLoaded
      /\ views' = Append(views, res)
      /\ got' = NothingRead
      /\ UNCHANGED <<array, table, istorage, mem, pending, owner, truth>>
  BY DEF split, WholeSer, cassandra, ghosts
<1>2. v \in Viewed /\ ViewOK(v) /\ ArrayCut
  BY TypeFacts DEF Viewed
<1>3. Fits(v.ser, part)
  BY <1>1, <1>2, PartsFit
<1>4. /\ ViewOK(res) /\ res.proc = v.proc /\ res.loaded = v.loaded /\ res.full = v.full /\ res.part = v.part
      /\ res = v \/ (res.sid = FreshId /\ res.ser = Sub(v, part).ser)
      /\ calculate_block_coords(res.ser) = calculate_block_coords(_view_composer_new(v.ser, part))
  BY <1>2, <1>3, FinalizeOK
<1>5. calculate_block_coords(_view_composer_new(v.ser, part)) \subseteq calculate_block_coords(v.ser)
  BY <1>2, <1>3, ComposeOK DEF ViewOK
<1>6. Sub(v, part).ser = _view_composer_new(WholeSer, part)
  BY <1>1, <1>2, <1>3, SubOK
<1>7. views' \in Seq(Viewed \cup {res})
  <2>1. views \in Seq(Viewed \cup {res}) /\ res \in Viewed \cup {res}
    BY ViewSeq
  <2> QED
    BY <1>1, <2>1, AppendProperties
<1> QED
  BY <1>1, <1>2, <1>4, <1>5, <1>6, <1>7 DEF SplitOff

\* The array as its creator sees it.
Created == View(Main, 1, WholeSer, TRUE)

NewOK(v, p, sid, ser, full) ==
  ViewOK(v) /\ v.proc = p /\ v.sid = sid /\ v.ser = ser /\ v.loaded = {} /\ v.full = full /\ v.part = TRUE

\* A new view is well-formed.
LEMMA NewView ==
  ASSUME ArrayCut, NEW p \in Procs, NEW sid, NEW ser, ValidSer(ser), NEW full
  PROVE  NewOK(View(p, sid, ser, full), p, sid, ser, full)
<1>0. PICK v : v = View(p, sid, ser, full)
  OBVIOUS
<1>1. /\ DOMAIN v = ViewFields
      /\ v.proc = p /\ v.sid = sid /\ v.ser = ser /\ v.loaded = {} /\ v.full = full /\ v.part = TRUE
      /\ v.axes = Positions(ser) /\ v.nblocks = _calculate_nblocks(ser)
  BY <1>0 DEF View, ViewFields
<1>2. NewOK(v, p, sid, ser, full)
  BY <1>1 DEF ViewOK, NewOK
<1> QED
  BY <1>0, <1>2

\* __new__ stores all the blocks and the metadata.
LEMMA NewEffect ==
  ASSUME TypeInv, __new__
  PROVE  /\ istorage = << >> /\ ViewOK(Created)
         /\ pending' = [pending EXCEPT ![Main] = Append(@, Stored({}, mem[Main]))]
         /\ istorage' = [s \in {1} |-> WholeSer]
         /\ views' \in Seq({Created})
         /\ UNCHANGED <<array, table, mem, owner, truth, got>>
<1>1. ArrayCut /\ ValidSer(WholeSer) /\ Main \in Procs
  BY WholeValid DEF TypeInv, Procs
<1>2. ViewOK(Created) /\ Created.proc = Main /\ Created.sid = 1 /\ Created.ser = WholeSer
  <2>1. NewOK(Created, Main, 1, WholeSer, TRUE)
    BY <1>1, NewView DEF Created
  <2> QED
    BY <2>1 DEF NewOK
<1>3. /\ istorage = << >> /\ _persist_data(Created)
      /\ views' = <<Created>>
      /\ UNCHANGED <<array, table, mem, owner, truth, got>>
  BY DEF __new__, Created, WholeSer, ghosts
<1>4. /\ store_numpy_slices(Main, None, mem[Main])
      /\ istorage' = [s \in DOMAIN istorage \cup {1} |-> IF s = 1 THEN WholeSer ELSE istorage[s]]
  BY <1>2, <1>3 DEF _persist_data, _store_meta
<1>5. istorage' = [s \in {1} |-> WholeSer]
  BY <1>3, <1>4
<1>6. pending' = [pending EXCEPT ![Main] = Append(@, Stored({}, mem[Main]))]
  <2>1. pending' = [pending EXCEPT ![Main] = store_numpy(@, {}, mem[Main])]
    BY <1>4 DEF store_numpy_slices, None
  <2>2. store_numpy(pending[Main], {}, mem[Main]) = Append(pending[Main], Stored({}, mem[Main]))
    BY <1>1, StoredParts
  <2> QED
    BY <2>1, <2>2
<1>7. views' \in Seq({Created})
  BY <1>3
<1> QED
  BY <1>2, <1>3, <1>5, <1>6, <1>7

\* What getID does.
Handed(v) ==
  /\ v \in Viewed /\ ViewOK(v) /\ v.proc = Main /\ (v.part \/ HandSlices)
  /\ Holds(Main, Own(v))
  /\ istorage' \in {istorage, [s \in DOMAIN istorage \cup {v.sid} |-> IF s = v.sid THEN v.ser ELSE istorage[s]]}
  /\ pending[Main] = << >>
  /\ views' \in Seq(Viewed)
  /\ owner' = [o \in Offsets |-> IF o \in Own(v) THEN v.sid ELSE owner[o]]
  /\ got' = NothingRead
  /\ UNCHANGED <<array, table, mem, pending, truth>>

\* getID hands a view over.
LEMMA HandEffect ==
  ASSUME TypeInv, NEW i \in DOMAIN views, getID(i), NEW v, v = views[i]
  PROVE  Handed(v)
<1>1. /\ v.proc = Main /\ (v.part \/ HandSlices)
      /\ Holds(Main, Own(v))
      /\ istorage' \in {istorage, [s \in DOMAIN istorage \cup {v.sid} |-> IF s = v.sid THEN v.ser ELSE istorage[s]]}
      /\ pending[Main] = << >>
      /\ views' = RemoveAt(views, i)
      /\ owner' = [o \in Offsets |-> IF o \in Own(v) THEN v.sid ELSE owner[o]]
      /\ got' = NothingRead
      /\ UNCHANGED <<array, table, mem, pending, truth>>
  BY DEF getID, _store_meta, wait_stores
<1>2. v \in Viewed /\ ViewOK(v)
  BY TypeFacts DEF Viewed
<1>3. views' \in Seq(Viewed)
  <2>1. IsSequence(views) /\ i \in 1..Len(views) /\ DOMAIN views = 1..Len(views)
    BY TypeFacts
  <2>2. PICK f : f = RemoveAt(views, i)
    OBVIOUS
  <2>3. IsSequence(f) /\ \A k \in 1..Len(f) : \E n \in 1..Len(views) : f[k] = views[n]
    BY <2>1, <2>2, RemoveSequence
  <2>4. \A k \in 1..Len(f) : f[k] \in Viewed
    BY <2>1, <2>3 DEF Viewed
  <2>5. Len(f) \in Nat /\ f \in [1..Len(f) -> Viewed]
    BY <2>3, <2>4 DEF IsSequence
  <2> QED
    BY <1>1, <2>2, <2>5, IsASeq
<1> QED
  BY <1>1, <1>2, <1>3 DEF Handed

Opened(p, sid, w) ==
         /\ \A x \in Viewed : x.proc # p
         /\ ViewOK(w) /\ w.proc = p /\ w.sid = sid /\ w.loaded = {} /\ w.full = FALSE
         /\ mem' = [mem EXCEPT ![p] = reserve_numpy_space]
         /\ views' \in Seq(Viewed \cup {w})
         /\ got' = NothingRead
         /\ owner' = [o \in Offsets |-> IF owner[o] = sid THEN p ELSE owner[o]]
         /\ UNCHANGED <<array, table, istorage, pending, truth>>

\* _initialize_existing_object opens what was handed over.
LEMMA OpenEffect ==
  ASSUME TypeInv, NEW p \in Workers, NEW sid \in DOMAIN istorage, _initialize_existing_object(p, sid)
  PROVE  Opened(p, sid, View(p, sid, istorage[sid], FALSE))
<1> DEFINE w == View(p, sid, istorage[sid], FALSE)
<1>1. /\ \A i \in DOMAIN views : views[i].proc # p
      /\ mem' = [mem EXCEPT ![p] = reserve_numpy_space]
      /\ views' = Append(views, w)
      /\ got' = NothingRead
      /\ owner' = [o \in Offsets |-> IF owner[o] = sid THEN p ELSE owner[o]]
      /\ UNCHANGED <<array, table, istorage, pending, truth>>
  BY DEF _initialize_existing_object, allocate_numpy, cassandra
<1> HIDE DEF w
<1>2. ArrayCut /\ p \in Procs /\ ValidSer(istorage[sid])
  BY DEF TypeInv, Procs
<1>3. ViewOK(w) /\ w.proc = p /\ w.sid = sid /\ w.loaded = {} /\ w.full = FALSE
  <2>1. NewOK(w, p, sid, istorage[sid], FALSE)
    BY <1>2, NewView DEF w
  <2> QED
    BY <2>1 DEF NewOK
<1>4. \A x \in Viewed : x.proc # p
  BY <1>1 DEF Viewed
<1>5. views' \in Seq(Viewed \cup {w})
  <2>1. views \in Seq(Viewed \cup {w}) /\ w \in Viewed \cup {w}
    BY ViewSeq
  <2> QED
    BY <1>1, <2>1, AppendProperties
<1>6. Opened(p, sid, w)
  BY <1>1, <1>3, <1>4, <1>5 DEF Opened
<1> QED
  BY <1>6 DEF w

\* applied stores the first part in the queue of a process.
LEMMA AppliedEffect ==
  ASSUME TypeInv, NEW p \in Procs, applied(p)
  PROVE  /\ pending[p] # << >>
         /\ \E q \in Head(pending[p]) :
              /\ table' = {r \in table : r.key # q.key} \cup {q}
              /\ pending' = [pending EXCEPT ![p] = Without(@, q)]
         /\ got' = NothingRead
         /\ UNCHANGED <<array, istorage, mem, views, owner, truth>>
<1>1. PICK q : q = CHOOSE x \in Head(pending[p]) : TRUE
  OBVIOUS
<1>2. /\ pending[p] # << >>
      /\ table' = {r \in table : r.key # q.key} \cup {q}
      /\ pending' = [pending EXCEPT ![p] =
            IF Head(pending[p]) = {q} THEN Tail(@) ELSE [@ EXCEPT ![1] = Head(pending[p]) \ {q}]]
      /\ got' = NothingRead
      /\ UNCHANGED <<array, istorage, mem, views, owner, truth>>
  BY <1>1 DEF applied, ghosts
<1>3. q \in Head(pending[p])
  <2>1. QueueOK(pending[p])
    BY DEF TypeInv
  <2>2. Head(pending[p]) = pending[p][1] /\ Len(pending[p]) >= 1 /\ Len(pending[p]) \in Nat
    BY <1>2, <2>1, TailSequence, SequenceDomain DEF QueueOK
  <2>3. Head(pending[p]) # {}
    BY <2>1, <2>2 DEF QueueOK
  <2> QED
    BY <1>1, <2>3
<1>4. pending' = [pending EXCEPT ![p] = Without(@, q)]
  BY <1>2 DEF Without
<1> QED
  BY <1>2, <1>3, <1>4

-----------------------------------------------------------------------------
(* The types are kept. *)

\* The first state.
LEMMA TypeInit == Init /\ ArrayCut => TypeInv
<1> SUFFICES ASSUME Init, ArrayCut PROVE TypeInv
  OBVIOUS
<1>1. Ranked
  <2>1. PICK m \in Arrays : \E r \in row_elements(m) :
          array = [place |-> Places(m), generator |-> make_partitions_generator(m, r)]
    BY DEF Init
  <2>2. PICK r : array = [place |-> Places(m), generator |-> make_partitions_generator(m, r)]
    BY <2>1
  <2>3. Shape = make_partitions_generator(m, r).dims
    BY <2>2 DEF Shape, g
  <2>4. Shape = m.dims
    BY <2>3 DEF make_partitions_generator
  <2> QED
    BY <2>4 DEF Ranked
<1>2. IsSequence(<<>>) /\ Len(<<>>) = 0
  <2>1. <<>> \in Seq({})
    OBVIOUS
  <2> QED
    BY <2>1 DEF IsSequence
<1>3. \A p \in Procs : QueueOK(pending[p])
  BY <1>2 DEF Init, QueueOK
<1>4. DOMAIN truth = Cells /\ DOMAIN owner = Cells /\ DOMAIN mem = Procs /\ \A p \in Procs : DOMAIN mem[p] = Cells
  BY DEF Init, Cells, reserve_numpy_space
<1> QED
  BY <1>1, <1>2, <1>3, <1>4 DEF TypeInv, Init

\* The memory of a process is replaced.
LEMMA MemoryCells ==
  ASSUME TypeInv, NEW p \in Procs, NEW memory, DOMAIN memory = Cells, mem' = [mem EXCEPT ![p] = memory]
  PROVE  DOMAIN mem' = Procs /\ \A r \in Procs : DOMAIN mem'[r] = Cells
BY DEF TypeInv

\* The views, and what was queued before, are as they should be.
LEMMA TypeViews ==
  ASSUME TypeInv, array' = array, UNCHANGED <<table, istorage>>,
         DOMAIN truth' = Cells, DOMAIN owner' = Cells,
         DOMAIN mem' = Procs, \A p \in Procs : DOMAIN mem'[p] = Cells,
         DOMAIN pending' = Procs, \A p \in Procs : QueueOK(pending'[p]),
         NEW T, \A v \in T : ViewOK(v), views' \in Seq(T)
  PROVE  TypeInv'
<1>1. IsSequence(views') /\ \A i \in 1..Len(views') : ViewOK(views'[i])
  BY DEF IsSequence
<1>2. \A q \in table' : PartOK(q)
  BY DEF TypeInv
<1>3. \A s \in DOMAIN istorage' : ValidSer(istorage'[s])
  BY DEF TypeInv
<1> QED
  BY <1>1, <1>2, <1>3, TypeNext

\* The views are well-formed.
LEMMA ViewedOK ==
  ASSUME TypeInv
  PROVE  \A v \in Viewed : ViewOK(v)
BY TypeFacts DEF Viewed

\* A read keeps the types.
LEMMA TypeGet ==
  ASSUME TypeInv, NEW i \in DOMAIN views, NEW new \in Indexes(Len(Shape)), __getitem__(i, new)
  PROVE  TypeInv'
<1>1. PICK v, blocks, w, memory, res : ReadEffect(v, blocks, w, memory, res)
  BY GetEffect
<1>6. /\ ViewOK(v) /\ ViewOK(w) /\ ViewOK(res) /\ DOMAIN memory = Cells
      /\ mem' = [mem EXCEPT ![v.proc] = memory]
      /\ views' \in Seq(Viewed \cup {w, res})
      /\ UNCHANGED <<array, table, istorage, pending, owner, truth, failed>>
  BY <1>1 DEF ReadEffect
<1>7. DOMAIN mem' = Procs /\ \A r \in Procs : DOMAIN mem'[r] = Cells
  BY <1>6, MemoryCells DEF ViewOK
<1>8. \A x \in Viewed \cup {w, res} : ViewOK(x)
  BY <1>6, ViewedOK
<1>9. /\ DOMAIN truth' = Cells /\ DOMAIN owner' = Cells
      /\ DOMAIN pending' = Procs /\ \A p \in Procs : QueueOK(pending'[p])
  BY <1>6 DEF TypeInv
<1> QED
  BY <1>6, <1>7, <1>8, <1>9, TypeViews

\* What Write does.
Over(memory, elements) == [o \in Cells |-> IF o \in elements THEN -1 ELSE memory[o]]

WrittenBy(p, elements, blocks, new) ==
  /\ mem' = [mem EXCEPT ![p] = new]
  /\ pending' = [pending EXCEPT ![p] = Append(@, Stored(blocks, new))]
  /\ truth' = Over(truth, elements)

\* Write, with the parts it queues.
LEMMA Written ==
  ASSUME TypeInv, NEW p \in Procs, NEW elements, NEW blocks, blocks \subseteq DOMAIN g.blocks,
         NEW memory, Write(p, elements, blocks, memory)
  PROVE  WrittenBy(p, elements, blocks, Over(memory, elements))
<1>0. PICK new : new = Over(memory, elements)
  OBVIOUS
<1>1. Offsets = Cells /\ ArrayCut
  BY TypeFacts
<1>2. /\ mem' = [mem EXCEPT ![p] = new]
      /\ pending' = [pending EXCEPT ![p] = store_numpy(@, blocks, new)]
      /\ truth' = Over(truth, elements)
  BY <1>0, <1>1 DEF Write, store_numpy_slices, Over
<1>3. store_numpy(pending[p], blocks, new) = Append(pending[p], Stored(blocks, new))
  BY <1>1, StoredParts
<1> QED
  BY <1>0, <1>2, <1>3 DEF WrittenBy

\* A write keeps the types.
LEMMA TypeWrite ==
  ASSUME TypeInv, NEW v, NEW elements, NEW blocks, NEW memory, NEW w, WriteEffect(v, elements, blocks, memory, w)
  PROVE  TypeInv'
<1>1. /\ ViewOK(v) /\ blocks \subseteq calculate_block_coords(v.ser)
      /\ ViewOK(w) /\ DOMAIN memory = Cells
      /\ views' \in Seq(Viewed \cup {w})
      /\ Write(v.proc, elements, blocks, memory)
      /\ UNCHANGED <<array, table, istorage, owner, failed>>
  BY DEF WriteEffect
<1>2. v.proc \in Procs /\ ArrayCut /\ blocks \subseteq DOMAIN g.blocks
  BY <1>1, CoordsType DEF ViewOK, TypeInv
<1>3. PICK new : new = Over(memory, elements)
  OBVIOUS
<1>4. /\ mem' = [mem EXCEPT ![v.proc] = new]
      /\ pending' = [pending EXCEPT ![v.proc] = Append(@, Stored(blocks, new))]
      /\ truth' = Over(truth, elements)
  <2>1. WrittenBy(v.proc, elements, blocks, new)
    BY <1>1, <1>2, <1>3, Written
  <2> QED
    BY <2>1 DEF WrittenBy
<1>5. DOMAIN mem' = Procs /\ \A r \in Procs : DOMAIN mem'[r] = Cells
  BY <1>2, <1>3, <1>4, MemoryCells DEF Over
<1>6. QueueOK(Append(pending[v.proc], Stored(blocks, new)))
  <2>1. QueueOK(pending[v.proc])
    BY <1>2 DEF TypeInv
  <2> QED
    BY <1>2, <2>1, StoreQueue, StoredParts
<1>7. DOMAIN pending' = Procs /\ \A p \in Procs : QueueOK(pending'[p])
  BY <1>2, <1>4, <1>6 DEF TypeInv
<1>8. \A x \in Viewed \cup {w} : ViewOK(x)
  BY <1>1, ViewedOK
<1>9. DOMAIN truth' = Cells /\ DOMAIN owner' = Cells
  BY <1>1, <1>4 DEF TypeInv, Over
<1> QED
  BY <1>1, <1>5, <1>7, <1>8, <1>9, TypeViews

\* An exception keeps the types.
LEMMA TypeFail ==
  ASSUME TypeInv, NEW i \in DOMAIN views, NEW new, load_fails(i, new)
  PROVE  TypeInv'
<1>1. PICK v : v = views[i]
  OBVIOUS
<1>2. /\ v \in Viewed /\ views' \in Seq({x \in Viewed : x.proc # v.proc})
      /\ mem' = [mem EXCEPT ![v.proc] = reserve_numpy_space]
      /\ UNCHANGED <<array, table, istorage, pending, owner, truth, ops>>
  <2>1. Failed(v)
    BY <1>1, FailEffect
  <2> QED
    BY <2>1 DEF Failed
<1>3. v.proc \in Procs /\ DOMAIN reserve_numpy_space = Cells
  BY <1>2, ViewedOK DEF ViewOK, reserve_numpy_space, Cells
<1>4. DOMAIN mem' = Procs /\ \A r \in Procs : DOMAIN mem'[r] = Cells
  BY <1>2, <1>3, MemoryCells
<1>5. \A x \in {x \in Viewed : x.proc # v.proc} : ViewOK(x)
  BY ViewedOK
<1>6. /\ DOMAIN truth' = Cells /\ DOMAIN owner' = Cells
      /\ DOMAIN pending' = Procs /\ \A p \in Procs : QueueOK(pending'[p])
  BY <1>2 DEF TypeInv
<1> QED
  BY <1>2, <1>4, <1>5, <1>6, TypeViews

\* split keeps the types.
LEMMA TypeSplit ==
  ASSUME TypeInv, NEW i \in DOMAIN views, NEW part \in Parts(views[i].ser), split(i, part)
  PROVE  TypeInv'
<1>1. PICK v : v = views[i]
  OBVIOUS
<1>2. PICK res : res = __array_finalize__(v, part)
  OBVIOUS
<1>3. /\ ViewOK(res) /\ views' \in Seq(Viewed \cup {res})
      /\ UNCHANGED <<array, table, istorage, mem, pending, owner, truth>>
  <2>1. SplitOff(v, part, res)
    BY <1>1, <1>2, SplitEffect
  <2> QED
    BY <2>1 DEF SplitOff
<1>4. \A x \in Viewed \cup {res} : ViewOK(x)
  BY <1>3, ViewedOK
<1>5. /\ DOMAIN truth' = Cells /\ DOMAIN owner' = Cells
      /\ DOMAIN mem' = Procs /\ \A r \in Procs : DOMAIN mem'[r] = Cells
      /\ DOMAIN pending' = Procs /\ \A p \in Procs : QueueOK(pending'[p])
  BY <1>3 DEF TypeInv
<1> QED
  BY <1>3, <1>4, <1>5, TypeViews

\* Opening an array keeps the types.
LEMMA TypeOpen ==
  ASSUME TypeInv, NEW p \in Workers, NEW sid \in DOMAIN istorage, _initialize_existing_object(p, sid)
  PROVE  TypeInv'
<1>1. PICK w : Opened(p, sid, w)
  BY OpenEffect
<1>2. /\ ViewOK(w) /\ mem' = [mem EXCEPT ![p] = reserve_numpy_space]
      /\ views' \in Seq(Viewed \cup {w})
      /\ owner' = [o \in Offsets |-> IF owner[o] = sid THEN p ELSE owner[o]]
      /\ UNCHANGED <<array, table, istorage, pending, truth>>
  BY <1>1 DEF Opened
<1>3. DOMAIN reserve_numpy_space = Cells /\ p \in Procs /\ Offsets = Cells
  BY TypeFacts DEF reserve_numpy_space, Cells, Procs
<1>4. DOMAIN mem' = Procs /\ \A r \in Procs : DOMAIN mem'[r] = Cells
  BY <1>2, <1>3, MemoryCells
<1>5. \A x \in Viewed \cup {w} : ViewOK(x)
  BY <1>2, ViewedOK
<1>6. /\ DOMAIN truth' = Cells /\ DOMAIN owner' = Cells
      /\ DOMAIN pending' = Procs /\ \A r \in Procs : QueueOK(pending'[r])
  BY <1>2, <1>3 DEF TypeInv
<1> QED
  BY <1>2, <1>4, <1>5, <1>6, TypeViews

\* Creating the array keeps the types.
LEMMA TypeNew ==
  ASSUME TypeInv, __new__
  PROVE  TypeInv'
<1>1. /\ ViewOK(Created)
      /\ pending' = [pending EXCEPT ![Main] = Append(@, Stored({}, mem[Main]))]
      /\ istorage' = [s \in {1} |-> WholeSer]
      /\ views' \in Seq({Created})
      /\ UNCHANGED <<array, table, mem, owner, truth, got>>
  BY NewEffect
<1>2. IsSequence(views') /\ \A i \in 1..Len(views') : ViewOK(views'[i])
  BY <1>1 DEF IsSequence
<1>3. Main \in Procs /\ QueueOK(pending[Main]) /\ ArrayCut
  BY DEF Procs, TypeInv
<1>4. QueueOK(Append(pending[Main], Stored({}, mem[Main])))
  <2>1. {} \in SUBSET DOMAIN g.blocks
    OBVIOUS
  <2> QED
    BY <1>3, <2>1, StoreQueue, StoredParts
<1>5. DOMAIN pending' = Procs /\ \A r \in Procs : QueueOK(pending'[r])
  BY <1>1, <1>3, <1>4 DEF TypeInv
<1>6. \A s \in DOMAIN istorage' : ValidSer(istorage'[s])
  BY <1>1, <1>3, WholeValid
<1>7. /\ DOMAIN truth' = Cells /\ DOMAIN owner' = Cells /\ \A q \in table' : PartOK(q)
      /\ DOMAIN mem' = Procs /\ \A r \in Procs : DOMAIN mem'[r] = Cells
  BY <1>1 DEF TypeInv
<1> QED
  BY <1>1, <1>2, <1>5, <1>6, <1>7, TypeNext

\* getID keeps the types.
LEMMA TypeHand ==
  ASSUME TypeInv, NEW i \in DOMAIN views, getID(i)
  PROVE  TypeInv'
<1>1. PICK v : v = views[i]
  OBVIOUS
<1>2. /\ ViewOK(v)
      /\ istorage' \in {istorage, [s \in DOMAIN istorage \cup {v.sid} |-> IF s = v.sid THEN v.ser ELSE istorage[s]]}
      /\ views' \in Seq(Viewed)
      /\ owner' = [o \in Offsets |-> IF o \in Own(v) THEN v.sid ELSE owner[o]]
      /\ UNCHANGED <<array, table, mem, pending, truth>>
  <2>1. Handed(v)
    BY <1>1, HandEffect
  <2> QED
    BY <2>1 DEF Handed
<1>3. IsSequence(views') /\ \A k \in 1..Len(views') : ViewOK(views'[k])
  BY <1>2, ViewedOK DEF IsSequence
<1>4. \A s \in DOMAIN istorage' : ValidSer(istorage'[s])
  BY <1>2 DEF TypeInv, ViewOK
<1>5. /\ DOMAIN truth' = Cells /\ DOMAIN owner' = Cells /\ \A q \in table' : PartOK(q)
      /\ DOMAIN mem' = Procs /\ \A r \in Procs : DOMAIN mem'[r] = Cells
      /\ DOMAIN pending' = Procs /\ \A r \in Procs : QueueOK(pending'[r])
  BY <1>2, TypeFacts DEF TypeInv
<1> QED
  BY <1>2, <1>3, <1>4, <1>5, TypeNext

\* Storing a part keeps the types.
LEMMA TypeApplied ==
  ASSUME TypeInv, NEW p \in Procs, applied(p)
  PROVE  TypeInv'
<1>1. pending[p] # << >> /\ UNCHANGED <<array, istorage, mem, views, owner, truth>>
  BY AppliedEffect
<1>2. PICK q \in Head(pending[p]) :
        /\ table' = {r \in table : r.key # q.key} \cup {q}
        /\ pending' = [pending EXCEPT ![p] = Without(@, q)]
  BY AppliedEffect
<1>3. QueueOK(pending[p])
  BY DEF TypeInv
<1>4. QueueOK(Without(pending[p], q))
  BY <1>1, <1>3, WithoutQueue
<1>5. PartOK(q)
  <2>1. Head(pending[p]) = pending[p][1] /\ Len(pending[p]) >= 1 /\ Len(pending[p]) \in Nat
    BY <1>1, <1>3, TailSequence, SequenceDomain DEF QueueOK
  <2> QED
    BY <1>3, <2>1 DEF QueueOK
<1>6. DOMAIN pending' = Procs /\ \A r \in Procs : QueueOK(pending'[r])
  BY <1>2, <1>4 DEF TypeInv
<1>7. \A r \in table' : PartOK(r)
  BY <1>2, <1>5 DEF TypeInv
<1>8. /\ DOMAIN truth' = Cells /\ DOMAIN owner' = Cells
      /\ DOMAIN mem' = Procs /\ \A r \in Procs : DOMAIN mem'[r] = Cells
      /\ IsSequence(views') /\ \A i \in 1..Len(views') : ViewOK(views'[i])
      /\ \A s \in DOMAIN istorage' : ValidSer(istorage'[s])
  BY <1>1 DEF TypeInv
<1> QED
  BY <1>1, <1>6, <1>7, <1>8, TypeNext

\* Every step keeps the types.
LEMMA TypeStep == TypeInv /\ [Next]_vars => TypeInv'
<1> SUFFICES ASSUME TypeInv, [Next]_vars PROVE TypeInv'
  OBVIOUS
<1>1. CASE __new__
  BY <1>1, TypeNew
<1>2. ASSUME NEW i \in DOMAIN views, NEW new \in Indexes(Len(Shape)), __getitem__(i, new) PROVE TypeInv'
  BY <1>2, TypeGet
<1>3. ASSUME NEW i \in DOMAIN views, NEW new \in Indexes(Len(Shape)), __setitem__(i, new) PROVE TypeInv'
  BY <1>3, SetEffect, TypeWrite
<1>4. ASSUME NEW i \in DOMAIN views, NEW new \in Indexes(Len(Shape)), load_fails(i, new) PROVE TypeInv'
  BY <1>4, TypeFail
<1>5. ASSUME NEW i \in DOMAIN views, NEW part \in Parts(views[i].ser), split(i, part) PROVE TypeInv'
  BY <1>5, TypeSplit
<1>6. ASSUME NEW i \in DOMAIN views, __array_ufunc__(i) PROVE TypeInv'
  BY <1>6, UfuncEffect, TypeWrite
<1>7. ASSUME NEW i \in DOMAIN views, getID(i) PROVE TypeInv'
  BY <1>7, TypeHand
<1>8. ASSUME NEW p \in Procs, applied(p) PROVE TypeInv'
  BY <1>8, TypeApplied
<1>9. ASSUME NEW p \in Workers, NEW sid \in DOMAIN istorage, _initialize_existing_object(p, sid) PROVE TypeInv'
  BY <1>9, TypeOpen
<1>10. CASE UNCHANGED vars
  <2>1. UNCHANGED <<array, table, istorage, mem, pending, views, owner, truth>>
    BY <1>10 DEF vars, cassandra, ghosts
  <2>2. /\ DOMAIN truth' = Cells /\ DOMAIN owner' = Cells /\ \A q \in table' : PartOK(q)
        /\ DOMAIN mem' = Procs /\ \A r \in Procs : DOMAIN mem'[r] = Cells
        /\ DOMAIN pending' = Procs /\ \A r \in Procs : QueueOK(pending'[r])
        /\ IsSequence(views') /\ \A i \in 1..Len(views') : ViewOK(views'[i])
        /\ \A s \in DOMAIN istorage' : ValidSer(istorage'[s])
    BY <2>1 DEF TypeInv
  <2> QED
    BY <2>1, <2>2, TypeNext
<1> QED
  BY <1>1, <1>2, <1>3, <1>4, <1>5, <1>6, <1>7, <1>8, <1>9, <1>10 DEF Next

\* The types hold in every state.
LEMMA TypeCorrect == Spec /\ ArrayCut => []TypeInv
BY TypeInit, TypeStep, PTL DEF Spec

\* getNextPartition and the views: what is queued and stored are whole blocks of the array,
\* under their keys, and no block outside the array is ever marked as loaded.
THEOREM ArrayTypeTheorem == Spec /\ ArrayCut => []ArrayTypeOK
<1>1. TypeInv => ArrayTypeOK
  <2> SUFFICES ASSUME TypeInv PROVE ArrayTypeOK
    OBVIOUS
  <2>1. ASSUME NEW p \in Procs, NEW S \in ToSet(pending[p]), NEW q \in S PROVE PartOK(q)
    <3>1. QueueOK(pending[p])
      BY DEF TypeInv
    <3>2. PICK i \in DOMAIN pending[p] : S = pending[p][i]
      BY <2>1 DEF ToSet
    <3>3. i \in 1..Len(pending[p])
      BY <3>1, SequenceDomain DEF QueueOK
    <3> QED
      BY <2>1, <3>1, <3>2, <3>3 DEF QueueOK
  <2>2. \A q \in table \cup UNION UNION {ToSet(pending[p]) : p \in Procs} : PartOK(q)
    BY <2>1 DEF TypeInv
  <2>3. \A p \in Procs : DOMAIN mem[p] = Offsets
    BY TypeFacts DEF TypeInv
  <2>4. \A i \in DOMAIN views : views[i].loaded \subseteq DOMAIN g.blocks
    BY TypeFacts DEF ViewOK
  <2> QED
    BY <2>2, <2>3, <2>4 DEF ArrayTypeOK, PartOK, PartOf
<1> QED
  BY <1>1, TypeCorrect, PTL

\* view_composer_internal: the index expression of a view selects, from the whole array, the
\* elements that numpy selected step by step, however often it was indexed or split.
THEOREM ViewsTheorem == Spec /\ ArrayCut => []ViewsAgree
<1>1. TypeInv => ViewsAgree
  BY TypeFacts DEF ViewsAgree, ViewOK
<1> QED
  BY <1>1, TypeCorrect, PTL

-----------------------------------------------------------------------------
(* What is in memory, queued and stored is what was written.  The formulas *)
(* are stated of any owners, values and so on, so that they can be applied *)
(* to those before and after a step.                                       *)

Key(b) == g.blocks[b].key

\* Every element of the block is left to p.
Held(own, b, p) == \A o \in In(b) : own[o] = p

\* The block is left to one process as a whole.
BlocksOwned(own) == \A b \in DOMAIN g.blocks : \A o, u \in In(b) : own[o] = own[u]

\* The part holds the values of the elements of the block.
TruePart(q, b, tr) == \A x \in DOMAIN g.blocks[b].offsets : q.data[x] = tr[g.blocks[b].offsets[x]]

Queued(s, i, b) == \E q \in s[i] : q.key = Key(b)
InQueue(s, b) == \E i \in 1..Len(s) : Queued(s, i, b)

\* A process queues blocks that are left to it, each once in a call, and the last part that
\* is queued of a block holds its values.
QueueTrue(s, p, own, tr) ==
  \A i \in 1..Len(s) : \A q \in s[i] : \A b \in DOMAIN g.blocks :
    q.key = Key(b) =>
      /\ Held(own, b, p)
      /\ \A r \in s[i] : r.key = Key(b) => r = q
      /\ (\A k \in (i + 1)..Len(s) : ~ Queued(s, k, b)) => TruePart(q, b, tr)

\* A block that no process has queued is stored, with its values.
TableTrue(pend, tab, tr) ==
  \A b \in DOMAIN g.blocks :
    /\ \A q, r \in tab : q.key = Key(b) /\ r.key = Key(b) => q = r
    /\ (\A p \in Procs : ~ InQueue(pend[p], b)) => \E q \in tab : q.key = Key(b) /\ TruePart(q, b, tr)

\* The blocks that a view takes to be in memory.
LoadedBlocks(v) == IF v.full THEN calculate_block_coords(v.ser) ELSE v.loaded
Aligned(v) == \A b \in calculate_block_coords(v.ser) : In(b) \subseteq Own(v)

\* Of the blocks that a view takes to be loaded, those that are left to the process are.
ViewTrue(v, own, tr, memory) ==
  /\ ~ v.full => v.loaded \subseteq calculate_block_coords(v.ser)
  /\ \A b \in LoadedBlocks(v) : Held(own, b, v.proc) => \A o \in In(b) : memory[v.proc][o] = tr[o]
  /\ v.proc = Main => v.full /\ (v.part => Aligned(v))

\* Storage ids are numbers.
IdsUpTo(k, vs, ids) ==
  /\ \A s \in ids : s \in Nat /\ s <= k
  /\ \A v \in vs : v.sid \in Nat /\ v.sid <= k

\* Main has all that it was left with in memory.
MainTrue(own, tr, memory) == \A o \in Cells : own[o] = Main => memory[Main][o] = tr[o]

Running(own, tr, memory, pend, tab, vs) ==
  /\ BlocksOwned(own)
  /\ MainTrue(own, tr, memory)
  /\ \A p \in Procs : QueueTrue(pend[p], p, own, tr)
  /\ TableTrue(pend, tab, tr)
  /\ \A v \in vs : ViewTrue(v, own, tr, memory)

\* Before the array is created.
Fresh ==
  /\ views = << >> /\ table = {}
  /\ \A p \in Procs : pending[p] = << >>
  /\ \A o \in Cells : owner[o] = Main /\ mem[Main][o] = truth[o]

DataInv ==
  /\ istorage = << >> => Fresh
  /\ istorage # << >> =>
       /\ Running(owner, truth, mem, pending, table, Viewed)
       /\ \E k \in Nat : IdsUpTo(k, Viewed, DOMAIN istorage)
  /\ ReadsTruth

\* A nonempty set of naturals has a least element, and a greatest one if it is bounded.
LEMMA Least ==
  ASSUME NEW S \in SUBSET Nat, S # {}
  PROVE  \E m \in S : \A i \in S : m <= i
<1>1. PICK m \in S : \A y \in S : ~ (<<y, m>> \in OpToRel(<, Nat))
  <2>1. \E x \in S : \A y \in S : ~ (<<y, x>> \in OpToRel(<, Nat))
    BY NatLessThanWellFounded, WFMin
  <2> QED
    BY <2>1
<1>2. OpToRel(<, Nat) = {ss \in Nat \X Nat : ss[1] < ss[2]}
  BY DEF OpToRel
<1>3. ASSUME NEW i \in S, i < m PROVE FALSE
  <2>1. <<i, m>> \in {ss \in Nat \X Nat : ss[1] < ss[2]}
    BY <1>3
  <2> QED
    BY <1>1, <1>2, <2>1
<1> QED
  BY <1>3

\* Max of a bounded set of numbers.
LEMMA MaxIs ==
  ASSUME NEW S \in SUBSET Nat, S # {}, NEW k \in Nat, \A i \in S : i <= k
  PROVE  Max(S) \in S /\ \A i \in S : i <= Max(S)
<1> DEFINE T == {k - i : i \in S}
<1>1. T \in SUBSET Nat /\ T # {}
  <2>1. \A i \in S : k - i \in Nat
    OBVIOUS
  <2> QED
    BY <2>1
<1>2. PICK m \in T : \A i \in T : m <= i
  BY <1>1, Least
<1>3. PICK x \in S : m = k - x
  BY <1>2
<1>4. ASSUME NEW y \in S PROVE x >= y
  <2>1. k - y \in T /\ x \in Nat /\ y \in Nat
    BY <1>4
  <2>2. k - x <= k - y
    BY <1>2, <1>3, <2>1
  <2> QED
    BY <2>1, <2>2
<1> QED
  BY <1>4 DEF Max

\* No block is empty.
LEMMA SomeCell ==
  ASSUME ArrayCut, NEW b \in DOMAIN g.blocks
  PROVE  In(b) # {}
<1>1. /\ DOMAIN g.blocks_dim = DOMAIN Shape /\ R \in Nat \ {0}
      /\ \A j \in DOMAIN Shape : /\ Shape[j] \in Nat \ {0} /\ g.blocks_dim[j] \in Nat
                                 /\ (g.blocks_dim[j] - 1) * R < Shape[j]
  BY Geometry
<1>2. b \in [DOMAIN Shape -> Nat] /\ \A j \in DOMAIN Shape : b[j] < g.blocks_dim[j]
  BY <1>1, BoxIs DEF ArrayCut
<1> DEFINE c == [j \in DOMAIN Shape |-> b[j] * R]
<1>3. ASSUME NEW j \in DOMAIN Shape
      PROVE  b[j] * R \in Nat /\ b[j] * R < Shape[j] /\ (b[j] * R) \div R = b[j]
  <2>1. PICK k \in Nat, n \in Nat, d \in Nat : k = b[j] /\ n = Shape[j] /\ d = g.blocks_dim[j] - 1 /\ k <= d
    BY <1>1, <1>2
  <2>2. k * R \in Nat /\ d * R \in Nat
    BY <1>1, SMT
  <2>3. k * R <= d * R
    BY <1>1, <2>1, MulLe
  <2>4. k * R < n
    BY <1>1, <2>1, <2>2, <2>3
  <2>5. (k * R) \div R = k
    BY <1>1, <2>2, DivIs
  <2> QED
    BY <2>1, <2>2, <2>4, <2>5
<1>4. c \in [DOMAIN Shape -> Nat] /\ \A j \in DOMAIN Shape : c[j] < Shape[j] /\ c[j] \div R = b[j]
  BY <1>3
<1> HIDE DEF c
<1>5. c \in DOMAIN place
  BY <1>4, CellType
<1>6. BlockOf(c) = [j \in DOMAIN Shape |-> c[j] \div R]
  BY <1>5, CellType
<1>7. BlockOf(c) = b
  BY <1>2, <1>4, <1>6
<1> QED
  BY <1>5, <1>7, BlockCells

\* A key names one block.
LEMMA OneKey ==
  ASSUME ArrayCut, NEW a \in DOMAIN g.blocks, NEW b \in DOMAIN g.blocks, Key(a) = Key(b)
  PROVE  a = b
BY DEF ArrayCut, Key

\* There are finitely many blocks.
LEMMA FiniteBlocks ==
  ASSUME ArrayCut
  PROVE  IsFiniteSet(DOMAIN g.blocks)
<1> DEFINE f == [b \in DOMAIN g.blocks |-> CHOOSE o \in In(b) : TRUE]
<1>1. \A b \in DOMAIN g.blocks : f[b] \in In(b) /\ f[b] \in Cells
  BY SomeCell, InCells
<1>2. f \in [DOMAIN g.blocks -> Cells]
  BY <1>1
<1> HIDE DEF f
<1>3. \A a, b \in DOMAIN g.blocks : f[a] = f[b] => a = b
  BY <1>1, OneBlock
<1>4. f \in Injection(DOMAIN g.blocks, Cells)
  BY <1>2, <1>3 DEF Injection, IsInjective
<1>5. IsFiniteSet(Cells)
  <2>1. 0 \in Int /\ Product(Shape) - 1 \in Int
    BY Geometry
  <2> QED
    BY <2>1, FS_Interval DEF Cells
<1> QED
  BY <1>4, <1>5, FS_Injection

\* As many blocks as a view has are all of its blocks.
LEMMA AllLoaded ==
  ASSUME ArrayCut, NEW ser, ValidSer(ser), NEW T, T \subseteq calculate_block_coords(ser),
         Cardinality(T) = _calculate_nblocks(ser)
  PROVE  T = calculate_block_coords(ser)
<1>1. calculate_block_coords(ser) \in SUBSET DOMAIN g.blocks
  BY CoordsType
<1>2. IsFiniteSet(calculate_block_coords(ser))
  BY <1>1, FiniteBlocks, FS_Subset
<1> QED
  BY <1>2, FS_Subset DEF _calculate_nblocks

-----------------------------------------------------------------------------
(* merge_partitions and get_crow. *)

Covers(q, o) == \E x \in DOMAIN q.data : x \in DOMAIN g.places[q.key] /\ g.places[q.key][x] = o
Value(q, o) == q.data[CHOOSE x \in DOMAIN q.data : g.places[q.key][x] = o]

\* merge_partitions finds for a part of a block the places that getNextPartition took.
LEMMA PartPlaces ==
  ASSUME ArrayCut, NEW b \in DOMAIN g.blocks, NEW q, PartOf(q, b), NEW o
  PROVE  /\ Covers(q, o) <=> o \in In(b)
         /\ \A tr : TruePart(q, b, tr) /\ o \in In(b) => Value(q, o) = tr[o]
<1>1. PICK f : f = g.blocks[b].offsets
  OBVIOUS
<1>2. DOMAIN q.data = DOMAIN f /\ g.places[q.key] = f
  BY <1>1 DEF PartOf, ArrayCut
<1>3. o \in In(b) <=> \E x \in DOMAIN f : f[x] = o
  BY <1>1 DEF In, Range
<1>4. Covers(q, o) <=> o \in In(b)
  BY <1>2, <1>3 DEF Covers
<1>5. ASSUME NEW tr, TruePart(q, b, tr), o \in In(b) PROVE Value(q, o) = tr[o]
  <2>1. PICK x : x = CHOOSE y \in DOMAIN q.data : g.places[q.key][y] = o
    OBVIOUS
  <2>2. x \in DOMAIN f /\ f[x] = o
    BY <1>2, <1>3, <1>5, <2>1
  <2>3. q.data[x] = tr[f[x]]
    BY <1>1, <1>5, <2>2 DEF TruePart
  <2> QED
    BY <2>1, <2>2, <2>3 DEF Value
<1> QED
  BY <1>4, <1>5

Merged(parts, memory, b, o, tr) ==
  merge_partitions(g, parts, memory)[o] = IF \E q \in parts : q.key = Key(b) THEN tr[o] ELSE memory[o]

\* merge_partitions: an element gets its value from the part of its block, or keeps what it has.
LEMMA MergeTrue ==
  ASSUME ArrayCut, NEW parts, \A q \in parts : PartOK(q), NEW memory,
         NEW b \in DOMAIN g.blocks, NEW o \in In(b), o \in DOMAIN memory, NEW tr,
         \A q \in parts : q.key = Key(b) => TruePart(q, b, tr)
  PROVE  Merged(parts, memory, b, o, tr)
<1>1. merge_partitions(g, parts, memory) =
        [u \in DOMAIN memory |->
           IF \E q \in parts : Covers(q, u) THEN Value(CHOOSE q \in parts : Covers(q, u), u) ELSE memory[u]]
  BY DEF merge_partitions, Covers, Value
<1>2. ASSUME NEW q \in parts PROVE (Covers(q, o) <=> q.key = Key(b)) /\ (Covers(q, o) => Value(q, o) = tr[o])
  <2>1. PICK a \in DOMAIN g.blocks : PartOf(q, a)
    BY <1>2 DEF PartOK
  <2>2. /\ Covers(q, o) <=> o \in In(a)
        /\ \A t : TruePart(q, a, t) /\ o \in In(a) => Value(q, o) = t[o]
    BY <2>1, PartPlaces
  <2>3. q.key = Key(a)
    BY <2>1 DEF PartOf, Key
  <2>4. Covers(q, o) <=> a = b
    BY <2>2, OneBlock
  <2>5. q.key = Key(b) <=> a = b
    BY <2>3, OneKey
  <2> QED
    BY <1>2, <2>2, <2>3, <2>4, <2>5
<1>3. CASE \E q \in parts : q.key = Key(b)
  <2>1. \E q \in parts : Covers(q, o)
    BY <1>2, <1>3
  <2>2. PICK q : q = CHOOSE y \in parts : Covers(y, o)
    OBVIOUS
  <2>3. q \in parts /\ Covers(q, o)
    BY <2>1, <2>2
  <2>4. Value(q, o) = tr[o]
    BY <1>2, <2>3
  <2>5. merge_partitions(g, parts, memory)[o] = Value(q, o)
    BY <1>1, <2>1, <2>2
  <2> QED
    BY <1>3, <2>4, <2>5 DEF Merged
<1>4. CASE ~ \E q \in parts : q.key = Key(b)
  <2>1. ~ \E q \in parts : Covers(q, o)
    BY <1>2, <1>4
  <2> QED
    BY <1>1, <1>4, <2>1 DEF Merged
<1> QED
  BY <1>3, <1>4

\* What get_crow finds of a block that is left to the process.
LEMMA CrowTrue ==
  ASSUME TypeInv, NEW vs, Running(owner, truth, mem, pending, table, vs),
         NEW p \in Procs, NEW b \in DOMAIN g.blocks, Held(owner, b, p)
  PROVE  /\ get_crow(p, Key(b)) # {}
         /\ \A q \in get_crow(p, Key(b)) : TruePart(q, b, truth)
<1>1. ArrayCut /\ QueueOK(pending[p]) /\ QueueTrue(pending[p], p, owner, truth) /\ TableTrue(pending, table, truth)
  BY DEF TypeInv, Running
<1>2. PICK s : s = pending[p]
  OBVIOUS
<1>3. DOMAIN s = 1..Len(s) /\ Len(s) \in Nat
  BY <1>1, <1>2, SequenceDomain DEF QueueOK
<1> DEFINE calls == {i \in DOMAIN s : \E q \in s[i] : q.key = Key(b)}
<1>4. get_crow(p, Key(b)) = {q \in IF calls # {} THEN s[Max(calls)] ELSE table : q.key = Key(b)}
  BY <1>2 DEF get_crow
<1>5. CASE calls # {}
  <2>1. calls \in SUBSET Nat /\ \A i \in calls : i <= Len(s)
    BY <1>3
  <2> HIDE DEF calls
  <2>2. PICK m : m = Max(calls)
    OBVIOUS
  <2>3. m \in calls /\ \A i \in calls : i <= m
    BY <1>3, <1>5, <2>1, <2>2, MaxIs
  <2>4. m \in 1..Len(s) /\ \E q \in s[m] : q.key = Key(b)
    BY <1>3, <2>3 DEF calls
  <2>5. \A k \in (m + 1)..Len(s) : ~ Queued(s, k, b)
    BY <1>3, <2>3, <2>4 DEF calls, Queued
  <2>6. \A q \in s[m] : q.key = Key(b) => TruePart(q, b, truth)
    BY <1>1, <1>2, <2>4, <2>5 DEF QueueTrue
  <2>7. get_crow(p, Key(b)) = {q \in s[m] : q.key = Key(b)}
    BY <1>4, <1>5, <2>2
  <2> QED
    BY <2>4, <2>6, <2>7
<1>6. CASE calls = {}
  <2>1. ~ InQueue(s, b)
    BY <1>3, <1>6 DEF InQueue, Queued
  <2>2. ASSUME NEW r \in Procs, InQueue(pending[r], b) PROVE FALSE
    <3>1. QueueTrue(pending[r], r, owner, truth)
      BY DEF Running
    <3>2. Held(owner, b, r)
      BY <2>2, <3>1 DEF QueueTrue, InQueue, Queued
    <3>3. r = p
      BY <1>1, <3>2, SomeCell DEF Held
    <3> QED
      BY <1>2, <2>1, <2>2, <3>3
  <2>3. PICK q \in table : q.key = Key(b) /\ TruePart(q, b, truth)
    BY <1>1, <2>2 DEF TableTrue
  <2>4. \A r \in table : r.key = Key(b) => r = q
    BY <1>1, <2>3 DEF TableTrue
  <2>5. get_crow(p, Key(b)) = {r \in table : r.key = Key(b)}
    BY <1>4, <1>6
  <2> QED
    BY <2>3, <2>4, <2>5
<1> QED
  BY <1>5, <1>6

\* What get_crow returns are parts of the block.
LEMMA CrowParts ==
  ASSUME TypeInv, NEW p \in Procs, NEW key
  PROVE  \A q \in get_crow(p, key) : q.key = key /\ PartOK(q)
<1>1. QueueOK(pending[p]) /\ \A q \in table : PartOK(q)
  BY DEF TypeInv
<1>2. PICK s : s = pending[p]
  OBVIOUS
<1>3. DOMAIN s = 1..Len(s) /\ Len(s) \in Nat
  BY <1>1, <1>2, SequenceDomain DEF QueueOK
<1> DEFINE calls == {i \in DOMAIN s : \E q \in s[i] : q.key = key}
<1>4. get_crow(p, key) = {q \in IF calls # {} THEN s[Max(calls)] ELSE table : q.key = key}
  BY <1>2 DEF get_crow
<1>5. calls # {} => Max(calls) \in 1..Len(s)
  <2>1. calls \in SUBSET Nat /\ calls \subseteq 1..Len(s) /\ \A i \in calls : i <= Len(s)
    BY <1>3
  <2> HIDE DEF calls
  <2> QED
    BY <1>3, <2>1, MaxIs
<1> HIDE DEF calls
<1>6. calls # {} => \A q \in s[Max(calls)] : PartOK(q)
  BY <1>1, <1>2, <1>5 DEF QueueOK
<1> QED
  BY <1>1, <1>4, <1>6

\* What is in memory once a view has loaded blocks: for each block that is left to the
\* process, its values if it is one of them, and else what was there.
LEMMA LoadTrue ==
  ASSUME TypeInv, Running(owner, truth, mem, pending, table, Viewed),
         NEW v \in Viewed, NEW blocks, blocks \subseteq calculate_block_coords(v.ser),
         NEW b \in DOMAIN g.blocks, Held(owner, b, v.proc), NEW o \in In(b)
  PROVE  load_numpy_slices(v, blocks)[o] = IF b \in blocks THEN truth[o] ELSE mem[v.proc][o]
<1>1. /\ ViewOK(v) /\ ViewTrue(v, owner, truth, mem) /\ ArrayCut
  BY ViewedOK DEF Running, TypeInv
<1>2. /\ v.proc \in Procs /\ o \in Cells /\ DOMAIN mem[v.proc] = Cells
      /\ blocks \subseteq DOMAIN g.blocks
  BY <1>1, InCells, CoordsType DEF ViewOK, TypeInv
<1>3. CASE ~ Loads(v, blocks)
  <2>1. load_numpy_slices(v, blocks) = mem[v.proc]
    BY <1>3 DEF load_numpy_slices
  <2>2. b \in blocks => b \in LoadedBlocks(v)
    BY <1>3 DEF Loads, LoadedBlocks
  <2> QED
    BY <1>1, <2>1, <2>2 DEF ViewTrue
<1>4. CASE Loads(v, blocks)
  <2>1. PICK parts : parts = UNION {get_crow(v.proc, g.blocks[a].key) : a \in blocks}
    OBVIOUS
  <2>2. load_numpy_slices(v, blocks) = merge_partitions(g, parts, mem[v.proc])
    BY <1>4, <2>1 DEF load_numpy_slices, load_numpy, read_numpy_from_cas_by_coords
  <2>3. \A q \in parts : PartOK(q) /\ \E a \in blocks : q \in get_crow(v.proc, Key(a)) /\ q.key = Key(a)
    BY <1>2, <2>1, CrowParts DEF Key
  <2>4. \A a \in blocks : get_crow(v.proc, Key(a)) \subseteq parts
    BY <2>1 DEF Key
  <2>5. \A q \in parts : q.key = Key(b) => b \in blocks /\ TruePart(q, b, truth)
    <3> SUFFICES ASSUME NEW q \in parts, q.key = Key(b) PROVE b \in blocks /\ TruePart(q, b, truth)
      OBVIOUS
    <3>1. PICK a \in blocks : q \in get_crow(v.proc, Key(a)) /\ q.key = Key(a)
      BY <2>3
    <3>2. a = b
      BY <1>1, <1>2, <3>1, OneKey
    <3> QED
      BY <1>2, <3>1, <3>2, CrowTrue
  <2>6. b \in blocks => \E q \in parts : q.key = Key(b)
    <3> SUFFICES ASSUME b \in blocks PROVE \E q \in parts : q.key = Key(b)
      OBVIOUS
    <3>1. get_crow(v.proc, Key(b)) # {}
      BY <1>2, CrowTrue
    <3> QED
      BY <1>2, <2>4, <3>1, CrowParts
  <2>7. merge_partitions(g, parts, mem[v.proc])[o] =
          IF \E q \in parts : q.key = Key(b) THEN truth[o] ELSE mem[v.proc][o]
    <3>1. PICK memory : memory = mem[v.proc]
      OBVIOUS
    <3>2. o \in DOMAIN memory /\ (\A q \in parts : PartOK(q)) /\ (\A q \in parts : q.key = Key(b) => TruePart(q, b, truth))
      BY <1>2, <2>3, <2>5, <3>1
    <3>3. Merged(parts, memory, b, o, truth)
      BY <1>1, <3>2, MergeTrue
    <3> QED
      BY <3>1, <3>3 DEF Merged
  <2> QED
    BY <2>2, <2>5, <2>6, <2>7
<1> QED
  BY <1>3, <1>4

-----------------------------------------------------------------------------
(* The steps. *)

\* The process was left no more blocks, and has those in memory that it had.
Keeps(p, own, tr, memory, own2, tr2, memory2) ==
  \A b \in DOMAIN g.blocks : Held(own2, b, p) =>
    /\ Held(own, b, p)
    /\ \A o \in In(b) : memory[p][o] = tr[o] => memory2[p][o] = tr2[o]

\* What a view takes to be loaded stays so when its process keeps its blocks.
LEMMA ViewKept ==
  ASSUME TypeInv, NEW v, ViewOK(v), NEW own, NEW tr, NEW memory, ViewTrue(v, own, tr, memory),
         NEW own2, NEW tr2, NEW memory2, Keeps(v.proc, own, tr, memory, own2, tr2, memory2)
  PROVE  ViewTrue(v, own2, tr2, memory2)
<1>1. LoadedBlocks(v) \subseteq DOMAIN g.blocks
  BY CoordsType DEF LoadedBlocks, ViewOK, TypeInv
<1> QED
  BY <1>1 DEF ViewTrue, Keeps

\* Loading adds the blocks that are asked for, and no others.
LEMMA LoadedNow ==
  ASSUME TypeInv, NEW v, ViewOK(v), NEW own, NEW tr, NEW memory, ViewTrue(v, own, tr, memory),
         NEW blocks, blocks \subseteq calculate_block_coords(v.ser),
         NEW w, w = _select_and_load_blocks(v, blocks)
  PROVE  /\ blocks \subseteq LoadedBlocks(w)
         /\ LoadedBlocks(w) \subseteq LoadedBlocks(v) \cup blocks
         /\ ~ w.full => w.loaded \subseteq calculate_block_coords(w.ser)
         /\ w.proc = v.proc /\ w.ser = v.ser /\ w.part = v.part /\ w.axes = v.axes
         /\ v.full => w.full
<1>1. ArrayCut /\ ValidSer(v.ser) /\ blocks \subseteq DOMAIN g.blocks /\ v.nblocks = _calculate_nblocks(v.ser)
  BY CoordsType DEF TypeInv, ViewOK
<1>2. LoadedView(v, blocks, w)
  BY <1>1, LoadBlocksOK
<1>3. w.proc = v.proc /\ w.ser = v.ser /\ w.part = v.part /\ w.axes = v.axes /\ (v.full => w = v)
  BY <1>2 DEF LoadedView
<1>4. CASE v.full
  BY <1>3, <1>4 DEF LoadedBlocks
<1>5. CASE ~ v.full
  <2>1. v.loaded \cup blocks \subseteq calculate_block_coords(v.ser)
    BY <1>5 DEF ViewTrue
  <2>2. w.loaded = v.loaded \cup blocks /\ (w.full => Cardinality(v.loaded \cup blocks) = v.nblocks)
    BY <1>2, <1>5 DEF LoadedView
  <2>3. w.full => v.loaded \cup blocks = calculate_block_coords(v.ser)
    BY <1>1, <2>1, <2>2, AllLoaded
  <2>4. LoadedBlocks(w) = v.loaded \cup blocks
    BY <1>3, <2>2, <2>3 DEF LoadedBlocks
  <2>5. LoadedBlocks(v) = v.loaded
    BY <1>5 DEF LoadedBlocks
  <2> QED
    BY <1>3, <1>5, <2>1, <2>2, <2>4, <2>5
<1> QED
  BY <1>4, <1>5

\* Two functions of memory that differ in the memory of one process.
LEMMA RunningRead ==
  ASSUME TypeInv, Running(owner, truth, mem, pending, table, Viewed),
         NEW v, NEW blocks, NEW w, w = _select_and_load_blocks(v, blocks),
         NEW memory, memory = load_numpy_slices(v, blocks), NEW res, ReadEffect(v, blocks, w, memory, res),
         NEW mem2, mem2 = [mem EXCEPT ![v.proc] = memory]
  PROVE  /\ Running(owner, truth, mem2, pending, table, Viewed \cup {w, res})
         /\ \A o \in Own(res) : memory[o] = truth[o]
<1>1. /\ v \in Viewed /\ ViewOK(v) /\ blocks \subseteq calculate_block_coords(v.ser)
      /\ ViewOK(w) /\ ViewOK(res)
      /\ res.proc = v.proc /\ res.full = TRUE /\ res.part = FALSE
      /\ calculate_block_coords(res.ser) = blocks
      /\ Holds(v.proc, Own(res))
  BY DEF ReadEffect
<1>2. ArrayCut /\ v.proc \in Procs /\ DOMAIN mem = Procs /\ ViewTrue(v, owner, truth, mem) /\ BlocksOwned(owner)
      /\ \A x \in Viewed : ViewOK(x) /\ ViewTrue(x, owner, truth, mem)
  BY <1>1, ViewedOK DEF TypeInv, ViewOK, Running
<1>3. mem2[v.proc] = memory /\ \A r \in Procs \ {v.proc} : mem2[r] = mem[r]
  BY <1>2
<1>4. \A b \in DOMAIN g.blocks : Held(owner, b, v.proc) =>
        \A o \in In(b) : memory[o] = IF b \in blocks THEN truth[o] ELSE mem[v.proc][o]
  BY <1>1, LoadTrue
<1>5. ASSUME NEW x \in Viewed PROVE ViewTrue(x, owner, truth, mem2)
  <2>1. x.proc \in Procs
    BY <1>2 DEF ViewOK
  <2>2. Keeps(x.proc, owner, truth, mem, owner, truth, mem2)
    BY <1>3, <1>4, <2>1 DEF Keeps
  <2> QED
    BY <1>2, <2>2, ViewKept
<1>6. /\ blocks \subseteq LoadedBlocks(w)
      /\ LoadedBlocks(w) \subseteq LoadedBlocks(v) \cup blocks
      /\ ~ w.full => w.loaded \subseteq calculate_block_coords(w.ser)
      /\ w.proc = v.proc /\ w.ser = v.ser /\ w.part = v.part /\ w.axes = v.axes
      /\ v.full => w.full
  BY <1>1, <1>2, LoadedNow
<1>7. LoadedBlocks(v) \subseteq DOMAIN g.blocks /\ blocks \subseteq DOMAIN g.blocks
  BY <1>1, <1>2, CoordsType DEF LoadedBlocks, ViewOK
<1>8. ViewTrue(w, owner, truth, mem2)
  <2>1. ASSUME NEW b \in LoadedBlocks(w), Held(owner, b, w.proc), NEW o \in In(b) PROVE mem2[w.proc][o] = truth[o]
    <3>1. b \in DOMAIN g.blocks /\ Held(owner, b, v.proc) /\ (b \in blocks \/ b \in LoadedBlocks(v))
      BY <1>6, <1>7, <2>1
    <3>2. b \in LoadedBlocks(v) => mem[v.proc][o] = truth[o]
      BY <1>2, <2>1, <3>1 DEF ViewTrue
    <3> QED
      BY <1>3, <1>4, <1>6, <2>1, <3>1, <3>2
  <2>2. w.proc = Main => w.full /\ (w.part => Aligned(w))
    BY <1>2, <1>6 DEF ViewTrue, Aligned, Own
  <2> QED
    BY <1>6, <2>1, <2>2 DEF ViewTrue
<1>9. ViewTrue(res, owner, truth, mem2)
  <2>1. LoadedBlocks(res) = blocks
    BY <1>1 DEF LoadedBlocks
  <2> QED
    BY <1>1, <1>3, <1>4, <1>7, <2>1 DEF ViewTrue
<1>10. MainTrue(owner, truth, mem2)
  <2> SUFFICES ASSUME NEW o \in Cells, owner[o] = Main PROVE mem2[Main][o] = truth[o]
    BY DEF MainTrue
  <2>1. mem[Main][o] = truth[o]
    BY DEF Running, MainTrue
  <2>2. PICK b \in DOMAIN g.blocks : o \in In(b)
    BY <1>2, CellBlock
  <2>3. Held(owner, b, Main)
    BY <1>2, <2>2 DEF Held, BlocksOwned
  <2>4. Main \in Procs
    BY DEF Procs
  <2> QED
    BY <1>3, <1>4, <2>1, <2>2, <2>3, <2>4
<1>11. \A x \in Viewed \cup {w, res} : ViewTrue(x, owner, truth, mem2)
  BY <1>5, <1>8, <1>9
<1>12. Running(owner, truth, mem2, pending, table, Viewed \cup {w, res})
  BY <1>10, <1>11 DEF Running
<1>13. ASSUME NEW o \in Own(res) PROVE memory[o] = truth[o]
  <2>1. ValidSer(res.ser) /\ res.axes = Positions(res.ser)
    BY <1>1 DEF ViewOK
  <2>2. PICK b \in blocks : o \in In(b)
    BY <1>1, <1>2, <2>1, SelectedIn
  <2>3. Held(owner, b, v.proc)
    BY <1>1, <1>2, <1>7, <2>2 DEF Holds, Held, BlocksOwned
  <2> QED
    BY <1>4, <1>7, <2>2, <2>3
<1> QED
  BY <1>12, <1>13

\* A part holds the values as long as its block is not written.
LEMMA TrueKept ==
  ASSUME NEW q, NEW b, NEW tr, TruePart(q, b, tr), NEW tr2, \A o \in In(b) : tr2[o] = tr[o]
  PROVE  TruePart(q, b, tr2)
BY DEF TruePart, In, Range

\* What a call of store_numpy queues is the memory it is given.
\* The blocks that a call of store_numpy stores.
Covered(blocks) == IF blocks = {} THEN DOMAIN g.blocks ELSE blocks

\* The parts that are queued hold what is in memory.
LEMMA StoredTrue ==
  ASSUME ArrayCut, NEW blocks, blocks \subseteq DOMAIN g.blocks, NEW memory, DOMAIN memory = Cells, NEW tr,
         \A b \in Covered(blocks) : \A o \in In(b) : memory[o] = tr[o]
  PROVE  \A q \in Stored(blocks, memory) : \E b \in Covered(blocks) :
           q = getNextPartition(g, b, memory) /\ q.key = Key(b) /\ TruePart(q, b, tr)
<1>1. ASSUME NEW b \in Covered(blocks)
      PROVE  getNextPartition(g, b, memory).key = Key(b) /\ TruePart(getNextPartition(g, b, memory), b, tr)
  <2>1. PICK f : f = g.blocks[b].offsets
    OBVIOUS
  <2>2. PICK q : q = getNextPartition(g, b, memory)
    OBVIOUS
  <2>3. q.key = Key(b) /\ q.data = [x \in DOMAIN f |-> IF f[x] \in DOMAIN memory THEN memory[f[x]] ELSE "garbage"]
    BY <2>1, <2>2 DEF getNextPartition, Key
  <2>4. b \in DOMAIN g.blocks /\ In(b) \subseteq Cells
    BY <1>1, InCells DEF Covered
  <2>5. \A x \in DOMAIN f : f[x] \in In(b)
    BY <2>1 DEF In, Range
  <2>6. \A x \in DOMAIN f : q.data[x] = tr[f[x]]
    BY <1>1, <2>3, <2>4, <2>5
  <2> QED
    BY <2>1, <2>2, <2>3, <2>6 DEF TruePart
<1> QED
  BY <1>1 DEF Stored, Covered

\* Blocks that are left to the process are queued behind what it has queued.
LEMMA QueueAppend ==
  ASSUME ArrayCut, NEW s, QueueOK(s), NEW p, NEW own, NEW tr, QueueTrue(s, p, own, tr),
         NEW blocks, blocks \subseteq DOMAIN g.blocks, NEW B, B = Covered(blocks),
         \A b \in B : Held(own, b, p),
         NEW memory, DOMAIN memory = Cells, NEW tr2,
         \A b \in B : \A o \in In(b) : memory[o] = tr2[o],
         \A b \in DOMAIN g.blocks \ B : \A o \in In(b) : tr2[o] = tr[o]
  PROVE  /\ QueueTrue(Append(s, Stored(blocks, memory)), p, own, tr2)
         /\ \A b \in DOMAIN g.blocks : InQueue(Append(s, Stored(blocks, memory)), b) <=> InQueue(s, b) \/ b \in B
<1>1. PICK S : S = Stored(blocks, memory)
  OBVIOUS
<1>2. PICK t : t = Append(s, S)
  OBVIOUS
<1>3. /\ Len(s) \in Nat /\ Len(t) = Len(s) + 1
      /\ \A i \in 1..Len(s) : t[i] = s[i]
      /\ t[Len(s) + 1] = S
  BY <1>2, AppendSequence, SequenceDomain DEF QueueOK
<1>4. /\ \A q \in S : \E b \in B : q = getNextPartition(g, b, memory) /\ q.key = Key(b) /\ TruePart(q, b, tr2)
      /\ \A b \in B : \E q \in S : q.key = Key(b)
      /\ B \subseteq DOMAIN g.blocks
  <2>1. \A q \in S : \E b \in B : q = getNextPartition(g, b, memory) /\ q.key = Key(b) /\ TruePart(q, b, tr2)
    BY <1>1, StoredTrue
  <2>2. \A b \in B : \E q \in S : q.key = Key(b)
    <3>1. \A b \in B : getNextPartition(g, b, memory) \in S
      BY <1>1 DEF Stored, Covered
    <3>2. \A b \in DOMAIN g.blocks : PartOf(getNextPartition(g, b, memory), b)
      BY DEF PartOf, getNextPartition
    <3>3. B \subseteq DOMAIN g.blocks
      BY DEF Covered
    <3> QED
      BY <3>1, <3>2, <3>3 DEF PartOf, Key
  <2> QED
    BY <2>1, <2>2 DEF Covered
<1>5. \A b \in DOMAIN g.blocks : Queued(t, Len(s) + 1, b) <=> b \in B
  BY <1>3, <1>4, OneKey DEF Queued
<1>6. \A i \in 1..Len(s) : \A b \in DOMAIN g.blocks : Queued(t, i, b) <=> Queued(s, i, b)
  BY <1>3 DEF Queued
<1>7. ASSUME NEW i \in 1..Len(t), NEW q \in t[i], NEW b \in DOMAIN g.blocks, q.key = Key(b)
      PROVE  /\ Held(own, b, p)
             /\ \A r \in t[i] : r.key = Key(b) => r = q
             /\ (\A k \in (i + 1)..Len(t) : ~ Queued(t, k, b)) => TruePart(q, b, tr2)
  <2>1. CASE i \in 1..Len(s)
    <3>1. q \in s[i] /\ s[i] = t[i]
      BY <1>3, <1>7, <2>1
    <3>2. /\ Held(own, b, p)
          /\ \A r \in s[i] : r.key = Key(b) => r = q
          /\ (\A k \in (i + 1)..Len(s) : ~ Queued(s, k, b)) => TruePart(q, b, tr)
      BY <1>7, <2>1, <3>1 DEF QueueTrue
    <3>3. ASSUME \A k \in (i + 1)..Len(t) : ~ Queued(t, k, b) PROVE TruePart(q, b, tr2)
      <4>1. b \notin B
        BY <1>3, <1>5, <2>1, <3>3
      <4>2. \A k \in (i + 1)..Len(s) : ~ Queued(s, k, b)
        BY <1>3, <1>6, <2>1, <3>3
      <4>3. \A o \in In(b) : tr2[o] = tr[o]
        BY <4>1
      <4> QED
        BY <3>2, <4>2, <4>3, TrueKept
    <3> QED
      BY <3>1, <3>2, <3>3
  <2>2. CASE i = Len(s) + 1
    <3>1. PICK a \in B : q = getNextPartition(g, a, memory) /\ q.key = Key(a) /\ TruePart(q, a, tr2)
      BY <1>3, <1>4, <1>7, <2>2
    <3>2. a = b
      BY <1>4, <1>7, <3>1, OneKey
    <3>3. ASSUME NEW r \in t[i], r.key = Key(b) PROVE r = q
      <4>1. PICK c \in B : r = getNextPartition(g, c, memory) /\ r.key = Key(c)
        BY <1>3, <1>4, <2>2, <3>3
      <4>2. c = b
        BY <1>4, <3>3, <4>1, OneKey
      <4> QED
        BY <3>1, <3>2, <4>1, <4>2
    <3> QED
      BY <3>1, <3>2, <3>3
  <2> QED
    BY <1>3, <2>1, <2>2
<1>8. QueueTrue(t, p, own, tr2)
  BY <1>7 DEF QueueTrue
<1>9. \A b \in DOMAIN g.blocks : InQueue(t, b) <=> InQueue(s, b) \/ b \in B
  <2> SUFFICES ASSUME NEW b \in DOMAIN g.blocks PROVE InQueue(t, b) <=> InQueue(s, b) \/ b \in B
    OBVIOUS
  <2>1. \A i : i \in 1..Len(t) <=> i \in 1..Len(s) \/ i = Len(s) + 1
    BY <1>3
  <2> QED
    BY <1>5, <1>6, <2>1 DEF InQueue
<1> QED
  BY <1>1, <1>2, <1>8, <1>9

\* Another process's queue: none of its blocks changes.
LEMMA QueueKept ==
  ASSUME NEW s, NEW p, NEW own, NEW tr, QueueTrue(s, p, own, tr), NEW own2, NEW tr2,
         \A b \in DOMAIN g.blocks : Held(own, b, p) => Held(own2, b, p) /\ \A o \in In(b) : tr2[o] = tr[o]
  PROVE  QueueTrue(s, p, own2, tr2)
<1> SUFFICES ASSUME NEW i \in 1..Len(s), NEW q \in s[i], NEW b \in DOMAIN g.blocks, q.key = Key(b)
             PROVE  /\ Held(own2, b, p)
                    /\ \A r \in s[i] : r.key = Key(b) => r = q
                    /\ (\A k \in (i + 1)..Len(s) : ~ Queued(s, k, b)) => TruePart(q, b, tr2)
  BY DEF QueueTrue
<1>1. /\ Held(own, b, p)
      /\ \A r \in s[i] : r.key = Key(b) => r = q
      /\ (\A k \in (i + 1)..Len(s) : ~ Queued(s, k, b)) => TruePart(q, b, tr)
  BY DEF QueueTrue
<1> QED
  BY <1>1, TrueKept

\* A write: the blocks are left to the process as a whole, and hold their values before it.
LEMMA RunningWrite ==
  ASSUME TypeInv, Running(owner, truth, mem, pending, table, Viewed),
         NEW v \in Viewed, NEW elements, NEW blocks, NEW memory, memory = load_numpy_slices(v, blocks),
         NEW w, w = _select_and_load_blocks(v, blocks), WriteEffect(v, elements, blocks, memory, w),
         NEW tr2, tr2 = Over(truth, elements), NEW new, new = Over(memory, elements),
         NEW mem2, mem2 = [mem EXCEPT ![v.proc] = new],
         NEW pend2, pend2 = [pending EXCEPT ![v.proc] = Append(@, Stored(blocks, new))], blocks # {}
  PROVE  Running(owner, tr2, mem2, pend2, table, Viewed \cup {w})
<1> DEFINE p == v.proc
<1>1. /\ ViewOK(v) /\ blocks \subseteq calculate_block_coords(v.ser) /\ ViewOK(w)
      /\ elements \subseteq Cells
      /\ \A o \in elements : \E b \in blocks : o \in In(b)
      /\ \A b \in blocks : \E o \in In(b) : owner[o] = p
  BY DEF WriteEffect
<1>2. /\ ArrayCut /\ p \in Procs /\ DOMAIN mem = Procs /\ DOMAIN pending = Procs
      /\ ViewTrue(v, owner, truth, mem) /\ BlocksOwned(owner)
      /\ \A x \in Viewed : ViewOK(x) /\ ViewTrue(x, owner, truth, mem)
      /\ \A r \in Procs : QueueOK(pending[r]) /\ QueueTrue(pending[r], r, owner, truth)
      /\ TableTrue(pending, table, truth)
      /\ MainTrue(owner, truth, mem)
  BY <1>1, ViewedOK DEF TypeInv, ViewOK, Running
<1>3. blocks \subseteq DOMAIN g.blocks /\ \A b \in DOMAIN g.blocks : In(b) \subseteq Cells /\ In(b) # {}
  BY <1>1, <1>2, CoordsType, InCells, SomeCell DEF ViewOK
<1>4. \A b \in blocks : Held(owner, b, p)
  BY <1>1, <1>2, <1>3 DEF Held, BlocksOwned
<1>5. \A b \in DOMAIN g.blocks \ blocks : \A o \in In(b) : o \notin elements
  BY <1>1, <1>2, <1>3, OneBlock
<1>6. \A b \in DOMAIN g.blocks : Held(owner, b, p) =>
        \A o \in In(b) : memory[o] = IF b \in blocks THEN truth[o] ELSE mem[p][o]
  BY <1>1, LoadTrue
<1>7. /\ mem2[p] = new /\ \A r \in Procs \ {p} : mem2[r] = mem[r]
      /\ pend2[p] = Append(pending[p], Stored(blocks, new)) /\ \A r \in Procs \ {p} : pend2[r] = pending[r]
      /\ \A o \in Cells : /\ new[o] = (IF o \in elements THEN -1 ELSE memory[o])
                          /\ tr2[o] = (IF o \in elements THEN -1 ELSE truth[o])
      /\ DOMAIN new = Cells
  BY <1>2 DEF Over
<1> HIDE DEF p
\* The blocks that are written hold their new values, the others are as they were.
<1>8. \A b \in blocks : \A o \in In(b) : new[o] = tr2[o]
  BY <1>3, <1>4, <1>6, <1>7
<1>9. \A b \in DOMAIN g.blocks \ blocks : \A o \in In(b) :
        tr2[o] = truth[o] /\ (Held(owner, b, p) => new[o] = mem[p][o])
  BY <1>3, <1>5, <1>6, <1>7
<1>10. \A r \in Procs : Keeps(r, owner, truth, mem, owner, tr2, mem2)
  <2> SUFFICES ASSUME NEW r \in Procs, NEW b \in DOMAIN g.blocks, Held(owner, b, r), NEW o \in In(b), mem[r][o] = truth[o]
               PROVE  mem2[r][o] = tr2[o]
    BY DEF Keeps
  <2>1. CASE r = p
    BY <1>7, <1>8, <1>9, <2>1
  <2>2. CASE r # p
    <3>1. b \notin blocks
      BY <1>3, <1>4, <2>2 DEF Held
    <3> QED
      BY <1>7, <1>9, <2>2, <3>1
  <2> QED
    BY <2>1, <2>2
<1>11. \A x \in Viewed : ViewTrue(x, owner, tr2, mem2)
  BY <1>2, <1>10, ViewKept DEF ViewOK
<1>12. ViewTrue(w, owner, tr2, mem2)
  <2>1. /\ blocks \subseteq LoadedBlocks(w)
        /\ LoadedBlocks(w) \subseteq LoadedBlocks(v) \cup blocks
        /\ ~ w.full => w.loaded \subseteq calculate_block_coords(w.ser)
        /\ w.proc = v.proc /\ w.ser = v.ser /\ w.part = v.part /\ w.axes = v.axes
        /\ v.full => w.full
    BY <1>1, <1>2, LoadedNow
  <2>2. ASSUME NEW b \in LoadedBlocks(w), Held(owner, b, w.proc), NEW o \in In(b) PROVE mem2[w.proc][o] = tr2[o]
    <3>1. CASE b \in blocks
      BY <1>7, <1>8, <2>1, <2>2, <3>1 DEF p
    <3>2. CASE b \notin blocks
      <4>1. b \in LoadedBlocks(v) /\ ViewTrue(v, owner, tr2, mem2)
        BY <1>11, <2>1, <2>2, <3>2
      <4> QED
        BY <2>1, <2>2, <4>1 DEF ViewTrue
    <3> QED
      BY <3>1, <3>2
  <2>3. w.proc = Main => w.full /\ (w.part => Aligned(w))
    BY <1>2, <2>1 DEF ViewTrue, Aligned, Own
  <2> QED
    BY <2>1, <2>2, <2>3 DEF ViewTrue
<1>13. MainTrue(owner, tr2, mem2)
  <2> SUFFICES ASSUME NEW o \in Cells, owner[o] = Main PROVE mem2[Main][o] = tr2[o]
    BY DEF MainTrue
  <2>1. mem[Main][o] = truth[o] /\ Main \in Procs
    BY <1>2 DEF MainTrue, Procs
  <2>2. PICK b \in DOMAIN g.blocks : o \in In(b)
    BY <1>2, CellBlock
  <2>3. Held(owner, b, Main)
    BY <1>2, <2>2 DEF Held, BlocksOwned
  <2> QED
    BY <1>10, <2>1, <2>2, <2>3 DEF Keeps
<1>14. /\ QueueTrue(pend2[p], p, owner, tr2)
       /\ \A b \in DOMAIN g.blocks : InQueue(pend2[p], b) <=> InQueue(pending[p], b) \/ b \in blocks
  <2>1. PICK s : s = pending[p]
    OBVIOUS
  <2>2. QueueOK(s) /\ QueueTrue(s, p, owner, truth) /\ pend2[p] = Append(s, Stored(blocks, new))
    BY <1>2, <1>7, <2>1
  <2>3. blocks = Covered(blocks)
    BY DEF Covered
  <2>4. \A b \in DOMAIN g.blocks \ blocks : \A o \in In(b) : tr2[o] = truth[o]
    BY <1>9
  <2>5. /\ QueueTrue(Append(s, Stored(blocks, new)), p, owner, tr2)
        /\ \A b \in DOMAIN g.blocks : InQueue(Append(s, Stored(blocks, new)), b) <=> InQueue(s, b) \/ b \in blocks
    BY <1>2, <1>3, <1>4, <1>7, <1>8, <2>2, <2>3, <2>4, QueueAppend
  <2> QED
    BY <2>1, <2>2, <2>5
<1>15. \A r \in Procs : QueueTrue(pend2[r], r, owner, tr2)
  <2> SUFFICES ASSUME NEW r \in Procs, r # p PROVE QueueTrue(pend2[r], r, owner, tr2)
    BY <1>14
  <2>1. pend2[r] = pending[r] /\ QueueTrue(pending[r], r, owner, truth)
    BY <1>2, <1>7
  <2>2. \A b \in DOMAIN g.blocks : Held(owner, b, r) => b \notin blocks
    BY <1>3, <1>4 DEF Held
  <2>3. \A b \in DOMAIN g.blocks : Held(owner, b, r) => Held(owner, b, r) /\ \A o \in In(b) : tr2[o] = truth[o]
    BY <1>9, <2>2
  <2> QED
    BY <2>1, <2>3, QueueKept
<1>16. TableTrue(pend2, table, tr2)
  <2> SUFFICES ASSUME NEW b \in DOMAIN g.blocks, \A r \in Procs : ~ InQueue(pend2[r], b)
               PROVE  \E q \in table : q.key = Key(b) /\ TruePart(q, b, tr2)
    BY <1>2 DEF TableTrue
  <2>1. b \notin blocks /\ \A r \in Procs : ~ InQueue(pending[r], b)
    BY <1>2, <1>7, <1>14
  <2>2. PICK q \in table : q.key = Key(b) /\ TruePart(q, b, truth)
    BY <1>2, <2>1 DEF TableTrue
  <2> QED
    BY <1>9, <2>1, <2>2, TrueKept
<1> QED
  BY <1>2, <1>11, <1>12, <1>13, <1>15, <1>16 DEF Running

\* The queue without a block of its first call: if it was the last of its block, it holds its values.
LEMMA WithoutTrue ==
  ASSUME NEW s, QueueOK(s), s # << >>, NEW q \in Head(s), NEW p, NEW own, NEW tr, QueueTrue(s, p, own, tr)
  PROVE  /\ QueueTrue(Without(s, q), p, own, tr)
         /\ \A b \in DOMAIN g.blocks :
              InQueue(s, b) => InQueue(Without(s, q), b) \/ (q.key = Key(b) /\ TruePart(q, b, tr))
<1>1. /\ Len(Tail(s)) = Len(s) - 1 /\ Len(s) >= 1 /\ Len(s) \in Nat
      /\ \A i \in 1..(Len(s) - 1) : Tail(s)[i] = s[i + 1]
      /\ Head(s) = s[1]
  BY TailSequence, SequenceDomain DEF QueueOK
<1>2. PICK t : t = Without(s, q)
  OBVIOUS
<1>3. PICK n \in Nat : n = Len(s) /\ n >= 1
  BY <1>1
<1>4. \A b \in DOMAIN g.blocks : q.key = Key(b) /\ (\A k \in 2..n : ~ Queued(s, k, b)) => TruePart(q, b, tr)
  <2>1. 1 \in 1..Len(s) /\ (1 + 1)..Len(s) = 2..n
    BY <1>1, <1>3
  <2> QED
    BY <1>1, <2>1 DEF QueueTrue
<1>5. CASE Head(s) = {q}
  <2>1. t = Tail(s)
    BY <1>2, <1>5 DEF Without
  <2>2. Len(t) = n - 1 /\ \A i \in 1..(n - 1) : t[i] = s[i + 1]
    BY <1>1, <1>3, <2>1
  <2>3. \A k \in 1..(n - 1) : \A b : Queued(t, k, b) <=> Queued(s, k + 1, b)
    BY <2>2 DEF Queued
  <2>4. QueueTrue(t, p, own, tr)
    <3> SUFFICES ASSUME NEW i \in 1..(n - 1), NEW x \in t[i], NEW b \in DOMAIN g.blocks, x.key = Key(b)
                 PROVE  /\ Held(own, b, p)
                        /\ \A r \in t[i] : r.key = Key(b) => r = x
                        /\ (\A k \in (i + 1)..Len(t) : ~ Queued(t, k, b)) => TruePart(x, b, tr)
      BY <2>2 DEF QueueTrue
    <3>1. i + 1 \in 1..Len(s) /\ x \in s[i + 1] /\ t[i] = s[i + 1]
      BY <1>3, <2>2
    <3>2. /\ Held(own, b, p)
          /\ \A r \in s[i + 1] : r.key = Key(b) => r = x
          /\ (\A k \in (i + 1 + 1)..Len(s) : ~ Queued(s, k, b)) => TruePart(x, b, tr)
      BY <3>1 DEF QueueTrue
    <3>3. ASSUME \A k \in (i + 1)..Len(t) : ~ Queued(t, k, b), NEW k \in (i + 1 + 1)..Len(s) PROVE ~ Queued(s, k, b)
      <4>1. k - 1 \in (i + 1)..Len(t) /\ k - 1 \in 1..(n - 1) /\ (k - 1) + 1 = k
        BY <1>3, <2>2, <3>3
      <4>2. ~ Queued(t, k - 1, b)
        BY <3>3, <4>1
      <4> QED
        BY <2>3, <4>1, <4>2
    <3> QED
      BY <3>1, <3>2, <3>3
  <2>5. ASSUME NEW b \in DOMAIN g.blocks, InQueue(s, b), ~ InQueue(t, b)
        PROVE  q.key = Key(b) /\ TruePart(q, b, tr)
    <3>1. PICK k \in 1..n : Queued(s, k, b)
      BY <1>3, <2>5 DEF InQueue
    <3>2. \A i \in 2..n : ~ Queued(s, i, b)
      <4> SUFFICES ASSUME NEW i \in 2..n, Queued(s, i, b) PROVE FALSE
        OBVIOUS
      <4>1. i - 1 \in 1..(n - 1) /\ (i - 1) + 1 = i
        BY <1>3
      <4>2. Queued(t, i - 1, b)
        BY <2>3, <4>1
      <4> QED
        BY <2>2, <2>5, <4>1, <4>2 DEF InQueue
    <3>3. k = 1
      BY <1>3, <3>1, <3>2
    <3>4. q.key = Key(b)
      BY <1>1, <1>5, <3>1, <3>3 DEF Queued
    <3> QED
      BY <1>4, <3>2, <3>4
  <2> QED
    BY <1>2, <2>4, <2>5
<1>6. CASE Head(s) # {q}
  <2>0. PICK S : s \in Seq(S) /\ Head(s) \ {q} \in S
    BY Widened DEF QueueOK
  <2>1. t = [s EXCEPT ![1] = Head(s) \ {q}]
    BY <1>2, <1>6 DEF Without
  <2>2. t \in [DOMAIN s -> S] /\ t[1] = Head(s) \ {q} /\ \A i \in 2..n : t[i] = s[i]
    BY <1>1, <1>3, <2>0, <2>1
  <2>3. Len(t) = n
    BY <1>3, <2>2, MapSequence DEF QueueOK
  <2>4. \A k \in 2..n : \A b : Queued(t, k, b) <=> Queued(s, k, b)
    BY <2>2 DEF Queued
  <2>5. QueueTrue(t, p, own, tr)
    <3> SUFFICES ASSUME NEW i \in 1..n, NEW x \in t[i], NEW b \in DOMAIN g.blocks, x.key = Key(b)
                 PROVE  /\ Held(own, b, p)
                        /\ \A r \in t[i] : r.key = Key(b) => r = x
                        /\ (\A k \in (i + 1)..Len(t) : ~ Queued(t, k, b)) => TruePart(x, b, tr)
      BY <2>3 DEF QueueTrue
    <3>1. t[i] \subseteq s[i] /\ i \in 1..Len(s)
      <4>1. CASE i = 1
        BY <1>1, <1>3, <2>2, <4>1
      <4>2. CASE i # 1
        BY <1>3, <2>2, <4>2
      <4> QED
        BY <4>1, <4>2
    <3>2. /\ Held(own, b, p)
          /\ \A r \in s[i] : r.key = Key(b) => r = x
          /\ (\A k \in (i + 1)..Len(s) : ~ Queued(s, k, b)) => TruePart(x, b, tr)
      BY <3>1 DEF QueueTrue
    <3>3. \A k \in (i + 1)..Len(s) : k \in 2..n /\ k \in (i + 1)..Len(t)
      BY <1>3, <2>3
    <3> QED
      BY <2>4, <3>1, <3>2, <3>3
  <2>6. ASSUME NEW b \in DOMAIN g.blocks, InQueue(s, b), ~ InQueue(t, b)
        PROVE  q.key = Key(b) /\ TruePart(q, b, tr)
    <3>1. PICK k \in 1..n : Queued(s, k, b)
      BY <1>3, <2>6 DEF InQueue
    <3>2. \A i \in 2..n : ~ Queued(s, i, b)
      BY <1>3, <2>3, <2>4, <2>6 DEF InQueue
    <3>3. k = 1
      BY <1>3, <3>1, <3>2
    <3>4. ~ Queued(t, 1, b)
      BY <1>3, <2>3, <2>6 DEF InQueue
    <3>5. q.key = Key(b)
      BY <1>1, <2>2, <3>1, <3>3, <3>4 DEF Queued
    <3> QED
      BY <1>4, <3>2, <3>5
  <2> QED
    BY <1>2, <2>5, <2>6
<1> QED
  BY <1>5, <1>6

\* A part is stored: the queue of its process has the later ones.
LEMMA RunningApplied ==
  ASSUME TypeInv, NEW vs, Running(owner, truth, mem, pending, table, vs),
         NEW p \in Procs, pending[p] # << >>, NEW q \in Head(pending[p]),
         NEW tab2, tab2 = {r \in table : r.key # q.key} \cup {q},
         NEW pend2, pend2 = [pending EXCEPT ![p] = Without(@, q)]
  PROVE  Running(owner, truth, mem, pend2, tab2, vs)
<1>1. /\ QueueOK(pending[p]) /\ DOMAIN pending = Procs
      /\ \A r \in Procs : QueueTrue(pending[r], r, owner, truth)
      /\ TableTrue(pending, table, truth)
  BY DEF TypeInv, Running
<1>2. pend2[p] = Without(pending[p], q) /\ \A r \in Procs \ {p} : pend2[r] = pending[r]
  BY <1>1
<1>3. /\ QueueTrue(Without(pending[p], q), p, owner, truth)
      /\ \A b \in DOMAIN g.blocks :
           InQueue(pending[p], b) => InQueue(Without(pending[p], q), b) \/ (q.key = Key(b) /\ TruePart(q, b, truth))
  BY <1>1, WithoutTrue
<1>4. \A r \in Procs : QueueTrue(pend2[r], r, owner, truth)
  BY <1>1, <1>2, <1>3
<1>5. TableTrue(pend2, tab2, truth)
  <2> SUFFICES ASSUME NEW b \in DOMAIN g.blocks
               PROVE  /\ \A x, y \in tab2 : x.key = Key(b) /\ y.key = Key(b) => x = y
                      /\ (\A r \in Procs : ~ InQueue(pend2[r], b)) => \E x \in tab2 : x.key = Key(b) /\ TruePart(x, b, truth)
    BY DEF TableTrue
  <2>1. \A x, y \in tab2 : x.key = Key(b) /\ y.key = Key(b) => x = y
    BY <1>1 DEF TableTrue
  <2>2. ASSUME \A r \in Procs : ~ InQueue(pend2[r], b)
        PROVE  \E x \in tab2 : x.key = Key(b) /\ TruePart(x, b, truth)
    <3>1. CASE q.key = Key(b) /\ TruePart(q, b, truth)
      BY <3>1
    <3>2. CASE ~ (q.key = Key(b) /\ TruePart(q, b, truth))
      <4>1. \A r \in Procs : ~ InQueue(pending[r], b)
        BY <1>2, <1>3, <2>2, <3>2
      <4>2. PICK x \in table : x.key = Key(b) /\ TruePart(x, b, truth)
        BY <1>1, <4>1 DEF TableTrue
      <4>3. q.key # Key(b)
        <5>1. InQueue(pending[p], b) \/ q.key # Key(b)
          <6>1. Head(pending[p]) = pending[p][1] /\ Len(pending[p]) >= 1 /\ Len(pending[p]) \in Nat
            BY <1>1, TailSequence, SequenceDomain DEF QueueOK
          <6> QED
            BY <6>1 DEF InQueue, Queued
        <5> QED
          BY <4>1, <5>1
      <4> QED
        BY <4>2, <4>3
    <3> QED
      BY <3>1, <3>2
  <2> QED
    BY <2>1, <2>2
<1> QED
  BY <1>4, <1>5 DEF Running

\* A block of the elements that are handed over is handed over as a whole: the process that
\* had it has nothing queued.
LEMMA RunningHand ==
  ASSUME TypeInv, Running(owner, truth, mem, pending, table, Viewed),
         NEW v \in Viewed, v.proc = Main, v.part, Holds(Main, Own(v)), pending[Main] = << >>,
         v.sid \notin Procs, NEW own2, own2 = [o \in Offsets |-> IF o \in Own(v) THEN v.sid ELSE owner[o]]
  PROVE  Running(own2, truth, mem, pending, table, Viewed)
<1>1. /\ ArrayCut /\ Offsets = Cells /\ BlocksOwned(owner) /\ MainTrue(owner, truth, mem)
      /\ \A x \in Viewed : ViewOK(x) /\ ViewTrue(x, owner, truth, mem)
      /\ \A r \in Procs : QueueTrue(pending[r], r, owner, truth)
      /\ TableTrue(pending, table, truth)
      /\ Main \in Procs
  BY TypeFacts, ViewedOK DEF Running, Procs
<1>2. Aligned(v) /\ ValidSer(v.ser) /\ v.axes = Positions(v.ser)
  BY <1>1 DEF ViewTrue, ViewOK
<1>3. \A b \in DOMAIN g.blocks : In(b) \subseteq Cells /\ In(b) # {}
  BY <1>1, InCells, SomeCell
<1>4. \A o \in Cells : own2[o] = IF o \in Own(v) THEN v.sid ELSE owner[o]
  BY <1>1
<1>5. \A b \in DOMAIN g.blocks : In(b) \subseteq Own(v) \/ In(b) \cap Own(v) = {}
  <2> SUFFICES ASSUME NEW b \in DOMAIN g.blocks, NEW o \in In(b), o \in Own(v) PROVE In(b) \subseteq Own(v)
    OBVIOUS
  <2>1. PICK a \in calculate_block_coords(v.ser) : o \in In(a)
    BY <1>1, <1>2, SelectedIn
  <2>2. a \in DOMAIN g.blocks
    BY <1>1, <1>2, CoordsType
  <2>3. a = b
    BY <1>1, <2>1, <2>2, OneBlock
  <2> QED
    BY <1>2, <2>3 DEF Aligned
<1>6. BlocksOwned(own2)
  <2> SUFFICES ASSUME NEW b \in DOMAIN g.blocks, NEW o \in In(b), NEW u \in In(b) PROVE own2[o] = own2[u]
    BY DEF BlocksOwned
  <2>1. owner[o] = owner[u] /\ o \in Cells /\ u \in Cells
    BY <1>1, <1>3 DEF BlocksOwned
  <2>2. o \in Own(v) <=> u \in Own(v)
    BY <1>5
  <2> QED
    BY <1>4, <2>1, <2>2
<1>7. \A r \in Procs : \A b \in DOMAIN g.blocks : Held(own2, b, r) => Held(owner, b, r)
  <2> SUFFICES ASSUME NEW r \in Procs, NEW b \in DOMAIN g.blocks, Held(own2, b, r), NEW o \in In(b) PROVE owner[o] = r
    BY DEF Held
  <2>1. own2[o] = r /\ o \in Cells
    BY <1>3 DEF Held
  <2> QED
    BY <1>4, <2>1
<1>8. \A r \in Procs : Keeps(r, owner, truth, mem, own2, truth, mem)
  BY <1>7 DEF Keeps
<1>9. \A x \in Viewed : ViewTrue(x, own2, truth, mem)
  BY <1>1, <1>8, ViewKept DEF ViewOK
<1>10. MainTrue(own2, truth, mem)
  <2> SUFFICES ASSUME NEW o \in Cells, own2[o] = Main PROVE mem[Main][o] = truth[o]
    BY DEF MainTrue
  <2>1. owner[o] = Main
    BY <1>1, <1>4
  <2> QED
    BY <1>1, <2>1 DEF MainTrue
<1>11. \A r \in Procs : QueueTrue(pending[r], r, own2, truth)
  <2> SUFFICES ASSUME NEW r \in Procs PROVE QueueTrue(pending[r], r, own2, truth)
    OBVIOUS
  <2>1. CASE r = Main
    <3>1. Len(pending[r]) = 0
      BY <2>1
    <3> QED
      BY <3>1 DEF QueueTrue
  <2>2. CASE r # Main
    <3>1. ASSUME NEW b \in DOMAIN g.blocks, Held(owner, b, r) PROVE Held(own2, b, r)
      <4> SUFFICES ASSUME NEW o \in In(b) PROVE own2[o] = r
        BY DEF Held
      <4>1. owner[o] = r /\ o \in Cells
        BY <1>3, <3>1 DEF Held
      <4>2. o \notin Own(v)
        BY <2>2, <4>1 DEF Holds
      <4> QED
        BY <1>4, <4>1, <4>2
    <3>2. QueueTrue(pending[r], r, owner, truth)
      BY <1>1
    <3>3. \A b \in DOMAIN g.blocks : Held(owner, b, r) => Held(own2, b, r) /\ \A o \in In(b) : truth[o] = truth[o]
      BY <3>1
    <3> QED
      BY <3>2, <3>3, QueueKept
  <2> QED
    BY <2>1, <2>2
<1> QED
  BY <1>1, <1>6, <1>9, <1>10, <1>11 DEF Running

\* A process opens the array: it has nothing in memory, and no view that says so.
LEMMA RunningOpen ==
  ASSUME TypeInv, Running(owner, truth, mem, pending, table, Viewed),
         NEW p \in Workers, NEW sid, sid \notin Procs, NEW w, Opened(p, sid, w),
         NEW own2, own2 = [o \in Offsets |-> IF owner[o] = sid THEN p ELSE owner[o]],
         NEW mem2, mem2 = [mem EXCEPT ![p] = reserve_numpy_space]
  PROVE  Running(own2, truth, mem2, pending, table, Viewed \cup {w})
<1>1. /\ ArrayCut /\ Offsets = Cells /\ BlocksOwned(owner) /\ MainTrue(owner, truth, mem)
      /\ \A x \in Viewed : ViewOK(x) /\ ViewTrue(x, owner, truth, mem)
      /\ \A r \in Procs : QueueTrue(pending[r], r, owner, truth)
      /\ TableTrue(pending, table, truth)
      /\ Main \in Procs /\ p # Main /\ DOMAIN mem = Procs
  BY TypeFacts, ViewedOK, NumpyAssumption DEF Running, Procs, TypeInv
<1>2. \A b \in DOMAIN g.blocks : In(b) \subseteq Cells
  BY <1>1, InCells
<1>3. (\A o \in Cells : own2[o] = IF owner[o] = sid THEN p ELSE owner[o]) /\ \A r \in Procs \ {p} : mem2[r] = mem[r]
  BY <1>1
<1>4. BlocksOwned(own2)
  BY <1>1, <1>2, <1>3 DEF BlocksOwned
<1>5. \A r \in Procs : \A b \in DOMAIN g.blocks : Held(owner, b, r) => Held(own2, b, r)
  <2> SUFFICES ASSUME NEW r \in Procs, NEW b \in DOMAIN g.blocks, Held(owner, b, r), NEW o \in In(b) PROVE own2[o] = r
    BY DEF Held
  <2>1. owner[o] = r /\ o \in Cells
    BY <1>2 DEF Held
  <2> QED
    BY <1>3, <2>1
<1>6. \A r \in Procs \ {p} : \A b \in DOMAIN g.blocks : Held(own2, b, r) => Held(owner, b, r)
  <2> SUFFICES ASSUME NEW r \in Procs \ {p}, NEW b \in DOMAIN g.blocks, Held(own2, b, r), NEW o \in In(b) PROVE owner[o] = r
    BY DEF Held
  <2>1. own2[o] = r /\ o \in Cells
    BY <1>2 DEF Held
  <2> QED
    BY <1>3, <2>1
<1>7. \A r \in Procs \ {p} : Keeps(r, owner, truth, mem, own2, truth, mem2)
  BY <1>3, <1>6 DEF Keeps
<1>8. (\A x \in Viewed : x.proc # p) /\ ViewOK(w) /\ w.proc = p /\ w.loaded = {} /\ w.full = FALSE
  BY DEF Opened
<1>9. \A x \in Viewed : ViewTrue(x, own2, truth, mem2)
  BY <1>1, <1>7, <1>8, ViewKept DEF ViewOK
<1>10. ViewTrue(w, own2, truth, mem2)
  BY <1>1, <1>8 DEF ViewTrue, LoadedBlocks
<1>11. MainTrue(own2, truth, mem2)
  BY <1>1, <1>3 DEF MainTrue
<1>12. \A r \in Procs : QueueTrue(pending[r], r, own2, truth)
  <2> SUFFICES ASSUME NEW r \in Procs PROVE QueueTrue(pending[r], r, own2, truth)
    OBVIOUS
  <2>1. \A b \in DOMAIN g.blocks : Held(owner, b, r) => Held(own2, b, r) /\ \A o \in In(b) : truth[o] = truth[o]
    BY <1>5
  <2> QED
    BY <1>1, <2>1, QueueKept
<1> QED
  BY <1>1, <1>4, <1>9, <1>10, <1>11, <1>12 DEF Running

\* A process ends: what it has queued is still what it wrote.
LEMMA RunningFail ==
  ASSUME TypeInv, Running(owner, truth, mem, pending, table, Viewed),
         NEW v \in Viewed, ~ v.full, NEW mem2, mem2 = [mem EXCEPT ![v.proc] = reserve_numpy_space]
  PROVE  Running(owner, truth, mem2, pending, table, {x \in Viewed : x.proc # v.proc})
<1>1. /\ MainTrue(owner, truth, mem) /\ Main \in Procs /\ DOMAIN mem = Procs
      /\ \A x \in Viewed : ViewOK(x) /\ ViewTrue(x, owner, truth, mem)
  BY ViewedOK DEF Running, Procs, TypeInv
<1>2. v.proc # Main /\ v.proc \in Procs
  BY <1>1 DEF ViewTrue, ViewOK
<1>3. \A r \in Procs \ {v.proc} : mem2[r] = mem[r]
  BY <1>1
<1>4. \A r \in Procs \ {v.proc} : Keeps(r, owner, truth, mem, owner, truth, mem2)
  BY <1>3 DEF Keeps
<1>5. \A x \in {x \in Viewed : x.proc # v.proc} : ViewTrue(x, owner, truth, mem2)
  BY <1>1, <1>4, ViewKept DEF ViewOK
<1>6. MainTrue(owner, truth, mem2)
  BY <1>1, <1>2, <1>3 DEF MainTrue
<1> QED
  BY <1>5, <1>6 DEF Running

-----------------------------------------------------------------------------
(* The array and its parts are whole blocks. *)

\* A slice without a step selects all between its bounds.
LEMMA StepOne ==
  ASSUME NEW n \in Nat \ {0}, NEW s, ValidSlice(s, n), Step(s) = 1, NEW y \in Nat, s.start <= y, y < Stop(s, n)
  PROVE  y \in ToSet(Axis(s, n))
<1>1. s.start \in Nat /\ Stop(s, n) \in Nat /\ Size(s, n) \in Nat /\ IsCeil(Stop(s, n) - s.start, 1, Size(s, n))
  BY SliceSize
<1>2. Size(s, n) = Stop(s, n) - s.start
  BY <1>1 DEF IsCeil
<1>3. PICK f : f = Axis(s, n)
  OBVIOUS
<1>4. f = [i \in 1..Size(s, n) |-> s.start + (i - 1) * 1]
  BY <1>3, AxisOfSlice
<1>5. y - s.start + 1 \in 1..Size(s, n)
  BY <1>1, <1>2
<1>6. f[y - s.start + 1] = y
  BY <1>1, <1>4, <1>5
<1> QED
  BY <1>3, <1>4, <1>5, <1>6 DEF ToSet

\* An index expression of split, applied to an axis of the array.
LEMMA ComposeWhole ==
  ASSUME NEW n \in Nat \ {0}, NEW a \in Nat, NEW b \in Nat, NEW x, x = slice(a, b, 0),
         NEW top \in Nat, top = IF b = 0 THEN n ELSE b
  PROVE  ComposeAxis(n, All, x) = slice(a, Min({top, n}), 1)
<1>1. PICK o : o = removenones(All, n)
  OBVIOUS
<1>2. PICK w : w = removenones(x, n)
  OBVIOUS
<1>3. o.start = 0 /\ o.stop = n /\ o.step = 1
  BY <1>1 DEF removenones, All, slice
<1>4. x.kind = "slice" /\ w.start = a /\ w.stop = top /\ w.step = 1
  BY <1>2 DEF removenones, slice
<1>5. \A p \in Nat : _compose_index(o, p) = p
  BY <1>3 DEF _compose_index
<1>6. ComposeAxis(n, All, x) = slice(_compose_index(o, w.start), Min({_compose_index(o, w.stop), o.stop}), o.step * w.step)
  BY <1>1, <1>2, <1>4 DEF ComposeAxis
<1>7. _compose_index(o, w.start) = a /\ _compose_index(o, w.stop) = top /\ o.step * w.step = 1
  BY <1>3, <1>4, <1>5
<1> QED
  BY <1>3, <1>6, <1>7

\* On one axis, a part of split holds the blocks that it has any of.
LEMMA AlignedAxis ==
  ASSUME ArrayCut, NEW j \in DOMAIN Shape, NEW x, IsPart(x, j), NEW s, s = ComposeAxis(Shape[j], All, x),
         ValidSlice(s, Shape[j]), NEW y \in Nat, y < Shape[j], y \div R \in OnAxis(s, Shape[j], R)
  PROVE  y \in ToSet(Axis(s, Shape[j]))
<1>1. R \in Nat \ {0} /\ Shape[j] \in Nat \ {0}
  BY Geometry
<1>2. PICK n \in Nat \ {0} : n = Shape[j]
  BY <1>1
<1>4. CASE x = All
  <2>1. Min({n, n}) = n
    BY MinTwo
  <2>2. s = slice(0, Min({n, n}), 1)
    <3>1. x = slice(0, 0, 0)
      BY <1>4 DEF All
    <3> QED
      BY <1>2, <3>1, ComposeWhole
  <2>3. s.start = 0 /\ s.stop = n /\ s.step = 1
    BY <2>1, <2>2 DEF slice
  <2>4. Step(s) = 1 /\ Stop(s, n) = n
    BY <2>3 DEF Step, Stop
  <2> QED
    BY <1>2, <2>3, <2>4, StepOne
<1>5. ASSUME NEW b \in Nat, x = BlockSlice(b) PROVE y \in ToSet(Axis(s, n))
  <2>1. PICK lo \in Nat, hi \in Nat : lo = b * R /\ hi = lo + R /\ hi = (b + 1) * R
    <3>1. b * R \in Nat /\ (b + 1) * R = b * R + R
      BY <1>1, SMT
    <3> QED
      BY <1>1, <3>1
  <2>2. x = slice(lo, hi, 0) /\ hi # 0
    BY <1>1, <1>5, <2>1 DEF BlockSlice, R
  <2>4. s = slice(lo, Min({hi, n}), 1)
    BY <1>2, <2>2, ComposeWhole
  <2>5. PICK top \in Nat : top = (IF hi <= n THEN hi ELSE n) /\ Min({hi, n}) = top /\ top # 0
    BY <1>1, <2>1, MinTwo
  <2>6. s.kind = "slice" /\ s.start = lo /\ s.stop = top /\ s.step = 1
    BY <2>4, <2>5 DEF slice
  <2>7. Step(s) = 1 /\ Stop(s, n) = top
    BY <2>5, <2>6 DEF Step, Stop
  <2>8. PICK d : d = y \div R
    OBVIOUS
  <2>9. d \in Int /\ d * R <= y /\ y < d * R + R /\ d * R \in Int
    <3>1. d \in Int /\ d * R <= y /\ y < d * R + R
      BY <1>1, <2>8, DivBounds
    <3> QED
      BY <1>1, <3>1, SMT
  <2>10. d \in (lo \div R)..((top - 1) \div R)
    BY <1>2, <2>6, <2>7, <2>8 DEF OnAxis
  <2>11. lo \div R = b
    BY <1>1, <2>1, DivIs
  <2>12. lo <= y
    <3>1. b <= d
      BY <2>9, <2>10, <2>11
    <3>2. b * R <= d * R
      BY <1>1, <2>9, <3>1, MulLe
    <3> QED
      BY <2>1, <2>9, <3>2
  <2>13. y < top
    <3>1. CASE hi <= n
      <4>1. top = hi
        BY <2>5, <3>1
      <4>2. hi - 1 \in Int /\ b * R <= hi - 1 /\ hi - 1 < b * R + R
        BY <1>1, <2>1
      <4>3. (hi - 1) \div R = b
        BY <1>1, <4>2, DivIs
      <4>4. d <= b
        BY <2>9, <2>10, <2>11, <4>1, <4>3
      <4>5. d * R <= b * R
        BY <1>1, <2>9, <4>4, MulLe
      <4> QED
        BY <1>1, <2>1, <2>9, <4>1, <4>5
    <3>2. CASE ~ (hi <= n)
      BY <1>2, <2>5, <3>2
    <3> QED
      BY <3>1, <3>2
  <2> QED
    BY <1>2, <2>6, <2>7, <2>12, <2>13, StepOne
<1> QED
  BY <1>2, <1>4, <1>5 DEF IsPart

\* A view that has all of each block on each axis has all of its blocks.
LEMMA AlignedView ==
  ASSUME ArrayCut, NEW v, ValidSer(v.ser), v.axes = Positions(v.ser),
         \A j \in DOMAIN Shape : \A y \in Nat :
            y < Shape[j] /\ y \div R \in OnAxis(v.ser[j], Shape[j], R) => y \in ToSet(Axis(v.ser[j], Shape[j]))
  PROVE  Aligned(v)
<1> SUFFICES ASSUME NEW b \in calculate_block_coords(v.ser), NEW o \in In(b) PROVE o \in Own(v)
  BY DEF Aligned
<1>1. b \in [DOMAIN Shape -> Nat] /\ \A j \in DOMAIN Shape : b[j] \in OnAxis(v.ser[j], Shape[j], R)
  BY CoordsIs
<1>2. PICK c \in DOMAIN place : BlockOf(c) = b /\ o = place[c]
  BY CoordsType, BlockCells
<1>3. /\ c \in [DOMAIN Shape -> Nat] /\ \A j \in DOMAIN Shape : c[j] < Shape[j]
      /\ BlockOf(c) = [j \in DOMAIN Shape |-> c[j] \div R]
  BY <1>2, CellType
<1>4. \A j \in DOMAIN Shape : c[j] \in Nat /\ c[j] \div R = b[j]
  BY <1>2, <1>3
<1>5. \A j \in DOMAIN Shape : c[j] \in ToSet(Axis(v.ser[j], Shape[j]))
  BY <1>1, <1>3, <1>4
<1>6. DOMAIN v.axes = DOMAIN Shape /\ \A j \in DOMAIN Shape : v.axes[j] = Axis(v.ser[j], Shape[j])
  BY PositionsIs DEF ValidSer
<1> QED
  BY <1>2, <1>5, <1>6 DEF Own, Elements

\* The whole array has all of its blocks.
LEMMA AlignedWhole ==
  ASSUME ArrayCut, NEW v, v.ser = WholeSer, v.axes = Positions(v.ser)
  PROVE  Aligned(v)
<1>1. ASSUME NEW j \in DOMAIN Shape, NEW y \in Nat, y < Shape[j] PROVE y \in ToSet(Axis(v.ser[j], Shape[j]))
  <2>1. Shape[j] \in Nat \ {0} /\ v.ser[j] = All
    BY Geometry DEF WholeSer
  <2>2. ValidSlice(All, Shape[j]) /\ All.start = 0 /\ Stop(All, Shape[j]) = Shape[j] /\ Step(All) = 1
    BY <2>1, WholeAxis
  <2> QED
    BY <1>1, <2>1, <2>2, StepOne
<1>2. ValidSer(v.ser)
  BY WholeValid
<1> QED
  BY <1>1, <1>2, AlignedView

\* So has each part of split().
LEMMA AlignedPart ==
  ASSUME ArrayCut, NEW part \in Parts(WholeSer), NEW v, v.ser = _view_composer_new(WholeSer, part),
         v.axes = Positions(v.ser)
  PROVE  Aligned(v)
<1>1. Fits(WholeSer, part) /\ ValidSer(WholeSer)
  BY PartsFit, WholeValid
<1>2. ValidSer(v.ser)
  BY <1>1, ComposeOK
<1>3. part \in Seq(IndexPart) /\ Len(part) = Len(Shape) /\ \A j \in DOMAIN Shape : IsPart(part[j], j)
  BY PartsAre
<1>4. DOMAIN Shape = 1..Len(Shape) /\ DOMAIN part = DOMAIN Shape
  BY <1>3, Geometry
<1>5. ASSUME NEW j \in DOMAIN Shape PROVE v.ser[j] = ComposeAxis(Shape[j], All, part[j])
  <2>1. WholeSer[j] = All /\ Rank(WholeSer, j) = j /\ j \in SliceAxes(WholeSer) /\ DOMAIN WholeSer = DOMAIN Shape
    BY WholeRank DEF WholeSer, SliceAxes, All, slice
  <2>2. Indexed(WholeSer, part, j)
    BY <1>4, <2>1 DEF Indexed
  <2> QED
    BY <2>1, <2>2 DEF _view_composer_new
<1>6. ASSUME NEW j \in DOMAIN Shape PROVE ValidSlice(v.ser[j], Shape[j])
  <2>1. part[j].kind = "slice"
    <3>1. \A a, b, c : slice(a, b, c).kind = "slice"
      BY DEF slice
    <3>2. CASE part[j] = All
      BY <3>1, <3>2 DEF All
    <3>3. CASE \E b \in Nat : part[j] = BlockSlice(b)
      BY <3>1, <3>3 DEF BlockSlice
    <3> QED
      BY <1>3, <3>2, <3>3 DEF IsPart
  <2>2. v.ser[j].kind = "slice"
    <3>1. PICK a, b, c : v.ser[j] = slice(a, b, c)
      BY <1>5, <2>1 DEF ComposeAxis
    <3> QED
      BY <3>1 DEF slice
  <2>3. Valid(v.ser[j], Shape[j]) /\ Shape[j] \in Nat \ {0}
    BY <1>2, Geometry DEF ValidSer
  <2> QED
    BY <2>2, <2>3, ValidFacts
<1>7. \A j \in DOMAIN Shape : \A y \in Nat :
        y < Shape[j] /\ y \div R \in OnAxis(v.ser[j], Shape[j], R) => y \in ToSet(Axis(v.ser[j], Shape[j]))
  BY <1>3, <1>5, <1>6, AlignedAxis
<1> QED
  BY <1>2, <1>7, AlignedView

\* A part of the array, as split() makes it: nothing of it is loaded, or all.
LEMMA RunningSplit ==
  ASSUME ArrayCut, NEW own, NEW tr, NEW memory, NEW v, ViewOK(v), ViewTrue(v, own, tr, memory),
         v.loaded = {} \/ v.full, v.ser = WholeSer, NEW part \in Parts(WholeSer),
         NEW res, ViewOK(res), res.proc = v.proc, res.loaded = v.loaded, res.full = v.full, res.part = v.part,
         res = v \/ res.ser = _view_composer_new(WholeSer, part),
         calculate_block_coords(res.ser) \subseteq calculate_block_coords(v.ser)
  PROVE  ViewTrue(res, own, tr, memory)
<1>1. CASE res = v
  BY <1>1
<1>2. CASE res.ser = _view_composer_new(WholeSer, part)
  <2>1. Aligned(res)
    BY <1>2, AlignedPart DEF ViewOK
  <2>2. LoadedBlocks(res) \subseteq LoadedBlocks(v) /\ (~ res.full => res.loaded = {})
    BY DEF LoadedBlocks
  <2> QED
    BY <2>1, <2>2 DEF ViewTrue
<1> QED
  BY <1>1, <1>2

\* The array is created: all of it is in memory and queued.
LEMMA RunningNew ==
  ASSUME TypeInv, Fresh, NEW pend2, pend2 = [pending EXCEPT ![Main] = Append(@, Stored({}, mem[Main]))]
  PROVE  Running(owner, truth, mem, pend2, table, {Created})
<1>1. /\ ArrayCut /\ Main \in Procs /\ DOMAIN pending = Procs /\ DOMAIN mem[Main] = Cells /\ table = {}
      /\ \A p \in Procs : pending[p] = << >>
      /\ \A o \in Cells : owner[o] = Main /\ mem[Main][o] = truth[o]
  BY DEF TypeInv, Procs, Fresh
<1>2. \A b \in DOMAIN g.blocks : In(b) \subseteq Cells
  BY <1>1, InCells
<1>3. BlocksOwned(owner) /\ \A b \in DOMAIN g.blocks : Held(owner, b, Main)
  BY <1>1, <1>2 DEF BlocksOwned, Held
<1>4. MainTrue(owner, truth, mem)
  BY <1>1 DEF MainTrue
<1>5. PICK t : t = Append(pending[Main], Stored({}, mem[Main]))
  OBVIOUS
<1>6. pend2[Main] = t /\ \A p \in Procs \ {Main} : pend2[p] = << >>
  BY <1>1, <1>5
<1>7. \A p : QueueTrue(<< >>, p, owner, truth)
  BY DEF QueueTrue
<1>8. QueueTrue(t, Main, owner, truth) /\ \A b \in DOMAIN g.blocks : InQueue(t, b)
  <2>1. QueueOK(pending[Main]) /\ QueueTrue(pending[Main], Main, owner, truth)
    BY <1>1, <1>7 DEF TypeInv
  <2>2. \A b \in DOMAIN g.blocks : \A o \in In(b) : mem[Main][o] = truth[o]
    BY <1>1, <1>2
  <2>3. PICK memory : memory = mem[Main]
    OBVIOUS
  <2>4. PICK s : s = pending[Main]
    OBVIOUS
  <2>5. PICK B : B = DOMAIN g.blocks
    OBVIOUS
  <2>a. PICK tr : tr = truth
    OBVIOUS
  <2>6. PICK none : none = {}
    OBVIOUS
  <2>7. /\ none \subseteq DOMAIN g.blocks /\ B = Covered(none)
        /\ QueueOK(s) /\ QueueTrue(s, Main, owner, truth) /\ DOMAIN memory = Cells
        /\ \A b \in B : Held(owner, b, Main)
        /\ \A b \in B : \A o \in In(b) : memory[o] = tr[o]
        /\ \A b \in DOMAIN g.blocks \ B : \A o \in In(b) : tr[o] = truth[o]
    BY <1>1, <1>3, <2>1, <2>2, <2>3, <2>4, <2>5, <2>6, <2>a DEF Covered
  <2>8. /\ QueueTrue(Append(s, Stored(none, memory)), Main, owner, tr)
        /\ \A b \in DOMAIN g.blocks : InQueue(Append(s, Stored(none, memory)), b) <=> InQueue(s, b) \/ b \in B
    BY <1>1, <2>7, QueueAppend
  <2>9. t = Append(s, Stored(none, memory))
    BY <1>5, <2>3, <2>4, <2>6
  <2> QED
    BY <2>5, <2>8, <2>9, <2>a
<1>9. \A p \in Procs : QueueTrue(pend2[p], p, owner, truth)
  BY <1>6, <1>7, <1>8
<1>10. TableTrue(pend2, table, truth)
  BY <1>1, <1>6, <1>8 DEF TableTrue
<1>11. ViewTrue(Created, owner, truth, mem)
  <2>1. NewOK(Created, Main, 1, WholeSer, TRUE)
    BY <1>1, WholeValid, NewView DEF Created
  <2>2. /\ ViewOK(Created) /\ Created.proc = Main /\ Created.ser = WholeSer /\ Created.full = TRUE
        /\ Created.axes = Positions(Created.ser)
    BY <2>1 DEF NewOK, ViewOK
  <2>3. Aligned(Created)
    BY <1>1, <2>2, AlignedWhole
  <2>4. LoadedBlocks(Created) \subseteq DOMAIN g.blocks
    BY <1>1, <2>2, WholeValid, CoordsType DEF LoadedBlocks
  <2>5. \A b \in LoadedBlocks(Created) : \A o \in In(b) : mem[Created.proc][o] = truth[o]
    BY <1>1, <1>2, <2>2, <2>4
  <2> QED
    BY <2>2, <2>3, <2>5 DEF ViewTrue
<1> QED
  BY <1>3, <1>4, <1>9, <1>10, <1>11 DEF Running

\* Ids that are given next.
LEMMA NextId ==
  ASSUME TypeInv, NEW k \in Nat, IdsUpTo(k, Viewed, DOMAIN istorage), Viewed # {}
  PROVE  FreshId \in Nat /\ FreshId <= k + 1
<1> DEFINE S == DOMAIN istorage \cup {views[i].sid : i \in DOMAIN views}
<1>1. S \in SUBSET Nat /\ S # {} /\ \A i \in S : i <= k
  BY DEF IdsUpTo, Viewed
<1>2. PICK m : m = Max(S)
  OBVIOUS
<1> HIDE DEF S
<1>3. m \in S
  BY <1>1, <1>2, MaxIs
<1>4. m \in Nat /\ m <= k
  BY <1>1, <1>3
<1>5. FreshId = 1 + m
  BY <1>2 DEF FreshId, S
<1> QED
  BY <1>4, <1>5

\* A storage id is no process.
LEMMA NoProcess ==
  ASSUME NEW s \in Nat
  PROVE  s \notin Procs
BY NumpyAssumption

\* The ids stay bounded when the next one is given.
LEMMA IdsKept ==
  ASSUME NEW k \in Nat, NEW vs, NEW ids, IdsUpTo(k, vs, ids), NEW vs2, NEW ids2,
         \A s \in ids2 : s \in ids \/ (s \in Nat /\ s <= k + 1),
         \A v \in vs2 : v \in vs \/ (v.sid \in Nat /\ v.sid <= k + 1)
  PROVE  \E n \in Nat : IdsUpTo(n, vs2, ids2)
<1>1. k + 1 \in Nat
  OBVIOUS
<1>2. \A s \in ids2 : s \in Nat /\ s <= k + 1
  BY DEF IdsUpTo
<1>3. \A v \in vs2 : v.sid \in Nat /\ v.sid <= k + 1
  BY DEF IdsUpTo
<1>4. IdsUpTo(k + 1, vs2, ids2)
  BY <1>2, <1>3 DEF IdsUpTo
<1> QED
  BY <1>1, <1>4

-----------------------------------------------------------------------------
(* The array does not change, and neither does what is said of its data. *)

\* What is said of owners, values, memory, queues, rows and views stays said.
LEMMA DataFrozen ==
  ASSUME array' = array, NEW own, NEW tr, NEW memory, NEW pend, NEW tab, NEW vs,
         Running(own, tr, memory, pend, tab, vs)
  PROVE  Running(own, tr, memory, pend, tab, vs)'
<1>1. Shape' = Shape /\ g' = g /\ place' = place
  BY DEF Shape, g, place
<1>2. Cells' = Cells
  BY <1>1 DEF Cells
<1>3. \A b : In(b)' = In(b) /\ Key(b)' = Key(b)
  BY <1>1 DEF In, Key
<1>4. \A ser : calculate_block_coords(ser)' = calculate_block_coords(ser)
  BY <1>1 DEF calculate_block_coords, calculate_list_of_ranges_of_block_coords
<1>5. \A v : Own(v)' = Own(v)
  BY <1>1 DEF Own, Elements
<1>6. BlocksOwned(own)'
  BY <1>1, <1>3 DEF BlocksOwned, Running
<1>7. MainTrue(own, tr, memory)'
  BY <1>2 DEF MainTrue, Running
<1>8. /\ \A b, p : Held(own, b, p)' <=> Held(own, b, p)
      /\ \A q, b : TruePart(q, b, tr)' <=> TruePart(q, b, tr)
      /\ \A s, i, b : Queued(s, i, b)' <=> Queued(s, i, b)
  BY <1>1, <1>3 DEF Held, TruePart, Queued
<1>9. \A s, b : InQueue(s, b)' <=> InQueue(s, b)
  BY <1>8 DEF InQueue
<1>10. \A s, p : QueueTrue(s, p, own, tr) => QueueTrue(s, p, own, tr)'
  <2> SUFFICES ASSUME NEW s, NEW p, QueueTrue(s, p, own, tr) PROVE QueueTrue(s, p, own, tr)'
    OBVIOUS
  <2> QED
    BY <1>1, <1>3, <1>8 DEF QueueTrue
<1>11. TableTrue(pend, tab, tr)'
  <2>1. TableTrue(pend, tab, tr)
    BY DEF Running
  <2> QED
    BY <1>1, <1>3, <1>8, <1>9, <2>1 DEF TableTrue
<1>12. \A v : ViewTrue(v, own, tr, memory) => ViewTrue(v, own, tr, memory)'
  <2> SUFFICES ASSUME NEW v, ViewTrue(v, own, tr, memory) PROVE ViewTrue(v, own, tr, memory)'
    OBVIOUS
  <2>1. LoadedBlocks(v)' = LoadedBlocks(v)
    BY <1>4 DEF LoadedBlocks
  <2>2. Aligned(v)' <=> Aligned(v)
    BY <1>3, <1>4, <1>5 DEF Aligned
  <2> QED
    BY <1>3, <1>4, <1>8, <2>1, <2>2 DEF ViewTrue
<1> QED
  BY <1>6, <1>7, <1>10, <1>11, <1>12 DEF Running

\* What has to be shown of a step once there is an array.
LEMMA DataNext ==
  ASSUME array' = array, istorage' # << >>, NEW vs,
         Running(owner', truth', mem', pending', table', vs), views' \in Seq(vs),
         \E k \in Nat : IdsUpTo(k, vs, DOMAIN istorage'), ReadsTruth'
  PROVE  DataInv'
<1>1. PICK own : own = owner'
  OBVIOUS
<1>2. PICK tr : tr = truth'
  OBVIOUS
<1>3. PICK memory : memory = mem'
  OBVIOUS
<1>4. PICK pend : pend = pending'
  OBVIOUS
<1>5. PICK tab : tab = table'
  OBVIOUS
<1>6. PICK here : here = Viewed'
  OBVIOUS
<1>7. here \subseteq vs
  <2>1. \A k \in DOMAIN views' : views'[k] \in vs
    OBVIOUS
  <2> QED
    BY <1>6, <2>1 DEF Viewed
<1>8. Running(own, tr, memory, pend, tab, here)
  <2>1. Running(own, tr, memory, pend, tab, vs)
    BY <1>1, <1>2, <1>3, <1>4, <1>5
  <2> QED
    BY <1>7, <2>1 DEF Running
<1>9. Running(own, tr, memory, pend, tab, here)'
  BY <1>8, DataFrozen
<1>10. Running(owner, truth, mem, pending, table, Viewed)'
  BY <1>1, <1>2, <1>3, <1>4, <1>5, <1>6, <1>9 DEF Running, BlocksOwned, MainTrue, QueueTrue, TableTrue, ViewTrue, Held, TruePart
<1>11. \E k \in Nat : IdsUpTo(k, Viewed', DOMAIN istorage')
  BY <1>6, <1>7 DEF IdsUpTo
<1>12. (\E k \in Nat : IdsUpTo(k, Viewed, DOMAIN istorage))'
  BY <1>11 DEF IdsUpTo
<1> QED
  BY <1>10, <1>12 DEF DataInv

-----------------------------------------------------------------------------
(* What a step does to the data. *)

\* While there are views, or ids to open, there is an array.
LEMMA Live ==
  ASSUME TypeInv, DataInv, Viewed # {} \/ DOMAIN istorage # {} \/ \E p \in Procs : pending[p] # << >>
  PROVE  /\ istorage # << >>
         /\ Running(owner, truth, mem, pending, table, Viewed)
         /\ \E k \in Nat : IdsUpTo(k, Viewed, DOMAIN istorage)
<1>1. DOMAIN << >> = {}
  OBVIOUS
<1>2. istorage # << >>
  <2> SUFFICES ASSUME istorage = << >> PROVE FALSE
    OBVIOUS
  <2>1. views = << >> /\ DOMAIN istorage = {} /\ \A p \in Procs : pending[p] = << >>
    BY <1>1 DEF DataInv, Fresh
  <2>2. Viewed = {}
    BY <1>1, <2>1 DEF Viewed
  <2> QED
    BY <2>1, <2>2
<1> QED
  BY <1>2 DEF DataInv

\* A step that returns nothing.
LEMMA Silent ==
  ASSUME got' = NothingRead
  PROVE  ReadsTruth'
BY DEF ReadsTruth, NothingRead

\* A read: of what is in memory, or was loaded from the own queue or from Cassandra.
LEMMA DataGet ==
  ASSUME TypeInv, DataInv, NEW i \in DOMAIN views, NEW new \in Indexes(Len(Shape)), __getitem__(i, new)
  PROVE  DataInv'
<1>1. PICK v, blocks, res :
        ReadEffect(v, blocks, _select_and_load_blocks(v, blocks), load_numpy_slices(v, blocks), res)
  BY GetEffect
<1>2. PICK w : w = _select_and_load_blocks(v, blocks)
  OBVIOUS
<1>3. PICK memory : memory = load_numpy_slices(v, blocks)
  OBVIOUS
<1>4. ReadEffect(v, blocks, w, memory, res)
  BY <1>1, <1>2, <1>3
<1>5. /\ v \in Viewed /\ ViewOK(v) /\ blocks \subseteq calculate_block_coords(v.ser)
      /\ res.sid \in {v.sid, FreshId}
      /\ mem' = [mem EXCEPT ![v.proc] = memory]
      /\ views' \in Seq(Viewed \cup {w, res})
      /\ got' = [o \in Own(res) |-> <<memory[o], truth[o]>>]
      /\ UNCHANGED <<array, table, istorage, pending, owner, truth>>
  BY <1>4 DEF ReadEffect
<1>6. istorage # << >> /\ Running(owner, truth, mem, pending, table, Viewed)
  BY <1>5, Live
<1>7. PICK k \in Nat : IdsUpTo(k, Viewed, DOMAIN istorage)
  BY <1>5, Live
<1>8. PICK mem2 : mem2 = [mem EXCEPT ![v.proc] = memory]
  OBVIOUS
<1>9. /\ Running(owner, truth, mem2, pending, table, Viewed \cup {w, res})
      /\ \A o \in Own(res) : memory[o] = truth[o]
  BY <1>2, <1>3, <1>4, <1>6, <1>8, RunningRead
<1>10. Running(owner', truth', mem', pending', table', Viewed \cup {w, res})
  BY <1>5, <1>8, <1>9
<1>11. w.sid = v.sid
  BY <1>2, <1>5, Loading
<1>12. FreshId \in Nat /\ FreshId <= k + 1 /\ v.sid \in Nat /\ v.sid <= k + 1
  <2>1. FreshId \in Nat /\ FreshId <= k + 1
    BY <1>5, <1>7, NextId
  <2>2. v.sid \in Nat /\ v.sid <= k + 1
    BY <1>5, <1>7 DEF IdsUpTo
  <2> QED
    BY <2>1, <2>2
<1>13. \E n \in Nat : IdsUpTo(n, Viewed \cup {w, res}, DOMAIN istorage)
  <2>1. \A x \in Viewed \cup {w, res} : x \in Viewed \/ (x.sid \in Nat /\ x.sid <= k + 1)
    BY <1>5, <1>11, <1>12
  <2> QED
    BY <1>7, <2>1, IdsKept
<1>14. ReadsTruth'
  BY <1>5, <1>9 DEF ReadsTruth
<1> QED
  BY <1>5, <1>6, <1>10, <1>13, <1>14, DataNext

\* A write: the blocks are loaded before, and queued after.
LEMMA DataWrite ==
  ASSUME TypeInv, DataInv, NEW v \in Viewed, NEW elements, NEW blocks, blocks # {},
         WriteEffect(v, elements, blocks, load_numpy_slices(v, blocks), _select_and_load_blocks(v, blocks))
  PROVE  DataInv'
<1>2. PICK w : w = _select_and_load_blocks(v, blocks)
  OBVIOUS
<1>3. PICK memory : memory = load_numpy_slices(v, blocks)
  OBVIOUS
<1>4. WriteEffect(v, elements, blocks, memory, w)
  BY <1>2, <1>3
<1>5. /\ ViewOK(v) /\ blocks \subseteq calculate_block_coords(v.ser)
      /\ views' \in Seq(Viewed \cup {w})
      /\ Write(v.proc, elements, blocks, memory)
      /\ got' = NothingRead
      /\ UNCHANGED <<array, table, istorage, owner>>
  BY <1>4 DEF WriteEffect
<1>6. istorage # << >> /\ Running(owner, truth, mem, pending, table, Viewed)
  BY Live
<1>7. PICK k \in Nat : IdsUpTo(k, Viewed, DOMAIN istorage)
  BY Live
<1>8. PICK new : new = Over(memory, elements)
  OBVIOUS
<1>9. WrittenBy(v.proc, elements, blocks, new)
  <2>1. v.proc \in Procs /\ blocks \subseteq DOMAIN g.blocks
    BY <1>5, CoordsType DEF ViewOK, TypeInv
  <2> QED
    BY <1>5, <1>8, <2>1, Written
<1>10. PICK mem2 : mem2 = [mem EXCEPT ![v.proc] = new]
  OBVIOUS
<1>11. PICK pend2 : pend2 = [pending EXCEPT ![v.proc] = Append(@, Stored(blocks, new))]
  OBVIOUS
<1>12. PICK tr2 : tr2 = Over(truth, elements)
  OBVIOUS
<1>13. Running(owner, tr2, mem2, pend2, table, Viewed \cup {w})
  BY <1>2, <1>3, <1>4, <1>6, <1>8, <1>10, <1>11, <1>12, RunningWrite
<1>14. Running(owner', truth', mem', pending', table', Viewed \cup {w})
  BY <1>5, <1>9, <1>10, <1>11, <1>12, <1>13 DEF WrittenBy
<1>15. w.sid = v.sid
  BY <1>2, <1>5, Loading
<1>16. v.sid \in Nat /\ v.sid <= k + 1
  BY <1>7 DEF IdsUpTo
<1>17. \E n \in Nat : IdsUpTo(n, Viewed \cup {w}, DOMAIN istorage)
  BY <1>7, <1>15, <1>16, IdsKept
<1> QED
  BY <1>5, <1>6, <1>14, <1>17, Silent, DataNext

\* An exception: the memory is given up with the views.
LEMMA DataFail ==
  ASSUME TypeInv, DataInv, NEW i \in DOMAIN views, NEW new, load_fails(i, new)
  PROVE  DataInv'
<1>1. PICK v : v = views[i]
  OBVIOUS
<1>2. /\ v \in Viewed /\ ~ v.full
      /\ views' \in Seq({x \in Viewed : x.proc # v.proc})
      /\ mem' = [mem EXCEPT ![v.proc] = reserve_numpy_space]
      /\ got' = NothingRead
      /\ UNCHANGED <<array, table, istorage, pending, owner, truth, ops>>
  <2>1. Failed(v)
    BY <1>1, FailEffect
  <2> QED
    BY <2>1 DEF Failed
<1>3. istorage # << >> /\ Running(owner, truth, mem, pending, table, Viewed)
  BY <1>2, Live
<1>4. PICK k \in Nat : IdsUpTo(k, Viewed, DOMAIN istorage)
  BY <1>2, Live
<1>5. PICK T : T = {x \in Viewed : x.proc # v.proc}
  OBVIOUS
<1>6. PICK mem2 : mem2 = [mem EXCEPT ![v.proc] = reserve_numpy_space]
  OBVIOUS
<1>7. Running(owner, truth, mem2, pending, table, T)
  BY <1>2, <1>3, <1>5, <1>6, RunningFail
<1>8. Running(owner', truth', mem', pending', table', T)
  BY <1>2, <1>6, <1>7
<1>9. \E n \in Nat : IdsUpTo(n, T, DOMAIN istorage)
  BY <1>4, <1>5, IdsKept
<1> QED
  BY <1>2, <1>3, <1>5, <1>8, <1>9, Silent, DataNext

\* split of an array that is loaded as a whole, or not at all.
LEMMA DataSplit ==
  ASSUME TypeInv, DataInv, ~ SplitLoaded, NEW i \in DOMAIN views, NEW part \in Parts(views[i].ser), split(i, part)
  PROVE  DataInv'
<1>1. PICK v : v = views[i]
  OBVIOUS
<1>2. PICK res : res = __array_finalize__(v, part)
  OBVIOUS
<1>a. SplitOff(v, part, res)
  BY <1>1, <1>2, SplitEffect
<1>b. v.loaded = {} \/ v.full
  BY <1>a DEF SplitOff
<1>3. /\ v \in Viewed /\ ViewOK(v) /\ v.ser = WholeSer /\ part \in Parts(WholeSer)
      /\ ViewOK(res) /\ res.proc = v.proc /\ res.loaded = v.loaded /\ res.full = v.full /\ res.part = v.part
      /\ res = v \/ (res.sid = FreshId /\ res.ser = _view_composer_new(WholeSer, part))
      /\ calculate_block_coords(res.ser) \subseteq calculate_block_coords(v.ser)
      /\ views' \in Seq(Viewed \cup {res})
      /\ got' = NothingRead
      /\ UNCHANGED <<array, table, istorage, mem, pending, owner, truth>>
  BY <1>a DEF SplitOff
<1>4. ArrayCut /\ istorage # << >> /\ Running(owner, truth, mem, pending, table, Viewed)
  BY <1>3, Live DEF TypeInv
<1>5. PICK k \in Nat : IdsUpTo(k, Viewed, DOMAIN istorage)
  BY <1>3, Live
<1>6. ViewTrue(v, owner, truth, mem)
  BY <1>3, <1>4 DEF Running
<1>7. ViewTrue(res, owner, truth, mem)
  BY <1>3, <1>4, <1>6, <1>b, RunningSplit
<1>8. Running(owner, truth, mem, pending, table, Viewed \cup {res})
  BY <1>4, <1>7 DEF Running
<1>9. Running(owner', truth', mem', pending', table', Viewed \cup {res})
  BY <1>3, <1>8
<1>10. FreshId \in Nat /\ FreshId <= k + 1 /\ v.sid \in Nat /\ v.sid <= k + 1
  <2>1. FreshId \in Nat /\ FreshId <= k + 1
    BY <1>3, <1>5, NextId
  <2>2. v.sid \in Nat /\ v.sid <= k + 1
    BY <1>3, <1>5 DEF IdsUpTo
  <2> QED
    BY <2>1, <2>2
<1>11. \E n \in Nat : IdsUpTo(n, Viewed \cup {res}, DOMAIN istorage)
  <2>1. \A x \in Viewed \cup {res} : x \in Viewed \/ (x.sid \in Nat /\ x.sid <= k + 1)
    BY <1>3, <1>10
  <2> QED
    BY <1>5, <2>1, IdsKept
<1> QED
  BY <1>3, <1>4, <1>9, <1>11, Silent, DataNext

\* The array is created.
LEMMA DataNew ==
  ASSUME TypeInv, DataInv, __new__
  PROVE  DataInv'
<1>1. /\ istorage = << >> /\ ViewOK(Created)
      /\ pending' = [pending EXCEPT ![Main] = Append(@, Stored({}, mem[Main]))]
      /\ istorage' = [s \in {1} |-> WholeSer]
      /\ views' \in Seq({Created})
      /\ UNCHANGED <<array, table, mem, owner, truth, got>>
  BY NewEffect
<1>2. Fresh /\ ReadsTruth
  BY <1>1 DEF DataInv
<1>3. PICK pend2 : pend2 = [pending EXCEPT ![Main] = Append(@, Stored({}, mem[Main]))]
  OBVIOUS
<1>4. Running(owner, truth, mem, pend2, table, {Created})
  BY <1>2, <1>3, RunningNew
<1>5. Running(owner', truth', mem', pending', table', {Created})
  BY <1>1, <1>3, <1>4
<1>6. DOMAIN istorage' = {1} /\ istorage' # << >>
  BY <1>1
<1>7. Created.sid = 1
  BY DEF Created, View
<1>8. IdsUpTo(1, {Created}, DOMAIN istorage')
  BY <1>6, <1>7 DEF IdsUpTo
<1>9. ReadsTruth'
  BY <1>1, <1>2 DEF ReadsTruth
<1> QED
  BY <1>1, <1>5, <1>6, <1>8, <1>9, DataNext

\* getID of the array or of a part: whole blocks change hands, and nothing of them is queued.
LEMMA DataHand ==
  ASSUME TypeInv, DataInv, ~ HandSlices, NEW i \in DOMAIN views, getID(i)
  PROVE  DataInv'
<1>1. PICK v : v = views[i]
  OBVIOUS
<1>a. Handed(v)
  BY <1>1, HandEffect
<1>b. v.part
  BY <1>a DEF Handed
<1>2. /\ v \in Viewed /\ ViewOK(v) /\ v.proc = Main
      /\ Holds(Main, Own(v))
      /\ istorage' \in {istorage, [s \in DOMAIN istorage \cup {v.sid} |-> IF s = v.sid THEN v.ser ELSE istorage[s]]}
      /\ pending[Main] = << >>
      /\ views' \in Seq(Viewed)
      /\ owner' = [o \in Offsets |-> IF o \in Own(v) THEN v.sid ELSE owner[o]]
      /\ got' = NothingRead
      /\ UNCHANGED <<array, table, mem, pending, truth>>
  BY <1>a DEF Handed
<1>3. istorage # << >> /\ Running(owner, truth, mem, pending, table, Viewed)
  BY <1>2, Live
<1>4. PICK k \in Nat : IdsUpTo(k, Viewed, DOMAIN istorage)
  BY <1>2, Live
<1>5. v.sid \in Nat /\ v.sid <= k + 1 /\ v.sid \notin Procs
  BY <1>2, <1>4, NoProcess DEF IdsUpTo
<1>6. PICK own2 : own2 = [o \in Offsets |-> IF o \in Own(v) THEN v.sid ELSE owner[o]]
  OBVIOUS
<1>7. Running(own2, truth, mem, pending, table, Viewed)
  BY <1>2, <1>3, <1>5, <1>6, <1>b, RunningHand
<1>8. Running(owner', truth', mem', pending', table', Viewed)
  BY <1>2, <1>6, <1>7
<1>9. PICK ids : ids = DOMAIN istorage'
  OBVIOUS
<1>10. ids \subseteq DOMAIN istorage \cup {v.sid} /\ istorage' # << >>
  <2>1. CASE istorage' = istorage
    BY <1>3, <1>9, <2>1
  <2>2. CASE istorage' = [s \in DOMAIN istorage \cup {v.sid} |-> IF s = v.sid THEN v.ser ELSE istorage[s]]
    BY <1>9, <2>2
  <2> QED
    BY <1>2, <2>1, <2>2
<1>11. \E n \in Nat : IdsUpTo(n, Viewed, ids)
  BY <1>4, <1>5, <1>10, IdsKept
<1> QED
  BY <1>2, <1>8, <1>9, <1>10, <1>11, Silent, DataNext

\* Opening: nothing is taken to be loaded.
LEMMA DataOpen ==
  ASSUME TypeInv, DataInv, NEW p \in Workers, NEW sid \in DOMAIN istorage, _initialize_existing_object(p, sid)
  PROVE  DataInv'
<1>1. PICK w : w = View(p, sid, istorage[sid], FALSE)
  OBVIOUS
<1>2. Opened(p, sid, w)
  BY <1>1, OpenEffect
<1>3. /\ w.sid = sid
      /\ mem' = [mem EXCEPT ![p] = reserve_numpy_space]
      /\ views' \in Seq(Viewed \cup {w})
      /\ got' = NothingRead
      /\ owner' = [o \in Offsets |-> IF owner[o] = sid THEN p ELSE owner[o]]
      /\ UNCHANGED <<array, table, istorage, pending, truth>>
  BY <1>2 DEF Opened
<1>4. istorage # << >> /\ Running(owner, truth, mem, pending, table, Viewed)
  BY Live
<1>5. PICK k \in Nat : IdsUpTo(k, Viewed, DOMAIN istorage)
  BY Live
<1>6. sid \in Nat /\ sid <= k + 1 /\ sid \notin Procs
  BY <1>5, NoProcess DEF IdsUpTo
<1>7. PICK own2 : own2 = [o \in Offsets |-> IF owner[o] = sid THEN p ELSE owner[o]]
  OBVIOUS
<1>8. PICK mem2 : mem2 = [mem EXCEPT ![p] = reserve_numpy_space]
  OBVIOUS
<1>9. Running(own2, truth, mem2, pending, table, Viewed \cup {w})
  BY <1>2, <1>4, <1>6, <1>7, <1>8, RunningOpen
<1>10. Running(owner', truth', mem', pending', table', Viewed \cup {w})
  BY <1>3, <1>7, <1>8, <1>9
<1>11. \E n \in Nat : IdsUpTo(n, Viewed \cup {w}, DOMAIN istorage)
  BY <1>3, <1>5, <1>6, IdsKept
<1> QED
  BY <1>3, <1>4, <1>10, <1>11, Silent, DataNext

\* A queued part is stored.
LEMMA DataApplied ==
  ASSUME TypeInv, DataInv, NEW p \in Procs, applied(p)
  PROVE  DataInv'
<1>1. pending[p] # << >> /\ got' = NothingRead /\ UNCHANGED <<array, istorage, mem, views, owner, truth>>
  BY AppliedEffect
<1>2. PICK q \in Head(pending[p]) :
        /\ table' = {r \in table : r.key # q.key} \cup {q}
        /\ pending' = [pending EXCEPT ![p] = Without(@, q)]
  BY AppliedEffect
<1>3. istorage # << >> /\ Running(owner, truth, mem, pending, table, Viewed)
  BY <1>1, Live
<1>4. PICK k \in Nat : IdsUpTo(k, Viewed, DOMAIN istorage)
  BY <1>1, Live
<1>5. PICK tab2 : tab2 = {r \in table : r.key # q.key} \cup {q}
  OBVIOUS
<1>6. PICK pend2 : pend2 = [pending EXCEPT ![p] = Without(@, q)]
  OBVIOUS
<1>7. Running(owner, truth, mem, pend2, tab2, Viewed)
  BY <1>1, <1>3, <1>5, <1>6, RunningApplied
<1>8. Running(owner', truth', mem', pending', table', Viewed)
  BY <1>1, <1>2, <1>5, <1>6, <1>7
<1>9. views' \in Seq(Viewed)
  <2>1. PICK T : T = {}
    OBVIOUS
  <2>2. views \in Seq(Viewed \cup T)
    BY ViewSeq
  <2>3. Viewed \cup T = Viewed
    BY <2>1
  <2> QED
    BY <1>1, <2>2, <2>3
<1> QED
  BY <1>1, <1>3, <1>4, <1>8, <1>9, Silent, DataNext

-----------------------------------------------------------------------------
(* The theorems about the data. *)

\* Before the array is created.
LEMMA DataInit == Init /\ ArrayCut => DataInv
<1> SUFFICES ASSUME Init, ArrayCut PROVE DataInv
  OBVIOUS
<1>1. Main \in Procs
  BY DEF Procs
<1>2. \A o \in Cells : owner[o] = Main /\ mem[Main][o] = truth[o]
  BY <1>1 DEF Init, Cells
<1>3. Fresh /\ istorage = << >>
  BY <1>2 DEF Init, Fresh
<1>4. ReadsTruth
  <2>1. DOMAIN got = {}
    BY DEF Init, NothingRead
  <2> QED
    BY <2>1 DEF ReadsTruth
<1> QED
  BY <1>3, <1>4 DEF DataInv

\* Every step keeps the data true.
LEMMA DataStep ==
  ASSUME ~ SplitLoaded, ~ HandSlices
  PROVE  TypeInv /\ DataInv /\ [Next]_vars => DataInv'
<1> SUFFICES ASSUME TypeInv, DataInv, [Next]_vars PROVE DataInv'
  OBVIOUS
<1>1. CASE __new__
  BY <1>1, DataNew
<1>2. ASSUME NEW i \in DOMAIN views, NEW new \in Indexes(Len(Shape)), __getitem__(i, new) PROVE DataInv'
  BY <1>2, DataGet
<1>3. ASSUME NEW i \in DOMAIN views, NEW new \in Indexes(Len(Shape)), __setitem__(i, new) PROVE DataInv'
  <2>1. PICK v : v = views[i]
    OBVIOUS
  <2>2. PICK blocks : blocks = calculate_block_coords(_view_composer_new(v.ser, new))
    OBVIOUS
  <2>3. WriteEffect(v, Own(Sub(v, new)), blocks, load_numpy_slices(v, blocks), _select_and_load_blocks(v, blocks))
    BY <1>3, <2>1, <2>2, SetEffect
  <2>4. v \in Viewed /\ ArrayCut
    BY <1>3, <2>1 DEF Viewed, TypeInv
  <2>5. blocks # {}
    <3>1. Supported(v.ser, v.axes, new)
      BY <1>3, <2>1 DEF __setitem__
    <3>2. ValidSer(_view_composer_new(v.ser, new))
      BY <1>3, <2>1, <2>2, <3>1, IndexedView
    <3> QED
      BY <2>2, <2>4, <3>2, CoordsType
  <2> QED
    BY <2>3, <2>4, <2>5, DataWrite
<1>4. ASSUME NEW i \in DOMAIN views, NEW new \in Indexes(Len(Shape)), load_fails(i, new) PROVE DataInv'
  BY <1>4, DataFail
<1>5. ASSUME NEW i \in DOMAIN views, NEW part \in Parts(views[i].ser), split(i, part) PROVE DataInv'
  BY <1>5, DataSplit
<1>6. ASSUME NEW i \in DOMAIN views, __array_ufunc__(i) PROVE DataInv'
  <2>1. PICK v : v = views[i]
    OBVIOUS
  <2>2. PICK blocks : blocks = calculate_block_coords(v.ser)
    OBVIOUS
  <2>3. WriteEffect(v, Own(v), blocks, load_numpy_slices(v, blocks), _select_and_load_blocks(v, blocks))
    BY <1>6, <2>1, <2>2, UfuncEffect
  <2>4. v \in Viewed /\ ArrayCut /\ ViewOK(v)
    BY <1>6, <2>1, TypeFacts DEF Viewed
  <2>5. blocks # {}
    BY <2>2, <2>4, CoordsType DEF ViewOK
  <2> QED
    BY <2>3, <2>4, <2>5, DataWrite
<1>7. ASSUME NEW i \in DOMAIN views, getID(i) PROVE DataInv'
  BY <1>7, DataHand
<1>8. ASSUME NEW p \in Procs, applied(p) PROVE DataInv'
  BY <1>8, DataApplied
<1>9. ASSUME NEW p \in Workers, NEW sid \in DOMAIN istorage, _initialize_existing_object(p, sid) PROVE DataInv'
  BY <1>9, DataOpen
<1>10. CASE UNCHANGED vars
  <2>1. UNCHANGED <<array, table, istorage, mem, pending, views, owner, truth, got>>
    BY <1>10 DEF vars, cassandra, ghosts
  <2>2. ReadsTruth'
    BY <2>1 DEF DataInv, ReadsTruth
  <2>3. CASE istorage = << >>
    <3>1. Cells' = Cells
      BY <2>1, Frozen
    <3>2. Fresh'
      BY <2>1, <2>3, <3>1 DEF DataInv, Fresh
    <3> QED
      BY <2>1, <2>2, <2>3, <3>2 DEF DataInv
  <2>4. CASE istorage # << >>
    <3>1. Running(owner', truth', mem', pending', table', Viewed)
      BY <2>1, <2>4 DEF DataInv
    <3>2. \E k \in Nat : IdsUpTo(k, Viewed, DOMAIN istorage')
      BY <2>1, <2>4 DEF DataInv
    <3>3. views' \in Seq(Viewed)
      <4>1. PICK T : T = {}
        OBVIOUS
      <4>2. views \in Seq(Viewed \cup T)
        BY ViewSeq
      <4>3. Viewed \cup T = Viewed
        BY <4>1
      <4> QED
        BY <2>1, <4>2, <4>3
    <3> QED
      BY <2>1, <2>2, <2>4, <3>1, <3>2, <3>3, DataNext
  <2> QED
    BY <2>3, <2>4
<1> QED
  BY <1>1, <1>2, <1>3, <1>4, <1>5, <1>6, <1>7, <1>8, <1>9, <1>10 DEF Next

\* The data is true in every state.
LEMMA DataCorrect ==
  ASSUME ~ SplitLoaded, ~ HandSlices
  PROVE  Spec /\ ArrayCut => []DataInv
BY DataInit, DataStep, TypeCorrect, PTL DEF Spec

\* __getitem__: for every array that the generators cut, every index expression and every
\* order in which the processes read, write, split, hand over, fail and have their blocks stored,
\* a read returns the last values written - provided that a program splits an array before it has
\* loaded some of it, and gives tasks the array or its parts and no other view.
THEOREM ReadsTheorem ==
  ASSUME ~ SplitLoaded, ~ HandSlices
  PROVE  Spec /\ ArrayCut => []ReadsTruth
<1>1. DataInv => ReadsTruth
  BY DEF DataInv
<1> QED
  BY <1>1, DataCorrect, PTL

\* _numpy_full_loaded: under the same conditions, a view that takes its array to be in memory
\* has the last values of all the elements that are left to its process.
THEOREM FullTheorem ==
  ASSUME ~ SplitLoaded, ~ HandSlices
  PROVE  Spec /\ ArrayCut => []FullMeansLoaded
<1>1. TypeInv /\ DataInv => FullMeansLoaded
  <2> SUFFICES ASSUME TypeInv, DataInv, NEW v \in Viewed, v.full, NEW o \in Own(v), owner[o] = v.proc
               PROVE  mem[v.proc][o] = truth[o]
    BY DEF FullMeansLoaded, Viewed
  <2>1. Running(owner, truth, mem, pending, table, Viewed) /\ ViewOK(v) /\ ArrayCut
    BY Live, ViewedOK DEF TypeInv
  <2>2. PICK b \in calculate_block_coords(v.ser) : o \in In(b)
    BY <2>1, SelectedIn DEF ViewOK
  <2>3. b \in DOMAIN g.blocks
    BY <2>1, CoordsType DEF ViewOK
  <2>4. Held(owner, b, v.proc)
    BY <2>1, <2>2, <2>3 DEF Running, BlocksOwned, Held
  <2>5. b \in LoadedBlocks(v)
    BY DEF LoadedBlocks
  <2>6. ViewTrue(v, owner, truth, mem)
    BY <2>1 DEF Running
  <2> QED
    BY <2>2, <2>4, <2>5, <2>6 DEF ViewTrue
<1> QED
  BY <1>1, DataCorrect, TypeCorrect, PTL

\* The values of the elements, a function.
Valued == truth = [o \in Cells |-> truth[o]]

\* Writes give values to the elements of the array only.
LEMMA ValuedStep == TypeInv /\ Valued /\ [Next]_vars => Valued'
<1> SUFFICES ASSUME TypeInv, Valued, [Next]_vars PROVE Valued'
  OBVIOUS
<1>1. Offsets = Cells
  BY TypeFacts
<1>2. ASSUME array' = array, truth' = truth PROVE Valued'
  <2>1. Cells' = Cells
    BY <1>2, Frozen
  <2> QED
    BY <1>2, <2>1 DEF Valued
<1>3. ASSUME array' = array, NEW p, NEW elements, NEW blocks, NEW memory, Write(p, elements, blocks, memory)
      PROVE  Valued'
  <2>1. Cells' = Cells
    BY <1>3, Frozen
  <2>2. truth' = Over(truth, elements)
    BY <1>1, <1>3 DEF Write, Over
  <2> QED
    BY <2>1, <2>2 DEF Valued, Over
<1>4. CASE __new__
  BY <1>2, <1>4 DEF __new__, ghosts
<1>5. ASSUME NEW i \in DOMAIN views, NEW new \in Indexes(Len(Shape)), __getitem__(i, new) PROVE Valued'
  BY <1>2, <1>5 DEF __getitem__, ghosts
<1>6. ASSUME NEW i \in DOMAIN views, NEW new \in Indexes(Len(Shape)), __setitem__(i, new) PROVE Valued'
  BY <1>3, <1>6 DEF __setitem__
<1>7. ASSUME NEW i \in DOMAIN views, NEW new \in Indexes(Len(Shape)), load_fails(i, new) PROVE Valued'
  BY <1>2, <1>7 DEF load_fails, ghosts
<1>8. ASSUME NEW i \in DOMAIN views, NEW part \in Parts(views[i].ser), split(i, part) PROVE Valued'
  BY <1>2, <1>8 DEF split, ghosts
<1>9. ASSUME NEW i \in DOMAIN views, __array_ufunc__(i) PROVE Valued'
  BY <1>3, <1>9 DEF __array_ufunc__
<1>10. ASSUME NEW i \in DOMAIN views, getID(i) PROVE Valued'
  BY <1>2, <1>10 DEF getID
<1>11. ASSUME NEW p \in Procs, applied(p) PROVE Valued'
  BY <1>2, <1>11 DEF applied, ghosts
<1>12. ASSUME NEW p \in Workers, NEW sid \in DOMAIN istorage, _initialize_existing_object(p, sid) PROVE Valued'
  BY <1>2, <1>12 DEF _initialize_existing_object
<1>13. CASE UNCHANGED vars
  BY <1>2, <1>13 DEF vars, ghosts
<1> QED
  BY <1>4, <1>5, <1>6, <1>7, <1>8, <1>9, <1>10, <1>11, <1>12, <1>13 DEF Next

\* When no process has a block queued, the blocks in Cassandra under the clusters that a reader of
\* the whole array asks for make up every value that was ever written: no store of a block undoes
\* another's, whichever processes the parts went to.
THEOREM StoredTheorem ==
  ASSUME ~ SplitLoaded, ~ HandSlices
  PROVE  Spec /\ ArrayCut => []StoredWhole
<1>1. TypeInv /\ DataInv /\ Valued => StoredWhole
  <2> SUFFICES ASSUME TypeInv, DataInv, Valued, istorage # << >>, \A p \in Procs : pending[p] = << >>
               PROVE  read_numpy_from_cas = truth
    BY DEF StoredWhole
  <2>1. ArrayCut /\ TableTrue(pending, table, truth) /\ \A q \in table : PartOK(q)
    BY DEF DataInv, Running, TypeInv
  <2>2. PICK parts : parts = {q \in table : q.key[1] \in g.clusters}
    OBVIOUS
  <2>3. DOMAIN reserve_numpy_space = Cells
    BY DEF reserve_numpy_space, Cells
  <2>4. ASSUME NEW o \in Cells PROVE merge_partitions(g, parts, reserve_numpy_space)[o] = truth[o]
    <3>1. PICK b \in DOMAIN g.blocks : o \in In(b)
      BY <2>1, <2>4, CellBlock
    <3>2. \A p \in Procs : ~ InQueue(pending[p], b)
      BY DEF InQueue
    <3>3. PICK q \in table : q.key = Key(b) /\ TruePart(q, b, truth)
      BY <2>1, <3>1, <3>2 DEF TableTrue
    <3>4. \A r \in table : r.key = Key(b) => r = q
      BY <2>1, <3>1, <3>3 DEF TableTrue
    <3>5. q \in parts
      BY <2>1, <2>2, <3>1, <3>3 DEF ArrayCut, Key
    <3>6. \A r \in parts : PartOK(r) /\ (r.key = Key(b) => TruePart(r, b, truth))
      BY <2>1, <2>2, <3>3, <3>4
    <3>7. PICK memory : memory = reserve_numpy_space
      OBVIOUS
    <3>8. Merged(parts, memory, b, o, truth)
      BY <2>1, <2>3, <2>4, <3>1, <3>6, <3>7, MergeTrue
    <3> QED
      BY <3>3, <3>5, <3>7, <3>8 DEF Merged
  <2>5. read_numpy_from_cas = [o \in Cells |-> merge_partitions(g, parts, reserve_numpy_space)[o]]
    <3>1. read_numpy_from_cas = merge_partitions(g, parts, reserve_numpy_space)
      BY <2>2 DEF read_numpy_from_cas
    <3>2. PICK f : f = merge_partitions(g, parts, reserve_numpy_space)
      OBVIOUS
    <3>3. PICK memory : memory = reserve_numpy_space
      OBVIOUS
    <3>4. merge_partitions(g, parts, memory) =
            [u \in DOMAIN memory |->
               IF \E q \in parts : Covers(q, u) THEN Value(CHOOSE q \in parts : Covers(q, u), u) ELSE memory[u]]
      BY DEF merge_partitions, Covers, Value
    <3>5. f = [o \in Cells |-> f[o]]
      BY <2>3, <3>2, <3>3, <3>4
    <3> QED
      BY <3>1, <3>2, <3>5
  <2> QED
    BY <2>4, <2>5 DEF Valued
<1>2. Init /\ ArrayCut => Valued
  BY DEF Init, Valued, Cells
<1>3. Spec /\ ArrayCut => []Valued
  BY <1>2, ValuedStep, TypeCorrect, PTL DEF Spec
<1> QED
  BY <1>1, <1>3, DataCorrect, TypeCorrect, PTL

=============================================================================
