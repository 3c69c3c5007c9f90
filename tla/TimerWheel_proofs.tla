------------------------- MODULE TimerWheel_proofs -------------------------
(***************************************************************************)
(* Proofs about TimerWheel, for all sizes of the vectors, all widths of    *)
(* jiffies that the wheel divides, and any number of timers.               *)
(*                                                                         *)
(* The argument: a list of the wheel is reached d jiffies from now, where  *)
(* d is less than one turn of its vector (Reached).  internal_add_timer    *)
(* picks a list that is reached when the timer is due or, above tv1,       *)
(* earlier, and a cascade takes a timer off such a list just when it is    *)
(* reached; so the jiffy a timer is due in is never passed (OnTime).       *)
(***************************************************************************)
EXTENDS TimerWheel, TLAPS

-----------------------------------------------------------------------------
(* Division and remainder. *)

Pos == Nat \ {0}

\* Division with remainder.
LEMMA DivMod ==
    ASSUME NEW x \in Int, NEW s \in Pos
    PROVE  /\ x = s * (x \div s) + (x % s)
           /\ x % s \in 0..(s - 1)
           /\ x \div s \in Int
           /\ x \in Nat => x \div s \in Nat
  BY DEF Pos

\* Quotient and remainder are unique.
LEMMA DivModUnique ==
    ASSUME NEW q \in Int, NEW s \in Pos, NEW r \in 0..(s - 1)
    PROVE  /\ (s * q + r) \div s = q
           /\ (s * q + r) % s = r
  BY DEF Pos

\* A multiple is the divisor times the quotient.
LEMMA Multiple ==
    ASSUME NEW x \in Int, NEW s \in Pos, x % s = 0
    PROVE  x \div s \in Int /\ x = s * (x \div s)
<1>1. x = s * (x \div s) + (x % s) /\ x \div s \in Int
  BY DivMod
<1>2. s * (x \div s) \in Int
  BY <1>1 DEF Pos
<1>3. QED
  BY <1>1, <1>2

\* A remainder absorbs a multiple of its divisor.
LEMMA ModAddMultiple ==
    ASSUME NEW x \in Int, NEW q \in Int, NEW s \in Pos
    PROVE  /\ (x + s * q) % s = x % s
           /\ (x + s * q) \div s = (x \div s) + q
<1>1. PICK a \in Int, r \in 0..(s - 1) : x = s * a + r /\ a = x \div s /\ r = x % s
  BY DivMod
<1>2. a + q \in Int /\ x + s * q = s * (a + q) + r
  BY <1>1 DEF Pos
<1>3. QED
  BY <1>1, <1>2, DivModUnique

\* A remainder by a multiple of s * n keeps the index (x \div s) % n.
LEMMA IndexOfMod ==
    ASSUME NEW x \in Int, NEW s \in Pos, NEW n \in Pos, NEW k \in Pos
    PROVE  ((x % (s * n * k)) \div s) % n = (x \div s) % n
<1> DEFINE w == s * n * k
<1>1. w \in Pos /\ n * k \in Pos
  BY DEF Pos
<1>2. PICK q \in Int : x = w * q + (x % w) /\ x % w \in Int
  BY <1>1, DivMod
<1>3. x = (x % w) + s * (n * k * q)
  BY <1>1, <1>2 DEF Pos
<1>4. x \div s = ((x % w) \div s) + n * k * q
  <2>1. n * k * q \in Int
    BY <1>1 DEF Pos
  <2>. QED  BY <1>2, <1>3, <2>1, ModAddMultiple
<1>5. (x % w) \div s \in Int
  BY <1>2, DivMod
<1>6. n * k * q = n * (k * q) /\ k * q \in Int
  BY DEF Pos
<1>7. QED
  BY <1>4, <1>5, <1>6, ModAddMultiple

\* x is a multiple of s * n iff it is one of s and its index is 0.
LEMMA MultipleOfProduct ==
    ASSUME NEW x \in Int, NEW s \in Pos, NEW n \in Pos
    PROVE  x % (s * n) = 0 <=> x % s = 0 /\ (x \div s) % n = 0
<1>1. s * n \in Pos
  BY DEF Pos
<1>2. ASSUME x % (s * n) = 0  PROVE x % s = 0 /\ (x \div s) % n = 0
  <2>1. PICK q \in Int : x = (s * n) * q
    BY <1>1, <1>2, Multiple
  <2>2. n * q \in Int /\ x = s * (n * q) + 0 /\ n * q = n * q + 0
    BY <2>1 DEF Pos
  <2>3. 0 \in 0..(s - 1) /\ 0 \in 0..(n - 1)
    BY DEF Pos
  <2>4. x % s = 0 /\ x \div s = n * q
    BY <2>2, <2>3, DivModUnique
  <2>5. QED
    BY <2>2, <2>3, <2>4, DivModUnique
<1>3. ASSUME x % s = 0, (x \div s) % n = 0  PROVE x % (s * n) = 0
  <2>1. x \div s \in Int /\ x = s * (x \div s)
    BY <1>3, Multiple
  <2>2. PICK q \in Int : x \div s = n * q
    BY <1>3, <2>1, Multiple
  <2>3. x = (s * n) * q + 0
    BY <2>1, <2>2 DEF Pos
  <2>4. 0 \in 0..((s * n) - 1)
    BY <1>1 DEF Pos
  <2>5. QED
    BY <1>1, <2>3, <2>4, DivModUnique
<1>4. QED
  BY <1>2, <1>3

\* Two multiples of s less than s * n apart with the same index are equal.
LEMMA SameIndex ==
    ASSUME NEW x \in Int, NEW y \in Int, NEW s \in Pos, NEW n \in Pos,
           x % s = 0, y % s = 0, x <= y, y - x < s * n,
           (x \div s) % n = (y \div s) % n
    PROVE  x = y
<1>1. PICK a \in Int : x = s * a /\ a = x \div s
  BY Multiple
<1>2. PICK b \in Int : y = s * b /\ b = y \div s
  BY Multiple
<1>3. a <= b /\ b - a < n
  <2>1. s * (b - a) = y - x
    BY <1>1, <1>2 DEF Pos
  <2>2. CASE a > b
    <3>1. s * (b - a) < 0
      BY <2>2 DEF Pos
    <3>. QED  BY <3>1, <2>1
  <2>3. CASE b - a >= n
    <3>1. s * (b - a) >= s * n
      BY <2>3 DEF Pos
    <3>2. s * n \in Int
      BY DEF Pos
    <3>. QED  BY <3>1, <3>2, <2>1
  <2>4. QED
    BY <2>2, <2>3 DEF Pos
<1>4. PICK p \in Int, q \in Int, r \in 0..(n - 1) : a = n * p + r /\ b = n * q + r
  <2>1. /\ a = n * (a \div n) + (a % n) /\ a \div n \in Int /\ a % n \in 0..(n - 1)
        /\ b = n * (b \div n) + (b % n) /\ b \div n \in Int
    BY DivMod
  <2>2. a % n = b % n
    BY <1>1, <1>2
  <2>. QED  BY <2>1, <2>2
<1>5. n * (q - p) = b - a
  BY <1>4 DEF Pos
<1>6. q - p = 0
  <2>1. CASE q - p >= 1
    <3>1. n * (q - p) >= n
      BY <2>1 DEF Pos
    <3>. QED  BY <3>1, <1>3, <1>5 DEF Pos
  <2>2. CASE q - p <= -1
    <3>1. n * (q - p) < 0
      BY <2>2 DEF Pos
    <3>. QED  BY <3>1, <1>3, <1>5
  <2>3. QED
    BY <2>1, <2>2
<1>7. QED
  BY <1>1, <1>2, <1>4, <1>6

\* Sums and differences may be reduced at once or step by step.
LEMMA ModSum ==
    ASSUME NEW x \in Int, NEW y \in Int, NEW w \in Pos
    PROVE  /\ ((x % w) + y) % w = (x + y) % w
           /\ (y - (x % w)) % w = (y - x) % w
<1>1. PICK q \in Int : x = w * q + (x % w) /\ x % w \in Int
  <2>1. x = w * (x \div w) + (x % w) /\ x \div w \in Int /\ x % w \in Int
    BY DivMod
  <2>. QED  BY <2>1
<1> DEFINE r == x % w
<1>2. w * q \in Int /\ -q \in Int /\ w * (-q) = -(w * q)
  BY DEF Pos
<1>3. x + y = (r + y) + w * q /\ y - x = (y - r) + w * (-q)
  <2> DEFINE p == w * q
  <2>1. p \in Int /\ x = p + r /\ r \in Int /\ w * (-q) = -p
    BY <1>1, <1>2
  <2>2. x + y = (r + y) + p /\ y - x = (y - r) + (-p)
    <3> HIDE DEF p, r
    <3>. QED  BY <2>1
  <2>. QED  BY <2>1, <2>2
<1>4. r \in Int
  BY <1>1
<1> HIDE DEF r
<1>5. (x + y) % w = (r + y) % w /\ (y - x) % w = (y - r) % w
  BY <1>2, <1>3, <1>4, ModAddMultiple
<1>6. QED
  BY <1>5 DEF r

\* A value in range is its own remainder; a small negative one wraps once.
LEMMA ModSmall ==
    ASSUME NEW w \in Pos, NEW x \in (-w)..(w - 1)
    PROVE  x % w = IF x >= 0 THEN x ELSE x + w
<1>1. CASE x >= 0
  <2>1. x = w * 0 + x /\ x \in 0..(w - 1)
    BY <1>1 DEF Pos
  <2>. QED  BY <1>1, <2>1, DivModUnique
<1>2. CASE x < 0
  <2>1. x = w * (-1) + (x + w) /\ x + w \in 0..(w - 1)
    BY <1>2 DEF Pos
  <2>. QED  BY <1>2, <2>1, DivModUnique
<1>3. QED
  BY <1>1, <1>2 DEF Pos

-----------------------------------------------------------------------------
(* The vectors. *)

\* The lists of a vector together span one list of the next one.
LEMMA SpanType ==
    ASSUME NEW v \in 1..5
    PROVE  /\ Span(v) \in Pos
           /\ Lists(v) \in Pos
           /\ Span(v + 1) = Span(v) * Lists(v)
           /\ Span(v + 1) \in Pos
<1> USE DEF Pos
<1>1. TVR_SIZE \in Pos /\ TVN_SIZE \in Pos
  BY WheelAssumption
<1>2. \A a, b \in Pos : a * b \in Pos
  OBVIOUS
<1>3. CASE v = 1
  BY <1>1, <1>3 DEF Span, Lists
<1>4. CASE v = 2
  BY <1>1, <1>2, <1>4 DEF Span, Lists
<1>5. CASE v = 3
  BY <1>1, <1>2, <1>5 DEF Span, Lists
<1>6. CASE v = 4
  BY <1>1, <1>2, <1>6 DEF Span, Lists
<1>7. CASE v = 5
  BY <1>1, <1>2, <1>7 DEF Span, Lists
<1>8. QED
  BY <1>3, <1>4, <1>5, <1>6, <1>7

\* The distances at which internal_add_timer changes the vector grow, and the
\* last of them is not negative as a signed value.
LEMMA SpanOrder ==
    /\ Span(1) = 1
    /\ Span(2) <= Span(3) /\ Span(3) <= Span(4) /\ Span(4) <= Span(5)
    /\ 2 * Span(5) <= Span(6)
    /\ Span(6) <= Word
    /\ Word \in Pos
<1> USE DEF Pos
<1>0. Span(1) = 1
  BY DEF Span
<1>1. \A a, b \in Pos : a <= a * b
  OBVIOUS
<1>2. /\ Span(2) \in Pos /\ Span(3) \in Pos /\ Span(4) \in Pos /\ Span(5) \in Pos
      /\ Span(6) \in Pos /\ \A v \in 2..5 : Lists(v) = TVN_SIZE
      /\ TVN_SIZE \in Pos
  BY SpanType, WheelAssumption DEF Lists
<1>3. /\ Span(3) = Span(2) * TVN_SIZE /\ Span(4) = Span(3) * TVN_SIZE
      /\ Span(5) = Span(4) * TVN_SIZE /\ Span(6) = Span(5) * TVN_SIZE
  <2>1. \A v \in 2..5 : Span(v + 1) = Span(v) * TVN_SIZE
    BY <1>2, SpanType
  <2>2. 2 \in 2..5 /\ 3 \in 2..5 /\ 4 \in 2..5 /\ 5 \in 2..5 /\ 2 + 1 = 3 /\ 3 + 1 = 4 /\ 4 + 1 = 5 /\ 5 + 1 = 6
    OBVIOUS
  <2>. QED  BY <2>1, <2>2
<1>4. 2 * Span(5) <= Span(6)
  <2>1. TVN_SIZE >= 2
    BY WheelAssumption
  <2>2. \A a, b \in Pos : b >= 2 => 2 * a <= a * b
    OBVIOUS
  <2>3. QED  BY <1>2, <1>3, <2>1, <2>2
<1>5. Word \in Pos /\ Span(6) <= Word
  <2>1. Word \in Pos /\ Word % Span(6) = 0
    BY WheelAssumption
  <2>2. CASE Word < Span(6)
    <3>1. Word = Span(6) * 0 + Word /\ Word \in 0..(Span(6) - 1)
      BY <1>2, <2>1, <2>2
    <3>2. Word % Span(6) = Word
      BY <3>1, <1>2, DivModUnique, SMTT(30)
    <3>. QED  BY <3>2, <2>1
  <2>3. QED
    BY <1>2, <2>1, <2>2
<1>6. QED
  BY <1>0, <1>1, <1>2, <1>3, <1>4, <1>5

\* The wheel divides the range of jiffies, so an index does not see a wrap.
LEMMA WordMultiple ==
    ASSUME NEW v \in 1..5
    PROVE  \E k \in Pos : Word = Span(v) * Lists(v) * k
<1> USE DEF Pos
<1>1. Word \in Pos /\ Word % Span(6) = 0 /\ TVN_SIZE \in Pos
  BY WheelAssumption
<1>2. Span(6) \in Pos
  BY SpanType
<1>3. PICK q \in Int : Word = Span(6) * q
  <2>1. Word \div Span(6) \in Int /\ Word = Span(6) * (Word \div Span(6))
    BY <1>1, <1>2, Multiple, SMTT(30)
  <2>. QED  BY <2>1
<1>4. q \in Pos
  <2>1. CASE q <= 0
    <3>1. Span(6) * q <= 0
      BY <1>2, <2>1
    <3>. QED  BY <3>1, <1>1, <1>3
  <2>. QED  BY <2>1
<1>5. \A a, b \in Pos : a * b \in Pos
  OBVIOUS
<1>6. /\ Span(6) = Span(5) * TVN_SIZE /\ Span(5) = Span(4) * TVN_SIZE
      /\ Span(4) = Span(3) * TVN_SIZE /\ Span(3) = Span(2) * TVN_SIZE
  <2>1. \A u \in 2..5 : Span(u + 1) = Span(u) * TVN_SIZE
    BY SpanType DEF Lists
  <2>2. 2 \in 2..5 /\ 3 \in 2..5 /\ 4 \in 2..5 /\ 5 \in 2..5 /\ 2 + 1 = 3 /\ 3 + 1 = 4 /\ 4 + 1 = 5 /\ 5 + 1 = 6
    OBVIOUS
  <2>. QED  BY <2>1, <2>2
<1>7. Span(v + 1) = Span(v) * Lists(v) /\ \A u \in 1..6 : Span(u) \in Pos
  BY SpanType
<1> HIDE DEF Pos
<1>8. CASE v = 5
  BY <1>3, <1>4, <1>7, <1>8
<1>9. CASE v = 4
  <2>1. Word = Span(5) * (TVN_SIZE * q)
    BY <1>1, <1>3, <1>4, <1>6, <1>7 DEF Pos
  <2>. QED  BY <1>1, <1>4, <1>5, <1>7, <1>9, <2>1
<1>10. CASE v = 3
  <2>1. Word = Span(4) * (TVN_SIZE * (TVN_SIZE * q))
    BY <1>1, <1>3, <1>4, <1>6, <1>7 DEF Pos
  <2>. QED  BY <1>1, <1>4, <1>5, <1>7, <1>10, <2>1
<1>11. CASE v = 2
  <2>1. Word = Span(3) * (TVN_SIZE * (TVN_SIZE * (TVN_SIZE * q)))
    BY <1>1, <1>3, <1>4, <1>6, <1>7 DEF Pos
  <2>. QED  BY <1>1, <1>4, <1>5, <1>7, <1>11, <2>1
<1>12. CASE v = 1
  <2>1. Word = Span(2) * (TVN_SIZE * (TVN_SIZE * (TVN_SIZE * (TVN_SIZE * q))))
    BY <1>1, <1>3, <1>4, <1>6, <1>7 DEF Pos
  <2>. QED  BY <1>1, <1>4, <1>5, <1>7, <1>12, <2>1
<1>13. QED
  BY <1>8, <1>9, <1>10, <1>11, <1>12

\* The index of a jiffy can be taken before or after the wrap of jiffies.
LEMMA IndexWraps ==
    ASSUME NEW v \in 1..5, NEW x \in Int
    PROVE  IndexIn(v, x % Word) = IndexIn(v, x)
  BY WordMultiple, SpanType, IndexOfMod DEF IndexIn

\* List l of the wheel is reached d jiffies after base: d is within one turn of
\* its vector, base + d is where its span starts, and the index is that of
\* base + d.
Reached(l, base, d) ==
    /\ l \in Vectors
    /\ (base + d) % Span(l[1]) = 0
    /\ d < Span(l[1] + 1)
    /\ l[2] = IndexIn(l[1], base + d)

\* An index is the number of a list of its vector.
LEMMA IndexType ==
    ASSUME NEW v \in 1..5, NEW x \in Int
    PROVE  <<v, IndexIn(v, x)>> \in Vectors
<1>1. Span(v) \in Pos /\ Lists(v) \in Pos
  BY SpanType
<1>2. x \div Span(v) \in Int
  BY <1>1, DivMod
<1>3. IndexIn(v, x) \in 0..(Lists(v) - 1)
  BY <1>1, <1>2, DivMod DEF IndexIn
<1>4. QED
  BY <1>3 DEF Vectors

\* The list with the index of base + idx in tv<v> is reached at or before
\* base + idx, and after base if idx is at least the span of a list.
LEMMA ReachedBefore ==
    ASSUME NEW base \in Nat, NEW idx \in Nat, NEW v \in 1..5,
           v = 1 \/ idx >= Span(v), idx < Span(v + 1)
    PROVE  \E d \in 0..idx :
             /\ Reached(<<v, IndexIn(v, base + idx)>>, base, d)
             /\ v = 1 => d = idx
             /\ v # 1 => d > 0
<1> DEFINE s == Span(v)
           q == (base + idx) \div s
           r == (base + idx) % s
           d == idx - r
<1>1. s \in Pos /\ Lists(v) \in Pos /\ Span(v + 1) \in Pos
  BY SpanType
<1>2. base + idx = s * q + r /\ r \in 0..(s - 1) /\ q \in Int
  BY <1>1, DivMod
<1>3. r \in 0..(s - 1) /\ s * q \in Int /\ (v = 1 => r = 0)
  <2>1. r \in 0..(s - 1)
    BY <1>2
  <2>2. s * q \in Int
    BY <1>1, <1>2 DEF Pos
  <2>3. v = 1 => s = 1
    BY SpanOrder
  <2> HIDE DEF r, s
  <2>. QED  BY <2>1, <2>2, <2>3
<1>4. d \in 0..idx /\ (v = 1 => d = idx) /\ (v # 1 => d > 0)
  <2>1. CASE v = 1
    BY <1>3, <2>1
  <2>2. CASE v # 1
    <3>1. idx >= s /\ s \in Nat
      BY <1>1, <2>2 DEF Pos
    <3> HIDE DEF r, s
    <3>. QED  BY <1>3, <2>2, <3>1
  <2>. QED  BY <2>1, <2>2
<1>5. base + d = s * q + 0 /\ 0 \in 0..(s - 1)
  <2>1. 0 \in 0..(s - 1)
    BY <1>1 DEF Pos
  <2> DEFINE p == s * q
  <2>2. p \in Int /\ base + idx = p + r /\ r \in Int
    BY <1>2, <1>3
  <2>3. base + d = p
    <3> HIDE DEF p, r
    <3>. QED  BY <2>2
  <2>. QED  BY <1>3, <2>1, <2>3
<1>6. (base + d) % s = 0 /\ (base + d) \div s = q
  BY <1>1, <1>2, <1>5, DivModUnique
<1>7. IndexIn(v, base + d) = IndexIn(v, base + idx)
  BY <1>6 DEF IndexIn
<1>8. d < Span(v + 1)
  BY <1>1, <1>4 DEF Pos
<1>9. <<v, IndexIn(v, base + idx)>> \in Vectors
  BY IndexType
<1>10. Reached(<<v, IndexIn(v, base + idx)>>, base, d)
  BY <1>6, <1>7, <1>8, <1>9 DEF Reached
<1> HIDE DEF d
<1>11. QED
  BY <1>4, <1>10

\* Where internal_add_timer puts a timer that is idx jiffies ahead of the
\* wheel: on a list that is reached when the timer is due, or before it is due
\* in a vector above tv1 and not in the jiffy at hand.
LEMMA Added ==
    ASSUME NEW base \in 0..(Word - 1), NEW e \in 0..(Word - 1),
           (e - base) % Word < Word \div 2
    PROVE  LET idx == (e - base) % Word
               l == internal_add_timer(e, base)
           IN  \E d \in 0..idx : /\ Reached(l, base, d)
                                 /\ l[1] = 1 => d = idx
                                 /\ l[1] # 1 => d > 0
<1> DEFINE idx == (e - base) % Word
           l == internal_add_timer(e, base)
           cap == Span(6) - 1
           v == VectorOf(idx)
<1> SUFFICES \E d \in 0..idx : /\ Reached(l, base, d)
                               /\ l[1] = 1 => d = idx
                               /\ l[1] # 1 => d > 0
  OBVIOUS
<1>1. Word \in Pos /\ base \in Nat /\ e \in Nat /\ idx \in Nat
  BY SpanOrder, DivMod DEF Pos
<1>2. /\ Span(2) \in Pos /\ Span(3) \in Pos /\ Span(4) \in Pos /\ Span(5) \in Pos
      /\ Span(6) \in Pos
  BY SpanType
<1>3. /\ v \in 1..5
      /\ v # 5 => idx < Span(v + 1)
      /\ v # 1 => idx >= Span(v)
  BY <1>1, <1>2, SpanOrder DEF VectorOf, Pos
<1>4. \A u \in 1..5 : IndexIn(u, e) = IndexIn(u, base + idx)
  <2>1. e - base = Word * ((e - base) \div Word) + idx /\ (e - base) \div Word \in Int
    BY <1>1, DivMod
  <2>2. e % Word = e
    <3>1. e = Word * 0 + e
      BY <1>1 DEF Pos
    <3>. QED  BY <1>1, <3>1, DivModUnique
  <2>3. (base + idx) % Word = e % Word
    <3>1. e = (base + idx) + Word * ((e - base) \div Word)
      BY <1>1, <2>1 DEF Pos
    <3>. QED  BY <1>1, <2>1, <3>1, ModAddMultiple
  <2>. QED  BY <1>1, <2>2, <2>3, IndexWraps
<1>5. CASE v < 5
  <2>1. l = <<v, IndexIn(v, base + idx)>>
    BY <1>3, <1>4, <1>5 DEF internal_add_timer
  <2>2. idx < Span(v + 1) /\ (v = 1 \/ idx >= Span(v))
    BY <1>3, <1>5
  <2> HIDE DEF l, idx, v
  <2>3. QED
    BY <1>1, <1>3, <2>1, <2>2, ReachedBefore, ZenonT(30)
<1>6. CASE v = 5 /\ idx <= cap
  <2>1. l = <<5, IndexIn(5, base + idx)>>
    BY <1>1, <1>2, <1>4, <1>6 DEF internal_add_timer, Pos
  <2>2. idx >= Span(5) /\ idx < Span(5 + 1) /\ 5 \in 1..5
    BY <1>1, <1>2, <1>3, <1>6 DEF Pos
  <2> HIDE DEF l, idx, v
  <2>3. QED
    BY <1>1, <2>1, <2>2, ReachedBefore, Zenon
<1>7. CASE v = 5 /\ idx > cap
  <2>1. cap \in Nat /\ cap >= Span(5) /\ cap < Span(5 + 1) /\ cap <= idx
    BY <1>1, <1>2, <1>7, SpanOrder DEF Pos
  <2>2. l = <<5, IndexIn(5, (cap + base) % Word)>>
    BY <1>1, <1>2, <1>7 DEF internal_add_timer, Pos
  <2>3. IndexIn(5, (cap + base) % Word) = IndexIn(5, base + cap)
    BY <1>1, <2>1, IndexWraps
  <2> HIDE DEF l, idx, v, cap
  <2>4. PICK d \in 0..cap : Reached(l, base, d) /\ d > 0
    <3>1. 5 \in 1..5 /\ 5 # 1 /\ l = <<5, IndexIn(5, base + cap)>>
      BY <2>2, <2>3
    <3>. QED  BY <1>1, <2>1, <3>1, ReachedBefore, Zenon
  <2>5. d \in 0..idx
    BY <1>1, <2>1
  <2>6. QED
    BY <2>2, <2>4, <2>5
<1>8. QED
  BY <1>1, <1>2, <1>3, <1>5, <1>6, <1>7 DEF Pos

\* The jiffy at hand reaches exactly the lists that are 0 jiffies away.
LEMMA ReachedNow ==
    ASSUME NEW base \in Nat, NEW d \in Nat, NEW v \in 1..5, NEW k, Reached(<<v, k>>, base, d)
    PROVE  d = 0 <=> base % Span(v) = 0 /\ k = IndexIn(v, base)
<1>1. Span(v) \in Pos /\ Lists(v) \in Pos /\ Span(v + 1) = Span(v) * Lists(v)
  BY SpanType
<1>2. (base + d) % Span(v) = 0 /\ d < Span(v) * Lists(v) /\ k = IndexIn(v, base + d)
  BY <1>1 DEF Reached
<1>3. ASSUME base % Span(v) = 0, k = IndexIn(v, base)  PROVE d = 0
  <2>1. base <= base + d /\ (base + d) - base < Span(v) * Lists(v)
    BY <1>1, <1>2 DEF Pos
  <2>2. (base \div Span(v)) % Lists(v) = ((base + d) \div Span(v)) % Lists(v)
    BY <1>2, <1>3 DEF IndexIn
  <2>3. base = base + d
    BY <1>1, <1>2, <1>3, <2>1, <2>2, SameIndex
  <2>. QED  BY <2>3
<1>4. ASSUME d = 0  PROVE base % Span(v) = 0 /\ k = IndexIn(v, base)
  BY <1>2, <1>4
<1>5. QED
  BY <1>3, <1>4

\* A list that is not reached in this jiffy is one jiffy nearer in the next.
LEMMA ReachedNext ==
    ASSUME NEW base \in 0..(Word - 1), NEW d \in Nat \ {0}, NEW l, Reached(l, base, d)
    PROVE  Reached(l, (base + 1) % Word, d - 1)
<1>1. PICK v \in 1..5 : l = <<v, l[2]>>
  BY DEF Reached, Vectors
<1>2. Word \in Pos /\ base + 1 \in Int /\ base + d \in Int /\ base \in Int
  BY SpanOrder DEF Pos
<1>3. Span(v) \in Pos /\ Lists(v) \in Pos /\ Span(v + 1) \in Pos
  BY SpanType
<1> DEFINE next == (base + 1) % Word
<1>4. PICK q \in Int : base + 1 = next + Word * q /\ next \in Int
  <2>1. base + 1 = Word * ((base + 1) \div Word) + next /\ (base + 1) \div Word \in Int /\ next \in 0..(Word - 1)
    BY <1>2, DivMod
  <2>2. Word * ((base + 1) \div Word) \in Int
    BY <1>2, <2>1 DEF Pos
  <2>3. base + 1 = next + Word * ((base + 1) \div Word)
    BY <1>2, <2>1, <2>2
  <2>. QED  BY <2>1, <2>3
<1>5. base + d = (next + (d - 1)) + Word * q
  BY <1>2, <1>4 DEF Pos
<1>6. (next + (d - 1)) % Word = (base + d) % Word
  BY <1>2, <1>4, <1>5, ModAddMultiple
<1>7. IndexIn(v, next + (d - 1)) = IndexIn(v, base + d)
  BY <1>2, <1>4, <1>6, IndexWraps
<1>8. (next + (d - 1)) % Span(v) = (base + d) % Span(v)
  <2>1. PICK k1 \in Pos : Word = Span(v) * Lists(v) * k1
    BY WordMultiple
  <2>2. Lists(v) * k1 * q \in Int /\ Word * q = Span(v) * (Lists(v) * k1 * q)
    BY <1>3, <2>1 DEF Pos
  <2>. QED  BY <1>3, <1>4, <1>5, <2>2, ModAddMultiple
<1>9. QED
  BY <1>1, <1>3, <1>7, <1>8 DEF Reached, Pos

-----------------------------------------------------------------------------
(* The inductive invariant. *)

\* Jiffies from the one the wheel runs next to the one t is due in.
Ahead(t) == (due[t] - timer_jiffies) % Word

\* jiffies is at most one behind the wheel and MaxLag ahead of it.
Lag == \E lag \in (-1)..MaxLag : now = (timer_jiffies + lag) % Word

\* A timer in the wheel is not overdue, and the list it is on is reached in
\* the jiffy the timer is due, if the list is one of tv1, or before that.
OnTime(t) ==
    where[t] \in Vectors =>
        /\ Ahead(t) < Word \div 2
        /\ \E d \in 0..Ahead(t) : /\ Reached(where[t], timer_jiffies, d)
                                  /\ where[t][1] = 1 => d = Ahead(t)
        /\ where[t][1] # 1 => due[t] = expires[t]

\* A pending timer is due when it expires, or later by less than what a signed
\* comparison can tell.
DueAfterExpiry(t) ==
    where[t] # Off =>
        \E a \in 0..((Word \div 2) - MaxLag - 2) : due[t] = (expires[t] + a) % Word

IInv == /\ TypeOK /\ RunsInDueJiffy /\ WorkListEmptied /\ Lag
        /\ \A t \in Timers : OnTime(t) /\ DueAfterExpiry(t)

-----------------------------------------------------------------------------
(* Setting a timer. *)

\* internal_add_timer picks a list of the wheel; a timer set in the past goes to
\* the list of the jiffy at hand.
LEMMA AddedList ==
    ASSUME NEW base \in 0..(Word - 1), NEW e \in 0..(Word - 1)
    PROVE  /\ internal_add_timer(e, base) \in Vectors
           /\ ~NotNegative(e - base) => internal_add_timer(e, base) = <<1, IndexIn(1, base)>>
<1>1. Word \in Pos /\ base \in Int /\ e - base \in Int
  BY SpanOrder DEF Pos
<1>2. CASE NotNegative(e - base)
  <2>1. (e - base) % Word < Word \div 2
    BY <1>2 DEF NotNegative
  <2>2. \E d \in 0..((e - base) % Word) : Reached(internal_add_timer(e, base), base, d)
    BY <2>1, Added
  <2>. QED  BY <1>2, <2>2 DEF Reached
<1>3. CASE ~NotNegative(e - base)
  <2> DEFINE idx == (e - base) % Word
  <2>1. idx \in Nat /\ idx >= Word \div 2
    BY <1>1, <1>3, DivMod DEF NotNegative, Pos
  <2>2. Span(5) <= Word \div 2 /\ Span(2) \in Nat /\ Span(3) \in Nat /\ Span(4) \in Nat /\ Span(5) \in Nat
    BY SpanOrder, SpanType DEF Pos
  <2>3. VectorOf(idx) = 5
    BY <2>1, <2>2, SpanOrder DEF VectorOf, Pos
  <2>4. internal_add_timer(e, base) = <<1, base % TVR_SIZE>>
    BY <2>1, <2>3 DEF internal_add_timer
  <2>5. IndexIn(1, base) = base % TVR_SIZE
    BY SpanOrder DEF IndexIn, Lists
  <2>6. <<1, IndexIn(1, base)>> \in Vectors
    BY <1>1, IndexType
  <2>. QED  BY <2>4, <2>5, <2>6
<1>4. QED
  BY <1>2, <1>3

\* The lists of the wheel, work_list and no list are told apart.
LEMMA ListsDiffer ==
    /\ Off \notin Vectors /\ Work \notin Vectors /\ Off # Work
    /\ \A l \in Vectors : l[1] \in 1..5 /\ l = <<l[1], l[2]>>
  BY DEF Off, Work, Vectors

\* A timer that has just been set keeps the invariant.
LEMMA Modified ==
    ASSUME IInv, NEW t \in Timers, NEW d \in Delays, __mod_timer(t, (now + d) % Word),
           UNCHANGED <<now, timer_jiffies>>
    PROVE  /\ where' \in [Timers -> Vectors \cup {Off, Work}]
           /\ expires' \in [Timers -> 0..(Word - 1)]
           /\ due' \in [Timers -> 0..(Word - 1)]
           /\ where'[t] \in Vectors
           /\ OnTime(t)' /\ DueAfterExpiry(t)'
           /\ \A u \in Timers \ {t} : where'[u] = where[u] /\ expires'[u] = expires[u] /\ due'[u] = due[u]
<1> DEFINE e == (now + d) % Word
           tj == timer_jiffies
<1>1. /\ Word \in Pos /\ now \in 0..(Word - 1) /\ tj \in 0..(Word - 1)
      /\ d \in (-(Word \div 2) + MaxLag + 3)..((Word \div 2) - MaxLag - 1)
      /\ MaxLag \in Nat \ {0} /\ Word \div 2 \in Nat /\ 2 * (Word \div 2) <= Word
  BY SpanOrder, WheelAssumption DEF IInv, TypeOK, Pos
<1>2. now + d \in Int /\ e \in 0..(Word - 1)
  BY <1>1, DivMod DEF Pos
<1>3. /\ expires' = [expires EXCEPT ![t] = e]
      /\ where' = [where EXCEPT ![t] = internal_add_timer(e, tj)]
      /\ due' = [due EXCEPT ![t] = IF NotNegative(e - tj) THEN e ELSE tj]
      /\ tj' = tj
  BY DEF __mod_timer
<1>4. internal_add_timer(e, tj) \in Vectors
  BY <1>1, <1>2, AddedList
<1>5. /\ where' \in [Timers -> Vectors \cup {Off, Work}]
      /\ expires' \in [Timers -> 0..(Word - 1)]
      /\ due' \in [Timers -> 0..(Word - 1)]
      /\ where'[t] = internal_add_timer(e, tj)
      /\ expires'[t] = e
      /\ due'[t] = IF NotNegative(e - tj) THEN e ELSE tj
      /\ \A u \in Timers \ {t} : where'[u] = where[u] /\ expires'[u] = expires[u] /\ due'[u] = due[u]
  <2> HIDE DEF e
  <2>. QED  BY <1>1, <1>2, <1>3, <1>4 DEF IInv, TypeOK
<1>6. PICK lag \in (-1)..MaxLag : now = (tj + lag) % Word
  BY DEF IInv, Lag
<1>7. e = (tj + (lag + d)) % Word /\ (e - tj) % Word = (lag + d) % Word
  <2>1. lag \in Int /\ d \in Int /\ tj \in Int
    BY <1>1
  <2>2. e = ((tj + lag) + d) % Word
    BY <1>1, <1>6, <2>1, ModSum
  <2>3. (tj + lag) + d = tj + (lag + d) /\ tj + (lag + d) \in Int /\ -tj \in Int
    BY <2>1
  <2>4. (e - tj) % Word = ((tj + (lag + d)) + (-tj)) % Word
    <3>1. e \in Int /\ e - tj = e + (-tj)
      BY <1>2, <2>1
    <3>. QED  BY <1>1, <2>2, <2>3, <3>1, ModSum
  <2>5. (tj + (lag + d)) + (-tj) = lag + d
    BY <2>1
  <2>. QED  BY <2>2, <2>3, <2>4, <2>5
<1>8. 0 \in 0..((Word \div 2) - MaxLag - 2)
  BY <1>1
<1>9. CASE NotNegative(e - tj)
  <2>1. (e - tj) % Word < Word \div 2 /\ due'[t] = e
    BY <1>5, <1>9 DEF NotNegative
  <2>2. Ahead(t)' = (e - tj) % Word
    BY <1>3, <2>1, ZenonT(30) DEF Ahead
  <2>3. OnTime(t)'
    <3>1. PICK k \in 0..((e - tj) % Word) :
            /\ Reached(internal_add_timer(e, tj), tj, k)
            /\ internal_add_timer(e, tj)[1] = 1 => k = (e - tj) % Word
      BY <1>1, <1>2, <2>1, Added
    <3>. QED  BY <1>3, <1>5, <2>1, <2>2, <3>1 DEF OnTime, Reached
  <2>4. (e + 0) % Word = e
    <3> HIDE DEF e
    <3>1. e + 0 = e /\ e \in (-Word)..(Word - 1)
      BY <1>1, <1>2 DEF Pos
    <3>. QED  BY <1>1, <1>2, <3>1, ModSmall
  <2>5. DueAfterExpiry(t)'
    BY <1>5, <1>8, <2>1, <2>4 DEF DueAfterExpiry
  <2>. QED  BY <1>4, <1>5, <2>3, <2>5
<1>10. CASE ~NotNegative(e - tj)
  <2>1. due'[t] = tj /\ where'[t] = <<1, IndexIn(1, tj)>>
    BY <1>1, <1>2, <1>5, <1>10, AddedList
  <2>2. Ahead(t)' = 0
    <3>1. tj - tj = 0 /\ 0 \in (-Word)..(Word - 1)
      BY <1>1 DEF Pos
    <3>. QED  BY <1>1, <1>3, <2>1, <3>1, ModSmall DEF Ahead
  <2>3. Reached(<<1, IndexIn(1, tj)>>, tj, 0)
    <3>1. tj \in Nat /\ tj + 0 = tj /\ 0 < Span(1 + 1) /\ 0 \in Nat /\ 1 \in 1..5
      BY <1>1, SpanType DEF Pos
    <3>2. PICK k \in 0..0 : Reached(<<1, IndexIn(1, tj + 0)>>, tj, k)
      BY <3>1, ReachedBefore, Zenon
    <3>. QED  BY <3>1, <3>2
  <2>4. OnTime(t)'
    <3>1. Word \div 2 > 0
      BY <1>1
    <3>2. tj' = tj
      BY <1>3
    <3>. QED  BY <2>1, <2>2, <2>3, <3>1, <3>2 DEF OnTime, Reached
  <2>5. DueAfterExpiry(t)'
    <3> DEFINE g == lag + d
    <3>1. g \in (-(Word \div 2) + MaxLag + 2)..((Word \div 2) - 1)
      BY <1>1
    <3>2. g % Word >= Word \div 2
      <4>1. ~((e - tj) % Word < Word \div 2) /\ (e - tj) % Word \in Int
        BY <1>1, <1>2, <1>10, DivMod DEF NotNegative, Pos
      <4>. QED  BY <1>1, <1>7, <4>1
    <3>3. g < 0
      <4>1. g \in (-Word)..(Word - 1)
        BY <1>1, <3>1 DEF Pos
      <4> HIDE DEF g
      <4>2. CASE g >= 0
        BY <1>1, <3>1, <3>2, <4>1, <4>2, ModSmall
      <4>. QED  BY <3>1, <4>2
    <3>4. -g \in 0..((Word \div 2) - MaxLag - 2)
      <4> HIDE DEF g
      <4>. QED  BY <1>1, <3>1, <3>3
    <3>5. (e + (-g)) % Word = tj
      <4>1. (e + (-g)) % Word = ((tj + g) + (-g)) % Word
        BY <1>1, <1>7, ModSum
      <4>2. (tj + g) + (-g) = tj
        BY <1>1
      <4>3. tj % Word = tj
        BY <1>1, ModSmall DEF Pos
      <4>. QED  BY <4>1, <4>2, <4>3
    <3> HIDE DEF g, e
    <3>. QED  BY <1>5, <2>1, <3>4, <3>5 DEF DueAfterExpiry
  <2>. QED  BY <1>4, <1>5, <2>4, <2>5
<1>11. QED
  BY <1>9, <1>10

-----------------------------------------------------------------------------
(* Running a jiffy. *)

\* The indices below tv<u+1> are all 0 when a span of tv<u+1> starts.
LEMMA ZeroIndices ==
    ASSUME NEW x \in Nat, NEW u \in 1..4
    PROVE  (\A m \in 1..u : IndexIn(m, x) = 0) <=> x % Span(u + 1) = 0
<1>1. \A v \in 1..5 : x % Span(v + 1) = 0 <=> x % Span(v) = 0 /\ IndexIn(v, x) = 0
  BY SpanType, MultipleOfProduct DEF IndexIn
<1>2. x % Span(1) = 0
  BY SpanOrder
<1>3. /\ x % Span(2) = 0 <=> IndexIn(1, x) = 0
      /\ x % Span(3) = 0 <=> x % Span(2) = 0 /\ IndexIn(2, x) = 0
      /\ x % Span(4) = 0 <=> x % Span(3) = 0 /\ IndexIn(3, x) = 0
      /\ x % Span(5) = 0 <=> x % Span(4) = 0 /\ IndexIn(4, x) = 0
  <2>1. /\ 1 \in 1..5 /\ 2 \in 1..5 /\ 3 \in 1..5 /\ 4 \in 1..5
        /\ 1 + 1 = 2 /\ 2 + 1 = 3 /\ 3 + 1 = 4 /\ 4 + 1 = 5
    OBVIOUS
  <2>. QED  BY <1>1, <1>2, <2>1
<1>4. CASE u = 1
  BY <1>3, <1>4
<1>5. CASE u = 2
  <2>1. 1..2 = {1, 2}
    OBVIOUS
  <2>. QED  BY <1>3, <1>5, <2>1
<1>6. CASE u = 3
  <2>1. 1..3 = {1, 2, 3}
    OBVIOUS
  <2>. QED  BY <1>3, <1>6, <2>1
<1>7. CASE u = 4
  <2>1. 1..4 = {1, 2, 3, 4}
    OBVIOUS
  <2>. QED  BY <1>3, <1>7, <2>1
<1>8. QED
  BY <1>4, <1>5, <1>6, <1>7

\* The list l of tv2 to tv5 is cascaded in jiffy x.
CascadedIn(l, x) == x % Span(l[1]) = 0 /\ l[2] = IndexIn(l[1], x)

\* The cascades of a jiffy add again the timers of the lists reached in it, and
\* leave the others where they are.
LEMMA CascadeEffect ==
    ASSUME TypeOK, NEW t \in Timers
    PROVE  \/ /\ Cascaded[t] = where[t]
              /\ where[t] \in Vectors /\ where[t][1] # 1 => ~CascadedIn(where[t], timer_jiffies)
           \/ /\ Cascaded[t] = internal_add_timer(expires[t], timer_jiffies)
              /\ where[t] \in Vectors /\ where[t][1] # 1
<1> DEFINE x == timer_jiffies
           a == internal_add_timer(expires[t], timer_jiffies)
           l == where[t]
           Z(v) == x % Span(v) = 0
           c2 == IF Z(2) /\ l = <<2, IndexIn(2, x)>> THEN a ELSE l
           c3 == IF Z(3) /\ c2 = <<3, IndexIn(3, x)>> THEN a ELSE c2
           c4 == IF Z(4) /\ c3 = <<4, IndexIn(4, x)>> THEN a ELSE c3
           c5 == IF Z(5) /\ c4 = <<5, IndexIn(5, x)>> THEN a ELSE c4
<1>1. x \in Nat
  BY SpanOrder DEF TypeOK, Pos
<1>2. /\ (\A m \in 1..1 : IndexIn(m, x) = 0) <=> Z(2)
      /\ (\A m \in 1..2 : IndexIn(m, x) = 0) <=> Z(3)
      /\ (\A m \in 1..3 : IndexIn(m, x) = 0) <=> Z(4)
      /\ (\A m \in 1..4 : IndexIn(m, x) = 0) <=> Z(5)
  <2>1. /\ 1 \in 1..4 /\ 2 \in 1..4 /\ 3 \in 1..4 /\ 4 \in 1..4
        /\ 1 + 1 = 2 /\ 2 + 1 = 3 /\ 3 + 1 = 4 /\ 4 + 1 = 5
    OBVIOUS
  <2>. QED  BY <1>1, <2>1, ZeroIndices
<1>3. Cascaded[t] = c5
  <2> DEFINE zero(v) == \A m \in 1..v : IndexIn(m, timer_jiffies) = 0
             w2 == IF zero(1) THEN cascade(where, 2) ELSE where
             w3 == IF zero(2) THEN cascade(w2, 3) ELSE w2
             w4 == IF zero(3) THEN cascade(w3, 4) ELSE w3
             w5 == IF zero(4) THEN cascade(w4, 5) ELSE w4
  <2>1. Cascaded = w5
    BY DEF Cascaded
  <2>2. w2[t] = c2
    BY <1>2 DEF cascade
  <2>3. w3[t] = c3
    <3> HIDE DEF w2, c2
    <3>. QED  BY <1>2, <2>2, ZenonT(30) DEF cascade
  <2>4. w4[t] = c4
    <3> HIDE DEF w3, c3
    <3>. QED  BY <1>2, <2>3 DEF cascade
  <2>5. w5[t] = c5
    <3> HIDE DEF w4, c4
    <3>. QED  BY <1>2, <2>4, Zenon DEF cascade
  <2>. QED  BY <2>1, <2>5, Zenon
<1> HIDE DEF a, x
<1>4. CASE l \in Vectors /\ l[1] # 1
  <2>1. l[1] \in 2..5 /\ l = <<l[1], l[2]>>
    BY <1>4, ListsDiffer
  <2>2. c5 = a \/ c5 = l
    BY Zenon
  <2>3. CascadedIn(l, x) => c5 = a
    <3> SUFFICES ASSUME CascadedIn(l, x)  PROVE c5 = a
      BY Zenon
    <3>1. Z(l[1]) /\ l = <<l[1], IndexIn(l[1], x)>>
      BY <2>1 DEF CascadedIn
    <3>2. CASE l[1] = 2
      BY <3>1, <3>2
    <3>3. CASE l[1] = 3
      BY <3>1, <3>3, Zenon
    <3>4. CASE l[1] = 4
      BY <3>1, <3>4, Zenon
    <3>5. CASE l[1] = 5
      BY <3>1, <3>5, Zenon
    <3>6. l[1] = 2 \/ l[1] = 3 \/ l[1] = 4 \/ l[1] = 5
      BY <2>1
    <3> HIDE DEF c5, l
    <3>. QED  BY <3>2, <3>3, <3>4, <3>5, <3>6
  <2> HIDE DEF c5
  <2>. QED  BY <1>3, <1>4, <2>2, <2>3 DEF a, x
<1>5. CASE ~(l \in Vectors /\ l[1] # 1)
  <2>1. /\ l # <<2, IndexIn(2, x)>> /\ l # <<3, IndexIn(3, x)>>
        /\ l # <<4, IndexIn(4, x)>> /\ l # <<5, IndexIn(5, x)>>
    <3>1. \A v \in 2..5 : <<v, IndexIn(v, x)>> \in Vectors /\ <<v, IndexIn(v, x)>>[1] # 1
      BY <1>1, IndexType
    <3>. QED  BY <1>5, <3>1
  <2>2. c5 = l
    BY <2>1, Zenon
  <2> HIDE DEF c5
  <2>. QED  BY <1>3, <1>5, <2>2
<1>6. QED
  BY <1>4, <1>5

\* A timer on list l after the cascades of a jiffy, when it is due in a jiffies
\* and l is reached in d: it is moved to work_list in the jiffy it is due, or it
\* is one jiffy nearer.
LEMMA Advanced ==
    ASSUME NEW base \in 0..(Word - 1), NEW e \in 0..(Word - 1), NEW l,
           NEW d \in 0..((e - base) % Word), (e - base) % Word < Word \div 2,
           Reached(l, base, d), l[1] = 1 => d = (e - base) % Word, l[1] # 1 => d > 0
    PROVE  LET next == (base + 1) % Word IN
           /\ l = <<1, base % TVR_SIZE>> => e = (next - 1) % Word
           /\ l # <<1, base % TVR_SIZE>> =>
                /\ (e - next) % Word < Word \div 2
                /\ \E k \in 0..((e - next) % Word) :
                     Reached(l, next, k) /\ (l[1] = 1 => k = (e - next) % Word)
<1> DEFINE idx == (e - base) % Word
           next == (base + 1) % Word
<1>1. Word \in Pos /\ base \in Nat /\ e \in Int /\ e - base \in Int /\ idx \in 0..(Word - 1)
  <2>1. Word \in Pos /\ base \in Nat /\ e \in Int /\ e - base \in Int
    BY SpanOrder DEF Pos
  <2>. QED  BY <2>1, DivMod
<1>2. l \in Vectors /\ l[1] \in 1..5 /\ l = <<l[1], l[2]>>
  BY ListsDiffer DEF Reached
<1>3. IndexIn(1, base) = base % TVR_SIZE /\ base % Span(1) = 0
  BY <1>1, SpanOrder DEF IndexIn, Lists
<1>4. (next - 1) % Word = base
  <2>1. (next - 1) % Word = ((base + 1) + (-1)) % Word
    <3>1. next \in Int /\ next - 1 = next + (-1)
      BY <1>1, DivMod
    <3>. QED  BY <1>1, <3>1, ModSum
  <2>2. (base + 1) + (-1) = base /\ base % Word = base
    <3>1. base \in (-Word)..(Word - 1) /\ base >= 0
      BY <1>1 DEF Pos
    <3>. QED  BY <1>1, <3>1, ModSmall
  <2>. QED  BY <2>1, <2>2
<1>5. (e - next) % Word = (idx - 1) % Word
  <2>1. (e - next) % Word = (e - (base + 1)) % Word
    BY <1>1, ModSum
  <2>2. (idx + (-1)) % Word = ((e - base) + (-1)) % Word
    BY <1>1, ModSum
  <2>3. e - (base + 1) = (e - base) + (-1) /\ idx + (-1) = idx - 1
    BY <1>1
  <2>. QED  BY <2>1, <2>2, <2>3
<1>6. ASSUME l = <<1, base % TVR_SIZE>>  PROVE e = (next - 1) % Word
  <2>1. d = 0
    <3>1. Reached(<<1, base % TVR_SIZE>>, base, d) /\ d \in Nat
      BY <1>1, <1>6
    <3>. QED  BY <1>1, <1>3, <3>1, ReachedNow
  <2>2. idx = 0
    BY <1>6, <2>1
  <2>3. e = base
    <3>1. e - base \in (-Word)..(Word - 1) /\ e - base # -Word
      BY <1>1 DEF Pos
    <3>2. (e - base) % Word = IF e - base >= 0 THEN e - base ELSE e - base + Word
      BY <1>1, <3>1, ModSmall
    <3>. QED  BY <1>1, <2>2, <3>1, <3>2 DEF Pos
  <2>. QED  BY <1>4, <2>3
<1>7. ASSUME l # <<1, base % TVR_SIZE>>
      PROVE  /\ (e - next) % Word < Word \div 2
             /\ \E k \in 0..((e - next) % Word) :
                  Reached(l, next, k) /\ (l[1] = 1 => k = (e - next) % Word)
  <2>1. d \in Nat \ {0}
    <3>1. CASE l[1] = 1
      <4>1. Reached(<<1, l[2]>>, base, d) /\ d \in Nat /\ 1 \in 1..5
        BY <1>1, <1>2, <3>1
      <4>2. d = 0 => l[2] = IndexIn(1, base)
        BY <1>1, <4>1, ReachedNow
      <4>. QED  BY <1>2, <1>3, <1>7, <3>1, <4>1, <4>2
    <3>2. CASE l[1] # 1
      BY <1>1, <3>2
    <3>. QED  BY <3>1, <3>2
  <2>2. d \in 0..idx /\ idx - 1 \in 0..(Word - 1)
    <3>1. d \in 0..idx
      OBVIOUS
    <3> HIDE DEF idx
    <3>. QED  BY <1>1, <2>1, <3>1 DEF Pos
  <2>3. (e - next) % Word = idx - 1
    <3>1. idx - 1 \in (-Word)..(Word - 1) /\ idx - 1 >= 0
      BY <1>1, <2>2 DEF Pos
    <3> HIDE DEF idx, next
    <3>. QED  BY <1>1, <1>5, <3>1, ModSmall
  <2>4. Reached(l, next, d - 1)
    BY <2>1, ReachedNext
  <2>5. d - 1 \in 0..(idx - 1) /\ (l[1] = 1 => d = idx) /\ idx < Word \div 2
    <3>1. (l[1] = 1 => d = idx) /\ idx < Word \div 2
      OBVIOUS
    <3> HIDE DEF idx
    <3>. QED  BY <1>1, <2>1, <2>2, <3>1 DEF Pos
  <2> HIDE DEF idx, next
  <2>6. idx - 1 < Word \div 2
    BY <1>1, <2>5 DEF Pos
  <2>. QED  BY <1>1, <2>1, <2>3, <2>4, <2>5, <2>6
<1>8. QED
  BY <1>6, <1>7

\* One jiffy of the wheel keeps the invariant of every timer.
LEMMA JiffyRun ==
    ASSUME IInv, run_jiffy, NEW t \in Timers
    PROVE  /\ where'[t] \in Vectors \cup {Off, Work}
           /\ OnTime(t)'
           /\ where'[t] = Work => due[t] = timer_jiffies
           /\ where'[t] # Off => where[t] # Off
<1> DEFINE x == timer_jiffies
           w == Cascaded[t]
<1>1. /\ TypeOK /\ OnTime(t) /\ where[t] # Work
      /\ x \in 0..(Word - 1) /\ expires[t] \in 0..(Word - 1) /\ due[t] \in 0..(Word - 1)
      /\ where[t] \in Vectors \cup {Off, Work}
  BY DEF IInv, TypeOK, WorkListEmptied, run_jiffy
<1>2. /\ where'[t] = IF w = <<1, x % TVR_SIZE>> THEN Work ELSE w
      /\ x' = (x + 1) % Word /\ due' = due /\ expires' = expires
  BY DEF run_jiffy
<1>3. <<1, x % TVR_SIZE>> \in Vectors
  <2>1. x % TVR_SIZE = IndexIn(1, x) /\ x \in Int
    BY <1>1, SpanOrder DEF IndexIn, Lists
  <2>. QED  BY <2>1, IndexType
<1>4. CASE where[t] = Off
  <2>1. w = Off
    BY <1>1, <1>4, CascadeEffect, ListsDiffer
  <2>2. where'[t] = Off
    BY <1>2, <1>3, <2>1, ListsDiffer
  <2>. QED  BY <2>2, ListsDiffer DEF OnTime
<1>5. CASE where[t] \in Vectors
  <2>1. PICK k \in 0..((due[t] - x) % Word) :
          /\ Reached(where[t], x, k)
          /\ where[t][1] = 1 => k = (due[t] - x) % Word
    BY <1>1, <1>5 DEF OnTime, Ahead
  <2>2. (due[t] - x) % Word < Word \div 2 /\ (where[t][1] # 1 => due[t] = expires[t])
    BY <1>1, <1>5 DEF OnTime, Ahead
  <2>3. PICK d \in 0..((due[t] - x) % Word) :
          /\ Reached(w, x, d)
          /\ w[1] = 1 => d = (due[t] - x) % Word
          /\ w[1] # 1 => d > 0
    <3>1. CASE w = where[t] /\ (where[t][1] # 1 => ~CascadedIn(where[t], x))
      <4>1. CASE w[1] = 1
        BY <2>1, <3>1, <4>1
      <4>2. CASE w[1] # 1
        <5>1. w[1] \in 1..5 /\ w = <<w[1], w[2]>>
          BY <1>5, <3>1, ListsDiffer
        <5>2. k \in Nat /\ x \in Nat
          BY <1>1, SpanOrder, DivMod DEF Pos
        <5>3. k # 0
          <6>1. Reached(<<w[1], w[2]>>, x, k) /\ ~CascadedIn(w, x)
            BY <2>1, <3>1, <4>2, <5>1
          <6> HIDE DEF w
          <6>2. k = 0 => x % Span(w[1]) = 0 /\ w[2] = IndexIn(w[1], x)
            BY <5>1, <5>2, <6>1, ReachedNow
          <6>. QED  BY <6>1, <6>2 DEF CascadedIn
        <5>. QED  BY <2>1, <3>1, <4>2, <5>2, <5>3
      <4>. QED  BY <4>1, <4>2
    <3>2. CASE w = internal_add_timer(expires[t], x) /\ where[t][1] # 1
      BY <1>1, <2>2, <3>2, Added
    <3>. QED  BY <1>1, <1>5, <3>1, <3>2, CascadeEffect, ZenonT(30)
  <2>4. w \in Vectors
    BY <2>3, ZenonT(30) DEF Reached
  <2> HIDE DEF w
  <2>5. /\ w = <<1, x % TVR_SIZE>> => due[t] = (x' - 1) % Word
        /\ w # <<1, x % TVR_SIZE>> =>
             /\ (due[t] - x') % Word < Word \div 2
             /\ \E k1 \in 0..((due[t] - x') % Word) :
                  Reached(w, x', k1) /\ (w[1] = 1 => k1 = (due[t] - x') % Word)
    BY <1>1, <1>2, <2>2, <2>3, Advanced, SMTT(30)
  <2>6. CASE w = <<1, x % TVR_SIZE>>
    <3>1. where'[t] = Work
      BY <1>2, <2>6
    <3>2. (x' - 1) % Word = x
      <4>1. Word \in Pos /\ x \in Int /\ x + 1 \in Int /\ x' \in Int
        <5>1. Word \in Pos /\ x \in Int /\ x + 1 \in Int
          BY <1>1, SpanOrder DEF Pos
        <5>. QED  BY <1>2, <5>1, DivMod
      <4>2. (x' + (-1)) % Word = ((x + 1) + (-1)) % Word
        BY <1>2, <4>1, ModSum
      <4>3. (x + 1) + (-1) = x /\ x' + (-1) = x' - 1 /\ x \in (-Word)..(Word - 1) /\ x >= 0
        BY <1>1, <4>1 DEF Pos
      <4>4. x % Word = x
        BY <4>1, <4>3, ModSmall
      <4>. QED  BY <4>2, <4>3, <4>4
    <3>. QED  BY <1>5, <2>5, <2>6, <3>1, <3>2, ListsDiffer DEF OnTime
  <2>7. CASE w # <<1, x % TVR_SIZE>>
    <3>1. where'[t] = w
      BY <1>2, <2>7
    <3>2. Ahead(t)' = (due[t] - x') % Word
      BY <1>2 DEF Ahead
    <3>3. w[1] # 1 => due[t] = expires[t]
      <4>1. CASE w = where[t]
        BY <2>2, <4>1
      <4>2. CASE w # where[t]
        BY <1>1, <2>2, <4>2, CascadeEffect DEF w
      <4>. QED  BY <4>1, <4>2
    <3>4. OnTime(t)'
      BY <1>2, <2>5, <2>7, <3>1, <3>2, <3>3 DEF OnTime
    <3>. QED  BY <1>5, <2>4, <3>1, <3>4, ListsDiffer
  <2>. QED  BY <2>6, <2>7
<1>6. QED
  BY <1>1, <1>4, <1>5

-----------------------------------------------------------------------------
(* Theorems. *)

\* The invariant holds when the wheel has been set up.
LEMMA InitInv == init_timers_cpu => IInv
<1> SUFFICES ASSUME init_timers_cpu  PROVE IInv
  OBVIOUS
<1> USE DEF init_timers_cpu
<1>1. Word \in Pos /\ MaxLag \in Nat
  BY SpanOrder, WheelAssumption
<1>2. TypeOK
  BY <1>1 DEF TypeOK, Pos
<1>3. Lag
  <2>1. now + 0 = now /\ now \in (-Word)..(Word - 1) /\ now >= 0
    BY <1>1 DEF Pos
  <2>2. now = (timer_jiffies + 0) % Word /\ 0 \in (-1)..MaxLag
    BY <1>1, <2>1, ModSmall
  <2>. QED  BY <2>2 DEF Lag
<1>4. \A t \in Timers : where[t] = Off
  OBVIOUS
<1>5. RunsInDueJiffy /\ WorkListEmptied /\ \A t \in Timers : OnTime(t) /\ DueAfterExpiry(t)
  BY <1>4, ListsDiffer DEF RunsInDueJiffy, WorkListEmptied, OnTime, DueAfterExpiry
<1>6. QED
  BY <1>2, <1>3, <1>5 DEF IInv

\* Setting a timer, by add_timer or mod_timer.
LEMMA SetKeepsInv ==
    ASSUME IInv, NEW t \in Timers, NEW d \in Delays, __mod_timer(t, (now + d) % Word),
           UNCHANGED <<now, timer_jiffies, pc, running>>
    PROVE  IInv'
<1>1. /\ where' \in [Timers -> Vectors \cup {Off, Work}]
      /\ expires' \in [Timers -> 0..(Word - 1)]
      /\ due' \in [Timers -> 0..(Word - 1)]
      /\ where'[t] \in Vectors
      /\ OnTime(t)' /\ DueAfterExpiry(t)'
      /\ \A u \in Timers \ {t} : where'[u] = where[u] /\ expires'[u] = expires[u] /\ due'[u] = due[u]
  BY Modified
<1>2. TypeOK'
  BY <1>1, ZenonT(30) DEF IInv, TypeOK
<1>3. \A u \in Timers : OnTime(u)' /\ DueAfterExpiry(u)'
  BY <1>1, SMTT(30) DEF IInv, OnTime, DueAfterExpiry, Ahead
<1>4. WorkListEmptied'
  BY <1>1, ListsDiffer DEF IInv, WorkListEmptied
<1>5. Lag'
  BY DEF IInv, Lag
<1>6. RunsInDueJiffy'
  BY <1>1, <1>3, ListsDiffer DEF IInv, RunsInDueJiffy, OnTime, Ahead, NotNegative
<1>7. QED
  BY <1>2, <1>3, <1>4, <1>5, <1>6, ZenonT(30) DEF IInv

\* Taking a timer off its list, by del_timer or before its callback.
LEMMA DetachKeepsInv ==
    ASSUME IInv, NEW t \in Timers, Detached(t), UNCHANGED <<now, timer_jiffies>>,
           pc' \in {"idle", "loop", "work", "fn"}, pc \in {"work", "fn"} => pc' \in {"work", "fn"},
           running' \in Timers \cup {NoTimer}
    PROVE  IInv'
<1> USE DEF Detached
<1>1. Word \in Pos
  BY SpanOrder
<1>2. TypeOK'
  BY <1>1 DEF IInv, TypeOK, Pos
<1>3. /\ where'[t] = Off
      /\ \A u \in Timers \ {t} : where'[u] = where[u] /\ expires'[u] = expires[u] /\ due'[u] = due[u]
  BY DEF IInv, TypeOK
<1>4. \A u \in Timers : OnTime(u)' /\ DueAfterExpiry(u)'
  BY <1>3, ListsDiffer DEF IInv, OnTime, DueAfterExpiry, Ahead
<1>5. WorkListEmptied'
  BY <1>3, ListsDiffer DEF IInv, WorkListEmptied
<1>6. Lag'
  BY DEF IInv, Lag
<1>7. RunsInDueJiffy'
  BY <1>3, ListsDiffer DEF IInv, RunsInDueJiffy, NotNegative
<1>8. QED
  BY <1>2, <1>4, <1>5, <1>6, <1>7 DEF IInv

\* One jiffy.
LEMMA JiffyKeepsInv == IInv /\ run_jiffy => IInv'
<1> SUFFICES ASSUME IInv, run_jiffy  PROVE IInv'
  BY ZenonT(30)
<1>1. /\ Word \in Pos /\ timer_jiffies \in 0..(Word - 1) /\ timer_jiffies \in Int
      /\ timer_jiffies + 1 \in Int /\ timer_jiffies' = (timer_jiffies + 1) % Word
      /\ MaxLag \in Nat
  BY SpanOrder, WheelAssumption DEF IInv, TypeOK, run_jiffy, Pos
<1>2. \A t \in Timers : /\ where'[t] \in Vectors \cup {Off, Work}
                        /\ OnTime(t)'
                        /\ where'[t] = Work => due[t] = timer_jiffies
                        /\ where'[t] # Off => where[t] # Off
  BY JiffyRun
<1>3. timer_jiffies' \in 0..(Word - 1)
  BY <1>1, DivMod
<1>4. TypeOK'
  <2>1. \E f : where' = [t \in Timers |-> f[t]]
    <3>1. where' = [t \in Timers |-> where'[t]]
      BY DEF run_jiffy
    <3>. QED  BY <3>1
  <2>2. where' \in [Timers -> Vectors \cup {Off, Work}]
    BY <1>2, <2>1
  <2>. QED  BY <1>3, <2>2 DEF IInv, TypeOK, run_jiffy
<1>5. (timer_jiffies' - 1) % Word = timer_jiffies
  <2>1. timer_jiffies' \in Int
    BY <1>3
  <2>2. (timer_jiffies' + (-1)) % Word = ((timer_jiffies + 1) + (-1)) % Word
    BY <1>1, ModSum
  <2>3. /\ (timer_jiffies + 1) + (-1) = timer_jiffies
        /\ timer_jiffies' + (-1) = timer_jiffies' - 1
        /\ timer_jiffies \in (-Word)..(Word - 1) /\ timer_jiffies >= 0
    BY <1>1, <2>1 DEF Pos
  <2>4. timer_jiffies % Word = timer_jiffies
    BY <1>1, <2>3, ModSmall
  <2>. QED  BY <2>2, <2>3, <2>4
<1>6. RunsInDueJiffy'
  <2>1. due' = due
    BY DEF run_jiffy
  <2>. QED  BY <1>2, <1>5, <2>1 DEF RunsInDueJiffy, OnTime, Ahead, NotNegative
<1>7. WorkListEmptied'
  BY DEF WorkListEmptied, run_jiffy
<1>8. Lag'
  <2>1. PICK lag \in (-1)..MaxLag : now = (timer_jiffies + lag) % Word
    BY DEF IInv, Lag
  <2>2. (now - timer_jiffies) % Word < Word \div 2 /\ now' = now
    BY DEF run_jiffy, NotNegative
  <2>3. lag # -1
    <3>1. (now + (-timer_jiffies)) % Word = ((timer_jiffies + lag) + (-timer_jiffies)) % Word
      BY <1>1, <2>1, ModSum
    <3>2. (timer_jiffies + lag) + (-timer_jiffies) = lag /\ now + (-timer_jiffies) = now - timer_jiffies
      BY <1>1 DEF IInv, TypeOK
    <3>3. (-1) % Word = -1 + Word
      <4>1. -1 \in (-Word)..(Word - 1) /\ ~(-1 >= 0)
        BY <1>1 DEF Pos
      <4>. QED  BY <1>1, <4>1, ModSmall
    <3>4. ~(-1 + Word < Word \div 2)
      BY <1>1 DEF Pos
    <3>. QED  BY <2>2, <3>1, <3>2, <3>3, <3>4
  <2>4. lag - 1 \in (-1)..MaxLag
    BY <1>1, <2>3
  <2>5. (timer_jiffies' + (lag - 1)) % Word = ((timer_jiffies + 1) + (lag - 1)) % Word
    BY <1>1, ModSum
  <2>6. (timer_jiffies + 1) + (lag - 1) = timer_jiffies + lag
    BY <1>1
  <2>. QED  BY <2>1, <2>2, <2>4, <2>5, <2>6 DEF Lag
<1>9. \A t \in Timers : DueAfterExpiry(t)'
  BY <1>2, ZenonT(30) DEF IInv, DueAfterExpiry, run_jiffy
<1>10. QED
  BY <1>2, <1>4, <1>6, <1>7, <1>8, <1>9 DEF IInv

\* jiffies advances.
LEMMA ClockKeepsInv == IInv /\ Clock => IInv'
<1> SUFFICES ASSUME IInv, Clock  PROVE IInv'
  OBVIOUS
<1>1. /\ Word \in Pos /\ timer_jiffies \in Int /\ now \in Int /\ now + 1 \in Int
      /\ now' = (now + 1) % Word /\ MaxLag \in Nat
  BY SpanOrder, WheelAssumption DEF IInv, TypeOK, Clock, Pos
<1>2. TypeOK'
  BY <1>1, DivMod DEF IInv, TypeOK, Clock
<1>3. Lag'
  <2>1. PICK lag \in (-1)..MaxLag : now = (timer_jiffies + lag) % Word
    BY DEF IInv, Lag
  <2> DEFINE room == timer_jiffies + MaxLag - 1
  <2>2. (room - now) % Word < Word \div 2 /\ timer_jiffies' = timer_jiffies
    <3>1. room - now = timer_jiffies + MaxLag - 1 - now
      BY <1>1
    <3>2. NotNegative(timer_jiffies + MaxLag - 1 - now) /\ timer_jiffies' = timer_jiffies
      BY DEF Clock
    <3>. QED  BY <3>1, <3>2 DEF NotNegative
  <2>3. lag # MaxLag
    <3>1. (room - now) % Word = (room - (timer_jiffies + lag)) % Word
      BY <1>1, <2>1, ModSum
    <3>2. lag = MaxLag => room - (timer_jiffies + lag) = -1
      BY <1>1
    <3>3. (-1) % Word = -1 + Word
      <4>1. -1 \in (-Word)..(Word - 1) /\ ~(-1 >= 0)
        BY <1>1 DEF Pos
      <4>. QED  BY <1>1, <4>1, ModSmall
    <3>4. ~(-1 + Word < Word \div 2)
      BY <1>1 DEF Pos
    <3> HIDE DEF room
    <3>. QED  BY <2>2, <3>1, <3>2, <3>3, <3>4
  <2>4. lag + 1 \in (-1)..MaxLag
    BY <1>1, <2>3
  <2>5. (now + 1) % Word = ((timer_jiffies + lag) + 1) % Word
    BY <1>1, <2>1, ModSum
  <2>6. (timer_jiffies + lag) + 1 = timer_jiffies + (lag + 1)
    BY <1>1
  <2>. QED  BY <1>1, <2>2, <2>4, <2>5, <2>6 DEF Lag
<1>4. QED
  BY <1>2, <1>3 DEF IInv, Clock, RunsInDueJiffy, WorkListEmptied, OnTime, DueAfterExpiry, Ahead, NotNegative

\* Every step keeps the invariant.
LEMMA NextInv == IInv /\ [Next]_vars => IInv'
<1> SUFFICES ASSUME IInv, [Next]_vars  PROVE IInv'
  BY ZenonT(30)
<1>1. ASSUME UNCHANGED <<now, timer_jiffies, expires, where, due>>,
             pc' \in {"idle", "loop", "work", "fn"}, running' \in Timers \cup {NoTimer},
             WorkListEmptied'
      PROVE  IInv'
  BY <1>1 DEF IInv, TypeOK, Lag, RunsInDueJiffy, OnTime, DueAfterExpiry, Ahead, NotNegative
<1>2. CASE run_timers
  BY <1>1, <1>2 DEF run_timers, IInv, TypeOK, WorkListEmptied
<1>3. CASE run_jiffy
  BY <1>3, JiffyKeepsInv
<1>4. CASE run_end
  BY <1>1, <1>4 DEF run_end, IInv, TypeOK, WorkListEmptied
<1>5. CASE fn_return
  BY <1>1, <1>5 DEF fn_return, IInv, TypeOK, WorkListEmptied
<1>6. CASE work_done
  BY <1>1, <1>6 DEF work_done, IInv, TypeOK, WorkListEmptied
<1>7. ASSUME NEW t \in Timers, call_fn(t)  PROVE IInv'
  BY <1>7, DetachKeepsInv DEF call_fn
<1>8. CASE Clock
  BY <1>8, ClockKeepsInv
<1>9. ASSUME NEW t \in Timers, del_timer(t)  PROVE IInv'
  BY <1>9, DetachKeepsInv DEF del_timer, IInv, TypeOK
<1>10. ASSUME NEW t \in Timers, NEW d \in Delays, add_timer(t, d) \/ mod_timer(t, d)  PROVE IInv'
  BY <1>10, SetKeepsInv DEF add_timer, mod_timer
<1>11. CASE UNCHANGED vars
  BY <1>1, <1>11 DEF vars, IInv, TypeOK, WorkListEmptied
<1>12. QED
  BY <1>2, <1>3, <1>4, <1>5, <1>6, <1>7, <1>8, <1>9, <1>10, <1>11 DEF Next, RunStep

\* The inductive invariant holds in every reachable state.
THEOREM Invariance == Spec => []IInv
<1>1. QED
  BY InitInv, NextInv, PTL DEF Spec

\* Every variable keeps its type; a timer is on one list of the wheel, on
\* work_list, or on none.
THEOREM TypeCorrect == Spec => []TypeOK
<1>1. IInv => TypeOK
  BY DEF IInv
<1>2. QED
  BY <1>1, Invariance, PTL

\* Whatever the sizes of the vectors and the width of jiffies, a pending timer is
\* moved to work_list in the jiffy it is due: internal_add_timer and the cascades
\* of __run_timers never let the wheel pass it, and never serve it early.
THEOREM DueJiffy == Spec => []RunsInDueJiffy
<1>1. IInv => RunsInDueJiffy
  BY DEF IInv
<1>2. QED
  BY <1>1, Invariance, PTL

\* __run_timers returns with an empty work_list, whatever the callbacks set or
\* delete.
THEOREM NoneLeftBehind == Spec => []WorkListEmptied
<1>1. IInv => WorkListEmptied
  BY DEF IInv
<1>2. QED
  BY <1>1, Invariance, PTL

\* fn(data) is not called before jiffies has reached timer->expires.
THEOREM CallbackNotEarly == Spec => NeverEarly
<1> DEFINE A == \A t \in Timers : running # t /\ running' = t => NotNegative(now - expires[t])
<1>1. ASSUME IInv, Next  PROVE A
  <2> SUFFICES ASSUME NEW t \in Timers, running # t, running' = t
               PROVE  NotNegative(now - expires[t])
    OBVIOUS
  <2>1. t # NoTimer
    BY WheelAssumption, ZenonT(30)
  <2>2. call_fn(t)
    <3>1. \A u \in Timers : call_fn(u) => u = t
      BY DEF call_fn
    <3>. QED
      BY <1>1, <2>1, <3>1 DEF Next, RunStep, run_timers, run_jiffy, run_end, fn_return, work_done,
         Clock, del_timer, add_timer, mod_timer
  <2>3. due[t] = (timer_jiffies - 1) % Word /\ where[t] # Off
    BY <1>1, <2>2, ListsDiffer, ZenonT(30) DEF IInv, RunsInDueJiffy, call_fn
  <2>4. PICK a \in 0..((Word \div 2) - MaxLag - 2) : due[t] = (expires[t] + a) % Word
    BY <1>1, <2>3 DEF IInv, DueAfterExpiry
  <2>5. PICK lag \in (-1)..MaxLag : now = (timer_jiffies + lag) % Word
    BY <1>1 DEF IInv, Lag
  <2> DEFINE x == timer_jiffies
             e == expires[t]
  <2>6. /\ Word \in Pos /\ x \in Int /\ e \in Int /\ now \in Int /\ MaxLag \in Nat
        /\ Word \div 2 \in Nat /\ Word \div 2 <= Word
    BY <1>1, SpanOrder, WheelAssumption DEF IInv, TypeOK, Pos
  <2>7. (now - e) % Word = ((x + lag) - e) % Word
    <3>1. (((x + lag) % Word) + (-e)) % Word = ((x + lag) + (-e)) % Word
      <4>1. x + lag \in Int /\ -e \in Int
        BY <2>6
      <4>. QED  BY <2>6, <4>1, ModSum, Zenon
    <3>2. now - e = now + (-e) /\ (x + lag) - e = (x + lag) + (-e)
      BY <2>6
    <3>. QED  BY <2>5, <3>1, <3>2
  <2>8. ((x + lag) - e) % Word = (lag + 1 + a) % Word
    <3>1. ((x - 1) + ((lag + 1) - e)) % Word = (due[t] + ((lag + 1) - e)) % Word
      <4>1. x - 1 \in Int /\ (lag + 1) - e \in Int
        BY <2>6
      <4>. QED  BY <2>3, <2>6, <4>1, ModSum
    <3>2. (due[t] + ((lag + 1) - e)) % Word = ((e + a) + ((lag + 1) - e)) % Word
      <4>1. e + a \in Int /\ (lag + 1) - e \in Int
        BY <2>6
      <4>. QED  BY <2>4, <2>6, <4>1, ModSum
    <3>3. (x - 1) + ((lag + 1) - e) = (x + lag) - e /\ (e + a) + ((lag + 1) - e) = lag + 1 + a
      BY <2>6
    <3>. QED  BY <3>1, <3>2, <3>3
  <2>9. lag + 1 + a \in 0..((Word \div 2) - 1)
    BY <2>6
  <2>10. (lag + 1 + a) % Word = lag + 1 + a
    <3>1. lag + 1 + a \in (-Word)..(Word - 1) /\ lag + 1 + a >= 0
      BY <2>6, <2>9 DEF Pos
    <3>. QED  BY <2>6, <3>1, ModSmall
  <2>11. (now - e) % Word < Word \div 2
    BY <2>6, <2>7, <2>8, <2>9, <2>10
  <2>. QED  BY <2>11 DEF NotNegative
<1>2. ASSUME UNCHANGED vars  PROVE A
  BY <1>2 DEF vars
<1>3. IInv /\ [Next]_vars => [A]_vars
  BY <1>1, <1>2
<1>4. QED
  BY <1>3, Invariance, PTL DEF Spec, NeverEarly
=============================================================================
