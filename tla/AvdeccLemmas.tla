---------------------------- MODULE AvdeccLemmas ----------------------------
(***************************************************************************)
(* Facts about remainders, about erasing from a sequence and about         *)
(* recursive functions that the proofs of several components cite.         *)
(***************************************************************************)
EXTENDS Integers, Sequences, SequencesExt, SequenceTheorems, WellFoundedInduction, TLAPS

\* Quotient and remainder of a natural number.
LEMMA DivMod ==
  ASSUME NEW m \in Nat \ {0}, NEW a \in Nat
  PROVE  /\ a = m * (a \div m) + (a % m)
         /\ a % m \in 0 .. m - 1
         /\ a \div m \in Nat
  OBVIOUS

\* The only multiple of m between 0 and m - 1 is 0.
LEMMA SmallMultiple ==
  ASSUME NEW m \in Nat \ {0}, NEW p \in Int, NEW q \in Int,
         NEW d \in 0 .. m - 1, m * p - m * q = d
  PROVE  d = 0
  OBVIOUS

\* Numbers less than m apart have different remainders: the reason why a
\* wrapping counter still tells commands apart.
LEMMA ModUnique ==
  ASSUME NEW m \in Nat \ {0}, NEW a \in Nat, NEW b \in Nat,
         a >= b, a - b < m, a % m = b % m
  PROVE  a = b
<1> DEFINE qa == a \div m
           qb == b \div m
<1>1. /\ a = m * qa + (a % m)
      /\ b = m * qb + (b % m)
      /\ a % m \in 0 .. m - 1
  BY DivMod
<1>2. qa \in Nat /\ qb \in Nat
  BY DivMod
<1>3. m * qa - m * qb = a - b
  BY <1>1, <1>2
<1>4. a - b \in 0 .. m - 1
  OBVIOUS
<1> HIDE DEF qa, qb
<1>5. a - b = 0
  BY <1>2, <1>3, <1>4, SmallMultiple
<1> QED
  BY <1>5

\* Advancing a wrapped counter is wrapping the advanced counter.
LEMMA ModSucc ==
  ASSUME NEW m \in Nat \ {0}, NEW a \in Nat
  PROVE  (a + 1) % m = ((a % m) + 1) % m
<1> DEFINE q == a \div m
           r == a % m
           p == (a + 1) \div m
           s == (a + 1) % m
<1>1. a = m * q + r /\ r \in 0 .. m - 1 /\ q \in Nat
  BY DivMod
<1>2. a + 1 \in Nat
  OBVIOUS
<1>3. a + 1 = m * p + s /\ s \in 0 .. m - 1 /\ p \in Nat
  BY <1>2
<1> HIDE DEF q, r, p, s
<1>4. CASE r + 1 < m
  <2>1. (r + 1) % m = r + 1
    BY <1>1, <1>4
  <2>2. m * p - m * q = r + 1 - s
    BY <1>1, <1>3
  <2>3. r + 1 >= s => r + 1 - s = 0
    BY <1>1, <1>3, <1>4, <2>2, SmallMultiple
  <2>4. m * q - m * p = s - (r + 1)
    BY <1>1, <1>3
  <2>5. r + 1 < s => s - (r + 1) = 0
    BY <1>1, <1>3, <1>4, <2>4, SmallMultiple
  <2> QED
    BY <2>1, <2>3, <2>5, <1>1, <1>3 DEF s, r
<1>5. CASE r + 1 = m
  <2>1. m % m = 0
    OBVIOUS
  <2>2. m * (q + 1) - m * p = s
    BY <1>1, <1>3, <1>5
  <2>3. s = 0
    BY <2>2, <1>1, <1>3, SmallMultiple
  <2> QED
    BY <2>1, <2>3, <1>5 DEF s, r
<1> QED
  BY <1>1, <1>4, <1>5

\* Quotient and remainder of an integer: remainders are never negative.
LEMMA DivModInt ==
  ASSUME NEW m \in Nat \ {0}, NEW a \in Int
  PROVE  /\ a = m * (a \div m) + (a % m)
         /\ a % m \in 0 .. m - 1
         /\ a \div m \in Int
  OBVIOUS

\* The remainder is the only number below m that differs by a multiple of m.
LEMMA ModRep ==
  ASSUME NEW m \in Nat \ {0}, NEW x \in Int, NEW k \in Int, NEW y \in 0 .. m - 1,
         x = m * k + y
  PROVE  x % m = y
<1> DEFINE q == x \div m
           r == x % m
<1>1. x = m * q + r /\ r \in 0 .. m - 1 /\ q \in Int
  BY DivModInt
<1> HIDE DEF q, r
<1>2. m * k - m * q = r - y /\ m * q - m * k = y - r
  BY <1>1
<1>3. CASE r >= y
  <2>1. r - y \in 0 .. m - 1
    BY <1>1, <1>3
  <2>2. r - y = 0
    BY <1>1, <1>2, <2>1, SmallMultiple
  <2> QED
    BY <1>1, <2>2 DEF r
<1>4. CASE y >= r
  <2>1. y - r \in 0 .. m - 1
    BY <1>1, <1>4
  <2>2. y - r = 0
    BY <1>1, <1>2, <2>1, SmallMultiple
  <2> QED
    BY <1>1, <2>2 DEF r
<1> QED
  BY <1>1, <1>3, <1>4

\* Adding to a wrapped counter is wrapping the sum.
LEMMA ModAdd ==
  ASSUME NEW m \in Nat \ {0}, NEW a \in Nat, NEW b \in Nat
  PROVE  ((a % m) + b) % m = (a + b) % m
<1> DEFINE q == a \div m
           r == a % m
           p == (a + b) \div m
           s == (a + b) % m
<1>1. a = m * q + r /\ r \in 0 .. m - 1 /\ q \in Nat
  BY DivMod
<1>2. a + b \in Nat
  OBVIOUS
<1>3. a + b = m * p + s /\ s \in 0 .. m - 1 /\ p \in Nat
  BY <1>2
<1> HIDE DEF q, r, p, s
<1>4. r + b = m * (p - q) + s
  BY <1>1, <1>3
<1>5. r + b \in Int /\ p - q \in Int
  BY <1>1, <1>3
<1>6. (r + b) % m = s
  BY <1>3, <1>4, <1>5, ModRep
<1> QED
  BY <1>6 DEF r, s

\* The difference of two wrapped counters, wrapped, is their difference.
LEMMA ModDiff ==
  ASSUME NEW m \in Nat \ {0}, NEW a \in Nat, NEW b \in Nat, a >= b, a - b < m
  PROVE  ((a % m) - (b % m)) % m = a - b
<1> DEFINE qa == a \div m
           ra == a % m
           qb == b \div m
           rb == b % m
<1>1. /\ a = m * qa + ra /\ ra \in 0 .. m - 1 /\ qa \in Nat
      /\ b = m * qb + rb /\ rb \in 0 .. m - 1 /\ qb \in Nat
  BY DivMod
<1> HIDE DEF qa, ra, qb, rb
<1>2. ra - rb = m * (qb - qa) + (a - b)
  BY <1>1
<1>3. /\ ra - rb \in Int /\ qb - qa \in Int /\ a - b \in 0 .. m - 1
  BY <1>1
<1>4. (ra - rb) % m = a - b
  BY <1>2, <1>3, ModRep
<1> QED
  BY <1>4 DEF ra, rb

\* Wrapping at a multiple of n does not change the remainder by n.
LEMMA ModMod ==
  ASSUME NEW m \in Nat \ {0}, NEW n \in Nat \ {0}, m % n = 0, NEW a \in Nat
  PROVE  (a % m) % n = a % n
<1> DEFINE c == m \div n
           q == a \div m
           r == a % m
           t == r \div n
           u == r % n
<1>1. m = n * c /\ c \in Nat
  BY DivMod
<1>2. a = m * q + r /\ r \in 0 .. m - 1 /\ q \in Nat
  BY DivMod
<1>3. r = n * t + u /\ u \in 0 .. n - 1 /\ t \in Nat
  <2>1. r \in Nat
    BY <1>2
  <2> HIDE DEF r
  <2> QED
    BY <2>1, DivMod
<1> HIDE DEF c, q, r, t, u
<1>4. a = n * (c * q + t) + u
  <2>1. m * q = n * (c * q)
    BY <1>1, <1>2
  <2>2. c * q \in Nat
    BY <1>1, <1>2
  <2>3. n * (c * q + t) = n * (c * q) + n * t
    BY <2>2, <1>3
  <2> QED
    BY <2>1, <2>3, <1>2, <1>3
<1>5. c * q + t \in Int
  BY <1>1, <1>2, <1>3
<1>6. a % n = u
  <2>1. u \in 0 .. n - 1 /\ a \in Int
    BY <1>3
  <2> DEFINE k == c * q + t
  <2>2. a = n * k + u /\ k \in Int
    BY <1>4, <1>5
  <2> HIDE DEF k
  <2> QED
    BY <2>1, <2>2, ModRep
<1> QED
  BY <1>6 DEF u, r

\* vector::erase: the entries after position i move down by one.
LEMMA RemoveAtProperties ==
  ASSUME NEW S, NEW s \in Seq(S), NEW i \in DOMAIN s
  PROVE  /\ RemoveAt(s, i) \in Seq(S)
         /\ Len(RemoveAt(s, i)) = Len(s) - 1
         /\ \A k \in DOMAIN RemoveAt(s, i) :
              RemoveAt(s, i)[k] = IF k < i THEN s[k] ELSE s[k + 1]
<1> DEFINE a == SubSeq(s, 1, i - 1)
           b == SubSeq(s, i + 1, Len(s))
<1>0. i \in 1 .. Len(s) /\ Len(s) \in Nat
  OBVIOUS
<1>1. /\ a \in Seq(S) /\ Len(a) = i - 1
      /\ \A k \in 1 .. i - 1 : a[k] = s[k]
  BY <1>0
<1>2. /\ b \in Seq(S) /\ Len(b) = Len(s) - i
      /\ \A k \in 1 .. Len(s) - i : b[k] = s[k + i]
  BY <1>0
<1> HIDE DEF a, b
<1>3. /\ a \o b \in Seq(S) /\ Len(a \o b) = Len(s) - 1
      /\ \A k \in 1 .. Len(s) - 1 :
           (a \o b)[k] = IF k < i THEN a[k] ELSE b[k - (i - 1)]
  <2>1. a \o b \in Seq(S) /\ Len(a \o b) = Len(a) + Len(b)
    BY <1>1, <1>2, ConcatProperties
  <2>2. Len(a \o b) = Len(s) - 1
    BY <2>1, <1>0, <1>1, <1>2
  <2>3. \A k \in 1 .. Len(a) + Len(b) :
          (a \o b)[k] = IF k <= Len(a) THEN a[k] ELSE b[k - Len(a)]
    BY <1>1, <1>2, ConcatProperties
  <2> QED
    BY <2>1, <2>2, <2>3, <1>0, <1>1, <1>2
<1>4. \A k \in 1 .. Len(s) - 1 :
        (a \o b)[k] = IF k < i THEN s[k] ELSE s[k + 1]
  <2> TAKE k \in 1 .. Len(s) - 1
  <2>1. CASE k < i
    BY <2>1, <1>0, <1>1, <1>3
  <2>2. CASE ~(k < i)
    <3>1. k - (i - 1) \in 1 .. Len(s) - i /\ k - (i - 1) + i = k + 1
      BY <2>2, <1>0
    <3> QED
      BY <2>2, <3>1, <1>2, <1>3
  <2> QED
    BY <2>1, <2>2
<1>5. RemoveAt(s, i) = a \o b
  BY DEF RemoveAt, a, b
<1>6. DOMAIN (a \o b) = 1 .. Len(s) - 1
  BY <1>3
<1> QED
  BY <1>3, <1>4, <1>5, <1>6

\* Replacing one entry of a sequence keeps its length and its type.
LEMMA ExceptProperties ==
  ASSUME NEW S, NEW s \in Seq(S), NEW i \in DOMAIN s, NEW v \in S
  PROVE  /\ [s EXCEPT ![i] = v] \in Seq(S)
         /\ Len([s EXCEPT ![i] = v]) = Len(s)
         /\ DOMAIN [s EXCEPT ![i] = v] = DOMAIN s
  OBVIOUS

\* A function on the domain of a sequence is a sequence of the same length.
LEMMA MapProperties ==
  ASSUME NEW S, NEW T, NEW s \in Seq(S), NEW f \in [DOMAIN s -> T]
  PROVE  f \in Seq(T) /\ Len(f) = Len(s) /\ DOMAIN f = DOMAIN s
  OBVIOUS

\* A set of numbers has a least element.  With it the facts below about recursive
\* functions are proved without an induction theorem that takes an operator.
LEMMA LeastElement ==
  ASSUME NEW T \in SUBSET Nat, T # {}
  PROVE  \E x \in T : \A y \in T : x <= y
<1> DEFINE R == {ss \in Nat \X Nat : ss[1] < ss[2]}
<1>1. IsWellFoundedOn(R, Nat)
  BY NatLessThanWellFounded DEF OpToRel
<1>2. PICK x \in T : \A y \in T : ~ (<<y, x>> \in R)
  <2> HIDE DEF R
  <2> QED
    BY <1>1, WFMin
<1>3. ASSUME NEW y \in T
      PROVE  x <= y
  <2>1. x \in Nat /\ y \in Nat
    OBVIOUS
  <2>2. <<y, x>> \in Nat \X Nat /\ <<y, x>>[1] = y /\ <<y, x>>[2] = x
    BY <2>1
  <2>3. ~ (y < x)
    BY <1>2, <2>2
  <2> QED
    BY <2>1, <2>3
<1> QED
  BY <1>3

\* Induction, for the set of the numbers that have a property.
LEMMA InductionOnSet ==
  ASSUME NEW S, 0 \in S, \A n \in Nat : n \in S => n + 1 \in S
  PROVE  Nat \subseteq S
<1>1. SUFFICES ASSUME Nat \ S # {} PROVE FALSE
  OBVIOUS
<1>2. PICK x \in Nat \ S : \A y \in Nat \ S : x <= y
  BY <1>1, LeastElement
<1>3. x # 0 /\ x - 1 \in Nat
  BY <1>2
<1>4. x - 1 \in S
  BY <1>2, <1>3
<1> QED
  BY <1>2, <1>3, <1>4

\* FlattenSeq is defined by a recursive function, which exists because each of
\* its initial parts does: joined[k] is what the first k sequences are together.
LEMMA FlattenSeqUnfolds ==
  ASSUME NEW T, NEW s \in Seq(Seq(T))
  PROVE  \E joined \in [0 .. Len(s) -> Seq(T)] :
           /\ joined[0] = <<>>
           /\ \A k \in 1 .. Len(s) : joined[k] = joined[k - 1] \o s[k]
           /\ FlattenSeq(s) = joined[Len(s)]
<1> DEFINE n == Len(s)
           Fills(f, m) == f = [i \in 1 .. m |-> IF i = 1 THEN s[i] ELSE f[i-1] \o s[i]]
           flat == CHOOSE f : Fills(f, n)
           joined == [k \in 0 .. n |-> IF k = 0 THEN <<>> ELSE flat[k]]
<1>1. \E f : Fills(f, n)
  <2> DEFINE S == {m \in Nat : \E f : Fills(f, m)}
  <2>1. 0 \in S
    <3>1. Fills([i \in 1 .. 0 |-> IF i = 1 THEN s[i] ELSE <<>>], 0)
      OBVIOUS
    <3> QED
      BY <3>1
  <2>2. ASSUME NEW m \in Nat, m \in S
        PROVE  m + 1 \in S
    <3>1. PICK f : Fills(f, m)
      BY <2>2
    <3> DEFINE g == [i \in 1 .. m + 1 |-> IF i <= m THEN f[i]
                                         ELSE IF i = 1 THEN s[i] ELSE f[m] \o s[i]]
    <3>2. ASSUME NEW i \in 1 .. m + 1
          PROVE  g[i] = IF i = 1 THEN s[i] ELSE g[i - 1] \o s[i]
      <4>1. CASE i = m + 1
        BY <4>1
      <4>2. CASE i \in 1 .. m
        <5>1. f[i] = IF i = 1 THEN s[i] ELSE f[i - 1] \o s[i]
          BY <3>1, <4>2
        <5> QED
          BY <4>2, <5>1
      <4> QED
        BY <4>1, <4>2
    <3>3. Fills(g, m + 1)
      BY <3>2
    <3> HIDE DEF g, Fills
    <3>4. \E h : Fills(h, m + 1)
      BY <3>3
    <3> QED
      BY <3>4
  <2> HIDE DEF S
  <2>3. Nat \subseteq S
    BY <2>1, <2>2, InductionOnSet
  <2>4. n \in S
    BY <2>3
  <2> QED
    BY <2>4 DEF S
<1>2. Fills(flat, n)
  BY <1>1
<1>3. FlattenSeq(s) = joined[n]
  <2>1. CASE n = 0
    BY <2>1 DEF FlattenSeq
  <2>2. CASE n # 0
    <3>1. FlattenSeq(s) = flat[n]
      BY <2>2 DEF FlattenSeq
    <3> QED
      BY <2>2, <3>1
  <2> QED
    BY <2>1, <2>2
<1> HIDE DEF flat
<1>4. \A i \in 1 .. n : flat[i] = IF i = 1 THEN s[i] ELSE flat[i - 1] \o s[i]
  BY <1>2
<1> DEFINE S == {m \in Nat : m <= n => joined[m] \in Seq(T)}
<1>5. \A m \in 1 .. n : joined[m] = IF m = 1 THEN s[m] ELSE joined[m - 1] \o s[m]
  BY <1>4
<1>6. joined[0] = <<>> /\ DOMAIN joined = 0 .. n
  OBVIOUS
<1> HIDE DEF joined
<1>7. Nat \subseteq S
  <2>1. 0 \in S
    <3>1. <<>> \in Seq(T)
      OBVIOUS
    <3> QED
      BY <1>6, <3>1
  <2>2. ASSUME NEW m \in Nat, m \in S
        PROVE  m + 1 \in S
    <3> SUFFICES ASSUME m + 1 <= n PROVE joined[m + 1] \in Seq(T)
      OBVIOUS
    <3>1. m + 1 \in 1 .. n /\ (m + 1) - 1 = m /\ joined[m] \in Seq(T) /\ s[m + 1] \in Seq(T)
      BY <2>2
    <3>2. joined[m + 1] = IF m + 1 = 1 THEN s[m + 1] ELSE joined[m] \o s[m + 1]
      BY <1>5, <3>1
    <3> QED
      BY <3>1, <3>2
  <2> HIDE DEF S
  <2> QED
    BY <2>1, <2>2, InductionOnSet
<1>8. \A m \in 0 .. n : joined[m] \in Seq(T)
  BY <1>7
<1>9. joined \in [0 .. n -> Seq(T)]
  <2>1. joined = [m \in 0 .. n |-> joined[m]]
    BY DEF joined
  <2> HIDE DEF n
  <2> QED
    BY <1>8, <2>1
<1>10. \A k \in 1 .. n : joined[k] = joined[k - 1] \o s[k]
  <2> TAKE k \in 1 .. n
  <2>1. CASE k = 1
    <3>1. joined[1] = s[1] /\ s[1] \in Seq(T) /\ joined[0] = <<>>
      BY <1>5, <1>6, <2>1
    <3>2. <<>> \o s[1] = s[1]
      BY <3>1
    <3>3. k - 1 = 0
      BY <2>1
    <3> QED
      BY <2>1, <3>1, <3>2, <3>3, Zenon
  <2>2. CASE k # 1
    BY <1>5, <2>2
  <2> QED
    BY <2>1, <2>2
<1> QED
  BY <1>3, <1>6, <1>9, <1>10

LEMMA OneIsSeq == ASSUME NEW T, NEW x \in T PROVE <<x>> \in Seq(T)
OBVIOUS

\* Three facts by induction over the initial parts of n joined sequences.
LEMMA JoinedRange ==
  ASSUME NEW T, NEW n \in Nat, NEW s, NEW joined, joined[0] = <<>>,
         \A k \in 1 .. n : s[k] \in Seq(T),
         \A k \in 0 .. n : joined[k] \in Seq(T),
         \A k \in 1 .. n : joined[k] = joined[k - 1] \o s[k]
  PROVE  Range(joined[n]) = UNION {Range(s[j]) : j \in 1 .. n}
<1> DEFINE Got(m) == UNION {Range(s[j]) : j \in 1 .. m}
           S == {m \in Nat : m <= n => Range(joined[m]) = Got(m)}
<1>1. 0 \in S
  <2>1. Range(joined[0]) = {} /\ Got(0) = {}
    BY DEF Range
  <2> QED
    BY <2>1
<1>2. ASSUME NEW m \in Nat, m \in S
      PROVE  m + 1 \in S
  <2> SUFFICES ASSUME m + 1 <= n PROVE Range(joined[m + 1]) = Got(m + 1)
    OBVIOUS
  <2>1. m + 1 \in 1 .. n /\ (m + 1) - 1 = m /\ m \in 0 .. n /\ Range(joined[m]) = Got(m)
    BY <1>2
  <2>2. /\ joined[m + 1] = joined[m] \o s[m + 1]
        /\ s[m + 1] \in Seq(T) /\ joined[m] \in Seq(T)
    BY <2>1
  <2>3. Range(joined[m] \o s[m + 1]) = Range(joined[m]) \cup Range(s[m + 1])
    BY <2>2, RangeConcatenation
  <2>4. 1 .. m + 1 = (1 .. m) \cup {m + 1}
    OBVIOUS
  <2>5. Got(m + 1) = Got(m) \cup Range(s[m + 1])
    BY <2>4, Zenon
  <2> QED
    BY <2>1, <2>2, <2>3, <2>5
<1>3. Nat \subseteq S
  <2> HIDE DEF S
  <2> QED
    BY <1>1, <1>2, InductionOnSet
<1>4. n \in S
  <2> HIDE DEF S
  <2> QED
    BY <1>3
<1> QED
  BY <1>4

LEMMA JoinedEmpty ==
  ASSUME NEW n \in Nat, NEW s, NEW joined, joined[0] = <<>>,
         \A k \in 1 .. n : s[k] = <<>>,
         \A k \in 1 .. n : joined[k] = joined[k - 1] \o s[k]
  PROVE  joined[n] = <<>>
<1> DEFINE S == {m \in Nat : m <= n => joined[m] = <<>>}
<1>1. 0 \in S
  OBVIOUS
<1>2. ASSUME NEW m \in Nat, m \in S
      PROVE  m + 1 \in S
  <2> SUFFICES ASSUME m + 1 <= n PROVE joined[m + 1] = <<>>
    OBVIOUS
  <2>1. m + 1 \in 1 .. n /\ (m + 1) - 1 = m /\ joined[m] = <<>>
    BY <1>2
  <2>2. joined[m + 1] = <<>> \o <<>>
    BY <2>1
  <2> QED
    BY <2>2
<1>3. Nat \subseteq S
  <2> HIDE DEF S
  <2> QED
    BY <1>1, <1>2, InductionOnSet
<1> QED
  BY <1>3

LEMMA AppendOfConcatenation ==
  ASSUME NEW T, NEW s \in Seq(T), NEW t \in Seq(T), NEW x \in T
  PROVE  s \o Append(t, x) = Append(s \o t, x)
OBVIOUS

\* joined[k] is the first k of the n sequences; t is s with x appended to the
\* i-th sequence, the last that is not empty.
Joins(joined, s, n) ==
  joined[0] = <<>> /\ \A k \in 1 .. n : joined[k] = joined[k - 1] \o s[k]
AppendedAt(t, s, n, i, x) ==
  \A k \in 1 .. n : /\ t[k] = IF k = i THEN Append(s[k], x) ELSE s[k]
                    /\ k > i => s[k] = <<>>
SequencesOf(T, f, first, n) == \A k \in first .. n : f[k] \in Seq(T)
LongerBy(b, a, n, x) == b[n] = Append(a[n], x)

LEMMA JoinedAppend ==
  ASSUME NEW T, NEW n, NEW i, NEW x, NEW s, NEW t, NEW a, NEW b,
         n \in Nat, i \in 1 .. n, x \in T,
         SequencesOf(T, s, 1, n), SequencesOf(T, a, 0, n),
         AppendedAt(t, s, n, i, x), Joins(a, s, n), Joins(b, t, n)
  PROVE  LongerBy(b, a, n, x)
<1> USE DEF Joins, AppendedAt, SequencesOf, LongerBy
<1> DEFINE S == {m \in Nat : m <= n => b[m] = IF m < i THEN a[m] ELSE Append(a[m], x)}
<1>1. 0 \in S
  OBVIOUS
<1>2. ASSUME NEW m \in Nat, m \in S
      PROVE  m + 1 \in S
  <2> SUFFICES ASSUME m + 1 <= n
               PROVE  b[m + 1] = IF m + 1 < i THEN a[m + 1] ELSE Append(a[m + 1], x)
    OBVIOUS
  <2>1. /\ m + 1 \in 1 .. n /\ m \in 0 .. n /\ (m + 1) - 1 = m
        /\ b[m] = IF m < i THEN a[m] ELSE Append(a[m], x)
    BY <1>2
  <2>2. a[m + 1] = a[m] \o s[m + 1] /\ b[m + 1] = b[m] \o t[m + 1]
    BY <2>1
  <2>3. a[m] \in Seq(T) /\ s[m + 1] \in Seq(T)
    BY <2>1
  <2>4. CASE m + 1 < i
    <3>1. t[m + 1] = s[m + 1] /\ b[m] = a[m]
      BY <2>1, <2>4
    <3> QED
      BY <2>2, <2>4, <3>1
  <2>5. CASE m + 1 = i
    <3>1. t[m + 1] = Append(s[m + 1], x)
      BY <2>1, <2>5
    <3>2. a[m] \o Append(s[m + 1], x) = Append(a[m] \o s[m + 1], x)
      <4>1. PICK p, q : p = a[m] /\ q = s[m + 1]
        OBVIOUS
      <4>2. p \in Seq(T) /\ q \in Seq(T)
        BY <2>3, <4>1
      <4>3. p \o Append(q, x) = Append(p \o q, x)
        BY <4>2, AppendOfConcatenation
      <4> QED
        BY <4>1, <4>3
    <3>4. m < i
      BY <2>5
    <3>5. b[m] = a[m]
      BY <2>1, <3>4
    <3>3. ~(m + 1 < i)
      BY <2>5
    <3> QED
      BY <2>2, <3>1, <3>2, <3>3, <3>5
  <2>6. CASE m + 1 > i
    <3>1. t[m + 1] = <<>> /\ s[m + 1] = <<>>
      BY <2>1, <2>6
    <3>2. b[m] = Append(a[m], x)
      BY <2>1, <2>6
    <3>3. Append(a[m], x) \o <<>> = Append(a[m], x) /\ a[m] \o <<>> = a[m]
      BY <2>3
    <3>4. b[m + 1] = Append(a[m], x) /\ a[m + 1] = a[m]
      BY <2>2, <3>1, <3>2, <3>3
    <3>5. ~(m + 1 < i)
      BY <2>6
    <3> QED
      BY <3>4, <3>5
  <2> QED
    BY <2>4, <2>5, <2>6
<1>3. Nat \subseteq S
  <2> HIDE DEF S
  <2> QED
    BY <1>1, <1>2, InductionOnSet
<1>4. n \in S /\ ~(n < i)
  BY <1>3
<1> QED
  BY <1>4

\* What FlattenSeq returns: a sequence of the elements of the sequences.
LEMMA FlattenSeqProperties ==
  ASSUME NEW T, NEW s \in Seq(Seq(T))
  PROVE  /\ FlattenSeq(s) \in Seq(T)
         /\ Range(FlattenSeq(s)) = UNION {Range(s[j]) : j \in DOMAIN s}
<1>1. PICK joined \in [0 .. Len(s) -> Seq(T)] :
        /\ joined[0] = <<>>
        /\ \A k \in 1 .. Len(s) : joined[k] = joined[k - 1] \o s[k]
        /\ FlattenSeq(s) = joined[Len(s)]
  BY FlattenSeqUnfolds
<1>2. Len(s) \in Nat /\ DOMAIN s = 1 .. Len(s)
  OBVIOUS
<1>3. \A k \in 1 .. Len(s) : s[k] \in Seq(T)
  OBVIOUS
<1>4. \A k \in 0 .. Len(s) : joined[k] \in Seq(T)
  OBVIOUS
<1>5. joined[Len(s)] \in Seq(T)
  BY <1>2, <1>4
<1>6. Range(joined[Len(s)]) = UNION {Range(s[j]) : j \in 1 .. Len(s)}
  BY <1>1, <1>2, <1>3, <1>4, JoinedRange
<1> QED
  BY <1>1, <1>2, <1>5, <1>6

\* Empty sequences are nothing together.
LEMMA FlattenSeqOfEmpty ==
  ASSUME NEW T, NEW s \in Seq(Seq(T)), \A k \in 1 .. Len(s) : s[k] = <<>>
  PROVE  FlattenSeq(s) = <<>>
<1>1. PICK joined \in [0 .. Len(s) -> Seq(T)] :
        /\ joined[0] = <<>>
        /\ \A k \in 1 .. Len(s) : joined[k] = joined[k - 1] \o s[k]
        /\ FlattenSeq(s) = joined[Len(s)]
  BY FlattenSeqUnfolds
<1>2. Len(s) \in Nat
  OBVIOUS
<1> QED
  BY <1>1, <1>2, JoinedEmpty

\* An element appended to the last of the sequences that are not empty is
\* appended to all of them together.
AppendedToLast(t, s, i, x) ==
  /\ t = [s EXCEPT ![i] = Append(s[i], x)]
  /\ \A k \in 1 .. Len(s) : k > i => s[k] = <<>>

LEMMA FlattenSeqAppend ==
  ASSUME NEW T, NEW s \in Seq(Seq(T)), NEW i \in 1 .. Len(s), NEW x \in T,
         NEW t, AppendedToLast(t, s, i, x)
  PROVE  FlattenSeq(t) = Append(FlattenSeq(s), x)
<1> USE DEF AppendedToLast
<1>2. Len(s) \in Nat /\ \A k \in 1 .. Len(s) : s[k] \in Seq(T)
  OBVIOUS
<1>3. /\ t \in Seq(Seq(T)) /\ Len(t) = Len(s)
      /\ \A k \in 1 .. Len(s) : t[k] = IF k = i THEN Append(s[k], x) ELSE s[k]
  OBVIOUS
<1>4. PICK a \in [0 .. Len(s) -> Seq(T)] :
        /\ a[0] = <<>>
        /\ \A k \in 1 .. Len(s) : a[k] = a[k - 1] \o s[k]
        /\ FlattenSeq(s) = a[Len(s)]
  BY FlattenSeqUnfolds
<1>5. PICK b \in [0 .. Len(t) -> Seq(T)] :
        /\ b[0] = <<>>
        /\ \A k \in 1 .. Len(t) : b[k] = b[k - 1] \o t[k]
        /\ FlattenSeq(t) = b[Len(t)]
  BY <1>3, FlattenSeqUnfolds
<1>6. \A k \in 0 .. Len(s) : a[k] \in Seq(T)
  OBVIOUS
<1>7. b[Len(s)] = Append(a[Len(s)], x)
  <2>1. PICK n : n = Len(s)
    OBVIOUS
  <2>2. n \in Nat /\ i \in 1 .. n /\ x \in T
    BY <1>2, <2>1
  <2>3. Joins(a, s, n) /\ Joins(b, t, n)
    BY <1>3, <1>4, <1>5, <2>1 DEF Joins
  <2>4. AppendedAt(t, s, n, i, x)
    BY <1>3, <2>1 DEF AppendedAt
  <2>5. SequencesOf(T, s, 1, n) /\ SequencesOf(T, a, 0, n)
    BY <1>2, <1>6, <2>1 DEF SequencesOf
  <2>6. LongerBy(b, a, n, x)
    BY <2>2, <2>3, <2>4, <2>5, JoinedAppend, Zenon
  <2> QED
    BY <2>1, <2>6 DEF LongerBy
<1> QED
  BY <1>3, <1>4, <1>5, <1>7
=============================================================================
