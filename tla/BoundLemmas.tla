------------------------------ MODULE BoundLemmas ------------------------------
(***************************************************************************)
(* Extrema of bounded sets of integers: what Min and Max of FiniteSetsExt  *)
(* return for the sets of frames that the session's definitions form; and  *)
(* remainders, which place a frame, a sequence number or a sample in the   *)
(* slot of a ring.                                                         *)
(***************************************************************************)
EXTENDS Integers, FiniteSetsExt, WellFoundedInduction, TLAPS

\* Every non-empty set of naturals has a least element.
LEMMA Least ==
    ASSUME NEW T, T \subseteq Nat, T # {}
    PROVE  \E x \in T : \A y \in T : x <= y
<1> DEFINE R == {ss \in Nat \X Nat : ss[1] < ss[2]}
<1>1. IsWellFoundedOn(R, Nat)
  BY NatLessThanWellFounded, SMT DEF OpToRel
<1>2. \E x \in T : \A y \in T : ~ (<<y, x>> \in R)
  <2> HIDE DEF R
  <2> QED BY <1>1, WFMin
<1>3. PICK x \in T : \A y \in T : ~ (<<y, x>> \in R)
  BY <1>2
<1>4. ASSUME NEW y \in T PROVE x <= y
  <2>1. ~ (y < x)
    BY <1>3
  <2> QED BY <2>1
<1> QED BY <1>3, <1>4

LEMMA MinOfBounded ==
    ASSUME NEW a \in Int, NEW T, T \subseteq Int, T # {}, \A x \in T : a <= x
    PROVE  Min(T) \in T /\ \A x \in T : Min(T) <= x
<1> DEFINE D == {x - a : x \in T}
<1>1. D \subseteq Nat /\ D # {}
  <2>1. \A x \in T : x - a \in Nat
    OBVIOUS
  <2> QED BY <2>1
<1>2. PICK d \in D : \A e \in D : d <= e
  <2> HIDE DEF D
  <2> QED BY <1>1, Least
<1>3. d + a \in T /\ \A x \in T : d + a <= x
  <2>1. PICK x0 \in T : d = x0 - a
    BY <1>2
  <2>2. ASSUME NEW x \in T PROVE d + a <= x
    <3>1. d <= x - a
      BY <1>2
    <3> QED BY <2>1, <3>1
  <2> QED BY <2>1, <2>2
<1>4. \E x \in T : \A y \in T : x <= y
  BY <1>3
<1> QED BY <1>4 DEF Min

LEMMA MaxOfBounded ==
    ASSUME NEW b \in Int, NEW T, T \subseteq Int, T # {}, \A x \in T : x <= b
    PROVE  Max(T) \in T /\ \A x \in T : x <= Max(T)
<1> DEFINE D == {b - x : x \in T}
<1>1. D \subseteq Nat /\ D # {}
  <2>1. \A x \in T : b - x \in Nat
    OBVIOUS
  <2> QED BY <2>1
<1>2. PICK d \in D : \A e \in D : d <= e
  <2> HIDE DEF D
  <2> QED BY <1>1, Least
<1>3. b - d \in T /\ \A x \in T : x <= b - d
  <2>1. PICK x0 \in T : d = b - x0
    BY <1>2
  <2>2. ASSUME NEW x \in T PROVE x <= b - d
    <3>1. d <= b - x
      BY <1>2
    <3> QED BY <2>1, <3>1
  <2> QED BY <2>1, <2>2
<1>4. \E x \in T : \A y \in T : x >= y
  <2>1. ASSUME NEW x \in T PROVE b - d >= x
    BY <1>3
  <2> QED BY <1>3, <2>1
<1>5. /\ Max(T) \in T
      /\ \A x \in T : Max(T) >= x
  BY <1>4 DEF Max
<1> QED BY <1>5

LEMMA MaxOfTwo ==
    ASSUME NEW a \in Int, NEW b \in Int
    PROVE  Max({a, b}) = IF a >= b THEN a ELSE b
<1>1. /\ Max({a, b}) \in {a, b}
      /\ \A x \in {a, b} : x <= Max({a, b})
  <2>1. PICK c \in Int : a <= c /\ b <= c
    BY a <= (IF a >= b THEN a ELSE b), b <= (IF a >= b THEN a ELSE b)
  <2> QED BY <2>1, MaxOfBounded
<1> QED BY <1>1

LEMMA MinOfTwo ==
    ASSUME NEW a \in Int, NEW b \in Int
    PROVE  Min({a, b}) = IF a <= b THEN a ELSE b
<1>1. /\ Min({a, b}) \in {a, b}
      /\ \A x \in {a, b} : Min({a, b}) <= x
  <2>1. PICK c \in Int : c <= a /\ c <= b
    BY (IF a <= b THEN a ELSE b) <= a, (IF a <= b THEN a ELSE b) <= b
  <2> QED BY <2>1, MinOfBounded
<1> QED BY <1>1

-----------------------------------------------------------------------------
\* A number is a multiple of h and a remainder.
LEMMA ModParts ==
    ASSUME NEW h \in Nat \ {0}, NEW n \in Int
    PROVE  /\ n % h \in 0 .. (h - 1) /\ n \div h \in Int
           /\ n = h * (n \div h) + (n % h)
  BY SMTT(30)

\* Distinct numbers with one remainder are at least h apart.
LEMMA CongruentApart ==
    ASSUME NEW h \in Nat \ {0}, NEW m \in Int, NEW n \in Int,
           m % h = n % h, m < n
    PROVE  m + h <= n
<1> DEFINE a == m \div h
           b == n \div h
           r == m % h
<1>1. /\ m = h * a + r /\ a \in Int /\ r \in Int
      /\ n = h * b + r /\ b \in Int
  BY ModParts
<1> HIDE DEF a, b, r
<1>2. n - m = h * (b - a)
  BY <1>1, SMTT(30)
<1>3. b - a >= 1
  <2> SUFFICES ASSUME b - a <= 0 PROVE FALSE
    BY <1>1
  <2>1. h * (b - a) <= 0
    BY <1>1, SMTT(30)
  <2> QED BY <1>2, <2>1
<1>4. h * (b - a) >= h
  BY <1>1, <1>3, SMTT(30)
<1> QED BY <1>2, <1>4

\* The remainder is the only one of its range.
LEMMA ModUnique ==
    ASSUME NEW h \in Nat \ {0}, NEW n \in Int, NEW q \in Int,
           NEW r \in 0 .. (h - 1), n = h * q + r
    PROVE  n % h = r
<1> DEFINE b == n \div h
           s == n % h
<1>1. n = h * b + s /\ b \in Int /\ s \in 0 .. (h - 1)
  BY ModParts
<1> HIDE DEF b, s
<1>2. h * (b - q) = r - s
  BY <1>1, SMTT(30)
<1>3. b - q = 0
  <2>1. ~ (b - q >= 1)
    <3> SUFFICES ASSUME b - q >= 1 PROVE FALSE
      OBVIOUS
    <3>1. h * (b - q) >= h
      BY <1>1, SMTT(30)
    <3> QED BY <1>1, <1>2, <3>1
  <2>2. ~ (b - q <= -1)
    <3> SUFFICES ASSUME b - q <= -1 PROVE FALSE
      OBVIOUS
    <3>1. h * (b - q) <= -h
      BY <1>1, SMTT(30)
    <3> QED BY <1>1, <1>2, <3>1
  <2> QED BY <1>1, <2>1, <2>2
<1>4. r = s
  BY <1>1, <1>2, <1>3
<1> QED BY <1>4 DEF s

LEMMA ModShift ==
    ASSUME NEW h \in Nat \ {0}, NEW n \in Int
    PROVE  (n + h) % h = n % h
<1> DEFINE q == n \div h
           r == n % h
<1>1. n = h * q + r /\ q \in Int /\ r \in 0 .. (h - 1)
  BY ModParts
<1> HIDE DEF q, r
<1>2. n + h = h * (q + 1) + r /\ n + h \in Int /\ q + 1 \in Int
  BY <1>1, SMTT(30)
<1>3. (n + h) % h = r
  BY <1>1, <1>2, ModUnique
<1> QED BY <1>3 DEF r
=============================================================================
