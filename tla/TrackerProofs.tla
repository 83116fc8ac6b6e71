---------------------------- MODULE TrackerProofs -----------------------------
(***************************************************************************)
(* Theorems about Tracker and about the names of QuadSpaces it works with, *)
(* for every width of the integers, every set of axes and of positions and *)
(* every range of levels.                                                  *)
(*                                                                         *)
(* The first part is about the operators of QuadSpaces: powers of two, |0, *)
(* the digits and what the loop of decompose leaves.  The second is about  *)
(* the requests on their way to the server.  Then come the inductive       *)
(* invariant and, resting on it, one part for each property of Tracker.    *)
(***************************************************************************)
EXTENDS Tracker, WellFoundedInduction, TLAPS

-------------------------------------------------------------------------------
(* The order of the naturals is well-founded; R is < as a set of pairs.    *)
LEMMA Less == \E R : IsWellFoundedOn(R, Nat) /\ \A n, m \in Nat : <<n, m>> \in R <=> n < m
  <1> DEFINE R == OpToRel(<, Nat)
  <1>1. IsWellFoundedOn(R, Nat)
    BY NatLessThanWellFounded
  <1>2. \A n, m \in Nat : <<n, m>> \in R <=> n < m
    BY DEF OpToRel
  <1> HIDE DEF R
  <1> QED  BY <1>1, <1>2

(* A set of naturals that has a member has a least one.                    *)
LEMMA Least ==
    ASSUME NEW T \in SUBSET Nat, T # {}
    PROVE  \E m \in T : \A n \in T : m <= n
  <1>1. PICK R : IsWellFoundedOn(R, Nat) /\ \A n, m \in Nat : <<n, m>> \in R <=> n < m
    BY Less
  <1>2. IsWellFoundedOn(R, Nat) /\ T \subseteq Nat
    BY <1>1
  <1>3. PICK m \in T : \A n \in T : ~ (<<n, m>> \in R)
    BY <1>2, WFMin, Zenon
  <1>4. \A n \in T : m <= n
    <2> TAKE n \in T
    <2>1. n \in Nat /\ m \in Nat /\ ~(<<n, m>> \in R)
      BY <1>3
    <2>2. ~(n < m)
      BY <1>1, <2>1, Zenon
    <2> QED  BY <2>1, <2>2
  <1> QED  BY <1>4

(* Induction, of a set: one that has 0 and with n also n + 1 has all       *)
(* naturals.                                                               *)
LEMMA Induction ==
    ASSUME NEW S, 0 \in S, \A n \in Nat : n \in S => n + 1 \in S
    PROVE  Nat \subseteq S
  <1> SUFFICES ASSUME Nat \ S # {} PROVE FALSE
    OBVIOUS
  <1>1. PICK m \in Nat \ S : \A n \in Nat \ S : m <= n
    BY Least
  <1> QED  BY <1>1

(* f[n] is first when n is 0, and otherwise step of n and f[n - 1].        *)
Recurs(f, D, S, first, step) ==
    f \in [D -> S] /\ \A n \in D : f[n] = IF n = 0 THEN first ELSE step[<<n, f[n - 1]>>]

(* There is a function that recurs on all naturals.  A beginning of it up  *)
(* to n is unique, and the beginnings agree.                               *)
LEMMA Recursion ==
    ASSUME NEW S, NEW first \in S, NEW step \in [Nat \X S -> S]
    PROVE  \E f : Recurs(f, Nat, S, first, step)
  <1> DEFINE Begins(n, f) == /\ f \in [0..n -> S] /\ f[0] = first
                             /\ \A k \in 1..n : f[k] = step[<<k, f[k - 1]>>]
             Once == {n \in Nat : \E f : Begins(n, f) /\ \A g : Begins(n, g) => g = f}
  <1>1. ASSUME NEW n \in Nat, NEW f, Begins(n + 1, f)
        PROVE  /\ Begins(n, [k \in 0..n |-> f[k]])
               /\ f = [k \in 0..(n + 1) |-> IF k = n + 1 THEN step[<<n + 1, f[n]>>] ELSE f[k]]
    BY <1>1
  <1>2. 0 \in Once
    <2>1. Begins(0, [k \in 0..0 |-> first])
      OBVIOUS
    <2>2. \A g : Begins(0, g) => g = [k \in 0..0 |-> first]
      OBVIOUS
    <2> QED  BY <2>1, <2>2
  <1>3. ASSUME NEW n \in Nat, n \in Once PROVE n + 1 \in Once
    <2>1. PICK f : Begins(n, f) /\ \A g : Begins(n, g) => g = f
      BY <1>3
    <2>2. PICK h : h = [k \in 0..(n + 1) |-> IF k = n + 1 THEN step[<<n + 1, f[n]>>] ELSE f[k]]
      OBVIOUS
    <2>3. Begins(n + 1, h)
      <3>1. step[<<n + 1, f[n]>>] \in S
        BY <2>1
      <3>2. h \in [0..(n + 1) -> S]
        BY <2>1, <2>2, <3>1
      <3>3. h[0] = first
        BY <2>1, <2>2
      <3>4. ASSUME NEW k \in 1..(n + 1) PROVE h[k] = step[<<k, h[k - 1]>>]
        <4>1. k \in Nat /\ k - 1 \in 0..n /\ h[k - 1] = f[k - 1]
          BY <2>2
        <4>2. CASE k = n + 1
          <5>1. k - 1 = n /\ k \in 0..(n + 1)
            BY <4>2
          <5>2. h[k] = step[<<n + 1, f[n]>>]
            BY <2>2, <4>2, <5>1
          <5>3. h[k] = step[<<k, f[k - 1]>>]
            BY <4>2, <5>1, <5>2
          <5> QED  BY <4>1, <5>3
        <4>3. CASE k # n + 1
          <5>1. k \in 1..n /\ h[k] = f[k]
            BY <2>2, <4>3
          <5> QED  BY <2>1, <4>1, <5>1
        <4> QED  BY <4>2, <4>3
      <3> QED  BY <3>2, <3>3, <3>4
    <2>4. ASSUME NEW g, Begins(n + 1, g) PROVE g = h
      <3>1. /\ Begins(n, [k \in 0..n |-> g[k]])
            /\ g = [k \in 0..(n + 1) |-> IF k = n + 1 THEN step[<<n + 1, g[n]>>] ELSE g[k]]
        BY <1>1, <2>4
      <3>2. [k \in 0..n |-> g[k]] = f
        BY <2>1, <3>1
      <3>3. \A k \in 0..n : g[k] = f[k]
        BY <3>2
      <3>4. [k \in 0..(n + 1) |-> IF k = n + 1 THEN step[<<n + 1, g[n]>>] ELSE g[k]] = h
        <4>1. g[n] = f[n]
          BY <3>3
        <4>2. \A k \in 0..(n + 1) : k # n + 1 => g[k] = f[k]
          BY <3>3
        <4> QED  BY <2>2, <4>1, <4>2
      <3> QED  BY <3>1, <3>4
    <2> QED  BY <2>3, <2>4
  <1>4. \A n \in Nat : \E f : Begins(n, f) /\ \A g : Begins(n, g) => g = f
    <2>1. Nat \subseteq Once
      BY <1>2, <1>3, Induction
    <2> QED  BY <2>1
  <1> HIDE DEF Begins, Once
  <1> DEFINE upTo == [n \in Nat |-> CHOOSE f : Begins(n, f)]
  <1>5. \A n \in Nat : Begins(n, upTo[n]) /\ \A g : Begins(n, g) => g = upTo[n]
    BY <1>4
  <1>6. ASSUME NEW n \in Nat PROVE upTo[n] = [k \in 0..n |-> upTo[n + 1][k]]
    <2>1. Begins(n + 1, upTo[n + 1])
      BY <1>5
    <2>2. Begins(n, [k \in 0..n |-> upTo[n + 1][k]])
      BY <1>1, <2>1
    <2> QED  BY <1>5, <2>2
  <1>7. PICK f : f = [n \in Nat |-> upTo[n][n]]
    OBVIOUS
  <1> HIDE DEF upTo
  <1>8. ASSUME NEW n \in Nat PROVE f[n] \in S
    BY <1>5, <1>7 DEF Begins
  <1>9. f[0] = first
    BY <1>5, <1>7 DEF Begins
  <1>10. ASSUME NEW n \in Nat, n # 0 PROVE f[n] = step[<<n, f[n - 1]>>]
    <2>1. PICK p \in Nat : n = p + 1 /\ p = n - 1
      BY <1>10
    <2>2. upTo[p] = [k \in 0..p |-> upTo[n][k]]
      BY <1>6, <2>1
    <2>3. upTo[n][p] = f[p]
      BY <1>7, <2>2
    <2>4. upTo[n][n] = step[<<n, upTo[n][n - 1]>>]
      BY <1>5, <1>10 DEF Begins
    <2> QED  BY <1>7, <2>1, <2>3, <2>4
  <1>11. f \in [Nat -> S]
    BY <1>7, <1>8
  <1> QED  BY <1>9, <1>10, <1>11 DEF Recurs

(* The same, of a function on 0..top: left and sum of QuadSpaces are       *)
(* these.                                                                  *)
LEMMA RecursionUpTo ==
    ASSUME NEW S, NEW first \in S, NEW step \in [Nat \X S -> S], NEW top \in Nat
    PROVE  \E f : Recurs(f, 0..top, S, first, step)
  <1>0. PICK h : Recurs(h, Nat, S, first, step)
    BY Recursion
  <1>1. h \in [Nat -> S] /\ \A n \in Nat : h[n] = IF n = 0 THEN first ELSE step[<<n, h[n - 1]>>]
    BY <1>0 DEF Recurs
  <1>2. PICK f : f = [n \in 0..top |-> h[n]]
    OBVIOUS
  <1>3. f \in [0..top -> S]
    BY <1>1, <1>2
  <1>4. ASSUME NEW n \in 0..top
        PROVE  h[n] = IF n = 0 THEN first ELSE step[<<n, f[n - 1]>>]
    <2>1. n \in Nat /\ h[n] = IF n = 0 THEN first ELSE step[<<n, h[n - 1]>>]
      BY <1>1
    <2>2. CASE n = 0
      BY <2>1, <2>2
    <2>3. CASE n # 0
      <3>1. n - 1 \in 0..top
        BY <2>3
      <3>2. f[n - 1] = h[n - 1]
        BY <1>2, <3>1
      <3> QED  BY <2>1, <2>3, <3>2
    <2> QED  BY <2>2, <2>3
  <1> QED  BY <1>2, <1>3, <1>4 DEF Recurs

(* TwoTo is what its definition says.                                      *)
LEMMA TwoToByRecursion ==
    /\ TwoTo \in [Nat -> Nat]
    /\ TwoTo = [n \in Nat |-> IF n = 0 THEN 1 ELSE 2 * TwoTo[n - 1]]
  <1> DEFINE twice == [p \in Nat \X Nat |-> 2 * p[2]]
             Is(f) == f = [n \in Nat |-> IF n = 0 THEN 1 ELSE 2 * f[n - 1]]
  <1>1. twice \in [Nat \X Nat -> Nat]
    OBVIOUS
  <1>2. PICK f : Recurs(f, Nat, Nat, 1, twice)
    <2> HIDE DEF twice
    <2> QED  BY <1>1, Recursion
  <1>3. ASSUME NEW n \in Nat, n # 0 PROVE twice[<<n, f[n - 1]>>] = 2 * f[n - 1]
    <2>1. n - 1 \in Nat
      BY <1>3
    <2>2. f[n - 1] \in Nat
      BY <1>2, <2>1 DEF Recurs
    <2> QED  BY <2>2
  <1> HIDE DEF twice
  <1>4. Is(f)
    <2>1. f = [n \in Nat |-> f[n]]
      BY <1>2 DEF Recurs
    <2>2. \A n \in Nat : f[n] = IF n = 0 THEN 1 ELSE 2 * f[n - 1]
      BY <1>2, <1>3 DEF Recurs
    <2> QED  BY <2>1, <2>2
  <1>5. TwoTo = CHOOSE g : Is(g)
    BY DEF TwoTo
  <1>6. Is(TwoTo)
    <2> HIDE DEF Is
    <2> QED  BY <1>4, <1>5
  <1>7. ASSUME NEW g, Is(g) PROVE g \in [Nat -> Nat]
    <2> DEFINE Typed == {n \in Nat : g[n] \in Nat}
    <2>1. 0 \in Typed
      BY <1>7
    <2>2. ASSUME NEW n \in Nat, n \in Typed PROVE n + 1 \in Typed
      <3>1. g[n + 1] = 2 * g[n]
        BY <1>7
      <3> QED  BY <2>2, <3>1
    <2>3. Nat \subseteq Typed
      BY <2>1, <2>2, Induction
    <2> QED  BY <1>7, <2>3
  <1> QED  BY <1>6, <1>7

(* The powers of two, one after the other                                  *)
LEMMA TwoToFacts ==
    /\ TwoTo[0] = 1
    /\ \A n \in Nat : TwoTo[n] \in Nat /\ TwoTo[n] > 0 /\ TwoTo[n + 1] = 2 * TwoTo[n]
    /\ \A n \in Nat : TwoTo[n + 2] = 4 * TwoTo[n]
  <1>1. TwoTo[0] = 1 /\ \A n \in Nat : TwoTo[n] \in Nat /\ TwoTo[n + 1] = 2 * TwoTo[n]
    <2>1. \A n \in Nat : TwoTo[n] = IF n = 0 THEN 1 ELSE 2 * TwoTo[n - 1]
      BY TwoToByRecursion
    <2> QED  BY <2>1, TwoToByRecursion
  <1>2. \A n \in Nat : TwoTo[n + 2] = 4 * TwoTo[n]
    <2> TAKE n \in Nat
    <2>1. TwoTo[n + 1 + 1] = 2 * TwoTo[n + 1] /\ TwoTo[n + 1] = 2 * TwoTo[n] /\ TwoTo[n] \in Nat
      BY <1>1
    <2>2. n + 1 + 1 = n + 2
      OBVIOUS
    <2> QED  BY <2>1, <2>2
  <1>3. \A n \in Nat : TwoTo[n] > 0
    <2> DEFINE Positive == {n \in Nat : TwoTo[n] > 0}
    <2>1. 0 \in Positive /\ \A n \in Nat : n \in Positive => n + 1 \in Positive
      BY <1>1
    <2>2. Nat \subseteq Positive
      BY <2>1, Induction
    <2> QED  BY <2>2
  <1> QED  BY <1>1, <1>2, <1>3

(* 2^(m + n) = 2^m * 2^n                                                   *)
LEMMA TwoToSum ==
    ASSUME NEW m \in Nat, NEW n \in Nat
    PROVE  TwoTo[m + n] = TwoTo[m] * TwoTo[n]
  <1> DEFINE Adds == {k \in Nat : TwoTo[m + k] = TwoTo[m] * TwoTo[k]}
  <1>1. 0 \in Adds
    BY TwoToFacts
  <1>2. ASSUME NEW k \in Nat, k \in Adds PROVE k + 1 \in Adds
    <2>1. TwoTo[(m + k) + 1] = 2 * TwoTo[m + k] /\ TwoTo[k + 1] = 2 * TwoTo[k]
      BY TwoToFacts
    <2>2. (m + k) + 1 = m + (k + 1)
      OBVIOUS
    <2>3. TwoTo[m] \in Nat /\ TwoTo[k] \in Nat
      BY TwoToFacts
    <2>4. PICK x \in Nat, y \in Nat : x = TwoTo[m] /\ y = TwoTo[k]
      BY <2>3
    <2>5. 2 * (x * y) = x * (2 * y)
      BY <2>4
    <2>6. TwoTo[m + (k + 1)] = 2 * (x * y) /\ TwoTo[k + 1] = 2 * y
      BY <1>2, <2>1, <2>2, <2>4
    <2>7. TwoTo[m + (k + 1)] = TwoTo[m] * TwoTo[k + 1]
      BY <2>4, <2>5, <2>6
    <2> QED  BY <2>7
  <1>3. Nat \subseteq Adds
    BY <1>1, <1>2, Induction
  <1> QED  BY <1>3

(* A larger power of two is not smaller.                                   *)
LEMMA TwoToGrows ==
    ASSUME NEW m \in Nat, NEW n \in Nat, m <= n
    PROVE  TwoTo[m] <= TwoTo[n]
  <1>1. PICK k \in Nat : n = m + k
    <2>1. n - m \in Nat /\ n = m + (n - m)
      OBVIOUS
    <2> QED  BY <2>1
  <1>2. TwoTo[n] = TwoTo[m] * TwoTo[k]
    BY <1>1, TwoToSum
  <1>3. PICK x \in Nat, y \in Nat : x = TwoTo[m] /\ y = TwoTo[k] /\ y > 0 /\ TwoTo[n] = x * y
    BY <1>2, TwoToFacts
  <1>4. x <= x * y
    BY <1>3
  <1> QED  BY <1>3, <1>4

(* The integers of the program: a power of two and a multiple of four.     *)
LEMMA HalfFacts ==
    /\ Half \in Nat /\ Half >= 8
    /\ \E e \in Nat : Half = 4 * e /\ e = TwoTo[Bits - 3]
  <1>1. PICK e : e = TwoTo[Bits - 3]
    OBVIOUS
  <1>2. Bits - 3 \in Nat /\ Bits - 4 \in Nat /\ (Bits - 3) + 2 = Bits - 1 /\ (Bits - 4) + 1 = Bits - 3
    BY BitsAssumption
  <1>3. e \in Nat /\ TwoTo[(Bits - 3) + 2] = 4 * e
    BY <1>1, <1>2, TwoToFacts
  <1>4. e >= 2
    BY <1>1, <1>2, TwoToFacts
  <1> QED  BY <1>1, <1>2, <1>3, <1>4 DEF Half

(* |0 keeps the integers of the program and wraps the others into them.    *)
LEMMA ToIntFacts ==
    /\ \A n \in Int : ToInt(n) \in Ints
    /\ \A n \in Ints : ToInt(n) = n
    /\ ToInt(Half) = -Half
  <1>1. PICK h \in Nat : h = Half /\ h >= 8
    BY HalfFacts
  <1>2. \A n \in Int : (n + h) % (2 * h) \in 0..(2 * h - 1)
    BY <1>1
  <1>3. \A n \in (-h)..(h - 1) : (n + h) % (2 * h) = n + h
    BY <1>1
  <1>4. (h + h) % (2 * h) = 0
    BY <1>1
  <1> QED  BY <1>1, <1>2, <1>3, <1>4 DEF ToInt, Ints

(* A digit is -2..1, and what it leaves is a multiple of four.             *)
LEMMA DigitFacts ==
    ASSUME NEW n \in Int
    PROVE  Digit(n) \in Digits /\ \E q \in Int : n - Digit(n) = 4 * q
  <1>1. PICK q \in Int : q = (n + 2) \div 4
    OBVIOUS
  <1>2. n + 2 = 4 * q + ((n + 2) % 4) /\ (n + 2) % 4 \in 0..3
    BY <1>1
  <1> QED  BY <1>2 DEF Digit, Digits

(* The distance from 0                                                     *)
Size(n) == IF n >= 0 THEN n ELSE -n

(* A round leaves a quarter, rounded; 2 at most is lost to the digit, and  *)
(* the one integer too large becomes the smallest.                         *)
LEMMA ShiftFacts ==
    ASSUME NEW n \in Ints
    PROVE  /\ Shift(n) \in Ints
           /\ n \in -Half..(Half - 3) => n = 4 * Shift(n) + Digit(n)
           /\ Shift(n) = 0 => n \in Digits
           /\ 4 * Size(Shift(n)) <= Size(n) + 2
           /\ Size(n) <= 4 * Size(Shift(n)) + 2
  <1>1. PICK h \in Nat, e \in Nat : h = Half /\ h = 4 * e /\ h >= 8
    BY HalfFacts
  <1>2. n \in Int /\ n \in (-h)..(h - 1)
    BY <1>1 DEF Ints
  <1>3. PICK q \in Int : n - Digit(n) = 4 * q
    BY <1>2, DigitFacts
  <1>4. PICK d \in -2..1 : d = Digit(n) /\ n = 4 * q + d
    BY <1>2, <1>3, DigitFacts DEF Digits
  <1>5. q \in (-e)..e
    BY <1>1, <1>2, <1>4
  <1>6. CASE q = e
    <2>1. Shift(n) = (-h) \div 4
      BY <1>1, <1>3, <1>6, ToIntFacts DEF Shift
    <2>2. Shift(n) = -e
      BY <1>1, <2>1
    <2>3. n > h - 3 /\ e >= 2
      BY <1>1, <1>4, <1>6
    <2> QED  BY <1>1, <1>2, <1>4, <1>6, <2>2, <2>3 DEF Ints, Size
  <1>7. CASE q # e
    <2>1. 4 * q \in Ints
      BY <1>1, <1>5, <1>7 DEF Ints
    <2>2. Shift(n) = (4 * q) \div 4
      BY <1>3, <2>1, ToIntFacts DEF Shift
    <2>3. Shift(n) = q
      BY <2>2
    <2> QED  BY <1>1, <1>2, <1>4, <1>5, <1>7, <2>3 DEF Ints, Digits, Size
  <1> QED  BY <1>6, <1>7

(* Left is what its definition says: what each round leaves.               *)
LEMMA LeftFacts ==
    ASSUME NEW n \in Ints
    PROVE  /\ Left(n) \in [0..MaxRounds -> Ints]
           /\ Left(n)[0] = n
           /\ \A k \in 0..(MaxRounds - 1) : Left(n)[k + 1] = Shift(Left(n)[k])
  <1> DEFINE shift == [p \in Nat \X Ints |-> Shift(p[2])]
             Is(f) == f = [k \in 0..MaxRounds |-> IF k = 0 THEN n ELSE Shift(f[k - 1])]
  <1>0. MaxRounds \in Nat
    BY BitsAssumption DEF MaxRounds
  <1>1. shift \in [Nat \X Ints -> Ints]
    BY ShiftFacts
  <1>2. PICK f : Recurs(f, 0..MaxRounds, Ints, n, shift)
    <2> HIDE DEF shift
    <2> QED  BY <1>0, <1>1, RecursionUpTo
  <1>3. ASSUME NEW k \in 0..MaxRounds, k # 0 PROVE shift[<<k, f[k - 1]>>] = Shift(f[k - 1])
    <2>1. k \in Nat /\ k - 1 \in 0..MaxRounds
      BY <1>0, <1>3
    <2>2. f[k - 1] \in Ints
      BY <1>2, <2>1 DEF Recurs
    <2> QED  BY <2>1, <2>2
  <1> HIDE DEF shift
  <1>4. Is(f)
    <2>1. f = [k \in 0..MaxRounds |-> f[k]]
      BY <1>2 DEF Recurs
    <2>2. \A k \in 0..MaxRounds : f[k] = IF k = 0 THEN n ELSE Shift(f[k - 1])
      BY <1>2, <1>3 DEF Recurs
    <2> QED  BY <2>1, <2>2
  <1>5. Left(n) = CHOOSE g : Is(g)
    BY DEF Left
  <1>6. Is(Left(n))
    <2> HIDE DEF Is
    <2> QED  BY <1>4, <1>5
  <1>7. ASSUME NEW g, Is(g)
        PROVE  \A k \in Nat : k <= MaxRounds => g[k] \in Ints
    <2> DEFINE Typed == {k \in Nat : k <= MaxRounds => g[k] \in Ints}
    <2>1. 0 \in Typed
      BY <1>0, <1>7
    <2>2. ASSUME NEW k \in Nat, k \in Typed PROVE k + 1 \in Typed
      <3>1. SUFFICES ASSUME k + 1 <= MaxRounds PROVE g[k + 1] \in Ints
        OBVIOUS
      <3>2. k + 1 \in 0..MaxRounds /\ k <= MaxRounds /\ k + 1 # 0 /\ (k + 1) - 1 = k
        BY <1>0, <3>1
      <3>3. g[k + 1] = Shift(g[k])
        BY <1>7, <3>2
      <3>4. g[k] \in Ints
        BY <2>2, <3>2
      <3> QED  BY <3>3, <3>4, ShiftFacts
    <2>3. Nat \subseteq Typed
      BY <2>1, <2>2, Induction
    <2> QED  BY <2>3
  <1>8. \A k \in 0..MaxRounds : Left(n)[k] \in Ints
    <2>1. \A k \in Nat : k <= MaxRounds => Left(n)[k] \in Ints
      <3> HIDE DEF Is
      <3> QED  BY <1>6, <1>7
    <2> QED  BY <1>0, <2>1
  <1>9. Left(n) = [k \in 0..MaxRounds |-> Left(n)[k]]
    BY <1>6
  <1>10. \A k \in 0..(MaxRounds - 1) : Left(n)[k + 1] = Shift(Left(n)[k])
    <2> TAKE k \in 0..(MaxRounds - 1)
    <2>1. k + 1 \in 0..MaxRounds /\ k + 1 # 0 /\ (k + 1) - 1 = k
      BY <1>0
    <2> QED  BY <1>6, <2>1
  <1>11. Left(n)[0] = n
    BY <1>0, <1>6
  <1> QED  BY <1>8, <1>9, <1>10, <1>11

(* After k rounds s is left of a coordinate of size s0: s0 is 4^k * s but  *)
(* for what the digits have taken, less than two thirds of 4^k.            *)
LEMMA LeftBounds ==
    ASSUME NEW n \in Ints, NEW k \in 0..MaxRounds
    PROVE  /\ 3 * (TwoTo[2 * k] * Size(Left(n)[k])) <= 3 * Size(n) + 2 * TwoTo[2 * k] - 2
           /\ 3 * Size(n) <= 3 * (TwoTo[2 * k] * Size(Left(n)[k])) + 2 * TwoTo[2 * k] - 2
  <1> DEFINE Bounded(i) ==
        /\ 3 * (TwoTo[2 * i] * Size(Left(n)[i])) <= 3 * Size(n) + 2 * TwoTo[2 * i] - 2
        /\ 3 * Size(n) <= 3 * (TwoTo[2 * i] * Size(Left(n)[i])) + 2 * TwoTo[2 * i] - 2
             Bound == {i \in Nat : i <= MaxRounds => Bounded(i)}
  <1>0. MaxRounds \in Nat /\ Ints \subseteq Int
    BY BitsAssumption, HalfFacts DEF MaxRounds, Ints
  <1>1. 0 \in Bound
    <2>1. TwoTo[2 * 0] = 1 /\ Left(n)[0] = n
      BY TwoToFacts, LeftFacts
    <2>2. Size(n) \in Nat
      BY <1>0 DEF Size
    <2>3. Bounded(0)
      BY <2>1, <2>2
    <2> QED  BY <2>3
  <1>2. ASSUME NEW i \in Nat, i \in Bound PROVE i + 1 \in Bound
    <2>1. SUFFICES ASSUME i + 1 <= MaxRounds PROVE Bounded(i + 1)
      OBVIOUS
    <2>2. i \in 0..(MaxRounds - 1) /\ i \in 0..MaxRounds
      BY <1>0, <2>1
    <2>3. PICK m \in Ints : m = Left(n)[i]
      BY <2>2, LeftFacts
    <2>4. Left(n)[i + 1] = Shift(m) /\ Shift(m) \in Ints
      BY <2>2, <2>3, LeftFacts, ShiftFacts
    <2>5. PICK s0 \in Nat, s \in Nat, t \in Nat, x \in Nat :
              s0 = Size(n) /\ s = Size(m) /\ t = Size(Shift(m)) /\ x = TwoTo[2 * i]
      <3>1. Size(n) \in Nat /\ Size(m) \in Nat /\ Size(Shift(m)) \in Nat
        <4>1. n \in Int /\ m \in Int /\ Shift(m) \in Int
          BY <1>0, <2>4
        <4> QED  BY <4>1 DEF Size
      <3>2. TwoTo[2 * i] \in Nat
        BY TwoToFacts
      <3> QED  BY <3>1, <3>2
    <2>6. TwoTo[2 * (i + 1)] = 4 * x
      <3>1. 2 * i \in Nat /\ 2 * (i + 1) = (2 * i) + 2
        OBVIOUS
      <3> QED  BY <2>5, <3>1, TwoToFacts
    <2>7. 4 * t <= s + 2 /\ s <= 4 * t + 2
      BY <2>5, ShiftFacts
    <2>8. 3 * (x * s) <= 3 * s0 + 2 * x - 2 /\ 3 * s0 <= 3 * (x * s) + 2 * x - 2
      <3>1. Bounded(i)
        BY <1>2, <2>2
      <3> QED  BY <2>3, <2>5, <3>1
    <2>9. (4 * x) * t <= x * s + 2 * x /\ x * s <= (4 * x) * t + 2 * x
      <3>1. x * (4 * t) <= x * (s + 2) /\ x * s <= x * (4 * t + 2)
        BY <2>7
      <3>2. x * (4 * t) = (4 * x) * t /\ x * (s + 2) = x * s + 2 * x /\ x * (4 * t + 2) = (4 * x) * t + 2 * x
        OBVIOUS
      <3> QED  BY <3>1, <3>2
    <2>10. PICK y \in Nat, z \in Nat : y = x * s /\ z = (4 * x) * t
      OBVIOUS
    <2>11. /\ 3 * z <= 3 * s0 + 2 * (4 * x) - 2
           /\ 3 * s0 <= 3 * z + 2 * (4 * x) - 2
      BY <2>8, <2>9, <2>10
    <2> QED  BY <2>4, <2>5, <2>6, <2>10, <2>11
  <1>3. Nat \subseteq Bound
    <2> HIDE DEF Bounded
    <2> QED  BY <1>1, <1>2, Induction
  <1>4. k \in Bound /\ k <= MaxRounds
    BY <1>0, <1>3
  <1> QED  BY <1>4

(* When nothing is left, nothing is left after another round.              *)
LEMMA ZeroStays ==
    ASSUME NEW n \in Ints, NEW k \in 0..(MaxRounds - 1), Left(n)[k] = 0
    PROVE  Left(n)[k + 1] = 0
  <1>0. 0 \in Ints
    BY HalfFacts DEF Ints
  <1>1. Left(n)[k + 1] = Shift(0)
    BY LeftFacts
  <1>2. Size(0) = 0
    BY DEF Size
  <1>3. 4 * Size(Shift(0)) <= 2 /\ Shift(0) \in Int
    BY <1>0, <1>2, ShiftFacts, HalfFacts DEF Ints
  <1> QED  BY <1>1, <1>3 DEF Size

(* MaxRounds are enough to leave nothing of any integer, so the loop ends. *)
LEMMA LeftStops ==
    ASSUME NEW n \in Ints
    PROVE  Left(n)[MaxRounds] = 0
  <1>1. MaxRounds \in Nat /\ 2 * MaxRounds \in Nat /\ 2 * MaxRounds >= Bits + 1
        /\ Bits + 1 \in Nat /\ Bits - 1 \in Nat /\ (Bits - 1) + 2 = Bits + 1
    BY BitsAssumption DEF MaxRounds
  <1>2. PICK h \in Nat : h = Half /\ n \in (-h)..(h - 1) /\ h >= 8
    BY HalfFacts DEF Ints
  <1>3. PICK x \in Nat : x = TwoTo[2 * MaxRounds]
    BY <1>1, TwoToFacts
  <1>4. x >= 4 * h
    <2>1. TwoTo[Bits + 1] = 4 * h
      BY <1>1, <1>2, TwoToFacts DEF Half
    <2> QED  BY <1>1, <1>3, <2>1, TwoToGrows
  <1>5. PICK m \in Int : m = Left(n)[MaxRounds]
    BY <1>1, LeftFacts DEF Ints
  <1>6. PICK s \in Nat : s = Size(m)
    BY <1>5 DEF Size
  <1>7. 3 * (x * s) <= 3 * Size(n) + 2 * x - 2
    BY <1>1, <1>3, <1>5, <1>6, LeftBounds
  <1>8. Size(n) <= h
    BY <1>2 DEF Size
  <1>9. s = 0
    <2> SUFFICES ASSUME s >= 1 PROVE FALSE
      OBVIOUS
    <2>1. x * s >= x
      OBVIOUS
    <2>2. PICK y \in Nat : y = x * s
      OBVIOUS
    <2>3. Size(n) \in Nat
      BY <1>2 DEF Size
    <2> QED  BY <1>4, <1>7, <1>8, <2>1, <2>2, <2>3
  <1> QED  BY <1>5, <1>6, <1>9 DEF Size


(* Truncated rounds towards zero.                                          *)
LEMMA TruncatedFacts ==
    ASSUME NEW n \in Int, NEW b \in Nat
    PROVE  /\ Truncated(n, b) \in Int
           /\ TwoTo[b] * Size(Truncated(n, b)) <= Size(n)
           /\ Size(n) < TwoTo[b] * Size(Truncated(n, b)) + TwoTo[b]
           /\ n >= 0 => Truncated(n, b) >= 0
           /\ n <= 0 => Truncated(n, b) <= 0
  <1>1. PICK p \in Nat : p = TwoTo[b] /\ p > 0
    BY TwoToFacts
  <1>2. PICK s \in Nat : s = Size(n)
    BY DEF Size
  <1>3. PICK q \in Int : q = s \div p /\ p * q <= s /\ s < p * q + p
    BY <1>1
  <1>4. q >= 0
    <2> SUFFICES ASSUME q <= -1 PROVE FALSE
      BY <1>3
    <2>1. p * q <= p * (-1)
      BY <1>1
    <2> QED  BY <1>1, <1>3, <2>1
  <1>5. CASE n >= 0
    <2>1. Truncated(n, b) = q
      BY <1>1, <1>2, <1>3, <1>5 DEF Truncated, Size
    <2> QED  BY <1>1, <1>2, <1>3, <1>4, <1>5, <2>1 DEF Size
  <1>6. CASE n < 0
    <2>1. Truncated(n, b) = -q /\ -n = s
      BY <1>1, <1>2, <1>3, <1>6 DEF Truncated, Size
    <2>2. Size(-q) = q
      BY <1>4 DEF Size
    <2> QED  BY <1>1, <1>2, <1>3, <1>4, <1>6, <2>1, <2>2
  <1> QED  BY <1>5, <1>6

(* What a name is made of is an integer of the program: the position in    *)
(* cubes, if that is one.                                                  *)
LEMMA QuotientFacts ==
    ASSUME NEW n \in Int, NEW b \in Nat
    PROVE  /\ Quotient(n, b) \in Ints
           /\ Truncated(n, b) \in Ints => Quotient(n, b) = Truncated(n, b)
  BY TruncatedFacts, ToIntFacts DEF Quotient

(* Nothing is left of v, in cubes of size 2^b, after k rounds.             *)
Done(v, b, k) == \A a \in Axes : Left(Quotient(v[a], b))[k] = 0

(* The cube that round k adds to a name                                    *)
CubeAt(v, b, k) == [at |-> [a \in Axes |-> Digit(Left(Quotient(v[a], b))[k - 1])],
                    p  |-> b + 2 * (k - 1)]

(* Once nothing is left on any axis, nothing is left later.                *)
LEMMA DoneStays ==
    ASSUME NEW v \in Vectors, NEW b \in Nat, NEW m \in 1..MaxRounds, Done(v, b, m)
    PROVE  \A k \in m..MaxRounds : Done(v, b, k)
  <1> DEFINE S == {k \in Nat : k \in m..MaxRounds => Done(v, b, k)}
  <1>0. MaxRounds \in Nat /\ m \in Nat /\ m >= 1
    BY BitsAssumption DEF MaxRounds
  <1>1. 0 \in S
    BY <1>0
  <1>2. ASSUME NEW k \in Nat, k \in S PROVE k + 1 \in S
    <2> SUFFICES ASSUME k + 1 \in m..MaxRounds PROVE Done(v, b, k + 1)
      OBVIOUS
    <2>1. CASE k + 1 = m
      BY <2>1
    <2>2. CASE k + 1 # m
      <3>1. k \in m..MaxRounds /\ k \in 0..(MaxRounds - 1)
        BY <1>0, <2>2
      <3>2. \A a \in Axes : Quotient(v[a], b) \in Ints
        BY QuotientFacts DEF Vectors
      <3> QED  BY <1>2, <3>1, <3>2, ZeroStays DEF Done
    <2> QED  BY <2>1, <2>2
  <1>3. Nat \subseteq S
    <2> HIDE DEF S
    <2> QED  BY <1>1, <1>2, Induction
  <1> QED  BY <1>0, <1>3

(* A name has one cube for each round up to the first that leaves nothing. *)
LEMMA NameFacts ==
    ASSUME NEW v \in Vectors, NEW b \in Nat
    PROVE  \E m \in 1..MaxRounds :
              /\ decompose(v, b) = [k \in 1..m |-> CubeAt(v, b, k)]
              /\ decompose(v, b) \in Seq(Cubes)
              /\ Len(decompose(v, b)) = m
              /\ Done(v, b, m)
              /\ \A k \in 1..(m - 1) : ~Done(v, b, k)
  <1>0. MaxRounds \in Nat /\ MaxRounds >= 1
    BY BitsAssumption DEF MaxRounds
  <1>1. \A a \in Axes : Quotient(v[a], b) \in Ints
    BY QuotientFacts DEF Vectors
  <1>2. Done(v, b, MaxRounds)
    BY <1>1, LeftStops DEF Done
  <1> DEFINE T == {k \in Nat : k \in 1..MaxRounds /\ Done(v, b, k)}
  <1>3. PICK m \in T : \A k \in T : m <= k
    <2>1. MaxRounds \in T
      BY <1>0, <1>2
    <2>2. T \in SUBSET Nat /\ T # {}
      BY <2>1
    <2> HIDE DEF T
    <2> QED  BY <2>2, Least
  <1>4. m \in 1..MaxRounds /\ Done(v, b, m) /\ \A k \in 1..(m - 1) : ~Done(v, b, k)
    BY <1>0, <1>3
  <1> DEFINE left == [a \in Axes |-> Left(Quotient(v[a], b))]
             Rounds == {k \in 1..MaxRounds : k = 1 \/ \E a \in Axes : left[a][k - 1] # 0}
  <1>5. ASSUME NEW k \in 1..MaxRounds
        PROVE  k \in Rounds <=> k = 1 \/ ~Done(v, b, k - 1)
    BY DEF Done
  <1>6. Rounds = 1..m
    <2>1. ASSUME NEW k \in 1..m PROVE k \in Rounds
      <3>1. k \in 1..MaxRounds
        BY <1>0, <1>4
      <3>2. CASE k = 1
        BY <3>1, <3>2
      <3>3. CASE k # 1
        <4>1. k - 1 \in 1..(m - 1)
          BY <1>0, <1>4, <3>3
        <4> HIDE DEF Rounds
        <4> QED  BY <1>4, <1>5, <3>1, <4>1
      <3> QED  BY <3>2, <3>3
    <2>2. ASSUME NEW k \in Rounds PROVE k \in 1..m
      <3>1. k \in 1..MaxRounds
        OBVIOUS
      <3>2. SUFFICES ASSUME k > m PROVE FALSE
        BY <1>0, <1>4, <3>1
      <3>3. k - 1 \in m..MaxRounds /\ k # 1
        BY <1>0, <1>4, <3>1, <3>2
      <3>4. Done(v, b, k - 1)
        BY <1>4, <3>3, DoneStays
      <3> HIDE DEF Rounds
      <3> QED  BY <1>5, <2>2, <3>1, <3>3, <3>4
    <2> HIDE DEF Rounds
    <2> QED  BY <2>1, <2>2
  <1>7. decompose(v, b) = [k \in Rounds |-> CubeAt(v, b, k)]
    BY DEF decompose, CubeAt
  <1> HIDE DEF Rounds
  <1>8. decompose(v, b) = [k \in 1..m |-> CubeAt(v, b, k)]
    BY <1>6, <1>7
  <1>9. ASSUME NEW k \in 1..m PROVE CubeAt(v, b, k) \in Cubes
    <2>1. k - 1 \in 0..MaxRounds /\ b + 2 * (k - 1) \in Nat
      BY <1>0, <1>4
    <2>2. ASSUME NEW a \in Axes PROVE Digit(Left(Quotient(v[a], b))[k - 1]) \in Digits
      <3>1. Left(Quotient(v[a], b))[k - 1] \in Ints
        BY <1>1, <2>1, LeftFacts
      <3>2. Left(Quotient(v[a], b))[k - 1] \in Int
        BY <3>1, HalfFacts DEF Ints
      <3> QED  BY <3>2, DigitFacts
    <2> QED  BY <2>1, <2>2 DEF CubeAt, Cubes
  <1>10. PICK name : name = decompose(v, b)
    OBVIOUS
  <1>11. name \in [1..m -> Cubes] /\ m \in Nat
    BY <1>4, <1>8, <1>9, <1>10
  <1>12. name \in Seq(Cubes) /\ Len(name) = m
    BY <1>11
  <1> QED  BY <1>4, <1>8, <1>10, <1>12

(* The first cube of a name is of the size asked for.                      *)
LEMMA FirstCube ==
    ASSUME NEW v \in Vectors, NEW b \in Nat
    PROVE  decompose(v, b) # << >> /\ decompose(v, b)[1].p = b
  <1>1. PICK m \in 1..MaxRounds : /\ decompose(v, b) = [k \in 1..m |-> CubeAt(v, b, k)]
                                  /\ Len(decompose(v, b)) = m
    BY NameFacts
  <1>2. m >= 1 /\ 1 \in 1..m /\ m \in Nat
    BY BitsAssumption DEF MaxRounds
  <1>3. CubeAt(v, b, 1).p = b
    BY DEF CubeAt
  <1> QED  BY <1>1, <1>2, <1>3

(* Within the cube at the origin, on every axis, the name is that cube.    *)
LEMMA NameAtOrigin ==
    ASSUME NEW v \in Vectors, NEW b \in Nat, \A a \in Axes : Truncated(v[a], b) = 0
    PROVE  decompose(v, b) = << [at |-> Origin, p |-> b] >>
  <1>0. MaxRounds \in Nat /\ MaxRounds >= 1 /\ 0 \in Ints /\ 1 \in 1..MaxRounds /\ 0 \in 0..(MaxRounds - 1)
    BY BitsAssumption, HalfFacts DEF MaxRounds, Ints
  <1>1. \A a \in Axes : Quotient(v[a], b) = 0
    BY <1>0, QuotientFacts DEF Vectors
  <1>2. Left(0)[0] = 0 /\ Left(0)[1] = 0
    <2>1. Left(0)[0] = 0
      BY <1>0, LeftFacts
    <2>2. Left(0)[0 + 1] = 0
      BY <1>0, <2>1, ZeroStays
    <2> QED  BY <2>1, <2>2
  <1>3. Done(v, b, 1)
    <2> SUFFICES ASSUME NEW a \in Axes PROVE Left(Quotient(v[a], b))[1] = 0
      BY DEF Done
    <2>1. Quotient(v[a], b) = 0
      BY <1>1
    <2> QED  BY <1>2, <2>1, Zenon
  <1>4. PICK m \in 1..MaxRounds : /\ decompose(v, b) = [k \in 1..m |-> CubeAt(v, b, k)]
                                  /\ \A k \in 1..(m - 1) : ~Done(v, b, k)
    BY NameFacts
  <1>5. m = 1
    BY <1>0, <1>3, <1>4
  <1>6. CubeAt(v, b, 1) = [at |-> Origin, p |-> b]
    <2>1. ASSUME NEW a \in Axes PROVE Digit(Left(Quotient(v[a], b))[1 - 1]) = 0
      <3>1. Quotient(v[a], b) = 0 /\ 1 - 1 = 0
        BY <1>1
      <3>2. Left(Quotient(v[a], b))[1 - 1] = 0
        BY <1>2, <3>1, Zenon
      <3> QED  BY <3>2 DEF Digit
    <2> QED  BY <2>1 DEF CubeAt, Origin
  <1> QED  BY <1>4, <1>5, <1>6

-------------------------------------------------------------------------------
(* SubscribedAfter, as a function of the requests r and the channels s.    *)
About(r, n, c) == {i \in 1..n : r[i].op # "publish" /\ c \in r[i].channels}
After(r, s, n, c) == IF About(r, n, c) = {} THEN c \in s
                     ELSE \E i \in About(r, n, c) :
                              r[i].op = "subscribe" /\ \A k \in About(r, n, c) : k <= i

(* What one request makes of the subscription to c                         *)
Outcome(m, c, was) == IF m.op # "publish" /\ c \in m.channels THEN m.op = "subscribe" ELSE was

(* After is SubscribedAfter, now and in the next state.                    *)
LEMMA SubscribedAfterIsAfter ==
    \A n, c : /\ SubscribedAfter(n, c) <=> After(link, subscribed, n, c)
              /\ SubscribedAfter(n, c)' <=> After(link', subscribed', n, c)
  BY DEF SubscribedAfter, After, About

(* Nothing is handled: the channels are those there are.                   *)
LEMMA AfterNone ==
    ASSUME NEW r, NEW s, NEW c
    PROVE  After(r, s, 0, c) <=> c \in s
  <1>1. About(r, 0, c) = {}
    BY DEF About
  <1> QED  BY <1>1 DEF After

(* One more request is handled.                                            *)
LEMMA AfterNext ==
    ASSUME NEW r, NEW s, NEW c, NEW n \in Nat
    PROVE  After(r, s, n + 1, c) <=> Outcome(r[n + 1], c, After(r, s, n, c))
  <1>1. CASE r[n + 1].op # "publish" /\ c \in r[n + 1].channels
    <2>1. n + 1 \in About(r, n + 1, c) /\ \A k \in About(r, n + 1, c) : k \in Nat /\ k <= n + 1
      BY <1>1 DEF About
    <2>2. \A i \in About(r, n + 1, c) :
              (\A k \in About(r, n + 1, c) : k <= i) <=> i = n + 1
      BY <2>1
    <2>3. After(r, s, n + 1, c) <=> r[n + 1].op = "subscribe"
      BY <2>1, <2>2 DEF After
    <2> QED  BY <1>1, <2>3 DEF Outcome
  <1>2. CASE ~(r[n + 1].op # "publish" /\ c \in r[n + 1].channels)
    <2>1. About(r, n + 1, c) = About(r, n, c)
      BY <1>2 DEF About
    <2> QED  BY <1>2, <2>1 DEF After, Outcome
  <1> QED  BY <1>1, <1>2

(* Only the requests up to n matter.                                       *)
LEMMA AfterSame ==
    ASSUME NEW r, NEW q, NEW s, NEW c, NEW n \in Nat, \A i \in 1..n : q[i] = r[i]
    PROVE  After(q, s, n, c) <=> After(r, s, n, c)
  <1>1. About(q, n, c) = About(r, n, c)
    BY DEF About
  <1>2. \A i \in About(r, n, c) : q[i] = r[i]
    BY DEF About
  <1> QED  BY <1>1, <1>2 DEF After

(* A message that waits has a channel left.                                *)
Messages == [op : {"subscribe", "unsubscribe", "publish"}, channels : (SUBSET Names) \ {{}}]

(* Such messages are of the type of the link.                              *)
LEMMA MessagesAreTyped ==
    \A q \in Seq(Messages) :
        q \in Seq([op : {"subscribe", "unsubscribe", "publish"}, channels : SUBSET Names])
  <1> DEFINE M == [op : {"subscribe", "unsubscribe", "publish"}, channels : SUBSET Names]
  <1>1. Messages \subseteq M
    BY DEF Messages
  <1> HIDE DEF M
  <1>2. ASSUME NEW q \in Seq(Messages) PROVE q \in Seq(M)
    <2>1. Len(q) \in Nat /\ q \in [1..Len(q) -> M]
      BY <1>1
    <2> QED  BY <2>1
  <1> QED  BY <1>2 DEF M

(* What has been asked for is not changed by asking for more.              *)
LEMMA AfterEarlier ==
    ASSUME NEW r \in Seq(Messages), NEW x \in Seq(Messages), NEW s, NEW c, NEW n \in 0..Len(r)
    PROVE  After(r \o x, s, n, c) <=> After(r, s, n, c)
  <1>1. n \in Nat /\ \A i \in 1..n : (r \o x)[i] = r[i]
    OBVIOUS
  <1> QED  BY <1>1, AfterSame

(* What one more request to all of some channels does                      *)
LEMMA AfterRequests ==
    ASSUME NEW r \in Seq(Messages), NEW s, NEW c, NEW channels \in SUBSET Names,
           NEW op \in {"subscribe", "unsubscribe", "publish"}
    PROVE  LET q == r \o Requests(op, channels)
           IN  /\ Requests(op, channels) \in Seq(Messages)
               /\ q \in Seq(Messages)
               /\ After(q, s, Len(q), c) <=>
                      Outcome([op |-> op, channels |-> channels], c, After(r, s, Len(r), c))
  <1>1. CASE channels = {}
    <2>1. Requests(op, channels) = << >>
      BY <1>1 DEF Requests
    <2>2. r \o << >> = r
      OBVIOUS
    <2>3. Outcome([op |-> op, channels |-> channels], c, After(r, s, Len(r), c))
              <=> After(r, s, Len(r), c)
      BY <1>1 DEF Outcome
    <2> QED  BY <2>1, <2>2, <2>3
  <1>2. CASE channels # {}
    <2>1. PICK m \in Messages : m = [op |-> op, channels |-> channels]
      BY <1>2 DEF Messages
    <2>2. Requests(op, channels) = << m >>
      BY <1>2, <2>1 DEF Requests
    <2>3. PICK q \in Seq(Messages) : q = r \o << m >>
      <3>1. << m >> \in Seq(Messages)
        OBVIOUS
      <3>2. r \o << m >> \in Seq(Messages)
        BY <3>1
      <3> QED  BY <3>2
    <2>4. Len(q) = Len(r) + 1 /\ q[Len(r) + 1] = m /\ Len(r) \in Nat
      BY <2>3
    <2>5. After(q, s, Len(r) + 1, c) <=> Outcome(m, c, After(q, s, Len(r), c))
      BY <2>4, AfterNext
    <2>6. After(q, s, Len(r), c) <=> After(r, s, Len(r), c)
      <3>1. Len(r) \in 0..Len(r) /\ << m >> \in Seq(Messages)
        BY <2>4
      <3> QED  BY <2>3, <3>1, AfterEarlier
    <2> QED  BY <2>1, <2>2, <2>3, <2>4, <2>5, <2>6 DEF Outcome
  <1> QED  BY <1>1, <1>2

(* The server takes one channel of the oldest message: what it will have   *)
(* in the end stays the same.                                              *)
Handled(r, s, q, t, ch) ==
    /\ ch \in r[1].channels
    /\ t = IF r[1].op = "subscribe" THEN s \cup {ch}
           ELSE IF r[1].op = "unsubscribe" THEN s \ {ch} ELSE s
    /\ q = IF r[1].channels = {ch} THEN Tail(r)
           ELSE [r EXCEPT ![1].channels = r[1].channels \ {ch}]

(* The last channel of the oldest message: the message is gone.            *)
LEMMA TailLink ==
    ASSUME NEW r \in Seq(Messages), r # << >>, NEW s, NEW ch, NEW q, NEW t,
           Handled(r, s, q, t, ch), r[1].channels = {ch}
    PROVE  /\ q \in Seq(Messages) /\ Len(r) = Len(q) + 1
           /\ \A i \in 1..Len(q) : q[i] = r[i + 1]
  BY DEF Handled

(* Then each of the others is one place nearer, with the same outcome.     *)
LEMMA TailAfter ==
    ASSUME NEW r \in Seq(Messages), r # << >>, NEW s, NEW c, NEW ch, NEW q, NEW t,
           Handled(r, s, q, t, ch), r[1].channels = {ch}
    PROVE  \A n \in 0..Len(q) : After(q, t, n, c) <=> After(r, s, n + 1, c)
  <1>1. q = Tail(r) /\ t = IF r[1].op = "subscribe" THEN s \cup {ch}
                           ELSE IF r[1].op = "unsubscribe" THEN s \ {ch} ELSE s
    BY DEF Handled
  <1>2. q \in Seq(Messages) /\ Len(r) = Len(q) + 1 /\ Len(q) \in Nat
        /\ \A i \in 1..Len(q) : q[i] = r[i + 1]
    BY TailLink
  <1>3. 1 \in 1..Len(r) /\ r[1] \in Messages
    BY <1>2
  <1> DEFINE Same == {n \in Nat : n <= Len(q) => (After(q, t, n, c) <=> After(r, s, n + 1, c))}
  <1>4. 0 \in Same
    <2>1. After(q, t, 0, c) <=> c \in t
      BY AfterNone
    <2>2. After(r, s, 0 + 1, c) <=> Outcome(r[0 + 1], c, After(r, s, 0, c))
      BY AfterNext
    <2>3. 0 + 1 = 1
      OBVIOUS
    <2>4. After(r, s, 0, c) <=> c \in s
      BY AfterNone
    <2>5. Outcome(r[1], c, c \in s) <=> c \in t
      BY <1>1, <1>3 DEF Outcome, Messages
    <2>6. Outcome(r[1], c, After(r, s, 0, c)) <=> c \in t
      BY <2>4, <2>5 DEF Outcome
    <2>7. After(r, s, 1, c) <=> c \in t
      BY <2>2, <2>3, <2>6
    <2> QED  BY <2>1, <2>3, <2>7
  <1>5. ASSUME NEW n \in Nat, n \in Same PROVE n + 1 \in Same
    <2> SUFFICES ASSUME n + 1 <= Len(q)
                 PROVE  After(q, t, n + 1, c) <=> After(r, s, (n + 1) + 1, c)
      OBVIOUS
    <2>1. After(q, t, n, c) <=> After(r, s, n + 1, c)
      BY <1>2, <1>5
    <2>2. After(q, t, n + 1, c) <=> Outcome(q[n + 1], c, After(q, t, n, c))
      BY AfterNext
    <2>3. n + 1 \in Nat /\ n + 1 \in 1..Len(q)
      BY <1>2
    <2>4. After(r, s, (n + 1) + 1, c) <=> Outcome(r[(n + 1) + 1], c, After(r, s, n + 1, c))
      BY <2>3, AfterNext
    <2>5. q[n + 1] = r[(n + 1) + 1]
      BY <1>2, <2>3
    <2> QED  BY <2>1, <2>2, <2>4, <2>5 DEF Outcome
  <1>6. Nat \subseteq Same
    <2> HIDE DEF Same
    <2> QED  BY <1>4, <1>5, Induction
  <1> QED  BY <1>2, <1>6

(* Another channel of the oldest message: only that message changes.       *)
LEMMA ShrunkLink ==
    ASSUME NEW r \in Seq(Messages), r # << >>, NEW s, NEW ch, NEW q, NEW t,
           Handled(r, s, q, t, ch), r[1].channels # {ch}
    PROVE  /\ q \in Seq(Messages) /\ Len(q) = Len(r)
           /\ q[1].op = r[1].op /\ q[1].channels = r[1].channels \ {ch}
           /\ \A i \in 2..Len(r) : q[i] = r[i]
  <1>1. 1 \in 1..Len(r) /\ r[1] \in Messages /\ Len(r) \in Nat
    OBVIOUS
  <1>2. q = [r EXCEPT ![1].channels = r[1].channels \ {ch}] /\ ch \in r[1].channels
    BY DEF Handled
  <1>3. PICK m \in Messages : m = [r[1] EXCEPT !.channels = r[1].channels \ {ch}]
    <2>1. r[1].channels \ {ch} # {}
      BY <1>2
    <2> QED  BY <1>1, <2>1 DEF Messages
  <1>4. q = [r EXCEPT ![1] = m]
    BY <1>2, <1>3
  <1>5. q \in Seq(Messages) /\ Len(q) = Len(r) /\ q[1] = m /\ \A i \in 2..Len(r) : q[i] = r[i]
    BY <1>1, <1>4
  <1>6. m.op = r[1].op /\ m.channels = r[1].channels \ {ch}
    BY <1>1, <1>3 DEF Messages
  <1> QED  BY <1>5, <1>6

(* Then the outcome at every place is the same.                            *)
LEMMA ShrunkAfter ==
    ASSUME NEW r \in Seq(Messages), r # << >>, NEW s, NEW c, NEW ch, NEW q, NEW t,
           Handled(r, s, q, t, ch), r[1].channels # {ch}
    PROVE  \A n \in 1..Len(r) : After(q, t, n, c) <=> After(r, s, n, c)
  <1>1. 1 \in 1..Len(r) /\ r[1] \in Messages /\ Len(r) \in Nat
    OBVIOUS
  <1>2. t = IF r[1].op = "subscribe" THEN s \cup {ch}
                           ELSE IF r[1].op = "unsubscribe" THEN s \ {ch} ELSE s
    BY DEF Handled
  <1>3. ch \in r[1].channels
    BY DEF Handled
  <1>4. /\ q \in Seq(Messages) /\ Len(q) = Len(r)
        /\ q[1].op = r[1].op /\ q[1].channels = r[1].channels \ {ch}
        /\ \A i \in 2..Len(r) : q[i] = r[i]
    BY ShrunkLink
  <1> DEFINE Same == {n \in Nat : n + 1 <= Len(r) =>
                                     (After(q, t, n + 1, c) <=> After(r, s, n + 1, c))}
  <1>5. 0 \in Same
    <2>1. After(q, t, 0 + 1, c) <=> Outcome(q[0 + 1], c, After(q, t, 0, c))
      BY AfterNext
    <2>2. After(r, s, 0 + 1, c) <=> Outcome(r[0 + 1], c, After(r, s, 0, c))
      BY AfterNext
    <2>3. 0 + 1 = 1
      OBVIOUS
    <2>4. (After(r, s, 0, c) <=> c \in s) /\ (After(q, t, 0, c) <=> c \in t)
      BY AfterNone
    <2>5. Outcome(r[1], c, c \in s) <=> Outcome(q[1], c, c \in t)
      BY <1>1, <1>2, <1>3, <1>4 DEF Outcome, Messages
    <2>6. Outcome(r[1], c, After(r, s, 0, c)) <=> Outcome(q[1], c, After(q, t, 0, c))
      BY <1>4, <2>4, <2>5 DEF Outcome
    <2>7. After(q, t, 1, c) <=> After(r, s, 1, c)
      BY <2>1, <2>2, <2>3, <2>6
    <2> QED  BY <2>3, <2>7
  <1>6. ASSUME NEW n \in Nat, n \in Same PROVE n + 1 \in Same
    <2> SUFFICES ASSUME (n + 1) + 1 <= Len(r)
                 PROVE  After(q, t, (n + 1) + 1, c) <=> After(r, s, (n + 1) + 1, c)
      OBVIOUS
    <2>1. After(q, t, n + 1, c) <=> After(r, s, n + 1, c)
      BY <1>1, <1>6
    <2>2. n + 1 \in Nat /\ (n + 1) + 1 \in 2..Len(r)
      BY <1>1
    <2>3. After(q, t, (n + 1) + 1, c) <=> Outcome(q[(n + 1) + 1], c, After(q, t, n + 1, c))
      BY <2>2, AfterNext
    <2>4. After(r, s, (n + 1) + 1, c) <=> Outcome(r[(n + 1) + 1], c, After(r, s, n + 1, c))
      BY <2>2, AfterNext
    <2>5. q[(n + 1) + 1] = r[(n + 1) + 1]
      BY <1>4, <2>2
    <2> QED  BY <2>1, <2>3, <2>4, <2>5 DEF Outcome
  <1>7. Nat \subseteq Same
    <2> HIDE DEF Same
    <2> QED  BY <1>5, <1>6, Induction
  <1>8. ASSUME NEW n \in 1..Len(r) PROVE After(q, t, n, c) <=> After(r, s, n, c)
    <2>1. PICK k \in Nat : n = k + 1 /\ k + 1 <= Len(r)
      <3>1. n - 1 \in Nat /\ n = (n - 1) + 1 /\ (n - 1) + 1 <= Len(r)
        BY <1>1
      <3> QED  BY <3>1
    <2>2. k \in Same
      BY <1>7
    <2> QED  BY <2>1, <2>2
  <1> QED  BY <1>8

-------------------------------------------------------------------------------
(* Levels are MinLevel and every second power of two from there.           *)
LEMMA LevelFacts ==
    /\ MinLevel \in Levels /\ Index(MinLevel) = 0
    /\ \A l \in Levels : /\ l \in Nat /\ Index(l) \in Nat /\ l = MinLevel + 2 * Index(l)
                         /\ l >= MinLevel
                         /\ l # MinLevel => Index(l) >= 1
    /\ \A j, l \in Levels : j <= l => Index(j) <= Index(l)
  BY LevelAssumption DEF Levels, Index

(* The points around a position are vectors.                               *)
LEMMA OffsetFacts ==
    ASSUME NEW v \in Vectors, NEW n \in Int, NEW offset \in [Axes -> {-n, 0, n}]
    PROVE  Add(v, offset) \in Vectors /\ \A a \in Axes : Add(v, offset)[a] = v[a] + offset[a]
  <1>1. ASSUME NEW a \in Axes PROVE v[a] + offset[a] \in Int
    BY DEF Vectors
  <1> QED  BY <1>1 DEF Add, Vectors

(* Every channel of a level is the name of a cube of its size, and the     *)
(* name of the position itself is one of them.                             *)
LEMMA SurroundingFacts ==
    ASSUME NEW v \in Vectors, NEW b \in Nat
    PROVE  /\ surroundingSpaceNames(v, b) \subseteq Names
           /\ \A c \in surroundingSpaceNames(v, b) : c # << >> /\ c[1].p = b
           /\ decompose(v, b) \in surroundingSpaceNames(v, b)
  <1> DEFINE length == (3 * TwoTo[b]) \div 4
  <1>1. length \in Int
    BY TwoToFacts
  <1>2. surroundingSpaceNames(v, b) =
            {decompose(Add(v, offset), b) : offset \in [Axes -> {-length, 0, length}]}
    BY DEF surroundingSpaceNames
  <1> HIDE DEF length
  <1>3. ASSUME NEW w \in Vectors PROVE decompose(w, b) \in Names
    BY NameFacts DEF Names
  <1>4. \A c \in surroundingSpaceNames(v, b) : \E w \in Vectors : c = decompose(w, b)
    BY <1>1, <1>2, OffsetFacts
  <1>5. decompose(v, b) \in surroundingSpaceNames(v, b)
    <2>1. [a \in Axes |-> 0] \in [Axes -> {-length, 0, length}]
      OBVIOUS
    <2>2. Add(v, [a \in Axes |-> 0]) = v
      BY DEF Add, Vectors
    <2> QED  BY <1>2, <2>1, <2>2
  <1> QED  BY <1>3, <1>4, <1>5, FirstCube

(* A name depends on nothing but the integers that are taken apart.        *)
LEMMA SameName ==
    ASSUME NEW v, NEW w, NEW b, \A a \in Axes : Quotient(v[a], b) = Quotient(w[a], b)
    PROVE  decompose(v, b) = decompose(w, b)
  <1>1. [a \in Axes |-> Left(Quotient(v[a], b))] = [a \in Axes |-> Left(Quotient(w[a], b))]
    OBVIOUS
  <1> QED  BY <1>1 DEF decompose

(* A level publishes on the whole name of the smallest cube, or on the     *)
(* cube of its size at the origin.                                         *)
LEMMA ChannelStringFacts ==
    ASSUME NEW v \in Vectors, NEW l \in Levels
    PROVE  /\ ChannelString(v, l) \in Names
           /\ ChannelString(v, l) # NoName
           /\ ChannelString(v, l)[1].p = MinLevel => ChannelString(v, l) = decompose(v, MinLevel)
           /\ \/ /\ ChannelString(v, l) = decompose(v, MinLevel)
                 /\ ChannelString(v, l)[1].p = MinLevel
                 /\ Index(l) < Len(decompose(v, MinLevel))
              \/ /\ ChannelString(v, l) = << [at |-> Origin, p |-> l] >>
                 /\ ChannelString(v, l)[1].p = l /\ l # MinLevel
                 /\ Index(l) >= Len(decompose(v, MinLevel))
  <1>0. MinLevel \in Nat /\ l \in Nat
    BY LevelAssumption, LevelFacts
  <1>1. /\ decompose(v, MinLevel) \in Names /\ decompose(v, MinLevel) # << >>
        /\ decompose(v, MinLevel)[1].p = MinLevel
        /\ Len(decompose(v, MinLevel)) >= 1
    BY <1>0, NameFacts, FirstCube DEF Names
  <1>2. [at |-> Origin, p |-> l] \in Cubes
    BY <1>0 DEF Cubes, Origin, Digits
  <1>3. << [at |-> Origin, p |-> l] >> \in Names
    BY <1>2 DEF Names
  <1>4. CASE Index(l) < Len(decompose(v, MinLevel))
    BY <1>1, <1>4 DEF ChannelString, NoName
  <1>5. CASE ~(Index(l) < Len(decompose(v, MinLevel)))
    <2>1. ChannelString(v, l) = << [at |-> Origin, p |-> l] >>
      BY <1>5 DEF ChannelString
    <2>2. l # MinLevel
      BY <1>1, <1>5, LevelFacts
    <2>3. Len(decompose(v, MinLevel)) \in Nat /\ Index(l) \in Nat
      BY <1>1, LevelFacts DEF Names
    <2> QED  BY <1>3, <1>5, <2>1, <2>2, <2>3 DEF NoName
  <1> QED  BY <1>4, <1>5

-------------------------------------------------------------------------------
(* The state of the tracker and of the socket.                             *)

(* Nothing is under way before the socket opens and after it has closed.   *)
Quiet == /\ ~isOpen => link = << >> /\ subscribed = {}
         /\ ~isOpen /\ ~ended => \A l \in Levels : string[l] = NoName
         /\ link \in Seq(Messages)

(* The string and the spaces of a level belong to the same position.       *)
Computed == \A l \in Levels :
    \/ string[l] = NoName /\ subscribeSpaces[l] = {}
    \/ /\ string[l] = ChannelString(enteredAt[l], l)
       /\ subscribeSpaces[l] = surroundingSpaceNames(enteredAt[l], l)

(* The first update() computes all levels.                                 *)
AllAtOnce == \A j, l \in Levels : string[j] = NoName => string[l] = NoName

(* A level that publishes on a whole name shares it with all below it.     *)
LongNamesAgree == \A j, l \in Levels :
    j <= l /\ string[l] # NoName /\ string[l][1].p = MinLevel => string[j] = string[l]

(* ServerFollowsTracker, of every channel there is                         *)
Follows == isOpen => \A c : SubscribedAfter(Len(link), c) <=> c \in Wanted

(* The inductive invariant                                                 *)
IInv == TypeOK /\ Quiet /\ Computed /\ AllAtOnce /\ LongNamesAgree /\ Follows

(* The initial states have the inductive invariant.                        *)
LEMMA InitIInv == Init => IInv
  <1> SUFFICES ASSUME Init PROVE IInv
    OBVIOUS
  <1> USE DEF Init
  <1>1. TypeOK
    <2>1. NoName \in Names /\ << >> \in Seq(Messages)
      BY DEF NoName, Names
    <2>2. link \in Seq([op : {"subscribe", "unsubscribe", "publish"}, channels : SUBSET Names])
      BY <2>1, MessagesAreTyped
    <2> QED  BY <2>1, <2>2 DEF TypeOK
  <1>2. Quiet
    <2>1. << >> \in Seq(Messages)
      OBVIOUS
    <2> QED  BY <2>1 DEF Quiet
  <1>3. Computed /\ AllAtOnce /\ LongNamesAgree /\ Follows
    BY DEF Computed, AllAtOnce, LongNamesAgree, Follows
  <1> QED  BY <1>1, <1>2, <1>3 DEF IInv

(* The levels that moved are the lowest, up to one that has not changed.   *)
LEMMA MovedFacts ==
    ASSUME NEW v
    PROVE  /\ Moved(v) \subseteq Levels
           /\ \A l \in Moved(v), k \in Levels : k <= l => k \in Moved(v)
           /\ \A l \in Levels : l \in Moved(v) \/ \E k \in Levels : k <= l /\ string[k] = ChannelString(v, k)
           /\ \A l \in Moved(v) : string[l] # ChannelString(v, l)
  BY LevelFacts DEF Moved

(* What update() sends, and what it makes of the tracker                   *)
LEMMA UpdateKeepsType ==
    ASSUME IInv, NEW v \in Positions, NEW due \in SUBSET Levels, Update(v, due)
    PROVE  TypeOK' /\ Quiet'
  <1> DEFINE moved == Moved(v)
             left == UNION {subscribeSpaces[l] : l \in moved}
             entered == UNION {surroundingSpaceNames(v, l) : l \in moved}
             strings == {string'[l] : l \in due}
  <1>0. v \in Vectors /\ moved \subseteq Levels /\ Levels \subseteq Nat
    BY PositionAssumption, MovedFacts, LevelFacts
  <1>1. left \in SUBSET Names
    BY <1>0 DEF IInv, TypeOK
  <1>2. entered \in SUBSET Names
    BY <1>0, SurroundingFacts
  <1>3. string' \in [Levels -> Names]
    BY <1>0, ChannelStringFacts DEF Update, IInv, TypeOK
  <1>4. strings \in SUBSET Names
    BY <1>3
  <1>5. \A l \in Levels : subscribeSpaces'[l] \subseteq Names
    BY <1>0, SurroundingFacts DEF Update, IInv, TypeOK
  <1>6. enteredAt' \in [Levels -> Positions]
    BY DEF Update, IInv, TypeOK
  <1>7. link' = link \o (Requests("unsubscribe", left) \o Requests("subscribe", entered)
                             \o Requests("publish", strings))
    BY DEF Update, Sent, Publications
  <1> HIDE DEF left, entered, strings
  <1>8. link' \in Seq(Messages)
    <2>1. << >> \in Seq(Messages)
      OBVIOUS
    <2>2. /\ Requests("unsubscribe", left) \in Seq(Messages)
          /\ Requests("subscribe", entered) \in Seq(Messages)
          /\ Requests("publish", strings) \in Seq(Messages)
      BY <1>1, <1>2, <1>4, <2>1, AfterRequests
    <2> QED  BY <1>7, <2>2 DEF IInv, Quiet
  <1>9. isOpen' \in BOOLEAN /\ ended' \in BOOLEAN /\ position' \in Positions /\ subscribed' \subseteq Names
    BY DEF Update, IInv, TypeOK
  <1>10. TypeOK'
    BY <1>3, <1>5, <1>6, <1>8, <1>9, MessagesAreTyped DEF TypeOK
  <1>11. isOpen'
    BY DEF Update
  <1> QED  BY <1>8, <1>10, <1>11 DEF Quiet

(* update() computes the levels that moved from one position.  A string    *)
(* that stays is shared with no level below that has moved.                *)
LEMMA UpdateKeepsLevels ==
    ASSUME IInv, NEW v \in Positions, NEW due \in SUBSET Levels, Update(v, due)
    PROVE  /\ Computed' /\ AllAtOnce' /\ LongNamesAgree'
           /\ \A l \in Levels : string'[l] # NoName
  <1>0. v \in Vectors /\ Moved(v) \subseteq Levels /\ Levels \subseteq Nat
    BY PositionAssumption, MovedFacts, LevelFacts
  <1>1. /\ string' = [l \in Levels |-> IF l \in Moved(v) THEN ChannelString(v, l) ELSE string[l]]
        /\ subscribeSpaces' = [l \in Levels |-> IF l \in Moved(v) THEN surroundingSpaceNames(v, l)
                                                              ELSE subscribeSpaces[l]]
        /\ enteredAt' = [l \in Levels |-> IF l \in Moved(v) THEN v ELSE enteredAt[l]]
    BY DEF Update
  <1>2. Computed'
    BY <1>1 DEF IInv, Computed
  <1>3. ASSUME NEW l \in Levels PROVE string'[l] # NoName
    <2>1. ChannelString(v, l) # NoName /\ \A k \in Levels : ChannelString(v, k) # NoName
      BY <1>0, ChannelStringFacts
    <2>2. CASE string[l] # NoName
      BY <1>1, <2>1, <2>2
    <2>3. CASE string[l] = NoName
      <3>1. \A k \in Levels : string[k] = NoName
        BY <2>3 DEF IInv, AllAtOnce
      <3>2. l \in Moved(v)
        BY <2>1, <3>1, MovedFacts
      <3> QED  BY <1>1, <2>1, <3>2
    <2> QED  BY <2>2, <2>3
  <1>4. LongNamesAgree'
    <2> SUFFICES ASSUME NEW j \in Levels, NEW l \in Levels,
                        j <= l, string'[l] # NoName, string'[l][1].p = MinLevel
                 PROVE  string'[j] = string'[l]
      BY DEF LongNamesAgree
    <2>1. CASE l \in Moved(v)
      <3>1. j \in Moved(v) /\ string'[j] = ChannelString(v, j) /\ string'[l] = ChannelString(v, l)
        BY <1>1, <2>1, MovedFacts
      <3>2. string'[l] = decompose(v, MinLevel) /\ Index(l) < Len(decompose(v, MinLevel))
        BY <1>0, <3>1, ChannelStringFacts
      <3>3. Index(j) <= Index(l) /\ Index(j) \in Nat /\ Index(l) \in Nat
        BY LevelFacts
      <3>4. Len(decompose(v, MinLevel)) \in Nat
        <4>1. decompose(v, MinLevel) \in Names
          BY <1>0, ChannelStringFacts, <3>1, <3>2
        <4> QED  BY <4>1 DEF Names
      <3>5. string'[j] = decompose(v, MinLevel)
        BY <3>1, <3>2, <3>3, <3>4 DEF ChannelString
      <3> QED  BY <3>2, <3>5
    <2>2. CASE l \notin Moved(v)
      <3>1. string'[l] = string[l]
        BY <1>1, <2>2
      <3>2. \A k \in Levels : k <= l => string[k] = string[l]
        BY <3>1 DEF IInv, LongNamesAgree
      <3>3. PICK k \in Levels : k <= l /\ string[k] = ChannelString(v, k)
        BY <2>2, MovedFacts
      <3>4. ChannelString(v, k)[1].p = MinLevel
        BY <3>1, <3>2, <3>3
      <3>5. ChannelString(v, k) = decompose(v, MinLevel) /\ Index(k) < Len(decompose(v, MinLevel))
        BY <1>0, <3>4, ChannelStringFacts
      <3>6. MinLevel <= l /\ MinLevel \in Levels /\ Index(MinLevel) = 0 /\ Index(k) \in Nat
        BY LevelFacts
      <3>7. Len(decompose(v, MinLevel)) \in Nat
        <4>1. decompose(v, MinLevel) \in Names
          BY <1>0, ChannelStringFacts, <3>5
        <4> QED  BY <4>1 DEF Names
      <3>8. ChannelString(v, MinLevel) = decompose(v, MinLevel)
        BY <3>5, <3>6, <3>7 DEF ChannelString
      <3>9. string[MinLevel] = ChannelString(v, MinLevel)
        BY <3>2, <3>3, <3>5, <3>6, <3>8
      <3>10. MinLevel \notin Moved(v)
        BY <3>9, MovedFacts
      <3>11. j \notin Moved(v)
        BY <3>6, <3>10, MovedFacts, LevelFacts
      <3> QED  BY <1>1, <3>1, <3>2, <3>11
    <2> QED  BY <2>1, <2>2
  <1> QED  BY <1>2, <1>3, <1>4 DEF AllAtOnce

-------------------------------------------------------------------------------
(* update() sends the server what makes its channels those it wants: a     *)
(* channel that is left and entered again is asked for last.               *)
LEMMA UpdateKeepsFollowing ==
    ASSUME IInv, NEW v \in Positions, NEW due \in SUBSET Levels, Update(v, due)
    PROVE  LET before == link \o (Requests("unsubscribe", UNION {subscribeSpaces[l] : l \in Moved(v)})
                                  \o Requests("subscribe", UNION {surroundingSpaceNames(v, l) : l \in Moved(v)}))
           IN  /\ before \in Seq(Messages)
               /\ link' = before \o Publications(due, string')
               /\ \A c : After(before, subscribed', Len(before), c) <=> c \in Wanted'
               /\ Follows'
  <1> DEFINE moved == Moved(v)
             left == UNION {subscribeSpaces[l] : l \in moved}
             entered == UNION {surroundingSpaceNames(v, l) : l \in moved}
             strings == {string'[l] : l \in due}
             first == link \o Requests("unsubscribe", left)
             before == link \o (Requests("unsubscribe", left) \o Requests("subscribe", entered))
  <1>0. v \in Vectors /\ moved \subseteq Levels /\ Levels \subseteq Nat /\ isOpen /\ isOpen'
    BY PositionAssumption, MovedFacts, LevelFacts DEF Update
  <1>1. subscribeSpaces' = [l \in Levels |-> IF l \in moved THEN surroundingSpaceNames(v, l)
                                                            ELSE subscribeSpaces[l]]
    BY DEF Update
  <1>2. left \in SUBSET Names /\ entered \in SUBSET Names
    BY <1>0, SurroundingFacts DEF IInv, TypeOK
  <1>3. strings \in SUBSET Names
    <2>1. TypeOK'
      BY UpdateKeepsType
    <2> QED  BY <2>1 DEF TypeOK
  (* The channels of different levels are different.                       *)
  <1>4. ASSUME NEW l \in Levels, NEW c \in subscribeSpaces[l] PROVE c[1].p = l
    <2>1. enteredAt[l] \in Vectors
      BY PositionAssumption DEF IInv, TypeOK
    <2>2. subscribeSpaces[l] = surroundingSpaceNames(enteredAt[l], l)
      BY <1>4 DEF IInv, Computed
    <2> QED  BY <1>0, <1>4, <2>1, <2>2, SurroundingFacts
  <1>5. ASSUME NEW c PROVE c \in Wanted' <=> (c \in Wanted /\ c \notin left) \/ c \in entered
    <2>1. ASSUME c \in Wanted' PROVE (c \in Wanted /\ c \notin left) \/ c \in entered
      <3>1. PICK l \in Levels : c \in subscribeSpaces'[l]
        BY <2>1 DEF Wanted
      <3>2. CASE l \in moved
        BY <1>1, <3>1, <3>2
      <3>3. CASE l \notin moved
        <4>1. c \in subscribeSpaces[l] /\ c[1].p = l
          BY <1>1, <1>4, <3>1, <3>3
        <4>2. \A k \in moved : c \notin subscribeSpaces[k]
          BY <1>0, <1>4, <3>3, <4>1
        <4> QED  BY <4>1, <4>2 DEF Wanted
      <3> QED  BY <3>2, <3>3
    <2>2. ASSUME c \in entered PROVE c \in Wanted'
      BY <1>0, <1>1, <2>2 DEF Wanted
    <2>3. ASSUME c \in Wanted, c \notin left PROVE c \in Wanted'
      BY <1>0, <1>1, <2>3 DEF Wanted
    <2> QED  BY <2>1, <2>2, <2>3
  <1>6. link' = link \o (Requests("unsubscribe", left) \o Requests("subscribe", entered)
                             \o Publications(due, string'))
        /\ Publications(due, string') = Requests("publish", strings) /\ subscribed' = subscribed
    BY DEF Update, Sent, Publications
  <1> HIDE DEF left, entered, strings
  <1>7. link \in Seq(Messages)
    BY DEF IInv, Quiet
  <1>8. /\ Requests("unsubscribe", left) \in Seq(Messages) /\ first \in Seq(Messages)
        /\ \A c : After(first, subscribed, Len(first), c) <=>
                      Outcome([op |-> "unsubscribe", channels |-> left], c,
                              After(link, subscribed, Len(link), c))
    BY <1>2, <1>7, AfterRequests
  <1>9. /\ Requests("subscribe", entered) \in Seq(Messages)
        /\ first \o Requests("subscribe", entered) = before /\ before \in Seq(Messages)
    <2>1. Requests("subscribe", entered) \in Seq(Messages)
      BY <1>2, <1>7, AfterRequests
    <2> QED  BY <1>7, <1>8, <2>1
  <1>10. \A c : After(before, subscribed, Len(before), c) <=>
                      Outcome([op |-> "subscribe", channels |-> entered], c,
                              After(first, subscribed, Len(first), c))
    <2> HIDE DEF first, before
    <2> QED  BY <1>2, <1>8, <1>9, AfterRequests
  <1>11. \A c : After(link, subscribed, Len(link), c) <=> c \in Wanted
    BY <1>0, SubscribedAfterIsAfter DEF IInv, Follows
  <1>12. ASSUME NEW c PROVE After(before, subscribed, Len(before), c) <=> c \in Wanted'
    <2> HIDE DEF first, before
    <2> QED  BY <1>5, <1>8, <1>10, <1>11 DEF Outcome
  <1>13. link' = before \o Publications(due, string')
    <2>1. Publications(due, string') \in Seq(Messages)
      BY <1>3, <1>6, <1>7, AfterRequests
    <2> QED  BY <1>6, <1>7, <1>8, <1>9, <2>1
  <1>14. ASSUME NEW c PROVE SubscribedAfter(Len(link), c)' <=> c \in Wanted'
    <2> HIDE DEF first, before
    <2>1. After(link', subscribed, Len(link'), c) <=>
              Outcome([op |-> "publish", channels |-> strings], c,
                      After(before, subscribed, Len(before), c))
      BY <1>3, <1>6, <1>9, <1>13, AfterRequests
    <2>2. After(link', subscribed', Len(link'), c) <=> c \in Wanted'
      BY <1>6, <1>12, <2>1 DEF Outcome
    <2> QED  BY <2>2 DEF SubscribedAfter, After, About
  <1> QED  BY <1>6, <1>9, <1>12, <1>13, <1>14 DEF Follows, left, entered

(* Handle, as a step of the link                                           *)
LEMMA HandleFacts ==
    ASSUME IInv, Handle
    PROVE  /\ link # << >> /\ isOpen /\ isOpen'
           /\ UNCHANGED <<isOpen, ended, position, string, subscribeSpaces, enteredAt>>
           /\ \E ch \in Names : Handled(link, subscribed, link', subscribed', ch)
  <1>1. link # << >> /\ UNCHANGED <<isOpen, ended, position, string, subscribeSpaces, enteredAt>>
    BY DEF Handle
  <1>2. link \in Seq(Messages) /\ 1 \in 1..Len(link) /\ link[1] \in Messages /\ Head(link) = link[1]
    BY <1>1 DEF IInv, Quiet
  <1>3. link[1].channels # {} /\ link[1].channels \subseteq Names
    BY <1>2 DEF Messages
  <1>4. isOpen
    BY <1>1 DEF IInv, Quiet
  <1> DEFINE ch == CHOOSE c \in Head(link).channels : TRUE
             others == Head(link).channels \ {ch}
  <1>5. ch \in link[1].channels
    BY <1>2, <1>3
  <1>6. /\ link' = IF others = {} THEN Tail(link) ELSE [link EXCEPT ![1].channels = others]
        /\ \/ Head(link).op = "subscribe" /\ subscribed' = subscribed \cup {ch}
           \/ Head(link).op = "unsubscribe" /\ subscribed' = subscribed \ {ch}
           \/ Head(link).op = "publish" /\ UNCHANGED subscribed
    BY DEF Handle
  <1> HIDE DEF ch
  <1>7. others = {} <=> link[1].channels = {ch}
    BY <1>2, <1>5
  <1>8. Handled(link, subscribed, link', subscribed', ch)
    BY <1>2, <1>5, <1>6, <1>7 DEF Handled
  <1> QED  BY <1>1, <1>3, <1>4, <1>5, <1>8

(* Handling a message changes nothing of what the server will have.        *)
LEMMA HandleKeepsIInv ==
    ASSUME IInv, Handle
    PROVE  IInv'
  <1>1. PICK ch \in Names : Handled(link, subscribed, link', subscribed', ch)
    BY HandleFacts
  <1>2. link \in Seq(Messages) /\ link # << >> /\ isOpen /\ isOpen'
    BY HandleFacts DEF IInv, Quiet
  <1>3. UNCHANGED <<isOpen, ended, position, string, subscribeSpaces, enteredAt>>
    BY HandleFacts
  <1>4. /\ link' \in Seq(Messages)
        /\ \A c : After(link', subscribed', Len(link'), c) <=> After(link, subscribed, Len(link), c)
    <2>1. CASE link[1].channels = {ch}
      <3>1. link' \in Seq(Messages) /\ Len(link) = Len(link') + 1
        BY <1>1, <1>2, <2>1, TailLink
      <3>2. Len(link') \in 0..Len(link')
        BY <3>1
      <3> QED  BY <1>1, <1>2, <2>1, <3>1, <3>2, TailAfter
    <2>2. CASE link[1].channels # {ch}
      <3>1. link' \in Seq(Messages) /\ Len(link') = Len(link)
        BY <1>1, <1>2, <2>2, ShrunkLink
      <3>2. Len(link) \in 1..Len(link)
        BY <1>2
      <3> QED  BY <1>1, <1>2, <2>2, <3>1, <3>2, ShrunkAfter
    <2> QED  BY <2>1, <2>2
  <1>5. TypeOK'
    <2>1. subscribed' \subseteq Names
      BY <1>1 DEF Handled, IInv, TypeOK
    <2> QED  BY <1>3, <1>4, <2>1, MessagesAreTyped DEF IInv, TypeOK
  <1>6. Follows'
    <2>1. \A c : After(link', subscribed', Len(link'), c) <=> c \in Wanted
      BY <1>2, <1>4, SubscribedAfterIsAfter DEF IInv, Follows
    <2>2. Wanted' = Wanted
      BY <1>3 DEF Wanted
    <2> QED  BY <2>1, <2>2 DEF Follows, SubscribedAfter, After, About
  <1>7. Quiet'
    BY <1>2, <1>3, <1>4 DEF Quiet
  <1>8. Computed' /\ AllAtOnce' /\ LongNamesAgree'
    BY <1>3 DEF IInv, Computed, AllAtOnce, LongNamesAgree
  <1> QED  BY <1>5, <1>6, <1>7, <1>8 DEF IInv

-------------------------------------------------------------------------------
(* Every step keeps the inductive invariant.                               *)
LEMMA NextIInv == IInv /\ [Next]_vars => IInv'
  <1> SUFFICES ASSUME IInv, [Next]_vars PROVE IInv'
    OBVIOUS
  <1>1. ASSUME OnOpen PROVE IInv'
    <2> USE <1>1 DEF OnOpen
    <2>1. TypeOK'
      BY DEF IInv, TypeOK
    <2>2. Quiet' /\ Computed' /\ AllAtOnce' /\ LongNamesAgree'
      BY DEF IInv, Quiet, Computed, AllAtOnce, LongNamesAgree
    <2>3. Follows'
      <3>1. \A l \in Levels : subscribeSpaces[l] = {}
        <4> SUFFICES ASSUME NEW l \in Levels PROVE subscribeSpaces[l] = {}
          OBVIOUS
        <4>1. string[l] = NoName /\ enteredAt[l] \in Vectors
          BY PositionAssumption DEF IInv, Quiet, TypeOK
        <4>2. ChannelString(enteredAt[l], l) # NoName
          BY <4>1, ChannelStringFacts
        <4> QED  BY <4>1, <4>2 DEF IInv, Computed
      <3>2. Wanted' = {} /\ link' = << >> /\ subscribed' = {}
        BY <3>1 DEF Wanted, IInv, Quiet
      <3>3. \A c : After(link', subscribed', 0, c) <=> c \in {}
        BY <3>2, AfterNone
      <3>4. Len(link') = 0
        BY <3>2
      <3> QED  BY <3>2, <3>3, <3>4 DEF Follows, SubscribedAfter, After, About
    <2> QED  BY <2>1, <2>2, <2>3 DEF IInv
  <1>2. ASSUME OnClose PROVE IInv'
    <2> USE <1>2 DEF OnClose
    <2>0. link' = << >> /\ << >> \in Seq(Messages) /\ << >> \in Seq([op : {"subscribe", "unsubscribe", "publish"}, channels : SUBSET Names])
      OBVIOUS
    <2>1. TypeOK'
      BY <2>0 DEF IInv, TypeOK
    <2>2. Quiet' /\ Computed' /\ AllAtOnce' /\ LongNamesAgree' /\ Follows'
      BY <2>0 DEF IInv, Quiet, Computed, AllAtOnce, LongNamesAgree, Follows
    <2> QED  BY <2>1, <2>2 DEF IInv
  <1>3. ASSUME Handle PROVE IInv'
    BY <1>3, HandleKeepsIInv
  <1>4. ASSUME NEW v \in Positions, UpdateNotOpen(v) PROVE IInv'
    <2> USE <1>4 DEF UpdateNotOpen
    <2>1. TypeOK'
      BY DEF IInv, TypeOK
    <2>2. Quiet' /\ Computed' /\ AllAtOnce' /\ LongNamesAgree' /\ Follows'
      BY DEF IInv, Quiet, Computed, AllAtOnce, LongNamesAgree, Follows
    <2> QED  BY <2>1, <2>2 DEF IInv
  <1>5. ASSUME NEW v \in Positions, NEW due \in SUBSET Levels, Update(v, due) PROVE IInv'
    BY <1>5, UpdateKeepsType, UpdateKeepsLevels, UpdateKeepsFollowing DEF IInv
  <1>6. CASE UNCHANGED vars
    <2> USE <1>6 DEF vars
    <2>1. TypeOK'
      BY DEF IInv, TypeOK
    <2>2. Quiet' /\ Computed' /\ AllAtOnce' /\ LongNamesAgree'
      BY DEF IInv, Quiet, Computed, AllAtOnce, LongNamesAgree
    <2>3. Follows'
      BY DEF IInv, Follows, Wanted, SubscribedAfter
    <2> QED  BY <2>1, <2>2, <2>3 DEF IInv
  <1> QED  BY <1>1, <1>2, <1>3, <1>4, <1>5, <1>6 DEF Next

(* The inductive invariant holds in every reachable state.                 *)
THEOREM Invariance == Spec => []IInv
  BY InitIInv, NextIInv, PTL DEF Spec

(* The tracker, the link and the channels at the server keep their types.  *)
THEOREM TypeCorrect == Spec => []TypeOK
  BY Invariance, PTL DEF IInv

(* However update() and the server interleave, the server is on its way to *)
(* exactly the channels the tracker believes to have (update,              *)
(* GWEMS.subscribe, GWEMS.unsubscribe).                                    *)
THEOREM TheServerFollows == Spec => []ServerFollowsTracker
  <1>1. IInv => ServerFollowsTracker
    BY DEF IInv, Follows, ServerFollowsTracker
  <1> QED  BY <1>1, Invariance, PTL

-------------------------------------------------------------------------------
(* A name that ends by round I is of a position less than 4^I cubes from   *)
(* the origin, if no coordinate has wrapped: within one cube of level l.   *)
LEMMA ShortNamesAreCentral ==
    ASSUME NEW v \in Vectors, Fits(v, MinLevel), NEW l \in Levels,
           Index(l) >= Len(decompose(v, MinLevel))
    PROVE  \A a \in Axes : Truncated(v[a], l) = 0
  <1>0. MinLevel \in Nat /\ Index(l) \in Nat /\ l \in Nat /\ l = MinLevel + 2 * Index(l)
        /\ 2 * Index(l) \in Nat
    <2>1. PICK i \in Nat : i = Index(l) /\ l \in Nat /\ l = MinLevel + 2 * i
      BY LevelFacts
    <2> QED  BY <2>1, LevelAssumption
  <1>1. PICK m \in 1..MaxRounds : Len(decompose(v, MinLevel)) = m /\ Done(v, MinLevel, m)
    BY <1>0, NameFacts
  <1> SUFFICES ASSUME NEW a \in Axes PROVE Truncated(v[a], l) = 0
    OBVIOUS
  <1>2. v[a] \in Int
    BY DEF Vectors
  <1>3. PICK q \in Ints : q = Truncated(v[a], MinLevel) /\ Quotient(v[a], MinLevel) = q
    BY <1>0, <1>2, QuotientFacts DEF Fits
  <1>4. Left(q)[m] = 0 /\ m \in 0..MaxRounds /\ m \in Nat /\ 2 * m \in Nat
    BY <1>1, <1>3 DEF Done
  <1>5. PICK s \in Nat, x \in Nat : s = Size(q) /\ x = TwoTo[2 * m] /\ x > 0
    <2>1. Size(q) \in Nat
      <3>1. q \in Int
        BY HalfFacts DEF Ints
      <3> QED  BY <3>1 DEF Size
    <2> QED  BY <1>4, <2>1, TwoToFacts
  <1>6. s < x
    <2>1. 3 * Size(q) <= 3 * (TwoTo[2 * m] * Size(Left(q)[m])) + 2 * TwoTo[2 * m] - 2
      BY <1>4, LeftBounds
    <2>2. Size(Left(q)[m]) = 0
      BY <1>4 DEF Size
    <2>3. 3 * s <= 3 * (x * 0) + 2 * x - 2
      BY <1>5, <2>1, <2>2
    <2> QED  BY <1>5, <2>3
  <1>7. PICK y \in Nat, p \in Nat : y = TwoTo[2 * Index(l)] /\ p = TwoTo[MinLevel] /\ p > 0 /\ x <= y
    <2>1. 2 * m <= 2 * Index(l)
      BY <1>0, <1>1, <1>4
    <2> QED  BY <1>0, <1>4, <1>5, <2>1, TwoToFacts, TwoToGrows
  <1>8. TwoTo[l] = p * y
    BY <1>0, <1>7, TwoToSum
  <1>9. PICK w \in Nat : w = Size(v[a]) /\ w < p * s + p
    <2>1. Size(v[a]) \in Nat
      BY <1>2 DEF Size
    <2> QED  BY <1>0, <1>2, <1>3, <1>5, <1>7, <2>1, TruncatedFacts
  <1>10. w < p * y
    <2>1. s + 1 <= y
      BY <1>6, <1>7
    <2>2. p * (s + 1) <= p * y /\ p * (s + 1) = p * s + p
      BY <2>1
    <2> QED  BY <1>9, <2>2
  <1> QED
    <2>1. PICK t \in Nat, z \in Nat : t = Size(Truncated(v[a], l)) /\ z = p * y
      <3>1. Truncated(v[a], l) \in Int
        BY <1>0, <1>2, TruncatedFacts
      <3>2. Size(Truncated(v[a], l)) \in Nat /\ p * y \in Nat
        BY <3>1 DEF Size
      <3> QED  BY <3>2
    <2>2. z * t <= w
      BY <1>0, <1>2, <1>8, <1>9, <2>1, TruncatedFacts
    <2>3. t = 0
      <3> SUFFICES ASSUME t >= 1 PROVE FALSE
        OBVIOUS
      <3>1. z * t >= z
        OBVIOUS
      <3> QED  BY <1>9, <1>10, <2>1, <2>2, <3>1
    <2>4. Truncated(v[a], l) \in Int
      BY <1>0, <1>2, TruncatedFacts
    <2> QED  BY <2>1, <2>3, <2>4 DEF Size

(* No coordinate, in the smallest cubes, is too large for |0.              *)
AllFit == \A v \in Positions : Fits(v, MinLevel)

(* What a level publishes on, the tracker has subscribed to.               *)
LEMMA OwnChannels ==
    IInv /\ AllFit => \A l \in Levels : string[l] # NoName => string[l] \in Wanted
  <1> SUFFICES ASSUME IInv, AllFit, NEW l \in Levels, string[l] # NoName
               PROVE  string[l] \in Wanted
    OBVIOUS
  <1>1. \A k \in Levels : enteredAt[k] \in Positions /\ enteredAt[k] \in Vectors /\ k \in Nat
    BY PositionAssumption, LevelFacts DEF IInv, TypeOK
  <1>2. /\ string[l] = ChannelString(enteredAt[l], l)
        /\ subscribeSpaces[l] = surroundingSpaceNames(enteredAt[l], l)
    BY DEF IInv, Computed
  <1>3. CASE string[l][1].p = MinLevel
    <2>1. MinLevel \in Levels /\ MinLevel <= l
      BY LevelFacts
    <2>2. string[MinLevel] = string[l]
      BY <1>3, <2>1 DEF IInv, LongNamesAgree
    <2>3. /\ string[MinLevel] = ChannelString(enteredAt[MinLevel], MinLevel)
          /\ subscribeSpaces[MinLevel] = surroundingSpaceNames(enteredAt[MinLevel], MinLevel)
      BY <2>1, <2>2 DEF IInv, Computed
    <2>4. string[MinLevel] = decompose(enteredAt[MinLevel], MinLevel)
      BY <1>1, <1>3, <2>1, <2>2, <2>3, ChannelStringFacts
    <2>5. string[MinLevel] \in subscribeSpaces[MinLevel]
      BY <1>1, <2>1, <2>3, <2>4, SurroundingFacts
    <2> QED  BY <2>1, <2>2, <2>5 DEF Wanted
  <1>4. CASE string[l][1].p # MinLevel
    <2>1. /\ string[l] = << [at |-> Origin, p |-> l] >>
          /\ Index(l) >= Len(decompose(enteredAt[l], MinLevel))
      BY <1>1, <1>2, <1>4, ChannelStringFacts
    <2>2. \A a \in Axes : Truncated(enteredAt[l][a], l) = 0
      BY <1>1, <2>1, ShortNamesAreCentral DEF AllFit
    <2>3. decompose(enteredAt[l], l) = string[l]
      BY <1>1, <2>1, <2>2, NameAtOrigin
    <2>4. string[l] \in subscribeSpaces[l]
      BY <1>1, <1>2, <2>3, SurroundingFacts
    <2> QED  BY <2>4 DEF Wanted
  <1> QED  BY <1>3, <1>4

(* OwnMessagesComeBack, where all positions fit                            *)
Own == AllFit => OwnMessagesComeBack

(* What update() sends: requests, and then at most one publication.        *)
LEMMA PublishesLast ==
    ASSUME IInv, NEW v \in Positions, NEW due \in SUBSET Levels, Update(v, due)
    PROVE  \E asked \in Seq(Messages), publications \in Seq(Messages) :
              /\ link \o asked \in Seq(Messages)
              /\ link' = (link \o asked) \o publications
              /\ \A i \in 1..Len(asked) : asked[i].op # "publish"
              /\ \A c : After(link \o asked, subscribed', Len(link \o asked), c) <=> c \in Wanted'
              /\ \A i \in 1..Len(publications) :
                    i = 1 /\ publications[i].channels = {string'[l] : l \in due}
  <1> DEFINE left == UNION {subscribeSpaces[l] : l \in Moved(v)}
             entered == UNION {surroundingSpaceNames(v, l) : l \in Moved(v)}
             strings == {string'[l] : l \in due}
  <1>1. left \in SUBSET Names /\ entered \in SUBSET Names /\ strings \in SUBSET Names
    <2>1. v \in Vectors /\ Moved(v) \subseteq Levels /\ Levels \subseteq Nat
      BY PositionAssumption, MovedFacts, LevelFacts
    <2>2. TypeOK'
      BY UpdateKeepsType
    <2> QED  BY <2>1, <2>2, SurroundingFacts DEF IInv, TypeOK
  <1>2. PICK asked : asked = Requests("unsubscribe", left) \o Requests("subscribe", entered)
    OBVIOUS
  <1>3. PICK publications : publications = Requests("publish", strings)
    OBVIOUS
  <1>4. /\ link \o asked \in Seq(Messages)
        /\ link' = (link \o asked) \o publications
        /\ \A c : After(link \o asked, subscribed', Len(link \o asked), c) <=> c \in Wanted'
    BY <1>2, <1>3, UpdateKeepsFollowing DEF Publications
  <1> HIDE DEF left, entered, strings
  <1>5. << >> \in Seq(Messages)
    OBVIOUS
  <1>6. PICK u \in Seq(Messages), e \in Seq(Messages) :
            u = Requests("unsubscribe", left) /\ e = Requests("subscribe", entered)
    BY <1>1, <1>5, AfterRequests
  <1>7. publications \in Seq(Messages)
    BY <1>1, <1>3, <1>5, AfterRequests
  <1>8. asked \in Seq(Messages) /\ asked = u \o e
    BY <1>2, <1>6
  <1>9. (\A i \in 1..Len(u) : u[i].op = "unsubscribe") /\ (\A i \in 1..Len(e) : e[i].op = "subscribe")
    BY <1>6 DEF Requests
  <1>10. ASSUME NEW i \in 1..Len(asked) PROVE asked[i].op # "publish"
    <2>1. CASE i <= Len(u)
      BY <1>8, <1>9, <2>1
    <2>2. CASE i > Len(u)
      <3>1. asked[i] = e[i - Len(u)] /\ i - Len(u) \in 1..Len(e)
        BY <1>8, <2>2
      <3> QED  BY <1>9, <3>1
    <2> QED  BY <2>1, <2>2, <1>8
  <1>11. \A i \in 1..Len(publications) : i = 1 /\ publications[i].channels = strings
    BY <1>3 DEF Requests
  <1> QED  BY <1>4, <1>7, <1>8, <1>10, <1>11 DEF strings

(* update() publishes last, on channels it wants: by then the server has   *)
(* them.                                                                   *)
LEMMA UpdateKeepsOwn ==
    ASSUME IInv, IInv', Own, AllFit, NEW v \in Positions, NEW due \in SUBSET Levels, Update(v, due)
    PROVE  OwnMessagesComeBack'
  <1>1. \A l \in Levels : string'[l] # NoName => string'[l] \in Wanted'
    <2>1. (IInv /\ AllFit => \A l \in Levels : string[l] # NoName => string[l] \in Wanted)'
      BY OwnChannels, PTL
    <2> QED  BY <2>1 DEF AllFit
  <1>2. \A c \in {string'[l] : l \in due} : c \in Wanted'
    BY <1>1, UpdateKeepsLevels
  <1>3. PICK asked \in Seq(Messages), publications \in Seq(Messages) :
              /\ link \o asked \in Seq(Messages)
              /\ link' = (link \o asked) \o publications
              /\ \A i \in 1..Len(asked) : asked[i].op # "publish"
              /\ \A c : After(link \o asked, subscribed', Len(link \o asked), c) <=> c \in Wanted'
              /\ \A i \in 1..Len(publications) :
                    i = 1 /\ publications[i].channels = {string'[l] : l \in due}
    BY PublishesLast
  <1>4. PICK before \in Seq(Messages) : before = link \o asked
    BY <1>3
  <1>5. link \in Seq(Messages) /\ subscribed' = subscribed /\ link' = link \o (asked \o publications)
        /\ asked \o publications \in Seq(Messages)
    <2>1. link \in Seq(Messages) /\ subscribed' = subscribed
      BY DEF IInv, Quiet, Update
    <2>2. (link \o asked) \o publications = link \o (asked \o publications)
      BY <2>1
    <2>3. asked \o publications \in Seq(Messages)
      OBVIOUS
    <2> QED  BY <1>3, <2>1, <2>2, <2>3
  <1>6. ASSUME NEW i \in 1..Len(link'), link'[i].op = "publish", NEW c \in link'[i].channels
        PROVE  After(link', subscribed', i - 1, c)
    <2>0. Len(link) \in Nat /\ Len(asked) \in Nat /\ Len(before) = Len(link) + Len(asked)
          /\ Len(link') = Len(before) + Len(publications) /\ i \in Nat
      BY <1>3, <1>4, <1>5
    <2>1. CASE i <= Len(link)
      <3>1. i \in DOMAIN link /\ link[i] = link'[i] /\ i - 1 \in 0..Len(link)
        BY <1>5, <2>0, <2>1
      <3>2. After(link, subscribed, i - 1, c)
        BY <1>6, <3>1, SubscribedAfterIsAfter DEF Own, OwnMessagesComeBack
      <3> QED  BY <1>5, <3>1, <3>2, AfterEarlier
    <2>2. CASE i > Len(link) /\ i <= Len(before)
      <3>1. i - Len(link) \in 1..Len(asked) /\ before[i] = asked[i - Len(link)] /\ link'[i] = before[i]
        BY <1>3, <1>4, <1>5, <2>0, <2>2
      <3> QED  BY <1>3, <1>6, <3>1
    <2>3. CASE i > Len(before)
      <3>1. i - Len(before) \in 1..Len(publications) /\ link'[i] = publications[i - Len(before)]
        BY <1>3, <1>4, <2>0, <2>3
      <3>2. i - Len(before) = 1 /\ c \in {string'[l] : l \in due}
        BY <1>3, <1>6, <3>1
      <3>3. i - 1 = Len(before) /\ Len(before) \in 0..Len(before)
        BY <2>0, <3>2
      <3>4. After(before, subscribed', Len(before), c)
        BY <1>2, <1>3, <1>4, <3>2
      <3>5. After(before \o publications, subscribed', Len(before), c)
        BY <3>3, <3>4, AfterEarlier
      <3> QED  BY <1>3, <1>4, <3>3, <3>5
    <2> QED  BY <2>0, <2>1, <2>2, <2>3
  <1>7. DOMAIN link' = 1..Len(link')
    BY <1>3
  <1> QED  BY <1>6, <1>7 DEF OwnMessagesComeBack, SubscribedAfter, After, About

(* What the server has handled before a publication is the same messages.  *)
LEMMA HandleKeepsOwn ==
    ASSUME IInv, Own, AllFit, Handle
    PROVE  OwnMessagesComeBack'
  <1>1. PICK ch \in Names : Handled(link, subscribed, link', subscribed', ch)
    BY HandleFacts
  <1>2. link \in Seq(Messages) /\ link # << >> /\ DOMAIN link = 1..Len(link)
    BY HandleFacts DEF IInv, Quiet
  <1>3. \A i \in 1..Len(link) : link[i].op = "publish" =>
            \A c \in link[i].channels : After(link, subscribed, i - 1, c)
    BY <1>2, SubscribedAfterIsAfter DEF Own, OwnMessagesComeBack
  <1>4. PICK r, s, q, t : r \in Seq(Messages) /\ r = link /\ s = subscribed /\ q = link' /\ t = subscribed'
    BY <1>2
  <1>5. /\ r \in Seq(Messages) /\ r # << >> /\ Handled(r, s, q, t, ch)
        /\ Len(r) \in Nat /\ Len(r) >= 1
        /\ \A i \in 1..Len(r) : r[i].op = "publish" => \A c \in r[i].channels : After(r, s, i - 1, c)
    BY <1>1, <1>2, <1>3, <1>4
  <1>6. /\ q \in Seq(Messages)
        /\ \A i \in 1..Len(q) : q[i].op = "publish" => \A c \in q[i].channels : After(q, t, i - 1, c)
    <2>1. CASE r[1].channels = {ch}
      <3>1. /\ q \in Seq(Messages) /\ Len(r) = Len(q) + 1
            /\ \A i \in 1..Len(q) : q[i] = r[i + 1]
        BY <1>5, <2>1, TailLink
      <3>2. ASSUME NEW i \in 1..Len(q), q[i].op = "publish", NEW c \in q[i].channels
            PROVE  After(q, t, i - 1, c)
        <4>1. i + 1 \in 1..Len(r) /\ (i + 1) - 1 = i /\ i - 1 \in 0..Len(q) /\ (i - 1) + 1 = i /\ q[i] = r[i + 1]
          BY <3>1
        <4>2. After(r, s, i, c)
          <5>1. After(r, s, (i + 1) - 1, c)
            BY <1>5, <3>2, <4>1
          <5> QED  BY <4>1, <5>1
        <4>3. After(q, t, i - 1, c) <=> After(r, s, (i - 1) + 1, c)
          BY <1>5, <2>1, <4>1, TailAfter
        <4> QED  BY <4>1, <4>2, <4>3
      <3> QED  BY <3>1, <3>2
    <2>2. CASE r[1].channels # {ch}
      <3>1. /\ q \in Seq(Messages) /\ Len(q) = Len(r)
            /\ q[1].op = r[1].op /\ q[1].channels = r[1].channels \ {ch}
            /\ \A i \in 2..Len(r) : q[i] = r[i]
        BY <1>5, <2>2, ShrunkLink
      <3>2. ASSUME NEW i \in 1..Len(q), q[i].op = "publish", NEW c \in q[i].channels
            PROVE  After(q, t, i - 1, c)
        <4>1. r[i].op = "publish" /\ c \in r[i].channels /\ i \in 1..Len(r)
          BY <3>1, <3>2
        <4>2. After(r, s, i - 1, c)
          BY <1>5, <4>1
        <4>3. CASE i = 1
          <5>1. t = s
            BY <1>5, <4>1, <4>3 DEF Handled
          <5> QED  BY <4>2, <4>3, <5>1, AfterNone
        <4>4. CASE i # 1
          <5>1. i - 1 \in 1..Len(r)
            BY <4>1, <4>4
          <5>2. After(q, t, i - 1, c) <=> After(r, s, i - 1, c)
            BY <1>5, <2>2, <5>1, ShrunkAfter
          <5> QED  BY <4>2, <5>2
        <4> QED  BY <4>3, <4>4
      <3> QED  BY <3>1, <3>2
    <2> QED  BY <2>1, <2>2
  <1>7. /\ DOMAIN link' = 1..Len(link')
        /\ \A i \in 1..Len(link') : link'[i].op = "publish" =>
              \A c \in link'[i].channels : After(link', subscribed', i - 1, c)
    BY <1>4, <1>6
  <1> QED  BY <1>7 DEF OwnMessagesComeBack, SubscribedAfter, After, About

(* Where no coordinate is too large for the integers of the program, the   *)
(* tracker is subscribed to every channel it publishes on by the time the  *)
(* server publishes.  A name that has wrapped may be of another cube: then *)
(* it is not so.                                                           *)
THEOREM OwnMessagesAreHeard ==
    ASSUME \A v \in Positions : Fits(v, MinLevel)
    PROVE  Spec => []OwnMessagesComeBack
  <1>0. AllFit
    BY DEF AllFit
  <1>1. Init => OwnMessagesComeBack
    BY DEF Init, OwnMessagesComeBack
  <1>2. IInv /\ IInv' /\ OwnMessagesComeBack /\ [Next]_vars => OwnMessagesComeBack'
    <2> SUFFICES ASSUME IInv, IInv', OwnMessagesComeBack, [Next]_vars PROVE OwnMessagesComeBack'
      OBVIOUS
    <2>1. CASE OnOpen \/ UNCHANGED vars \/ \E v \in Positions : UpdateNotOpen(v)
      BY <2>1 DEF OnOpen, UpdateNotOpen, vars, OwnMessagesComeBack, SubscribedAfter
    <2>2. CASE OnClose
      BY <2>2 DEF OnClose, OwnMessagesComeBack
    <2>3. CASE Handle
      BY <1>0, <2>3, HandleKeepsOwn DEF Own
    <2>4. CASE \E v \in Positions : \E due \in SUBSET Levels : Update(v, due)
      BY <1>0, <2>4, UpdateKeepsOwn DEF Own
    <2> QED  BY <2>1, <2>2, <2>3, <2>4 DEF Next
  <1> QED  BY <1>1, <1>2, Invariance, PTL DEF Spec

-------------------------------------------------------------------------------
(* Rounding keeps the order.                                               *)
LEMMA TruncatedGrows ==
    ASSUME NEW b \in Nat, NEW m \in Int, NEW n \in Int, m <= n
    PROVE  Truncated(m, b) <= Truncated(n, b)
  <1>1. PICK p \in Nat : p = TwoTo[b] /\ p > 0
    BY TwoToFacts
  <1>2. ASSUME NEW i \in Nat, NEW j \in Nat, i <= j PROVE i \div p <= j \div p /\ i \div p \in Nat
    <2>0. PICK x \in Int : x = i \div p /\ p * x <= i /\ i < p * x + p
      BY <1>1
    <2>1. PICK y \in Int : y = j \div p /\ p * y <= j /\ j < p * y + p
      BY <1>1
    <2>2. x <= y
      <3> SUFFICES ASSUME y + 1 <= x PROVE FALSE
        BY <2>0, <2>1
      <3>1. p * (y + 1) <= p * x /\ p * (y + 1) = p * y + p
        BY <1>1
      <3> QED  BY <1>2, <2>0, <2>1, <3>1
    <2>3. x >= 0
      <3> SUFFICES ASSUME x <= -1 PROVE FALSE
        BY <2>0
      <3>1. p * x <= p * (-1) /\ p * (-1) = -p
        BY <1>1
      <3> QED  BY <1>1, <2>0, <3>1
    <2> QED  BY <2>0, <2>1, <2>2, <2>3
  <1>3. CASE m >= 0
    BY <1>1, <1>2, <1>3 DEF Truncated
  <1>4. CASE n < 0
    <2>1. -n \in Nat /\ -m \in Nat /\ -n <= -m
      BY <1>4
    <2>2. (-n) \div p <= (-m) \div p /\ (-n) \div p \in Nat /\ (-m) \div p \in Nat
      BY <1>2, <2>1
    <2> QED  BY <1>1, <1>4, <2>1, <2>2 DEF Truncated
  <1>5. CASE m < 0 /\ n >= 0
    <2>1. Truncated(m, b) <= 0 /\ Truncated(n, b) >= 0 /\ Truncated(m, b) \in Int /\ Truncated(n, b) \in Int
      BY <1>5, TruncatedFacts
    <2> QED  BY <2>1
  <1> QED  BY <1>3, <1>4, <1>5

(* Less than a cube away is the next cube at most.                         *)
LEMMA TruncatedStep ==
    ASSUME NEW b \in Nat, NEW m \in Int, NEW n \in Int, m <= n, n < m + TwoTo[b]
    PROVE  Truncated(n, b) <= Truncated(m, b) + 1
  <1>1. PICK p \in Nat : p = TwoTo[b] /\ p > 0
    BY TwoToFacts
  <1>2. PICK x \in Int, y \in Int : x = Truncated(m, b) /\ y = Truncated(n, b)
    BY TruncatedFacts
  <1>3. (n >= 0 => p * y <= n /\ y >= 0) /\ (n <= 0 => n > p * y - p)
    <2>1. p * Size(y) <= Size(n) /\ Size(n) < p * Size(y) + p
          /\ (n >= 0 => y >= 0) /\ (n <= 0 => y <= 0)
      BY <1>1, <1>2, TruncatedFacts
    <2>2. p * (-y) = -(p * y)
      BY <1>1, <1>2
    <2> QED  BY <1>1, <1>2, <2>1, <2>2 DEF Size
  <1>4. (m >= 0 => m < p * x + p /\ x >= 0) /\ (m <= 0 => m <= p * x /\ x <= 0)
    <2>1. p * Size(x) <= Size(m) /\ Size(m) < p * Size(x) + p
          /\ (m >= 0 => x >= 0) /\ (m <= 0 => x <= 0)
      BY <1>1, <1>2, TruncatedFacts
    <2>2. p * (-x) = -(p * x)
      BY <1>1, <1>2
    <2>3. m >= 0 => m < p * x + p /\ x >= 0
      BY <1>1, <1>2, <2>1 DEF Size
    <2>4. ASSUME m <= 0 PROVE m <= p * x /\ x <= 0
      <3>1. Size(m) = -m /\ Size(x) = -x
        BY <1>2, <2>1, <2>4 DEF Size
      <3> QED  BY <1>1, <1>2, <2>1, <2>2, <2>4, <3>1
    <2> QED  BY <2>3, <2>4
  <1> SUFFICES ASSUME y >= x + 2 PROVE FALSE
    BY <1>2
  <1>5. PICK f \in Int, g \in Int : f = p * x /\ g = p * y /\ g >= f + 2 * p
    <2>1. p * (x + 2) <= p * y /\ p * (x + 2) = p * x + 2 * p
      BY <1>1, <1>2
    <2> QED  BY <1>1, <1>2, <2>1
  <1>6. CASE m >= 0 \/ n <= 0
    BY <1>1, <1>3, <1>4, <1>5, <1>6
  <1>7. CASE m < 0 /\ n > 0
    <2>1. f > -p /\ g < p
      BY <1>1, <1>3, <1>4, <1>5, <1>7
    <2> QED  BY <1>1, <1>5, <2>1
  <1> QED  BY <1>6, <1>7

(* Around every position, whoever is within three quarters of a cube is in *)
(* one of the cubes asked for.                                             *)
LEMMA NothingInBetween ==
    ASSUME NEW b \in Nat, NEW v \in Vectors, NEW w \in Vectors,
           Near(w, v, (3 * TwoTo[b]) \div 4)
    PROVE  decompose(w, b) \in surroundingSpaceNames(v, b)
  <1>1. PICK length \in Nat : length = (3 * TwoTo[b]) \div 4 /\ length < TwoTo[b]
    BY TwoToFacts
  <1>2. ASSUME NEW a \in Axes
        PROVE  \E d \in {-length, 0, length} : Quotient(w[a], b) = Quotient(v[a] + d, b)
    <2>1. v[a] \in Int /\ w[a] \in Int /\ w[a] - v[a] \in (-length)..length
      BY <1>1 DEF Near, Vectors
    <2>2. PICK x \in Int, y \in Int, lower \in Int, upper \in Int :
              /\ x = Truncated(v[a], b) /\ y = Truncated(w[a], b)
              /\ lower = Truncated(v[a] + (-length), b) /\ upper = Truncated(v[a] + length, b)
      <3>1. v[a] + (-length) \in Int /\ v[a] + length \in Int
        BY <2>1
      <3> QED  BY <2>1, <3>1, TruncatedFacts
    <2>3. CASE w[a] >= v[a]
      <3>1. x <= y /\ y <= upper /\ upper <= x + 1
        <4>1. v[a] <= w[a] /\ w[a] <= v[a] + length /\ v[a] + length \in Int /\ v[a] <= v[a] + length
              /\ v[a] + length < v[a] + TwoTo[b]
          BY <1>1, <2>1, <2>3, TwoToFacts
        <4> QED  BY <2>1, <2>2, <4>1, TruncatedGrows, TruncatedStep
      <3>2. y = x \/ y = upper
        BY <3>1
      <3>3. v[a] + 0 = v[a]
        BY <2>1
      <3> QED  BY <2>2, <3>2, <3>3 DEF Quotient
    <2>4. CASE w[a] < v[a]
      <3>1. lower <= y /\ y <= x /\ x <= lower + 1
        <4>1. v[a] + (-length) <= w[a] /\ w[a] <= v[a] /\ v[a] + (-length) \in Int /\ v[a] + (-length) <= v[a]
              /\ v[a] < (v[a] + (-length)) + TwoTo[b]
          BY <1>1, <2>1, <2>4, TwoToFacts
        <4> QED  BY <2>1, <2>2, <4>1, TruncatedGrows, TruncatedStep
      <3>2. y = x \/ y = lower
        BY <3>1
      <3>3. v[a] + 0 = v[a]
        BY <2>1
      <3> QED  BY <2>2, <3>2, <3>3 DEF Quotient
    <2> QED  BY <2>1, <2>3, <2>4
  <1>3. PICK offset \in [Axes -> {-length, 0, length}] :
            \A a \in Axes : Quotient(w[a], b) = Quotient(v[a] + offset[a], b)
    <2> DEFINE offset == [a \in Axes |-> CHOOSE d \in {-length, 0, length} :
                                             Quotient(w[a], b) = Quotient(v[a] + d, b)]
    <2>1. \A a \in Axes : offset[a] \in {-length, 0, length} /\ Quotient(w[a], b) = Quotient(v[a] + offset[a], b)
      BY <1>2
    <2>2. offset \in [Axes -> {-length, 0, length}]
      BY <2>1
    <2> HIDE DEF offset
    <2> QED  BY <2>1, <2>2
  <1>4. \A a \in Axes : Quotient(w[a], b) = Quotient(Add(v, offset)[a], b)
    <2>1. \A a \in Axes : Add(v, offset)[a] = v[a] + offset[a]
      BY DEF Add
    <2> QED  BY <1>3, <2>1
  <1>5. decompose(w, b) = decompose(Add(v, offset), b)
    BY <1>4, SameName
  <1> QED  BY <1>1, <1>5 DEF surroundingSpaceNames

(* A settled tracker has at the server what it wants there.                *)
LEMMA SettledHasAll ==
    ASSUME IInv, Settled
    PROVE  /\ subscribed = Wanted
           /\ \A l \in Levels : /\ enteredAt[l] \in Vectors
                                /\ subscribeSpaces[l] = surroundingSpaceNames(enteredAt[l], l)
  <1>1. \A c : c \in subscribed <=> c \in Wanted
    <2>1. link = << >> /\ Len(link) = 0
      BY DEF Settled
    <2>2. \A c : After(link, subscribed, 0, c) <=> c \in Wanted
      BY <2>1, SubscribedAfterIsAfter DEF IInv, Follows, Settled
    <2> QED  BY <2>2, AfterNone
  <1>2. \A l \in Levels : enteredAt[l] \in Vectors
    BY PositionAssumption DEF IInv, TypeOK
  <1>3. \A l \in Levels : subscribeSpaces[l] = surroundingSpaceNames(enteredAt[l], l)
    BY DEF IInv, Computed, Settled
  <1> QED  BY <1>1, <1>2, <1>3

(* A settled tracker hears everybody within three quarters of a cube from  *)
(* where it entered its cube, wrapped coordinates or not (update,          *)
(* surroundingSpaceNames).                                                 *)
THEOREM NeighboursAreHeard == Spec => []NeighboursOfEntryAreHeard
  <1>1. IInv => NeighboursOfEntryAreHeard
    <2> SUFFICES ASSUME IInv, Settled, NEW w \in Positions,
                        Near(w, enteredAt[MinLevel], (3 * TwoTo[MinLevel]) \div 4)
                 PROVE  ChannelString(w, MinLevel) \in subscribed
      BY DEF NeighboursOfEntryAreHeard
    <2>1. MinLevel \in Levels /\ MinLevel \in Nat /\ w \in Vectors
      BY LevelFacts, LevelAssumption, PositionAssumption
    <2>2. ChannelString(w, MinLevel) = decompose(w, MinLevel)
      BY <2>1, ChannelStringFacts
    <2>3. decompose(w, MinLevel) \in surroundingSpaceNames(enteredAt[MinLevel], MinLevel)
      BY <2>1, SettledHasAll, NothingInBetween
    <2> QED  BY <2>1, <2>2, <2>3, SettledHasAll DEF Wanted
  <1> QED  BY <1>1, Invariance, PTL

-------------------------------------------------------------------------------
(* Within a third of a cube of level l from the origin a name has ended    *)
(* before the round of l.                                                  *)
LEMMA CentralNamesAreShort ==
    ASSUME NEW w \in Vectors, NEW l \in Levels \ {MinLevel},
           \A a \in Axes : 3 * w[a] \in (1 - TwoTo[l])..(TwoTo[l] - 1)
    PROVE  Index(l) >= Len(decompose(w, MinLevel))
  <1>0. MinLevel \in Nat /\ MaxRounds \in Nat /\ 2 * MaxRounds <= Bits + 2
    BY LevelAssumption, BitsAssumption DEF MaxRounds
  <1>1. PICK i \in Nat : i = Index(l) /\ i >= 1 /\ l = MinLevel + 2 * i /\ 2 * i \in Nat
    <2>1. Index(l) \in Nat /\ Index(l) >= 1 /\ l = MinLevel + 2 * Index(l)
      BY LevelFacts
    <2> QED  BY <2>1
  <1>2. PICK m \in 1..MaxRounds : /\ Len(decompose(w, MinLevel)) = m
                                  /\ \A k \in 1..(m - 1) : ~Done(w, MinLevel, k)
    BY <1>0, NameFacts
  <1>3. CASE i >= MaxRounds
    BY <1>0, <1>1, <1>2, <1>3
  <1>4. CASE i < MaxRounds
    <2>1. PICK p \in Nat, y \in Nat, h \in Nat :
              /\ p = TwoTo[MinLevel] /\ p > 0 /\ y = TwoTo[2 * i] /\ y > 0 /\ TwoTo[l] = p * y
              /\ h = Half /\ h >= 8 /\ y <= 2 * h
      <3>1. 2 * i <= Bits /\ Bits \in Nat /\ Bits - 1 \in Nat /\ (Bits - 1) + 1 = Bits
        BY <1>0, <1>1, <1>4, BitsAssumption
      <3>2. TwoTo[2 * i] <= TwoTo[Bits] /\ TwoTo[Bits] = 2 * Half
        BY <1>1, <3>1, TwoToGrows, TwoToFacts DEF Half
      <3>3. TwoTo[l] = TwoTo[MinLevel] * TwoTo[2 * i]
        BY <1>0, <1>1, TwoToSum
      <3>4. TwoTo[MinLevel] \in Nat /\ TwoTo[MinLevel] > 0 /\ TwoTo[2 * i] \in Nat /\ TwoTo[2 * i] > 0
        BY <1>0, <1>1, TwoToFacts
      <3>5. Half \in Nat /\ Half >= 8
        BY HalfFacts
      <3>6. TwoTo[2 * i] <= 2 * Half
        BY <3>2
      <3> QED  BY <3>3, <3>4, <3>5, <3>6
    <2>2. ASSUME NEW a \in Axes PROVE Left(Quotient(w[a], MinLevel))[i] = 0
      <3>1. w[a] \in Int /\ 3 * w[a] \in (1 - p * y)..(p * y - 1)
        BY <2>1 DEF Vectors
      <3>2. PICK t \in Int, s \in Nat : t = Truncated(w[a], MinLevel) /\ s = Size(t)
        <4>1. Truncated(w[a], MinLevel) \in Int
          BY <1>0, <3>1, TruncatedFacts
        <4>2. Size(Truncated(w[a], MinLevel)) \in Nat
          BY <4>1 DEF Size
        <4> QED  BY <4>1, <4>2
      <3>3. p * s <= Size(w[a])
        BY <1>0, <2>1, <3>1, <3>2, TruncatedFacts
      <3>4. 3 * Size(w[a]) <= p * y - 1 /\ Size(w[a]) \in Nat
        <4>1. PICK z \in Nat : z = p * y
          BY <2>1
        <4> QED  BY <3>1, <4>1 DEF Size
      <3>5. 3 * s < y
        <4> SUFFICES ASSUME 3 * s >= y PROVE FALSE
          BY <2>1, <3>2
        <4>1. p * (3 * s) >= p * y /\ p * (3 * s) = 3 * (p * s)
          BY <2>1, <3>2
        <4>2. PICK u \in Nat, z \in Nat : u = p * s /\ z = p * y
          BY <2>1
        <4> QED  BY <3>3, <3>4, <4>1, <4>2
      <3>6. t \in Ints
        BY <2>1, <3>2, <3>5 DEF Size, Ints
      <3>7. Quotient(w[a], MinLevel) = t
        BY <1>0, <3>1, <3>2, <3>6, QuotientFacts
      <3>8. PICK n \in Int, e \in Nat : n = Left(t)[i] /\ e = Size(n)
        <4>1. i \in 0..MaxRounds
          BY <1>0, <1>1, <1>4
        <4>2. Left(t)[i] \in Int
          <5>1. Left(t)[i] \in Ints
            BY <3>6, <4>1, LeftFacts
          <5>2. Ints \subseteq Int
            BY HalfFacts DEF Ints
          <5> QED  BY <5>1, <5>2
        <4>3. Size(Left(t)[i]) \in Nat
          BY <4>2 DEF Size
        <4> QED  BY <4>2, <4>3
      <3>9. 3 * (y * e) <= 3 * s + 2 * y - 2
        <4>1. i \in 0..MaxRounds
          BY <1>0, <1>1, <1>4
        <4> QED  BY <2>1, <3>2, <3>6, <3>8, <4>1, LeftBounds
      <3>10. e = 0
        <4> SUFFICES ASSUME e >= 1 PROVE FALSE
          BY <3>8
        <4>1. y * e >= y
          BY <2>1, <3>8
        <4>2. PICK z \in Nat : z = y * e
          BY <2>1, <3>8
        <4> QED  BY <2>1, <3>2, <3>5, <3>9, <4>1, <4>2
      <3> QED  BY <3>7, <3>8, <3>10 DEF Size
    <2>3. Done(w, MinLevel, i)
      BY <2>2 DEF Done
    <2> QED  BY <1>0, <1>1, <1>2, <2>3
  <1> QED  BY <1>3, <1>4, <1>0, <1>1

(* At every larger level, who is less than a third of a cube from the      *)
(* origin is heard by a settled tracker in the cubes that meet there       *)
(* (decompose, update).                                                    *)
THEOREM TheCentreIsHeard == Spec => []CentreIsHeard
  <1>1. IInv => CentreIsHeard
    <2> SUFFICES ASSUME IInv, Settled, NEW l \in Levels \ {MinLevel},
                        \A a \in Axes : enteredAt[l][a] \in (1 - TwoTo[l])..(TwoTo[l] - 1),
                        NEW w \in Positions,
                        \A a \in Axes : 3 * w[a] \in (1 - TwoTo[l])..(TwoTo[l] - 1)
                 PROVE  ChannelString(w, l) \in subscribed
      BY DEF CentreIsHeard
    <2>1. w \in Vectors /\ l \in Nat /\ enteredAt[l] \in Vectors
      BY LevelFacts, PositionAssumption, SettledHasAll
    <2>2. Index(l) >= Len(decompose(w, MinLevel))
      BY <2>1, CentralNamesAreShort
    <2>3. ChannelString(w, l) = << [at |-> Origin, p |-> l] >>
      <3>1. MinLevel \in Nat
        BY LevelAssumption
      <3>2. Len(decompose(w, MinLevel)) \in Nat
        BY <2>1, <3>1, NameFacts
      <3>3. Index(l) \in Nat
        BY LevelFacts
      <3> QED  BY <2>2, <3>2, <3>3 DEF ChannelString
    <2>4. ASSUME NEW a \in Axes PROVE Truncated(enteredAt[l][a], l) = 0
      <3>1. PICK e \in Int, p \in Nat, t \in Int :
                e = enteredAt[l][a] /\ p = TwoTo[l] /\ t = Truncated(e, l)
        BY <2>1, TwoToFacts, TruncatedFacts DEF Vectors
      <3>2. p * Size(t) <= Size(e) /\ Size(e) < p /\ Size(t) \in Nat
        <4>1. p * Size(t) <= Size(e)
          BY <2>1, <3>1, TruncatedFacts
        <4>2. e \in (1 - p)..(p - 1)
          BY <3>1
        <4> QED  BY <3>1, <4>1, <4>2 DEF Size
      <3>3. Size(t) = 0
        <4> SUFFICES ASSUME Size(t) >= 1 PROVE FALSE
          BY <3>2
        <4>1. p * Size(t) >= p
          BY <3>1, <3>2
        <4> QED  BY <3>1, <3>2, <4>1 DEF Size
      <3> QED  BY <3>1, <3>3 DEF Size
    <2>5. decompose(enteredAt[l], l) = ChannelString(w, l)
      BY <2>1, <2>3, <2>4, NameAtOrigin
    <2> QED  BY <2>1, <2>5, SettledHasAll, SurroundingFacts DEF Wanted
  <1> QED  BY <1>1, Invariance, PTL

-------------------------------------------------------------------------------
(* The sum of reconstitute, by its recursion                               *)
Sums(f, name, a) == /\ f \in [0..Len(name) -> Int] /\ f[0] = 0
                    /\ \A n \in 0..(Len(name) - 1) : f[n + 1] = f[n] + getMinCorner(name[n + 1])[a]

(* What reconstitute adds up, on one axis                                  *)
LEMMA ReconstituteFacts ==
    ASSUME NEW name \in Seq(Cubes), NEW a \in Axes
    PROVE  \E f : Sums(f, name, a) /\ reconstitute(name)[a] = f[Len(name)]
  <1> DEFINE corner(n) == getMinCorner(name[n])[a]
             step == [p \in Nat \X Int |-> p[2] + IF p[1] \in 1..Len(name) THEN corner(p[1]) ELSE 0]
             Is(f) == f = [n \in 0..Len(name) |-> IF n = 0 THEN 0 ELSE f[n - 1] + corner(n)]
  <1>0. Len(name) \in Nat
    OBVIOUS
  <1>1. \A n \in 1..Len(name) : corner(n) \in Int
    <2> SUFFICES ASSUME NEW n \in 1..Len(name) PROVE corner(n) \in Int
      OBVIOUS
    <2>1. PICK c \in Cubes : c = name[n]
      OBVIOUS
    <2>2. PICK d \in Int, x \in Nat : d = c.at[a] /\ x = TwoTo[c.p]
      <3>1. c.at[a] \in Digits /\ c.p \in Nat
        BY <2>1 DEF Cubes
      <3>2. Digits \subseteq Int
        BY DEF Digits
      <3>3. TwoTo[c.p] \in Nat
        BY <3>1, TwoToFacts
      <3> QED  BY <3>1, <3>2, <3>3
    <2> QED  BY <2>1, <2>2 DEF getMinCorner
  <1> HIDE DEF corner
  <1>2. step \in [Nat \X Int -> Int]
    BY <1>1
  <1>3. PICK f : Recurs(f, 0..Len(name), Int, 0, step)
    <2> HIDE DEF step
    <2>1. 0 \in Int
      OBVIOUS
    <2> QED  BY <1>0, <1>2, <2>1, RecursionUpTo
  <1>4. ASSUME NEW n \in 0..Len(name), n # 0 PROVE step[<<n, f[n - 1]>>] = f[n - 1] + corner(n)
    <2>1. n \in Nat /\ n - 1 \in 0..Len(name) /\ n \in 1..Len(name)
      BY <1>0, <1>4
    <2>2. f[n - 1] \in Int
      BY <1>3, <2>1 DEF Recurs
    <2> QED  BY <2>1, <2>2
  <1> HIDE DEF step
  <1>5. Is(f)
    <2>1. f = [n \in 0..Len(name) |-> f[n]]
      BY <1>3 DEF Recurs
    <2>2. \A n \in 0..Len(name) : f[n] = IF n = 0 THEN 0 ELSE f[n - 1] + corner(n)
      BY <1>3, <1>4 DEF Recurs
    <2> QED  BY <2>1, <2>2
  <1>6. PICK g : Is(g) /\ reconstitute(name)[a] = g[Len(name)]
    <2>1. reconstitute(name)[a] = (CHOOSE g : Is(g))[Len(name)]
      BY DEF reconstitute, corner
    <2> HIDE DEF Is
    <2> QED  BY <1>5, <2>1
  <1>7. g[0] = 0
    BY <1>0, <1>6
  <1>8. ASSUME NEW n \in 0..(Len(name) - 1) PROVE g[n + 1] = g[n] + corner(n + 1)
    <2>1. n + 1 \in 0..Len(name) /\ n + 1 # 0 /\ (n + 1) - 1 = n
      BY <1>0
    <2> QED  BY <1>6, <2>1
  <1>9. ASSUME NEW n \in Nat PROVE n <= Len(name) => g[n] \in Int
    <2> DEFINE Typed == {i \in Nat : i <= Len(name) => g[i] \in Int}
    <2>1. 0 \in Typed
      BY <1>7
    <2>2. ASSUME NEW i \in Nat, i \in Typed PROVE i + 1 \in Typed
      <3>1. SUFFICES ASSUME i + 1 <= Len(name) PROVE g[i + 1] \in Int
        OBVIOUS
      <3>2. i \in 0..(Len(name) - 1) /\ i + 1 \in 1..Len(name) /\ i <= Len(name)
        BY <1>0, <3>1
      <3> QED  BY <1>1, <1>8, <2>2, <3>2
    <2>3. Nat \subseteq Typed
      BY <2>1, <2>2, Induction
    <2> QED  BY <2>3
  <1>10. g \in [0..Len(name) -> Int]
    <2>1. g = [n \in 0..Len(name) |-> g[n]]
      BY <1>6
    <2> QED  BY <1>0, <1>9, <2>1
  <1> QED  BY <1>6, <1>7, <1>8, <1>10 DEF Sums, corner

(* A whole number of cubes from the origin, rounded towards it             *)
Corner(v, b) == [a \in Axes |-> TwoTo[b] * Truncated(v[a], b)]

(* While no coordinate has wrapped, the digits taken and what is left of   *)
(* it make up the coordinate.                                              *)
LEMMA NothingIsLost ==
    ASSUME NEW v \in Vectors, NEW b \in Nat, InRange(v, b)
    PROVE  reconstitute(decompose(v, b)) = Corner(v, b)
  <1>0. MaxRounds \in Nat
    BY BitsAssumption DEF MaxRounds
  <1>1. PICK name \in Seq(Cubes), m \in 1..MaxRounds :
            /\ name = decompose(v, b) /\ name = [k \in 1..m |-> CubeAt(v, b, k)]
            /\ Len(name) = m /\ Done(v, b, m)
    BY NameFacts
  <1>2. ASSUME NEW a \in Axes PROVE reconstitute(name)[a] = TwoTo[b] * Truncated(v[a], b)
    <2>1. PICK f : Sums(f, name, a) /\ reconstitute(name)[a] = f[m]
      BY <1>1, ReconstituteFacts
    <2>2. PICK q \in Ints : q = Truncated(v[a], b) /\ q = Quotient(v[a], b) /\ q \in -Half..(Half - 3)
      <3>1. v[a] \in Int /\ Truncated(v[a], b) \in -Half..(Half - 3)
        BY DEF InRange, Vectors
      <3>2. Truncated(v[a], b) \in Ints
        <4>1. PICK h \in Nat : h = Half
          BY HalfFacts
        <4> QED  BY <3>1, <4>1 DEF Ints
      <3> QED  BY <3>1, <3>2, QuotientFacts
    <2>3. ASSUME NEW k \in 0..MaxRounds PROVE Left(q)[k] \in -Half..(Half - 3)
      <3>1. CASE k = 0
        BY <2>2, <3>1, LeftFacts
      <3>2. CASE k # 0
        <4>1. PICK i \in 0..(MaxRounds - 1) : k = i + 1
          <5>1. k - 1 \in 0..(MaxRounds - 1) /\ k = (k - 1) + 1
            BY <1>0, <3>2
          <5> QED  BY <5>1
        <4>2. PICK n \in Ints : n = Left(q)[i] /\ Left(q)[k] = Shift(n)
          <5>1. i \in 0..MaxRounds
            BY <1>0
          <5>2. Left(q)[i] \in Ints
            BY <2>2, <5>1, LeftFacts
          <5>3. Left(q)[i + 1] = Shift(Left(q)[i])
            BY <2>2, LeftFacts
          <5> QED  BY <4>1, <5>2, <5>3
        <4>3. PICK h \in Nat, t \in Int : h = Half /\ h >= 8 /\ t = Shift(n) /\ n \in (-h)..(h - 1)
              /\ t \in (-h)..(h - 1)
          <5>1. Half \in Nat /\ Half >= 8 /\ Shift(n) \in Ints
            BY HalfFacts, ShiftFacts
          <5> QED  BY <5>1 DEF Ints
        <4>4. 4 * Size(t) <= Size(n) + 2
          BY <4>3, ShiftFacts
        <4>5. t \in (-h)..(h - 3)
          BY <4>3, <4>4 DEF Size
        <4> QED  BY <4>2, <4>3, <4>5
      <3> QED  BY <3>1, <3>2
    <2> DEFINE Whole(k) == f[k] + Left(q)[k] * TwoTo[b + 2 * k] = q * TwoTo[b]
               Kept == {k \in Nat : k <= m => Whole(k)}
    <2>4. 0 \in Kept
      <3>1. PICK x \in Nat : x = TwoTo[b]
        BY TwoToFacts
      <3>2. f[0] = 0 /\ Left(q)[0] = q /\ b + 2 * 0 = b
        BY <2>1, LeftFacts DEF Sums
      <3>3. q \in Int
        BY HalfFacts DEF Ints
      <3>4. 0 + q * x = q * x
        BY <3>3
      <3> QED  BY <3>1, <3>2, <3>4
    <2>5. ASSUME NEW k \in Nat, k \in Kept PROVE k + 1 \in Kept
      <3> SUFFICES ASSUME k + 1 <= m PROVE Whole(k + 1)
        OBVIOUS
      <3>1. m \in Nat /\ k \in 0..(m - 1) /\ k \in 0..(MaxRounds - 1) /\ k \in 0..MaxRounds
            /\ k + 1 \in 1..m /\ k <= m /\ (k + 1) - 1 = k /\ k \in 0..m /\ k + 1 \in 0..m
        BY <1>0
      <3>2. PICK n \in Ints : n = Left(q)[k] /\ Left(q)[k + 1] = Shift(n)
        <4>1. Left(q)[k] \in Ints
          BY <2>2, <3>1, LeftFacts
        <4>2. Left(q)[k + 1] = Shift(Left(q)[k])
          BY <2>2, <3>1, LeftFacts
        <4> QED  BY <4>1, <4>2
      <3>3. PICK d \in Int, t \in Int, x \in Nat :
                /\ d = Digit(n) /\ t = Shift(n) /\ x = TwoTo[b + 2 * k] /\ n \in Int
        <4>1. Ints \subseteq Int
          BY HalfFacts DEF Ints
        <4>2. n \in Int /\ Shift(n) \in Int
          BY <4>1, ShiftFacts
        <4>3. Digit(n) \in Int
          <5>1. Digit(n) \in Digits
            BY <4>2, DigitFacts
          <5> QED  BY <5>1 DEF Digits
        <4>4. b + 2 * k \in Nat
          OBVIOUS
        <4> QED  BY <4>2, <4>3, <4>4, TwoToFacts
      <3>4. n = 4 * t + d
        <4>1. n \in -Half..(Half - 3)
          BY <2>3, <3>1, <3>2
        <4> QED  BY <3>3, <4>1, ShiftFacts
      <3>5. TwoTo[b + 2 * (k + 1)] = 4 * x
        <4>1. b + 2 * (k + 1) = (b + 2 * k) + 2 /\ b + 2 * k \in Nat
          OBVIOUS
        <4> QED  BY <3>3, <4>1, TwoToFacts
      <3>6. getMinCorner(name[k + 1])[a] = d * x
        <4>1. name[k + 1] = CubeAt(v, b, k + 1)
          BY <1>1, <3>1
        <4>2. CubeAt(v, b, k + 1).at[a] = Digit(Left(Quotient(v[a], b))[(k + 1) - 1])
              /\ CubeAt(v, b, k + 1).p = b + 2 * ((k + 1) - 1)
          BY DEF CubeAt
        <4>3. CubeAt(v, b, k + 1).at[a] = d /\ CubeAt(v, b, k + 1).p = b + 2 * k
          BY <2>2, <3>1, <3>2, <3>3, <4>2
        <4> QED  BY <3>3, <4>1, <4>3 DEF getMinCorner
      <3>7. PICK s \in Int : s = f[k] /\ f[k + 1] = s + d * x
        <4>1. f[k] \in Int /\ f[k + 1] = f[k] + getMinCorner(name[k + 1])[a]
          BY <1>1, <2>1, <3>1 DEF Sums
        <4> QED  BY <3>6, <4>1
      <3>8. s + n * x = q * TwoTo[b]
        BY <2>5, <3>1, <3>2, <3>3, <3>7
      <3>9. (s + d * x) + t * (4 * x) = s + n * x
        <4>1. (4 * t + d) * x = 4 * (t * x) + d * x /\ t * (4 * x) = 4 * (t * x)
          BY <3>3
        <4>2. PICK g \in Int, h \in Int : g = t * x /\ h = d * x
          BY <3>3
        <4> QED  BY <3>4, <3>7, <4>1, <4>2
      <3> QED  BY <3>2, <3>3, <3>5, <3>7, <3>8, <3>9
    <2>6. Nat \subseteq Kept
      <3> HIDE DEF Kept
      <3> QED  BY <2>4, <2>5, Induction
    <2>7. Whole(m)
      BY <1>0, <2>6
    <2>8. Left(q)[m] = 0
      BY <1>1, <2>2 DEF Done
    <2>9. PICK s \in Int, x \in Nat, y \in Nat : s = f[m] /\ x = TwoTo[b + 2 * m] /\ y = TwoTo[b]
      <3>1. m \in 0..Len(name) /\ b + 2 * m \in Nat
        BY <1>0, <1>1
      <3> QED  BY <2>1, <3>1, TwoToFacts DEF Sums
    <2>10. s + 0 * x = q * y
      BY <2>7, <2>8, <2>9
    <2>11. q \in Int
      BY HalfFacts DEF Ints
    <2>12. s = y * q
      BY <2>9, <2>10, <2>11
    <2> QED  BY <2>1, <2>2, <2>9, <2>12
  <1>3. reconstitute(name) = [a \in Axes |-> reconstitute(name)[a]]
    BY DEF reconstitute
  <1> QED  BY <1>1, <1>2, <1>3 DEF Corner

(* The point that a name adds up to is less than a cube from the position. *)
LEMMA CornerIsNear ==
    ASSUME NEW v \in Vectors, NEW b \in Nat
    PROVE  Near(v, Corner(v, b), TwoTo[b] - 1)
  <1> SUFFICES ASSUME NEW a \in Axes
               PROVE  v[a] - Corner(v, b)[a] \in -(TwoTo[b] - 1)..(TwoTo[b] - 1)
    BY DEF Near
  <1>1. PICK n \in Int, q \in Int, p \in Nat :
            n = v[a] /\ q = Truncated(v[a], b) /\ p = TwoTo[b]
    <2>1. v[a] \in Int
      BY DEF Vectors
    <2> QED  BY <2>1, TwoToFacts, TruncatedFacts
  <1>2. p * Size(q) <= Size(n) /\ Size(n) < p * Size(q) + p
        /\ (n >= 0 => q >= 0) /\ (n <= 0 => q <= 0)
    BY <1>1, TruncatedFacts
  <1>3. Corner(v, b)[a] = p * q
    BY <1>1 DEF Corner
  <1>4. PICK c \in Int : c = p * q
    BY <1>1
  <1>5. CASE n >= 0
    <2>1. c <= n /\ n < c + p
      BY <1>1, <1>2, <1>4, <1>5 DEF Size
    <2> QED  BY <1>1, <1>3, <1>4, <2>1
  <1>6. CASE n < 0
    <2>1. p * (-q) = -c
      BY <1>1, <1>4
    <2>2. -c <= -n /\ -n < -c + p
      <3>1. q <= 0 /\ Size(q) = -q /\ Size(n) = -n
        BY <1>1, <1>2, <1>6 DEF Size
      <3> QED  BY <1>2, <2>1, <3>1
    <2> QED  BY <1>1, <1>3, <1>4, <2>2
  <1> QED  BY <1>1, <1>5, <1>6

(* The name of the smallest cube is that of where the avatar is now.       *)
NameIsCurrent == isOpen => string[MinLevel] \in {NoName, decompose(position, MinLevel)}

(* update() looks at the smallest level first, so no move escapes it.      *)
LEMMA NextNameIsCurrent == IInv /\ NameIsCurrent /\ [Next]_vars => NameIsCurrent'
  <1> SUFFICES ASSUME IInv, NameIsCurrent, [Next]_vars PROVE NameIsCurrent'
    OBVIOUS
  <1>1. CASE OnOpen
    BY <1>1, LevelFacts DEF OnOpen, IInv, Quiet, NameIsCurrent
  <1>2. CASE OnClose
    BY <1>2 DEF OnClose, NameIsCurrent
  <1>3. CASE Handle
    BY <1>3 DEF Handle, NameIsCurrent
  <1>4. ASSUME NEW v \in Positions, UpdateNotOpen(v) PROVE NameIsCurrent'
    BY <1>4 DEF UpdateNotOpen, NameIsCurrent
  <1>5. ASSUME NEW v \in Positions, NEW due \in SUBSET Levels, Update(v, due) PROVE NameIsCurrent'
    <2>1. /\ position' = v /\ isOpen' = isOpen
          /\ string' = [l \in Levels |-> IF l \in Moved(v) THEN ChannelString(v, l) ELSE string[l]]
      BY <1>5 DEF Update
    <2>2. ChannelString(v, MinLevel) = decompose(v, MinLevel)
      BY PositionAssumption, LevelFacts, ChannelStringFacts
    <2>3. CASE MinLevel \in Moved(v)
      BY <2>1, <2>2, <2>3, LevelFacts DEF NameIsCurrent
    <2>4. CASE MinLevel \notin Moved(v)
      <3>1. PICK k \in Levels : k <= MinLevel /\ string[k] = ChannelString(v, k)
        BY <2>4, LevelFacts DEF Moved
      <3>2. k = MinLevel
        BY <3>1, LevelFacts, LevelAssumption
      <3> QED  BY <2>1, <2>2, <2>4, <3>1, <3>2, LevelFacts DEF NameIsCurrent
    <2> QED  BY <2>3, <2>4
  <1>6. CASE UNCHANGED vars
    BY <1>6 DEF vars, NameIsCurrent
  <1> QED  BY <1>1, <1>2, <1>3, <1>4, <1>5, <1>6 DEF Next

(* For cubes of any size that the integers have room for: the channel of   *)
(* the smallest cube follows the avatar through every update, and its      *)
(* cubes add up to a point less than one such cube away from the avatar    *)
(* (update, decompose, getMinCorner, reconstitute).                        *)
THEOREM ItPublishesWhereItIs == Spec => []PublishesWhereItIs
  <1>1. Init => NameIsCurrent
    BY DEF Init, NameIsCurrent
  <1>2. IInv /\ NameIsCurrent => PublishesWhereItIs
    <2> SUFFICES ASSUME IInv, NameIsCurrent, isOpen, string[MinLevel] # NoName,
                        InRange(position, MinLevel)
                 PROVE  Near(position, reconstitute(string[MinLevel]), TwoTo[MinLevel] - 1)
      BY DEF PublishesWhereItIs
    <2>1. position \in Vectors /\ MinLevel \in Nat
      BY PositionAssumption, LevelAssumption DEF IInv, TypeOK
    <2>2. string[MinLevel] = decompose(position, MinLevel)
      BY DEF NameIsCurrent
    <2> QED  BY <2>1, <2>2, NothingIsLost, CornerIsNear
  <1> QED  BY <1>1, <1>2, NextNameIsCurrent, Invariance, PTL DEF Spec
===============================================================================
