---------------------------- MODULE NaturalFacts ----------------------------
(***************************************************************************)
(* Facts about numbers that several proofs of this repository's components *)
(* need: induction in a form that the provers can apply, and the           *)
(* remainder, for every modulus.                                           *)
(***************************************************************************)
EXTENDS Integers, WellFoundedInduction, TLAPS

\* Induction for a set of numbers: those for which a formula holds, say.
LEMMA SetInduction ==
  ASSUME NEW S, 0 \in S, \A n \in Nat : n \in S => n + 1 \in S
  PROVE  Nat \subseteq S
<1> SUFFICES ASSUME Nat \ S # {} PROVE FALSE
  OBVIOUS
<1> DEFINE R == OpToRel(<, Nat)
<1>1. IsWellFoundedOn(R, Nat)
  BY NatLessThanWellFounded
<1>2. \A m, n \in Nat : m < n => <<m, n>> \in R
  BY DEF OpToRel
<1> HIDE DEF R
<1>3. Nat \ S \subseteq Nat
  OBVIOUS
<1>4. PICK n \in Nat \ S : \A m \in Nat \ S : <<m, n>> \notin R
  BY <1>1, <1>3, WFMin, Zenon
<1>5. n \in Nat \ {0} /\ n - 1 \in Nat /\ n - 1 < n /\ (n - 1) + 1 = n
  OBVIOUS
<1>6. n - 1 \in Nat \ S
  BY <1>5
<1> QED
  BY <1>2, <1>4, <1>5, <1>6

-----------------------------------------------------------------------------
(* The remainder.                                                          *)

LEMMA ModRange ==
  ASSUME NEW a \in Int, NEW m \in Nat \ {0}
  PROVE  a % m \in 0 .. m - 1
OBVIOUS

LEMMA ModQuotient ==
  ASSUME NEW a \in Int, NEW m \in Nat \ {0}
  PROVE  \E q \in Int : a = m * q + (a % m)
<1>1. a = m * (a \div m) + (a % m) /\ a \div m \in Int
  OBVIOUS
<1> QED
  BY <1>1

\* The only multiple of m strictly between -m and m.
LEMMA MultipleZero ==
  ASSUME NEW m \in Nat \ {0}, NEW q \in Int, m * q < m, m * q > 0 - m
  PROVE  q = 0
<1>1. q < 1
  OBVIOUS
<1>2. q > -1
  OBVIOUS
<1> QED
  BY <1>1, <1>2

LEMMA ModUnique ==
  ASSUME NEW m \in Nat \ {0}, NEW q \in Int, NEW r \in 0 .. m - 1
  PROVE  (m * q + r) % m = r
<1> DEFINE a == m * q + r
<1>1. a \in Int /\ m * q \in Int
  OBVIOUS
<1>2. PICK p \in Int : a = m * p + (a % m)
  BY <1>1, ModQuotient
<1>3. a % m \in 0 .. m - 1
  BY <1>1, ModRange
<1>4. m * (q - p) = m * q - m * p
  OBVIOUS
<1>5. q - p = 0
  BY <1>1, <1>2, <1>3, <1>4, MultipleZero
<1> QED
  BY <1>1, <1>2, <1>4, <1>5

LEMMA ModSmall ==
  ASSUME NEW m \in Nat \ {0}, NEW a \in 0 .. m - 1
  PROVE  a % m = a
OBVIOUS

LEMMA ModShift ==
  ASSUME NEW a \in Int, NEW m \in Nat \ {0}, NEW q \in Int
  PROVE  (a + m * q) % m = a % m
<1>1. PICK p \in Int : a = m * p + (a % m)
  BY ModQuotient
<1>2. m * (p + q) = m * p + m * q /\ m * p \in Int /\ m * q \in Int /\ p + q \in Int
  OBVIOUS
<1>3. a % m \in 0 .. m - 1
  BY ModRange
<1>4. a + m * q = m * (p + q) + (a % m)
  BY <1>1, <1>2, <1>3
<1> QED
  BY <1>2, <1>3, <1>4, ModUnique

\* Two numbers less than m apart have different remainders.
LEMMA ModSame ==
  ASSUME NEW a \in Int, NEW b \in Int, NEW m \in Nat \ {0},
         a - b < m, b - a < m, a % m = b % m
  PROVE  a = b
<1>1. PICK p \in Int : a = m * p + (a % m)
  BY ModQuotient
<1>2. PICK q \in Int : b = m * q + (b % m)
  BY ModQuotient
<1>3. m * (p - q) = m * p - m * q /\ m * p \in Int /\ m * q \in Int
  OBVIOUS
<1>4. a % m \in 0 .. m - 1
  BY ModRange
<1>5. a - b = m * (p - q)
  BY <1>1, <1>2, <1>3, <1>4
<1>6. p - q = 0
  BY <1>5, MultipleZero
<1> QED
  BY <1>1, <1>2, <1>6

\* The distance of two remainders is that of the numbers.
LEMMA ModDistance ==
  ASSUME NEW a \in Int, NEW b \in Int, NEW m \in Nat \ {0}
  PROVE  ((a % m) - (b % m)) % m = (a - b) % m
<1> DEFINE r == a % m
           s == b % m
<1>1. r \in Int /\ s \in Int
  BY ModRange
<1>2. PICK p \in Int : a = m * p + r
  BY ModQuotient
<1>3. PICK q \in Int : b = m * q + s
  BY ModQuotient
<1> HIDE DEF r, s
<1>4. m * (q - p) = m * q - m * p /\ m * p \in Int /\ m * q \in Int /\ q - p \in Int
  OBVIOUS
<1>5. r - s = (a - b) + m * (q - p) /\ a - b \in Int
  BY <1>1, <1>2, <1>3, <1>4
<1>6. ((a - b) + m * (q - p)) % m = (a - b) % m
  BY <1>4, <1>5, ModShift
<1> QED
  BY <1>5, <1>6 DEF r, s

LEMMA ModAdd ==
  ASSUME NEW a \in Int, NEW b \in Int, NEW m \in Nat \ {0}
  PROVE  ((a % m) + b) % m = (a + b) % m
<1> DEFINE r == a % m
<1>1. r \in Int
  BY ModRange
<1>2. PICK p \in Int : a = m * p + r
  BY ModQuotient
<1> HIDE DEF r
<1>3. m * (0 - p) = 0 - m * p /\ m * p \in Int /\ 0 - p \in Int
  OBVIOUS
<1>4. r + b = (a + b) + m * (0 - p) /\ a + b \in Int
  BY <1>1, <1>2, <1>3
<1>5. ((a + b) + m * (0 - p)) % m = (a + b) % m
  BY <1>3, <1>4, ModShift
<1> QED
  BY <1>4, <1>5 DEF r

\* m consecutive numbers have all the remainders, and then they come back.
LEMMA ModNext ==
  ASSUME NEW a \in Int, NEW m \in Nat \ {0}
  PROVE  (a + m) % m = a % m
<1>1. 1 \in Int /\ m * 1 = m
  OBVIOUS
<1>2. (a + m * 1) % m = a % m
  BY <1>1, ModShift, Zenon
<1> QED
  BY <1>1, <1>2

LEMMA ModCovers ==
  ASSUME NEW n \in Int, NEW m \in Nat \ {0}, NEW r \in 0 .. m - 1
  PROVE  \E k \in n .. n + m - 1 : k % m = r
<1> DEFINE d == (r - n) % m
<1>1. r - n \in Int /\ (r - n) + n = r
  OBVIOUS
<1>2. d \in 0 .. m - 1
  BY <1>1, ModRange
<1>3. (d + n) % m = ((r - n) + n) % m
  BY <1>1, ModAdd
<1>4. r % m = r
  BY ModSmall
<1> HIDE DEF d
<1>5. d + n \in n .. n + m - 1
  BY <1>2
<1> QED
  BY <1>1, <1>3, <1>4, <1>5

\* Reducing modulo a multiple of c first makes no difference modulo c.
LEMMA ModNested ==
  ASSUME NEW a \in Int, NEW m \in Nat \ {0}, NEW c \in Nat \ {0}, m % c = 0
  PROVE  (a % m) % c = a % c
<1> DEFINE r == a % m
<1>1. PICK k \in Int : m = c * k
  <2>1. m = c * (m \div c) + (m % c) /\ m \div c \in Int
    OBVIOUS
  <2>2. c * (m \div c) \in Int
    BY <2>1
  <2> QED
    BY <2>1, <2>2
<1>2. r \in Int
  BY ModRange
<1>3. PICK q \in Int : a = m * q + r
  BY ModQuotient
<1> HIDE DEF r
<1>4. k * q \in Int /\ c * (k * q) \in Int /\ m * q = c * (k * q)
  BY <1>1
<1>5. a = r + c * (k * q)
  BY <1>2, <1>3, <1>4
<1>6. (r + c * (k * q)) % c = r % c
  BY <1>2, <1>4, ModShift
<1> QED
  BY <1>5, <1>6 DEF r
=============================================================================
