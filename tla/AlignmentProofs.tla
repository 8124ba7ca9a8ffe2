--------------------------- MODULE AlignmentProofs ----------------------------
(* Facts about products, remainders and AlignUp for the other proofs.      *)
EXTENDS Alignment, TLAPS

(* Division with remainder.                                                *)
LEMMA DivMod ==
    ASSUME NEW x \in Nat, NEW a \in Nat \ {0}
    PROVE  /\ x \div a \in Nat
           /\ x % a \in 0 .. a - 1
           /\ x = a * (x \div a) + (x % a)
  OBVIOUS

(* The quotient and the remainder are unique.                              *)
LEMMA DivModUnique ==
    ASSUME NEW a \in Nat \ {0}, NEW q \in Nat, NEW r \in 0 .. a - 1
    PROVE  /\ (a * q + r) % a = r
           /\ (a * q + r) \div a = q
  OBVIOUS

(* The naturals are closed under products.                                 *)
LEMMA ProductNat ==
    ASSUME NEW x \in Nat, NEW y \in Nat
    PROVE  x * y \in Nat
  OBVIOUS

(* A positive factor keeps the order.                                      *)
LEMMA ProductMonotone ==
    ASSUME NEW a \in Nat \ {0}, NEW x \in Int, NEW y \in Int
    PROVE  /\ a * x < a * y => x < y
           /\ a * x = a * y => x = y
           /\ x <= y => a * x <= a * y
  OBVIOUS

(* Products distribute over sums.                                          *)
LEMMA ProductOfSum ==
    ASSUME NEW a \in Nat, NEW x \in Int, NEW y \in Int
    PROVE  a * (x + y) = a * x + a * y
  OBVIOUS

(* AlignUp gives the least multiple of the alignment that is not smaller.  *)
LEMMA AlignUpFacts ==
    ASSUME NEW s \in Nat, NEW a \in Nat \ {0}
    PROVE  /\ AlignUp(s, a) \in Nat
           /\ s <= AlignUp(s, a)
           /\ AlignUp(s, a) < s + a
           /\ AlignUp(s, a) = a * (AlignUp(s, a) \div a)
           /\ AlignUp(s, a) \div a \in Nat
<1> DEFINE x == s + a - 1
           q == x \div a
<1>1. x \in Nat
  OBVIOUS
<1>2. q \in Nat /\ x % a \in 0 .. a - 1 /\ x = a * q + (x % a)
  BY <1>1, DivMod
<1>3. a * q \in Nat
  BY <1>2, ProductNat
<1>4. AlignUp(s, a) = a * q + 0
  BY <1>1, <1>2, <1>3 DEF AlignUp
<1>5. AlignUp(s, a) \div a = q
  BY <1>2, <1>4, DivModUnique
<1> QED
  BY <1>1, <1>2, <1>3, <1>4, <1>5

(* Whole multiples of the alignment pass through AlignUp.                  *)
LEMMA AlignUpOfSum ==
    ASSUME NEW s \in Nat, NEW a \in Nat \ {0}, NEW h \in Nat, h % a = 0
    PROVE  AlignUp(s + h, a) = AlignUp(s, a) + h
<1> DEFINE x == s + a - 1
           q == x \div a
           k == h \div a
<1>1. /\ x \in Nat /\ q \in Nat /\ k \in Nat
      /\ x % a \in 0 .. a - 1
      /\ x = a * q + (x % a)
      /\ h = a * k
  BY DivMod
<1>2. a * q \in Nat /\ a * k \in Nat /\ a * (q + k) = a * q + a * k
  BY <1>1, ProductNat, ProductOfSum
<1>3. x + h = a * (q + k) + (x % a)
  BY <1>1, <1>2
<1>4. (x + h) % a = x % a
  <2>1. q + k \in Nat
    BY <1>1
  <2> HIDE DEF x, q, k
  <2>2. (a * (q + k) + (x % a)) % a = x % a
    BY <1>1, <2>1, DivModUnique
  <2> QED
    BY <1>3, <2>2
<1>5. s + h + a - 1 = x + h
  OBVIOUS
<1>6. AlignUp(s + h, a) = (x + h) - ((x + h) % a)
  BY <1>5 DEF AlignUp
<1>7. AlignUp(s, a) = x - (x % a)
  BY DEF AlignUp
<1> HIDE DEF x
<1> QED
  BY <1>1, <1>4, <1>6, <1>7

(* A positive number stays below the next multiple above its bound.        *)
LEMMA AlignUpBelow ==
    ASSUME NEW s \in Nat, NEW a \in Nat \ {0}, NEW m \in Nat, s <= m, m % a = 0
    PROVE  AlignUp(s, a) <= m /\ AlignUp(s, a) \div a <= m \div a
<1> DEFINE u == AlignUp(s, a) \div a
           k == m \div a
<1>1. k \in Nat /\ m = a * k
  BY DivMod
<1>2. u \in Nat /\ AlignUp(s, a) = a * u /\ AlignUp(s, a) < m + a
  BY AlignUpFacts
<1>3. a * u < a * (k + 1)
  BY <1>1, <1>2, ProductOfSum
<1>4. u <= k
  BY <1>1, <1>2, <1>3, ProductMonotone
<1> QED
  BY <1>1, <1>2, <1>4, ProductMonotone
===============================================================================
