---------------------------- MODULE DivisionFacts ----------------------------
(***************************************************************************)
(* Facts about products, quotients and remainders of natural numbers, for  *)
(* the addresses, pages and percentages of the proofs.                     *)
(***************************************************************************)
EXTENDS Integers, TLAPS

(* Multiplication keeps order.                                             *)
LEMMA TimesMonotonic ==
  ASSUME NEW x \in Int, NEW y \in Int, NEW m \in Nat, x <= y
  PROVE  x * m <= y * m
<1>1. (y - x) * m >= 0
  BY SMT
<1>2. QED
  BY <1>1, SMT

(* A quotient and its remainder.                                           *)
LEMMA Division ==
  ASSUME NEW a \in Nat, NEW m \in Nat \ {0}
  PROVE  /\ a \div m \in Nat /\ a % m \in 0..(m - 1)
         /\ (a \div m) * m <= a /\ a < ((a \div m) + 1) * m
<1>1. a \div m \in Int /\ a \div m >= 0
  BY SMT
<1>2. a % m \in 0..(m - 1)
  BY SMT
<1>3. (a \div m) * m <= a
  BY SMT
<1>4. ((a \div m) + 1) * m > a
  BY SMT
<1>5. (a \div m) * m \in Int /\ ((a \div m) + 1) * m \in Int
  BY <1>1
<1>6. QED
  BY <1>1, <1>2, <1>3, <1>4, <1>5

(* A number without remainder is its quotient's product.                   *)
LEMMA NoRemainder ==
  ASSUME NEW a \in Nat, NEW m \in Nat \ {0}, a % m = 0
  PROVE  (a \div m) * m = a
  BY SMT

(* One multiple more.                                                      *)
LEMMA NextMultiple ==
  ASSUME NEW q \in Int, NEW m \in Int
  PROVE  (q + 1) * m = q * m + m
  BY SMT

(* The remainder of a number between two multiples.                        *)
LEMMA Remainder ==
  ASSUME NEW q \in Nat, NEW m \in Nat \ {0}, NEW r \in 0..(m - 1)
  PROVE  (q * m + r) \div m = q /\ (q * m + r) % m = r
  BY SMT
==============================================================================
