----------------------------- MODULE Remainders -----------------------------
(***************************************************************************)
(* Remainders: what ring and arena positions modulo a size have to do with *)
(* the positions themselves.                                               *)
(***************************************************************************)
EXTENDS Integers, TLAPS

(* Quotient and remainder are unique.                                      *)
LEMMA DivisionUnique ==
  ASSUME NEW D \in Nat \ {0}, NEW p \in Int, NEW q \in Int,
         NEW r \in 0 .. D - 1, NEW s \in 0 .. D - 1,
         D * p + r = D * q + s
  PROVE  r = s
  <1>1. ASSUME NEW a \in Int, NEW b \in Int, a < b
        PROVE  D * a + D <= D * b
    <2>1. b - a - 1 \in Nat
      BY <1>1
    <2>2. D * (b - a - 1) \in Nat
      BY <2>1
    <2>3. D * (b - a - 1) = D * b - D * a - D
      OBVIOUS
    <2> QED
      BY <2>2, <2>3
  <1>2. ~(p < q)
    BY <1>1
  <1>3. ~(q < p)
    BY <1>1
  <1> QED
    BY <1>2, <1>3

(* Stepping d forward from a, less than once around, wraps at most once.   *)
LEMMA ModStep ==
  ASSUME NEW D \in Nat \ {0}, NEW a \in Nat, NEW d \in 0 .. D
  PROVE  (a + d) % D = IF (a % D) + d < D THEN (a % D) + d ELSE (a % D) + d - D
  <1> DEFINE p == a \div D
             q == (a + d) \div D
             r == a % D
             s == (a + d) % D
  <1>1. p \in Int /\ r \in 0 .. D - 1 /\ a = D * p + r
    OBVIOUS
  <1>2. q \in Int /\ s \in 0 .. D - 1 /\ a + d = D * q + s
    OBVIOUS
  <1> HIDE DEF p, q, r, s
  <1>3. ASSUME r + d < D
        PROVE  s = r + d
    <2>1. D * p + (r + d) = D * q + s
      BY <1>1, <1>2
    <2>2. r + d \in 0 .. D - 1
      BY <1>1, <1>3
    <2> QED
      BY <1>1, <1>2, <2>1, <2>2, DivisionUnique
  <1>4. ASSUME ~(r + d < D)
        PROVE  s = r + d - D
    <2>1. D * (p + 1) + (r + d - D) = D * q + s
      BY <1>1, <1>2
    <2>2. r + d - D \in 0 .. D - 1 /\ p + 1 \in Int
      BY <1>1, <1>4
    <2> QED
      BY <1>1, <1>2, <2>1, <2>2, DivisionUnique
  <1> QED
    BY <1>3, <1>4 DEF r, s

(* Numbers less than D apart have different remainders.                    *)
LEMMA ModApart ==
  ASSUME NEW D \in Nat \ {0}, NEW a \in Nat, NEW b \in Nat, a < b, b < a + D
  PROVE  a % D # b % D
  <1> DEFINE d == b - a
  <1>1. d \in 0 .. D /\ b = a + d /\ d > 0 /\ d < D
    OBVIOUS
  <1> HIDE DEF d
  <1>2. b % D = IF (a % D) + d < D THEN (a % D) + d ELSE (a % D) + d - D
    BY <1>1, ModStep
  <1>3. a % D \in Int
    OBVIOUS
  <1> QED
    BY <1>1, <1>2, <1>3
=============================================================================
