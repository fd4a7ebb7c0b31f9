----------------------------- MODULE Desk_proofs -----------------------------
(***************************************************************************)
(* What is proved of the calculations around a trading decision, for every *)
(* value of their constants: the rate limiter, the first halt's alert, the *)
(* backtester's ledger, the verdicts of the risk engine before a book, the *)
(* playbooks that can open a position, and the rounding of their sizes.    *)
(* Each part has an inductive invariant of its own: the parts share no     *)
(* variable but the money, and only one of them runs.                      *)
(***************************************************************************)
EXTENDS Desk, Inductions

(***************************************************************************)
(* Arithmetic.                                                             *)
(***************************************************************************)
LEMMA MaxOfTwo ==
    ASSUME NEW a \in Int, NEW b \in Int
    PROVE  Max({a, b}) = IF a >= b THEN a ELSE b
<1>1. PICK m \in {a, b} : \A y \in {a, b} : m >= y
  OBVIOUS
<1>2. Max({a, b}) \in {a, b} /\ \A y \in {a, b} : Max({a, b}) >= y
  BY <1>1 DEF Max
<1> QED  BY <1>2

LEMMA MinOfTwo ==
    ASSUME NEW a \in Int, NEW b \in Int
    PROVE  Min({a, b}) = IF a <= b THEN a ELSE b
<1>1. PICK m \in {a, b} : \A y \in {a, b} : m <= y
  OBVIOUS
<1>2. Min({a, b}) \in {a, b} /\ \A y \in {a, b} : Min({a, b}) <= y
  BY <1>1 DEF Min
<1> QED  BY <1>2

LEMMA Positive ==
    ASSUME NEW a \in Nat, NEW b \in Nat
    PROVE  a * b \in Nat
  OBVIOUS

(* One more of b. *)
LEMMA OneMore ==
    ASSUME NEW a \in Int, NEW b \in Int
    PROVE  (a + 1) * b = a * b + b /\ a * b \in Int
  OBVIOUS

LEMMA Distributes ==
    ASSUME NEW a \in Int, NEW b \in Int, NEW c \in Int
    PROVE  (a + b) * c = a * c + b * c
  OBVIOUS

(***************************************************************************)
(* The token bucket: what it holds is a full bucket and the refill since   *)
(* any call, less that call and those after it.                            *)
(***************************************************************************)
(* What is refilled between two times, and what the i-th to j-th calls cost. *)
Refilled(from, to) == (to - from) * Limiter!RefillRate
Cost(i, j) == (j - i + 1) * Whole

BucketTypes == /\ clock \in Nat /\ last \in Nat /\ tokens \in 0..Limiter!Full
               /\ grants \in Seq(Nat)

(* The bucket's time never goes back. *)
TimesInv == \A i \in DOMAIN grants : grants[i] <= last

(* What the grants since the i-th, with it, left of a full bucket. *)
BudgetInv == \A i \in DOMAIN grants :
                 tokens <= Limiter!Full + Refilled(grants[i], last) - Cost(i, Len(grants))

WindowInv == \A i, j \in DOMAIN grants :
                 i <= j => Cost(i, j) <= Limiter!Full + Refilled(grants[i], grants[j])

LimiterInv == BucketTypes /\ TimesInv /\ BudgetInv /\ WindowInv

(* The limiter's helpers are those of the libraries. *)
LEMMA LimiterHelpers == \A S : Limiter!Max(S) = Max(S) /\ Limiter!Min(S) = Min(S)
BY DEF Limiter!Max, Max, Limiter!Min, Min

(* NewTokenBucket's clamps leave room for one token. *)
LEMMA Clamps ==
    Limiter!Full \in Nat /\ Limiter!Full >= Whole /\ Limiter!RefillRate \in Nat /\ Whole \in Nat
<1>1. Max({Burst, 1}) \in Nat /\ Max({Burst, 1}) >= 1
  BY MaxOfTwo, LimiterAssumption
<1>2. PICK n \in Nat : Max({Burst, 1}) = n + 1
  <2>1. Max({Burst, 1}) - 1 \in Nat /\ Max({Burst, 1}) = (Max({Burst, 1}) - 1) + 1
    BY <1>1
  <2> QED  BY <2>1
<1>3. Limiter!Full = n * Whole + Whole /\ n * Whole \in Nat
  BY <1>2, OneMore, Positive, LimiterAssumption, LimiterHelpers DEF Limiter!Full
<1>4. Limiter!RefillRate \in Nat
  BY MaxOfTwo, LimiterAssumption, LimiterHelpers DEF Limiter!RefillRate
<1> QED  BY <1>3, <1>4, LimiterAssumption

LEMMA RefilledIsInt ==
    ASSUME NEW from \in Int, NEW to \in Int
    PROVE  /\ Refilled(from, to) \in Int
           /\ from <= to => Refilled(from, to) \in Nat
           /\ from = to => Refilled(from, to) = 0
<1>1. Limiter!RefillRate \in Nat
  BY Clamps
<1>2. Refilled(from, to) \in Int
  BY <1>1, OneMore DEF Refilled
<1>3. from = to => Refilled(from, to) = 0
  <2>1. from - from = 0 /\ 0 * Limiter!RefillRate = 0
    BY <1>1
  <2> QED  BY <2>1 DEF Refilled
<1>4. from <= to => Refilled(from, to) \in Nat
  <2>1. from <= to => to - from \in Nat
    OBVIOUS
  <2> QED  BY <2>1, <1>1, Positive DEF Refilled
<1> QED  BY <1>2, <1>3, <1>4

(* A time that passes in two parts refills as much as in one. *)
LEMMA RefilledAdds ==
    ASSUME NEW from \in Int, NEW mid \in Int, NEW to \in Int
    PROVE  Refilled(from, to) = Refilled(from, mid) + Refilled(mid, to)
<1>1. Limiter!RefillRate \in Nat
  BY Clamps
<1>2. (to - from) = (mid - from) + (to - mid)
  OBVIOUS
<1> QED  BY <1>1, <1>2, Distributes DEF Refilled

LEMMA CostIsInt ==
    ASSUME NEW i \in Int, NEW j \in Int
    PROVE  Cost(i, j) \in Int /\ (i = j => Cost(i, j) = Whole)
<1>1. Whole \in Int
  BY LimiterAssumption
<1>2. i - i + 1 = 1 /\ 1 * Whole = Whole
  BY <1>1
<1> QED  BY <1>1, <1>2, OneMore DEF Cost

LEMMA CostAdds ==
    ASSUME NEW i \in Int, NEW j \in Int, NEW k \in Int, k = j + 1
    PROVE  Cost(i, k) = Cost(i, j) + Whole
<1>1. Whole \in Int
  BY LimiterAssumption
<1>2. k - i + 1 = (j - i + 1) + 1
  OBVIOUS
<1> QED  BY <1>1, <1>2, OneMore DEF Cost

(* A reading of the clock keeps the bucket within its bounds and its debt. *)
LEMMA RefillKeeps ==
    ASSUME LimiterInv
    PROVE  /\ Limiter!Refill(clock).tokens \in 0..Limiter!Full
           /\ Limiter!Refill(clock).last \in Nat /\ Limiter!Refill(clock).last >= last
           /\ \A i \in DOMAIN grants :
                  Limiter!Refill(clock).tokens <= Limiter!Full + Refilled(grants[i], Limiter!Refill(clock).last)
                                               - Cost(i, Len(grants))
<1> USE DEF LimiterInv
<1>1. CASE clock <= last
  BY <1>1 DEF Limiter!Refill, BucketTypes, BudgetInv
<1>2. CASE ~(clock <= last)
  <2> DEFINE more == Refilled(last, clock)
  <2>0. clock \in Int /\ last \in Int /\ last <= clock /\ tokens \in 0..Limiter!Full /\ clock \in Nat
    BY <1>2 DEF BucketTypes
  <2>1. more \in Nat /\ Limiter!Full \in Nat
    BY <2>0, RefilledIsInt, Clamps
  <2>2. Limiter!Refill(clock).last = clock /\ Limiter!Refill(clock).tokens = Min({Limiter!Full, tokens + more})
    BY <1>2, LimiterHelpers DEF Limiter!Refill, Refilled
  <2>3. /\ Limiter!Refill(clock).tokens \in 0..Limiter!Full
        /\ Limiter!Refill(clock).tokens <= tokens + more
    BY <2>0, <2>1, <2>2, MinOfTwo
  <2>4. ASSUME NEW i \in DOMAIN grants
        PROVE  Limiter!Refill(clock).tokens <= Limiter!Full + Refilled(grants[i], clock) - Cost(i, Len(grants))
    <3>1. grants[i] \in Nat /\ i \in Nat /\ Len(grants) \in Nat
      BY DEF BucketTypes
    <3>2. Refilled(grants[i], clock) = Refilled(grants[i], last) + more
          /\ Refilled(grants[i], last) \in Int
      <4>1. grants[i] \in Int
        BY <3>1
      <4>2. Refilled(grants[i], clock) = Refilled(grants[i], last) + Refilled(last, clock)
        BY <2>0, <4>1, RefilledAdds
      <4> QED  BY <2>0, <4>1, <4>2, RefilledIsInt
    <3>3. tokens <= Limiter!Full + Refilled(grants[i], last) - Cost(i, Len(grants))
      BY DEF BudgetInv
    <3>4. Cost(i, Len(grants)) \in Int
      BY <3>1, CostIsInt
    <3> HIDE DEF more
    <3> QED  BY <2>1, <2>0, <2>3, <3>2, <3>3, <3>4
  <2> QED  BY <2>0, <2>2, <2>3, <2>4
<1> QED  BY <1>1, <1>2 DEF BucketTypes

LEMMA LimiterInit ==
    ASSUME Limiter!Init
    PROVE  LimiterInv
BY Clamps DEF Limiter!Init, LimiterInv, BucketTypes, TimesInv, BudgetInv, WindowInv

(* A grant pays for itself, and for every window that ends with it. *)
LEMMA GrantKeepsInv ==
    ASSUME LimiterInv, Limiter!Refill(clock).tokens >= Whole,
           tokens' = Limiter!Refill(clock).tokens - Whole, last' = Limiter!Refill(clock).last,
           grants' = Append(grants, Limiter!Refill(clock).last), clock' = clock
    PROVE  LimiterInv'
<1> USE DEF LimiterInv
<1> DEFINE n == Len(grants)
           held == Limiter!Refill(clock).tokens
           now == Limiter!Refill(clock).last
<1>1. /\ held \in 0..Limiter!Full /\ now \in Nat /\ now >= last
      /\ \A i \in DOMAIN grants : held <= Limiter!Full + Refilled(grants[i], now) - Cost(i, n)
  BY RefillKeeps
<1>2. tokens' = held - Whole /\ held >= Whole /\ last' = now /\ grants' = Append(grants, now)
  OBVIOUS
<1> HIDE DEF held, now
<1>3. n \in Nat /\ DOMAIN grants = 1..n /\ DOMAIN grants' = 1..n + 1 /\ Len(grants') = n + 1
      /\ grants' \in Seq(Nat) /\ grants'[n + 1] = now
  BY <1>1, <1>2 DEF BucketTypes
<1>4. \A i \in 1..n : grants'[i] = grants[i] /\ grants[i] \in Nat
  BY <1>1, <1>2, <1>3 DEF BucketTypes
<1> HIDE DEF n
<1>5. Whole \in Nat /\ Whole > 0 /\ Limiter!Full >= Whole /\ Limiter!Full \in Nat
  BY Clamps, LimiterAssumption
<1>6. BucketTypes'
  BY <1>1, <1>2, <1>3, <1>5 DEF BucketTypes
<1>7. TimesInv'
  <2>1. ASSUME NEW i \in 1..n + 1 PROVE grants'[i] <= last'
    <3>1. CASE i \in 1..n
      <4>1. grants'[i] = grants[i] /\ grants[i] \in Nat /\ grants[i] <= last
        BY <3>1, <1>3, <1>4 DEF TimesInv
      <4>2. last \in Nat /\ now \in Nat /\ last <= now /\ last' = now
        BY <1>1, <1>2 DEF BucketTypes
      <4> QED  BY <4>1, <4>2
    <3>2. CASE i = n + 1
      BY <3>2, <1>1, <1>2, <1>3
    <3> QED  BY <3>1, <3>2, <1>3
  <2> QED  BY <2>1, <1>3 DEF TimesInv
<1>8. ASSUME NEW i \in 1..n + 1
      PROVE  tokens' <= Limiter!Full + Refilled(grants'[i], now) - Cost(i, n + 1)
  <2>1. CASE i \in 1..n
    <3>1. held <= Limiter!Full + Refilled(grants[i], now) - Cost(i, n)
      BY <2>1, <1>1, <1>3
    <3>2. Cost(i, n + 1) = Cost(i, n) + Whole /\ Cost(i, n) \in Int
      <4>1. i \in Int /\ n \in Int /\ n + 1 \in Int
        BY <1>3
      <4> QED  BY <4>1, CostAdds, CostIsInt
    <3>3. Refilled(grants[i], now) \in Int /\ grants'[i] = grants[i]
      <4>1. grants[i] \in Int /\ now \in Int
        BY <2>1, <1>1, <1>4
      <4> QED  BY <2>1, <4>1, <1>4, RefilledIsInt
    <3> QED  BY <3>1, <3>2, <3>3, <1>1, <1>2, <1>5
  <2>2. CASE i = n + 1
    <3>1. Refilled(grants'[i], now) = 0 /\ Cost(i, n + 1) = Whole
      BY <2>2, <1>1, <1>3, RefilledIsInt, CostIsInt
    <3> QED  BY <3>1, <1>1, <1>2, <1>5
  <2> QED  BY <2>1, <2>2, <1>3
<1>9. BudgetInv'
  BY <1>2, <1>3, <1>8 DEF BudgetInv
<1>10. WindowInv'
  <2>1. ASSUME NEW i \in 1..n, NEW j \in 1..n, i <= j
        PROVE  Cost(i, j) <= Limiter!Full + Refilled(grants'[i], grants'[j])
    BY <2>1, <1>3, <1>4 DEF WindowInv
  <2>2. ASSUME NEW i \in 1..n + 1
        PROVE  Cost(i, n + 1) <= Limiter!Full + Refilled(grants'[i], grants'[n + 1])
    <3>1. Cost(i, n + 1) \in Int /\ Refilled(grants'[i], now) \in Int
      <4>1. i \in Int /\ n + 1 \in Int /\ grants'[i] \in Int /\ now \in Int
        BY <1>1, <1>3
      <4> QED  BY <4>1, CostIsInt, RefilledIsInt
    <3>2. tokens' \in Nat
      BY <1>1, <1>2, <1>5
    <3>3. tokens' <= Limiter!Full + Refilled(grants'[i], now) - Cost(i, n + 1)
      BY <1>8
    <3>4. PICK a \in Int, b \in Int : a = Refilled(grants'[i], now) /\ b = Cost(i, n + 1)
      BY <3>1
    <3>6. PICK full \in Nat, left \in Nat : full = Limiter!Full /\ left = tokens'
      BY <3>2, <1>5
    <3>7. left <= full + a - b
      BY <3>3, <3>4, <3>6
    <3>8. b <= full + a
      BY <3>7
    <3>5. b <= Limiter!Full + a
      BY <3>6, <3>8
    <3> QED  BY <3>4, <3>5, <1>3
  <2>3. \A i, j \in 1..n + 1 : i <= j => (i \in 1..n /\ j \in 1..n) \/ j = n + 1
    BY <1>3
  <2> QED  BY <2>1, <2>2, <2>3, <1>3 DEF WindowInv
<1> QED  BY <1>6, <1>7, <1>9, <1>10

(* A refused call, or a look at the tokens, only refills. *)
LEMMA RefillKeepsInv ==
    ASSUME LimiterInv,
           tokens' = Limiter!Refill(clock).tokens, last' = Limiter!Refill(clock).last,
           grants' = grants, clock' = clock
    PROVE  LimiterInv'
<1> USE DEF LimiterInv
<1>1. BucketTypes' /\ TimesInv'
  BY RefillKeeps DEF BucketTypes, TimesInv
<1>2. BudgetInv' /\ WindowInv'
  BY RefillKeeps DEF BudgetInv, WindowInv
<1> QED  BY <1>1, <1>2

LEMMA LimiterNext ==
    ASSUME LimiterInv, [Limiter!Next]_(Limiter!vars)
    PROVE  LimiterInv'
<1>1. ASSUME NEW t \in 0..MaxTime, Limiter!ClockSteps(t) PROVE LimiterInv'
  <2>1. clock' \in Nat /\ UNCHANGED <<tokens, last, grants>>
    BY <1>1, LimiterAssumption DEF Limiter!ClockSteps
  <2> QED  BY <2>1 DEF LimiterInv, BucketTypes, TimesInv, BudgetInv, WindowInv
<1>2. CASE Limiter!Allow
  <2>1. CASE Limiter!Refill(clock).tokens >= Whole
    BY <1>2, <2>1, GrantKeepsInv DEF Limiter!Allow
  <2>2. CASE ~(Limiter!Refill(clock).tokens >= Whole)
    BY <1>2, <2>2, RefillKeepsInv DEF Limiter!Allow
  <2> QED  BY <2>1, <2>2
<1>3. CASE Limiter!Tokens
  BY <1>3, RefillKeepsInv DEF Limiter!Tokens
<1>4. CASE UNCHANGED Limiter!vars
  BY <1>4 DEF Limiter!vars, LimiterInv, BucketTypes, TimesInv, BudgetInv, WindowInv
<1> QED  BY <1>1, <1>2, <1>3, <1>4 DEF Limiter!Next

(* A power of two is the number of sets of numbers up to its exponent, so  *)
(* the next one is its double: those without and those with one more.      *)
LEMMA PowerDoubles ==
    ASSUME NEW n \in Nat
    PROVE  2^n \in Nat /\ 2^(n + 1) = 2 * 2^n
<1> DEFINE A == 1..n
           x == n + 1
           B == A \cup {x}
           With == {T \cup {x} : T \in SUBSET A}
<1>1. IsFiniteSet(A) /\ Cardinality(A) = n
  BY FS_Interval
<1>2. x \notin A /\ n + 1 = x
  OBVIOUS
<1> HIDE DEF A, x
<1>3. IsFiniteSet(B) /\ Cardinality(B) = n + 1
  BY <1>1, <1>2, FS_AddElement
<1>4. IsFiniteSet(SUBSET A) /\ Cardinality(SUBSET A) = 2^n
  BY <1>1, FS_SUBSET
<1>5. Cardinality(SUBSET B) = 2^(n + 1)
  BY <1>3, FS_SUBSET
<1>6. SUBSET B = (SUBSET A) \cup With
  <2>1. ASSUME NEW T \in SUBSET B PROVE T \in (SUBSET A) \cup With
    <3>1. CASE x \in T
      <4>1. T \ {x} \in SUBSET A /\ T = (T \ {x}) \cup {x}
        BY <3>1
      <4> QED  BY <4>1
    <3>2. CASE x \notin T
      BY <3>2
    <3> QED  BY <3>1, <3>2
  <2>2. ASSUME NEW T \in (SUBSET A) \cup With PROVE T \in SUBSET B
    BY <2>2
  <2> QED  BY <2>1, <2>2
<1>7. (SUBSET A) \cap With = {}
  BY <1>2
<1>8. IsFiniteSet(With) /\ Cardinality(With) = Cardinality(SUBSET A)
  <2> DEFINE f == [T \in SUBSET A |-> T \cup {x}]
  <2>1. f \in [SUBSET A -> With]
    OBVIOUS
  <2>2. \A T, U \in SUBSET A : T \cup {x} = U \cup {x} => T = U
    BY <1>2
  <2>3. f \in Bijection(SUBSET A, With)
    BY <2>1, <2>2 DEF Bijection, Injection, Surjection, IsInjective
  <2>4. ExistsBijection(SUBSET A, With)
    BY <2>3 DEF ExistsBijection
  <2> HIDE DEF With
  <2> QED  BY <1>4, <2>4, FS_Bijection
<1>9. Cardinality(SUBSET B) = Cardinality(SUBSET A) + Cardinality(With) - Cardinality({})
  <2> HIDE DEF With, B
  <2> QED  BY <1>4, <1>6, <1>7, <1>8, FS_Union
<1>10. Cardinality(SUBSET A) \in Nat /\ Cardinality({}) = 0
  BY <1>4, FS_CardinalityType, FS_EmptySet
<1> HIDE DEF With, B
<1> QED  BY <1>4, <1>5, <1>8, <1>9, <1>10

(* What expWindow's doubling computes. *)
LEMMA WindowIsCapped ==
    ASSUME NEW b \in Nat, NEW c \in Nat, b <= c, NEW n \in Nat
    PROVE  Limiter!ExpWindow(b, c, n) = Min({c, b * 2^n})
<1> DEFINE P(w) == w = [i \in Nat |-> IF i = 0 THEN b
                                      ELSE IF w[i - 1] > c \div 2 THEN c ELSE 2 * w[i - 1]]
           Capped(e) == IF e <= c THEN e ELSE c
           W == [i \in Nat |-> Capped(b * 2^i)]
<1>1. \A i \in Nat : 2^i \in Nat /\ b * 2^i \in Nat
  <2>1. ASSUME NEW i \in Nat PROVE 2^i \in Nat /\ b * 2^i \in Nat
    <3>1. PICK p \in Nat : p = 2^i
      BY PowerDoubles
    <3>2. b * p \in Nat
      BY Positive
    <3> QED  BY <3>1, <3>2
  <2> QED  BY <2>1
<1>2. b * 2^0 = b
  BY FS_EmptySet, FS_SUBSET
<1>3. ASSUME NEW i \in Nat PROVE b * 2^(i + 1) = 2 * (b * 2^i)
  <2>1. PICK p \in Nat, q \in Nat : p = 2^i /\ q = 2^(i + 1) /\ q = 2 * p
    BY PowerDoubles
  <2>2. b * (2 * p) = 2 * (b * p)
    OBVIOUS
  <2> QED  BY <2>1, <2>2
<1>4. ASSUME NEW i \in Nat
      PROVE  Capped(b * 2^(i + 1)) = IF Capped(b * 2^i) > c \div 2 THEN c ELSE 2 * Capped(b * 2^i)
  <2>1. PICK e \in Nat : e = b * 2^i /\ b * 2^(i + 1) = 2 * e
    BY <1>1, <1>3
  <2>2. Capped(2 * e) = IF Capped(e) > c \div 2 THEN c ELSE 2 * Capped(e)
    OBVIOUS
  <2> QED  BY <2>1, <2>2
<1> HIDE DEF Capped
<1>5. P(W)
  <2>1. ASSUME NEW i \in Nat
        PROVE  W[i] = IF i = 0 THEN b ELSE IF W[i - 1] > c \div 2 THEN c ELSE 2 * W[i - 1]
    <3>1. CASE i = 0
      BY <3>1, <1>2 DEF Capped
    <3>2. CASE i # 0
      <4>1. PICK j \in Nat : i = j + 1
        <5>1. i - 1 \in Nat /\ i = (i - 1) + 1
          BY <3>2
        <5> QED  BY <5>1
      <4>2. i - 1 = j /\ W[i] = Capped(b * 2^(j + 1)) /\ W[j] = Capped(b * 2^j)
        BY <4>1
      <4> HIDE DEF W
      <4> QED  BY <3>2, <4>2, <1>4
    <3> QED  BY <3>1, <3>2
  <2> QED  BY <2>1
<1> HIDE DEF W
<1>6. Limiter!ExpWindow(b, c, n) = Min({(CHOOSE w : P(w))[n], c})
  BY LimiterHelpers DEF Limiter!ExpWindow
<1>7. PICK w : w = (CHOOSE v : P(v)) /\ P(w)
  BY <1>5
<1>8. \A i \in Nat : w[i] = W[i]
  <2> DEFINE S == {i \in Nat : w[i] = W[i]}
  <2>1. 0 \in S
    BY <1>5, <1>7
  <2>2. ASSUME NEW i \in Nat, i \in S PROVE i + 1 \in S
    <3>1. (i + 1) - 1 = i /\ i + 1 # 0 /\ i + 1 \in Nat
      OBVIOUS
    <3>2. w[i + 1] = IF w[i] > c \div 2 THEN c ELSE 2 * w[i]
      BY <1>7, <3>1
    <3>3. W[i + 1] = IF W[i] > c \div 2 THEN c ELSE 2 * W[i]
      BY <1>5, <3>1
    <3> QED  BY <2>2, <3>2, <3>3
  <2> HIDE DEF S
  <2>3. \A i \in Nat : i \in S
    BY <2>1, <2>2, SetInduction
  <2> QED  BY <2>3 DEF S
<1>9. PICK e \in Nat : e = b * 2^n
  BY <1>1
<1>10. w[n] = Capped(e)
  BY <1>8, <1>9 DEF W
<1>11. Min({Capped(e), c}) = Min({c, e})
  <2>1. Capped(e) \in Int /\ Capped(e) <= c /\ Capped(e) = IF c <= e THEN c ELSE e
    BY DEF Capped
  <2> QED  BY <2>1, MinOfTwo
<1> QED  BY <1>6, <1>7, <1>9, <1>10, <1>11

(***************************************************************************)
(* The bucket never lets a window exceed its burst and its refill, for any *)
(* rate and burst, the clamped ones included, however the clock jumps and  *)
(* whenever the tokens are read; and for any base and cap the backoff of   *)
(* the n-th retry is the base doubled n times, and the cap beyond it.      *)
(***************************************************************************)
THEOREM CallsArePaced == DeskSpec => []PacingIsBounded
<1> DEFINE Inv == part = "rate" => LimiterInv
<1>1. DeskInit => Inv
  BY LimiterInit DEF DeskInit
<1>2. Inv /\ [DeskNext]_deskVars => Inv'
  <2> SUFFICES ASSUME Inv, [DeskNext]_deskVars, part' = "rate" PROVE LimiterInv'
    OBVIOUS
  <2>1. part = "rate" /\ [Limiter!Next]_(Limiter!vars)
    BY DEF DeskNext, deskVars, rateVars, Limiter!vars
  <2> QED  BY <2>1, LimiterNext
<1>3. LimiterInv => Limiter!NeverOverRate
  BY DEF LimiterInv, WindowInv, Limiter!NeverOverRate, Cost, Refilled
<1>4. Limiter!BackoffIsExact
  <2> SUFFICES ASSUME NEW b \in Bases, NEW c \in Caps, NEW n \in 0..MaxAttempt, b <= c
               PROVE  Limiter!Delays(b, c, n, 0) = 0..Min({c, b * 2^n})
    BY LimiterHelpers DEF Limiter!BackoffIsExact
  <2>1. b \in Nat /\ c \in Nat /\ n \in Nat
    BY LimiterAssumption
  <2>2. Max({b, c}) = c
    BY <2>1, MaxOfTwo
  <2> QED  BY <2>1, <2>2, WindowIsCapped, LimiterHelpers DEF Limiter!Delays
<1>5. Inv => PacingIsBounded
  BY <1>3, <1>4 DEF PacingIsBounded
<1> QED  BY <1>1, <1>2, <1>5, PTL DEF DeskSpec

(***************************************************************************)
(* The alerts: the loop that has not met the first halt has its latch      *)
(* open, and the one that met it sent the alert.                           *)
(***************************************************************************)
AlertsInv ==
    /\ halts \in Nat /\ switch \in BOOLEAN /\ latch \in BOOLEAN /\ seen \in BOOLEAN
    /\ halts = 0 => ~switch /\ ~latch /\ ~seen
    /\ halts = 1 /\ switch /\ ~seen => ~latch
    /\ halts = 1 /\ seen => told \/ lost

(* A halt is critical: it is never held. *)
LEMMA HaltsAreSent == \A o \in Alerts!Outcomes("critical") : o = "delivered" \/ o = "failed"
BY DEF Alerts!Outcomes, Alerts!PassesQuiet

LEMMA AlertsInit == Alerts!Init => AlertsInv
<1> SUFFICES ASSUME Alerts!Init PROVE AlertsInv
  OBVIOUS
<1>1. ~latch /\ ~seen /\ switch \in BOOLEAN /\ latch \in BOOLEAN /\ seen \in BOOLEAN
  BY Zenon DEF Alerts!Init
<1>2. halts \in Nat /\ (halts = 0 => ~switch)
  BY DEF Alerts!Init
<1> QED  BY <1>1, <1>2 DEF AlertsInv

(* The loop meets the halt of the switch as it is now. *)
LEMMA NoticeTells ==
    ASSUME AlertsInv, Alerts!NoticeHalt, switch' \in BOOLEAN, halts' \in Nat,
           halts' # 0, halts' = 1 => (switch /\ halts = 1) \/ halts = 0
    PROVE  AlertsInv'
<1>1. seen' = TRUE /\ latch' = TRUE
  BY DEF Alerts!NoticeHalt
<1>2. ~latch => told' \/ lost'
  BY HaltsAreSent DEF Alerts!NoticeHalt
<1>3. latch => told' = told /\ lost' = lost
  BY DEF Alerts!NoticeHalt
<1>4. halts' = 1 => told' \/ lost'
  BY <1>2, <1>3 DEF AlertsInv
<1> QED  BY <1>1, <1>4 DEF AlertsInv

LEMMA RaiseKeepsAlerts == ASSUME AlertsInv, Alerts!RaiseForDrawdown PROVE AlertsInv'
<1>1. /\ switch' = TRUE /\ halts' = IF switch THEN halts ELSE halts + 1
      /\ Alerts!NoticeHalt
  BY DEF Alerts!RaiseForDrawdown
<1>2. halts' \in Nat /\ halts' # 0 /\ (halts' = 1 => (switch /\ halts = 1) \/ halts = 0)
  BY <1>1 DEF AlertsInv
<1> QED  BY <1>1, <1>2, NoticeTells

LEMMA AlertsNext == ASSUME AlertsInv, [Alerts!Next]_(Alerts!vars) PROVE AlertsInv'
<1>1. CASE Alerts!RaiseForDrawdown
  BY <1>1, RaiseKeepsAlerts
<1>2. CASE Alerts!TickHalted
  <2>1. switch /\ switch' = switch /\ halts' = halts /\ Alerts!NoticeHalt /\ halts # 0
    BY <1>2 DEF Alerts!TickHalted, AlertsInv
  <2> QED  BY <2>1, NoticeTells DEF AlertsInv
<1>3. CASE UNCHANGED <<switch, halts, latch, seen, told, lost>>
  BY <1>3 DEF AlertsInv
<1>4. CASE Alerts!OperatorHalts
  <2>1. ~seen' /\ switch' \in BOOLEAN /\ seen' \in BOOLEAN /\ latch' = latch
    BY <1>4, Zenon DEF Alerts!OperatorHalts
  <2>2. halts' = halts + 1
    BY <1>4 DEF Alerts!OperatorHalts
  <2>3. halts' \in Nat /\ halts' # 0 /\ (halts' = 1 => halts = 0)
    BY <2>2 DEF AlertsInv
  <2> QED  BY <2>1, <2>3 DEF AlertsInv
<1>5. CASE Alerts!OperatorResumes
  BY <1>5 DEF Alerts!OperatorResumes, AlertsInv
<1>6. CASE Alerts!TickDailyLoss \/ Alerts!TickOpen \/ Alerts!TimePasses
  <2>1. UNCHANGED <<switch, halts, latch, seen, told, lost>>
    BY <1>6 DEF Alerts!TickDailyLoss, Alerts!TickOpen, Alerts!TimePasses
  <2> QED  BY <2>1, <1>3
<1>7. CASE Alerts!Heartbeat
  BY <1>7, <1>1, <1>3 DEF Alerts!Heartbeat
<1>8. CASE UNCHANGED Alerts!vars
  <2>1. UNCHANGED <<switch, halts, latch, seen, told, lost>>
    BY <1>8 DEF Alerts!vars
  <2> QED  BY <2>1, <1>3
<1> QED  BY <1>1, <1>2, <1>4, <1>5, <1>6, <1>7, <1>8 DEF Alerts!Next, Alerts!Tick

(***************************************************************************)
(* The first halt reaches the operator or its send fails, for any hours    *)
(* and quiet hours, any number of halts, and however the drawdown, the     *)
(* day's loss, the heartbeats and the operator fall in between.            *)
(***************************************************************************)
THEOREM FirstHaltGetsThrough == DeskSpec => []FirstHaltIsAnnounced
<1> DEFINE Inv == part = "alerts" => AlertsInv
<1>1. DeskInit => Inv
  BY AlertsInit DEF DeskInit
<1>2. Inv /\ [DeskNext]_deskVars => Inv'
  <2> SUFFICES ASSUME Inv, [DeskNext]_deskVars, part' = "alerts" PROVE AlertsInv'
    OBVIOUS
  <2>1. part = "alerts" /\ [Alerts!Next]_(Alerts!vars)
    BY DEF DeskNext, deskVars, alertVars, Alerts!vars
  <2> QED  BY <2>1, AlertsNext
<1>3. Inv => FirstHaltIsAnnounced
  BY DEF FirstHaltIsAnnounced, Alerts!FirstHaltIsAnnounced, AlertsInv
<1> QED  BY <1>1, <1>2, <1>3, PTL DEF DeskSpec

(***************************************************************************)
(* The backtester: once the pending fills of a bar's open are done, the    *)
(* engine's position is the one the strategy believes in.                  *)
(***************************************************************************)
Sides == {-1, 0, 1}
Rounds == [side : Sides, px : Int, fee : Int]

ReplayTypes ==
    /\ strat \in {"momentum", "breakout", "mean_reversion"}
    /\ nextOpen \in BOOLEAN /\ pendExit \in BOOLEAN /\ done \in BOOLEAN
    /\ view \in Sides /\ pendEntry \in Sides /\ pos \in Rounds
    /\ bars \in Seq([open : Prices, close : Prices])
PendingInv ==
    /\ ~done => /\ ~nextOpen => pendEntry = 0 /\ ~pendExit
                /\ pendEntry # 0 => pos.side = 0 /\ ~pendExit
                /\ pendExit => pos.side # 0
                /\ view = Replay!Heading
    /\ done => pos.side = 0

(* The equity after the first k trades of t, and its extremes until the n-th: *)
(* the peak and the deepest fall.                                            *)
After(t, k) == StartingCash + SumFunctionOnSet(t, 1..k)
Extremes(t, n, top, fall) ==
    /\ \E i \in 0..n : top = After(t, i)
    /\ \A i \in 0..n : After(t, i) <= top
    /\ \E j \in 0..n : \E i \in 0..j : fall = After(t, i) - After(t, j)
    /\ \A j \in 0..n : \A i \in 0..j : After(t, i) - After(t, j) <= fall

(* A ledger of trades adds up. *)
AddsUp(b) ==
    /\ "pos" \in DOMAIN b
    /\ b.pos \in Rounds /\ (b.pos.side # 0 => b.pos.fee = Commission)
    /\ b.trades \in Seq(Int)
    /\ b.equity \in Int /\ b.gross \in Int /\ b.peak \in Int /\ b.maxDD \in Int
    /\ b.equity = After(b.trades, Len(b.trades))
    /\ Extremes(b.trades, Len(b.trades), b.peak, b.maxDD)
    /\ b.gross - (b.equity - StartingCash) = (2 * Commission) * Len(b.trades)

ReplayInv == ReplayTypes /\ PendingInv /\ AddsUp(Replay!Book)

(* What a strategy may say on a bar. *)
Sound(s) ==
    \/ s.action = "hold" /\ s.view = view
    \/ s.action = "enter" /\ view = 0 /\ s.view \in {1, -1}
    \/ s.action = "exit" /\ view # 0 /\ s.view = 0

LEMMA SignalsAreSound ==
    ASSUME ReplayTypes, NEW n, NEW s \in Replay!Signals(n)
    PROVE  Sound(s)
<1>1. Sound(Replay!Hold) /\ (view # 0 => Sound(Replay!Exit))
      /\ (view = 0 => Sound(Replay!Enter(1)) /\ Sound(Replay!Enter(-1)))
  BY DEF Sound, Replay!Hold, Replay!Exit, Replay!Enter
<1>a. (view = 1 => Sound(Replay!Exit)) /\ (view = -1 => Sound(Replay!Exit))
  BY <1>1
<1>2. Sound(Replay!Momentum(n))
  BY <1>1, <1>a, Zenon DEF Replay!Momentum
<1>3. Sound(Replay!Breakout(n))
  BY <1>1, <1>a, Zenon DEF Replay!Breakout
<1>4. ASSUME NEW r PROVE Sound(Replay!MeanReversion(r))
  BY <1>1, <1>a, Zenon DEF Replay!MeanReversion
<1>5. strat \in {"momentum", "breakout", "mean_reversion"}
  BY DEF ReplayTypes
<1>6. CASE strat = "momentum"
  BY <1>2, <1>6 DEF Replay!Signals
<1>7. CASE strat = "breakout"
  BY <1>3, <1>7 DEF Replay!Signals
<1>8. CASE strat = "mean_reversion"
  BY <1>4, <1>8 DEF Replay!Signals
<1> QED  BY <1>5, <1>6, <1>7, <1>8

(* The backtester's helpers are those of the libraries. *)
LEMMA ReplayHelpers ==
    /\ \A S : Replay!Max(S) = Max(S) /\ Replay!Min(S) = Min(S)
    /\ \A f, S : Replay!SumFunctionOnSet(f, S) = SumFunctionOnSet(f, S)
    /\ \A s : Replay!Last(s) = Last(s)
<1>1. \A S : Replay!Max(S) = Max(S) /\ Replay!Min(S) = Min(S)
  BY DEF Replay!Max, Max, Replay!Min, Min
<1>2. \A f, S : Replay!SumFunctionOnSet(f, S) = SumFunctionOnSet(f, S)
  BY DEF Replay!SumFunctionOnSet, Replay!FoldFunctionOnSet, Replay!MapThenFoldSet,
         SumFunctionOnSet, FoldFunctionOnSet, MapThenFoldSet
<1>3. \A s : Replay!Last(s) = Last(s)
  BY DEF Replay!Last, Last
<1> QED  BY <1>1, <1>2, <1>3

(* The curve with one more trade. *)
LEMMA CurveGrows ==
    ASSUME NEW t \in Seq(Int), NEW x \in Int
    PROVE  /\ \A k \in 0..Len(t) : /\ After(t, k) \in Int
                                   /\ After(Append(t, x), k) = After(t, k)
           /\ After(Append(t, x), Len(t) + 1) = After(t, Len(t)) + x
<1>0. Append(t, x) \in Seq(Int) /\ Len(t) \in Nat
  OBVIOUS
<1>1. PICK n \in Nat, u \in Seq(Int) : n = Len(t) /\ u = Append(t, x)
  BY <1>0
<1>2. Len(u) = n + 1 /\ u[n + 1] = x /\ \A i \in 1..n : u[i] = t[i] /\ t[i] \in Int
  BY <1>1
<1>3. StartingCash \in Int
  BY ReplayAssumption
<1>4. ASSUME NEW k \in 0..n
      PROVE  /\ SumFunctionOnSet(t, 1..k) \in Int
             /\ SumFunctionOnSet(u, 1..k) = SumFunctionOnSet(t, 1..k)
  <2>1. PICK S : S = 1..k
    OBVIOUS
  <2>0. IsFiniteSet(1..k) /\ \A i \in 1..k : i \in 1..n
    BY FS_Interval
  <2>2. IsFiniteSet(S) /\ \A i \in S : u[i] = t[i] /\ t[i] \in Int
    BY <1>2, <2>0, <2>1
  <2>3. SumFunctionOnSet(t, S) \in Int
    BY <2>2, SumType
  <2>4. SumFunctionOnSet(u, S) = SumFunctionOnSet(t, S)
    BY <2>2, SumSame
  <2> QED  BY <2>1, <2>3, <2>4
<1>5. SumFunctionOnSet(u, 1..n + 1) = SumFunctionOnSet(u, 1..n) + u[n + 1]
  <2>1. \A i \in 1..n + 1 : u[i] \in Int
    BY <1>2
  <2> QED  BY <2>1, SumTo
<1>6. n \in 0..n
  OBVIOUS
<1>7. After(u, n + 1) = After(t, n) + x
  BY <1>2, <1>3, <1>4, <1>5, <1>6 DEF After
<1>8. \A k \in 0..n : After(t, k) \in Int /\ After(u, k) = After(t, k)
  BY <1>3, <1>4 DEF After
<1> QED  BY <1>1, <1>7, <1>8

(* A new end of the curve: a new peak or a fall from the one before. *)
LEMMA ExtremesGrow ==
    ASSUME NEW t \in Seq(Int), NEW x \in Int, NEW top \in Int, NEW fall \in Int,
           Extremes(t, Len(t), top, fall)
    PROVE  LET end == After(t, Len(t)) + x
               high == Max({top, end})
           IN  /\ high \in Int /\ Max({fall, high - end}) \in Int
               /\ Extremes(Append(t, x), Len(t) + 1, high, Max({fall, high - end}))
<1>0. Append(t, x) \in Seq(Int) /\ Len(t) \in Nat
  OBVIOUS
<1>1. PICK n \in Nat, u \in Seq(Int) : n = Len(t) /\ u = Append(t, x)
  BY <1>0
<1>2. PICK m \in Nat : m = n + 1
  OBVIOUS
<1>3. \A k \in 0..n : After(t, k) \in Int /\ After(u, k) = After(t, k)
  BY <1>1, CurveGrows
<1>4. PICK end \in Int : end = After(t, n) + x
  <2>1. After(t, n) \in Int
    BY <1>3
  <2> QED  BY <2>1
<1>5. After(u, m) = end
  BY <1>1, <1>2, <1>4, CurveGrows
<1>6. PICK high \in Int : high = Max({top, end}) /\ high = IF top >= end THEN top ELSE end
  BY MaxOfTwo
<1>7. PICK deep \in Int : /\ deep = Max({fall, high - end})
                          /\ deep = IF fall >= high - end THEN fall ELSE high - end
  <2>1. high - end \in Int
    OBVIOUS
  <2> QED  BY <2>1, MaxOfTwo
<1>8. /\ \E i \in 0..n : top = After(t, i)
      /\ \A i \in 0..n : After(t, i) <= top
      /\ \E j \in 0..n : \E i \in 0..j : fall = After(t, i) - After(t, j)
      /\ \A j \in 0..n : \A i \in 0..j : After(t, i) - After(t, j) <= fall
  BY <1>1 DEF Extremes
<1>9. \A i \in 0..m : i \in 0..n \/ i = m
  BY <1>2
<1>10. \E i \in 0..m : high = After(u, i)
  <2>1. PICK i \in 0..n : top = After(t, i)
    BY <1>8
  <2>2. i \in 0..m /\ m \in 0..m /\ After(u, i) = top
    BY <1>2, <1>3, <2>1
  <2> QED  BY <1>5, <1>6, <2>2
<1>11. \A i \in 0..m : After(u, i) <= high
  <2>1. ASSUME NEW i \in 0..n PROVE After(u, i) <= high
    <3>1. After(u, i) = After(t, i) /\ After(t, i) \in Int /\ After(t, i) <= top
      BY <1>3, <1>8
    <3>2. top <= high
      BY <1>6
    <3> QED  BY <3>1, <3>2
  <2>2. After(u, m) <= high
    BY <1>5, <1>6
  <2> QED  BY <1>9, <2>1, <2>2
<1>12. \E j \in 0..m : \E i \in 0..j : deep = After(u, i) - After(u, j)
  <2>1. CASE fall >= high - end
    <3>1. PICK j \in 0..n : \E i \in 0..j : fall = After(t, i) - After(t, j)
      BY <1>8
    <3>2. PICK i \in 0..j : fall = After(t, i) - After(t, j)
      BY <3>1
    <3>3. i \in 0..n /\ j \in 0..m
      BY <1>2
    <3>4. After(u, i) = After(t, i) /\ After(u, j) = After(t, j)
      BY <1>3, <3>3
    <3> QED  BY <1>7, <2>1, <3>2, <3>3, <3>4
  <2>2. CASE ~(fall >= high - end)
    <3>1. m \in 0..m
      BY <1>2
    <3>2. deep = high - After(u, m)
      BY <1>5, <1>7, <2>2
    <3>3. PICK i \in 0..m : high = After(u, i)
      BY <1>10
    <3> QED  BY <3>1, <3>2, <3>3
  <2> QED  BY <2>1, <2>2
<1>13. \A j \in 0..m : \A i \in 0..j : After(u, i) - After(u, j) <= deep
  <2>1. ASSUME NEW j \in 0..n, NEW i \in 0..j PROVE After(u, i) - After(u, j) <= deep
    <3>1. i \in 0..n
      OBVIOUS
    <3>2. After(t, i) - After(t, j) <= fall /\ After(t, i) \in Int /\ After(t, j) \in Int
      BY <1>3, <1>8, <3>1
    <3>3. After(u, i) = After(t, i) /\ After(u, j) = After(t, j)
      BY <1>3, <3>1
    <3>4. fall <= deep
      BY <1>7
    <3> QED  BY <3>2, <3>3, <3>4
  <2>2. ASSUME NEW i \in 0..m PROVE After(u, i) - After(u, m) <= deep
    <3>1. After(u, i) <= high /\ After(u, i) \in Int
      BY <1>3, <1>5, <1>9, <1>11
    <3>2. high - end <= deep
      BY <1>7
    <3> QED  BY <1>5, <3>1, <3>2
  <2> QED  BY <1>9, <2>1, <2>2
<1>14. Extremes(u, m, high, deep)
  BY <1>10, <1>11, <1>12, <1>13 DEF Extremes
<1> QED  BY <1>1, <1>2, <1>4, <1>6, <1>7, <1>14

LEMMA PnLIsInt ==
    ASSUME NEW p \in Rounds, NEW raw \in Int
    PROVE  Replay!GrossPnL(p, raw) \in Int
<1>1. Qty \in Int /\ SlippageBps \in Int /\ p.side \in Int /\ p.px \in Int /\ -p.side \in Int
  BY ReplayAssumption DEF Rounds, Sides
<1>2. ASSUME NEW side \in Int PROVE Replay!Slipped(raw, side) \in Int
  <2>1. PICK q \in Int : q = raw * SlippageBps
    BY <1>1, OneMore
  <2>2. PICK d \in Int : d = q \div 10000
    OBVIOUS
  <2>3. side * d \in Int
    BY OneMore
  <2> QED  BY <2>1, <2>2, <2>3 DEF Replay!Slipped
<1>3. PICK d \in Int : d = Replay!Slipped(raw, -p.side) - p.px
  BY <1>1, <1>2
<1>4. PICK e \in Int : e = p.side * d
  BY <1>1, OneMore
<1>5. e * Qty \in Int
  BY <1>1, OneMore
<1> QED  BY <1>3, <1>4, <1>5 DEF Replay!GrossPnL

(* A round trip adds its net result, its gross result and two commissions. *)
LEMMA CloseAddsUp ==
    ASSUME NEW b, AddsUp(b), b.pos.side # 0, NEW raw \in Int
    PROVE  /\ AddsUp(Replay!CloseTrade(b, raw))
           /\ Replay!CloseTrade(b, raw).pos = Replay!Flat
<1>1. /\ b.pos \in Rounds /\ b.pos.fee = Commission /\ Commission \in Int /\ StartingCash \in Int
      /\ b.trades \in Seq(Int)
      /\ b.equity \in Int /\ b.gross \in Int /\ b.peak \in Int /\ b.maxDD \in Int
  BY ReplayAssumption DEF AddsUp
<1>2. PICK g \in Int : g = Replay!GrossPnL(b.pos, raw)
  BY <1>1, PnLIsInt
<1>3. PICK net \in Int : net = Replay!NetPnL(b.pos, raw) /\ net = (g - Commission) - Commission
  BY <1>1, <1>2 DEF Replay!NetPnL
<1>4. PICK eq \in Int : eq = b.equity + net
  BY <1>1
<1>5. PICK c : c = Replay!CloseTrade(b, raw)
  OBVIOUS
<1>6. PICK high : high = Max({b.peak, eq})
  OBVIOUS
<1>7. /\ c.pos = Replay!Flat /\ c.trades = Append(b.trades, net) /\ c.equity = eq
      /\ c.peak = high /\ c.maxDD = Max({b.maxDD, high - eq}) /\ c.gross = b.gross + g
  BY <1>2, <1>3, <1>4, <1>5, <1>6, ReplayHelpers DEF Replay!CloseTrade, Replay!Peak
<1>8. eq = After(b.trades, Len(b.trades)) + net
  BY <1>4 DEF AddsUp
<1>9. /\ high \in Int /\ Max({b.maxDD, high - eq}) \in Int
      /\ Extremes(Append(b.trades, net), Len(b.trades) + 1, high, Max({b.maxDD, high - eq}))
  BY <1>1, <1>6, <1>8, ExtremesGrow DEF AddsUp
<1>10. PICK n \in Nat : n = Len(b.trades)
  BY <1>1
<1>11. c.trades \in Seq(Int) /\ Len(c.trades) = n + 1
  BY <1>1, <1>7, <1>10
<1>16. "pos" \in DOMAIN c
  BY <1>5 DEF Replay!CloseTrade
<1>12. c.equity = After(c.trades, n + 1)
  BY <1>1, <1>7, <1>8, <1>10, CurveGrows
<1>13. c.gross - (c.equity - StartingCash) = (2 * Commission) * (n + 1)
  <2>1. b.gross - (b.equity - StartingCash) = (2 * Commission) * n
    BY <1>10 DEF AddsUp
  <2>2. PICK k \in Int : k = 2 * Commission
    BY <1>1
  <2>3. k * (n + 1) = k * n + k /\ k * n \in Int
    BY OneMore
  <2>4. c.gross - (c.equity - StartingCash) = (b.gross - (b.equity - StartingCash)) + k
    <3>1. PICK g0 \in Int, e0 \in Int : g0 = b.gross /\ e0 = b.equity
      BY <1>1
    <3>2. c.gross = g0 + g /\ c.equity = e0 + net /\ net = (g - Commission) - Commission
      BY <1>3, <1>4, <1>7, <3>1
    <3>3. PICK fee \in Int, cash \in Int : fee = Commission /\ cash = StartingCash
      BY <1>1
    <3>4. net = (g - fee) - fee /\ k = fee + fee
      BY <2>2, <3>2, <3>3
    <3>5. (g0 + g) - ((e0 + net) - cash) = (g0 - (e0 - cash)) + k
      BY <3>4
    <3> QED  BY <3>1, <3>2, <3>3, <3>5
  <2> QED  BY <2>1, <2>2, <2>3, <2>4
<1>14. Replay!Flat \in Rounds /\ Replay!Flat.side = 0
  BY DEF Replay!Flat, Rounds, Sides
<1>15. AddsUp(c)
  <2>1. c.pos \in Rounds /\ c.pos.side = 0
    BY <1>7, <1>14
  <2>2. c.equity \in Int /\ c.gross \in Int /\ c.peak \in Int /\ c.maxDD \in Int
    BY <1>1, <1>7, <1>9
  <2>3. Extremes(c.trades, Len(c.trades), c.peak, c.maxDD)
    BY <1>7, <1>9, <1>10, <1>11
  <2> QED  BY <2>1, <2>2, <2>3, <1>11, <1>12, <1>13, <1>16 DEF AddsUp
<1> QED  BY <1>5, <1>7, <1>15

LEMMA OpenedAddsUp ==
    ASSUME NEW b, AddsUp(b), NEW side \in Sides, NEW raw \in Int,
           NEW c, "pos" \in DOMAIN c, c.pos = Replay!Opened(side, raw), c.trades = b.trades, c.equity = b.equity,
           c.peak = b.peak, c.maxDD = b.maxDD, c.gross = b.gross
    PROVE  AddsUp(c) /\ c.pos.side = side
<1>1. SlippageBps \in Int /\ side \in Int /\ Commission \in Int
  BY ReplayAssumption DEF Sides
<1>2. PICK q \in Int : q = raw * SlippageBps
  BY <1>1, OneMore
<1>3. PICK d \in Int : d = q \div 10000
  OBVIOUS
<1>4. side * d \in Int
  BY <1>1, OneMore
<1>5. PICK px \in Int : px = Replay!Slipped(raw, side)
  BY <1>2, <1>3, <1>4 DEF Replay!Slipped
<1>6. PICK p : p = [side |-> side, px |-> px, fee |-> Commission]
  OBVIOUS
<1>7. p \in Rounds /\ p.fee = Commission /\ p.side = side /\ c.pos = p
  BY <1>1, <1>5, <1>6 DEF Rounds, Replay!Opened
<1> QED  BY <1>7 DEF AddsUp

LEMMA SameAddsUp ==
    ASSUME NEW b, AddsUp(b), NEW c, "pos" \in DOMAIN c, c.pos = b.pos, c.trades = b.trades, c.equity = b.equity,
           c.peak = b.peak, c.maxDD = b.maxDD, c.gross = b.gross
    PROVE  AddsUp(c)
BY DEF AddsUp

(* The open of a bar: pending fills are done, and the position is the one  *)
(* the strategy believes in.                                               *)
LEMMA OpensSettle ==
    ASSUME ReplayInv, ~done, NEW open \in Prices
    PROVE  /\ AddsUp(Replay!AfterOpen(open)) /\ Replay!AfterOpen(open).pos.side = view
           /\ Replay!EntryPending(open) = 0 /\ ~Replay!ExitPending
<1>0. open \in Int
  BY ReplayAssumption
<1>1. /\ Replay!Book.pos = pos /\ AddsUp(Replay!Book)
      /\ view \in Sides /\ pendEntry \in Sides /\ pos.side \in Sides
      /\ nextOpen \in BOOLEAN /\ pendExit \in BOOLEAN
  BY DEF Replay!Book, ReplayInv, ReplayTypes, Rounds
<1>2. CASE pendExit
  <2>1. nextOpen /\ pos.side # 0 /\ pendEntry = 0 /\ view = 0
    BY <1>2 DEF ReplayInv, PendingInv, Replay!Heading
  <2>2. Replay!AfterExit(open) = Replay!CloseTrade(Replay!Book, open) /\ ~Replay!ExitPending
    BY <1>2, <2>1 DEF Replay!AfterExit, Replay!ExitFills, Replay!ExitPending
  <2>3. Replay!AfterOpen(open) = Replay!AfterExit(open) /\ Replay!EntryPending(open) = 0
    BY <2>1 DEF Replay!AfterOpen, Replay!EntryFills, Replay!EntryPending
  <2>4. AddsUp(Replay!AfterOpen(open)) /\ Replay!AfterOpen(open).pos = Replay!Flat
    BY <1>0, <1>1, <2>1, <2>2, <2>3, CloseAddsUp
  <2>5. Replay!Flat.side = 0
    BY DEF Replay!Flat
  <2> QED  BY <2>1, <2>2, <2>3, <2>4, <2>5
<1>3. CASE ~pendExit
  <2>1. Replay!AfterExit(open) = Replay!Book /\ ~Replay!ExitPending
    BY <1>3 DEF Replay!AfterExit, Replay!ExitFills, Replay!ExitPending
  <2>2. CASE pendEntry = 0
    <3>1. view = pos.side
      BY <1>3, <2>2 DEF ReplayInv, PendingInv, Replay!Heading
    <3>2. Replay!AfterOpen(open) = Replay!Book /\ Replay!EntryPending(open) = 0
      BY <2>1, <2>2 DEF Replay!AfterOpen, Replay!EntryFills, Replay!EntryPending
    <3> QED  BY <1>1, <2>1, <3>1, <3>2
  <2>3. CASE pendEntry # 0
    <3>1. nextOpen /\ pos.side = 0 /\ view = pendEntry
      BY <2>3 DEF ReplayInv, PendingInv, Replay!Heading
    <3>2. Replay!EntryFills(Replay!Book)
      BY <1>1, <2>3, <3>1 DEF Replay!EntryFills
    <3>3. Replay!AfterOpen(open) = [Replay!Book EXCEPT !.pos = Replay!Opened(pendEntry, open)]
          /\ Replay!EntryPending(open) = 0
      BY <2>1, <3>2 DEF Replay!AfterOpen, Replay!EntryPending
    <3>4. PICK c : c = Replay!AfterOpen(open)
      OBVIOUS
    <3>5. /\ c.pos = Replay!Opened(pendEntry, open) /\ c.trades = Replay!Book.trades
          /\ c.equity = Replay!Book.equity /\ c.peak = Replay!Book.peak
          /\ c.maxDD = Replay!Book.maxDD /\ c.gross = Replay!Book.gross
      BY <3>3, <3>4 DEF Replay!Book
    <3>7. "pos" \in DOMAIN c
      BY <3>3, <3>4 DEF Replay!Book
    <3>6. AddsUp(c) /\ c.pos.side = pendEntry
      BY <1>0, <1>1, <3>5, <3>7, OpenedAddsUp
    <3> QED  BY <2>1, <3>1, <3>3, <3>4, <3>6
  <2> QED  BY <2>2, <2>3
<1> QED  BY <1>1, <1>2, <1>3

(* The variables hold a ledger that was recorded. *)
LEMMA RecordedLedger ==
    ASSUME NEW b, AddsUp(b), Replay!Record(b)
    PROVE  AddsUp(Replay!Book)' /\ pos' = b.pos /\ pos' \in Rounds
<1>1. /\ pos' = b.pos /\ trades' = b.trades /\ money' = b.equity
      /\ peak' = b.peak /\ maxDD' = b.maxDD /\ gross' = b.gross
  BY DEF Replay!Record
<1>2. PICK c : c = Replay!Book'
  OBVIOUS
<1>3. /\ c.pos = b.pos /\ c.trades = b.trades /\ c.equity = b.equity
      /\ c.peak = b.peak /\ c.maxDD = b.maxDD /\ c.gross = b.gross
  BY <1>1, <1>2 DEF Replay!Book
<1>6. "pos" \in DOMAIN c
  BY <1>2 DEF Replay!Book
<1>4. AddsUp(c)
  BY <1>3, <1>6, SameAddsUp
<1>5. AddsUp(Replay!Book)' = AddsUp(c)
  BY <1>2 DEF AddsUp, After, Extremes
<1> QED  BY <1>1, <1>4, <1>5 DEF AddsUp

(* The answer to a signal: filled at the close, or scheduled. *)
LEMMA RouteSettles ==
    ASSUME ReplayInv, ~done, NEW b, AddsUp(b), b.pos.side = view, NEW s, Sound(s),
           NEW close \in Prices, ~Replay!ExitPending,
           Replay!Route(s, b, 0, close), view' = s.view,
           UNCHANGED <<strat, nextOpen, done>>
    PROVE  /\ AddsUp(Replay!Book)' /\ PendingInv' /\ pos' \in Rounds
           /\ view' \in Sides /\ pendEntry' \in Sides /\ pendExit' \in BOOLEAN
<1>0. close \in Int
  BY ReplayAssumption
<1>1. view \in Sides /\ s.view \in Sides /\ nextOpen \in BOOLEAN
  BY DEF Sound, ReplayInv, ReplayTypes, Sides
<1> DEFINE enters == s.action = "enter" /\ b.pos.side = 0 /\ 0 = 0
           exits  == s.action = "exit" /\ b.pos.side # 0 /\ ~Replay!ExitPending
<1>2. /\ pendEntry' = IF enters /\ nextOpen THEN s.view ELSE 0
      /\ pendExit' = (exits /\ nextOpen)
      /\ Replay!Record(IF ~nextOpen /\ enters THEN [b EXCEPT !.pos = Replay!Opened(s.view, close)]
                       ELSE IF ~nextOpen /\ exits THEN Replay!CloseTrade(b, close)
                       ELSE b)
  BY DEF Replay!Route
<1>3. nextOpen' = nextOpen /\ done' = done
  OBVIOUS
<1>4. CASE enters
  <2>1. view = 0 /\ s.view \in {1, -1} /\ ~exits
    BY <1>4 DEF Sound
  <2>2. CASE nextOpen
    <3>1. pendEntry' = s.view /\ ~pendExit' /\ pendExit' \in BOOLEAN /\ Replay!Record(b)
      BY <1>2, <1>4, <2>1, <2>2
    <3>2. AddsUp(Replay!Book)' /\ pos' = b.pos /\ pos' \in Rounds
      BY <3>1, RecordedLedger
    <3>3. PendingInv'
      BY <1>3, <2>1, <2>2, <3>1, <3>2 DEF PendingInv, Replay!Heading
    <3> QED  BY <1>1, <3>1, <3>2, <3>3
  <2>3. CASE ~nextOpen
    <3>1. PICK c : c = [b EXCEPT !.pos = Replay!Opened(s.view, close)]
      OBVIOUS
    <3>2. pendEntry' = 0 /\ ~pendExit' /\ pendExit' \in BOOLEAN /\ Replay!Record(c)
      BY <1>2, <1>4, <2>1, <2>3, <3>1
    <3>3. /\ c.trades = b.trades /\ c.equity = b.equity
          /\ c.peak = b.peak /\ c.maxDD = b.maxDD /\ c.gross = b.gross
      BY <3>1
    <3>4. c.pos = Replay!Opened(s.view, close)
      BY <3>1 DEF AddsUp
    <3>8. "pos" \in DOMAIN c
      BY <3>1 DEF AddsUp
    <3>5. AddsUp(c) /\ c.pos.side = s.view
      BY <1>0, <1>1, <3>3, <3>4, <3>8, OpenedAddsUp
    <3>6. AddsUp(Replay!Book)' /\ pos' = c.pos /\ pos' \in Rounds
      BY <3>2, <3>5, RecordedLedger
    <3>7. PendingInv'
      BY <1>3, <2>1, <2>3, <3>2, <3>5, <3>6 DEF PendingInv, Replay!Heading
    <3> QED  BY <1>1, <3>2, <3>6, <3>7, Zenon DEF Sides
  <2> QED  BY <1>1, <2>2, <2>3
<1>5. CASE exits
  <2>1. view # 0 /\ s.view = 0 /\ ~enters
    BY <1>5 DEF Sound
  <2>2. CASE nextOpen
    <3>1. pendEntry' = 0 /\ pendExit' /\ pendExit' \in BOOLEAN /\ Replay!Record(b)
      BY <1>2, <1>5, <2>1, <2>2
    <3>2. AddsUp(Replay!Book)' /\ pos' = b.pos /\ pos' \in Rounds
      BY <3>1, RecordedLedger
    <3>3. PendingInv'
      BY <1>3, <2>1, <2>2, <3>1, <3>2 DEF PendingInv, Replay!Heading
    <3> QED  BY <1>1, <3>1, <3>2, <3>3 DEF Sides
  <2>3. CASE ~nextOpen
    <3>1. pendEntry' = 0 /\ ~pendExit' /\ pendExit' \in BOOLEAN
          /\ Replay!Record(Replay!CloseTrade(b, close))
      BY <1>2, <1>5, <2>1, <2>3
    <3>2. AddsUp(Replay!CloseTrade(b, close)) /\ Replay!CloseTrade(b, close).pos = Replay!Flat
      BY <1>0, <2>1, CloseAddsUp
    <3>3. AddsUp(Replay!Book)' /\ pos' = Replay!Flat /\ pos' \in Rounds
      BY <3>1, <3>2, RecordedLedger
    <3>4. PendingInv'
      BY <1>3, <2>1, <2>3, <3>1, <3>3 DEF PendingInv, Replay!Heading, Replay!Flat
    <3> QED  BY <1>1, <3>1, <3>3, <3>4 DEF Sides
  <2> QED  BY <1>1, <2>2, <2>3
<1>6. CASE ~enters /\ ~exits
  <2>1. s.view = view
    BY <1>6 DEF Sound
  <2>2. pendEntry' = 0 /\ ~pendExit' /\ pendExit' \in BOOLEAN /\ Replay!Record(b)
    BY <1>2, <1>6
  <2>3. AddsUp(Replay!Book)' /\ pos' = b.pos /\ pos' \in Rounds
    BY <2>2, RecordedLedger
  <2>4. PendingInv'
    BY <1>3, <2>1, <2>2, <2>3 DEF PendingInv, Replay!Heading
  <2> QED  BY <1>1, <2>2, <2>3, <2>4 DEF Sides
<1> QED  BY <1>4, <1>5, <1>6

LEMMA BarKeepsReplay ==
    ASSUME ReplayInv, NEW open \in Prices, NEW close \in Prices, Replay!Bar(open, close)
    PROVE  ReplayInv'
<1>1. /\ ~done /\ UNCHANGED <<strat, nextOpen, done>>
      /\ bars' = Append(bars, [open |-> open, close |-> close])
  BY DEF Replay!Bar
<1>2. PICK s \in Replay!Signals(Len(bars')) :
        view' = s.view /\ Replay!Route(s, Replay!AfterOpen(open), Replay!EntryPending(open), close)
  BY DEF Replay!Bar
<1>3. Sound(s)
  <2>1. ReplayTypes
    BY DEF ReplayInv
  <2> QED  BY <1>2, <2>1, SignalsAreSound
<1>4. PICK b : b = Replay!AfterOpen(open)
  OBVIOUS
<1>5. AddsUp(b) /\ b.pos.side = view /\ Replay!EntryPending(open) = 0 /\ ~Replay!ExitPending
  BY <1>1, <1>4, OpensSettle
<1>6. Replay!Route(s, b, 0, close)
  BY <1>2, <1>4, <1>5
<1>7. /\ AddsUp(Replay!Book)' /\ PendingInv' /\ pos' \in Rounds
      /\ view' \in Sides /\ pendEntry' \in Sides /\ pendExit' \in BOOLEAN
  BY <1>1, <1>2, <1>3, <1>5, <1>6, RouteSettles
<1>8. bars' \in Seq([open : Prices, close : Prices])
  <2>1. [open |-> open, close |-> close] \in [open : Prices, close : Prices]
    OBVIOUS
  <2>2. bars \in Seq([open : Prices, close : Prices])
    BY DEF ReplayInv, ReplayTypes
  <2> QED  BY <1>1, <2>1, <2>2
<1>9. strat' = strat /\ nextOpen' = nextOpen /\ done' = done
  BY <1>1
<1> QED  BY <1>7, <1>8, <1>9 DEF ReplayInv, ReplayTypes

LEMMA FinishKeepsReplay == ASSUME ReplayInv, Replay!Finish PROVE ReplayInv'
<1>1. /\ ~done /\ bars # <<>> /\ done' = TRUE
      /\ UNCHANGED <<strat, nextOpen, bars, view, pendEntry, pendExit>>
      /\ Replay!Record(IF pos.side # 0 THEN Replay!CloseTrade(Replay!Book, Last(bars).close)
                       ELSE Replay!Book)
  BY ReplayHelpers DEF Replay!Finish
<1>2. PICK close \in Int : close = Last(bars).close
  <2>1. bars \in Seq([open : Prices, close : Prices])
    BY DEF ReplayInv, ReplayTypes
  <2>3. PICK n \in Nat : n = Len(bars)
    BY <2>1
  <2>4. n # 0
    BY <1>1, <2>1, <2>3
  <2>5. n \in 1..Len(bars)
    BY <2>3, <2>4
  <2>6. Last(bars) = bars[n]
    BY <2>3 DEF Last
  <2>8. PICK T : T = [open : Prices, close : Prices]
    OBVIOUS
  <2>9. \A i \in 1..Len(bars) : bars[i] \in T
    <3>1. PICK u \in Seq(T) : u = bars
      BY <2>1, <2>8, Zenon
    <3>2. \A i \in 1..Len(u) : u[i] \in T
      OBVIOUS
    <3> QED  BY <3>1, <3>2
  <2>7. \A i \in 1..Len(bars) : bars[i] \in [open : Prices, close : Prices]
    BY <2>8, <2>9
  <2>2. Last(bars) \in [open : Prices, close : Prices]
    BY <2>5, <2>6, <2>7
  <2> QED  BY <2>2, ReplayAssumption
<1>3. AddsUp(Replay!Book) /\ Replay!Book.pos = pos
  BY DEF ReplayInv, Replay!Book
<1>4. AddsUp(Replay!Book)' /\ pos'.side = 0 /\ pos' \in Rounds
  <2>1. CASE pos.side # 0
    <3>1. /\ AddsUp(Replay!CloseTrade(Replay!Book, close))
          /\ Replay!CloseTrade(Replay!Book, close).pos = Replay!Flat
      BY <1>3, <2>1, CloseAddsUp
    <3>2. Replay!Record(Replay!CloseTrade(Replay!Book, close))
      BY <1>1, <1>2, <2>1
    <3> QED  BY <3>1, <3>2, RecordedLedger DEF Replay!Flat
  <2>2. CASE pos.side = 0
    BY <1>1, <1>3, <2>2, RecordedLedger
  <2> QED  BY <2>1, <2>2
<1>5. PendingInv'
  BY <1>1, <1>4 DEF PendingInv
<1>6. ReplayTypes'
  BY <1>1, <1>4 DEF ReplayInv, ReplayTypes
<1> QED  BY <1>4, <1>5, <1>6 DEF ReplayInv

LEMMA ReplayInit == ASSUME Replay!Init PROVE ReplayInv
<1>1. /\ strat \in {"momentum", "breakout", "mean_reversion"} /\ nextOpen \in BOOLEAN
      /\ bars = <<>> /\ view = 0 /\ pos = Replay!Flat /\ pendEntry = 0 /\ pendExit = FALSE
      /\ trades = <<>> /\ gross = 0 /\ maxDD = 0 /\ money = StartingCash /\ peak = StartingCash
      /\ done = FALSE
  BY DEF Replay!Init
<1>2. Replay!Flat \in Rounds /\ Replay!Flat.side = 0 /\ 0 \in Sides
  BY DEF Replay!Flat, Rounds, Sides
<1>12. bars \in Seq([open : Prices, close : Prices])
  <2>1. <<>> \in Seq([open : Prices, close : Prices])
    OBVIOUS
  <2> QED  BY <1>1, <2>1
<1>13. pos.side = 0 /\ pendExit \in BOOLEAN /\ done \in BOOLEAN
  BY <1>1, <1>2
<1>14. ReplayTypes
  BY <1>1, <1>2, <1>12, <1>13 DEF ReplayTypes
<1>15. PendingInv
  BY <1>1, <1>13 DEF PendingInv, Replay!Heading
<1>3. ReplayTypes /\ PendingInv
  BY <1>14, <1>15
<1>4. StartingCash \in Int /\ Commission \in Int
  BY ReplayAssumption
<1>16. <<>> \in Seq(Int)
  OBVIOUS
<1>5. PICK none \in Seq(Int) : none = <<>>
  BY <1>16
<1>6. After(none, 0) = StartingCash /\ Len(none) = 0
  <2>1. SumFunctionOnSet(none, 1..0) = 0
    BY SumEmpty
  <2> QED  BY <1>4, <1>5, <2>1 DEF After
<1>7. PICK b : b = Replay!Book
  OBVIOUS
<1>8. /\ b.pos = pos /\ b.trades = none /\ b.gross = 0 /\ b.maxDD = 0
      /\ b.equity = StartingCash /\ b.peak = StartingCash /\ "pos" \in DOMAIN b
  BY <1>1, <1>5, <1>7 DEF Replay!Book
<1>9. Extremes(none, 0, StartingCash, 0)
  <2>1. \A i \in 0..0 : i = 0
    OBVIOUS
  <2>2. 0 \in 0..0
    OBVIOUS
  <2> QED  BY <1>4, <1>6, <2>1, <2>2 DEF Extremes
<1>10. b.gross - (b.equity - StartingCash) = (2 * Commission) * 0
  BY <1>4, <1>8
<1>11. AddsUp(b)
  BY <1>1, <1>2, <1>4, <1>6, <1>8, <1>9, <1>10 DEF AddsUp
<1> QED  BY <1>3, <1>7, <1>11 DEF ReplayInv

LEMMA ReplayNext == ASSUME ReplayInv, [Replay!Next]_(Replay!vars) PROVE ReplayInv'
<1>1. CASE Replay!Next
  <2>1. CASE Replay!Finish
    BY <2>1, FinishKeepsReplay
  <2>2. CASE \E o, c \in Prices : Replay!Bar(o, c)
    <3>1. PICK o \in Prices, c \in Prices : Replay!Bar(o, c)
      BY <2>2
    <3> QED  BY <3>1, BarKeepsReplay
  <2> QED  BY <1>1, <2>1, <2>2 DEF Replay!Next
<1>2. CASE UNCHANGED Replay!vars
  <2>1. UNCHANGED <<strat, nextOpen, bars, view, pos, pendEntry, pendExit, trades, money,
                    peak, maxDD, gross, done>>
    BY <1>2 DEF Replay!vars
  <2> QED  BY <2>1 DEF ReplayInv, ReplayTypes, PendingInv, Replay!Heading, AddsUp, Replay!Book,
                     After, Extremes
<1> QED  BY <1>1, <1>2

(***************************************************************************)
(* A strategy's idea of its position is the one the backtester holds or    *)
(* has scheduled, on every bar of every run.                               *)
(***************************************************************************)
THEOREM StrategyAndEngineAgree == DeskSpec => []ViewsAgree
<1> DEFINE Inv == part = "replay" => ReplayInv
<1>1. DeskInit => Inv
  BY ReplayInit DEF DeskInit
<1>2. Inv /\ [DeskNext]_deskVars => Inv'
  <2> SUFFICES ASSUME Inv, [DeskNext]_deskVars, part' = "replay" PROVE ReplayInv'
    OBVIOUS
  <2>1. part = "replay" /\ [Replay!Next]_(Replay!vars)
    BY DEF DeskNext, deskVars, testVars, Replay!vars
  <2> QED  BY <2>1, ReplayNext
<1>3. Inv => ViewsAgree
  BY DEF ViewsAgree, Replay!ViewsAgree, ReplayInv, PendingInv
<1> QED  BY <1>1, <1>2, <1>3, PTL DEF DeskSpec

(* A ledger that adds up is the curve's, with its extremes. *)
LEMMA CurveIsLedger == ASSUME ReplayInv PROVE Replay!LedgerAddsUp
<1>1. PICK t : t = trades
  OBVIOUS
<1>2. /\ t \in Seq(Int) /\ money \in Int /\ gross \in Int /\ maxDD \in Int
      /\ money = After(t, Len(t))
      /\ Extremes(t, Len(t), peak, maxDD)
      /\ gross - (money - StartingCash) = (2 * Commission) * Len(t)
  BY <1>1 DEF ReplayInv, AddsUp, Replay!Book
<1>3. PICK n \in Nat : n = Len(t)
  BY <1>2
<1>4. PICK curve : curve = Replay!Curve
  OBVIOUS
<1>5. DOMAIN curve = 0..n /\ \A k \in 0..n : curve[k] = After(t, k)
  BY <1>1, <1>3, <1>4, ReplayHelpers DEF Replay!Curve, After
<1>6. n \in 0..n
  OBVIOUS
<1>7. money = curve[n]
  BY <1>2, <1>3, <1>5, <1>6
<1>8. \A k \in 0..n : curve[k] \in Int
  BY <1>2, <1>3, <1>5, CurveGrows
<1>9. PICK falls : falls = Replay!Falls
  OBVIOUS
<1>10. falls = UNION {{curve[i] - curve[j] : i \in 0..j} : j \in DOMAIN curve}
  BY <1>4, <1>9 DEF Replay!Falls
<1>11. maxDD \in falls
  <2>1. PICK j \in 0..n : \E i \in 0..j : maxDD = After(t, i) - After(t, j)
    BY <1>2, <1>3 DEF Extremes
  <2>2. PICK i \in 0..j : maxDD = After(t, i) - After(t, j)
    BY <2>1
  <2>3. i \in 0..n
    OBVIOUS
  <2>4. maxDD = curve[i] - curve[j]
    BY <1>5, <2>2, <2>3
  <2>5. maxDD \in {curve[h] - curve[j] : h \in 0..j}
    BY <2>4
  <2> QED  BY <1>5, <1>10, <2>5
<1>12. \A x \in falls : x \in Int /\ x <= maxDD
  <2> SUFFICES ASSUME NEW x \in falls PROVE x \in Int /\ x <= maxDD
    OBVIOUS
  <2>1. PICK j \in 0..n : x \in {curve[h] - curve[j] : h \in 0..j}
    BY <1>5, <1>10
  <2>2. PICK i \in 0..j : x = curve[i] - curve[j]
    BY <2>1
  <2>3. i \in 0..n
    OBVIOUS
  <2>4. x = After(t, i) - After(t, j) /\ x \in Int
    BY <1>5, <1>8, <2>2, <2>3
  <2> QED  BY <1>2, <1>3, <2>4 DEF Extremes
<1>13. maxDD = Max(falls)
  <2>1. \A x \in falls : (\A y \in falls : x >= y) => x = maxDD
    BY <1>2, <1>11, <1>12
  <2>2. \A y \in falls : maxDD >= y
    BY <1>2, <1>12
  <2> QED  BY <1>11, <2>1, <2>2 DEF Max
<1>14. maxDD = Replay!Max(Replay!Falls)
  BY <1>9, <1>13, ReplayHelpers
<1>15. money = Replay!Curve[Len(trades)]
  BY <1>1, <1>3, <1>4, <1>7
<1>16. gross - (money - StartingCash) = 2 * Commission * Len(trades)
  BY <1>1, <1>2
<1>17. done => pos.side = 0
  BY DEF ReplayInv, PendingInv
<1> QED  BY <1>14, <1>15, <1>16, <1>17 DEF Replay!LedgerAddsUp

(***************************************************************************)
(* The report's cash, costs and drawdown are those of the trades whatever  *)
(* their number, prices, slippage and commission, and the run ends flat.   *)
(***************************************************************************)
THEOREM ReportAddsUp == DeskSpec => []LedgerAddsUp
<1> DEFINE Inv == part = "replay" => ReplayInv
<1>1. DeskInit => Inv
  BY ReplayInit DEF DeskInit
<1>2. Inv /\ [DeskNext]_deskVars => Inv'
  <2> SUFFICES ASSUME Inv, [DeskNext]_deskVars, part' = "replay" PROVE ReplayInv'
    OBVIOUS
  <2>1. part = "replay" /\ [Replay!Next]_(Replay!vars)
    BY DEF DeskNext, deskVars, testVars, Replay!vars
  <2> QED  BY <2>1, ReplayNext
<1>3. Inv => LedgerAddsUp
  BY CurveIsLedger DEF LedgerAddsUp
<1> QED  BY <1>1, <1>2, <1>3, PTL DEF DeskSpec

(***************************************************************************)
(* The risk engine before a book.                                          *)
(***************************************************************************)
LEMMA SignOfProduct ==
    ASSUME NEW a \in Int, NEW b \in Int
    PROVE  /\ a * b \in Int
           /\ a * b > 0 <=> (a > 0 /\ b > 0) \/ (a < 0 /\ b < 0)
           /\ a * b = 0 <=> a = 0 \/ b = 0
  OBVIOUS

LEMMA WholeAverage ==
    ASSUME NEW x \in Nat, NEW d \in Nat \ {0}
    PROVE  /\ x \div d \in Nat
           /\ x % d = 0 => d * (x \div d) = x
  OBVIOUS

LEMMA Monotone ==
    ASSUME NEW k \in Nat, NEW a \in Int, NEW b \in Int, a <= b
    PROVE  k * a <= k * b
  OBVIOUS

(* The first limit that trips is a limit. *)
LEMMA FirstOfLimits ==
    ASSUME NEW S \in SUBSET (1..8), S # {}
    PROVE  Engine!Min(S) \in 1..8
<1>1. PICK n \in S : \A y \in S : n <= y
  BY LeastNat
<1>2. Engine!Min(S) \in S
  BY <1>1 DEF Engine!Min
<1> QED  BY <1>2

LEMMA ApprovedIff ==
    ASSUME NEW cfg, NEW p, NEW ps
    PROVE  Engine!CheckOrder(cfg, p, ps) = "None" <=>
              \A i \in 1..8 : ~Engine!Trips(Engine!LimitNames[i], cfg, p, ps)
<1> DEFINE tripped == {i \in DOMAIN Engine!LimitNames :
                          Engine!Trips(Engine!LimitNames[i], cfg, p, ps)}
<1>1. DOMAIN Engine!LimitNames = 1..8
  BY DEF Engine!LimitNames
<1>2. \A i \in 1..8 : Engine!LimitNames[i] # "None"
  BY DEF Engine!LimitNames
<1>3. Engine!CheckOrder(cfg, p, ps) =
        IF tripped = {} THEN "None" ELSE Engine!LimitNames[Engine!Min(tripped)]
  BY DEF Engine!CheckOrder
<1>4. tripped \in SUBSET (1..8)
  BY <1>1
<1>5. tripped # {} => Engine!CheckOrder(cfg, p, ps) # "None"
  <2> HIDE DEF tripped
  <2> QED  BY <1>2, <1>3, <1>4, FirstOfLimits
<1>6. tripped = {} <=> \A i \in 1..8 : ~Engine!Trips(Engine!LimitNames[i], cfg, p, ps)
  BY <1>1
<1> QED  BY <1>3, <1>5, <1>6

(* The eight limits by name. *)
LEMMA ApprovedByName ==
    ASSUME NEW cfg, NEW p, NEW ps
    PROVE  Engine!CheckOrder(cfg, p, ps) = "None" <=>
              /\ ~Engine!Trips("InvalidInput", cfg, p, ps)
              /\ ~Engine!Trips("MissingStop", cfg, p, ps)
              /\ ~Engine!Trips("DailyLoss", cfg, p, ps)
              /\ ~Engine!Trips("PerTradeRisk", cfg, p, ps)
              /\ ~Engine!Trips("GrossLeverage", cfg, p, ps)
              /\ ~Engine!Trips("TotalExposure", cfg, p, ps)
              /\ ~Engine!Trips("Concentration", cfg, p, ps)
              /\ ~Engine!Trips("MaxOpenPositions", cfg, p, ps)
<1>1. /\ Engine!LimitNames[1] = "InvalidInput" /\ Engine!LimitNames[2] = "MissingStop"
      /\ Engine!LimitNames[3] = "DailyLoss" /\ Engine!LimitNames[4] = "PerTradeRisk"
      /\ Engine!LimitNames[5] = "GrossLeverage" /\ Engine!LimitNames[6] = "TotalExposure"
      /\ Engine!LimitNames[7] = "Concentration" /\ Engine!LimitNames[8] = "MaxOpenPositions"
  BY DEF Engine!LimitNames
<1> DEFINE Trip(name) == Engine!Trips(name, cfg, p, ps)
<1> HIDE DEF Trip
<1>2. \A i \in 1..8 : i = 1 \/ i = 2 \/ i = 3 \/ i = 4 \/ i = 5 \/ i = 6 \/ i = 7 \/ i = 8
  OBVIOUS
<1>3. (\A i \in 1..8 : ~Trip(Engine!LimitNames[i])) <=>
              /\ ~Trip("InvalidInput") /\ ~Trip("MissingStop") /\ ~Trip("DailyLoss")
              /\ ~Trip("PerTradeRisk") /\ ~Trip("GrossLeverage") /\ ~Trip("TotalExposure")
              /\ ~Trip("Concentration") /\ ~Trip("MaxOpenPositions")
  BY <1>1, <1>2
<1> QED  BY <1>3, ApprovedIff DEF Trip

(* The engine's sums over a book are those of the library. *)
Exposures(ps) == [s \in DOMAIN ps.positions |-> Engine!SymbolExposure(ps, s)]

LEMMA GrossIsSum ==
    ASSUME NEW ps, NEW D, D = DOMAIN ps.positions, IsFiniteSet(D)
    PROVE  Engine!GrossExposure(ps) = SumFunctionOnSet(Exposures(ps), D)
<1> DEFINE P(g) == g = [s \in SUBSET D |-> IF s = {} THEN 0 ELSE
                            Engine!SymbolExposure(ps, CHOOSE x \in s : TRUE) + g[s \ {CHOOSE x \in s : TRUE}]]
<1>1. \A g : P(g) <=> SumTable(g, Exposures(ps), D)
  <2> TAKE g
  <2>1. \A s \in SUBSET D : s # {} => Pick(s) \in D
    BY DEF Pick
  <2>2. \A x \in D : Exposures(ps)[x] = Engine!SymbolExposure(ps, x)
    BY DEF Exposures
  <2>3. P(g) <=> g = [s \in SUBSET D |-> IF s = {} THEN 0 ELSE
                            Engine!SymbolExposure(ps, Pick(s)) + g[s \ {Pick(s)}]]
    BY DEF Pick
  <2> HIDE DEF P
  <2> QED  BY <2>1, <2>2, <2>3 DEF SumTable
<1>2. Engine!GrossExposure(ps) = (CHOOSE g : P(g))[D]
  BY DEF Engine!GrossExposure, Engine!MapThenSumSet, Engine!MapThenFoldSet
<1> HIDE DEF P
<1>3. PICK h : SumTable(h, Exposures(ps), D) /\ SumFunctionOnSet(Exposures(ps), D) = h[D]
  BY SumIsInTable
<1>4. P(CHOOSE g : P(g))
  BY <1>1, <1>3
<1>5. PICK k : k = (CHOOSE g : P(g))
  OBVIOUS
<1>6. SumTable(k, Exposures(ps), D) /\ Engine!GrossExposure(ps) = k[D]
  BY <1>1, <1>2, <1>4, <1>5
<1>7. D \in SUBSET D
  OBVIOUS
<1>8. k[D] = h[D]
  BY <1>3, <1>6, <1>7, TablesAgree
<1> QED  BY <1>3, <1>6, <1>8

(* A book: finitely many positions, none empty, with marks that are amounts. *)
BookTypes ==
    /\ IsFiniteSet(DOMAIN positions)
    /\ \A s \in DOMAIN positions : /\ positions[s].qty \in Int \ {0}
                                   /\ positions[s].mark \in Nat
    /\ money \in Int /\ realized \in Int

(* A proposal is a trade of a positive quantity at a positive price. *)
LEMMA ProposalTypes ==
    ASSUME NEW p \in Engine!Proposals
    PROVE  /\ p.sym \in Symbols /\ p.side \in {"Buy", "Sell"}
           /\ p.qty \in Nat \ {0} /\ p.entry \in Nat \ {0} /\ p.stop \in Nat
<1>1. /\ p.sym \in Symbols /\ p.side \in {"Buy", "Sell"} /\ p.qty \in Quantities
      /\ p.entry \in BookPrices /\ p.stop \in BookPrices \cup {0}
  BY DEF Engine!Proposals
<1> QED  BY <1>1, BookAssumption

(* What a fill makes of the position, and what the engine expects of it. *)
LEMMA FillIsForeseen ==
    ASSUME BookTypes, NEW p \in Engine!Proposals
    PROVE  /\ Engine!Netted(p).qty \in Int
           /\ Engine!QtyHeld(Engine!Snapshot, p.sym) = 0 => Engine!Netted(p).qty # 0
           /\ Engine!Netted(p).qty # 0 => Engine!Netted(p).mark \in Nat
           /\ Engine!Netted(p).qty = 0 => Engine!SymbolExposureAfter(p, Engine!Snapshot) = 0
           /\ Engine!Netted(p).qty # 0 /\ Engine!WholeFill(p) =>
                 Engine!Magnitude(Engine!Netted(p).qty) * Engine!Netted(p).mark
                     = Engine!SymbolExposureAfter(p, Engine!Snapshot)
           /\ Engine!SymbolExposureAfter(p, Engine!Snapshot) \in Int
<1>1. PICK q \in Nat \ {0}, px \in Nat \ {0} : q = p.qty /\ px = p.entry
  BY ProposalTypes
<1>2. p.side \in {"Buy", "Sell"}
  BY ProposalTypes
<1> DEFINE isHeld == Engine!Held(Engine!Snapshot, p.sym)
<1>4. /\ Engine!Snapshot.positions = positions
      /\ isHeld <=> p.sym \in DOMAIN positions
  BY DEF Engine!Held, Engine!Snapshot
<1>5. PICK have \in Int : have = Engine!QtyHeld(Engine!Snapshot, p.sym)
  BY <1>4 DEF Engine!QtyHeld, BookTypes
<1>6. /\ isHeld => have = positions[p.sym].qty /\ have # 0
      /\ ~isHeld => have = 0
  BY <1>4, <1>5 DEF Engine!QtyHeld, BookTypes
<1>7. PICK mk \in Nat : mk = IF isHeld THEN positions[p.sym].mark ELSE 0
  BY <1>4 DEF BookTypes
<1>8. PICK move \in Int : move = Engine!Signed(p) /\ (p.side = "Buy" => move = q)
                          /\ (p.side = "Sell" => move = -q)
  BY <1>1, <1>2 DEF Engine!Signed
<1>9. move # 0 /\ Engine!Magnitude(move) = q
  BY <1>2, <1>8 DEF Engine!Magnitude
<1>10. PICK size \in Nat : size = Engine!Magnitude(have) /\ (have >= 0 => size = have)
                           /\ (have < 0 => size = -have)
  BY DEF Engine!Magnitude
<1>11. PICK left \in Nat : left = Engine!Magnitude(have + move)
                           /\ (have + move >= 0 => left = have + move)
                           /\ (have + move < 0 => left = -(have + move))
  BY DEF Engine!Magnitude
<1>12. PICK cost \in Nat, old \in Nat : cost = q * px /\ old = size * mk
  BY Positive
<1>13. PICK n : n = Engine!Netted(p)
  OBVIOUS
<1>14. /\ n.qty = have + move
       /\ n.mark = CASE have * move >= 0 -> (old + cost) \div left
                     [] have * move < 0 /\ have * (have + move) > 0 -> mk
                     [] have * move < 0 /\ have * (have + move) <= 0 -> px
  <2>1. n = LET m == IF isHeld THEN positions[p.sym].mark ELSE 0
            IN [qty |-> have + move,
             mark |-> CASE have * move >= 0 -> (size * m + q * px) \div left
                     [] have * move < 0 /\ have * (have + move) > 0 -> m
                     [] have * move < 0 /\ have * (have + move) <= 0 -> px]
    BY <1>1, <1>5, <1>8, <1>10, <1>11, <1>13, Zenon DEF Engine!Netted
  <2> QED  BY <2>1, <1>7, <1>12
<1>15. have * move > 0 <=> (have > 0 /\ move > 0) \/ (have < 0 /\ move < 0)
  BY SignOfProduct
<1>16. have * move = 0 <=> have = 0
  BY <1>9, SignOfProduct
<1>17. have * (have + move) > 0 <=> (have > 0 /\ have + move > 0) \/ (have < 0 /\ have + move < 0)
  BY SignOfProduct
<1>18. have * move \in Int /\ have * (have + move) \in Int
  OBVIOUS
<1>19. Engine!SymbolExposure(Engine!Snapshot, p.sym) = old
  <2>1. CASE isHeld
    <3>1. Engine!SymbolExposure(Engine!Snapshot, p.sym) = Engine!Magnitude(have * mk)
      BY <1>4, <1>6, <1>7, <2>1 DEF Engine!SymbolExposure
    <3>2. Engine!Magnitude(have * mk) = size * mk
      BY <1>10 DEF Engine!Magnitude
    <3> QED  BY <1>12, <3>1, <3>2
  <2>2. CASE ~isHeld
    BY <1>6, <1>7, <1>10, <1>12, <2>2 DEF Engine!SymbolExposure
  <2> QED  BY <2>1, <2>2
<1>20. Engine!SameDirection(p, have) <=> have * move > 0
  BY <1>1, <1>2, <1>8, <1>15 DEF Engine!SameDirection
<1>21. PICK ex : ex = Engine!SymbolExposureAfter(p, Engine!Snapshot)
  OBVIOUS
<1>22. ex = CASE have = 0 -> cost
              [] have # 0 /\ have * move > 0 -> old + cost
              [] have # 0 /\ ~(have * move > 0) /\ q < size ->
                    old - q * Engine!Magnitude(positions[p.sym].mark)
              [] have # 0 /\ ~(have * move > 0) /\ q >= size -> (q - size) * px
  BY <1>1, <1>4, <1>5, <1>10, <1>12, <1>19, <1>20, <1>21 DEF Engine!SymbolExposureAfter
<1>23. CASE have = 0
  <2>1. left = q /\ old = 0 /\ have + move = move
    BY <1>9, <1>10, <1>11, <1>12, <1>23
  <2>2. cost \div q \in Nat /\ q * (cost \div q) = cost
    <3>1. cost % q = 0
      BY <1>12
    <3> QED  BY <3>1, WholeAverage
  <2>3. n.mark = cost \div q
    BY <1>14, <1>16, <1>23, <2>1
  <2>4. ex = cost
    BY <1>22, <1>23
  <2> QED  BY <1>5, <1>9, <1>11, <1>13, <1>14, <1>21, <2>1, <2>2, <2>3, <2>4
<1>24. CASE have * move > 0
  <2>1. left = size + q /\ have + move # 0 /\ have # 0
    BY <1>2, <1>8, <1>10, <1>11, <1>15, <1>24
  <2>2. n.mark = (old + cost) \div left /\ ex = old + cost
    BY <1>14, <1>18, <1>22, <1>24, <2>1
  <2>3. isHeld
    BY <1>6, <2>1
  <2>4. Engine!WholeFill(p) => (old + cost) % left = 0
    BY <1>1, <1>5, <1>7, <1>8, <1>10, <1>12, <1>24, <2>1, <2>3 DEF Engine!WholeFill
  <2>5. /\ (old + cost) \div left \in Nat
        /\ (old + cost) % left = 0 => left * ((old + cost) \div left) = old + cost
    <3>1. PICK sum \in Nat : sum = old + cost
      OBVIOUS
    <3>2. left \in Nat \ {0}
      BY <2>1
    <3>3. sum \div left \in Nat /\ (sum % left = 0 => left * (sum \div left) = sum)
      BY <3>2, WholeAverage
    <3> QED  BY <3>1, <3>3
  <2> QED  BY <1>5, <1>11, <1>13, <1>14, <1>21, <2>1, <2>2, <2>4, <2>5
<1>25. CASE have # 0 /\ ~(have * move > 0)
  <2>1. have * move < 0 /\ ((have > 0 /\ move < 0) \/ (have < 0 /\ move > 0))
    BY <1>9, <1>15, <1>16, <1>18, <1>25
  <2>2. isHeld /\ mk = positions[p.sym].mark /\ Engine!Magnitude(mk) = mk
    BY <1>6, <1>7, <1>25 DEF Engine!Magnitude
  <2>3. CASE q < size
    <3>1. left = size - q /\ have + move # 0 /\ have * (have + move) > 0
      BY <1>2, <1>8, <1>10, <1>11, <1>17, <2>1, <2>3
    <3>2. n.mark = mk /\ ex = old - q * mk
      BY <1>14, <1>22, <1>25, <2>1, <2>2, <2>3, <3>1
    <3>3. (size - q) * mk = old - q * mk /\ q * mk \in Int
      BY <1>12
    <3>4. left * mk = ex /\ ex \in Int
      BY <3>1, <3>2, <3>3
    <3> QED  BY <1>5, <1>11, <1>13, <1>14, <1>21, <1>25, <3>1, <3>2, <3>4
  <2>4. CASE q >= size
    <3>1. left = q - size /\ (have + move = 0 <=> q = size) /\ ~(have * (have + move) > 0)
      BY <1>2, <1>8, <1>10, <1>11, <1>17, <2>1, <2>4
    <3>2. n.mark = px /\ ex = (q - size) * px
      BY <1>14, <1>18, <1>22, <1>25, <2>1, <2>4, <3>1
    <3>3. q = size => (q - size) * px = 0
      OBVIOUS
    <3>4. (q - size) * px \in Int
      OBVIOUS
    <3> QED  BY <1>5, <1>11, <1>13, <1>14, <1>21, <1>25, <3>1, <3>2, <3>3, <3>4
  <2> QED  BY <2>3, <2>4
<1> QED  BY <1>23, <1>24, <1>25

(* The worth of a position as the owner states it. *)
LEMMA BookWorth ==
    ASSUME BookTypes, NEW s \in DOMAIN positions
    PROVE  /\ Engine!SymbolExposure(Engine!Snapshot, s) \in Int
           /\ Engine!Value(positions, s) = Engine!SymbolExposure(Engine!Snapshot, s)
<1>1. PICK h \in Int, mk \in Nat : h = positions[s].qty /\ mk = positions[s].mark
  BY DEF BookTypes
<1>2. Engine!Magnitude(h) * mk = Engine!Magnitude(h * mk) /\ Engine!Magnitude(h * mk) \in Int
  <2>1. CASE h >= 0
    <3>1. h * mk \in Nat
      BY <2>1, Positive
    <3> QED  BY <2>1, <3>1 DEF Engine!Magnitude
  <2>2. CASE h < 0
    <3>1. PICK g \in Nat : g = -h
      BY <2>2
    <3>2. g * mk \in Nat /\ h * mk = -(g * mk)
      BY <3>1, Positive
    <3> QED  BY <2>2, <3>1, <3>2 DEF Engine!Magnitude
  <2> QED  BY <2>1, <2>2
<1> QED  BY <1>1, <1>2 DEF Engine!Value, Engine!SymbolExposure, Engine!Held, Engine!Snapshot

(* The books a fill leaves. *)
LEMMA FilledIs ==
    ASSUME BookTypes, NEW p \in Engine!Proposals
    PROVE  /\ \A s \in DOMAIN Engine!FilledBook(p) :
                 IF s = p.sym THEN Engine!Netted(p).qty # 0 /\ Engine!FilledBook(p)[s] = Engine!Netted(p)
                              ELSE s \in DOMAIN positions /\ Engine!FilledBook(p)[s] = positions[s]
           /\ DOMAIN Engine!FilledBook(p) =
                IF Engine!Netted(p).qty # 0 THEN DOMAIN positions \cup {p.sym}
                                            ELSE DOMAIN positions \ {p.sym}
           /\ IsFiniteSet(DOMAIN Engine!FilledBook(p))
<1>1. PICK n : n = Engine!Netted(p)
  OBVIOUS
<1>2. PICK open : open = {s \in DOMAIN positions \cup {p.sym} : s # p.sym \/ n.qty # 0}
  OBVIOUS
<1>3. Engine!FilledBook(p) = [s \in open |-> IF s = p.sym THEN n ELSE positions[s]]
  BY <1>1, <1>2 DEF Engine!FilledBook
<1>4. open = IF n.qty # 0 THEN DOMAIN positions \cup {p.sym} ELSE DOMAIN positions \ {p.sym}
  BY <1>2
<1>5. IsFiniteSet(DOMAIN positions \cup {p.sym}) /\ IsFiniteSet(DOMAIN positions \ {p.sym})
  BY FS_AddElement, FS_RemoveElement DEF BookTypes
<1> QED  BY <1>1, <1>2, <1>3, <1>4, <1>5

(* The sum of the values of a book. *)
LEMMA ValuesAreSum ==
    ASSUME NEW book, NEW D, D = DOMAIN book, IsFiniteSet(D)
    PROVE  Engine!GrossOf(book) = SumFunctionOnSet([s \in D |-> Engine!Value(book, s)], D)
<1> DEFINE f == [s \in D |-> Engine!Value(book, s)]
           P(g) == g = [s \in SUBSET D |-> IF s = {} THEN 0 ELSE
                            Engine!Value(book, CHOOSE x \in s : TRUE) + g[s \ {CHOOSE x \in s : TRUE}]]
<1>1. \A g : P(g) <=> SumTable(g, f, D)
  <2> TAKE g
  <2>1. \A s \in SUBSET D : s # {} => Pick(s) \in D
    BY DEF Pick
  <2>2. \A x \in D : f[x] = Engine!Value(book, x)
    OBVIOUS
  <2>3. P(g) <=> g = [s \in SUBSET D |-> IF s = {} THEN 0 ELSE
                            Engine!Value(book, Pick(s)) + g[s \ {Pick(s)}]]
    BY DEF Pick
  <2> HIDE DEF P, f
  <2> QED  BY <2>1, <2>2, <2>3 DEF SumTable
<1>2. Engine!GrossOf(book) = (CHOOSE g : P(g))[D]
  BY DEF Engine!GrossOf, Engine!MapThenSumSet, Engine!MapThenFoldSet
<1> HIDE DEF P, f
<1>3. PICK h : SumTable(h, f, D) /\ SumFunctionOnSet(f, D) = h[D]
  BY SumIsInTable
<1>4. P(CHOOSE g : P(g))
  BY <1>1, <1>3
<1>5. PICK k : k = (CHOOSE g : P(g))
  OBVIOUS
<1>6. SumTable(k, f, D) /\ Engine!GrossOf(book) = k[D]
  BY <1>1, <1>2, <1>4, <1>5
<1>7. D \in SUBSET D
  OBVIOUS
<1>8. k[D] = h[D]
  BY <1>3, <1>6, <1>7, TablesAgree
<1> QED  BY <1>3, <1>6, <1>8 DEF f

LEMMA GrossIsInt ==
    ASSUME BookTypes
    PROVE  Engine!GrossExposure(Engine!Snapshot) \in Int
<1>1. PICK D, f : D = DOMAIN positions /\ f = Exposures(Engine!Snapshot)
  OBVIOUS
<1>2. Engine!Snapshot.positions = positions /\ IsFiniteSet(D)
  BY <1>1 DEF Engine!Snapshot, BookTypes
<1>3. Engine!GrossExposure(Engine!Snapshot) = SumFunctionOnSet(f, D)
  BY <1>1, <1>2, GrossIsSum
<1>4. \A s \in D : f[s] \in Int
  BY <1>1, <1>2, BookWorth DEF Exposures
<1> QED  BY <1>2, <1>3, <1>4, SumType

(* The gross exposure the engine projects is that of the book the fill leaves. *)
LEMMA GrossIsForeseen ==
    ASSUME BookTypes, NEW p \in Engine!Proposals
    PROVE  /\ Engine!GrossAfter(p, Engine!Snapshot) \in Int
           /\ Engine!WholeFill(p) =>
                 Engine!GrossAfter(p, Engine!Snapshot) = Engine!GrossOf(Engine!FilledBook(p))
<1>1. PICK D, f : D = DOMAIN positions /\ f = Exposures(Engine!Snapshot)
  OBVIOUS
<1>2. Engine!Snapshot.positions = positions /\ IsFiniteSet(D)
  BY <1>1 DEF Engine!Snapshot, BookTypes
<1>3. Engine!GrossExposure(Engine!Snapshot) = SumFunctionOnSet(f, D)
  BY <1>1, <1>2, GrossIsSum
<1>4. \A s \in D : f[s] = Engine!Value(positions, s) /\ f[s] \in Int
  BY <1>1, <1>2, BookWorth DEF Exposures
<1>5. PICK x : x = p.sym
  OBVIOUS
<1>6. PICK R : R = D \ {x}
  OBVIOUS
<1>7. IsFiniteSet(R) /\ x \notin R /\ \A s \in R : s \in D /\ s # x
  BY <1>2, <1>6, FS_RemoveElement
<1>8. PICK old : old = Engine!SymbolExposure(Engine!Snapshot, x)
  OBVIOUS
<1>9. SumFunctionOnSet(f, R) \in Int /\ old \in Int
      /\ SumFunctionOnSet(f, D) = old + SumFunctionOnSet(f, R)
  <2>1. CASE x \in D
    <3>1. old = f[x]
      BY <1>1, <1>2, <1>8, <2>1 DEF Exposures
    <3> QED  BY <1>2, <1>4, <1>6, <2>1, <3>1, SumSplit
  <2>2. CASE x \notin D
    <3>1. old = 0 /\ R = D
      BY <1>1, <1>2, <1>6, <1>8, <2>2 DEF Engine!SymbolExposure, Engine!Held
    <3>2. SumFunctionOnSet(f, D) \in Int
      BY <1>2, <1>4, SumType
    <3> QED  BY <3>1, <3>2
  <2> QED  BY <2>1, <2>2
<1>10. PICK ex \in Int : ex = Engine!SymbolExposureAfter(p, Engine!Snapshot)
  BY FillIsForeseen
<1>11. Engine!GrossAfter(p, Engine!Snapshot) = SumFunctionOnSet(f, R) + ex
  BY <1>3, <1>5, <1>8, <1>9, <1>10 DEF Engine!GrossAfter
<1>12. ASSUME Engine!WholeFill(p)
       PROVE  Engine!GrossOf(Engine!FilledBook(p)) = SumFunctionOnSet(f, R) + ex
  <2>1. PICK book, E, k : book = Engine!FilledBook(p) /\ E = DOMAIN book
                          /\ k = [s \in E |-> Engine!Value(book, s)]
    OBVIOUS
  <2>2. IsFiniteSet(E) /\ (E = IF Engine!Netted(p).qty # 0 THEN R \cup {x} ELSE R)
        /\ \A s \in E : IF s = x THEN book[s] = Engine!Netted(p) ELSE book[s] = positions[s]
    BY <1>1, <1>5, <1>6, <2>1, FilledIs
  <2>3. Engine!GrossOf(book) = SumFunctionOnSet(k, E)
    BY <2>1, <2>2, ValuesAreSum
  <2>4. \A s \in R : k[s] = f[s]
    <3> SUFFICES ASSUME NEW s \in R PROVE k[s] = f[s]
      OBVIOUS
    <3>1. s \in D /\ s # x /\ s \in E
      BY <1>7, <2>2
    <3>2. book[s] = positions[s] /\ k[s] = Engine!Value(book, s)
      BY <2>1, <2>2, <3>1
    <3> QED  BY <1>4, <3>1, <3>2 DEF Engine!Value
  <2>5. SumFunctionOnSet(k, R) = SumFunctionOnSet(f, R)
    BY <1>7, <2>4, SumSame
  <2>6. CASE Engine!Netted(p).qty = 0
    <3>1. E = R
      BY <2>2, <2>6
    <3>2. ex = 0
      BY <1>10, <2>6, FillIsForeseen
    <3>3. Engine!GrossOf(book) = SumFunctionOnSet(f, R)
      BY <2>3, <2>5, <3>1
    <3> QED  BY <1>9, <2>1, <3>2, <3>3
  <2>7. CASE Engine!Netted(p).qty # 0
    <3>1. x \in E /\ book[x] = Engine!Netted(p) /\ k[x] = Engine!Value(book, x)
      BY <2>1, <2>2, <2>7
    <3>2. k[x] = ex
      BY <1>10, <1>12, <2>7, <3>1, FillIsForeseen DEF Engine!Value
    <3>3. \A s \in R \cup {x} : k[s] \in Int
      BY <1>4, <1>7, <1>10, <2>4, <3>2
    <3>4. SumFunctionOnSet(k, R \cup {x}) = k[x] + SumFunctionOnSet(k, R)
      BY <1>7, <3>3, SumAdd
    <3>5. E = R \cup {x}
      BY <2>2, <2>7
    <3>6. Engine!GrossOf(book) = ex + SumFunctionOnSet(f, R)
      BY <2>3, <2>5, <3>2, <3>4, <3>5
    <3> QED  BY <1>9, <2>1, <3>6
  <2> QED  BY <2>6, <2>7
<1> QED  BY <1>9, <1>10, <1>11, <1>12

LEMMA BookInit == ASSUME Engine!Init PROVE BookTypes
<1>1. positions = [s \in {} |-> 0] /\ money \in BookEquities /\ realized = 0
  BY DEF Engine!Init
<1>2. DOMAIN positions = {}
  BY <1>1
<1> QED  BY <1>1, <1>2, FS_EmptySet, BookAssumption DEF BookTypes

LEMMA BookNext == ASSUME BookTypes, [Engine!Next]_(Engine!vars) PROVE BookTypes'
<1>1. ASSUME NEW p \in Engine!Proposals, Engine!Fill(p) PROVE BookTypes'
  <2>1. positions' = Engine!FilledBook(p) /\ money' = money /\ realized' = realized
    BY <1>1 DEF Engine!Fill
  <2>2. PICK book : book = Engine!FilledBook(p)
    OBVIOUS
  <2>3. IsFiniteSet(DOMAIN book)
    BY <2>2, FilledIs
  <2>4. \A s \in DOMAIN book : book[s].qty \in Int \ {0} /\ book[s].mark \in Nat
    <3> SUFFICES ASSUME NEW s \in DOMAIN book
                 PROVE  book[s].qty \in Int \ {0} /\ book[s].mark \in Nat
      OBVIOUS
    <3>1. CASE s = p.sym
      BY <2>2, <3>1, FilledIs, FillIsForeseen
    <3>2. CASE s # p.sym
      BY <2>2, <3>2, FilledIs DEF BookTypes
    <3> QED  BY <3>1, <3>2
  <2> QED  BY <2>1, <2>2, <2>3, <2>4 DEF BookTypes
<1>2. CASE Engine!EquityMoves
  BY <1>2, BookAssumption DEF Engine!EquityMoves, BookTypes
<1>3. CASE Engine!Realizes
  BY <1>3, BookAssumption DEF Engine!Realizes, BookTypes
<1>4. CASE UNCHANGED Engine!vars
  BY <1>4 DEF Engine!vars, BookTypes
<1> QED  BY <1>1, <1>2, <1>3, <1>4 DEF Engine!Next

(* The limits, in numbers. *)
LEMMA LimitTypes ==
    /\ BookLimits.riskPct \in Nat \ {0} /\ BookLimits.dailyLossPct \in Nat \ {0}
    /\ BookLimits.leverage \in Nat \ {0} /\ BookLimits.totalExposure = 0
    /\ BookLimits.concentrationPct \in Nat \ {0} /\ BookLimits.maxOpen \in Nat \ {0}
    /\ BookLimits.requireStop = TRUE
    /\ Engine!EffectiveRiskPct(BookLimits) \in Nat \ {0}
    /\ Engine!EffectiveRiskPct(BookLimits) = Engine!Min({BookLimits.riskPct, 20})
<1>1. /\ BookLimits.riskPct \in Nat \ {0} /\ BookLimits.dailyLossPct \in Nat \ {0}
      /\ BookLimits.leverage \in Nat \ {0} /\ BookLimits.totalExposure = 0
      /\ BookLimits.concentrationPct \in Nat \ {0} /\ BookLimits.maxOpen \in Nat \ {0}
      /\ BookLimits.requireStop = TRUE
  BY BookAssumption
<1>2. PICK r \in Nat \ {0} : r = BookLimits.riskPct
  BY <1>1
<1>3. Engine!Min({r, 20}) = Min({r, 20})
  BY DEF Engine!Min, Min
<1>4. Engine!EffectiveRiskPct(BookLimits) = Engine!Min({r, 20})
  BY <1>2 DEF Engine!EffectiveRiskPct, Engine!HardCapRiskPct
<1>5. Min({r, 20}) = IF r <= 20 THEN r ELSE 20
  BY MinOfTwo
<1>6. Engine!EffectiveRiskPct(BookLimits) \in Nat \ {0}
  BY <1>2, <1>3, <1>4, <1>5
<1> QED  BY <1>1, <1>2, <1>4, <1>6

LEMMA SameCardinality == \A S : Engine!Cardinality(S) = Cardinality(S)
BY DEF Engine!Cardinality, Cardinality

(* Positions are all open ones. *)
LEMMA OpenIsAll ==
    ASSUME BookTypes PROVE Engine!CountOpen(Engine!Snapshot) = Cardinality(DOMAIN positions)
<1>1. Engine!Snapshot.positions = positions
  BY DEF Engine!Snapshot
<1>2. {s \in DOMAIN positions : Engine!QtyHeld(Engine!Snapshot, s) # 0} = DOMAIN positions
  BY <1>1 DEF BookTypes, Engine!QtyHeld, Engine!Held
<1>3. Engine!CountOpen(Engine!Snapshot) = Engine!Cardinality(DOMAIN positions)
  BY <1>1, <1>2 DEF Engine!CountOpen
<1> QED  BY <1>3, SameCardinality

(* What an order risks to its stop. *)
LEMMA RiskTypes ==
    ASSUME NEW p \in Engine!Proposals
    PROVE  /\ Engine!PerTradeRisk(p) \in Nat
           /\ Engine!StopProtects(p) <=> p.stop # 0 /\ Engine!LossAtStop(p) > 0
           /\ Engine!StopProtects(p) => Engine!LossAtStop(p) = Engine!PerTradeRisk(p)
           /\ Engine!LossAtStop(p) \in Int
<1>1. PICK q \in Nat \ {0}, px \in Nat \ {0}, stop \in Nat : q = p.qty /\ px = p.entry /\ stop = p.stop
  BY ProposalTypes
<1>2. p.side \in {"Buy", "Sell"}
  BY ProposalTypes
<1>3. PICK gap \in Int : gap = px - stop
  OBVIOUS
<1>4. PICK d \in Nat : d = Engine!Magnitude(gap) /\ (gap >= 0 => d = gap) /\ (gap < 0 => d = -gap)
  BY DEF Engine!Magnitude
<1>5. Engine!PerTradeRisk(p) = q * d /\ q * d \in Nat
  BY <1>1, <1>3, <1>4, Positive DEF Engine!PerTradeRisk
<1>6. CASE p.side = "Buy"
  <2>1. Engine!LossAtStop(p) = q * gap
    BY <1>1, <1>3, <1>6 DEF Engine!LossAtStop
  <2>2. q * gap \in Int /\ (q * gap > 0 <=> gap > 0)
    BY SignOfProduct
  <2>3. Engine!StopProtects(p) <=> stop > 0 /\ gap > 0
    BY <1>1, <1>3, <1>6 DEF Engine!StopProtects
  <2> QED  BY <1>1, <1>4, <1>5, <2>1, <2>2, <2>3
<1>7. CASE p.side = "Sell"
  <2>1. PICK neg \in Int : neg = stop - px /\ neg = -gap
    BY <1>3
  <2>2. Engine!LossAtStop(p) = q * neg
    BY <1>1, <1>7, <2>1 DEF Engine!LossAtStop
  <2>3. q * neg \in Int /\ (q * neg > 0 <=> neg > 0)
    BY SignOfProduct
  <2>4. Engine!StopProtects(p) <=> stop > 0 /\ neg > 0
    BY <1>1, <1>7, <2>1 DEF Engine!StopProtects
  <2> QED  BY <1>1, <1>4, <1>5, <2>1, <2>2, <2>3, <2>4
<1> QED  BY <1>2, <1>6, <1>7

(* An amount against a limit in thousandths of an equity that shrinks. *)
LEMMA PoorerExceeds ==
    ASSUME NEW x \in Int, NEW pct \in Nat, NEW e \in Int, NEW f \in Int, e <= f
    PROVE  /\ Engine!Exceeds(x, pct, f) => Engine!Exceeds(x, pct, e)
           /\ Engine!Reaches(x, pct, f) => Engine!Reaches(x, pct, e)
<1>1. PICK a \in Int, b \in Int : a = pct * e /\ b = pct * f /\ a <= b
  BY Monotone
<1> QED  BY <1>1 DEF Engine!Exceeds, Engine!Reaches, Engine!Thousandths

(* A limit that stops an order stops it when the account is poorer. *)
LEMMA RejectedStaysRejected ==
    ASSUME BookTypes, NEW p \in Engine!Proposals, NEW e \in Int, NEW r \in Int,
           e <= money, r <= realized,
           Engine!CheckOrder(BookLimits, p,
                             [Engine!Snapshot EXCEPT !.equity = e, !.realized = r]) = "None"
    PROVE  Engine!CheckOrder(BookLimits, p, Engine!Snapshot) = "None"
<1>1. PICK now : now = Engine!Snapshot
  OBVIOUS
<1>2. PICK worse : worse = [now EXCEPT !.equity = e, !.realized = r]
  OBVIOUS
<1>3. /\ now.equity = money /\ now.realized = realized /\ now.positions = positions
      /\ worse.equity = e /\ worse.realized = r /\ worse.positions = positions
  BY <1>1, <1>2 DEF Engine!Snapshot
<1>4. money \in Int /\ realized \in Int
  BY DEF BookTypes
<1>5. /\ ~Engine!Trips("InvalidInput", BookLimits, p, worse)
      /\ ~Engine!Trips("MissingStop", BookLimits, p, worse)
      /\ ~Engine!Trips("DailyLoss", BookLimits, p, worse)
      /\ ~Engine!Trips("PerTradeRisk", BookLimits, p, worse)
      /\ ~Engine!Trips("GrossLeverage", BookLimits, p, worse)
      /\ ~Engine!Trips("TotalExposure", BookLimits, p, worse)
      /\ ~Engine!Trips("Concentration", BookLimits, p, worse)
      /\ ~Engine!Trips("MaxOpenPositions", BookLimits, p, worse)
  <2>1. Engine!CheckOrder(BookLimits, p, worse) = "None"
    BY <1>1, <1>2
  <2> QED  BY <2>1, ApprovedByName
<1>6. /\ Engine!GrossAfter(p, worse) = Engine!GrossAfter(p, now)
      /\ Engine!SymbolExposureAfter(p, worse) = Engine!SymbolExposureAfter(p, now)
      /\ Engine!CountOpen(worse) = Engine!CountOpen(now)
      /\ Engine!Held(worse, p.sym) <=> Engine!Held(now, p.sym)
  <2>1. \A s : /\ Engine!Held(worse, s) <=> Engine!Held(now, s)
               /\ Engine!QtyHeld(worse, s) = Engine!QtyHeld(now, s)
               /\ Engine!SymbolExposure(worse, s) = Engine!SymbolExposure(now, s)
    BY <1>3 DEF Engine!Held, Engine!QtyHeld, Engine!SymbolExposure
  <2>2. Engine!SymbolExposureAfter(p, worse) = Engine!SymbolExposureAfter(p, now)
    <3>1. PICK h, x, ps : /\ h = Engine!QtyHeld(now, p.sym) /\ x = Engine!SymbolExposure(now, p.sym)
                              /\ ps = positions
      OBVIOUS
    <3>2. /\ Engine!QtyHeld(worse, p.sym) = h /\ Engine!SymbolExposure(worse, p.sym) = x
          /\ worse.positions = ps /\ now.positions = ps
      BY <1>3, <2>1, <3>1
    <3> QED  BY <3>1, <3>2 DEF Engine!SymbolExposureAfter
  <2>3. Engine!CountOpen(worse) = Engine!CountOpen(now)
    BY <1>3, <2>1 DEF Engine!CountOpen
  <2>4. Exposures(worse) = Exposures(now)
    BY <1>3, <2>1 DEF Exposures
  <2>5. Engine!GrossExposure(worse) = Engine!GrossExposure(now)
    <3>1. PICK D : D = DOMAIN positions
      OBVIOUS
    <3>2. IsFiniteSet(D)
      BY <3>1 DEF BookTypes
    <3> QED  BY <1>3, <2>4, <3>1, <3>2, GrossIsSum
  <2> QED  BY <2>1, <2>2, <2>3, <2>5 DEF Engine!GrossAfter
<1>7. e > 0 /\ money > 0 /\ ~Engine!Trips("InvalidInput", BookLimits, p, now)
  BY <1>3, <1>4, <1>5 DEF Engine!Trips, Engine!InputInvalid
<1>8. ~Engine!Trips("MissingStop", BookLimits, p, now)
  BY <1>5 DEF Engine!Trips
<1>9. ~Engine!Trips("DailyLoss", BookLimits, p, now)
  <2>1. ASSUME Engine!CheckDailyLoss(BookLimits, now) = "DailyLoss"
        PROVE  Engine!CheckDailyLoss(BookLimits, worse) = "DailyLoss"
    <3>1. PICK pct \in Nat \ {0} : pct = BookLimits.dailyLossPct
      BY LimitTypes
    <3>2. realized < 0 /\ Engine!Reaches(-realized, pct, money)
      BY <1>3, <1>4, <1>7, <2>1, <3>1 DEF Engine!CheckDailyLoss
    <3>3. Engine!Reaches(-realized, pct, e)
      <4>1. -realized \in Int
        BY <1>4
      <4> QED  BY <1>4, <3>2, <4>1, PoorerExceeds
    <3>4. Engine!Reaches(-r, pct, e)
      <4>1. PICK a \in Int : a = pct * e
        OBVIOUS
      <4> QED  BY <1>4, <3>3, <4>1 DEF Engine!Reaches, Engine!Thousandths
    <3> QED  BY <1>3, <1>4, <1>7, <3>1, <3>2, <3>4 DEF Engine!CheckDailyLoss
  <2> QED  BY <1>5, <2>1 DEF Engine!Trips
<1>10. ~Engine!Trips("PerTradeRisk", BookLimits, p, now)
  <2>1. PICK pct \in Nat, x \in Nat : pct = Engine!EffectiveRiskPct(BookLimits) /\ x = Engine!PerTradeRisk(p)
    BY LimitTypes, RiskTypes
  <2>2. Engine!Exceeds(x, pct, money) => Engine!Exceeds(x, pct, e)
    BY <1>4, PoorerExceeds
  <2> QED  BY <1>3, <1>5, <2>1, <2>2 DEF Engine!Trips
<1>11. ~Engine!Trips("GrossLeverage", BookLimits, p, now)
  <2>1. PICK pct \in Nat, x \in Int : pct = BookLimits.leverage /\ x = Engine!GrossAfter(p, now)
    BY <1>1, LimitTypes, GrossIsForeseen
  <2>2. Engine!Exceeds(x, pct, money) => Engine!Exceeds(x, pct, e)
    BY <1>4, PoorerExceeds
  <2> QED  BY <1>3, <1>5, <1>6, <2>1, <2>2 DEF Engine!Trips
<1>12. ~Engine!Trips("TotalExposure", BookLimits, p, now)
  BY <1>5, <1>6 DEF Engine!Trips
<1>13. ~Engine!Trips("Concentration", BookLimits, p, now)
  <2>1. PICK pct \in Nat, x \in Int : pct = BookLimits.concentrationPct
                                      /\ x = Engine!SymbolExposureAfter(p, now)
    BY <1>1, LimitTypes, FillIsForeseen
  <2>2. Engine!Exceeds(x, pct, money) => Engine!Exceeds(x, pct, e)
    BY <1>4, PoorerExceeds
  <2> QED  BY <1>3, <1>5, <1>6, <2>1, <2>2 DEF Engine!Trips
<1>14. ~Engine!Trips("MaxOpenPositions", BookLimits, p, now)
  BY <1>5, <1>6 DEF Engine!Trips
<1>15. Engine!CheckOrder(BookLimits, p, now) = "None"
  BY <1>7, <1>8, <1>9, <1>10, <1>11, <1>12, <1>13, <1>14, ApprovedByName
<1> QED  BY <1>1, <1>15

(***************************************************************************)
(* No limit of the engine reopens by losing: whatever orders built the     *)
(* book, an order that is rejected stays rejected for a poorer account and *)
(* for a larger loss of the day.                                           *)
(***************************************************************************)
THEOREM LosingNeverHelps == DeskSpec => []LosingReopensNothing
<1> DEFINE Inv == part = "book" => BookTypes
<1>1. DeskInit => Inv
  BY BookInit DEF DeskInit
<1>2. Inv /\ [DeskNext]_deskVars => Inv'
  <2> SUFFICES ASSUME Inv, [DeskNext]_deskVars, part' = "book" PROVE BookTypes'
    OBVIOUS
  <2>1. part = "book" /\ [Engine!Next]_(Engine!vars)
    BY DEF DeskNext, deskVars, bookVars, Engine!vars
  <2> QED  BY <2>1, BookNext
<1>3. Inv => LosingReopensNothing
  <2> SUFFICES ASSUME Inv, part = "book", NEW p \in Engine!Proposals, NEW e \in BookEquities,
                      NEW r \in Realizeds, e <= money, r <= realized,
                      Engine!CheckOrder(BookLimits, p,
                         [Engine!Snapshot EXCEPT !.equity = e, !.realized = r]) = "None"
               PROVE  Engine!CheckOrder(BookLimits, p, Engine!Snapshot) = "None"
    BY DEF LosingReopensNothing, Engine!LosingReopensNothing
  <2>1. BookTypes /\ e \in Int /\ r \in Int
    BY BookAssumption
  <2> QED  BY <2>1, RejectedStaysRejected
<1> QED  BY <1>1, <1>2, <1>3, PTL DEF DeskSpec

(* An exit: an order against a position, and no larger than it.            *)
Reduces(p) ==
    LET held == Engine!QtyHeld(Engine!Snapshot, p.sym)
    IN  /\ held # 0 /\ ~Engine!SameDirection(p, held)
        /\ p.qty <= Engine!Magnitude(held)

(* An exit is stopped by a limit on exposure only if the book is over that *)
(* limit before it, and never by the count of positions.                   *)
ExitsAreNotCharged ==
    \A p \in Engine!Proposals : Reduces(p) =>
        /\ Engine!Trips("GrossLeverage", BookLimits, p, Engine!Snapshot) =>
               Engine!Exceeds(Engine!GrossExposure(Engine!Snapshot), BookLimits.leverage, money)
        /\ Engine!Trips("Concentration", BookLimits, p, Engine!Snapshot) =>
               Engine!Exceeds(Engine!SymbolExposure(Engine!Snapshot, p.sym),
                              BookLimits.concentrationPct, money)
        /\ ~Engine!Trips("MaxOpenPositions", BookLimits, p, Engine!Snapshot)

LEMMA ExitShrinks ==
    ASSUME BookTypes, NEW p \in Engine!Proposals, Reduces(p)
    PROVE  /\ p.sym \in DOMAIN positions
           /\ Engine!SymbolExposureAfter(p, Engine!Snapshot) \in Int
           /\ Engine!SymbolExposureAfter(p, Engine!Snapshot)
                  <= Engine!SymbolExposure(Engine!Snapshot, p.sym)
<1>1. PICK q \in Nat \ {0}, px \in Nat \ {0} : q = p.qty /\ px = p.entry
  BY ProposalTypes
<1>2. Engine!Snapshot.positions = positions
  BY DEF Engine!Snapshot
<1>3. p.sym \in DOMAIN positions
  BY <1>2 DEF Reduces, Engine!QtyHeld, Engine!Held
<1>4. PICK h \in Int \ {0}, mk \in Nat :
          h = positions[p.sym].qty /\ mk = positions[p.sym].mark
          /\ h = Engine!QtyHeld(Engine!Snapshot, p.sym)
  BY <1>2, <1>3 DEF BookTypes, Engine!QtyHeld, Engine!Held
<1>5. PICK size \in Nat : size = Engine!Magnitude(h) /\ q <= size /\ ~Engine!SameDirection(p, h)
  BY <1>1, <1>4 DEF Reduces, Engine!Magnitude
<1>6. PICK worth \in Nat : worth = Engine!SymbolExposure(Engine!Snapshot, p.sym)
  <2>1. Engine!Magnitude(h * mk) \in Nat
    BY SignOfProduct DEF Engine!Magnitude
  <2> QED  BY <1>2, <1>3, <1>4, <2>1 DEF Engine!SymbolExposure, Engine!Held
<1>7. CASE q < size
  <2>1. PICK less \in Nat : less = q * mk
    BY Positive
  <2>2. Engine!Magnitude(mk) = mk
    BY DEF Engine!Magnitude
  <2>3. Engine!SymbolExposureAfter(p, Engine!Snapshot) = worth - less
    BY <1>1, <1>2, <1>4, <1>5, <1>6, <1>7, <2>1, <2>2 DEF Engine!SymbolExposureAfter
  <2> QED  BY <1>3, <1>6, <2>1, <2>3
<1>8. CASE q = size
  <2>1. Engine!SymbolExposureAfter(p, Engine!Snapshot) = (q - size) * px
    BY <1>1, <1>4, <1>5, <1>8 DEF Engine!SymbolExposureAfter
  <2>2. (q - size) * px = 0
    BY <1>8, SignOfProduct
  <2> QED  BY <1>3, <1>6, <2>1, <2>2
<1> QED  BY <1>1, <1>5, <1>7, <1>8

(* More is over a limit if less is. *)
LEMMA MoreExceeds ==
    ASSUME NEW x \in Int, NEW y \in Int, x <= y, NEW pct \in Nat, NEW e \in Int,
           Engine!Exceeds(x, pct, e)
    PROVE  Engine!Exceeds(y, pct, e)
<1>1. PICK b \in Int : b = pct * e
  BY SignOfProduct
<1> QED  BY <1>1 DEF Engine!Exceeds, Engine!Thousandths

(***************************************************************************)
(* "risk-reducing exits reduce gross" (engine.go): whatever orders built   *)
(* the book, an order that reduces a position is not refused for exposure  *)
(* unless the book has too much of it before, and never for the number of  *)
(* positions.                                                              *)
(***************************************************************************)
THEOREM ExitsStayOpen == DeskSpec => [](part = "book" => ExitsAreNotCharged)
<1> DEFINE Inv == part = "book" => BookTypes
           Free == part = "book" => ExitsAreNotCharged
<1>1. DeskInit => Inv
  BY BookInit DEF DeskInit
<1>2. Inv /\ [DeskNext]_deskVars => Inv'
  <2> SUFFICES ASSUME Inv, [DeskNext]_deskVars, part' = "book" PROVE BookTypes'
    OBVIOUS
  <2>1. part = "book" /\ [Engine!Next]_(Engine!vars)
    BY DEF DeskNext, deskVars, bookVars, Engine!vars
  <2> QED  BY <2>1, BookNext
<1>3. Inv => Free
  <2> SUFFICES ASSUME BookTypes, NEW p \in Engine!Proposals, Reduces(p)
               PROVE  /\ Engine!Trips("GrossLeverage", BookLimits, p, Engine!Snapshot) =>
                             Engine!Exceeds(Engine!GrossExposure(Engine!Snapshot), BookLimits.leverage, money)
                      /\ Engine!Trips("Concentration", BookLimits, p, Engine!Snapshot) =>
                             Engine!Exceeds(Engine!SymbolExposure(Engine!Snapshot, p.sym),
                                            BookLimits.concentrationPct, money)
                      /\ ~Engine!Trips("MaxOpenPositions", BookLimits, p, Engine!Snapshot)
    BY DEF ExitsAreNotCharged
  <2>1. PICK after \in Int, worth \in Int, total \in Int, have \in Int :
            /\ after = Engine!SymbolExposureAfter(p, Engine!Snapshot)
            /\ worth = Engine!SymbolExposure(Engine!Snapshot, p.sym)
            /\ total = Engine!GrossExposure(Engine!Snapshot)
            /\ have = money /\ Engine!Snapshot.equity = have
            /\ after <= worth
    <3>1. money \in Int /\ Engine!Snapshot.equity = money
      BY DEF BookTypes, Engine!Snapshot
    <3>2. p.sym \in DOMAIN positions
      BY ExitShrinks
    <3> QED  BY <3>1, <3>2, ExitShrinks, BookWorth, GrossIsInt
  <2>2. Engine!GrossAfter(p, Engine!Snapshot) = total - worth + after
    BY <2>1 DEF Engine!GrossAfter
  <2>3. Engine!Trips("GrossLeverage", BookLimits, p, Engine!Snapshot) =>
            Engine!Exceeds(total, BookLimits.leverage, have)
    <3>1. total - worth + after \in Int /\ total - worth + after <= total
      BY <2>1
    <3>2. BookLimits.leverage \in Nat
      BY LimitTypes
    <3>3. Engine!Trips("GrossLeverage", BookLimits, p, Engine!Snapshot) =>
              Engine!Exceeds(total - worth + after, BookLimits.leverage, have)
      BY <2>1, <2>2 DEF Engine!Trips
    <3> QED  BY <3>1, <3>2, <3>3, MoreExceeds
  <2>4. Engine!Trips("Concentration", BookLimits, p, Engine!Snapshot) =>
            Engine!Exceeds(worth, BookLimits.concentrationPct, have)
    <3>1. BookLimits.concentrationPct \in Nat
      BY LimitTypes
    <3>2. Engine!Trips("Concentration", BookLimits, p, Engine!Snapshot) =>
              Engine!Exceeds(after, BookLimits.concentrationPct, have)
      BY <2>1 DEF Engine!Trips
    <3> QED  BY <2>1, <3>1, <3>2, MoreExceeds
  <2>5. ~Engine!Trips("MaxOpenPositions", BookLimits, p, Engine!Snapshot)
    <3>1. Engine!Held(Engine!Snapshot, p.sym)
      BY ExitShrinks DEF Engine!Held, Engine!Snapshot
    <3> QED  BY <3>1 DEF Engine!Trips
  <2> QED  BY <2>1, <2>3, <2>4, <2>5
<1> QED  BY <1>1, <1>2, <1>3, PTL DEF DeskSpec

(* The gate, limit by limit, against the book the fill leaves. *)
LEMMA GateIsExact ==
    ASSUME BookTypes, NEW p \in Engine!Proposals, Engine!WholeFill(p)
    PROVE  Engine!CheckOrder(BookLimits, p, Engine!Snapshot) = "None"
              <=> Engine!FillRespectsLimits(p)
<1>1. PICK now : now = Engine!Snapshot
  OBVIOUS
<1>2. PICK book : book = Engine!FilledBook(p)
  OBVIOUS
<1>3. now.equity = money /\ now.realized = realized /\ now.positions = positions
  BY <1>1 DEF Engine!Snapshot
<1>4. money \in Int /\ realized \in Int
  BY DEF BookTypes
<1>5. PICK rp \in Nat \ {0}, dp \in Nat \ {0}, lv \in Nat \ {0}, cp \in Nat \ {0}, mo \in Nat \ {0} :
        /\ rp = Engine!EffectiveRiskPct(BookLimits) /\ rp = Engine!Min({BookLimits.riskPct, 20})
        /\ dp = BookLimits.dailyLossPct /\ lv = BookLimits.leverage
        /\ cp = BookLimits.concentrationPct /\ mo = BookLimits.maxOpen
  BY LimitTypes
<1>6. PICK loss \in Int, atRisk \in Nat : /\ loss = Engine!LossAtStop(p)
                                          /\ atRisk = Engine!PerTradeRisk(p)
  BY RiskTypes
<1>7. PICK ex \in Int, gr \in Int : /\ ex = Engine!SymbolExposureAfter(p, now)
                                    /\ gr = Engine!GrossAfter(p, now)
  BY <1>1, FillIsForeseen, GrossIsForeseen
<1>8. PICK rm \in Int, dm \in Int, lm \in Int, cm \in Int :
        rm = money * rp /\ dm = dp * money /\ lm = lv * money /\ cm = cp * money
  BY <1>4
<1>9. /\ money > 0 => rm > 0 /\ dm > 0 /\ cm > 0
      /\ rm > 0 => money > 0
      /\ rp * money = rm
  BY <1>4, <1>8, SignOfProduct
<1>10. money <= 0 => Engine!Trips("InvalidInput", BookLimits, p, now) /\ ~Engine!FillRespectsLimits(p)
  <2> SUFFICES ASSUME money <= 0
               PROVE Engine!Trips("InvalidInput", BookLimits, p, now) /\ ~Engine!FillRespectsLimits(p)
    OBVIOUS
  <2>1. Engine!Trips("InvalidInput", BookLimits, p, now)
    BY <1>3, <1>4 DEF Engine!Trips, Engine!InputInvalid
  <2>2. ~(rm > 0)
    BY <1>4, <1>9
  <2>3. ASSUME Engine!FillRespectsLimits(p) PROVE FALSE
    <3>1. loss > 0 /\ loss * 1000 <= rm
      BY <1>5, <1>6, <1>8, <2>3 DEF Engine!FillRespectsLimits
    <3> QED  BY <2>2, <3>1
  <2> QED  BY <2>1, <2>3
<1>11. CASE money > 0
  <2>1. ~Engine!Trips("InvalidInput", BookLimits, p, now)
    BY <1>3, <1>4, <1>11, ProposalTypes DEF Engine!Trips, Engine!InputInvalid
  <2>2. ~Engine!Trips("MissingStop", BookLimits, p, now) <=> p.stop # 0 /\ loss > 0
    BY <1>6, LimitTypes, RiskTypes DEF Engine!Trips
  <2>3. ~Engine!Trips("DailyLoss", BookLimits, p, now) <=> (-realized) * 1000 < dm
    <3>1. CASE realized >= 0
      BY <1>3, <1>4, <1>9, <1>11, <3>1 DEF Engine!Trips, Engine!CheckDailyLoss
    <3>2. CASE realized < 0
      <4>1. Engine!CheckDailyLoss(BookLimits, now) = "DailyLoss" <=> Engine!Reaches(-realized, dp, money)
        BY <1>3, <1>4, <1>5, <1>11, <3>2 DEF Engine!CheckDailyLoss
      <4>2. Engine!Reaches(-realized, dp, money) <=> (-realized) * 1000 >= dm
        BY <1>8 DEF Engine!Reaches, Engine!Thousandths
      <4> QED  BY <1>4, <4>1, <4>2 DEF Engine!Trips
    <3> QED  BY <1>4, <3>1, <3>2
  <2>4. p.stop # 0 /\ loss > 0 =>
          (~Engine!Trips("PerTradeRisk", BookLimits, p, now) <=> loss * 1000 <= rm)
    <3> SUFFICES ASSUME p.stop # 0, loss > 0
                 PROVE  ~Engine!Trips("PerTradeRisk", BookLimits, p, now) <=> loss * 1000 <= rm
      OBVIOUS
    <3>1. atRisk = loss /\ p.stop > 0
      BY <1>6, RiskTypes, ProposalTypes
    <3>2. Engine!Trips("PerTradeRisk", BookLimits, p, now) <=> Engine!Exceeds(atRisk, rp, money)
      BY <1>3, <1>5, <1>6, <3>1 DEF Engine!Trips
    <3> QED  BY <1>9, <3>1, <3>2 DEF Engine!Exceeds, Engine!Thousandths
  <2>5. ~Engine!Trips("GrossLeverage", BookLimits, p, now) <=> Engine!GrossOf(book) * 1000 <= lm
    <3>1. gr = Engine!GrossOf(book)
      BY <1>1, <1>2, <1>7, GrossIsForeseen
    <3>2. Engine!Trips("GrossLeverage", BookLimits, p, now) <=> Engine!Exceeds(gr, lv, money)
      BY <1>3, <1>5, <1>7 DEF Engine!Trips
    <3> QED  BY <1>8, <3>1, <3>2 DEF Engine!Exceeds, Engine!Thousandths
  <2>6. ~Engine!Trips("TotalExposure", BookLimits, p, now)
    BY LimitTypes DEF Engine!Trips
  <2>7. ~Engine!Trips("Concentration", BookLimits, p, now) <=>
          (p.sym \in DOMAIN book => Engine!Value(book, p.sym) * 1000 <= cm)
    <3>1. Engine!Trips("Concentration", BookLimits, p, now) <=> ex * 1000 > cm
      BY <1>3, <1>5, <1>7, <1>8 DEF Engine!Trips, Engine!Exceeds, Engine!Thousandths
    <3>2. CASE p.sym \in DOMAIN book
      <4>1. Engine!Netted(p).qty # 0 /\ book[p.sym] = Engine!Netted(p)
        BY <1>2, <3>2, FilledIs
      <4>2. Engine!Value(book, p.sym) = ex
        BY <1>1, <1>7, <4>1, FillIsForeseen DEF Engine!Value
      <4> QED  BY <3>1, <3>2, <4>2
    <3>3. CASE p.sym \notin DOMAIN book
      <4>1. Engine!Netted(p).qty = 0
        BY <1>2, <3>3, FilledIs
      <4>2. ex = 0
        BY <1>1, <1>7, <4>1, FillIsForeseen
      <4> QED  BY <1>9, <1>11, <3>1, <3>3, <4>2
    <3> QED  BY <3>2, <3>3
  <2>8. ~Engine!Trips("MaxOpenPositions", BookLimits, p, now) <=>
          (p.sym \notin DOMAIN positions => Cardinality(DOMAIN book) <= mo)
    <3>1. PICK n \in Nat : n = Cardinality(DOMAIN positions) /\ n = Engine!CountOpen(now)
      BY <1>1, FS_CardinalityType, OpenIsAll DEF BookTypes
    <3>2. Engine!Held(now, p.sym) <=> p.sym \in DOMAIN positions
      BY <1>3 DEF Engine!Held
    <3>3. Engine!Trips("MaxOpenPositions", BookLimits, p, now) <=>
            p.sym \notin DOMAIN positions /\ n + 1 > mo
      BY <1>5, <3>1, <3>2 DEF Engine!Trips
    <3>4. p.sym \notin DOMAIN positions => Cardinality(DOMAIN book) = n + 1
      <4> SUFFICES ASSUME p.sym \notin DOMAIN positions PROVE Cardinality(DOMAIN book) = n + 1
        OBVIOUS
      <4>1. Engine!QtyHeld(now, p.sym) = 0
        BY <3>2 DEF Engine!QtyHeld
      <4>2. Engine!Netted(p).qty # 0
        BY <1>1, <4>1, FillIsForeseen
      <4>3. DOMAIN book = DOMAIN positions \cup {p.sym}
        BY <1>2, <4>2, FilledIs
      <4>4. IsFiniteSet(DOMAIN positions)
        BY DEF BookTypes
      <4>5. Cardinality(DOMAIN positions \cup {p.sym}) = Cardinality(DOMAIN positions) + 1
        BY <4>4, FS_AddElement
      <4> QED  BY <3>1, <4>3, <4>5
    <3> QED  BY <3>3, <3>4
  <2>9. Engine!FillRespectsLimits(p) <=>
          /\ p.stop # 0 /\ loss > 0
          /\ loss * 1000 <= rm
          /\ (-realized) * 1000 < dm
          /\ Engine!GrossOf(book) * 1000 <= lm
          /\ p.sym \in DOMAIN book => Engine!Value(book, p.sym) * 1000 <= cm
          /\ p.sym \notin DOMAIN positions => Cardinality(DOMAIN book) <= mo
    <3>1. Engine!FillRespectsLimits(p) <=>
            /\ p.stop # 0 /\ Engine!LossAtStop(p) > 0
            /\ Engine!LossAtStop(p) * 1000 <= money * Engine!Min({BookLimits.riskPct, 20})
            /\ -realized * 1000 < BookLimits.dailyLossPct * money
            /\ Engine!GrossOf(book) * 1000 <= BookLimits.leverage * money
            /\ p.sym \in DOMAIN book =>
                  Engine!Value(book, p.sym) * 1000 <= BookLimits.concentrationPct * money
            /\ p.sym \notin DOMAIN positions => Engine!Cardinality(DOMAIN book) <= BookLimits.maxOpen
      <4>1. Engine!FillRespectsLimits(p) <=>
              /\ p.stop # 0 /\ Engine!LossAtStop(p) > 0
              /\ Engine!LossAtStop(p) * 1000 <= money * Engine!Min({BookLimits.riskPct, 20})
              /\ -realized * 1000 < BookLimits.dailyLossPct * money
              /\ Engine!GrossOf(Engine!FilledBook(p)) * 1000 <= BookLimits.leverage * money
              /\ p.sym \in DOMAIN Engine!FilledBook(p) =>
                    Engine!Value(Engine!FilledBook(p), p.sym) * 1000
                        <= BookLimits.concentrationPct * money
              /\ p.sym \notin DOMAIN positions =>
                    Engine!Cardinality(DOMAIN Engine!FilledBook(p)) <= BookLimits.maxOpen
        BY DEF Engine!FillRespectsLimits
      <4> QED  BY <1>2, <4>1
    <3>2. (-realized) * 1000 = -realized * 1000
      BY <1>4
    <3>3. Engine!Cardinality(DOMAIN book) = Cardinality(DOMAIN book)
      BY SameCardinality
    <3> QED  BY <1>5, <1>6, <1>8, <3>1, <3>2, <3>3
  <2>10. Engine!CheckOrder(BookLimits, p, now) = "None" <=>
          /\ p.stop # 0 /\ loss > 0
          /\ loss * 1000 <= rm
          /\ (-realized) * 1000 < dm
          /\ Engine!GrossOf(book) * 1000 <= lm
          /\ p.sym \in DOMAIN book => Engine!Value(book, p.sym) * 1000 <= cm
          /\ p.sym \notin DOMAIN positions => Cardinality(DOMAIN book) <= mo
    <3>1. (~Engine!Trips("MissingStop", BookLimits, p, now)
             /\ ~Engine!Trips("PerTradeRisk", BookLimits, p, now))
          <=> p.stop # 0 /\ loss > 0 /\ loss * 1000 <= rm
      BY <2>2, <2>4
    <3> QED  BY <2>1, <3>1, <2>3, <2>5, <2>6, <2>7, <2>8, ApprovedByName
  <2> QED  BY <1>1, <2>9, <2>10
<1>12. CASE money <= 0
  <2>1. Engine!CheckOrder(BookLimits, p, now) # "None"
    BY <1>10, <1>12, ApprovedByName
  <2> QED  BY <1>1, <1>10, <1>12, <2>1
<1> QED  BY <1>4, <1>11, <1>12

(***************************************************************************)
(* The gate approves an order if and only if the book after the fill       *)
(* respects every limit: for any limits, symbols, sizes and prices, and    *)
(* whatever orders built the book.                                         *)
(***************************************************************************)
THEOREM ApprovalsAreExact == DeskSpec => []VerdictIsExact
<1> DEFINE Inv == part = "book" => BookTypes
<1>1. DeskInit => Inv
  BY BookInit DEF DeskInit
<1>2. Inv /\ [DeskNext]_deskVars => Inv'
  <2> SUFFICES ASSUME Inv, [DeskNext]_deskVars, part' = "book" PROVE BookTypes'
    OBVIOUS
  <2>1. part = "book" /\ [Engine!Next]_(Engine!vars)
    BY DEF DeskNext, deskVars, bookVars, Engine!vars
  <2> QED  BY <2>1, BookNext
<1>3. Inv => VerdictIsExact
  BY GateIsExact DEF VerdictIsExact, Engine!VerdictIsExact
<1> QED  BY <1>1, <1>2, <1>3, PTL DEF DeskSpec

(***************************************************************************)
(* From a playbook to its entry.                                           *)
(***************************************************************************)
SizingInv ==
    /\ playbook \in [register : Registers, risk : RiskKnobs, loss : LossKnobs]
    /\ equity \in Equities /\ ask \in Asks

(* The entries of the three tables for a register. *)
LEMMA Tables ==
    ASSUME NEW r \in Registers
    PROVE  /\ r = "conservative" => \A a, b, c : Table(r, a, b, c) = a
           /\ r = "moderate" => \A a, b, c : Table(r, a, b, c) = b
           /\ r = "aggressive" => \A a, b, c : Table(r, a, b, c) = c
           /\ r = "conservative" \/ r = "moderate" \/ r = "aggressive"
  BY DEF Table, Registers

(* The concentration cap times the stop's distance is the register's room; *)
(* the leverage times the distance is more than the cap on risk.           *)
Roomy(pb) ==
    /\ StopPctFor(pb.register) \in 20..50
    /\ ToRiskConfig(pb).concentrationPct \in Nat /\ ToRiskConfig(pb).concentrationPct > 0
    /\ ToRiskConfig(pb).concentrationPct * StopPctFor(pb.register)
         = Table(pb.register, 3000, 7500, 17500)
    /\ ToRiskConfig(pb).leverage \in Nat /\ ToRiskConfig(pb).leverage >= 1000
    /\ ToRiskConfig(pb).maxOpen \in Nat /\ ToRiskConfig(pb).maxOpen > 1
    /\ ToRiskConfig(pb).totalExposure = 0 /\ ToRiskConfig(pb).requireStop = TRUE
    /\ ToRiskConfig(pb).riskPct = RiskPctOf(pb)

LEMMA RoomOf == ASSUME NEW pb, pb.register \in Registers PROVE Roomy(pb)
<1>1. PICK r \in Registers : r = pb.register
  OBVIOUS
<1>2. /\ ToRiskConfig(pb).concentrationPct = Table(r, 150, 250, 350)
      /\ ToRiskConfig(pb).leverage = 1000 * Table(r, 1, 2, 3)
      /\ ToRiskConfig(pb).maxOpen = Table(r, 5, 10, 15)
      /\ ToRiskConfig(pb).totalExposure = 0 /\ ToRiskConfig(pb).requireStop = TRUE
      /\ ToRiskConfig(pb).riskPct = RiskPctOf(pb)
      /\ StopPctFor(r) = Table(r, 20, 30, 50)
  BY <1>1 DEF ToRiskConfig, StopPctFor, Thousandths
<1>3. CASE r = "conservative"
  BY <1>1, <1>2, <1>3, Tables DEF Roomy
<1>4. CASE r = "moderate"
  BY <1>1, <1>2, <1>4, Tables DEF Roomy
<1>5. CASE r = "aggressive"
  BY <1>1, <1>2, <1>5, Tables DEF Roomy
<1>6. r = "conservative" \/ r = "moderate" \/ r = "aggressive"
  BY <1>1 DEF Registers
<1> QED  BY <1>3, <1>4, <1>5, <1>6

LEMMA RiskIsPositive ==
    ASSUME NEW pb, pb.register \in Registers, pb.risk \in Nat
    PROVE  RiskPctOf(pb) \in Nat \ {0}
<1>1. CASE pb.risk = 0
  <2>1. RiskPctOf(pb) = Table(pb.register, 5, 10, 20)
    BY <1>1 DEF RiskPctOf
  <2> QED  BY <2>1, Tables
<1>2. CASE pb.risk # 0
  BY <1>2 DEF RiskPctOf
<1> QED  BY <1>1, <1>2

LEMMA Associates ==
    ASSUME NEW a \in Int, NEW b \in Int
    PROVE  /\ a * b = b * a
           /\ \A c \in Int : (a * b) * c = a * (b * c)
  OBVIOUS

(* An entry's risk is the budget: its worth times the stop's distance is   *)
(* the equity times the risk knob.                                         *)
WholeSizes(e, a, r, s) == (a * s) % 1000 = 0 /\ (e * r) % (a * s) = 0
Sized(e, a, r, s, stop, q) ==
    /\ stop \in Nat /\ stop > 0 /\ stop < a
    /\ q \in Nat /\ q > 0
    /\ (q * a) * s = e * r
    /\ (q * Magnitude(a - stop)) * 1000 = e * r

LEMMA EntryIsSized ==
    ASSUME NEW e \in Nat \ {0}, NEW a \in Nat \ {0}, NEW r \in Nat \ {0}, NEW s \in 20..50,
           WholeSizes(e, a, r, s), NEW stop, stop = StopBelow(a, s), NEW q, q = RiskSizedQty(e, r, a, stop)
    PROVE  Sized(e, a, r, s, stop, q)
<1>1. PICK area \in Nat : area = a * s
  BY Positive
<1>2. area > 0
  BY <1>1, SignOfProduct
<1>3. PICK k \in Nat : area = 1000 * k
  BY <1>1, WholeAverage DEF WholeSizes
<1>4. k > 0
  BY <1>2, <1>3
<1>5. a * (1000 - s) = 1000 * (a - k)
  <2>1. PICK m \in Int : m = -s
    OBVIOUS
  <2>2. a * (1000 + m) = a * 1000 + a * m /\ a * m = -(a * s)
    BY <2>1
  <2>3. 1000 - s = 1000 + m /\ a * 1000 = 1000 * a
    BY <2>1
  <2>4. 1000 * (a - k) = 1000 * a - 1000 * k
    BY <1>3
  <2> QED  BY <1>1, <1>3, <2>2, <2>3, <2>4
<1>6. a * (1000 - s) > 0
  BY SignOfProduct
<1>7. a - k \in Nat /\ a - k > 0
  BY <1>5, <1>6
<1>8. stop \in Nat /\ stop = a - k
  BY <1>5, <1>7 DEF StopBelow, Thousandths
<1>9. Magnitude(a - stop) = k
  BY <1>8 DEF Magnitude
<1>10. PICK er \in Nat : er = e * r /\ er > 0
  BY SignOfProduct, Positive
<1>12. q = er \div area
  BY <1>3, <1>9, <1>10 DEF RiskSizedQty, Thousandths
<1>13. er % area = 0
  BY <1>1, <1>10 DEF WholeSizes
<1>18. area \in Nat \ {0}
  BY <1>1, <1>2
<1>14. q \in Nat /\ area * q = er
  BY <1>10, <1>12, <1>13, <1>18, WholeAverage
<1>15. q > 0
  <2>1. area * q > 0 <=> (area > 0 /\ q > 0) \/ (area < 0 /\ q < 0)
    BY <1>1, <1>14, SignOfProduct
  <2> QED  BY <1>1, <1>10, <1>14, <2>1
<1>16. (q * a) * s = er
  <2>1. (q * a) * s = q * (a * s)
    BY <1>1, <1>3, <1>14, Associates
  <2>2. q * area = area * q
    BY <1>1, <1>3, <1>14, Associates
  <2> QED  BY <1>1, <1>14, <2>1, <2>2
<1>17. (q * k) * 1000 = er
  <2>1. (q * k) * 1000 = q * (1000 * k)
    <3>1. (q * k) * 1000 = q * (k * 1000)
      BY <1>1, <1>3, <1>14, Associates
    <3> QED  BY <3>1
  <2>2. q * area = area * q
    BY <1>1, <1>3, <1>14, Associates
  <2> QED  BY <1>3, <1>14, <2>1, <2>2
<1> QED  BY <1>4, <1>8, <1>9, <1>10, <1>14, <1>15, <1>16, <1>17 DEF Sized

(* Comparing products of the same positive factor. *)
LEMMA Cancel ==
    ASSUME NEW k \in Nat \ {0}, NEW a \in Int, NEW b \in Int
    PROVE  a * k > b * k <=> a > b
<1>1. PICK d \in Int : d = a - b
  OBVIOUS
<1>2. d * k > 0 <=> d > 0
  BY SignOfProduct
<1>3. d * k = a * k - b * k /\ a * k \in Int /\ b * k \in Int
  BY <1>1
<1> QED  BY <1>1, <1>2, <1>3

(* The engine's order of the limits. *)
LEMMA FirstTripped ==
    ASSUME NEW cfg, NEW p, NEW ps, NEW n \in 1..8,
           Trips(LimitNames[n], cfg, p, ps),
           \A i \in 1..8 : i < n => ~Trips(LimitNames[i], cfg, p, ps)
    PROVE  CheckOrder(cfg, p, ps) = LimitNames[n]
<1>1. PICK tripped : tripped = {i \in DOMAIN LimitNames : Trips(LimitNames[i], cfg, p, ps)}
  OBVIOUS
<1>2. DOMAIN LimitNames = 1..8
  BY DEF LimitNames
<1>3. n \in tripped /\ \A i \in tripped : i \in 1..8 /\ n <= i
  BY <1>1, <1>2
<1>4. \A x \in tripped : (\A y \in tripped : x <= y) => x = n
  BY <1>3
<1>5. Min(tripped) = n
  BY <1>3, <1>4 DEF Min
<1> QED  BY <1>1, <1>3, <1>5 DEF CheckOrder

LEMMA NoneTripped ==
    ASSUME NEW cfg, NEW p, NEW ps, \A i \in 1..8 : ~Trips(LimitNames[i], cfg, p, ps)
    PROVE  CheckOrder(cfg, p, ps) = "None"
<1>1. DOMAIN LimitNames = 1..8
  BY DEF LimitNames
<1>2. {i \in DOMAIN LimitNames : Trips(LimitNames[i], cfg, p, ps)} = {}
  BY <1>1
<1> QED  BY <1>2 DEF CheckOrder

(* A flat book is worth nothing. *)
LEMMA FlatIsWorthless ==
    ASSUME NEW ps, DOMAIN ps.positions = {}
    PROVE  /\ GrossExposure(ps) = 0 /\ CountOpen(ps) = 0
           /\ \A s : SymbolExposure(ps, s) = 0 /\ QtyHeld(ps, s) = 0 /\ ~Held(ps, s)
<1>1. \A s : SymbolExposure(ps, s) = 0 /\ QtyHeld(ps, s) = 0 /\ ~Held(ps, s)
  BY DEF SymbolExposure, QtyHeld, Held
<1>2. CountOpen(ps) = 0
  <2>1. {s \in DOMAIN ps.positions : QtyHeld(ps, s) # 0} = {}
    OBVIOUS
  <2> QED  BY <2>1, FS_EmptySet DEF CountOpen
<1>3. GrossExposure(ps) = 0
  <2> DEFINE P(g) == g = [s \in SUBSET {} |-> IF s = {} THEN 0 ELSE
                       SymbolExposure(ps, CHOOSE x \in s : TRUE) + g[s \ {CHOOSE x \in s : TRUE}]]
  <2>1. GrossExposure(ps) = (CHOOSE g : P(g))[{}]
    BY DEF GrossExposure, MapThenSumSet, MapThenFoldSet
  <2>2. PICK z : z = [s \in SUBSET {} |-> 0]
    OBVIOUS
  <2>3. P(z)
    BY <2>2
  <2>4. P(CHOOSE g : P(g))
    BY <2>3
  <2>5. \A g : P(g) => g[{}] = 0
    OBVIOUS
  <2> HIDE DEF P
  <2> QED  BY <2>1, <2>4, <2>5
<1> QED  BY <1>1, <1>2, <1>3

(* The verdict on an entry, from the risk knob and the register's room alone. *)
LEMMA VerdictOnEntry == ASSUME SizingInv PROVE TradableExactlyWhen
<1>1. PICK pb : pb = playbook
  OBVIOUS
<1>2. pb.register \in Registers /\ pb.risk \in RiskKnobs /\ pb.risk \in Nat
  BY <1>1, SizingAssumption DEF SizingInv
<1>3. PICK e \in Nat \ {0}, a \in Nat \ {0} : e = equity /\ a = ask
  BY SizingAssumption DEF SizingInv
<1>4. PICK r \in Nat \ {0} : r = RiskPctOf(pb)
  BY <1>2, RiskIsPositive
<1>36. Roomy(pb)
  BY <1>2, RoomOf
<1>5. PICK s \in 20..50 : s = StopPctFor(pb.register)
  BY <1>36 DEF Roomy
<1>6. PICK cfg : cfg = ToRiskConfig(pb)
  OBVIOUS
<1>37. PICK cp \in Nat : cp = cfg.concentrationPct /\ cp > 0
  <2>1. cfg.concentrationPct \in Nat /\ cfg.concentrationPct > 0
    BY <1>6, <1>36 DEF Roomy
  <2> QED  BY <2>1
<1>38. PICK lv \in Nat : lv = cfg.leverage /\ lv >= 1000
  <2>1. cfg.leverage \in Nat /\ cfg.leverage >= 1000
    BY <1>6, <1>36 DEF Roomy
  <2> QED  BY <2>1
<1>39. PICK mo \in Nat : mo = cfg.maxOpen /\ mo > 1
  <2>1. cfg.maxOpen \in Nat /\ cfg.maxOpen > 1
    BY <1>6, <1>36 DEF Roomy
  <2> QED  BY <2>1
<1>7. /\ cp = cfg.concentrationPct /\ cp > 0 /\ lv = cfg.leverage /\ lv >= 1000
      /\ mo = cfg.maxOpen /\ mo > 1
  BY <1>37, <1>38, <1>39
<1>8. /\ cp * s = Table(pb.register, 3000, 7500, 17500)
      /\ cfg.totalExposure = 0 /\ cfg.requireStop = TRUE /\ cfg.riskPct = r
  BY <1>4, <1>5, <1>6, <1>7, <1>36 DEF Roomy
<1>9. WholeSizes(e, a, r, s)
  <2> DEFINE twin == [register |-> pb.register, risk |-> pb.risk, loss |-> 0]
  <2>2. twin \in [register : Registers, risk : RiskKnobs, loss : {0}]
        /\ twin.register = pb.register /\ twin.risk = pb.risk
    BY <1>2
  <2>3. RiskPctOf(twin) = r
    BY <1>4, <2>2 DEF RiskPctOf
  <2>4. e \in Equities /\ a \in Asks
    BY <1>3 DEF SizingInv
  <2>5. /\ (a * StopPctFor(twin.register)) % Thousandths = 0
        /\ (e * RiskPctOf(twin)) % (a * StopPctFor(twin.register)) = 0
    BY <2>2, <2>4, WholeNumbersAssumption DEF WholeNumbers
  <2> QED  BY <1>5, <2>2, <2>3, <2>5 DEF Thousandths, WholeSizes
<1>10. PICK stop, q : stop = StopBelow(a, s) /\ q = RiskSizedQty(e, r, a, stop)
  OBVIOUS
<1>40. Sized(e, a, r, s, stop, q)
  <2>1. /\ e \in Nat \ {0} /\ a \in Nat \ {0} /\ r \in Nat \ {0} /\ s \in 20..50
    BY <1>3, <1>4, <1>5
  <2> QED  BY <2>1, <1>9, <1>10, EntryIsSized
<1>11. /\ stop \in Nat /\ stop > 0 /\ stop < a /\ q \in Nat /\ q > 0
       /\ (q * a) * s = e * r
       /\ (q * Magnitude(a - stop)) * 1000 = e * r
  BY <1>40 DEF Sized
<1>12. PICK p, ps : p = Entry /\ ps = FlatBook
  OBVIOUS
<1>13. /\ p.sym = "S" /\ p.side = "Buy" /\ p.entry = a /\ p.stop = stop /\ p.qty = q
       /\ ps.equity = e /\ ps.realized = 0 /\ DOMAIN ps.positions = {}
  BY <1>1, <1>3, <1>4, <1>5, <1>10, <1>12 DEF Entry, FlatBook
<1>14. PICK worth \in Nat, er \in Nat : worth = q * a /\ er = e * r
  BY <1>11, Positive
<1>15. SymbolExposureAfter(p, ps) = worth /\ GrossAfter(p, ps) = worth
  BY <1>13, <1>14, FlatIsWorthless DEF SymbolExposureAfter, GrossAfter
<1>16. PICK limit : limit = EffectiveRiskPct(cfg)
  OBVIOUS
<1>17. limit = IF r <= 20 THEN r ELSE 20
  <2>1. limit = Min({r, 20})
    BY <1>8, <1>16 DEF EffectiveRiskPct, HardCapRiskPct
  <2> QED  BY <2>1, MinOfTwo
<1>18. ~Trips("InvalidInput", cfg, p, ps)
  BY <1>11, <1>13 DEF Trips, InputInvalid
<1>19. ~Trips("MissingStop", cfg, p, ps)
  BY <1>11, <1>13 DEF Trips, StopProtects
<1>20. ~Trips("DailyLoss", cfg, p, ps)
  BY <1>13 DEF Trips, CheckDailyLoss
<1>21. Trips("PerTradeRisk", cfg, p, ps) <=> r > 20
  <2>1. Trips("PerTradeRisk", cfg, p, ps) <=> er > limit * e
    BY <1>11, <1>13, <1>14, <1>16 DEF Trips, Exceeds, PerTradeRisk, Thousandths
  <2>2. er = r * e
    BY <1>14
  <2>3. r * e > limit * e <=> r > limit
    BY <1>17, Cancel
  <2> QED  BY <1>17, <2>1, <2>2, <2>3
<1>22. ASSUME NEW cap \in Nat
       PROVE  Exceeds(worth, cap, e) <=> r * 1000 > cap * s
  <2>1. PICK ce \in Nat : ce = cap * e
    BY Positive
  <2>2. Exceeds(worth, cap, e) <=> worth * 1000 > ce
    BY <2>1 DEF Exceeds, Thousandths
  <2>3. worth * 1000 > ce <=> (worth * 1000) * s > ce * s
    BY Cancel
  <2>4. (worth * 1000) * s = (r * 1000) * e
    <3>1. (worth * 1000) * s = (worth * s) * 1000
      BY Associates
    <3>2. worth * s = e * r
      BY <1>11, <1>14
    <3>3. (e * r) * 1000 = (r * 1000) * e
      BY Associates
    <3> QED  BY <3>1, <3>2, <3>3
  <2>5. ce * s = (cap * s) * e
    BY <2>1, Associates
  <2>6. PICK left \in Nat, right \in Nat : left = r * 1000 /\ right = cap * s
    BY Positive
  <2>7. left * e > right * e <=> left > right
    BY Cancel
  <2> QED  BY <2>2, <2>3, <2>4, <2>5, <2>6, <2>7
<1>23. r <= 20 => ~Trips("GrossLeverage", cfg, p, ps)
  <2>1. Trips("GrossLeverage", cfg, p, ps) => Exceeds(worth, lv, e)
    BY <1>7, <1>13, <1>15 DEF Trips
  <2>2. Exceeds(worth, lv, e) => r * 1000 > lv * s
    BY <1>22
  <2>3. lv * s >= 20000
    <3>1. PICK x \in Nat : x = lv - 1000
      BY <1>38
    <3>2. x * s \in Nat
      BY Positive
    <3>3. lv * s = 1000 * s + x * s
      <4>1. lv = 1000 + x
        BY <3>1
      <4> QED  BY <4>1, Distributes
    <3> QED  BY <3>2, <3>3
  <2> QED  BY <2>1, <2>2, <2>3
<1>24. ~Trips("TotalExposure", cfg, p, ps)
  BY <1>8 DEF Trips
<1>25. Trips("Concentration", cfg, p, ps) <=> r * 1000 > cp * s
  <2>1. Trips("Concentration", cfg, p, ps) <=> Exceeds(worth, cp, e)
    BY <1>7, <1>13, <1>15 DEF Trips
  <2> QED  BY <1>22, <2>1
<1>26. ~Trips("MaxOpenPositions", cfg, p, ps)
  BY <1>7, <1>13, FlatIsWorthless DEF Trips
<1>27. /\ LimitNames[1] = "InvalidInput" /\ LimitNames[2] = "MissingStop"
       /\ LimitNames[3] = "DailyLoss" /\ LimitNames[4] = "PerTradeRisk"
       /\ LimitNames[5] = "GrossLeverage" /\ LimitNames[6] = "TotalExposure"
       /\ LimitNames[7] = "Concentration" /\ LimitNames[8] = "MaxOpenPositions"
  BY DEF LimitNames
<1>28. \A i \in 1..8 : i = 1 \/ i = 2 \/ i = 3 \/ i = 4 \/ i = 5 \/ i = 6 \/ i = 7 \/ i = 8
  OBVIOUS
<1>29. PICK v : v = CheckOrder(cfg, p, ps)
  OBVIOUS
<1>30. r > 20 => v = "PerTradeRisk"
  <2> SUFFICES ASSUME r > 20 PROVE v = "PerTradeRisk"
    OBVIOUS
  <2>1. \A i \in 1..8 : i < 4 => ~Trips(LimitNames[i], cfg, p, ps)
    BY <1>18, <1>19, <1>20, <1>27, <1>28
  <2>2. Trips(LimitNames[4], cfg, p, ps)
    BY <1>21, <1>27
  <2>3. v = LimitNames[4]
    BY <1>29, <2>1, <2>2, FirstTripped
  <2> QED  BY <1>27, <2>3
<1>31. r <= 20 /\ r * 1000 > cp * s => v = "Concentration"
  <2> SUFFICES ASSUME r <= 20, r * 1000 > cp * s PROVE v = "Concentration"
    OBVIOUS
  <2>1. \A i \in 1..8 : i < 7 => ~Trips(LimitNames[i], cfg, p, ps)
    BY <1>18, <1>19, <1>20, <1>21, <1>23, <1>24, <1>27, <1>28
  <2>2. Trips(LimitNames[7], cfg, p, ps)
    BY <1>25, <1>27
  <2>3. v = LimitNames[7]
    BY <1>29, <2>1, <2>2, FirstTripped
  <2> QED  BY <1>27, <2>3
<1>32. r <= 20 /\ ~(r * 1000 > cp * s) => v = "None"
  <2> SUFFICES ASSUME r <= 20, ~(r * 1000 > cp * s) PROVE v = "None"
    OBVIOUS
  <2>1. \A i \in 1..8 : ~Trips(LimitNames[i], cfg, p, ps)
    BY <1>18, <1>19, <1>20, <1>21, <1>23, <1>24, <1>25, <1>26, <1>27, <1>28
  <2> QED  BY <1>29, <2>1, NoneTripped
<1>33. PICK room \in Nat : room = cp * s /\ room = Table(playbook.register, 3000, 7500, 17500)
  <2>1. cp * s \in Nat
    BY Positive
  <2> QED  BY <1>1, <1>8, <2>1
<1>34. v = (CASE r > 20                             -> "PerTradeRisk"
              [] r <= 20 /\ r * Thousandths > room  -> "Concentration"
              [] r <= 20 /\ r * Thousandths <= room -> "None")
  BY <1>30, <1>31, <1>32, <1>33 DEF Thousandths
<1>35. Verdict = v /\ RiskPctOf(playbook) = r
  BY <1>1, <1>4, <1>6, <1>12, <1>29 DEF Verdict
<1> QED  BY <1>33, <1>34, <1>35 DEF TradableExactlyWhen

(***************************************************************************)
(* Which playbooks can open a position at all depends on the risk knob and *)
(* the register alone: for any knobs, equities and quotes on a scale on    *)
(* which sizes are whole.                                                  *)
(***************************************************************************)
THEOREM TradableByTheTables == DeskSpec => []EntryIsTradableExactlyWhen
<1> DEFINE Inv == part = "sizing" => SizingInv
<1>1. DeskInit => Inv
  BY DEF DeskInit, Init, SizingInv
<1>2. Inv /\ [DeskNext]_deskVars => Inv'
  <2> SUFFICES ASSUME Inv, [DeskNext]_deskVars, part' = "sizing" PROVE SizingInv'
    OBVIOUS
  <2>1. part = "sizing" /\ [Next]_vars
    BY DEF DeskNext, deskVars, vars
  <2> QED  BY <2>1 DEF Next, vars, QuoteMoves, EquityMoves, SizingInv
<1>3. Inv => EntryIsTradableExactlyWhen
  BY VerdictOnEntry DEF EntryIsTradableExactlyWhen
<1> QED  BY <1>1, <1>2, <1>3, PTL DEF DeskSpec

(***************************************************************************)
(* Sizes in decimals.                                                      *)
(***************************************************************************)
(* The recursion of the powers of ten has a solution: one power at a time. *)
TensTo(g, n) == g[0] = 1 /\ \A i \in 1..n : g[i] = 10 * g[i - 1]

LEMMA TensExist == \A n \in Nat : \E g : TensTo(g, n)
<1> DEFINE S == {n \in Nat : \E g : TensTo(g, n)}
<1>1. 0 \in S
  <2>1. TensTo([i \in {0} |-> 1], 0)
    BY DEF TensTo
  <2> QED  BY <2>1
<1>2. ASSUME NEW n \in Nat, n \in S PROVE n + 1 \in S
  <2>1. PICK g : TensTo(g, n)
    BY <1>2
  <2>2. PICK h : h = [i \in 0..n + 1 |-> IF i = n + 1 THEN 10 * g[n] ELSE g[i]]
    OBVIOUS
  <2>3. h[0] = g[0] /\ h[n + 1] = 10 * g[n] /\ \A i \in 0..n : h[i] = g[i]
    BY <2>2
  <2>4. ASSUME NEW i \in 1..n + 1 PROVE h[i] = 10 * h[i - 1]
    <3>1. CASE i = n + 1
      BY <2>3, <3>1
    <3>2. CASE i # n + 1
      <4>1. i \in 1..n /\ i \in 0..n /\ i - 1 \in 0..n
        BY <3>2
      <4> QED  BY <2>1, <2>3, <4>1 DEF TensTo
    <3> QED  BY <3>1, <3>2
  <2> QED  BY <2>1, <2>3, <2>4 DEF TensTo
<1> HIDE DEF S
<1>3. \A n \in Nat : n \in S
  BY <1>1, <1>2, SetInduction
<1> QED  BY <1>3 DEF S

LEMMA TensAgree ==
    ASSUME NEW m \in Nat, NEW n \in Nat, m <= n, NEW g, NEW h, TensTo(g, m), TensTo(h, n)
    PROVE  g[m] = h[m]
<1> DEFINE S == {k \in Nat : k <= m => g[k] = h[k]}
<1>1. 0 \in S
  BY DEF TensTo
<1>2. ASSUME NEW k \in Nat, k \in S PROVE k + 1 \in S
  <2> SUFFICES ASSUME k + 1 <= m PROVE g[k + 1] = h[k + 1]
    OBVIOUS
  <2>1. k + 1 \in 1..m /\ k + 1 \in 1..n /\ (k + 1) - 1 = k /\ g[k] = h[k]
    BY <1>2
  <2> QED  BY <2>1 DEF TensTo
<1> HIDE DEF S
<1>3. \A k \in Nat : k \in S
  BY <1>1, <1>2, SetInduction
<1> QED  BY <1>3 DEF S

LEMMA TenIs ==
    /\ Rounding!Ten[0] = 1
    /\ \A n \in Nat : Rounding!Ten[n + 1] = 10 * Rounding!Ten[n]
<1> DEFINE P(g) == g = [n \in Nat |-> IF n = 0 THEN 1 ELSE 10 * g[n - 1]]
           PowersTo(n) == CHOOSE g : TensTo(g, n)
           G == [n \in Nat |-> PowersTo(n)[n]]
<1>1. \A n \in Nat : TensTo(PowersTo(n), n)
  BY TensExist
<1>2. ASSUME NEW n \in Nat PROVE G[n] = IF n = 0 THEN 1 ELSE 10 * G[n - 1]
  <2>1. CASE n = 0
    BY <1>1, <2>1 DEF TensTo
  <2>2. CASE n # 0
    <3>1. PICK m \in Nat : n = m + 1
      <4>1. n - 1 \in Nat /\ n = (n - 1) + 1
        BY <2>2
      <4> QED  BY <4>1
    <3>2. TensTo(PowersTo(n), n) /\ TensTo(PowersTo(m), m)
      BY <1>1
    <3>3. PowersTo(m)[m] = PowersTo(n)[m]
      <4> HIDE DEF PowersTo
      <4> QED  BY <3>1, <3>2, TensAgree
    <3>4. PowersTo(n)[n] = 10 * PowersTo(n)[m]
      <4> HIDE DEF PowersTo
      <4>1. n \in 1..n /\ n - 1 = m
        BY <3>1
      <4> QED  BY <3>2, <4>1 DEF TensTo
    <3>5. G[n] = PowersTo(n)[n] /\ G[m] = PowersTo(m)[m] /\ n - 1 = m
      <4> HIDE DEF PowersTo
      <4> QED  BY <3>1
    <3> HIDE DEF PowersTo, G
    <3> QED  BY <2>2, <3>3, <3>4, <3>5
  <2> HIDE DEF G
  <2> QED  BY <2>1, <2>2
<1>3. P(G)
  <2>1. G = [n \in Nat |-> G[n]]
    OBVIOUS
  <2>2. PICK g : g = G
    OBVIOUS
  <2>3. g = [n \in Nat |-> g[n]] /\ \A n \in Nat : g[n] = IF n = 0 THEN 1 ELSE 10 * g[n - 1]
    <3> HIDE DEF G
    <3> QED  BY <1>2, <2>1, <2>2
  <2>4. P(g)
    BY <2>3
  <2> HIDE DEF P, G
  <2> QED  BY <2>2, <2>4
<1>4. Rounding!Ten = CHOOSE g : P(g)
  BY DEF Rounding!Ten
<1>5. P(Rounding!Ten)
  <2> HIDE DEF P, G
  <2> QED  BY <1>3, <1>4
<1> QED
  <2>1. PICK t : t = Rounding!Ten
    OBVIOUS
  <2>2. t = [n \in Nat |-> IF n = 0 THEN 1 ELSE 10 * t[n - 1]]
    BY <1>5, <2>1
  <2>3. \A n \in Nat : n + 1 \in Nat /\ n + 1 # 0 /\ (n + 1) - 1 = n
    OBVIOUS
  <2>4. t[0] = 1 /\ \A n \in Nat : t[n + 1] = 10 * t[n]
    BY <2>2, <2>3
  <2> QED  BY <2>1, <2>4

LEMMA TenTypes == \A n \in Nat : Rounding!Ten[n] \in Nat \ {0}
<1> DEFINE S == {n \in Nat : Rounding!Ten[n] \in Nat \ {0}}
<1>1. 0 \in S
  BY TenIs
<1>2. ASSUME NEW n \in Nat, n \in S PROVE n + 1 \in S
  BY <1>2, TenIs
<1> HIDE DEF S
<1>3. \A n \in Nat : n \in S
  BY <1>1, <1>2, SetInduction
<1> QED  BY <1>3 DEF S

LEMMA TenAdds ==
    ASSUME NEW m \in Nat
    PROVE  \A n \in Nat : Rounding!Ten[m + n] = Rounding!Ten[m] * Rounding!Ten[n]
<1> DEFINE S == {n \in Nat : Rounding!Ten[m + n] = Rounding!Ten[m] * Rounding!Ten[n]}
<1>0. PICK a \in Nat \ {0} : a = Rounding!Ten[m]
  BY TenTypes
<1>1. 0 \in S
  BY <1>0, TenIs
<1>2. ASSUME NEW n \in Nat, n \in S PROVE n + 1 \in S
  <2>1. PICK b \in Nat \ {0} : b = Rounding!Ten[n]
    BY TenTypes
  <2>2. m + (n + 1) = (m + n) + 1 /\ m + n \in Nat
    OBVIOUS
  <2>3. Rounding!Ten[m + (n + 1)] = 10 * (a * b)
    BY <1>0, <1>2, <2>1, <2>2, TenIs
  <2>4. Rounding!Ten[n + 1] = 10 * b
    BY <2>1, TenIs
  <2>5. 10 * (a * b) = a * (10 * b)
    OBVIOUS
  <2> QED  BY <1>0, <2>3, <2>4, <2>5
<1> HIDE DEF S
<1>3. \A n \in Nat : n \in S
  BY <1>1, <1>2, SetInduction
<1> QED  BY <1>3 DEF S

(* The quotient and the remainder. *)
LEMMA Division ==
    ASSUME NEW n \in Nat, NEW d \in Nat \ {0}
    PROVE  /\ n \div d \in Nat /\ n % d \in 0..d - 1
           /\ n = (n \div d) * d + (n % d)
  OBVIOUS

(* Rounding half to even moves a quotient by at most a half, and never     *)
(* past a whole number.                                                    *)
LEMMA HalfEvenIsClose ==
    ASSUME NEW n \in Nat, NEW d \in Nat \ {0}
    PROVE  LET h == Rounding!HalfEven(n, d)
           IN  /\ h \in Nat
               /\ 2 * (h * d - n) <= d /\ 2 * (n - h * d) <= d
               /\ \A k \in Int : n <= k * d => h <= k
<1>1. PICK q \in Nat, r \in 0..d - 1 : q = n \div d /\ r = n % d /\ n = q * d + r
  BY Division
<1>2. PICK h : h = Rounding!HalfEven(n, d)
  OBVIOUS
<1>3. h = IF 2 * r > d \/ (2 * r = d /\ q % 2 = 1) THEN q + 1 ELSE q
  BY <1>1, <1>2 DEF Rounding!HalfEven
<1>4. q * d \in Int /\ (q + 1) * d = q * d + d
  BY OneMore
<1>5. ASSUME NEW k \in Int, n <= k * d PROVE h <= k
  <2>1. k * d \in Int
    BY OneMore
  <2>2. ASSUME k < q PROVE FALSE
    <3>1. PICK e \in Nat : q = k + e /\ e > 0
      <4>1. q - k \in Nat /\ q = k + (q - k) /\ q - k > 0
        BY <2>2
      <4> QED  BY <4>1
    <3>2. q * d = k * d + e * d /\ e * d > 0
      BY <3>1, Distributes, SignOfProduct
    <3>3. e * d \in Int
      BY OneMore
    <3> QED  BY <1>1, <1>4, <1>5, <2>1, <3>2, <3>3
  <2>3. k = q => r = 0
    BY <1>1, <1>4, <1>5
  <2> QED  BY <1>1, <1>3, <2>2, <2>3
<1>6. 2 * (h * d - n) <= d /\ 2 * (n - h * d) <= d
  <2>1. CASE h = q
    <3>1. 2 * r <= d
      BY <1>1, <1>3, <2>1
    <3>2. h * d - n = -r /\ n - h * d = r
      BY <1>1, <1>4, <2>1
    <3> QED  BY <1>1, <3>1, <3>2
  <2>2. CASE h = q + 1
    <3>1. 2 * r >= d
      BY <1>1, <1>3, <2>2
    <3>2. h * d - n = d - r /\ n - h * d = r - d
      BY <1>1, <1>4, <2>2
    <3> QED  BY <1>1, <3>1, <3>2
  <2> QED  BY <1>3, <2>1, <2>2
<1>7. h \in Nat
  BY <1>1, <1>3
<1> QED  BY <1>2, <1>5, <1>6, <1>7

LEMMA HalfEvenOfWhole ==
    ASSUME NEW n \in Nat PROVE Rounding!HalfEven(n, 1) = n
<1>1. PICK h \in Nat : h = Rounding!HalfEven(n, 1) /\ 2 * (h * 1 - n) <= 1 /\ 2 * (n - h * 1) <= 1
  BY HalfEvenIsClose
<1> QED  BY <1>1

(* The quotient is not more than what is divided. *)
LEMMA HalfEvenShrinks ==
    ASSUME NEW n \in Nat, NEW d \in Nat \ {0} PROVE Rounding!HalfEven(n, d) <= n
<1>1. n <= n * d
  <2>1. PICK e \in Nat : d = 1 + e
    <3>1. d - 1 \in Nat /\ d = 1 + (d - 1)
      OBVIOUS
    <3> QED  BY <3>1
  <2>2. n * d = n + e * n /\ e * n \in Nat
    BY <2>1, Positive
  <2> QED  BY <2>2
<1> QED  BY <1>1, HalfEvenIsClose

(* A result that fits gets as many digits as there is room for. *)
LEMMA FitWidens ==
    ASSUME NEW n \in Nat, NEW d \in Nat \ {0}, NEW s \in Int,
           Rounding!HalfEven(n, d) < Rounding!Limit
    PROVE  \E k \in 0..Digits :
               LET h == Rounding!HalfEven(n * Rounding!Ten[k], d)
               IN  h < Rounding!Limit /\ Rounding!Fit(n, d, s) = [c |-> h, s |-> s + k]
<1> DEFINE Fits(k) == Rounding!HalfEven(n * Rounding!Ten[k], d) < Rounding!Limit
           All == {i \in 0..Digits : \A j \in 0..i : Fits(j)}
<1>0. Digits \in Nat /\ n * 1 = n
  BY RoundingAssumption
<1>1. Fits(0)
  BY <1>0, TenIs
<1>2. 0 \in All
  <2>1. \A j \in 0..0 : j = 0
    OBVIOUS
  <2> HIDE DEF Fits
  <2> QED  BY <1>0, <1>1, <2>1
<1>3. PICK k \in All : \A i \in All : k >= i
  <2> HIDE DEF Fits
  <2>1. All \in SUBSET (0..Digits) /\ All # {}
    BY <1>2
  <2> HIDE DEF All
  <2>2. PICK k \in All : \A i \in All : i <= k
    BY <1>0, <2>1, GreatestNat
  <2>3. \A i \in All : i \in Int
    BY <1>0, <2>1
  <2> QED  BY <2>2, <2>3
<1>4. \A i, j \in All : i \in Int /\ (i >= j /\ j >= i => i = j)
  OBVIOUS
<1>5. Rounding!Max(All) = k
  <2> HIDE DEF All
  <2> QED  BY <1>3, <1>4 DEF Rounding!Max
<1>6. k \in 0..Digits /\ Fits(k)
  <2>1. k \in 0..Digits /\ k \in 0..k
    BY <1>0, <1>3
  <2> HIDE DEF Fits
  <2> QED  BY <1>3, <2>1
<1>7. Rounding!Fit(n, d, s) = Rounding!Dec(Rounding!HalfEven(n * Rounding!Ten[k], d), s + k)
  <2>1. Rounding!Fit(n, d, s) =
            LET m == IF Fits(0) THEN Rounding!Max(All) ELSE 0
                j == Rounding!Min({i \in Rounding!Scales : Rounding!HalfEven(n, d * Rounding!Ten[i]) < Rounding!Limit})
            IN  IF Fits(0) THEN Rounding!Dec(Rounding!HalfEven(n * Rounding!Ten[m], d), s + m)
                ELSE Rounding!Dec(Rounding!HalfEven(n, d * Rounding!Ten[j]), s - j)
    BY DEF Rounding!Fit
  <2> HIDE DEF Fits, All
  <2> QED  BY <1>1, <1>5, <2>1
<1> QED  BY <1>6, <1>7 DEF Rounding!Dec

(* A whole number that does not fit loses as few digits as it must. *)
LEMMA FitNarrows ==
    ASSUME NEW n \in Nat, NEW s \in Int, n >= Rounding!Limit,
           NEW t \in Rounding!Scales, Rounding!HalfEven(n, Rounding!Ten[t]) < Rounding!Limit
    PROVE  \E j \in 1..t :
               LET h == Rounding!HalfEven(n, Rounding!Ten[j])
               IN  /\ h < Rounding!Limit /\ Rounding!HalfEven(n, Rounding!Ten[j - 1]) >= Rounding!Limit
                   /\ Rounding!Fit(n, 1, s) = [c |-> h, s |-> s - j]
<1> DEFINE Fits(k) == Rounding!HalfEven(n * Rounding!Ten[k], 1) < Rounding!Limit
           Narrow(i) == Rounding!HalfEven(n, Rounding!Ten[i])
           Enough == {i \in Rounding!Scales : Narrow(i) < Rounding!Limit}
           Same == {i \in Rounding!Scales : Rounding!HalfEven(n, 1 * Rounding!Ten[i]) < Rounding!Limit}
<1>0. /\ Digits \in Nat /\ n * 1 = n
      /\ Rounding!Scales = 0..2 * Digits /\ 2 * Digits \in Nat
  BY RoundingAssumption DEF Rounding!Scales
<1>7. Rounding!Limit \in Nat
  BY <1>0, TenTypes DEF Rounding!Limit
<1>1. ~Fits(0) /\ Narrow(0) = n
  <2>1. Rounding!Ten[0] = 1 /\ Rounding!HalfEven(n, 1) = n
    BY TenIs, HalfEvenOfWhole
  <2>2. ~(n < Rounding!Limit)
    BY <1>7
  <2> QED  BY <1>0, <2>1, <2>2
<1>2. ASSUME NEW i \in Rounding!Scales
      PROVE  1 * Rounding!Ten[i] = Rounding!Ten[i] /\ Narrow(i) \in Nat
  <2>1. PICK b \in Nat \ {0} : b = Rounding!Ten[i]
    BY <1>0, TenTypes
  <2>2. 1 * b = b /\ Rounding!HalfEven(n, b) \in Nat
    BY HalfEvenIsClose
  <2> QED  BY <2>1, <2>2
<1>3. Same = Enough
  BY <1>2
<1>4. PICK j \in Enough : \A i \in Enough : j <= i
  <2>1. Enough \in SUBSET Nat /\ Enough # {}
    BY <1>0
  <2> HIDE DEF Enough
  <2> QED  BY <2>1, LeastNat
<1>5. t \in Enough /\ j \in Nat /\ \A i \in Enough : i \in Nat
  BY <1>0
<1>6. Rounding!Min(Same) = j
  <2>1. \A i, k \in Enough : i <= k /\ k <= i => i = k
    BY <1>5
  <2> HIDE DEF Enough, Same
  <2> QED  BY <1>3, <1>4, <2>1 DEF Rounding!Min
<1>8. j \in 1..t /\ Narrow(j) < Rounding!Limit
  <2>1. j # 0
    BY <1>1, <1>7
  <2>2. j <= t
    <3> HIDE DEF Enough
    <3> QED  BY <1>4, <1>5
  <2>3. t \in Nat
    BY <1>0
  <2> QED  BY <1>5, <2>1, <2>2, <2>3
<1>9. Narrow(j - 1) >= Rounding!Limit
  <2>1. j - 1 \in Rounding!Scales
    BY <1>0, <1>5, <1>8
  <2>2. j - 1 \notin Enough
    <3> HIDE DEF Enough
    <3> QED  BY <1>4, <1>5
  <2>3. Narrow(j - 1) \in Nat /\ ~(Narrow(j - 1) < Rounding!Limit)
    BY <1>2, <2>1, <2>2
  <2> HIDE DEF Narrow
  <2> QED  BY <1>7, <2>3
<1>10. Rounding!Fit(n, 1, s) = Rounding!Dec(Narrow(j), s - j)
  <2>1. Rounding!Fit(n, 1, s) =
            LET m == IF Fits(0) THEN Rounding!Max({i \in 0..Digits : \A x \in 0..i : Fits(x)}) ELSE 0
                y == Rounding!Min(Same)
            IN  IF Fits(0) THEN Rounding!Dec(Rounding!HalfEven(n * Rounding!Ten[m], 1), s + m)
                ELSE Rounding!Dec(Rounding!HalfEven(n, 1 * Rounding!Ten[y]), s - y)
    BY DEF Rounding!Fit
  <2>2. j \in Rounding!Scales
    OBVIOUS
  <2> HIDE DEF Fits, Same
  <2> QED  BY <1>1, <1>2, <1>6, <2>1, <2>2
<1> QED  BY <1>8, <1>9, <1>10 DEF Rounding!Dec

(* The amounts an execution of this part sizes with. *)
RoundTypes == /\ money \in SizedEquities /\ quote \in SizedAsks
              /\ risk \in SizedRisks /\ stopPct \in StopPcts

LEMMA LimitIs ==
    /\ Rounding!Limit \in Nat /\ Rounding!Limit >= 10
    /\ Rounding!Ten[2 * Digits] = Rounding!Limit * Rounding!Limit
<1>1. PICK m \in Nat : Digits = m + 1
  <2>1. Digits - 1 \in Nat /\ Digits = (Digits - 1) + 1
    BY RoundingAssumption
  <2> QED  BY <2>1
<1>2. PICK t \in Nat \ {0} : t = Rounding!Ten[m]
  BY TenTypes
<1>3. Rounding!Limit = 10 * t
  BY <1>1, <1>2, TenIs DEF Rounding!Limit
<1>4. 2 * Digits = Digits + Digits /\ Digits \in Nat
  BY <1>1
<1>5. Rounding!Ten[Digits + Digits] = Rounding!Ten[Digits] * Rounding!Ten[Digits]
  BY <1>4, TenAdds
<1>6. 10 * t \in Nat /\ 10 * t >= 10
  BY <1>2
<1> QED  BY <1>3, <1>4, <1>5, <1>6 DEF Rounding!Limit

LEMMA SmallTens == /\ Rounding!Ten[0] = 1 /\ Rounding!Ten[1] = 10
                   /\ Rounding!Ten[2] = 100 /\ Rounding!Ten[3] = 1000
<1>1. 0 + 1 = 1 /\ 1 + 1 = 2 /\ 2 + 1 = 3
  OBVIOUS
<1>2. Rounding!Ten[0] = 1 /\ Rounding!Ten[0 + 1] = 10 * Rounding!Ten[0]
  BY TenIs
<1>3. Rounding!Ten[1 + 1] = 10 * Rounding!Ten[1] /\ Rounding!Ten[2 + 1] = 10 * Rounding!Ten[2]
  BY TenIs
<1> QED  BY <1>1, <1>2, <1>3

(* The stop's distance is exact. *)
LEMMA DistanceIsExact ==
    ASSUME RoundTypes
    PROVE  \E d \in 1..Rounding!Limit - 1 : Rounding!Distance = [c |-> d, s |-> 2]
<1>1. PICK a \in Nat \ {0}, p \in 1..99, l \in Nat :
          a = quote /\ p = stopPct /\ l = Rounding!Limit /\ 100 * a < l
  BY RoundingAssumption, LimitIs DEF RoundTypes
<1>2. PICK d : d = p * a
  OBVIOUS
<1>3. d \in Nat /\ d > 0 /\ (100 - p) * a = 100 * a - d /\ (100 - p) * a \in Int /\ d < l
  <2>1. d \in Nat /\ d > 0
    BY <1>1, <1>2, Positive, SignOfProduct
  <2>2. (100 - p) * a \in Nat /\ (100 - p) * a > 0
    <3>1. 100 - p \in Nat /\ 100 - p > 0
      BY <1>1
    <3> QED  BY <1>1, <3>1, Positive, SignOfProduct
  <2>3. p * a + (100 - p) * a = (p + (100 - p)) * a
    BY Distributes
  <2>4. p + (100 - p) = 100
    BY <1>1
  <2> QED  BY <1>1, <1>2, <2>1, <2>2, <2>3, <2>4
<1>4. Rounding!Sub(Rounding!Dec(1, 0), Rounding!Dec(stopPct, 2)) = [c |-> 100 - p, s |-> 2]
  <2>1. ~(0 >= 2) /\ 2 - 0 = 2 /\ 1 * 100 - p = 100 - p
    BY <1>1
  <2> QED  BY <1>1, <2>1, SmallTens DEF Rounding!Sub, Rounding!Dec
<1>5. Rounding!Stop = [c |-> 100 * a - d, s |-> 2]
  <2>1. a * (100 - p) = 100 * a - d /\ 100 * a - d < l /\ 0 + 2 = 2
    BY <1>1, <1>3, Associates
  <2> QED  BY <1>1, <1>4, <2>1 DEF Rounding!Stop, Rounding!Mul, Rounding!Dec
<1>6. Rounding!Distance = [c |-> d, s |-> 2]
  <2>1. ~(0 >= 2) /\ 2 - 0 = 2 /\ a * 100 - (100 * a - d) = d
    BY <1>1, <1>3
  <2> QED  BY <1>1, <1>5, <2>1, SmallTens DEF Rounding!Distance, Rounding!Sub, Rounding!Dec
<1> QED  BY <1>1, <1>3, <1>6

(* The budget keeps a fraction of at most three digits. *)
LEMMA BudgetFits ==
    ASSUME RoundTypes
    PROVE  \E b \in 0..Rounding!Limit - 1, s \in 0..3 : Rounding!Budget = [c |-> b, s |-> s]
<1>1. PICK e \in Nat, r \in 1..1000, l \in Nat :
          e = money /\ r = risk /\ l = Rounding!Limit /\ e < l /\ l >= 10
  BY RoundingAssumption, LimitIs DEF RoundTypes
<1>2. PICK n \in Nat : n = e * r
  BY <1>1, Positive
<1>3. Rounding!Budget = IF n < l THEN [c |-> n, s |-> 3] ELSE Rounding!Fit(n, 1, 3)
  <2>1. 0 + 3 = 3
    OBVIOUS
  <2> QED  BY <1>1, <1>2, <2>1 DEF Rounding!Budget, Rounding!Mul, Rounding!Dec
<1>4. CASE n < l
  BY <1>1, <1>3, <1>4
<1>5. CASE ~(n < l)
  <2>1. 3 \in Rounding!Scales
    <3>1. Digits \in Nat \ {0} /\ Digits # 1
      <4>1. Digits = 1 => l = 10
        BY <1>1, SmallTens DEF Rounding!Limit
      <4>2. l > 100
        <5>1. \E a \in Nat \ {0} : 100 * a < l
          BY <1>1, RoundingAssumption DEF RoundTypes
        <5> QED  BY <1>1, <5>1
      <4> QED  BY <4>1, <4>2, RoundingAssumption
    <3> QED  BY <3>1 DEF Rounding!Scales
  <2>2. Rounding!HalfEven(n, 1000) < l
    <3>1. n <= (l - 1) * 1000
      <4>1. (l - 1) * 1000 = 1000 * (l - 1) /\ e <= l - 1 /\ l - 1 \in Int
        BY <1>1
      <4>2. e * r <= e * 1000
        BY <1>1, Monotone
      <4> QED  BY <1>1, <1>2, <4>1, <4>2
    <3>2. 1000 \in Nat \ {0} /\ l - 1 \in Int
      BY <1>1
    <3>3. Rounding!HalfEven(n, 1000) <= l - 1 /\ Rounding!HalfEven(n, 1000) \in Nat
      BY <1>2, <3>1, <3>2, HalfEvenIsClose
    <3> QED  BY <1>1, <3>3
  <2>3. PICK j \in 1..3 : /\ Rounding!HalfEven(n, Rounding!Ten[j]) < l
                          /\ Rounding!Fit(n, 1, 3) = [c |-> Rounding!HalfEven(n, Rounding!Ten[j]), s |-> 3 - j]
    <3>1. n >= Rounding!Limit /\ Rounding!HalfEven(n, Rounding!Ten[3]) < Rounding!Limit /\ 3 \in Int
      BY <1>1, <1>5, <2>2, SmallTens
    <3>2. PICK j \in 1..3 :
              /\ Rounding!HalfEven(n, Rounding!Ten[j]) < Rounding!Limit
              /\ Rounding!Fit(n, 1, 3) = [c |-> Rounding!HalfEven(n, Rounding!Ten[j]), s |-> 3 - j]
      <4>1. PICK t \in Rounding!Scales : t = 3
        BY <2>1
      <4>2. \E j \in 1..t :
               LET h == Rounding!HalfEven(n, Rounding!Ten[j])
               IN  /\ h < Rounding!Limit /\ Rounding!HalfEven(n, Rounding!Ten[j - 1]) >= Rounding!Limit
                   /\ Rounding!Fit(n, 1, 3) = [c |-> h, s |-> 3 - j]
        BY <3>1, <4>1, FitNarrows
      <4> QED  BY <4>1, <4>2
    <3> QED  BY <1>1, <3>2
  <2>4. Rounding!HalfEven(n, Rounding!Ten[j]) \in Nat /\ 3 - j \in 0..3
    <3>1. PICK t \in Nat \ {0} : t = Rounding!Ten[j]
      BY TenTypes
    <3>2. Rounding!HalfEven(n, t) \in Nat
      BY HalfEvenIsClose
    <3> QED  BY <3>1, <3>2
  <2> QED  BY <1>1, <1>3, <1>5, <2>3, <2>4
<1> QED  BY <1>4, <1>5

(* The quantity is the rounded quotient at some scale. *)
LEMMA QuantityFits ==
    ASSUME RoundTypes, NEW b \in 0..Rounding!Limit - 1, NEW s \in 0..3, NEW d \in 1..Rounding!Limit - 1,
           Rounding!Budget = [c |-> b, s |-> s], Rounding!Distance = [c |-> d, s |-> 2]
    PROVE  \E k \in Nat : LET q == Rounding!HalfEven(b * Rounding!Ten[k], d)
                          IN  /\ q < Rounding!Limit
                              /\ Rounding!SizedQty = [c |-> q, s |-> (s - 2) + k]
<1>1. b \in Nat /\ d \in Nat \ {0} /\ s - 2 \in Int /\ b < Rounding!Limit
  BY LimitIs
<1>2. Rounding!HalfEven(b, d) < Rounding!Limit
  <2>1. Rounding!HalfEven(b, d) <= b /\ Rounding!HalfEven(b, d) \in Nat
    BY <1>1, HalfEvenShrinks, HalfEvenIsClose
  <2> QED  BY <1>1, <2>1, LimitIs
<1>3. Rounding!SizedQty = Rounding!Fit(b, d, s - 2)
  BY DEF Rounding!SizedQty, Rounding!Quo
<1>4. \E k \in 0..Digits :
               LET h == Rounding!HalfEven(b * Rounding!Ten[k], d)
               IN  h < Rounding!Limit /\ Rounding!Fit(b, d, s - 2) = [c |-> h, s |-> (s - 2) + k]
  BY <1>1, <1>2, FitWidens
<1>5. \A k \in 0..Digits : k \in Nat
  OBVIOUS
<1> QED  BY <1>3, <1>4, <1>5

(* What is risked, when the quantity was not rounded up, is within the     *)
(* budget, also after it is rounded itself.                                *)
LEMMA RiskWithinBudget ==
    ASSUME NEW b \in 0..Rounding!Limit - 1, NEW k \in Nat, NEW p \in Nat, NEW j \in Nat \ {0},
           p <= b * Rounding!Ten[k],
           Rounding!HalfEven(p, Rounding!Ten[j - 1]) >= Rounding!Limit
    PROVE  j <= k /\ Rounding!HalfEven(p, Rounding!Ten[j]) <= b * Rounding!Ten[k - j]
<1>0. b \in Nat /\ b < Rounding!Limit /\ Rounding!Limit \in Nat
  BY LimitIs
<1>1. PICK w \in Nat \ {0} : w = Rounding!Ten[k]
  BY TenTypes
<1>2. j <= k
  <2> SUFFICES ASSUME k < j PROVE FALSE
    OBVIOUS
  <2>1. PICK i \in Nat, v \in Nat \ {0} : j - 1 = k + i /\ v = Rounding!Ten[i]
    <3>1. (j - 1) - k \in Nat /\ j - 1 = k + ((j - 1) - k)
      OBVIOUS
    <3> QED  BY <3>1, TenTypes
  <2>2. Rounding!Ten[j - 1] = w * v /\ w * v \in Nat \ {0}
    <3>1. Rounding!Ten[k + i] = w * v
      BY <1>1, <2>1, TenAdds
    <3>2. j - 1 \in Nat
      OBVIOUS
    <3> QED  BY <2>1, <3>1, <3>2, TenTypes
  <2>3. b * w <= b * (w * v)
    <3>1. w <= w * v
      <4>1. w * 1 <= w * v
        BY Monotone
      <4> QED  BY <4>1
    <3> QED  BY <1>0, <2>2, <3>1, Monotone
  <2>4. p <= b * (w * v) /\ b * w \in Nat /\ b * (w * v) \in Nat
    BY <1>0, <1>1, <2>2, <2>3, Positive
  <2>5. PICK z \in Nat \ {0} : z = w * v
    BY <2>2
  <2>6. Rounding!HalfEven(p, z) <= b /\ Rounding!HalfEven(p, z) \in Nat
    BY <1>0, <2>4, <2>5, HalfEvenIsClose
  <2> QED  BY <1>0, <2>2, <2>5, <2>6
<1>3. PICK i \in Nat, v \in Nat \ {0}, t \in Nat \ {0} :
          /\ k = i + j /\ k - j = i /\ v = Rounding!Ten[i] /\ t = Rounding!Ten[j]
  <2>1. k - j \in Nat /\ k = (k - j) + j
    BY <1>2
  <2> QED  BY <2>1, TenTypes
<1>4. w = v * t
  BY <1>1, <1>3, TenAdds
<1>5. p <= (b * v) * t /\ b * v \in Int
  <2>1. (b * v) * t = b * (v * t) /\ b * v \in Int
    BY <1>0, Associates, OneMore
  <2> QED  BY <1>1, <1>4, <2>1
<1>6. Rounding!HalfEven(p, t) <= b * v
  BY <1>5, HalfEvenIsClose
<1> QED  BY <1>2, <1>3, <1>6

LEMMA SizesRound == ASSUME RoundTypes PROVE Rounding!RefusedOnlyByRounding
<1>1. PICK b \in 0..Rounding!Limit - 1, s \in 0..3 : Rounding!Budget = [c |-> b, s |-> s]
  BY BudgetFits
<1>2. PICK d \in 1..Rounding!Limit - 1 : Rounding!Distance = [c |-> d, s |-> 2]
  BY DistanceIsExact
<1>3. PICK k \in Nat : LET q == Rounding!HalfEven(b * Rounding!Ten[k], d)
                       IN  /\ q < Rounding!Limit
                           /\ Rounding!SizedQty = [c |-> q, s |-> (s - 2) + k]
  BY <1>1, <1>2, QuantityFits
<1>4. PICK w \in Nat \ {0}, u \in Nat \ {0} : w = Rounding!Ten[k] /\ u = Rounding!Ten[s]
  BY TenTypes
<1>5. b \in Nat /\ d \in Nat \ {0} /\ Rounding!Limit \in Nat /\ Rounding!Limit >= 10 /\ s \in Nat
  BY LimitIs
<1>6. b * w \in Nat
  BY <1>5, Positive
<1>7. PICK q \in Nat : /\ q < Rounding!Limit /\ Rounding!SizedQty = [c |-> q, s |-> (s - 2) + k]
                       /\ 2 * (q * d - b * w) <= d /\ 2 * (b * w - q * d) <= d
  <2>1. PICK n \in Nat : n = b * w
    BY <1>6
  <2>2. PICK h \in Nat : h = Rounding!HalfEven(n, d) /\ 2 * (h * d - n) <= d /\ 2 * (n - h * d) <= d
    BY <1>5, HalfEvenIsClose
  <2> QED  BY <1>3, <1>4, <2>1, <2>2
<1>8. PICK p \in Nat, x \in Int : p = q * d /\ x = p - b * w
  BY <1>5, <1>6, Positive
<1>9. 2 * x <= d /\ -(2 * x) <= d
  BY <1>5, <1>6, <1>7, <1>8
<1>10. Rounding!Excess = x * u
  <2>1. ((s - 2) + k) + 2 = s + k
    BY <1>5
  <2>2. Rounding!Ten[s + k] = u * w
    BY <1>4, <1>5, TenAdds
  <2>3. Rounding!Excess = (q * d) * u - b * (u * w)
    <3>1. Rounding!Excess = (q * d) * Rounding!Ten[s] - b * Rounding!Ten[((s - 2) + k) + 2]
      BY <1>1, <1>2, <1>7 DEF Rounding!Excess
    <3> QED  BY <1>4, <2>1, <2>2, <3>1
  <2>4. p * u = x * u + (b * w) * u
    <3>1. p = x + b * w /\ b * w \in Int
      BY <1>6, <1>8
    <3> QED  BY <1>8, <3>1, Distributes
  <2>5. (b * w) * u = b * (w * u) /\ w * u = u * w
    BY <1>5, Associates
  <2>6. x * u \in Int /\ (b * w) * u \in Int
    BY <1>6, <1>8, OneMore
  <2> QED  BY <1>8, <2>3, <2>4, <2>5, <2>6
<1>11. Rounding!WithinHalfAUnit
  <2>1. u * (2 * x) <= u * d /\ u * (-(2 * x)) <= u * d
    BY <1>5, <1>8, <1>9, Monotone
  <2>2. u * (2 * x) = 2 * (x * u) /\ u * (-(2 * x)) = -(2 * (x * u)) /\ u * d = d * u /\ x * u \in Int
    BY <1>5, <1>8
  <2>3. PICK y \in Int, z \in Int : y = Rounding!Excess /\ z = d * u /\ 2 * y <= z /\ -(2 * y) <= z
    BY <1>5, <1>10, <2>1, <2>2
  <2>4. 2 * y <= z /\ -2 * y <= z
    BY <2>3
  <2> QED  BY <1>1, <1>2, <1>4, <2>3, <2>4 DEF Rounding!WithinHalfAUnit
<1>12. Rounding!RoundedUp <=> x > 0
  <2>1. x * u > 0 <=> x > 0
    BY <1>8, SignOfProduct
  <2> QED  BY <1>10, <2>1 DEF Rounding!RoundedUp
<1>13. Rounding!PerTradeRisk = IF p < Rounding!Limit THEN [c |-> p, s |-> s + k]
                               ELSE Rounding!Fit(p, 1, s + k)
  <2>1. ((s - 2) + k) + 2 = s + k
    BY <1>5
  <2> QED  BY <1>2, <1>7, <1>8, <2>1 DEF Rounding!PerTradeRisk, Rounding!Mul, Rounding!Dec
<1>14. ASSUME ~(x > 0) PROVE ~Rounding!Refused
  <2>0. p <= b * w
    BY <1>6, <1>8, <1>14
  <2>1. CASE p < Rounding!Limit
    <3>1. s + k >= s /\ (s + k) - s = k
      BY <1>5
    <3>2. Rounding!Sub(Rounding!PerTradeRisk, Rounding!Budget).c = p - b * w
      BY <1>1, <1>4, <1>13, <2>1, <3>1 DEF Rounding!Sub, Rounding!Dec
    <3> QED  BY <1>8, <1>14, <3>2 DEF Rounding!Refused, Rounding!Exceeds
  <2>2. CASE ~(p < Rounding!Limit)
    <3>1. PICK t \in Rounding!Scales : t = 2 * Digits
      BY RoundingAssumption DEF Rounding!Scales
    <3>2. Rounding!HalfEven(p, Rounding!Ten[t]) < Rounding!Limit
      <4>1. PICK l \in Nat \ {0} : l = Rounding!Limit /\ l >= 10
        BY <1>5
      <4>2. PICK ll \in Nat \ {0} : ll = l * l
        BY <4>1, SignOfProduct
      <4>3. p <= l * l
        <5>1. q * d <= q * l
          BY <1>5, <4>1, Monotone
        <5>2. l * q <= l * l /\ l * q = q * l
          BY <1>7, <4>1, Monotone
        <5>3. q * d \in Int /\ q * l \in Int /\ l * l \in Int
          BY <1>5, <4>1, OneMore
        <5> QED  BY <1>8, <5>1, <5>2, <5>3
      <4>4. p <= 1 * ll
        BY <4>2, <4>3
      <4>5. Rounding!HalfEven(p, ll) <= 1 /\ Rounding!HalfEven(p, ll) \in Nat
        <5>1. /\ Rounding!HalfEven(p, ll) \in Nat
              /\ \A i \in Int : p <= i * ll => Rounding!HalfEven(p, ll) <= i
          BY HalfEvenIsClose
        <5>2. 1 \in Int
          OBVIOUS
        <5> QED  BY <4>4, <5>1, <5>2
      <4>6. Rounding!Ten[t] = ll
        BY <3>1, <4>1, <4>2, LimitIs
      <4> QED  BY <4>1, <4>5, <4>6
    <3>3. p >= Rounding!Limit /\ s + k \in Int
      BY <1>5, <2>2
    <3>4. PICK j \in 1..t :
               LET h == Rounding!HalfEven(p, Rounding!Ten[j])
               IN  /\ h < Rounding!Limit /\ Rounding!HalfEven(p, Rounding!Ten[j - 1]) >= Rounding!Limit
                   /\ Rounding!Fit(p, 1, s + k) = [c |-> h, s |-> (s + k) - j]
      BY <3>2, <3>3, FitNarrows
    <3>5. j \in Nat \ {0}
      <4>1. t \in Nat
        BY <3>1, RoundingAssumption
      <4> QED  BY <4>1
    <3>6. PICK h \in Nat : h = Rounding!HalfEven(p, Rounding!Ten[j])
      <4>1. PICK z \in Nat \ {0} : z = Rounding!Ten[j]
        BY <3>5, TenTypes
      <4>2. Rounding!HalfEven(p, z) \in Nat
        BY HalfEvenIsClose
      <4> QED  BY <4>1, <4>2
    <3>7. j <= k /\ h <= b * Rounding!Ten[k - j]
      BY <1>4, <2>0, <3>4, <3>5, <3>6, RiskWithinBudget
    <3>8. PICK y \in Nat : y = b * Rounding!Ten[k - j]
      <4>1. PICK z \in Nat : z = Rounding!Ten[k - j]
        <5>1. k - j \in Nat
          BY <3>5, <3>7
        <5> QED  BY <5>1, TenTypes
      <4> QED  BY <1>5, <4>1, Positive
    <3>9. (s + k) - j >= s /\ ((s + k) - j) - s = k - j
      BY <1>5, <3>5, <3>7
    <3>10. Rounding!PerTradeRisk = [c |-> h, s |-> (s + k) - j]
      BY <1>13, <2>2, <3>4, <3>6
    <3>11. Rounding!Sub(Rounding!PerTradeRisk, Rounding!Budget).c = h - y
      BY <1>1, <3>8, <3>9, <3>10 DEF Rounding!Sub, Rounding!Dec
    <3>12. ~(h - y > 0)
      BY <3>7, <3>8
    <3> QED  BY <3>11, <3>12 DEF Rounding!Refused, Rounding!Exceeds
  <2> QED  BY <2>1, <2>2
<1> QED  BY <1>11, <1>12, <1>14 DEF Rounding!RefusedOnlyByRounding

(***************************************************************************)
(* A size meets the budget to half a unit in its last digit, and the       *)
(* engine refuses an entry for its size only when the quotient was rounded *)
(* up: for any number of digits, equities, quotes, risk knobs and stops    *)
(* whose distance is exact.                                                *)
(***************************************************************************)
THEOREM RefusalsAreRounding == DeskSpec => []RefusedOnlyByRounding
<1> DEFINE Inv == part = "rounding" => RoundTypes
<1>1. DeskInit => Inv
  BY DEF DeskInit, Rounding!Init, RoundTypes
<1>2. Inv /\ [DeskNext]_deskVars => Inv'
  <2> SUFFICES ASSUME Inv, [DeskNext]_deskVars, part' = "rounding" PROVE RoundTypes'
    OBVIOUS
  <2>1. part = "rounding" /\ [Rounding!Next]_(Rounding!vars)
    BY DEF DeskNext, deskVars, roundVars, Rounding!vars
  <2> QED  BY <2>1 DEF Rounding!Next, Rounding!vars, Rounding!QuoteMoves, RoundTypes
<1>3. Inv => RefusedOnlyByRounding
  BY SizesRound DEF RefusedOnlyByRounding
<1> QED  BY <1>1, <1>2, <1>3, PTL DEF DeskSpec
=============================================================================
