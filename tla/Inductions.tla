----------------------------- MODULE Inductions -----------------------------
(***************************************************************************)
(* Induction over the natural numbers, stated with a set instead of a      *)
(* predicate: a proof cites SetInduction with the set of the numbers that  *)
(* have the property.  The proofs about recursive functions rest on it,    *)
(* and so does what is proved here of the sums of the community modules:   *)
(* SumFunctionOnSet(f, S) is the sum of the values of f on a finite set S, *)
(* in whatever order it is computed.                                       *)
(***************************************************************************)
EXTENDS Integers, Sequences, FiniteSetTheorems, SequencesExt, TLAPS

(* A set of natural numbers has a least element. *)
LEMMA LeastNat ==
    ASSUME NEW T \in SUBSET Nat, T # {}
    PROVE  \E x \in T : \A y \in T : x <= y
<1> DEFINE R == OpToRel(<, Nat)
<1>1. IsWellFoundedOn(R, Nat)
  BY NatLessThanWellFounded
<1>2. \A x, y \in Nat : y < x => <<y, x>> \in R
  BY DEF OpToRel
<1> HIDE DEF R
<1>3. PICK x \in T : \A y \in T : ~ (<<y, x>> \in R)
  BY <1>1, WFMin
<1>4. \A y \in T : y \in Nat /\ x \in Nat /\ ~(y < x)
  BY <1>2, <1>3
<1> QED  BY <1>4

(* A bounded set of natural numbers has a greatest element. *)
LEMMA GreatestNat ==
    ASSUME NEW n \in Nat, NEW T \in SUBSET (0..n), T # {}
    PROVE  \E x \in T : \A y \in T : y <= x
<1> DEFINE D == {n - x : x \in T}
<1>1. D \in SUBSET Nat /\ D # {}
  <2>1. \A x \in T : n - x \in Nat
    OBVIOUS
  <2> QED  BY <2>1
<1>2. PICK m \in D : \A y \in D : m <= y
  <2> HIDE DEF D
  <2> QED  BY <1>1, LeastNat
<1>3. PICK x \in T : m = n - x
  OBVIOUS
<1>4. ASSUME NEW y \in T PROVE y <= x
  <2>1. n - y \in D
    OBVIOUS
  <2>2. m <= n - y
    <3> HIDE DEF D
    <3> QED  BY <1>2, <2>1
  <2> QED  BY <1>3, <2>2
<1> QED  BY <1>4

(* What holds of 0 and passes from n to n + 1 holds of every number. *)
LEMMA SetInduction ==
    ASSUME NEW S, 0 \in S, \A n \in Nat : n \in S => n + 1 \in S
    PROVE  \A n \in Nat : n \in S
<1> SUFFICES ASSUME Nat \ S # {} PROVE FALSE
  OBVIOUS
<1>1. PICK x \in Nat \ S : \A y \in Nat \ S : x <= y
  BY LeastNat
<1>2. x # 0 /\ x - 1 \in Nat
  BY <1>1
<1>3. x - 1 \in S /\ (x - 1) + 1 = x
  BY <1>1, <1>2
<1> QED  BY <1>1, <1>2, <1>3

(* A recursion over 0..n whose step stays in T has a solution in T. *)
StepsIn(T, F, n) == \A k \in 1..n, x \in T : F[<<k, x>>] \in T
SolvedBy(f, T, base, F, n) == /\ f \in [0..n -> T] /\ f[0] = base
                              /\ \A k \in 1..n : f[k] = F[<<k, f[k - 1]>>]

LEMMA RecursionExists ==
    ASSUME NEW T, NEW base \in T, NEW n \in Nat, NEW F, StepsIn(T, F, n)
    PROVE  \E f : SolvedBy(f, T, base, F, n)
<1> DEFINE Solves(f, m) == /\ f \in [0..m -> T] /\ f[0] = base
                           /\ \A k \in 1..m : f[k] = F[<<k, f[k - 1]>>]
           S == {m \in Nat : m <= n => \E f : Solves(f, m)}
<1>1. 0 \in S
  <2>1. PICK f : f = [k \in 0..0 |-> base]
    OBVIOUS
  <2>2. Solves(f, 0)
    BY <2>1
  <2> HIDE DEF Solves
  <2> QED  BY <2>2
<1>2. ASSUME NEW m \in Nat, m \in S PROVE m + 1 \in S
  <2> SUFFICES ASSUME m + 1 <= n PROVE \E f : Solves(f, m + 1)
    OBVIOUS
  <2>1. PICK f : Solves(f, m)
    <3> HIDE DEF Solves
    <3> QED  BY <1>2
  <2>2. PICK g : g = [k \in 0..m + 1 |-> IF k = m + 1 THEN F[<<m + 1, f[m]>>] ELSE f[k]]
    OBVIOUS
  <2>3. f[m] \in T /\ m + 1 \in 1..n
    BY <2>1
  <2>4. F[<<m + 1, f[m]>>] \in T
    BY <2>3 DEF StepsIn
  <2>5. \A k \in 0..m + 1 : k # m + 1 => k \in 0..m
    OBVIOUS
  <2>6. g \in [0..m + 1 -> T]
    BY <2>1, <2>2, <2>4, <2>5
  <2>7. g[m + 1] = F[<<m + 1, f[m]>>] /\ \A k \in 0..m : g[k] = f[k]
    BY <2>2
  <2>8. ASSUME NEW k \in 1..m + 1 PROVE g[k] = F[<<k, g[k - 1]>>]
    <3>1. CASE k = m + 1
      <4>1. k - 1 = m /\ m \in 0..m
        BY <3>1
      <4> QED  BY <2>7, <3>1, <4>1
    <3>2. CASE k # m + 1
      <4>1. k \in 1..m /\ k \in 0..m /\ k - 1 \in 0..m
        BY <3>2
      <4> QED  BY <2>1, <2>7, <4>1
    <3> QED  BY <3>1, <3>2
  <2>9. g[0] = base
    BY <2>1, <2>7
  <2> QED  BY <2>6, <2>8, <2>9
<1> HIDE DEF S
<1>3. \A m \in Nat : m \in S
  BY <1>1, <1>2, SetInduction
<1>4. \E f : Solves(f, n)
  BY <1>3 DEF S
<1> QED  BY <1>4 DEF SolvedBy

(* What a recursion's steps keep holds to its end. *)
LEMMA RecursionStays ==
    ASSUME NEW T, NEW n \in Nat, NEW f, f[0] \in T, \A k \in 1..n : f[k - 1] \in T => f[k] \in T
    PROVE  \A k \in 0..n : f[k] \in T
<1> DEFINE S == {m \in Nat : m <= n => f[m] \in T}
<1>1. 0 \in S
  OBVIOUS
<1>2. ASSUME NEW m \in Nat, m \in S PROVE m + 1 \in S
  <2> SUFFICES ASSUME m + 1 <= n PROVE f[m + 1] \in T
    OBVIOUS
  <2>1. m + 1 \in 1..n /\ (m + 1) - 1 = m /\ m <= n
    OBVIOUS
  <2>2. f[m] \in T
    BY <1>2, <2>1
  <2> QED  BY <2>1, <2>2
<1> HIDE DEF S
<1>3. \A m \in Nat : m \in S
  BY <1>1, <1>2, SetInduction
<1> QED  BY <1>3 DEF S

(* So has a recursion over all numbers. *)
StepsAlways(T, F) == \A k \in Nat \ {0}, x \in T : F[<<k, x>>] \in T
SolvedAlways(f, T, base, F) == /\ f \in [Nat -> T] /\ f[0] = base
                               /\ \A n \in Nat : f[n + 1] = F[<<n + 1, f[n]>>]

LEMMA RecursionOverNat ==
    ASSUME NEW T, NEW base \in T, NEW F, StepsAlways(T, F)
    PROVE  \E f : SolvedAlways(f, T, base, F)
<1> DEFINE upTo(n) == CHOOSE f : SolvedBy(f, T, base, F, n)
           G == [n \in Nat |-> upTo(n)[n]]
<1>1. ASSUME NEW n \in Nat PROVE SolvedBy(upTo(n), T, base, F, n)
  <2>1. StepsIn(T, F, n)
    <3>1. \A k \in 1..n : k \in Nat \ {0}
      OBVIOUS
    <3> QED  BY <3>1 DEF StepsAlways, StepsIn
  <2>2. \E f : SolvedBy(f, T, base, F, n)
    BY <2>1, RecursionExists
  <2> QED  BY <2>2
<1> HIDE DEF upTo
<1>2. ASSUME NEW n \in Nat PROVE upTo(n + 1)[n] = upTo(n)[n]
  <2> DEFINE S == {k \in Nat : k <= n => upTo(n + 1)[k] = upTo(n)[k]}
  <2>1. PICK g, h : g = upTo(n) /\ h = upTo(n + 1) /\ SolvedBy(g, T, base, F, n) /\ SolvedBy(h, T, base, F, n + 1)
    BY <1>1
  <2>2. 0 \in S
    BY <2>1 DEF SolvedBy
  <2>3. ASSUME NEW k \in Nat, k \in S PROVE k + 1 \in S
    <3> SUFFICES ASSUME k + 1 <= n PROVE h[k + 1] = g[k + 1]
      BY <2>1
    <3>1. k + 1 \in 1..n /\ k + 1 \in 1..n + 1 /\ (k + 1) - 1 = k /\ h[k] = g[k]
      BY <2>1, <2>3
    <3>2. h[k + 1] = F[<<k + 1, h[k]>>] /\ g[k + 1] = F[<<k + 1, g[k]>>]
      BY <2>1, <3>1 DEF SolvedBy
    <3> QED  BY <3>1, <3>2
  <2> HIDE DEF S
  <2>4. \A k \in Nat : k \in S
    BY <2>2, <2>3, SetInduction
  <2> QED  BY <2>4 DEF S
<1>3. PICK f : f = G
  OBVIOUS
<1>4. \A n \in Nat : f[n] = upTo(n)[n]
  BY <1>3
<1>5. ASSUME NEW n \in Nat PROVE f[n] \in T
  <2>1. upTo(n) \in [0..n -> T] /\ n \in 0..n
    BY <1>1 DEF SolvedBy
  <2> QED  BY <1>4, <2>1
<1>6. f \in [Nat -> T]
  BY <1>3, <1>5
<1>7. ASSUME NEW n \in Nat PROVE f[n + 1] = F[<<n + 1, f[n]>>]
  <2>1. n + 1 \in Nat /\ n + 1 \in 1..n + 1 /\ (n + 1) - 1 = n
    OBVIOUS
  <2>2. upTo(n + 1)[n + 1] = F[<<n + 1, upTo(n + 1)[n]>>]
    BY <1>1, <2>1 DEF SolvedBy
  <2> QED  BY <1>2, <1>4, <2>1, <2>2
<1>8. f[0] = base
  <2>1. SolvedBy(upTo(0), T, base, F, 0)
    BY <1>1
  <2> QED  BY <1>4, <2>1 DEF SolvedBy
<1> QED  BY <1>6, <1>7, <1>8 DEF SolvedAlways

-----------------------------------------------------------------------------
(* g is the table of the sums of f over the subsets of U of at most m elements. *)
Pick(s) == CHOOSE x \in s : TRUE
Small(U, m) == {s \in SUBSET U : IsFiniteSet(s) /\ Cardinality(s) <= m}
SumsTo(g, f, U, m) ==
    g = [s \in Small(U, m) |-> IF s = {} THEN 0 ELSE f[Pick(s)] + g[s \ {Pick(s)}]]

LEMMA SumsExist ==
    ASSUME NEW f, NEW U
    PROVE  \A m \in Nat : \E g : SumsTo(g, f, U, m)
<1> DEFINE S == {m \in Nat : \E g : SumsTo(g, f, U, m)}
<1>1. 0 \in S
  <2>0. ASSUME NEW s \in Small(U, 0) PROVE s = {}
    BY FS_CardinalityType, FS_EmptySet DEF Small
  <2>1. SumsTo([s \in Small(U, 0) |-> 0], f, U, 0)
    BY <2>0 DEF SumsTo
  <2> QED  BY <2>1
<1>2. ASSUME NEW m \in Nat, m \in S PROVE m + 1 \in S
  <2>1. PICK h : SumsTo(h, f, U, m)
    BY <1>2
  <2> DEFINE g == [s \in Small(U, m + 1) |-> IF s = {} THEN 0 ELSE f[Pick(s)] + h[s \ {Pick(s)}]]
  <2>2. \A s \in Small(U, m) : h[s] = IF s = {} THEN 0 ELSE f[Pick(s)] + h[s \ {Pick(s)}]
    BY <2>1 DEF SumsTo
  <2>3. ASSUME NEW s \in Small(U, m + 1), s # {}
        PROVE  s \ {Pick(s)} \in Small(U, m) /\ s \ {Pick(s)} \in Small(U, m + 1)
    <3>1. Pick(s) \in s
      BY <2>3 DEF Pick
    <3>2. IsFiniteSet(s) /\ Cardinality(s) \in Nat /\ Cardinality(s) <= m + 1 /\ s \subseteq U
      BY FS_CardinalityType DEF Small
    <3>3. IsFiniteSet(s \ {Pick(s)}) /\ Cardinality(s \ {Pick(s)}) = Cardinality(s) - 1
      BY <3>1, <3>2, FS_RemoveElement
    <3> QED  BY <3>2, <3>3 DEF Small
  <2>4. Small(U, m) \subseteq Small(U, m + 1)
    BY FS_CardinalityType DEF Small
  <2>5. ASSUME NEW s \in Small(U, m) PROVE g[s] = h[s]
    BY <2>2, <2>4
  <2>6. \A s \in Small(U, m + 1) : g[s] = IF s = {} THEN 0 ELSE f[Pick(s)] + g[s \ {Pick(s)}]
    BY <2>3, <2>5
  <2>7. g = [s \in Small(U, m + 1) |-> g[s]]
    OBVIOUS
  <2> HIDE DEF g
  <2>8. SumsTo(g, f, U, m + 1)
    BY <2>6, <2>7 DEF SumsTo
  <2> QED  BY <2>8
<1> HIDE DEF S
<1>3. \A m \in Nat : m \in S
  BY <1>1, <1>2, SetInduction
<1> QED  BY <1>3 DEF S

SumTable(g, f, U) ==
    g = [s \in SUBSET U |-> IF s = {} THEN 0 ELSE f[Pick(s)] + g[s \ {Pick(s)}]]

LEMMA SumTableExists ==
    ASSUME NEW f, NEW U, IsFiniteSet(U) PROVE \E g : SumTable(g, f, U)
<1>1. Cardinality(U) \in Nat /\ Small(U, Cardinality(U)) = SUBSET U
  BY FS_CardinalityType, FS_Subset DEF Small
<1>2. PICK g : SumsTo(g, f, U, Cardinality(U))
  BY <1>1, SumsExist
<1> QED  BY <1>1, <1>2 DEF SumsTo, SumTable

LEMMA SumIsInTable == ASSUME NEW f, NEW U, IsFiniteSet(U)
   PROVE \E g : SumTable(g, f, U) /\ SumFunctionOnSet(f, U) = g[U]
<1> DEFINE P(g) ==  g = [s \in SUBSET U |-> IF s = {} THEN 0 ELSE f[CHOOSE x \in s : TRUE] + g[s \ {CHOOSE x \in s : TRUE}]]
<1>1. \E g : P(g)
   <2>1. PICK g : SumTable(g, f, U)
     BY SumTableExists
   <2> QED BY <2>1 DEF SumTable, Pick
<1>2. SumFunctionOnSet(f, U) = (CHOOSE g : P(g))[U]
  BY DEF SumFunctionOnSet, FoldFunctionOnSet, MapThenFoldSet
<1>3. P(CHOOSE g : P(g))
  BY <1>1
<1>4. \A g : P(g) => SumTable(g, f, U)
  BY DEF SumTable, Pick
<1> HIDE DEF P
<1> QED BY <1>2, <1>3, <1>4

(* Tables of functions that agree on V agree on the subsets of V. *)
LEMMA TablesAgree ==
    ASSUME NEW f, NEW k, NEW U, NEW V \in SUBSET U, IsFiniteSet(U), NEW g, NEW h,
           SumTable(g, f, U), SumTable(h, k, V), \A x \in V : f[x] = k[x]
    PROVE  \A s \in SUBSET V : g[s] = h[s]
<1>0. IsFiniteSet(V) /\ \A s \in SUBSET V : IsFiniteSet(s) /\ Cardinality(s) \in Nat
  BY FS_Subset, FS_CardinalityType
<1>1. \A s \in SUBSET V : /\ g[s] = IF s = {} THEN 0 ELSE f[Pick(s)] + g[s \ {Pick(s)}]
                          /\ h[s] = IF s = {} THEN 0 ELSE k[Pick(s)] + h[s \ {Pick(s)}]
  BY DEF SumTable
<1> DEFINE S == {m \in Nat : \A s \in SUBSET V : Cardinality(s) = m => g[s] = h[s]}
<1>2. 0 \in S
  <2>1. \A s \in SUBSET V : Cardinality(s) = 0 => s = {}
    BY <1>0, FS_EmptySet
  <2> QED  BY <1>1, <2>1
<1>3. ASSUME NEW m \in Nat, m \in S PROVE m + 1 \in S
  <2> SUFFICES ASSUME NEW s \in SUBSET V, Cardinality(s) = m + 1 PROVE g[s] = h[s]
    OBVIOUS
  <2>1. s # {}
    BY FS_EmptySet
  <2>2. Pick(s) \in s
    BY <2>1 DEF Pick
  <2>3. s \ {Pick(s)} \in SUBSET V /\ Cardinality(s \ {Pick(s)}) = m
    <3>1. IsFiniteSet(s) /\ Cardinality(s) = m + 1
      BY <1>0
    <3>2. Cardinality(s \ {Pick(s)}) = Cardinality(s) - 1
      BY <2>2, <3>1, FS_RemoveElement
    <3> QED  BY <3>1, <3>2
  <2>4. g[s \ {Pick(s)}] = h[s \ {Pick(s)}]
    BY <1>3, <2>3
  <2> QED  BY <1>1, <2>1, <2>2, <2>4
<1> HIDE DEF S
<1>4. \A m \in Nat : m \in S
  BY <1>2, <1>3, SetInduction
<1> QED  BY <1>0, <1>4 DEF S

(* The order in which a table adds does not matter. *)
LEMMA TableInsert ==
    ASSUME NEW f, NEW U, IsFiniteSet(U), \A x \in U : f[x] \in Int, NEW g, SumTable(g, f, U)
    PROVE  \A s \in SUBSET U : /\ g[s] \in Int
                               /\ \A x \in U \ s : g[s \cup {x}] = f[x] + g[s]
<1>0. \A s \in SUBSET U : IsFiniteSet(s) /\ Cardinality(s) \in Nat
  BY FS_Subset, FS_CardinalityType
<1>1. \A s \in SUBSET U : g[s] = IF s = {} THEN 0 ELSE f[Pick(s)] + g[s \ {Pick(s)}]
  BY DEF SumTable
<1>2. \A s \in SUBSET U : s # {} => Pick(s) \in s
  BY DEF Pick
<1> DEFINE S == {m \in Nat : \A s \in SUBSET U : Cardinality(s) = m =>
                     /\ g[s] \in Int
                     /\ \A x \in U \ s : g[s \cup {x}] = f[x] + g[s]}
<1>3. 0 \in S
  <2>1. \A s \in SUBSET U : Cardinality(s) = 0 => s = {}
    BY <1>0, FS_EmptySet
  <2>2. g[{}] = 0
    BY <1>1
  <2>3. ASSUME NEW x \in U PROVE g[{} \cup {x}] = f[x] + g[{}]
    <3>1. {x} \in SUBSET U /\ {x} # {} /\ {} \cup {x} = {x}
      OBVIOUS
    <3>2. Pick({x}) = x
      BY <1>2, <3>1
    <3>3. {x} \ {x} = {}
      OBVIOUS
    <3>4. g[{x}] = f[x] + g[{x} \ {x}]
      BY <1>1, <3>1, <3>2
    <3> QED  BY <3>1, <3>3, <3>4
  <2>4. ASSUME NEW s \in SUBSET U, Cardinality(s) = 0
        PROVE  g[s] \in Int /\ \A x \in U \ s : g[s \cup {x}] = f[x] + g[s]
    <3>1. s = {}
      BY <2>1, <2>4
    <3>2. g[s] = 0 /\ \A x \in U : g[s \cup {x}] = f[x] + g[s]
      BY ONLY <2>2, <2>3, <3>1
    <3> QED  BY <3>2
  <2> QED  BY <2>4
<1>4. ASSUME NEW m \in Nat, m \in S PROVE m + 1 \in S
  <2> SUFFICES ASSUME NEW s \in SUBSET U, Cardinality(s) = m + 1
               PROVE  /\ g[s] \in Int
                      /\ \A x \in U \ s : g[s \cup {x}] = f[x] + g[s]
    OBVIOUS
  <2>1. s # {} /\ Pick(s) \in s
    BY <1>2, FS_EmptySet
  <2>2. s \ {Pick(s)} \in SUBSET U /\ Cardinality(s \ {Pick(s)}) = m
    BY <1>0, <2>1, FS_RemoveElement
  <2>3. g[s] = f[Pick(s)] + g[s \ {Pick(s)}] /\ g[s \ {Pick(s)}] \in Int
    BY <1>1, <1>4, <2>1, <2>2
  <2>4. g[s] \in Int
    BY <2>1, <2>3
  <2>5. ASSUME NEW x \in U \ s PROVE g[s \cup {x}] = f[x] + g[s]
    <3> DEFINE t == s \cup {x}
               y == Pick(t)
    <3>1. t \in SUBSET U /\ t # {}
      OBVIOUS
    <3>2. y \in t /\ g[t] = f[y] + g[t \ {y}]
      BY <1>1, <1>2, <3>1
    <3>3. CASE y = x
      <4>1. t \ {y} = s
        BY <2>5, <3>3
      <4> QED  BY <3>2, <3>3, <4>1
    <3>4. CASE y # x
      <4>1. y \in s
        BY <3>2, <3>4
      <4> DEFINE r == s \ {y}
      <4>2. r \in SUBSET U /\ Cardinality(r) = m
        <5>1. IsFiniteSet(s) /\ Cardinality(s) = m + 1
          BY <1>0
        <5>2. Cardinality(r) = Cardinality(s) - 1
          BY <4>1, <5>1, FS_RemoveElement
        <5> QED  BY <5>1, <5>2
      <4>3. /\ x \in U \ r /\ y \in U \ r
            /\ t \ {y} = r \cup {x} /\ s = r \cup {y}
        BY <2>5, <3>4, <4>1
      <4> HIDE DEF r, t, y
      <4>4. g[r] \in Int /\ g[r \cup {x}] = f[x] + g[r] /\ g[r \cup {y}] = f[y] + g[r]
        BY <1>4, <4>2, <4>3
      <4>5. f[x] \in Int /\ f[y] \in Int
        BY <4>3
      <4>6. g[t] = f[y] + (f[x] + g[r]) /\ g[s] = f[y] + g[r]
        BY <3>2, <4>3, <4>4
      <4>7. g[t] = f[x] + g[s]
        BY <4>4, <4>5, <4>6
      <4> QED  BY <4>7 DEF t
    <3> QED  BY <3>3, <3>4
  <2> QED  BY <2>4, <2>5
<1> HIDE DEF S
<1>5. \A m \in Nat : m \in S
  BY <1>3, <1>4, SetInduction
<1> QED  BY <1>0, <1>5 DEF S

-----------------------------------------------------------------------------
(* What the proofs use: the empty sum, one more summand, and the values    *)
(* outside the set do not matter.                                          *)
LEMMA SumEmpty == ASSUME NEW f PROVE SumFunctionOnSet(f, {}) = 0
<1>1. IsFiniteSet({})
  BY FS_EmptySet
<1>2. PICK g : SumTable(g, f, {}) /\ SumFunctionOnSet(f, {}) = g[{}]
  BY <1>1, SumIsInTable
<1> QED  BY <1>2 DEF SumTable

LEMMA SumSame ==
    ASSUME NEW f, NEW k, NEW S, IsFiniteSet(S), \A x \in S : f[x] = k[x]
    PROVE  SumFunctionOnSet(f, S) = SumFunctionOnSet(k, S)
<1>1. PICK g : SumTable(g, f, S) /\ SumFunctionOnSet(f, S) = g[S]
  BY SumIsInTable
<1>2. PICK h : SumTable(h, k, S) /\ SumFunctionOnSet(k, S) = h[S]
  BY SumIsInTable
<1>3. S \in SUBSET S
  OBVIOUS
<1>4. \A s \in SUBSET S : g[s] = h[s]
  BY <1>1, <1>2, <1>3, TablesAgree
<1> QED  BY <1>1, <1>2, <1>3, <1>4

LEMMA SumAdd ==
    ASSUME NEW f, NEW S, IsFiniteSet(S), NEW x, x \notin S, \A y \in S \cup {x} : f[y] \in Int
    PROVE  /\ SumFunctionOnSet(f, S) \in Int
           /\ SumFunctionOnSet(f, S \cup {x}) = f[x] + SumFunctionOnSet(f, S)
<1> DEFINE U == S \cup {x}
<1>1. IsFiniteSet(U) /\ S \in SUBSET U /\ x \in U \ S /\ \A y \in U : f[y] \in Int
  BY FS_AddElement
<1>2. PICK g : SumTable(g, f, U) /\ SumFunctionOnSet(f, U) = g[U]
  BY <1>1, SumIsInTable
<1>3. PICK h : SumTable(h, f, S) /\ SumFunctionOnSet(f, S) = h[S]
  BY SumIsInTable
<1> HIDE DEF U
<1>4. \A s \in SUBSET S : g[s] = h[s]
  BY <1>1, <1>2, <1>3, TablesAgree
<1>5. \A s \in SUBSET U : g[s] \in Int /\ \A y \in U \ s : g[s \cup {y}] = f[y] + g[s]
  BY <1>1, <1>2, TableInsert
<1>6. S \in SUBSET S
  OBVIOUS
<1> QED  BY <1>1, <1>2, <1>3, <1>4, <1>5, <1>6 DEF U

LEMMA SumType ==
    ASSUME NEW f, NEW S, IsFiniteSet(S), \A y \in S : f[y] \in Int
    PROVE  SumFunctionOnSet(f, S) \in Int
<1>1. PICK h : SumTable(h, f, S) /\ SumFunctionOnSet(f, S) = h[S]
  BY SumIsInTable
<1>2. S \in SUBSET S
  OBVIOUS
<1> QED  BY <1>1, <1>2, TableInsert

(* One summand taken out, and one changed. *)
LEMMA SumSplit ==
    ASSUME NEW f, NEW S, IsFiniteSet(S), NEW x \in S, \A y \in S : f[y] \in Int
    PROVE  /\ SumFunctionOnSet(f, S \ {x}) \in Int
           /\ SumFunctionOnSet(f, S) = f[x] + SumFunctionOnSet(f, S \ {x})
<1>1. IsFiniteSet(S \ {x}) /\ x \notin S \ {x} /\ (S \ {x}) \cup {x} = S
  BY FS_Subset
<1> DEFINE R == S \ {x}
<1>2. IsFiniteSet(R) /\ x \notin R /\ R \cup {x} = S /\ \A y \in R \cup {x} : f[y] \in Int
  BY <1>1
<1> HIDE DEF R
<1>3. SumFunctionOnSet(f, R) \in Int /\ SumFunctionOnSet(f, R \cup {x}) = f[x] + SumFunctionOnSet(f, R)
  BY <1>2, SumAdd
<1> QED  BY <1>2, <1>3 DEF R

LEMMA SumChange ==
    ASSUME NEW f, NEW k, NEW S, IsFiniteSet(S), NEW x \in S,
           \A y \in S : f[y] \in Int /\ k[y] \in Int,
           \A y \in S : y # x => f[y] = k[y]
    PROVE  SumFunctionOnSet(k, S) = SumFunctionOnSet(f, S) + (k[x] - f[x])
<1>1. IsFiniteSet(S \ {x}) /\ \A y \in S \ {x} : f[y] = k[y]
  BY FS_Subset
<1>2. SumFunctionOnSet(f, S \ {x}) = SumFunctionOnSet(k, S \ {x})
  BY <1>1, SumSame
<1>3. /\ SumFunctionOnSet(f, S \ {x}) \in Int
      /\ SumFunctionOnSet(f, S) = f[x] + SumFunctionOnSet(f, S \ {x})
  BY SumSplit
<1>4. SumFunctionOnSet(k, S) = k[x] + SumFunctionOnSet(k, S \ {x})
  BY SumSplit
<1>5. f[x] \in Int /\ k[x] \in Int
  OBVIOUS
<1> QED  BY <1>2, <1>3, <1>4, <1>5

-----------------------------------------------------------------------------
(* Sums of sequences. *)
LEMMA SumTo ==
    ASSUME NEW f, NEW n \in Nat, \A i \in 1..n + 1 : f[i] \in Int
    PROVE  /\ SumFunctionOnSet(f, 1..n) \in Int
           /\ SumFunctionOnSet(f, 1..n + 1) = SumFunctionOnSet(f, 1..n) + f[n + 1]
<1>1. IsFiniteSet(1..n) /\ n + 1 \notin 1..n /\ 1..n + 1 = (1..n) \cup {n + 1}
  BY FS_Interval
<1>2. \A i \in (1..n) \cup {n + 1} : f[i] \in Int
  BY <1>1
<1> DEFINE S == 1..n
<1> HIDE DEF S
<1>3. /\ SumFunctionOnSet(f, S) \in Int
      /\ SumFunctionOnSet(f, S \cup {n + 1}) = f[n + 1] + SumFunctionOnSet(f, S)
  BY <1>1, <1>2, SumAdd DEF S
<1>4. f[n + 1] \in Int
  OBVIOUS
<1>5. SumFunctionOnSet(f, S \cup {n + 1}) = SumFunctionOnSet(f, S) + f[n + 1]
  BY <1>3, <1>4
<1> QED  BY <1>1, <1>3, <1>5 DEF S

(* A sum over a subset: none of the summands left out is negative, or all  *)
(* of them are zero.                                                       *)
LEMMA SumSubset ==
    ASSUME NEW f, NEW S, IsFiniteSet(S), NEW T \in SUBSET S, \A y \in S : f[y] \in Int
    PROVE  /\ (\A y \in S \ T : f[y] >= 0) => SumFunctionOnSet(f, T) <= SumFunctionOnSet(f, S)
           /\ (\A y \in S \ T : f[y] = 0) => SumFunctionOnSet(f, T) = SumFunctionOnSet(f, S)
<1> DEFINE Sum(U) == SumFunctionOnSet(f, U)
           Smaller(U) == /\ (\A y \in S \ U : f[y] >= 0) => Sum(U) <= Sum(S)
                         /\ (\A y \in S \ U : f[y] = 0) => Sum(U) = Sum(S)
           N == {n \in Nat : \A U \in SUBSET S : Cardinality(S \ U) = n => Smaller(U)}
<1>1. \A U \in SUBSET S : IsFiniteSet(U) /\ IsFiniteSet(S \ U) /\ Cardinality(S \ U) \in Nat
  BY FS_Subset, FS_CardinalityType
<1>2. \A U \in SUBSET S : Sum(U) \in Int
  BY <1>1, SumType
<1>3. 0 \in N
  <2>1. ASSUME NEW U \in SUBSET S, Cardinality(S \ U) = 0 PROVE U = S
    BY <1>1, <2>1, FS_EmptySet
  <2>2. Smaller(S)
    BY <1>2
  <2> HIDE DEF Smaller
  <2> QED  BY <2>1, <2>2
<1>4. ASSUME NEW n \in Nat, n \in N PROVE n + 1 \in N
  <2> SUFFICES ASSUME NEW U \in SUBSET S, Cardinality(S \ U) = n + 1 PROVE Smaller(U)
    OBVIOUS
  <2>1. PICK x \in S \ U : TRUE
    BY FS_EmptySet
  <2>2. S \ (U \cup {x}) = (S \ U) \ {x} /\ U \cup {x} \in SUBSET S
    BY <2>1
  <2>3. Cardinality((S \ U) \ {x}) = n
    <3>1. Cardinality((S \ U) \ {x}) = Cardinality(S \ U) - 1
      BY <1>1, <2>1, FS_RemoveElement
    <3> QED  BY <3>1
  <2>4. Smaller(U \cup {x})
    BY <1>4, <2>2, <2>3
  <2>5. IsFiniteSet(U) /\ x \notin U /\ \A y \in U \cup {x} : f[y] \in Int
    BY <1>1, <2>1
  <2> HIDE DEF Sum
  <2>6. Sum(U \cup {x}) = f[x] + Sum(U)
    BY <2>5, SumAdd DEF Sum
  <2>7. Sum(U) \in Int /\ Sum(U \cup {x}) \in Int /\ Sum(S) \in Int /\ f[x] \in Int
    BY <1>2, <2>1, <2>2
  <2>8. (\A y \in S \ U : f[y] >= 0) => f[x] >= 0 /\ \A y \in S \ (U \cup {x}) : f[y] >= 0
    BY <2>1
  <2>9. (\A y \in S \ U : f[y] = 0) => f[x] = 0 /\ \A y \in S \ (U \cup {x}) : f[y] = 0
    BY <2>1
  <2> QED  BY <2>4, <2>6, <2>7, <2>8, <2>9
<1> HIDE DEF N
<1>5. \A n \in Nat : n \in N
  BY <1>3, <1>4, SetInduction
<1>6. Smaller(T)
  BY <1>1, <1>5 DEF N
<1> QED  BY <1>6

LEMMA SumConcat ==
    ASSUME NEW s \in Seq(Int), NEW t \in Seq(Int)
    PROVE  /\ SumFunction(s) \in Int /\ SumFunction(t) \in Int
           /\ SumFunction(s \o t) = SumFunction(s) + SumFunction(t)
<1> DEFINE st == s \o t
           l  == Len(s)
           Upto(f, n) == SumFunctionOnSet(f, 1..n)
           S == {n \in Nat : n <= Len(t) => Upto(st, l + n) = Upto(s, l) + Upto(t, n)}
<1>1. /\ l \in Nat /\ Len(t) \in Nat /\ DOMAIN s = 1..l /\ DOMAIN t = 1..Len(t)
      /\ DOMAIN st = 1..l + Len(t)
      /\ \A i \in 1..l : st[i] = s[i] /\ s[i] \in Int
      /\ \A i \in 1..Len(t) : st[l + i] = t[i] /\ t[i] \in Int
      /\ \A i \in 1..l + Len(t) : st[i] \in Int
  OBVIOUS
<1>2. IsFiniteSet(1..l) /\ IsFiniteSet(1..Len(t))
  BY <1>1, FS_Interval
<1>3. Upto(s, l) \in Int /\ Upto(t, Len(t)) \in Int
  <2> DEFINE A == 1..l
             B == 1..Len(t)
  <2>1. IsFiniteSet(A) /\ IsFiniteSet(B) /\ (\A i \in A : s[i] \in Int) /\ \A i \in B : t[i] \in Int
    BY <1>1, <1>2
  <2> HIDE DEF A, B
  <2>2. SumFunctionOnSet(s, A) \in Int /\ SumFunctionOnSet(t, B) \in Int
    BY <2>1, SumType
  <2> QED  BY <2>2 DEF A, B
<1> HIDE DEF st
<1>4. 0 \in S
  <2> DEFINE A == 1..l
  <2>1. IsFiniteSet(A) /\ \A i \in A : st[i] = s[i]
    BY <1>1, <1>2
  <2> HIDE DEF A
  <2>2. SumFunctionOnSet(st, A) = SumFunctionOnSet(s, A)
    BY <2>1, SumSame
  <2>3. 1..0 = {} /\ SumFunctionOnSet(t, {}) = 0
    BY SumEmpty
  <2>4. Upto(t, 0) = 0 /\ l + 0 = l
    BY <1>1, <2>3
  <2>5. Upto(st, l) = Upto(s, l)
    BY <2>2 DEF A
  <2> QED  BY <1>3, <2>4, <2>5
<1>5. ASSUME NEW n \in Nat, n \in S PROVE n + 1 \in S
  <2> SUFFICES ASSUME n + 1 <= Len(t) PROVE Upto(st, l + (n + 1)) = Upto(s, l) + Upto(t, n + 1)
    OBVIOUS
  <2>1. n <= Len(t) /\ l + n \in Nat /\ l + (n + 1) = (l + n) + 1
        /\ (\A i \in 1..(l + n) + 1 : st[i] \in Int) /\ (\A i \in 1..n + 1 : t[i] \in Int)
        /\ st[(l + n) + 1] = t[n + 1] /\ t[n + 1] \in Int
    BY <1>1
  <2>2. Upto(st, l + n) = Upto(s, l) + Upto(t, n)
    BY <1>5, <2>1
  <2> DEFINE m == l + n
  <2> HIDE DEF m
  <2>3. Upto(st, m + 1) = Upto(st, m) + st[m + 1]
    BY <2>1, SumTo DEF m
  <2>4. Upto(t, n) \in Int /\ Upto(t, n + 1) = Upto(t, n) + t[n + 1]
    BY <2>1, SumTo
  <2> HIDE DEF Upto
  <2>5. Upto(st, m + 1) = Upto(s, l) + (Upto(t, n) + t[n + 1])
    BY <1>3, <2>1, <2>2, <2>3, <2>4 DEF m
  <2> QED  BY <2>1, <2>4, <2>5 DEF m
<1> HIDE DEF S
<1>6. \A n \in Nat : n \in S
  BY <1>4, <1>5, SetInduction
<1>7. Upto(st, l + Len(t)) = Upto(s, l) + Upto(t, Len(t))
  BY <1>1, <1>6 DEF S
<1> QED  BY <1>1, <1>3, <1>7 DEF SumFunction, st

LEMMA SumConstant ==
    ASSUME NEW n \in Nat, NEW c \in Int
    PROVE  SumFunction([i \in 1..n |-> c]) = n * c
<1> DEFINE f == [i \in 1..n |-> c]
           S == {m \in Nat : m <= n => SumFunctionOnSet(f, 1..m) = m * c}
<1>1. DOMAIN f = 1..n /\ \A i \in 1..n : f[i] = c
  OBVIOUS
<1> HIDE DEF f
<1>2. 0 \in S
  <2>1. 1..0 = {} /\ 0 * c = 0 /\ SumFunctionOnSet(f, {}) = 0
    BY SumEmpty
  <2> QED  BY <2>1
<1>3. ASSUME NEW m \in Nat, m \in S PROVE m + 1 \in S
  <2> SUFFICES ASSUME m + 1 <= n PROVE SumFunctionOnSet(f, 1..m + 1) = (m + 1) * c
    OBVIOUS
  <2>1. \A i \in 1..m + 1 : f[i] \in Int /\ f[i] = c
    BY <1>1
  <2>2. SumFunctionOnSet(f, 1..m + 1) = SumFunctionOnSet(f, 1..m) + f[m + 1]
    BY <2>1, SumTo
  <2>3. f[m + 1] = c /\ SumFunctionOnSet(f, 1..m) = m * c
    BY <1>3, <2>1
  <2>4. m * c + c = (m + 1) * c
    OBVIOUS
  <2> QED  BY <2>2, <2>3, <2>4
<1> HIDE DEF S
<1>4. \A m \in Nat : m \in S
  BY <1>2, <1>3, SetInduction
<1>5. SumFunctionOnSet(f, 1..n) = n * c
  BY <1>4 DEF S
<1> QED  BY <1>1, <1>5 DEF SumFunction, f

LEMMA SumDifference ==
    ASSUME NEW u, NEW n \in Nat, NEW c \in Int, \A i \in 1..n : u[i] \in Int
    PROVE  /\ SumFunctionOnSet(u, 1..n) \in Int
           /\ SumFunction([i \in 1..n |-> c - u[i]]) = n * c - SumFunctionOnSet(u, 1..n)
<1> DEFINE f == [i \in 1..n |-> c - u[i]]
           S == {m \in Nat : m <= n =>
                    /\ SumFunctionOnSet(u, 1..m) \in Int
                    /\ SumFunctionOnSet(f, 1..m) = m * c - SumFunctionOnSet(u, 1..m)}
<1>1. DOMAIN f = 1..n /\ \A i \in 1..n : f[i] = c - u[i]
  OBVIOUS
<1> HIDE DEF f
<1>2. 0 \in S
  <2>1. 1..0 = {} /\ 0 * c = 0 /\ SumFunctionOnSet(f, {}) = 0 /\ SumFunctionOnSet(u, {}) = 0
    BY SumEmpty
  <2> QED  BY <2>1
<1>3. ASSUME NEW m \in Nat, m \in S PROVE m + 1 \in S
  <2> SUFFICES ASSUME m + 1 <= n
               PROVE  /\ SumFunctionOnSet(u, 1..m + 1) \in Int
                      /\ SumFunctionOnSet(f, 1..m + 1) = (m + 1) * c - SumFunctionOnSet(u, 1..m + 1)
    OBVIOUS
  <2>1. (\A i \in 1..m + 1 : u[i] \in Int) /\ (\A i \in 1..m + 1 : f[i] \in Int)
        /\ f[m + 1] = c - u[m + 1] /\ u[m + 1] \in Int
    BY <1>1
  <2>2. SumFunctionOnSet(f, 1..m + 1) = SumFunctionOnSet(f, 1..m) + f[m + 1]
    BY <2>1, SumTo
  <2>3. /\ SumFunctionOnSet(u, 1..m) \in Int
        /\ SumFunctionOnSet(u, 1..m + 1) = SumFunctionOnSet(u, 1..m) + u[m + 1]
    BY <2>1, SumTo
  <2>4. SumFunctionOnSet(f, 1..m) = m * c - SumFunctionOnSet(u, 1..m)
    BY <1>3
  <2>5. m * c + c = (m + 1) * c /\ m * c \in Int
    OBVIOUS
  <2> QED  BY <2>1, <2>2, <2>3, <2>4, <2>5
<1> HIDE DEF S
<1>4. \A m \in Nat : m \in S
  BY <1>2, <1>3, SetInduction
<1>5. /\ SumFunctionOnSet(u, 1..n) \in Int
      /\ SumFunctionOnSet(f, 1..n) = n * c - SumFunctionOnSet(u, 1..n)
  BY <1>4 DEF S
<1> QED  BY <1>1, <1>5 DEF SumFunction, f

(* Two sequences one after the other. *)
LEMMA ConcatOf ==
    ASSUME NEW T, NEW u \in Seq(T), NEW w \in Seq(T)
    PROVE  /\ u \o w \in Seq(T) /\ Len(u \o w) = Len(u) + Len(w)
           /\ Len(u) \in Nat /\ Len(w) \in Nat
           /\ \A i \in 1..Len(u) : (u \o w)[i] = u[i]
           /\ \A i \in 1..Len(w) : (u \o w)[Len(u) + i] = w[i]
<1>1. u \o w \in Seq(T) 
  OBVIOUS
<1>2. Len(u \o w) = Len(u) + Len(w)
  OBVIOUS
<1>3. Len(u) \in Nat /\ Len(w) \in Nat
  OBVIOUS
<1>4. \A i \in 1..Len(u) : (u \o w)[i] = u[i]
  OBVIOUS
<1>5. \A i \in 1..Len(w) : (u \o w)[Len(u) + i] = w[i]
  OBVIOUS
<1> QED BY <1>1, <1>2, <1>3, <1>4, <1>5

(* What is left of a sequence behind its first k elements. *)
LEMMA SuffixOf ==
    ASSUME NEW T, NEW u \in Seq(T), NEW k \in 0..Len(u)
    PROVE  LET b == SubSeq(u, k + 1, Len(u))
           IN  b \in Seq(T) /\ Len(b) = Len(u) - k /\ \A i \in 1..Len(u) - k : b[i] = u[k + i]
<1> DEFINE b == SubSeq(u, k + 1, Len(u))
<1>1. Len(u) \in Nat /\ k \in Nat /\ k <= Len(u)
  OBVIOUS
<1>2. b \in Seq(T)
  BY <1>1
<1>3. Len(b) = Len(u) - k
  BY <1>1
<1>4. ASSUME NEW i \in 1..Len(u) - k PROVE b[i] = u[k + i]
  <2>1. i \in 1..(Len(u) - (k + 1) + 1) /\ (k + 1) + i - 1 = k + i
    BY <1>1
  <2>2. b[i] = u[(k + 1) + i - 1]
    BY <1>1, <2>1
  <2> QED  BY <2>1, <2>2
<1> QED  BY <1>2, <1>3, <1>4

(* A sequence is its first k elements and the rest. *)
LEMMA SumCut ==
    ASSUME NEW u \in Seq(Int), NEW k \in 0..Len(u)
    PROVE  /\ SumFunctionOnSet(u, 1..k) \in Int
           /\ SumFunction(SubSeq(u, k + 1, Len(u))) \in Int
           /\ SumFunction(u) = SumFunctionOnSet(u, 1..k) + SumFunction(SubSeq(u, k + 1, Len(u)))
<1> DEFINE a == SubSeq(u, 1, k)
           b == SubSeq(u, k + 1, Len(u))
<1>0. Len(u) \in Nat /\ k \in Nat /\ k <= Len(u)
  OBVIOUS
<1>a. a \in Seq(Int) /\ Len(a) = k /\ \A i \in 1..k : a[i] = u[i]
  BY <1>0
<1>b. b \in Seq(Int) /\ Len(b) = Len(u) - k /\ \A i \in 1..Len(u) - k : b[i] = u[k + i]
  BY SuffixOf
<1>1. /\ a \in Seq(Int) /\ b \in Seq(Int) /\ u = a \o b
      /\ DOMAIN a = 1..k /\ \A i \in 1..k : a[i] = u[i]
  <2> HIDE DEF a, b
  <2>1. a \o b \in Seq(Int)
    BY <1>a, <1>b
  <2>2. Len(a \o b) = Len(u)
    BY <1>0, <1>a, <1>b
  <2>3. ASSUME NEW i \in 1..Len(u) PROVE (a \o b)[i] = u[i]
    <3>0. (a \o b)[i] = IF i <= Len(a) THEN a[i] ELSE b[i - Len(a)]
      BY <1>0, <1>a, <1>b
    <3>1. CASE i <= k
      BY <1>0, <1>a, <3>0, <3>1
    <3>2. CASE ~(i <= k)
      <4>1. i - k \in 1..Len(u) - k /\ k + (i - k) = i
        BY <1>0, <3>2
      <4>2. b[i - k] = u[k + (i - k)]
        BY <1>b, <4>1
      <4> QED  BY <1>a, <3>0, <3>2, <4>1, <4>2
    <3> QED  BY <3>1, <3>2
  <2> DEFINE ab == a \o b
  <2> HIDE DEF ab
  <2>4. ab \in Seq(Int) /\ Len(ab) = Len(u) /\ \A i \in 1..Len(u) : ab[i] = u[i]
    BY <2>1, <2>2, <2>3 DEF ab
  <2>5. ab = [i \in 1..Len(u) |-> ab[i]] /\ u = [i \in 1..Len(u) |-> u[i]]
    BY <2>4
  <2>6. u = a \o b
    BY <2>4, <2>5 DEF ab
  <2> QED  BY <1>0, <1>a, <1>b, <2>6
<1> HIDE DEF a, b
<1>2. /\ SumFunction(a) \in Int /\ SumFunction(b) \in Int
      /\ SumFunction(u) = SumFunction(a) + SumFunction(b)
  BY <1>1, SumConcat
<1>3. SumFunction(a) = SumFunctionOnSet(u, 1..k)
  <2> DEFINE A == 1..k
  <2>1. IsFiniteSet(A) /\ \A i \in A : a[i] = u[i]
    BY <1>1, FS_Interval
  <2> HIDE DEF A
  <2>2. SumFunctionOnSet(a, A) = SumFunctionOnSet(u, A)
    BY <2>1, SumSame
  <2> QED  BY <1>1, <2>2 DEF A, SumFunction
<1> QED  BY <1>2, <1>3 DEF b

-----------------------------------------------------------------------------
(* g is the table of what FlattenSeq has joined after each of the first n  *)
(* members of s.                                                           *)
JoinTable(g, s, n) == g = [i \in 1..n |-> IF i = 1 THEN s[i] ELSE g[i - 1] \o s[i]]

LEMMA JoinTableExists ==
    ASSUME NEW s
    PROVE  \A n \in Nat : \E g : JoinTable(g, s, n)
<1> DEFINE S == {n \in Nat : \E g : JoinTable(g, s, n)}
<1>1. 0 \in S
  <2>1. JoinTable([i \in 1..0 |-> 0], s, 0)
    <3>1. 1..0 = {}
      OBVIOUS
    <3> QED  BY <3>1 DEF JoinTable
  <2> QED  BY <2>1
<1>2. ASSUME NEW n \in Nat, n \in S PROVE n + 1 \in S
  <2>1. PICK g : JoinTable(g, s, n)
    BY <1>2
  <2> DEFINE h == [i \in 1..n + 1 |-> IF i \in 1..n THEN g[i]
                                      ELSE IF i = 1 THEN s[i] ELSE g[i - 1] \o s[i]]
             r == [i \in 1..n + 1 |-> IF i = 1 THEN s[i] ELSE h[i - 1] \o s[i]]
  <2>2. ASSUME NEW i \in 1..n + 1 PROVE h[i] = r[i]
    <3>1. \A j \in 1..n : g[j] = IF j = 1 THEN s[j] ELSE g[j - 1] \o s[j]
      BY <2>1 DEF JoinTable
    <3>2. i # 1 => i - 1 \in 1..n /\ i - 1 \in 1..n + 1
      OBVIOUS
    <3>3. i # 1 => h[i - 1] = g[i - 1]
      BY <3>2
    <3> QED  BY <3>1, <3>3
  <2>3. h = r
    BY <2>2
  <2>4. JoinTable(h, s, n + 1)
    BY <2>3 DEF JoinTable
  <2> HIDE DEF h, r
  <2> QED  BY <2>4
<1> HIDE DEF S
<1>3. \A n \in Nat : n \in S
  BY <1>1, <1>2, SetInduction
<1> QED  BY <1>3 DEF S

AgreeUpto(s, t, n) == \A i \in 1..n : s[i] = t[i]

(* Two tables agree as far as what they join does. *)
LEMMA JoinTablesAgree ==
    ASSUME NEW s, NEW t, NEW n \in Nat, NEW m \in Nat, n <= m,
           NEW g, NEW h, JoinTable(g, s, n), JoinTable(h, t, m), AgreeUpto(s, t, n)
    PROVE  \A i \in 1..n : g[i] = h[i]
<1> DEFINE S == {k \in Nat : k \in 1..n => g[k] = h[k]}
<1>1. 0 \in S
  OBVIOUS
<1>2. ASSUME NEW k \in Nat, k \in S PROVE k + 1 \in S
  <2> SUFFICES ASSUME k + 1 \in 1..n PROVE g[k + 1] = h[k + 1]
    OBVIOUS
  <2>1. g[k + 1] = IF k + 1 = 1 THEN s[k + 1] ELSE g[(k + 1) - 1] \o s[k + 1]
    BY DEF JoinTable
  <2>2. h[k + 1] = IF k + 1 = 1 THEN t[k + 1] ELSE h[(k + 1) - 1] \o t[k + 1]
    <3>1. k + 1 \in 1..m
      OBVIOUS
    <3> QED  BY <3>1 DEF JoinTable
  <2>3. (k + 1) - 1 = k /\ (k + 1 # 1 => k \in 1..n) /\ s[k + 1] = t[k + 1]
    BY DEF AgreeUpto
  <2> QED  BY <2>1, <2>2, <2>3, <1>2
<1> HIDE DEF S
<1>3. \A k \in Nat : k \in S
  BY <1>1, <1>2, SetInduction
<1> QED  BY <1>3 DEF S

LEMMA FlattenIsInTable ==
    ASSUME NEW s, Len(s) \in Nat \ {0}
    PROVE  \E g : JoinTable(g, s, Len(s)) /\ FlattenSeq(s) = g[Len(s)]
<1> DEFINE P(g) == g = [i \in 1..Len(s) |-> IF i = 1 THEN s[i] ELSE g[i - 1] \o s[i]]
<1>1. \E g : P(g)
  BY JoinTableExists DEF JoinTable
<1>2. FlattenSeq(s) = (CHOOSE g : P(g))[Len(s)]
  BY DEF FlattenSeq
<1> HIDE DEF P
<1>3. P(CHOOSE g : P(g))
  BY <1>1
<1> QED  BY <1>2, <1>3 DEF P, JoinTable

(* FlattenSeq joins one more sequence to what it has joined before. *)
LEMMA FlattenAppend ==
    ASSUME NEW T, NEW s \in Seq(Seq(T)), NEW x \in Seq(T)
    PROVE  FlattenSeq(Append(s, x)) = FlattenSeq(s) \o x
<1>1. PICK n \in Nat : n = Len(s)
  OBVIOUS
<1>2. PICK t : t = Append(s, x)
  OBVIOUS
<1>3. Len(t) = n + 1 /\ t[n + 1] = x /\ \A i \in 1..n : t[i] = s[i]
  BY <1>1, <1>2
<1>4. PICK h : JoinTable(h, t, n + 1) /\ FlattenSeq(t) = h[n + 1]
  BY <1>3, FlattenIsInTable
<1>5. h[n + 1] = IF n + 1 = 1 THEN t[n + 1] ELSE h[(n + 1) - 1] \o t[n + 1]
  <2>1. n + 1 \in 1..n + 1
    OBVIOUS
  <2> QED  BY <1>4, <2>1 DEF JoinTable
<1>6. CASE n = 0
  <2>1. FlattenSeq(s) = <<>>
    BY <1>6, <1>1 DEF FlattenSeq
  <2>2. <<>> \o x = x
    OBVIOUS
  <2> QED  BY <2>1, <2>2, <1>2, <1>3, <1>4, <1>5, <1>6
<1>7. CASE n # 0
  <2>1. PICK g : JoinTable(g, s, n) /\ FlattenSeq(s) = g[n]
    BY <1>7, <1>1, FlattenIsInTable
  <2>2. \A i \in 1..n : g[i] = h[i]
    <3>1. PICK m \in Nat : m = n + 1
      OBVIOUS
    <3>2. n <= m /\ JoinTable(g, s, n) /\ JoinTable(h, t, m) /\ AgreeUpto(s, t, n)
      BY <1>3, <1>4, <2>1, <3>1 DEF AgreeUpto
    <3> QED  BY <3>2, JoinTablesAgree
  <2>3. g[n] = h[n] /\ (n + 1) - 1 = n /\ n + 1 # 1
    BY <2>2, <1>7
  <2> QED  BY <2>1, <2>3, <1>2, <1>3, <1>4, <1>5
<1> QED  BY <1>6, <1>7

(* An element moved over from the front of one sequence to the end of the *)
(* one before it, and the sequence a concatenation starts with.            *)
FollowsFirst(q, r) == Len(r) = Len(q) + 1 /\ \A i \in 1..Len(q) : q[i] = r[i + 1]

LEMMA MovedOver ==
    ASSUME NEW T, NEW s \in Seq(T), NEW r \in Seq(T), NEW q \in Seq(T), NEW x \in T,
           r[1] = x, FollowsFirst(q, r)
    PROVE  s \o r = Append(s, x) \o q
<1>1. PICK n \in Nat, k \in Nat : n = Len(s) /\ k = Len(q)
  OBVIOUS
<1>2. PICK a : a = s \o r
  OBVIOUS
<1>3. PICK p : p = Append(s, x)
  OBVIOUS
<1>4. PICK b : b = p \o q
  OBVIOUS
<1>5. p \in Seq(T) /\ Len(p) = n + 1 /\ p[n + 1] = x /\ \A i \in 1..n : p[i] = s[i]
  BY <1>1, <1>3
<1>6. /\ a \in Seq(T) /\ Len(a) = n + (k + 1)
      /\ \A i \in 1..n : a[i] = s[i]
      /\ \A i \in 1..k + 1 : a[n + i] = r[i]
  <2>0. s \o r \in Seq(T)
    OBVIOUS
  <2>1. Len(s \o r) = Len(s) + Len(r)
    BY ONLY s \in Seq(T), r \in Seq(T)
  <2>2. \A i \in 1..Len(s) : (s \o r)[i] = s[i]
    OBVIOUS
  <2>3. \A i \in 1..Len(r) : (s \o r)[Len(s) + i] = r[i]
    OBVIOUS
  <2>4. Len(r) = k + 1
    BY <1>1 DEF FollowsFirst
  <2> QED  BY ONLY <1>1, <1>2, <2>0, <2>1, <2>2, <2>3, <2>4
<1>7. /\ b \in Seq(T) /\ Len(b) = (n + 1) + k
      /\ \A i \in 1..n + 1 : b[i] = p[i]
      /\ \A i \in 1..k : b[(n + 1) + i] = q[i]
  <2>0. p \in Seq(T)
    BY <1>5
  <2>1. p \o q \in Seq(T) /\ Len(p \o q) = Len(p) + Len(q)
    BY <2>0
  <2>2. \A i \in 1..Len(p) : (p \o q)[i] = p[i]
    BY <2>0
  <2>3. \A i \in 1..Len(q) : (p \o q)[Len(p) + i] = q[i]
    BY <2>0
  <2>4. Len(p) = n + 1 /\ Len(q) = k
    BY <1>1, <1>5
  <2> QED  BY ONLY <1>4, <2>1, <2>2, <2>3, <2>4
<1>8. PICK m \in Nat : m = n + (k + 1)
  OBVIOUS
<1>9. \A j \in 1..m : a[j] = b[j]
  <2>1. ASSUME NEW j \in 1..n PROVE a[j] = b[j]
    BY <1>5, <1>6, <1>7
  <2>2. a[n + 1] = b[n + 1]
    <3>1. a[n + 1] = r[1]
      BY <1>6
    <3>2. b[n + 1] = p[n + 1]
      BY <1>7
    <3> QED  BY <3>1, <3>2, <1>5
  <2>3. ASSUME NEW i \in 1..k PROVE a[(n + 1) + i] = b[(n + 1) + i]
    <3>1. i + 1 \in 1..k + 1 /\ n + (i + 1) = (n + 1) + i
      OBVIOUS
    <3>2. a[n + (i + 1)] = r[i + 1]
      BY <1>6, <3>1
    <3> QED  BY <3>1, <3>2, <1>1, <1>7 DEF FollowsFirst
  <2>4. ASSUME NEW j \in 1..m PROVE a[j] = b[j]
    <3>1. j \in 1..n \/ j = n + 1 \/ j - (n + 1) \in 1..k
      BY <1>8
    <3>2. CASE j - (n + 1) \in 1..k
      <4>1. PICK i \in 1..k : i = j - (n + 1)
        BY <3>2
      <4>2. j = (n + 1) + i
        BY <4>1
      <4> QED  BY <4>2, <2>3
    <3> QED  BY <3>1, <3>2, <2>1, <2>2
  <2> QED  BY <2>4
<1>10. a = [j \in 1..m |-> a[j]] /\ b = [j \in 1..m |-> b[j]]
  BY <1>6, <1>7, <1>8
<1> QED  BY <1>2, <1>3, <1>4, <1>9, <1>10

LEMMA PrefixOf ==
    ASSUME NEW T, NEW s \in Seq(T), NEW r \in Seq(T)
    PROVE  IsPrefix(s, s \o r)
<1>1. PICK a : a = s \o r
  OBVIOUS
<1>2. PICK n \in Nat : n = Len(s)
  OBVIOUS
<1>3. a \in Seq(T) /\ Len(a) = n + Len(r) /\ Len(r) \in Nat /\ \A i \in 1..n : a[i] = s[i]
  BY <1>1, <1>2
<1>4. SubSeq(s, 1, n) = [i \in 1..n |-> s[i]] /\ SubSeq(a, 1, n) = [i \in 1..n |-> a[i]]
  BY <1>2, <1>3
<1>5. SubSeq(s, 1, n) = SubSeq(a, 1, n)
  BY <1>3, <1>4
<1> QED  BY <1>1, <1>2, <1>3, <1>5 DEF IsPrefix
=============================================================================
