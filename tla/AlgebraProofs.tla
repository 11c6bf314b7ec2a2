--------------------------- MODULE AlgebraProofs ---------------------------
(***************************************************************************)
(* The arithmetic behind both oblivious transfers, for every commutative   *)
(* group, every number of terms and every number of bits: cancelling, sums *)
(* and products as the folds compute them, and binary numerals.            *)
(*                                                                         *)
(* What would be an induction is an argument about sets: a set of numbers  *)
(* that has 0 and with every number the next one has them all (UpTo), as   *)
(* every set of numbers has a least one.                                   *)
(***************************************************************************)
EXTENDS PairingGroup, Functions, FiniteSetTheorems, WellFoundedInduction, TLAPS

-----------------------------------------------------------------------------
(* Multiplying by y and then by the inverse of y changes nothing, whatever *)
(* was multiplied in between.                                              *)
LEMMA Cancel ==
  ASSUME NEW x \in Group, NEW y \in Group
  PROVE  /\ Mul(Mul(x, y), Inv(y)) = x
         /\ Mul(Mul(y, x), Inv(y)) = x
<1>1. Mul(Mul(x, y), Inv(y)) = x
  <2>1. Inv(y) \in Group
    BY GroupClosed
  <2>2. Mul(Mul(x, y), Inv(y)) = Mul(x, Mul(y, Inv(y)))
    BY <2>1, GroupLaws
  <2> QED BY <2>2, GroupLaws
<1>2. Mul(y, x) = Mul(x, y)
  BY GroupLaws
<1> QED BY <1>1, <1>2

LEMMA CancelBetween ==
  ASSUME NEW x \in Group, NEW y \in Group, NEW z \in Group
  PROVE  Mul(Mul(Mul(Mul(x, y), z), Inv(y)), Inv(z)) = x
<1>1. Mul(Mul(x, y), z) = Mul(Mul(x, z), y)
  <2>1. Mul(Mul(x, y), z) = Mul(x, Mul(y, z)) /\ Mul(Mul(x, z), y) = Mul(x, Mul(z, y))
    BY GroupLaws
  <2>2. Mul(y, z) = Mul(z, y)
    BY GroupLaws
  <2> QED BY <2>1, <2>2
<1>2. Mul(x, z) \in Group
  BY GroupClosed
<1>3. Mul(Mul(Mul(x, z), y), Inv(y)) = Mul(x, z)
  BY <1>2, Cancel
<1>4. Mul(Mul(x, z), Inv(z)) = x
  BY Cancel
<1> QED BY <1>1, <1>3, <1>4

LEMMA Regroup ==
  ASSUME NEW p \in Group, NEW q \in Group, NEW r \in Group, NEW s \in Group
  PROVE  Mul(Mul(p, q), Mul(r, s)) = Mul(Mul(r, p), Mul(s, q))
<1>1. Mul(p, q) \in Group /\ Mul(r, s) \in Group /\ Mul(r, p) \in Group /\ Mul(s, q) \in Group
      /\ Mul(p, r) \in Group
  BY GroupClosed
<1>2. Mul(Mul(p, q), Mul(r, s)) = Mul(p, Mul(q, Mul(r, s)))
  BY <1>1, GroupLaws
<1>3. Mul(q, Mul(r, s)) = Mul(Mul(r, s), q) /\ Mul(Mul(r, s), q) = Mul(r, Mul(s, q))
  BY <1>1, GroupLaws
<1>4. Mul(p, Mul(r, Mul(s, q))) = Mul(Mul(p, r), Mul(s, q))
  BY <1>1, GroupLaws
<1>5. Mul(p, r) = Mul(r, p)
  BY GroupLaws
<1> QED BY <1>2, <1>3, <1>4, <1>5

(* Only the unit leaves what it is multiplied with as it is.               *)
LEMMA NoUnit ==
  ASSUME NEW x \in Group, NEW y \in Group, Mul(x, y) = x
  PROVE  y = One
<1>1. Mul(Mul(x, y), Inv(x)) = y
  <2>1. Mul(x, y) = Mul(y, x)
    BY GroupLaws
  <2> QED BY <2>1, Cancel
<1>2. Mul(x, Inv(x)) = One
  BY GroupLaws
<1> QED BY <1>1, <1>2

-----------------------------------------------------------------------------
(* Every set of numbers has a least one.                                   *)
LEMMA Least ==
  ASSUME NEW T \in SUBSET Nat, T # {}
  PROVE  \E x \in T : \A y \in T : x <= y
<1> DEFINE R == OpToRel(<, Nat)
<1>1. \A x, y \in Nat : y < x => <<y, x>> \in R
  BY DEF OpToRel
<1>2. IsWellFoundedOn(R, Nat)
  BY NatLessThanWellFounded
<1> HIDE DEF R
<1>3. PICK x \in T : \A y \in T : ~ (<<y, x>> \in R)
  BY <1>2, WFMin, Zenon
<1>4. ASSUME NEW y \in T PROVE x <= y
  <2>1. x \in Nat /\ y \in Nat /\ ~ (y < x)
    BY <1>1, <1>3
  <2> QED BY <2>1
<1> QED BY <1>4

(* Induction over a set of numbers: what has 0 and with every number the   *)
(* next one, as far as n, has them all.                                    *)
LEMMA UpTo ==
  ASSUME NEW n \in Nat, NEW S, 0 \in S, \A k \in 0 .. n - 1 : k \in S => k + 1 \in S
  PROVE  \A k \in 0 .. n : k \in S
<1> SUFFICES ASSUME NEW k \in 0 .. n, k \notin S
             PROVE  FALSE
  OBVIOUS
<1> DEFINE T == {m \in 0 .. n : m \notin S}
<1>1. T \in SUBSET Nat /\ T # {}
  OBVIOUS
<1>2. PICK x \in T : \A y \in T : x <= y
  BY <1>1, Least, Zenon
<1>3. x # 0 /\ x - 1 \in 0 .. n - 1 /\ x - 1 \notin T
  BY <1>2
<1>4. x - 1 \in S
  BY <1>3
<1> QED BY <1>2, <1>3, <1>4

(* The powers of two.                                                      *)
LEMMA PowerOfTwo ==
  ASSUME NEW n \in Nat
  PROVE  2 ^ n \in Nat \ {0} /\ 2 ^ (n + 1) = 2 ^ n + 2 ^ n
<1> DEFINE C(k) == Cardinality(SUBSET (1 .. k))
<1>1. \A k \in Nat : C(k) = 2 ^ k /\ IsFiniteSet(SUBSET (1 .. k)) /\ C(k) \in Nat
  <2> SUFFICES ASSUME NEW k \in Nat
               PROVE  C(k) = 2 ^ k /\ IsFiniteSet(SUBSET (1 .. k)) /\ C(k) \in Nat
    OBVIOUS
  <2>1. IsFiniteSet(1 .. k) /\ Cardinality(1 .. k) = k
    BY FS_Interval
  <2>2. IsFiniteSet(SUBSET (1 .. k)) /\ C(k) = 2 ^ k
    BY <2>1, FS_SUBSET
  <2> QED BY <2>2, FS_CardinalityType
<1> DEFINE Old == SUBSET (1 .. n)
           New == {s \in SUBSET (1 .. n + 1) : n + 1 \in s}
           f == [s \in Old |-> s \cup {n + 1}]
<1>2. IsFiniteSet(Old) /\ Cardinality(Old) = 2 ^ n
  BY <1>1
<1>3. SUBSET (1 .. n + 1) = Old \cup New /\ Old \cap New = {}
  <2>1. \A s \in SUBSET (1 .. n + 1) : s \in Old \/ s \in New
    OBVIOUS
  <2>2. \A s \in Old : s \in SUBSET (1 .. n + 1) /\ n + 1 \notin s
    OBVIOUS
  <2> QED BY <2>1, <2>2
<1>4. ExistsBijection(Old, New)
  <2>1. f \in [Old -> New]
    OBVIOUS
  <2>2. \A s, t \in Old : f[s] = f[t] => s = t
    <3> SUFFICES ASSUME NEW s \in Old, NEW t \in Old, s \cup {n + 1} = t \cup {n + 1}
                 PROVE  s = t
      OBVIOUS
    <3>1. n + 1 \notin s /\ n + 1 \notin t
      OBVIOUS
    <3> QED BY <3>1
  <2>3. \A t \in New : \E s \in Old : f[s] = t
    <3> SUFFICES ASSUME NEW t \in New PROVE \E s \in Old : f[s] = t
      OBVIOUS
    <3>1. t \ {n + 1} \in Old /\ (t \ {n + 1}) \cup {n + 1} = t
      OBVIOUS
    <3> QED BY <3>1
  <2>4. f \in Bijection(Old, New)
    BY <2>1, <2>2, <2>3 DEF Bijection, Injection, Surjection, IsInjective
  <2> QED BY <2>4 DEF ExistsBijection
<1>5. IsFiniteSet(New) /\ Cardinality(New) = Cardinality(Old)
  BY <1>2, <1>4, FS_Bijection
<1>6. Cardinality(Old \cup New) = Cardinality(Old) + Cardinality(New) - Cardinality({})
  BY <1>2, <1>3, <1>5, FS_Union
<1>7. Cardinality({}) = 0
  BY FS_EmptySet
<1>8. 2 ^ (n + 1) = Cardinality(Old \cup New)
  BY <1>1, <1>3
<1>9. Cardinality(Old) \in Nat
  BY <1>2, FS_CardinalityType
<1>10. Cardinality(Old) # 0
  <2>1. {} \in Old
    OBVIOUS
  <2> QED BY <1>2, <2>1, FS_EmptySet
<1> QED BY <1>2, <1>5, <1>6, <1>7, <1>8, <1>9, <1>10

LEMMA PowersGrow ==
  ASSUME NEW n \in Nat, NEW k \in 0 .. n
  PROVE  2 ^ k <= 2 ^ n
<1> DEFINE K == {j \in 0 .. n : j + k <= n => 2 ^ k <= 2 ^ (j + k)}
<1>1. 0 \in K
  <2>1. 2 ^ k \in Nat
    BY PowerOfTwo
  <2> DEFINE d == 2 ^ k
  <2>2. d \in Nat
    BY <2>1
  <2>3. 0 + k = k
    OBVIOUS
  <2>4. 2 ^ (0 + k) = d
    BY <2>3, Zenon
  <2> QED BY <2>2, <2>4
<1>2. ASSUME NEW j \in 0 .. n - 1, j \in K
      PROVE  j + 1 \in K
  <2> DEFINE d == 2 ^ k
             e == 2 ^ (j + k)
  <2>1. j + k \in Nat /\ (j + k) + 1 = (j + 1) + k
    OBVIOUS
  <2>2. d \in Nat /\ e \in Nat /\ 2 ^ ((j + k) + 1) = e + e
    BY <2>1, PowerOfTwo
  <2>3. 2 ^ ((j + 1) + k) = e + e
    BY <2>1, <2>2, Zenon
  <2>4. (j + 1) + k <= n => d <= e
    BY <1>2
  <2> HIDE DEF e
  <2>5. (j + 1) + k <= n => d <= e + e
    BY <2>2, <2>4
  <2> QED BY <2>3, <2>5
<1>3. n - k \in K
  <2> HIDE DEF K
  <2>1. \A j \in 0 .. n : j \in K
    BY <1>1, <1>2, UpTo
  <2> QED BY <2>1
<1>4. (n - k) + k = n
  OBVIOUS
<1> QED BY <1>3, <1>4

-----------------------------------------------------------------------------
(* The fold that FoldFunction is made of: it takes the elements out in the *)
(* order of CHOOSE.                                                        *)
Pick(s) == CHOOSE x \in s : TRUE

LEMMA Picked == ASSUME NEW s, s # {} PROVE Pick(s) \in s
BY DEF Pick

LEMMA Applied ==
  ASSUME NEW D, NEW V, NEW G \in [D \X V -> V]
  PROVE  \A d \in D, v \in V : G[<<d, v>>] \in V
OBVIOUS

(* What a fold makes of every subset of S: G makes it of the set and of    *)
(* what is made of the rest.                                               *)
Folded(S, base, G, it) ==
  it = [s \in SUBSET S |-> IF s = {} THEN base ELSE G[<<s, it[s \ {Pick(s)}]>>]]

LEMMA FoldExists ==
  ASSUME NEW S, IsFiniteSet(S), NEW V, NEW base \in V,
         NEW G \in [(SUBSET S) \X V -> V]
  PROVE  \E it \in [SUBSET S -> V] : Folded(S, base, G, it)
<1> DEFINE Small(k) == {s \in SUBSET S : Cardinality(s) <= k}
           Step(it, s) == IF s = {} THEN base ELSE G[<<s, it[s \ {Pick(s)}]>>]
           Good(k) == \E it \in [Small(k) -> V] : \A s \in Small(k) : it[s] = Step(it, s)
           n == Cardinality(S)
           All == {k \in 0 .. n : Good(k)}
<1>1. \A s \in SUBSET S : IsFiniteSet(s) /\ Cardinality(s) \in 0 .. n
  <2> SUFFICES ASSUME NEW s \in SUBSET S
               PROVE  IsFiniteSet(s) /\ Cardinality(s) \in 0 .. n
    OBVIOUS
  <2>1. IsFiniteSet(s) /\ Cardinality(s) <= n
    BY FS_Subset
  <2>2. Cardinality(s) \in Nat /\ n \in Nat
    BY <2>1, FS_CardinalityType
  <2> QED BY <2>1, <2>2
<1>2. n \in Nat
  BY FS_CardinalityType
<1>3. ASSUME NEW s \in SUBSET S, s # {}
      PROVE  /\ Pick(s) \in s /\ s \ {Pick(s)} \in SUBSET S
             /\ Cardinality(s \ {Pick(s)}) = Cardinality(s) - 1
  BY <1>1, <1>3, Picked, FS_RemoveElement
<1>4. 0 \in All
  <2>1. \A s \in Small(0) : s = {}
    BY <1>1, FS_EmptySet
  <2> DEFINE it == [s \in Small(0) |-> base]
  <2>2. it \in [Small(0) -> V] /\ \A s \in Small(0) : it[s] = Step(it, s)
    BY <2>1
  <2>3. Good(0)
    BY <2>2
  <2> HIDE DEF Good
  <2> QED BY <1>2, <2>3
<1>5. ASSUME NEW k \in 0 .. n - 1, k \in All
      PROVE  k + 1 \in All
  <2>1. PICK old \in [Small(k) -> V] : \A s \in Small(k) : old[s] = Step(old, s)
    BY <1>5
  <2>2. ASSUME NEW s \in Small(k + 1), s # {}
        PROVE  s \ {Pick(s)} \in Small(k)
    BY <1>1, <1>2, <1>3, <2>2
  <2> DEFINE it == [s \in Small(k + 1) |-> Step(old, s)]
  <2>3. \A s \in Small(k + 1) : Step(old, s) \in V
    <3> SUFFICES ASSUME NEW s \in Small(k + 1), s # {}
                 PROVE  G[<<s, old[s \ {Pick(s)}]>>] \in V
      OBVIOUS
    <3>1. old[s \ {Pick(s)}] \in V
      BY <2>2
    <3>2. s \in SUBSET S
      OBVIOUS
    <3> HIDE DEF Small
    <3> QED BY <3>1, <3>2, Applied, Zenon
  <2>4. \A s \in Small(k) : s \in Small(k + 1) /\ it[s] = old[s]
    <3> SUFFICES ASSUME NEW s \in Small(k)
                 PROVE  s \in Small(k + 1) /\ it[s] = old[s]
      OBVIOUS
    <3>1. s \in Small(k + 1)
      BY <1>1, <1>2
    <3>2. it[s] = Step(old, s)
      BY <3>1
    <3>3. old[s] = Step(old, s)
      BY <2>1
    <3> QED BY <3>1, <3>2, <3>3
  <2>5. \A s \in Small(k + 1) : it[s] = Step(it, s)
    BY <2>2, <2>4
  <2>6. it \in [Small(k + 1) -> V]
    BY <2>3
  <2>7. Good(k + 1)
    BY <2>5, <2>6
  <2> HIDE DEF Good
  <2> QED BY <1>2, <2>7
<1>6. n \in All
  <2> HIDE DEF All
  <2> QED BY <1>2, <1>4, <1>5, UpTo
<1>7. PICK it \in [Small(n) -> V] : \A s \in Small(n) : it[s] = Step(it, s)
  BY <1>6
<1>8. Small(n) = SUBSET S
  BY <1>1
<1>9. Folded(S, base, G, it)
  BY <1>7, <1>8 DEF Folded
<1> QED BY <1>7, <1>8, <1>9

(* An operation on V that it does not matter in which order and grouping   *)
(* it is applied.                                                          *)
Commutes(V, C) ==
  /\ C \in [V \X V -> V]
  /\ \A x, y \in V : C[<<x, y>>] = C[<<y, x>>]
  /\ \A x, y, z \in V : C[<<x, C[<<y, z>>]>>] = C[<<C[<<x, y>>], z>>]

FoldOf(S, base, C, w, it) ==
  it = [s \in SUBSET S |->
          IF s = {} THEN base ELSE C[<<w[Pick(s)], it[s \ {Pick(s)}]>>]]

(* Such a fold may take any element out first.                             *)
InAnyOrder(S, C, w, it) ==
  \A s \in SUBSET S : \A x \in s : it[s] = C[<<w[x], it[s \ {x}]>>]

LEMMA AnyOrder ==
  ASSUME NEW S, IsFiniteSet(S), NEW V, NEW base, NEW C, Commutes(V, C),
         NEW w \in [S -> V], NEW it \in [SUBSET S -> V], FoldOf(S, base, C, w, it)
  PROVE  InAnyOrder(S, C, w, it)
<1> DEFINE Claim(s) == \A x \in s : it[s] = C[<<w[x], it[s \ {x}]>>]
           n == Cardinality(S)
           K == {k \in 0 .. n : \A s \in SUBSET S : Cardinality(s) <= k => Claim(s)}
<1>1. \A s \in SUBSET S : IsFiniteSet(s) /\ Cardinality(s) \in 0 .. n
  <2> SUFFICES ASSUME NEW s \in SUBSET S
               PROVE  IsFiniteSet(s) /\ Cardinality(s) \in 0 .. n
    OBVIOUS
  <2>1. IsFiniteSet(s) /\ Cardinality(s) <= n
    BY FS_Subset
  <2>2. Cardinality(s) \in Nat /\ n \in Nat
    BY <2>1, FS_CardinalityType
  <2> QED BY <2>1, <2>2
<1>2. n \in Nat
  BY FS_CardinalityType
<1>3. \A s \in SUBSET S : s # {} => it[s] = C[<<w[Pick(s)], it[s \ {Pick(s)}]>>]
  BY DEF FoldOf
<1>4. ASSUME NEW s \in SUBSET S, NEW x \in s
      PROVE  /\ s \ {x} \in SUBSET S /\ x \in S
             /\ Cardinality(s \ {x}) = Cardinality(s) - 1
  BY <1>1, FS_RemoveElement
<1>5. 0 \in K
  <2>1. \A s \in SUBSET S : Cardinality(s) <= 0 => s = {}
    BY <1>1, FS_EmptySet
  <2> QED BY <1>2, <2>1
<1>6. ASSUME NEW k \in 0 .. n - 1, k \in K
      PROVE  k + 1 \in K
  <2> SUFFICES ASSUME NEW s \in SUBSET S, Cardinality(s) <= k + 1, NEW x \in s
               PROVE  it[s] = C[<<w[x], it[s \ {x}]>>]
    BY <1>2
  <2> DEFINE p == Pick(s)
             r == it[(s \ {p}) \ {x}]
  <2>1. p \in s
    BY Picked
  <2>2. it[s] = C[<<w[p], it[s \ {p}]>>]
    BY <1>3
  <2> HIDE DEF p
  <2>3. CASE x = p
    BY <2>2, <2>3
  <2>4. CASE x # p
    <3>1. x \in s \ {p} /\ p \in s \ {x}
      BY <2>1, <2>4
    <3>2. s \ {p} \in SUBSET S /\ s \ {x} \in SUBSET S /\ x \in S /\ p \in S
          /\ Cardinality(s \ {p}) <= k /\ Cardinality(s \ {x}) <= k
      <4>1. s \ {p} \in SUBSET S /\ p \in S /\ Cardinality(s \ {p}) = Cardinality(s) - 1
        BY <1>4, <2>1
      <4>2. s \ {x} \in SUBSET S /\ x \in S /\ Cardinality(s \ {x}) = Cardinality(s) - 1
        BY <1>4
      <4>3. Cardinality(s) \in Nat
        BY <1>1
      <4> QED BY <4>1, <4>2, <4>3
    <3>3. Claim(s \ {p}) /\ Claim(s \ {x})
      BY <1>6, <3>2
    <3>4. (s \ {x}) \ {p} = (s \ {p}) \ {x}
      OBVIOUS
    <3>5. it[s \ {p}] = C[<<w[x], r>>] /\ it[s \ {x}] = C[<<w[p], r>>]
      <4>1. it[s \ {p}] = C[<<w[x], r>>]
        BY <3>1, <3>3
      <4>2. it[s \ {x}] = C[<<w[p], it[(s \ {x}) \ {p}]>>]
        BY <3>1, <3>3
      <4> QED BY <3>4, <4>1, <4>2
    <3>6. w[p] \in V /\ w[x] \in V /\ r \in V
      BY <3>2
    <3> HIDE DEF r
    <3>7. C[<<w[p], C[<<w[x], r>>]>>] = C[<<w[x], C[<<w[p], r>>]>>]
      <4>1. C[<<w[p], C[<<w[x], r>>]>>] = C[<<C[<<w[p], w[x]>>], r>>]
        BY <3>6 DEF Commutes
      <4>2. C[<<w[x], C[<<w[p], r>>]>>] = C[<<C[<<w[x], w[p]>>], r>>]
        BY <3>6 DEF Commutes
      <4>3. C[<<w[p], w[x]>>] = C[<<w[x], w[p]>>]
        BY <3>6 DEF Commutes
      <4> QED BY <4>1, <4>2, <4>3
    <3> QED BY <2>2, <3>5, <3>7
  <2> QED BY <2>3, <2>4
<1>7. n \in K
  <2> HIDE DEF K
  <2> QED BY <1>2, <1>5, <1>6, UpTo
<1> QED BY <1>1, <1>7 DEF InAnyOrder

(* The fold is the only function of its equation.                          *)
Same(S, f, g) == \A s \in SUBSET S : f[s] = g[s]

SameStep(S, f, g) ==
  \A s \in SUBSET S : (s = {} \/ f[s \ {Pick(s)}] = g[s \ {Pick(s)}]) => f[s] = g[s]

LEMMA FoldUnique ==
  ASSUME NEW S, IsFiniteSet(S), NEW f, NEW g, SameStep(S, f, g)
  PROVE  Same(S, f, g)
<1> DEFINE n == Cardinality(S)
           K == {k \in 0 .. n : \A s \in SUBSET S : Cardinality(s) <= k => f[s] = g[s]}
<1>1. \A s \in SUBSET S : IsFiniteSet(s) /\ Cardinality(s) \in 0 .. n
  <2> SUFFICES ASSUME NEW s \in SUBSET S
               PROVE  IsFiniteSet(s) /\ Cardinality(s) \in 0 .. n
    OBVIOUS
  <2>1. IsFiniteSet(s) /\ Cardinality(s) <= n
    BY FS_Subset
  <2>2. Cardinality(s) \in Nat /\ n \in Nat
    BY <2>1, FS_CardinalityType
  <2> QED BY <2>1, <2>2
<1>2. n \in Nat
  BY FS_CardinalityType
<1>3. 0 \in K
  <2>1. \A s \in SUBSET S : Cardinality(s) <= 0 => s = {}
    BY <1>1, FS_EmptySet
  <2> QED BY <1>2, <2>1 DEF SameStep
<1>4. ASSUME NEW k \in 0 .. n - 1, k \in K
      PROVE  k + 1 \in K
  <2> SUFFICES ASSUME NEW s \in SUBSET S, Cardinality(s) <= k + 1
               PROVE  f[s] = g[s]
    BY <1>2
  <2>e. CASE s = {}
    BY <2>e DEF SameStep
  <2> SUFFICES ASSUME s # {} PROVE f[s] = g[s]
    BY <2>e
  <2>1. Pick(s) \in s
    BY Picked
  <2>2. s \ {Pick(s)} \in SUBSET S /\ Cardinality(s \ {Pick(s)}) = Cardinality(s) - 1
    BY <1>1, <2>1, FS_RemoveElement
  <2>3. Cardinality(s) \in Nat
    BY <1>1
  <2>4. f[s \ {Pick(s)}] = g[s \ {Pick(s)}]
    BY <1>4, <2>2, <2>3
  <2> QED BY <2>4 DEF SameStep
<1>5. n \in K
  <2> HIDE DEF K
  <2> QED BY <1>2, <1>3, <1>4, UpTo
<1> QED BY <1>1, <1>5 DEF Same

LEMMA CommutingFoldExists ==
  ASSUME NEW S, IsFiniteSet(S), NEW V, NEW base \in V, NEW C, Commutes(V, C),
         NEW w \in [S -> V]
  PROVE  \E it \in [SUBSET S -> V] : FoldOf(S, base, C, w, it)
<1> DEFINE G == [a \in (SUBSET S) \X V |-> IF a[1] = {} THEN base ELSE C[<<w[Pick(a[1])], a[2]>>]]
<1>1. \A s \in SUBSET S : s # {} => Pick(s) \in S
  BY Picked
<1>2. \A x, y \in V : C[<<x, y>>] \in V
  BY DEF Commutes
<1>3. \A s \in SUBSET S, v \in V : s # {} => C[<<w[Pick(s)], v>>] \in V
  BY <1>1, <1>2
<1>4. G \in [(SUBSET S) \X V -> V]
  BY <1>3
<1>5. \A s \in SUBSET S, v \in V : s # {} => G[<<s, v>>] = C[<<w[Pick(s)], v>>]
  OBVIOUS
<1> HIDE DEF G
<1>6. PICK it \in [SUBSET S -> V] : Folded(S, base, G, it)
  BY <1>4, FoldExists, Zenon
<1>7. \A s \in SUBSET S : s # {} =>
        G[<<s, it[s \ {Pick(s)}]>>] = C[<<w[Pick(s)], it[s \ {Pick(s)}]>>]
  BY <1>5
<1>8. FoldOf(S, base, C, w, it)
  BY <1>6, <1>7 DEF FoldOf, Folded
<1> QED BY <1>8

-----------------------------------------------------------------------------
(* The sum of the numbers w[i], and the product of the points w[i].        *)
Sums(D, w, it) ==
  /\ SumFunction(w) = it[D] /\ it[{}] = 0
  /\ \A s \in SUBSET D : \A x \in s : it[s] = w[x] + it[s \ {x}]

LEMMA SumFolds ==
  ASSUME NEW D, IsFiniteSet(D), NEW w \in [D -> Int]
  PROVE  \E it \in [SUBSET D -> Int] : Sums(D, w, it)
<1> DEFINE C == [a \in Int \X Int |-> a[1] + a[2]]
           Body(it) == [s \in SUBSET D |->
                          IF s = {} THEN 0 ELSE w[Pick(s)] + it[s \ {Pick(s)}]]
           It == CHOOSE it : it = Body(it)
<1>1. C \in [Int \X Int -> Int] /\ \A x, y \in Int : C[<<x, y>>] = x + y
  OBVIOUS
<1> HIDE DEF C
<1>2. Commutes(Int, C)
  BY <1>1 DEF Commutes
<1>3. PICK it \in [SUBSET D -> Int] : FoldOf(D, 0, C, w, it)
  <2>1. 0 \in Int
    OBVIOUS
  <2> QED BY <1>2, <2>1, CommutingFoldExists, Zenon
<1>4. ASSUME NEW s \in SUBSET D, s # {}
      PROVE  C[<<w[Pick(s)], it[s \ {Pick(s)}]>>] = w[Pick(s)] + it[s \ {Pick(s)}]
  <2>1. w[Pick(s)] \in Int /\ it[s \ {Pick(s)}] \in Int
    BY <1>4, Picked
  <2> QED BY <1>1, <2>1
<1>5. it = Body(it)
  BY <1>3, <1>4 DEF FoldOf
<1>6. It = Body(It)
  <2> HIDE DEF Body
  <2> QED BY <1>5, Zenon
<1> HIDE DEF It
<1>7. \A s \in SUBSET D : It[s] = it[s]
  <2>1. SameStep(D, It, it)
    <3>1. \A s \in SUBSET D : It[s] = Body(It)[s] /\ it[s] = Body(it)[s]
      <4> HIDE DEF Body
      <4> QED BY <1>5, <1>6, Zenon
    <3> QED BY <3>1 DEF SameStep
  <2> QED BY <2>1, FoldUnique DEF Same
<1>8. SumFunction(w) = It[D]
  <2>1. DOMAIN w = D
    OBVIOUS
  <2> QED BY <2>1, Zenon
             DEF SumFunction, SumFunctionOnSet, FoldFunctionOnSet, MapThenFoldSet, It, Pick
<1>9. it[{}] = 0
  BY <1>5
<1>10. \A s \in SUBSET D : \A x \in s : it[s] = w[x] + it[s \ {x}]
  <2> SUFFICES ASSUME NEW s \in SUBSET D, NEW x \in s
               PROVE  it[s] = w[x] + it[s \ {x}]
    OBVIOUS
  <2>1. InAnyOrder(D, C, w, it)
    BY <1>2, <1>3, AnyOrder
  <2>2. w[x] \in Int /\ it[s \ {x}] \in Int
    OBVIOUS
  <2> QED BY <1>1, <2>1, <2>2 DEF InAnyOrder
<1>11. Sums(D, w, it)
  <2> D \in SUBSET D
    OBVIOUS
  <2> QED BY <1>7, <1>8, <1>9, <1>10 DEF Sums
<1> QED BY <1>11

Product(w) == FoldFunction(Mul, One, w)

Products(D, w, it) ==
  /\ Product(w) = it[D] /\ it[{}] = One
  /\ \A s \in SUBSET D : \A x \in s : it[s] = Mul(w[x], it[s \ {x}])

LEMMA ProductFolds ==
  ASSUME NEW D, IsFiniteSet(D), NEW w \in [D -> Group]
  PROVE  \E it \in [SUBSET D -> Group] : Products(D, w, it)
<1> DEFINE C == [a \in Group \X Group |-> Mul(a[1], a[2])]
           Body(it) == [s \in SUBSET D |->
                          IF s = {} THEN One ELSE Mul(w[Pick(s)], it[s \ {Pick(s)}])]
           It == CHOOSE it : it = Body(it)
<1>1. C \in [Group \X Group -> Group] /\ \A x, y \in Group : C[<<x, y>>] = Mul(x, y)
  BY GroupClosed
<1> HIDE DEF C
<1>2. Commutes(Group, C)
  <2>1. \A x, y \in Group : C[<<x, y>>] = C[<<y, x>>]
    <3> SUFFICES ASSUME NEW x \in Group, NEW y \in Group
                 PROVE  C[<<x, y>>] = C[<<y, x>>]
      OBVIOUS
    <3>1. C[<<x, y>>] = Mul(x, y) /\ C[<<y, x>>] = Mul(y, x)
      BY <1>1
    <3> QED BY <3>1, GroupLaws
  <2>2. \A x, y, z \in Group : C[<<x, C[<<y, z>>]>>] = C[<<C[<<x, y>>], z>>]
    <3> SUFFICES ASSUME NEW x \in Group, NEW y \in Group, NEW z \in Group
                 PROVE  C[<<x, C[<<y, z>>]>>] = C[<<C[<<x, y>>], z>>]
      OBVIOUS
    <3>1. Mul(x, y) \in Group /\ Mul(y, z) \in Group
      BY GroupClosed
    <3>2. C[<<x, C[<<y, z>>]>>] = Mul(x, Mul(y, z))
      BY <1>1, <3>1
    <3>3. C[<<C[<<x, y>>], z>>] = Mul(Mul(x, y), z)
      BY <1>1, <3>1
    <3> QED BY <3>2, <3>3, GroupLaws
  <2> QED BY <1>1, <2>1, <2>2 DEF Commutes
<1>3. PICK it \in [SUBSET D -> Group] : FoldOf(D, One, C, w, it)
  <2>1. One \in Group
    BY GroupClosed
  <2> QED BY <1>2, <2>1, CommutingFoldExists, Zenon
<1>4. ASSUME NEW s \in SUBSET D, s # {}
      PROVE  C[<<w[Pick(s)], it[s \ {Pick(s)}]>>] = Mul(w[Pick(s)], it[s \ {Pick(s)}])
  <2>1. w[Pick(s)] \in Group /\ it[s \ {Pick(s)}] \in Group
    BY <1>4, Picked
  <2> QED BY <1>1, <2>1
<1>5. it = Body(it)
  BY <1>3, <1>4 DEF FoldOf
<1>6. It = Body(It)
  <2> HIDE DEF Body
  <2> QED BY <1>5, Zenon
<1> HIDE DEF It
<1>7. \A s \in SUBSET D : It[s] = it[s]
  <2>1. SameStep(D, It, it)
    <3>1. \A s \in SUBSET D : It[s] = Body(It)[s] /\ it[s] = Body(it)[s]
      <4> HIDE DEF Body
      <4> QED BY <1>5, <1>6, Zenon
    <3> QED BY <3>1 DEF SameStep
  <2> QED BY <2>1, FoldUnique DEF Same
<1>8. Product(w) = It[D]
  <2>1. DOMAIN w = D
    OBVIOUS
  <2> QED BY <2>1, Zenon DEF Product, FoldFunction, FoldFunctionOnSet, MapThenFoldSet, It, Pick
<1>9. it[{}] = One
  BY <1>5
<1>10. \A s \in SUBSET D : \A x \in s : it[s] = Mul(w[x], it[s \ {x}])
  <2> SUFFICES ASSUME NEW s \in SUBSET D, NEW x \in s
               PROVE  it[s] = Mul(w[x], it[s \ {x}])
    OBVIOUS
  <2>1. InAnyOrder(D, C, w, it)
    BY <1>2, <1>3, AnyOrder
  <2>2. w[x] \in Group /\ it[s \ {x}] \in Group
    OBVIOUS
  <2> QED BY <1>1, <2>1, <2>2 DEF InAnyOrder
<1>11. Products(D, w, it)
  <2> D \in SUBSET D
    OBVIOUS
  <2> QED BY <1>7, <1>8, <1>9, <1>10 DEF Products
<1> QED BY <1>11

(* Sums and products taken one by one.                                     *)
LEMMA SumUp ==
  ASSUME NEW n \in Nat, NEW w \in [0 .. n - 1 -> Int]
  PROVE  \E p \in [0 .. n -> Int] :
           /\ p[0] = 0 /\ p[n] = SumFunction(w)
           /\ \A k \in 0 .. n - 1 : p[k + 1] = p[k] + w[k]
<1> DEFINE D == 0 .. n - 1
<1>1. IsFiniteSet(D)
  BY FS_Interval
<1>2. PICK it \in [SUBSET D -> Int] : Sums(D, w, it)
  BY <1>1, SumFolds
<1> DEFINE p == [k \in 0 .. n |-> it[0 .. k - 1]]
<1>3. \A k \in 0 .. n : 0 .. k - 1 \in SUBSET D
  OBVIOUS
<1>4. p \in [0 .. n -> Int] /\ p[0] = 0 /\ p[n] = SumFunction(w)
  <2>1. 0 .. 0 - 1 = {}
    OBVIOUS
  <2> QED BY <1>2, <1>3, <2>1 DEF Sums
<1>5. ASSUME NEW k \in 0 .. n - 1 PROVE p[k + 1] = p[k] + w[k]
  <2>1. 0 .. (k + 1) - 1 \in SUBSET D /\ k \in 0 .. (k + 1) - 1
        /\ (0 .. (k + 1) - 1) \ {k} = 0 .. k - 1
    OBVIOUS
  <2>2. it[0 .. (k + 1) - 1] = w[k] + it[0 .. k - 1]
    <3>1. \A s \in SUBSET D : \A x \in s : it[s] = w[x] + it[s \ {x}]
      BY <1>2 DEF Sums
    <3> QED BY <2>1, <3>1, Zenon
  <2>3. it[0 .. k - 1] \in Int /\ w[k] \in Int
    BY <1>3
  <2> QED BY <2>2, <2>3
<1> QED BY <1>4, <1>5

LEMMA SumDown ==
  ASSUME NEW n \in Nat, NEW w \in [0 .. n - 1 -> Int]
  PROVE  \E p \in [0 .. n -> Int] :
           /\ p[0] = 0 /\ p[n] = SumFunction(w)
           /\ \A k \in 0 .. n - 1 : p[k + 1] = p[k] + w[n - 1 - k]
<1> DEFINE D == 0 .. n - 1
<1>1. IsFiniteSet(D)
  BY FS_Interval
<1>2. PICK it \in [SUBSET D -> Int] : Sums(D, w, it)
  BY <1>1, SumFolds
<1> DEFINE p == [k \in 0 .. n |-> it[n - k .. n - 1]]
<1>3. \A k \in 0 .. n : n - k .. n - 1 \in SUBSET D
  OBVIOUS
<1>4. p \in [0 .. n -> Int] /\ p[0] = 0 /\ p[n] = SumFunction(w)
  <2>1. n - 0 .. n - 1 = {} /\ n - n .. n - 1 = D
    OBVIOUS
  <2> QED BY <1>2, <1>3, <2>1 DEF Sums
<1>5. ASSUME NEW k \in 0 .. n - 1 PROVE p[k + 1] = p[k] + w[n - 1 - k]
  <2>1. n - (k + 1) .. n - 1 \in SUBSET D /\ n - 1 - k \in n - (k + 1) .. n - 1
        /\ (n - (k + 1) .. n - 1) \ {n - 1 - k} = n - k .. n - 1
    OBVIOUS
  <2>2. it[n - (k + 1) .. n - 1] = w[n - 1 - k] + it[n - k .. n - 1]
    <3>1. \A s \in SUBSET D : \A x \in s : it[s] = w[x] + it[s \ {x}]
      BY <1>2 DEF Sums
    <3> QED BY <2>1, <3>1, Zenon
  <2>3. it[n - k .. n - 1] \in Int /\ w[n - 1 - k] \in Int
    BY <1>3
  <2> QED BY <2>2, <2>3
<1> QED BY <1>4, <1>5

LEMMA ProductUp ==
  ASSUME NEW n \in Nat, NEW w \in [0 .. n - 1 -> Group]
  PROVE  \E p \in [0 .. n -> Group] :
           /\ p[0] = One /\ p[n] = Product(w)
           /\ \A k \in 0 .. n - 1 : p[k + 1] = Mul(w[k], p[k])
<1> DEFINE D == 0 .. n - 1
<1>1. IsFiniteSet(D)
  BY FS_Interval
<1>2. PICK it \in [SUBSET D -> Group] : Products(D, w, it)
  BY <1>1, ProductFolds
<1> DEFINE p == [k \in 0 .. n |-> it[0 .. k - 1]]
<1>3. \A k \in 0 .. n : 0 .. k - 1 \in SUBSET D
  OBVIOUS
<1>4. p \in [0 .. n -> Group] /\ p[0] = One /\ p[n] = Product(w)
  <2>1. 0 .. 0 - 1 = {}
    OBVIOUS
  <2> QED BY <1>2, <1>3, <2>1 DEF Products
<1>5. ASSUME NEW k \in 0 .. n - 1 PROVE p[k + 1] = Mul(w[k], p[k])
  <2>1. 0 .. (k + 1) - 1 \in SUBSET D /\ k \in 0 .. (k + 1) - 1
        /\ (0 .. (k + 1) - 1) \ {k} = 0 .. k - 1
    OBVIOUS
  <2>2. it[0 .. (k + 1) - 1] = Mul(w[k], it[0 .. k - 1])
    <3>1. \A s \in SUBSET D : \A x \in s : it[s] = Mul(w[x], it[s \ {x}])
      BY <1>2 DEF Products
    <3> QED BY <2>1, <3>1, Zenon
  <2> QED BY <2>2
<1> QED BY <1>4, <1>5

-----------------------------------------------------------------------------
(* Division by a positive number, and that quotient and rest are unique.   *)
LEMMA Division ==
  ASSUME NEW d \in Nat \ {0}, NEW k \in Int
  PROVE  /\ k = d * (k \div d) + (k % d)
         /\ k % d \in 0 .. d - 1 /\ k \div d \in Int
         /\ k \in Nat => k \div d \in Nat
OBVIOUS

LEMMA DivisionUnique ==
  ASSUME NEW d \in Nat \ {0}, NEW q \in Int, NEW r \in 0 .. d - 1
  PROVE  (d * q + r) \div d = q /\ (d * q + r) % d = r
OBVIOUS

LEMMA SmallRest ==
  ASSUME NEW d \in Nat \ {0}, NEW k \in 0 .. d - 1
  PROVE  k % d = k /\ k \div d = 0
OBVIOUS

LEMMA SameRest ==
  ASSUME NEW d \in Nat \ {0}, NEW x \in Int, NEW y \in Int, NEW q \in Int, x = y + d * q
  PROVE  x % d = y % d
<1> DEFINE r == y % d
           h == y \div d
<1>1. y = d * h + r /\ r \in 0 .. d - 1 /\ h \in Int
  BY Division
<1> HIDE DEF r, h
<1>2. x = d * (h + q) + r /\ h + q \in Int
  BY <1>1
<1>3. x % d = r
  BY <1>1, <1>2, DivisionUnique
<1> QED BY <1>3 DEF r

(* Rests may be taken before or after adding and multiplying.              *)
LEMMA RestOfSum ==
  ASSUME NEW d \in Nat \ {0}, NEW x \in Int, NEW y \in Int
  PROVE  ((x % d) + (y % d)) % d = (x + y) % d
<1> DEFINE r == x % d
           h == x \div d
           s == y % d
           k == y \div d
           q == h + k
<1>1. x = d * h + r /\ r \in Int /\ h \in Int /\ y = d * k + s /\ s \in Int /\ k \in Int
  BY Division
<1> HIDE DEF r, h, s, k
<1>2. x + y = (r + s) + d * q /\ q \in Int /\ x + y \in Int /\ r + s \in Int
  BY <1>1
<1> HIDE DEF q
<1>3. (x + y) % d = (r + s) % d
  BY <1>2, SameRest
<1> QED BY <1>3 DEF r, s

LEMMA RestOfProduct ==
  ASSUME NEW d \in Nat \ {0}, NEW x \in Int, NEW y \in Int
  PROVE  (x * (y % d)) % d = (x * y) % d
<1> DEFINE s == y % d
           k == y \div d
           q == x * k
           m == x * y
           n == x * s
<1>1. y = d * k + s /\ s \in Int /\ k \in Int
  BY Division
<1> HIDE DEF s, k
<1>2. m = n + d * q /\ q \in Int /\ m \in Int /\ n \in Int
  BY <1>1
<1> HIDE DEF q, m, n
<1>3. m % d = n % d
  BY <1>2, SameRest
<1> QED BY <1>3 DEF m, n, s

(* One digit more.                                                         *)
LEMMA NextDigit ==
  ASSUME NEW d \in Nat \ {0}, NEW key \in Nat
  PROVE  key % (d + d) = (key % d) + ((key \div d) % 2) * d
<1> DEFINE q == key \div d
           h == q \div 2
           b == q % 2
           r == key % d
<1>1. key = d * q + r /\ r \in 0 .. d - 1 /\ q \in Nat
  <2>1. key \in Int
    OBVIOUS
  <2> QED BY <2>1, Division
<1>2. q = 2 * h + b /\ b \in 0 .. 1 /\ h \in Nat
  <2> HIDE DEF q
  <2> QED BY <1>1, Division
<1> HIDE DEF q, h, b, r
<1> DEFINE dd == d + d
           rr == b * d + r
<1>3. dd \in Nat \ {0} /\ rr \in 0 .. dd - 1
  BY <1>1, <1>2
<1>4. key = dd * h + rr
  BY <1>1, <1>2
<1> HIDE DEF dd, rr
<1>5. key % dd = rr
  BY <1>2, <1>3, <1>4, DivisionUnique
<1>6. rr = r + b * d
  BY <1>1, <1>2 DEF rr
<1> QED BY <1>5, <1>6 DEF q, b, r, dd

LEMMA DigitsSpell ==
  ASSUME NEW n \in Nat, NEW key \in 0 .. 2 ^ n - 1, NEW p \in [0 .. n -> Int], p[0] = 0,
         \A k \in 0 .. n - 1 : p[k + 1] = p[k] + ((key \div 2 ^ k) % 2) * 2 ^ k
  PROVE  p[n] = key
<1> DEFINE K == {k \in 0 .. n : p[k] = key % 2 ^ k}
<1>0. key \in Nat /\ 2 ^ n \in Nat \ {0}
  BY PowerOfTwo
<1>1. 0 \in K
  <2>1. 2 ^ 0 = 1 /\ key % 1 = 0
    BY <1>0
  <2> QED BY <2>1
<1>2. ASSUME NEW k \in 0 .. n - 1, k \in K
      PROVE  k + 1 \in K
  <2> DEFINE d == 2 ^ k
  <2>1. d \in Nat \ {0} /\ 2 ^ (k + 1) = d + d
    BY PowerOfTwo
  <2>3. p[k + 1] = (key % d) + ((key \div d) % 2) * d
    BY <1>2
  <2>4. k + 1 \in 0 .. n
    OBVIOUS
  <2> HIDE DEF d
  <2>2. key % (d + d) = (key % d) + ((key \div d) % 2) * d
    BY <1>0, <2>1, NextDigit
  <2>5. p[k + 1] = key % 2 ^ (k + 1)
    BY <2>1, <2>2, <2>3
  <2> QED BY <2>4, <2>5
<1>3. n \in K
  <2> HIDE DEF K
  <2>1. \A k \in 0 .. n : k \in K
    BY <1>1, <1>2, UpTo
  <2> QED BY <2>1
<1>4. key % 2 ^ n = key
  <2> DEFINE d == 2 ^ n
  <2>1. d \in Nat \ {0} /\ key \in 0 .. d - 1
    BY <1>0
  <2> HIDE DEF d
  <2>2. key % d = key
    BY <2>1, SmallRest
  <2> QED BY <2>2 DEF d
<1> QED BY <1>3, <1>4
=============================================================================
