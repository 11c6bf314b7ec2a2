----------------------------- MODULE NdaProofs -----------------------------
(***************************************************************************)
(* What the NDA program for images computes, for every group of the        *)
(* assumed kind, every number of tiles, image, key and draw; and that the  *)
(* stream of its own library is a file in memory, for every capacity and   *)
(* every sequence of calls.                                                *)
(***************************************************************************)
EXTENDS Nda, Memstream, AlgebraProofs

LEMMA Sizes ==
  /\ Side \in Nat \ {0} /\ Parts \in Nat \ {0} /\ Parts = Side * Side
  /\ Order \in Nat \ {0} /\ Order \in 1 .. 2 ^ Parts
  /\ Scalar = 0 .. Order - 1 /\ public_g \in Group
<1>1. Side \in Nat \ {0} /\ Parts = Side * Side
  BY PartsAssumption
<1>2. Parts \in Nat \ {0}
  BY <1>1
<1>3. 2 ^ Parts \in Nat
  BY <1>2, PowerOfTwo
<1> QED BY <1>1, <1>2, <1>3, PartsAssumption, DrawAssumption

LEMMA Powers == ASSUME NEW k \in Nat PROVE 2 ^ k \in Nat \ {0}
BY PowerOfTwo

LEMMA RestIsScalar == ASSUME NEW n \in Int PROVE n % Order \in Scalar
BY Sizes, Division

LEMMA ScalarRest == ASSUME NEW n \in Scalar PROVE n % Order = n /\ n \in Int
BY Sizes, SmallRest

-----------------------------------------------------------------------------
(* The numeral of the key: its digits, and that they spell it.             *)
LEMMA BitstringDigits ==
  ASSUME sk \in Scalar
  PROVE  /\ bitstring \in [Part -> Bit]
         /\ \A i \in Part : BitOfPart(bitstring, i) = (sk \div 2 ^ i) % 2
<1>1. ASSUME NEW k \in Nat PROVE (sk \div 2 ^ k) % 2 \in Bit
  <2> DEFINE d == 2 ^ k
  <2>1. d \in Nat \ {0} /\ sk \in Int
    BY Powers, Sizes
  <2> HIDE DEF d
  <2>2. sk \div d \in Int
    BY <2>1, Division
  <2>3. (sk \div d) % 2 \in 0 .. 1
    BY <2>2, Division
  <2> QED BY <2>3 DEF d, Bit
<1>2. ASSUME NEW n \in Part
      PROVE  /\ Parts - 1 - n \in Part /\ Parts - 1 - n \in Nat
             /\ Parts - 1 - (Parts - 1 - n) = n
  BY Sizes DEF Part
<1>3. bitstring \in [Part -> Bit]
  BY <1>1, <1>2 DEF bitstring
<1>4. \A i \in Part : BitOfPart(bitstring, i) = (sk \div 2 ^ i) % 2
  BY <1>2 DEF BitOfPart, bitstring
<1> QED BY <1>3, <1>4

(* The sum of bits that are the digits of the key is the key, from the     *)
(* least digit to the greatest.                                            *)
LEMMA PartsSpell ==
  ASSUME sk \in Scalar, NEW w \in [Part -> Int],
         \A i \in Part : w[i] = ((sk \div 2 ^ i) % 2) * 2 ^ i
  PROVE  SumFunction(w) = sk
<1>1. w \in [0 .. Parts - 1 -> Int]
  BY DEF Part
<1>2. PICK p \in [0 .. Parts -> Int] :
        /\ p[0] = 0 /\ p[Parts] = SumFunction(w)
        /\ \A k \in 0 .. Parts - 1 : p[k + 1] = p[k] + w[k]
  BY <1>1, Sizes, SumUp
<1>3. \A k \in 0 .. Parts - 1 : p[k + 1] = p[k] + ((sk \div 2 ^ k) % 2) * 2 ^ k
  BY <1>2 DEF Part
<1>4. sk \in 0 .. 2 ^ Parts - 1
  BY Sizes, Powers
<1>5. p[Parts] = sk
  BY <1>2, <1>3, <1>4, Sizes, DigitsSpell
<1> QED BY <1>2, <1>5

(* The same number, the digits taken as the numeral is written.            *)
LEMMA SpelledDown ==
  ASSUME NEW bits \in [Part -> Bit]
  PROVE  \E p \in [0 .. Parts -> Int] :
           /\ p[0] = 0 /\ p[Parts] = Spelled(bits)
           /\ \A k \in 0 .. Parts - 1 : p[k + 1] = p[k] + BitOfPart(bits, k) * 2 ^ k
<1> DEFINE w == [n \in Part |-> bits[n] * 2 ^ (Parts - 1 - n)]
<1>1. ASSUME NEW n \in Part
      PROVE  /\ Parts - 1 - n \in Part /\ Parts - 1 - n \in Nat
             /\ Parts - 1 - (Parts - 1 - n) = n
  BY Sizes DEF Part
<1>2. w \in [0 .. Parts - 1 -> Int]
  <2>1. \A n \in Part : bits[n] \in Int /\ 2 ^ (Parts - 1 - n) \in Int
    BY <1>1, Powers DEF Bit
  <2>2. \A n \in Part : bits[n] * 2 ^ (Parts - 1 - n) \in Int
    BY <2>1
  <2> QED BY <2>2 DEF Part
<1>3. SumFunction(w) = Spelled(bits)
  BY DEF Spelled
<1>4. \A k \in 0 .. Parts - 1 : w[Parts - 1 - k] = BitOfPart(bits, k) * 2 ^ k
  BY <1>1 DEF BitOfPart, Part
<1> HIDE DEF w
<1>5. PICK p \in [0 .. Parts -> Int] :
        /\ p[0] = 0 /\ p[Parts] = SumFunction(w)
        /\ \A k \in 0 .. Parts - 1 : p[k + 1] = p[k] + w[Parts - 1 - k]
  BY <1>2, Sizes, SumDown
<1> QED BY <1>3, <1>4, <1>5

LEMMA BitstringSpells == ASSUME sk \in Scalar PROVE Spelled(bitstring) = sk
<1>1. bitstring \in [Part -> Bit]
  BY BitstringDigits
<1>2. PICK p \in [0 .. Parts -> Int] :
        /\ p[0] = 0 /\ p[Parts] = Spelled(bitstring)
        /\ \A k \in 0 .. Parts - 1 : p[k + 1] = p[k] + BitOfPart(bitstring, k) * 2 ^ k
  BY <1>1, SpelledDown
<1>3. \A k \in 0 .. Parts - 1 : p[k + 1] = p[k] + ((sk \div 2 ^ k) % 2) * 2 ^ k
  BY <1>2, BitstringDigits DEF Part
<1>4. sk \in 0 .. 2 ^ Parts - 1
  BY Sizes, Powers
<1>5. p[Parts] = sk
  BY <1>2, <1>3, <1>4, Sizes, DigitsSpell
<1> QED BY <1>2, <1>5

-----------------------------------------------------------------------------
(* The verification of the key.                                            *)

(* Two points of which a power is the same exponent of the other's base.   *)
LEMMA PowerAndMore ==
  ASSUME NEW x \in Group, NEW s \in Int, NEW e \in Scalar, NEW m \in Int
  PROVE  Mul(Pow(x, s % Order), Pow(Pow(x, e), m % Order)) = Pow(x, (s + e * m) % Order)
<1>1. s % Order \in Scalar /\ m % Order \in Scalar /\ (e * (m % Order)) % Order \in Scalar
      /\ e \in Int /\ e * m \in Int /\ m % Order \in Int /\ e * (m % Order) \in Int
  <2>1. \A n \in Scalar : n \in Int
    BY ScalarRest
  <2>2. s % Order \in Scalar /\ m % Order \in Scalar
    BY RestIsScalar
  <2>3. e \in Int /\ m % Order \in Int
    BY <2>1, <2>2
  <2>4. e * m \in Int /\ e * (m % Order) \in Int
    BY <2>3
  <2> QED BY <2>2, <2>3, <2>4, RestIsScalar
<1>2. Pow(Pow(x, e), m % Order) = Pow(x, (e * (m % Order)) % Order)
  BY <1>1, OrderAssumption
<1>3. (e * (m % Order)) % Order = (e * m) % Order
  BY <1>1, Sizes, RestOfProduct
<1>4. Mul(Pow(x, s % Order), Pow(x, (e * m) % Order))
        = Pow(x, ((s % Order) + ((e * m) % Order)) % Order)
  <2> DEFINE i == s % Order
             j == (e * m) % Order
  <2>1. i \in Scalar /\ j \in Scalar
    BY <1>1, RestIsScalar
  <2> HIDE DEF i, j
  <2>2. Mul(Pow(x, i), Pow(x, j)) = Pow(x, (i + j) % Order)
    BY <2>1, OrderAssumption
  <2> QED BY <2>2 DEF i, j
<1>5. ((s % Order) + ((e * m) % Order)) % Order = (s + e * m) % Order
  BY <1>1, Sizes, RestOfSum
<1> QED BY <1>2, <1>3, <1>4, <1>5

(* What the recipient sends for tile i: g to its exponent, times A to its  *)
(* bit.                                                                    *)
LEMMA NewBsIs ==
  ASSUME a \in Scalar, NEW bits \in [Part -> Bit], NEW b \in [Part -> Scalar], NEW i \in Part
  PROVE  /\ A \in Group /\ BitOfPart(bits, i) \in Bit /\ b[i] \in Scalar
         /\ Pow(public_g, b[i]) \in Group /\ NewBs(bits, b)[i] \in Group
         /\ NewBs(bits, b)[i] = Mul(Pow(public_g, b[i]), Pow(A, BitOfPart(bits, i)))
<1>1. A \in Group /\ b[i] \in Scalar /\ Pow(public_g, b[i]) \in Group
  BY GroupClosed, Sizes DEF A
<1>2. BitOfPart(bits, i) \in Bit
  <2>1. Parts - 1 - i \in Part
    BY Sizes DEF Part
  <2> QED BY <2>1 DEF BitOfPart
<1>3. CASE BitOfPart(bits, i) = 0
  <2>1. NewBs(bits, b)[i] = Pow(public_g, b[i])
    BY <1>3 DEF NewBs, BitOfPart
  <2> QED BY <1>1, <1>2, <1>3, <2>1, PowerLaws, GroupLaws
<1>4. CASE BitOfPart(bits, i) = 1
  <2>1. NewBs(bits, b)[i] = Mul(A, Pow(public_g, b[i]))
    BY <1>4 DEF NewBs, BitOfPart
  <2>2. Pow(A, BitOfPart(bits, i)) = A
    BY <1>1, <1>4, PowerLaws
  <2> QED BY <1>1, <1>2, <2>1, <2>2, GroupClosed, GroupLaws
<1> QED BY <1>2, <1>3, <1>4 DEF Bit

(* The sender's product of what it gets is g to the recipient's x, times A *)
(* to the number that the bits spell.                                      *)
LEMMA ProductSpells ==
  ASSUME a \in Scalar, NEW bits \in [Part -> Bit], NEW b \in [Part -> Scalar]
  PROVE  /\ init_x(b) \in Scalar /\ Spelled(bits) \in Int
         /\ product_Bs(NewBs(bits, b))
              = Mul(Pow(public_g, init_x(b)), Pow(A, Spelled(bits) % Order))
<1> DEFINE B == NewBs(bits, b)
           f == [i \in Part |-> Pow(B[i], Weight(i) % Order)]
           u == [i \in Part |-> 2 ^ i * b[i]]
<1>1. ASSUME NEW i \in Part
      PROVE  /\ 2 ^ i \in Int /\ Weight(i) % Order \in Scalar /\ Weight(i) = 2 ^ i
             /\ b[i] \in Int /\ b[i] \in Scalar /\ 2 ^ i * b[i] \in Int
             /\ B[i] \in Group
  <2>1. 2 ^ i \in Int
    BY Powers DEF Part
  <2>2. b[i] \in Int /\ b[i] \in Scalar
    BY ScalarRest
  <2>3. 2 ^ i * b[i] \in Int
    BY <2>1, <2>2
  <2> QED BY <2>1, <2>2, <2>3, RestIsScalar, NewBsIs DEF Weight
<1>2. f \in [0 .. Parts - 1 -> Group] /\ u \in [0 .. Parts - 1 -> Int]
  <2>1. \A i \in Part : f[i] \in Group /\ u[i] \in Int
    BY <1>1, GroupClosed
  <2> QED BY <2>1 DEF Part
<1>3. product_Bs(B) = Product(f) /\ init_x(b) = SumFunction(u) % Order
  BY DEF product_Bs, Product, init_x
<1>4. \A k \in 0 .. Parts - 1 : f[k] = Pow(B[k], 2 ^ k % Order) /\ u[k] = b[k] * 2 ^ k
  BY <1>1 DEF Part
<1> HIDE DEF f, u
<1>5. PICK P \in [0 .. Parts -> Group] :
        /\ P[0] = One /\ P[Parts] = Product(f)
        /\ \A k \in 0 .. Parts - 1 : P[k + 1] = Mul(f[k], P[k])
  BY <1>2, Sizes, ProductUp
<1>6. PICK X \in [0 .. Parts -> Int] :
        /\ X[0] = 0 /\ X[Parts] = SumFunction(u)
        /\ \A k \in 0 .. Parts - 1 : X[k + 1] = X[k] + u[k]
  BY <1>2, Sizes, SumUp
<1>7. PICK T \in [0 .. Parts -> Int] :
        /\ T[0] = 0 /\ T[Parts] = Spelled(bits)
        /\ \A k \in 0 .. Parts - 1 : T[k + 1] = T[k] + BitOfPart(bits, k) * 2 ^ k
  BY SpelledDown
<1> DEFINE K == {k \in 0 .. Parts :
                   P[k] = Mul(Pow(public_g, X[k] % Order), Pow(A, T[k] % Order))}
<1>8. A \in Group
  BY GroupClosed, Sizes DEF A
<1>9. 0 \in K
  <2>1. 0 % Order = 0
    BY Sizes
  <2>2. Mul(Pow(public_g, 0), Pow(A, 0)) = One
    BY <1>8, Sizes, PowerLaws, GroupClosed, GroupLaws
  <2> QED BY <1>5, <1>6, <1>7, <2>1, <2>2, Sizes
<1>10. ASSUME NEW k \in 0 .. Parts - 1, k \in K
       PROVE  k + 1 \in K
  <2> DEFINE m == 2 ^ k
             e == BitOfPart(bits, k)
             G == Pow(public_g, X[k] % Order)
             H == Pow(A, T[k] % Order)
             GG == Pow(Pow(public_g, b[k]), m % Order)
             HH == Pow(Pow(A, e), m % Order)
  <2>1. k \in Part /\ k \in 0 .. Parts /\ k + 1 \in 0 .. Parts
    BY Sizes DEF Part
  <2>2. m \in Int /\ m % Order \in Scalar /\ b[k] \in Scalar
    BY <1>1, <2>1, RestIsScalar
  <2>3. e \in Scalar /\ e \in Int
    <3>1. e \in Bit
      BY <2>1, NewBsIs
    <3> QED BY <3>1, ScalarAssumption DEF Bit
  <2>4. X[k] \in Int /\ T[k] \in Int /\ X[k] % Order \in Scalar /\ T[k] % Order \in Scalar
    BY <2>1, RestIsScalar
  <2>5. Pow(public_g, b[k]) \in Group /\ Pow(A, e) \in Group
    BY <1>8, <2>2, <2>3, Sizes, GroupClosed
  <2>6. f[k] = Mul(GG, HH)
    <3>1. f[k] = Pow(Mul(Pow(public_g, b[k]), Pow(A, e)), m % Order)
      BY <1>4, <2>1, NewBsIs
    <3> QED BY <2>2, <2>5, <3>1, PowerLaws
  <2>7. P[k + 1] = Mul(Mul(GG, HH), Mul(G, H))
    BY <1>5, <1>10, <2>6
  <2>8. G \in Group /\ H \in Group /\ GG \in Group /\ HH \in Group
    BY <1>8, <2>2, <2>4, <2>5, Sizes, GroupClosed
  <2>9. P[k + 1] = Mul(Mul(G, GG), Mul(H, HH))
    <3> HIDE DEF G, H, GG, HH
    <3> QED BY <2>7, <2>8, Regroup
  <2>10. Mul(G, GG) = Pow(public_g, (X[k] + b[k] * m) % Order)
    <3>1. public_g \in Group
      BY Sizes
    <3> HIDE DEF m
    <3> QED BY <2>2, <2>4, <3>1, PowerAndMore
  <2>11. Mul(H, HH) = Pow(A, (T[k] + e * m) % Order)
    BY <1>8, <2>2, <2>3, <2>4, PowerAndMore
  <2>12. X[k + 1] = X[k] + b[k] * m /\ T[k + 1] = T[k] + e * m
    BY <1>4, <1>6, <1>7
  <2> QED BY <2>1, <2>9, <2>10, <2>11, <2>12
<1>11. Parts \in K
  <2> HIDE DEF K
  <2>1. \A k \in 0 .. Parts : k \in K
    BY <1>9, <1>10, Sizes, UpTo
  <2> QED BY <2>1, Sizes
<1>12. Spelled(bits) \in Int /\ SumFunction(u) \in Int
  <2>1. Parts \in 0 .. Parts
    BY Sizes
  <2> QED BY <1>6, <1>7, <2>1
<1> QED BY <1>3, <1>5, <1>6, <1>7, <1>11, <1>12, RestIsScalar

(* Of a point that generates the group no two powers are the same.         *)
LEMMA PowersDiffer ==
  ASSUME NEW x \in Group, Generates(x),
         NEW m \in Scalar, NEW n \in Scalar, Pow(x, m) = Pow(x, n)
  PROVE  m = n
<1> DEFINE f == [k \in Scalar |-> Pow(x, k)]
<1>1. IsFiniteSet(Scalar) /\ Cardinality(Scalar) = Cardinality(Group) /\ IsFiniteSet(Group)
  <2>1. IsFiniteSet(0 .. Order - 1) /\ Cardinality(0 .. Order - 1) = Order
    BY Sizes, FS_Interval
  <2> QED BY <2>1, Sizes, OrderAssumption
<1>2. f \in Surjection(Scalar, Group)
  <2>1. f \in [Scalar -> Group]
    BY GroupClosed
  <2>2. \A y \in Group : \E k \in Scalar : f[k] = y
    BY DEF Generates
  <2> QED BY <2>1, <2>2 DEF Surjection
<1>3. f \in Injection(Scalar, Group)
  <2> HIDE DEF f
  <2> QED BY <1>1, <1>2, FS_SurjSameCardinalityImpliesInj
<1>4. f[m] = f[n] => m = n
  <2> HIDE DEF f
  <2> QED BY <1>3 DEF Injection, IsInjective
<1> QED BY <1>4

LEMMA CancelLeft ==
  ASSUME NEW x \in Group, NEW y \in Group, NEW z \in Group, Mul(x, y) = Mul(x, z)
  PROVE  y = z
<1>1. Mul(Mul(x, y), Inv(x)) = y /\ Mul(Mul(x, z), Inv(x)) = z
  BY Cancel
<1> QED BY <1>1

LEMMA VerificationIs ==
  ASSUME a \in Scalar, sk \in Scalar, NEW bits \in [Part -> Bit], NEW b \in [Part -> Scalar]
  PROVE  VerificationPasses(NewBs(bits, b), b) <=> Pow(A, Spelled(bits) % Order) = Pow(A, sk)
<1> DEFINE Cb == Pow(public_g, init_x(b))
           T == Pow(A, Spelled(bits) % Order)
           S == Pow(A, sk)
<1>1. product_Bs(NewBs(bits, b)) = Mul(Cb, T)
  BY ProductSpells
<1>2. Pow(Pow(public_g, sk), a) = S
  BY Sizes, PowerLaws DEF A
<1>3. A \in Group /\ Spelled(bits) % Order \in Scalar /\ init_x(b) \in Scalar
  BY ProductSpells, RestIsScalar, GroupClosed, Sizes DEF A
<1>4. Cb \in Group /\ T \in Group /\ S \in Group
  BY <1>3, GroupClosed, Sizes
<1>5. VerificationPasses(NewBs(bits, b), b) <=> Mul(Cb, T) = Mul(Cb, S)
  BY <1>1, <1>2 DEF VerificationPasses
<1> HIDE DEF Cb, T, S
<1>6. Mul(Cb, T) = Mul(Cb, S) <=> T = S
  BY <1>4, CancelLeft
<1> QED BY <1>5, <1>6 DEF T, S

LEMMA HonestPasses ==
  ASSUME a \in Scalar, sk \in Scalar, NEW b \in [Part -> Scalar]
  PROVE  VerificationPasses(NewBs(bitstring, b), b)
<1>1. bitstring \in [Part -> Bit] /\ Spelled(bitstring) = sk /\ sk % Order = sk
  BY BitstringDigits, BitstringSpells, ScalarRest
<1> QED BY <1>1, VerificationIs

(* If A generates the group, no other bits than those that spell the key   *)
(* pass.                                                                   *)
LEMMA OnlyTheKeyPasses ==
  ASSUME a \in Scalar, sk \in Scalar, Generates(A),
         NEW bits \in [Part -> Bit], NEW b \in [Part -> Scalar]
  PROVE  VerificationPasses(NewBs(bits, b), b) <=> Spelled(bits) % Order = sk
<1> DEFINE t == Spelled(bits) % Order
<1>1. A \in Group /\ t \in Scalar
  BY ProductSpells, RestIsScalar, GroupClosed, Sizes DEF A
<1>2. VerificationPasses(NewBs(bits, b), b) <=> Pow(A, t) = Pow(A, sk)
  BY VerificationIs
<1> HIDE DEF t
<1>3. Pow(A, t) = Pow(A, sk) <=> t = sk
  BY <1>1, PowersDiffer
<1> QED BY <1>2, <1>3 DEF t

-----------------------------------------------------------------------------
(* The transfer of a tile.                                                 *)

(* The key of either version: with C the recipient's power of A, and AA    *)
(* A's power of the sender, it is C for the chosen version, and C and AA   *)
(* apart for the other.                                                    *)
LEMMA TransferKeys ==
  ASSUME a \in Scalar, NEW bits \in [Part -> Bit], NEW b \in [Part -> Scalar], NEW i \in Part
  PROVE  LET bit == BitOfPart(bits, i)
             B == NewBs(bits, b)[i]
             AA == Pow(A, a)
         IN /\ TransferKey(B, bit) = Pow(A, b[i])
            /\ bit = 0 => Mul(TransferKey(B, 1), AA) = Pow(A, b[i])
            /\ bit = 1 => TransferKey(B, 0) = Mul(Pow(A, b[i]), AA)
            /\ TransferKey(B, 1 - bit) \in Group
<1> DEFINE bit == BitOfPart(bits, i)
           B == NewBs(bits, b)[i]
           AA == Pow(A, a)
           g == Pow(public_g, b[i])
           X == Mul(g, Inv(A))
<1>1. /\ A \in Group /\ bit \in Bit /\ b[i] \in Scalar /\ g \in Group /\ B \in Group
      /\ B = Mul(g, Pow(A, bit))
  BY NewBsIs
<1>2. Pow(g, a) = Pow(A, b[i])
  BY <1>1, Sizes, PowerLaws DEF A
<1>3. AA \in Group /\ Inv(A) \in Group /\ X \in Group /\ Mul(B, Inv(A)) \in Group
      /\ Pow(A, b[i]) \in Group
  BY <1>1, GroupClosed
<1>4. \A j : TransferKey(B, j) \in Group
  BY <1>1, <1>3, GroupClosed DEF TransferKey
<1>5. CASE bit = 0
  <2>1. B = g
    BY <1>1, <1>5, PowerLaws, GroupLaws
  <2>2. TransferKey(B, 0) = Pow(A, b[i])
    BY <1>2, <2>1 DEF TransferKey
  <2>3. TransferKey(B, 1) = Pow(X, a)
    BY <2>1 DEF TransferKey
  <2>4. Mul(X, A) = g
    <3>1. Mul(X, A) = Mul(g, Mul(Inv(A), A)) /\ Mul(Inv(A), A) = Mul(A, Inv(A))
      BY <1>1, <1>3, GroupLaws
    <3> QED BY <1>1, <3>1, GroupLaws
  <2>5. Mul(Pow(X, a), AA) = Pow(A, b[i])
    BY <1>1, <1>2, <1>3, <2>4, PowerLaws
  <2> QED BY <1>4, <1>5, <2>2, <2>3, <2>5
<1>6. CASE bit = 1
  <2>1. B = Mul(g, A)
    BY <1>1, <1>6, PowerLaws
  <2>2. Mul(B, Inv(A)) = g
    BY <1>1, <2>1, Cancel
  <2>3. TransferKey(B, 1) = Pow(A, b[i])
    BY <1>2, <2>2 DEF TransferKey
  <2>4. TransferKey(B, 0) = Mul(Pow(A, b[i]), AA)
    BY <1>1, <1>2, <2>1, PowerLaws DEF TransferKey
  <2> QED BY <1>4, <1>6, <2>3, <2>4
<1> QED BY <1>1, <1>5, <1>6 DEF Bit

(* The other version's key is a power of A that lies a away from the       *)
(* recipient's own.                                                        *)
LEMMA OtherKeyApart ==
  ASSUME a \in Scalar, Generates(A), NEW bits \in [Part -> Bit],
         NEW b \in [Part -> Scalar], NEW i \in Part, NEW k \in Part,
         TransferKey(NewBs(bits, b)[i], 1 - BitOfPart(bits, i)) = Pow(A, b[k])
  PROVE  b[k] \in {(b[i] + a) % Order, (b[i] - a) % Order}
<1>1. /\ A \in Group /\ BitOfPart(bits, i) \in Bit /\ b[i] \in Scalar /\ b[k] \in Scalar
  BY NewBsIs
<1>2. a \in Int /\ b[i] \in Int /\ b[k] \in Int /\ b[k] % Order = b[k]
  BY <1>1, ScalarRest
<1>3. \A m \in Scalar, n \in Scalar : Mul(Pow(A, m), Pow(A, n)) = Pow(A, (m + n) % Order)
  BY <1>1, OrderAssumption
<1>4. CASE BitOfPart(bits, i) = 0
  <2> DEFINE t == (b[k] + a) % Order
  <2>1. Mul(Pow(A, b[k]), Pow(A, a)) = Pow(A, b[i])
    BY <1>4, TransferKeys
  <2>2. Pow(A, t) = Pow(A, b[i]) /\ t \in Scalar
    BY <1>1, <1>2, <1>3, <2>1, RestIsScalar
  <2>3. t = b[i]
    <3> HIDE DEF t
    <3> QED BY <1>1, <2>2, PowersDiffer
  <2> DEFINE y == b[k] + a
             z == - a
  <2>4. y \in Int /\ z \in Int /\ y + z = b[k]
    BY <1>2
  <2>5. z % Order \in Int /\ b[i] - a \in Int
    <3>1. b[i] - a \in Int
      BY <1>2
    <3> HIDE DEF z
    <3>2. z % Order \in Scalar
      BY <2>4, RestIsScalar
    <3> QED BY <3>1, <3>2, ScalarRest
  <2>6. ((y % Order) + (z % Order)) % Order = (y + z) % Order
    <3> HIDE DEF y, z
    <3> QED BY <2>4, Sizes, RestOfSum
  <2>7. ((b[i] % Order) + (z % Order)) % Order = (b[i] + z) % Order
    <3> HIDE DEF z
    <3> QED BY <1>2, <2>4, Sizes, RestOfSum
  <2>8. b[i] % Order = b[i] /\ b[i] + z = b[i] - a
    BY <1>1, <1>2, ScalarRest
  <2>9. (b[i] - a) % Order = b[k]
    <3> HIDE DEF z
    <3> QED BY <1>2, <2>3, <2>4, <2>6, <2>7, <2>8
  <2> QED BY <2>9
<1>5. CASE BitOfPart(bits, i) = 1
  <2> DEFINE t == (b[i] + a) % Order
  <2>1. Mul(Pow(A, b[i]), Pow(A, a)) = Pow(A, b[k])
    BY <1>5, TransferKeys
  <2>2. Pow(A, t) = Pow(A, b[k]) /\ t \in Scalar
    BY <1>1, <1>2, <1>3, <2>1, RestIsScalar
  <2>3. t = b[k]
    <3> HIDE DEF t
    <3> QED BY <1>1, <2>2, PowersDiffer
  <2> QED BY <2>3
<1> QED BY <1>1, <1>4, <1>5 DEF Bit

-----------------------------------------------------------------------------
(* Cutting and joining, by coordinates.                                    *)

LEMMA DivisionBelow ==
  ASSUME NEW d \in Nat \ {0}, NEW m \in Nat, NEW k \in 0 .. d * m - 1
  PROVE  k \div d \in 0 .. m - 1 /\ k % d \in 0 .. d - 1 /\ k = d * (k \div d) + (k % d)
<1> DEFINE q == k \div d
           r == k % d
<1>1. k \in Nat
  OBVIOUS
<1>2. k = d * q + r /\ r \in 0 .. d - 1 /\ q \in Nat
  <2>1. k \in Int
    BY <1>1
  <2> QED BY <1>1, <2>1, Division
<1> HIDE DEF q, r
<1>3. q < m
  <2> SUFFICES ASSUME q >= m PROVE FALSE
    BY <1>2
  <2>1. PICK e \in Nat : q = m + e
    BY <1>2
  <2>2. d * q = d * m + d * e /\ d * e >= 0
    BY <2>1
  <2> QED BY <1>2, <2>2
<1> QED BY <1>2, <1>3 DEF q, r

LEMMA Within ==
  ASSUME NEW d \in Nat \ {0}, NEW m \in Nat, NEW q \in 0 .. m - 1, NEW r \in 0 .. d - 1
  PROVE  d * q + r \in 0 .. d * m - 1
<1>1. PICK e \in Nat : m = q + 1 + e
  <2>1. m - q - 1 \in Nat /\ m = q + 1 + (m - q - 1)
    OBVIOUS
  <2> QED BY <2>1
<1>2. d * m = d * q + d + d * e /\ d * e >= 0 /\ d * q >= 0 /\ d * q \in Int /\ d * m \in Int
  BY <1>1
<1> QED BY <1>2

(* Where pixel p of tile i goes in a picture of Side tiles of width w and  *)
(* height h in each row and column.                                        *)
PlaceOf(w, h, i, p) ==
  (w * Side) * h * (i \div Side) + w * (i % Side) + (p % w) + (p \div w) * (w * Side)

(* The tile that the place (x, y) of the whole picture belongs to, and the *)
(* place in it.                                                            *)
TileAt(w, h, x, y) == Side * (y \div h) + x \div w
PixelAt(w, h, x, y) == (y % h) * w + (x % w)

LEMMA TileAtIs ==
  ASSUME NEW w \in Nat \ {0}, NEW h \in Nat \ {0}, NEW i \in Part,
         NEW x \in 0 .. w * Side - 1, NEW y \in 0 .. h * Side - 1
  PROVE  /\ TileAt(w, h, x, y) \in Part
         /\ TileAt(w, h, x, y) = i <=> y \div h = i \div Side /\ x \div w = i % Side
         /\ PixelAt(w, h, x, y) \in 0 .. w * h - 1
         /\ y \div h \in Nat /\ x \div w \in Nat
<1>1. Side \in Nat \ {0}
  BY Sizes
<1>2. /\ y \div h \in 0 .. Side - 1 /\ y % h \in 0 .. h - 1
      /\ x \div w \in 0 .. Side - 1 /\ x % w \in 0 .. w - 1
  BY <1>1, DivisionBelow
<1>3. /\ i \div Side \in 0 .. Side - 1 /\ i % Side \in 0 .. Side - 1
      /\ i = Side * (i \div Side) + (i % Side)
  <2>1. i \in 0 .. Side * Side - 1
    BY Sizes DEF Part
  <2> QED BY <1>1, <2>1, DivisionBelow
<1> DEFINE tx == x \div w
           ty == y \div h
           px == x % w
           py == y % h
           iy == i \div Side
           ix == i % Side
<1> HIDE DEF tx, ty, px, py, iy, ix
<1>4. tx \in 0 .. Side - 1 /\ ty \in 0 .. Side - 1 /\ px \in 0 .. w - 1 /\ py \in 0 .. h - 1
      /\ ix \in 0 .. Side - 1 /\ iy \in 0 .. Side - 1 /\ i = Side * iy + ix
  BY <1>2, <1>3 DEF tx, ty, px, py, iy, ix
<1>5. Side * ty + tx \in 0 .. Side * Side - 1
  BY <1>1, <1>4, Within
<1>6. w * py + px \in 0 .. w * h - 1
  BY <1>4, Within
<1>7. Side * ty + tx = i <=> ty = iy /\ tx = ix
  <2>1. (Side * ty + tx) \div Side = ty /\ (Side * ty + tx) % Side = tx
    BY <1>1, <1>4, DivisionUnique
  <2>2. (Side * iy + ix) \div Side = iy /\ (Side * iy + ix) % Side = ix
    BY <1>1, <1>4, DivisionUnique
  <2> QED BY <1>4, <2>1, <2>2
<1>8. py * w = w * py
  BY <1>4
<1>9. TileAt(w, h, x, y) = Side * ty + tx /\ PixelAt(w, h, x, y) = w * py + px
  BY <1>8 DEF TileAt, PixelAt, tx, ty, px, py
<1>10. Side * ty + tx \in Part
  BY <1>5, Sizes DEF Part
<1> QED BY <1>4, <1>6, <1>7, <1>9, <1>10 DEF tx, ty, iy, ix

(* A pixel of a tile goes to the one place that it was cut from.           *)
LEMMA PlaceOfIs ==
  ASSUME NEW w \in Nat \ {0}, NEW h \in Nat \ {0}, NEW i \in Part, NEW p \in 0 .. w * h - 1,
         NEW x \in 0 .. w * Side - 1, NEW y \in 0 .. h * Side - 1
  PROVE  PlaceOf(w, h, i, p) = y * (w * Side) + x
           <=> TileAt(w, h, x, y) = i /\ p = PixelAt(w, h, x, y)
<1> DEFINE W == w * Side
           px == p % w
           py == p \div w
           iy == i \div Side
           ix == i % Side
           X == w * ix + px
           Y == h * iy + py
<1>1. Side \in Nat \ {0} /\ W \in Nat \ {0}
  BY Sizes
<1>2. py \in 0 .. h - 1 /\ px \in 0 .. w - 1 /\ p = w * py + px
  BY DivisionBelow
<1>3. iy \in 0 .. Side - 1 /\ ix \in 0 .. Side - 1 /\ i = Side * iy + ix
  <2>1. i \in 0 .. Side * Side - 1
    BY Sizes DEF Part
  <2> QED BY <1>1, <2>1, DivisionBelow
<1>4. PlaceOf(w, h, i, p) = W * h * iy + w * ix + px + py * W
  BY DEF PlaceOf
<1> HIDE DEF px, py, ix, iy
<1>5. X \in 0 .. W - 1 /\ Y \in 0 .. h * Side - 1
  BY <1>1, <1>2, <1>3, Within
<1>6. W * h * iy + w * ix + px + py * W = W * Y + X
  <2>1. W * Y = W * (h * iy) + W * py /\ W * h * iy = W * (h * iy) /\ py * W = W * py
        /\ W * (h * iy) \in Int /\ W * py \in Int /\ w * ix \in Int
    <3> DEFINE hi == h * iy
    <3>1. hi \in Int /\ py \in Int /\ iy \in Int /\ W \in Int /\ ix \in Int
      BY <1>1, <1>2, <1>3
    <3> HIDE DEF W
    <3>2. W * h * iy = W * hi
      BY <3>1
    <3> HIDE DEF hi
    <3>3. W * (hi + py) = W * hi + W * py /\ W * hi \in Int /\ W * py \in Int /\ py * W = W * py
      BY <3>1
    <3>4. w * ix \in Int
      BY <3>1
    <3> QED BY <3>2, <3>3, <3>4 DEF hi
  <2> HIDE DEF W, Y
  <2> QED BY <1>2, <2>1
<1>7. W * Y + X = y * W + x <=> Y = y /\ X = x
  <2>1. W * y + x = y * W + x
    BY <1>1
  <2> HIDE DEF W, X, Y
  <2>2. Y \in Int /\ y \in Int /\ x \in 0 .. W - 1
    BY <1>5 DEF W
  <2>3. (W * Y + X) \div W = Y /\ (W * Y + X) % W = X
    BY <1>1, <1>5, <2>2, DivisionUnique
  <2>4. (W * y + x) \div W = y /\ (W * y + x) % W = x
    BY <1>1, <2>2, DivisionUnique
  <2> QED BY <2>1, <2>3, <2>4
<1>8. Y = y <=> y \div h = iy /\ y % h = py
  <2>1. (h * iy + py) \div h = iy /\ (h * iy + py) % h = py
    <3>1. iy \in Int /\ py \in 0 .. h - 1
      BY <1>2, <1>3
    <3> QED BY <3>1, DivisionUnique
  <2>2. y = h * (y \div h) + (y % h)
    BY <1>1, DivisionBelow
  <2> QED BY <2>1, <2>2
<1>9. X = x <=> x \div w = ix /\ x % w = px
  <2>1. (w * ix + px) \div w = ix /\ (w * ix + px) % w = px
    <3>1. ix \in Int /\ px \in 0 .. w - 1
      BY <1>2, <1>3
    <3> QED BY <3>1, DivisionUnique
  <2>2. x = w * (x \div w) + (x % w)
    BY <1>1, DivisionBelow
  <2> QED BY <2>1, <2>2
<1>10. p = PixelAt(w, h, x, y) <=> y % h = py /\ x % w = px
  <2> DEFINE xx == x % w
             yy == y % h
  <2>1. xx \in 0 .. w - 1 /\ yy \in 0 .. h - 1
    BY <1>1, DivisionBelow
  <2>2. PixelAt(w, h, x, y) = yy * w + xx
    BY DEF PixelAt
  <2> HIDE DEF xx, yy
  <2>3. yy * w + xx = w * yy + xx
    BY <2>1
  <2>4. (w * yy + xx) \div w = yy /\ (w * yy + xx) % w = xx
    <3>1. yy \in Int
      BY <2>1
    <3> QED BY <2>1, <3>1, DivisionUnique
  <2>5. (w * py + px) \div w = py /\ (w * py + px) % w = px
    BY <1>2, DivisionUnique
  <2>6. p = w * yy + xx <=> yy = py /\ xx = px
    BY <1>2, <2>4, <2>5
  <2> QED BY <2>2, <2>3, <2>6 DEF xx, yy
<1>11. TileAt(w, h, x, y) = i <=> y \div h = iy /\ x \div w = ix
  BY TileAtIs DEF ix, iy
<1> HIDE DEF X, Y, W
<1>12. PlaceOf(w, h, i, p) = y * W + x <=> Y = y /\ X = x
  BY <1>4, <1>6, <1>7
<1> QED BY <1>8, <1>9, <1>10, <1>11, <1>12 DEF W, X, Y

-----------------------------------------------------------------------------
(* The invariant: what every stage of main leaves to the next ones.        *)

Width == input.width \div Side
Height == input.height \div Side

MarkedTile(i, j) == Mark(Tile(input, Side, Side, i), j)
ChosenTile(i) == MarkedTile(i, BitOfPart(bitstring, i))

(* The pixel of the joined image at (x, y).                                *)
PixelOf(x, y) ==
  [from |-> input.content[y * input.width + x],
   wm |-> (sk \div 2 ^ TileAt(Width, Height, x, y)) % 2]

(* The first n tiles are in their places.                                  *)
Joined(c, n) ==
  LET W == Width * Side
      H == Height * Side
  IN /\ c = Picture(W, H, c.content)
     /\ DOMAIN c.content = Places(W, H)
     /\ \A y \in 0 .. H - 1, x \in 0 .. W - 1 :
          TileAt(Width, Height, x, y) < n => c.content[y * W + x] = PixelOf(x, y)

Uncommitted == {"start", "marked", "offered"}

IInv ==
  /\ stage \in {"start", "marked", "offered", "committed", "transfer",
                "join", "joined", "detected"}
  /\ part \in 0 .. Parts /\ sk \in Scalar /\ input \in Image
  /\ stage # "start" =>
       message = [i \in Part |-> [j \in Bit |-> MarkedTile(i, j)]]
  /\ IF stage \in {"start", "marked"} THEN a = Null ELSE a \in Scalar
  /\ IF stage \in Uncommitted THEN b_arr = Null /\ B_arr = Null
     ELSE b_arr \in [Part -> Scalar] /\ B_arr = NewBs(bitstring, b_arr)
  /\ stage \in Uncommitted \cup {"committed"} => part = 0
  /\ result = [i \in Part |-> result[i]]
  /\ stage = "transfer" => \A i \in Part : i < part => result[i] = ChosenTile(i)
  /\ stage \in {"join", "joined", "detected"} => rec_out = [i \in Part |-> ChosenTile(i)]
  /\ stage = "join" /\ part > 0 => Joined(canvas, part)
  /\ complete = Null \/ Joined(complete, Parts)
  /\ errorcount = IF stage = "detected" THEN 0 ELSE Null

LEMMA TileSizes ==
  ASSUME input \in Image
  PROVE  /\ Width \in Nat \ {0} /\ Height \in Nat \ {0}
         /\ input.width \in Nat /\ input.height \in Nat
         /\ Width * Side <= input.width /\ Height * Side <= input.height
         /\ Width * Side \in Nat \ {0} /\ Height * Side \in Nat \ {0}
<1>1. ASSUME NEW n \in Nat, n >= Side
      PROVE  /\ n \div Side \in Nat \ {0} /\ (n \div Side) * Side <= n
             /\ (n \div Side) * Side \in Nat \ {0}
  <2> DEFINE q == n \div Side
             r == n % Side
  <2>1. Side \in Nat \ {0}
    BY Sizes
  <2>2. n = Side * q + r /\ r \in 0 .. Side - 1 /\ q \in Nat
    <3>1. n \in Int
      OBVIOUS
    <3> QED BY <2>1, <3>1, Division
  <2> HIDE DEF q, r
  <2>3. q # 0
    BY <1>1, <2>1, <2>2
  <2>4. q * Side = Side * q /\ Side * q <= n
    BY <2>1, <2>2
  <2>5. q * Side \in Nat \ {0}
    BY <2>1, <2>2, <2>3
  <2> QED BY <2>2, <2>3, <2>4, <2>5 DEF q
<1>2. /\ input.width \in Nat /\ input.width >= Side
      /\ input.height \in Nat /\ input.height >= Side
  BY ImageAssumption
<1>3. /\ Width \in Nat \ {0} /\ Width * Side <= input.width /\ Width * Side \in Nat \ {0}
  BY <1>1, <1>2 DEF Width
<1>4. /\ Height \in Nat \ {0} /\ Height * Side <= input.height
      /\ Height * Side \in Nat \ {0}
  BY <1>1, <1>2 DEF Height
<1> QED BY <1>2, <1>3, <1>4

(* Pixel p of a marked tile, and the whole of it.                          *)
CutFrom(i, p) ==
  input.width * Height * (i \div Side) + Width * (i % Side)
    + (p % Width) + input.width * (p \div Width)

LEMMA MarkedTileIs ==
  ASSUME NEW i \in Part, NEW j
  PROVE  MarkedTile(i, j) =
           Picture(Width, Height,
                   [p \in Places(Width, Height) |->
                      [from |-> input.content[CutFrom(i, p)], wm |-> j]])
<1> DEFINE S == Places(Width, Height)
           cut == [p \in S |-> input.content[CutFrom(i, p)]]
           marked == [p \in S |-> [from |-> input.content[CutFrom(i, p)], wm |-> j]]
<1>1. Tile(input, Side, Side, i) = Picture(Width, Height, cut)
  BY Zenon DEF Tile, CutFrom, Width, Height
<1>2. DOMAIN cut = S /\ \A p \in S : cut[p] = input.content[CutFrom(i, p)]
  OBVIOUS
<1> HIDE DEF cut, S
<1>3. [p \in DOMAIN cut |-> [from |-> cut[p], wm |-> j]] = marked
  BY <1>2
<1>4. Mark(Picture(Width, Height, cut), j) =
        Picture(Width, Height, [p \in DOMAIN cut |-> [from |-> cut[p], wm |-> j]])
  BY DEF Mark, Picture
<1> QED BY <1>1, <1>3, <1>4 DEF MarkedTile, S

LEMMA CutFromIs ==
  ASSUME input \in Image, NEW i \in Part,
         NEW y \in 0 .. Height * Side - 1, NEW x \in 0 .. Width * Side - 1,
         TileAt(Width, Height, x, y) = i
  PROVE  /\ PixelAt(Width, Height, x, y) \in Places(Width, Height)
         /\ CutFrom(i, PixelAt(Width, Height, x, y)) = y * input.width + x
<1> DEFINE W == input.width
           w == Width
           h == Height
           p == PixelAt(w, h, x, y)
           iy == i \div Side
           ix == i % Side
           px == x % w
           py == y % h
<1>1. w \in Nat \ {0} /\ h \in Nat \ {0} /\ W \in Nat
  BY TileSizes
<1>2. p \in 0 .. w * h - 1 /\ y \div h = iy /\ x \div w = ix
      /\ y \div h \in Nat /\ x \div w \in Nat
  BY <1>1, TileAtIs
<1>3. y = h * iy + py /\ x = w * ix + px /\ px \in 0 .. w - 1 /\ py \in 0 .. h - 1
  <2>1. y = h * (y \div h) + (y % h) /\ y % h \in 0 .. h - 1
    BY <1>1, Sizes, DivisionBelow
  <2>2. x = w * (x \div w) + (x % w) /\ x % w \in 0 .. w - 1
    BY <1>1, Sizes, DivisionBelow
  <2> QED BY <1>2, <2>1, <2>2
<1>4. iy \in Nat /\ ix \in Nat
  BY <1>2
<1>5. CutFrom(i, p) = W * h * iy + w * ix + (p % w) + W * (p \div w)
  BY DEF CutFrom
<1>6. p = py * w + px
  BY DEF PixelAt
<1>7. Places(w, h) = 0 .. w * h - 1
  BY DEF Places
<1> HIDE DEF p, iy, ix, px, py, W, w, h
<1>8. p = w * py + px
  BY <1>1, <1>3, <1>6
<1>9. p \div w = py /\ p % w = px
  <2>1. py \in Int
    BY <1>3
  <2> QED BY <1>1, <1>3, <1>8, <2>1, DivisionUnique
<1>10. W * h * iy + w * ix + px + W * py = y * W + x
  <2> DEFINE hi == h * iy
             wi == w * ix
  <2>1. hi \in Int /\ wi \in Int /\ py \in Int /\ px \in Int /\ W \in Int
    BY <1>1, <1>3, <1>4
  <2>2. W * h * iy = W * hi
    BY <1>1, <1>4
  <2>3. y = hi + py /\ x = wi + px
    BY <1>3
  <2> HIDE DEF hi, wi
  <2>4. (hi + py) * W = W * hi + W * py /\ W * hi \in Int /\ W * py \in Int
    BY <2>1
  <2> QED BY <2>1, <2>2, <2>3, <2>4 DEF wi
<1> QED BY <1>2, <1>5, <1>7, <1>9, <1>10 DEF p, W, w, h

(* A tile comes out of the file as it was marked: it is read in full, and  *)
(* its mark is detected.                                                   *)
LEMMA ChosenTileIs ==
  ASSUME input \in Image, sk \in Scalar, NEW i \in Part
  PROVE  /\ ChosenTile(i) = MarkedTile(i, (sk \div 2 ^ i) % 2)
         /\ (sk \div 2 ^ i) % 2 \in Bit
         /\ ChosenTile(i) # Null
         /\ ReadTile(ChosenTile(i)) = ChosenTile(i)
         /\ Detected(ChosenTile(i)) = BitOfPart(bitstring, i)
<1> DEFINE bit == (sk \div 2 ^ i) % 2
           T == ChosenTile(i)
<1>1. BitOfPart(bitstring, i) = bit /\ bit \in Bit
  <2>1. Parts - 1 - i \in Part
    BY Sizes DEF Part
  <2> QED BY <2>1, BitstringDigits DEF BitOfPart
<1>2. T = MarkedTile(i, bit)
  BY <1>1 DEF ChosenTile
<1>3. T # Null
  BY <1>1, <1>2, NullAssumption DEF MarkedTile
<1> HIDE DEF bit
<1>4. T = Picture(Width, Height, [p \in Places(Width, Height) |->
                                    [from |-> input.content[CutFrom(i, p)], wm |-> bit]])
  BY <1>2, MarkedTileIs
<1> HIDE DEF T
<1>5. ReadTile(T) = T
  <2> DEFINE content == [p \in Places(Width, Height) |->
                           [from |-> input.content[CutFrom(i, p)], wm |-> bit]]
  <2>1. T = Picture(Width, Height, content)
    BY <1>4
  <2>2. /\ DOMAIN content = Places(Width, Height)
        /\ content = [p \in Places(Width, Height) |-> content[p]]
    OBVIOUS
  <2> HIDE DEF content
  <2>3. T = [width |-> Width, height |-> Height, content |-> content]
    BY <2>1 DEF Picture
  <2>4. T.width = Width /\ T.height = Height /\ T.content = content
    BY <2>3
  <2>5. [p \in Places(T.width, T.height) |->
           IF p \in DOMAIN T.content THEN T.content[p] ELSE Noise] = content
    BY <2>2, <2>4
  <2>6. ReadTile(T) = [T EXCEPT !.content = content]
    BY <2>5, Zenon DEF ReadTile
  <2> QED BY <2>3, <2>6
<1>6. 0 \in Places(Width, Height)
  <2>1. Width * Height \in Nat \ {0}
    BY TileSizes
  <2> QED BY <2>1 DEF Places
<1>7. DOMAIN T.content = Places(Width, Height)
      /\ \A p \in Places(Width, Height) : T.content[p].wm = bit
  BY <1>4 DEF Picture
<1>8. Detected(T) = bit
  <2>1. CASE bit = 1
    BY <1>3, <1>7, <2>1 DEF Detected
  <2>2. CASE bit = 0
    <3>1. ~ \A p \in DOMAIN T.content : T.content[p].wm = 1
      BY <1>6, <1>7, <2>2
    <3> QED BY <2>2, <3>1 DEF Detected
  <2> QED BY <1>1, <2>1, <2>2 DEF Bit
<1> QED BY <1>1, <1>2, <1>3, <1>5, <1>8 DEF bit, T

LEMMA DumpedIs ==
  ASSUME input \in Image, sk \in Scalar,
         message = [i \in Part |-> [j \in Bit |-> MarkedTile(i, j)]], NEW i \in Part
  PROVE  Dumped(ChosenTile(i)) = ChosenTile(i)
<1>1. Parts - 1 \in Part /\ 1 \in Bit
  BY Sizes DEF Part, Bit
<1>2. message[Parts - 1][1] = MarkedTile(Parts - 1, 1)
  BY <1>1
<1>3. message_len = Width * Height
  BY <1>1, <1>2, MarkedTileIs DEF message_len, Picture
<1>4. ChosenTile(i) # Null
  BY ChosenTileIs
<1>5. PICK c : ChosenTile(i) = Picture(Width, Height, [p \in Places(Width, Height) |-> c[p]])
  <2> DEFINE bit == (sk \div 2 ^ i) % 2
             c == [p \in Places(Width, Height) |->
                     [from |-> input.content[CutFrom(i, p)], wm |-> bit]]
  <2>1. ChosenTile(i) = Picture(Width, Height, c)
    BY ChosenTileIs, MarkedTileIs
  <2>2. c = [p \in Places(Width, Height) |-> c[p]]
    OBVIOUS
  <2> QED BY <2>1, <2>2
<1> DEFINE S == Places(Width, Height)
           T == ChosenTile(i)
<1>6. 0 .. message_len - 1 = S
  BY <1>3 DEF Places
<1> HIDE DEF S, T
<1>7. Dumped(T) = [T EXCEPT !.content = [p \in S |-> @[p]]]
  BY <1>4, <1>6 DEF Dumped, T
<1>8. T = Picture(Width, Height, [p \in S |-> c[p]])
  BY <1>5 DEF S, T
<1>9. [T EXCEPT !.content = [p \in S |-> @[p]]] = T
  BY <1>8 DEF Picture
<1> QED BY <1>7, <1>9 DEF T

-----------------------------------------------------------------------------
(* join_file puts the next tile in its place and leaves the others.        *)
LEMMA PasteIs ==
  ASSUME input \in Image, sk \in Scalar, NEW i \in Part, NEW new,
         new = Picture(Width * Side, Height * Side, new.content),
         DOMAIN new.content = Places(Width * Side, Height * Side)
  PROVE  LET c == Paste(new, ChosenTile(i), i, Side)
             W == Width * Side
             H == Height * Side
         IN /\ c = Picture(W, H, c.content) /\ DOMAIN c.content = Places(W, H)
            /\ \A y \in 0 .. H - 1, x \in 0 .. W - 1 :
                 c.content[y * W + x] =
                   IF TileAt(Width, Height, x, y) = i THEN PixelOf(x, y)
                   ELSE new.content[y * W + x]
<1> DEFINE w == Width
           h == Height
           W == w * Side
           H == h * Side
           file == ChosenTile(i)
           bit == (sk \div 2 ^ i) % 2
           place == [p \in Places(w, h) |-> PlaceOf(w, h, i, p)]
           content == [q \in Places(W, H) |->
                         IF \E p \in Places(w, h) : place[p] = q
                           THEN file.content[CHOOSE p \in Places(w, h) : place[p] = q]
                           ELSE new.content[q]]
<1>1. /\ w \in Nat \ {0} /\ h \in Nat \ {0} /\ W \in Nat \ {0} /\ H \in Nat \ {0}
  BY TileSizes
<1>2. file = Picture(w, h, [p \in Places(w, h) |->
                              [from |-> input.content[CutFrom(i, p)], wm |-> bit]])
  BY ChosenTileIs, MarkedTileIs
<1>3. ReadTile(file) = file
  BY ChosenTileIs
<1>4. file.width = w /\ file.height = h /\ DOMAIN file.content = Places(w, h)
      /\ new.width = W
  BY <1>2 DEF Picture
<1>5. Paste(new, file, i, Side) = Picture(W, H, content)
  <2> HIDE DEF file, w, h
  <2>1. [p \in DOMAIN file.content |->
           UpperLeft(new, file, i, Side) + (p % file.width) + (p \div file.width) * new.width]
          = place
    BY <1>4 DEF UpperLeft, PlaceOf
  <2> HIDE DEF place
  <2>2. DOMAIN place = Places(w, h)
    BY DEF place
  <2>3. new = Picture(W, H, new.content) /\ DOMAIN new.content = Places(W, H)
    BY DEF w, h
  <2> HIDE DEF W, H
  <2>4. Paste(new, file, i, Side) =
          [new EXCEPT !.content =
             [q \in DOMAIN @ |->
                IF \E p \in DOMAIN place : place[p] = q
                  THEN file.content[CHOOSE p \in DOMAIN place : place[p] = q]
                  ELSE @[q]]]
    BY <1>3, <2>1 DEF Paste
  <2> QED BY <2>2, <2>3, <2>4 DEF Picture
<1>6. ASSUME NEW y \in 0 .. H - 1, NEW x \in 0 .. W - 1
      PROVE  content[y * W + x] =
               IF TileAt(w, h, x, y) = i THEN PixelOf(x, y) ELSE new.content[y * W + x]
  <2> DEFINE q == y * W + x
             at == PixelAt(w, h, x, y)
  <2>1. q \in Places(W, H)
    <3>1. W * y + x \in 0 .. W * H - 1
      <4> HIDE DEF W, H
      <4> QED BY <1>1, Within
    <3>2. W * y + x = q
      BY <1>1
    <3> QED BY <3>1, <3>2 DEF Places
  <2>2. \A p \in Places(w, h) : place[p] = q <=> TileAt(w, h, x, y) = i /\ p = at
    <3> SUFFICES ASSUME NEW p \in Places(w, h)
                 PROVE  PlaceOf(w, h, i, p) = q <=> TileAt(w, h, x, y) = i /\ p = at
      OBVIOUS
    <3>1. p \in 0 .. w * h - 1
      BY DEF Places
    <3> HIDE DEF w, h
    <3> QED BY <1>1, <3>1, PlaceOfIs
  <2>3. at \in Places(w, h)
    <3>1. at \in 0 .. w * h - 1
      BY <1>1, TileAtIs
    <3> QED BY <3>1 DEF Places
  <2>4. content[q] = IF \E p \in Places(w, h) : place[p] = q
                       THEN file.content[CHOOSE p \in Places(w, h) : place[p] = q]
                       ELSE new.content[q]
    BY <2>1
  <2> HIDE DEF place, content, q, at
  <2>5. CASE TileAt(w, h, x, y) # i
    BY <2>2, <2>4, <2>5 DEF q
  <2>6. CASE TileAt(w, h, x, y) = i
    <3>1. (CHOOSE p \in Places(w, h) : place[p] = q) = at
      BY <2>2, <2>3, <2>6
    <3>2. content[q] = file.content[at]
      BY <2>2, <2>3, <2>4, <2>6, <3>1
    <3>3. file.content[at] = [from |-> input.content[CutFrom(i, at)], wm |-> bit]
      BY <1>2, <2>3 DEF Picture
    <3>4. CutFrom(i, at) = y * input.width + x
      BY <2>6, CutFromIs DEF at
    <3>5. PixelOf(x, y) = [from |-> input.content[y * input.width + x], wm |-> bit]
      BY <2>6 DEF PixelOf
    <3> QED BY <2>6, <3>2, <3>3, <3>4, <3>5 DEF q
  <2> QED BY <2>5, <2>6
<1>7. DOMAIN content = Places(W, H)
  OBVIOUS
<1> HIDE DEF content
<1>8. Picture(W, H, content).content = content
  BY DEF Picture
<1> QED BY <1>5, <1>6, <1>7, <1>8

(* The last pixel of every tile is in its place when all tiles are.        *)
LEMMA PasteJoins ==
  ASSUME input \in Image, sk \in Scalar, NEW n \in Part, NEW new,
         IF n = 0 THEN new = Canvas(ChosenTile(0), Side) ELSE Joined(new, n)
  PROVE  Joined(Paste(new, ChosenTile(n), n, Side), n + 1)
<1> DEFINE W == Width * Side
           H == Height * Side
           c == Paste(new, ChosenTile(n), n, Side)
           T(x, y) == TileAt(Width, Height, x, y)
<1>1. new = Picture(W, H, new.content) /\ DOMAIN new.content = Places(W, H)
  <2>1. CASE n = 0
    <3>1. ChosenTile(0).width = Width /\ ChosenTile(0).height = Height
      BY <2>1, ChosenTileIs, MarkedTileIs DEF Picture
    <3>2. new = Picture(W, H, [q \in Places(W, H) |-> Noise])
      BY <2>1, <3>1 DEF Canvas
    <3> HIDE DEF W, H
    <3> QED BY <3>2 DEF Picture
  <2>2. CASE n # 0
    BY <2>2 DEF Joined
  <2> QED BY <2>1, <2>2
<1>2. /\ c = Picture(W, H, c.content) /\ DOMAIN c.content = Places(W, H)
      /\ \A y \in 0 .. H - 1, x \in 0 .. W - 1 :
           c.content[y * W + x] =
             IF T(x, y) = n THEN PixelOf(x, y) ELSE new.content[y * W + x]
  BY <1>1, PasteIs
<1>3. ASSUME NEW y \in 0 .. H - 1, NEW x \in 0 .. W - 1, T(x, y) < n
      PROVE  new.content[y * W + x] = PixelOf(x, y)
  <2>1. T(x, y) \in Part
    BY TileSizes, TileAtIs
  <2>2. n # 0
    BY <1>3, <2>1 DEF Part
  <2> QED BY <1>3, <2>2 DEF Joined
<1>4. ASSUME NEW y \in 0 .. H - 1, NEW x \in 0 .. W - 1, T(x, y) < n + 1
      PROVE  c.content[y * W + x] = PixelOf(x, y)
  <2>1. T(x, y) \in Part
    BY TileSizes, TileAtIs
  <2>2. T(x, y) = n \/ T(x, y) < n
    BY <1>4, <2>1 DEF Part
  <2>3. c.content[y * W + x] =
          IF T(x, y) = n THEN PixelOf(x, y) ELSE new.content[y * W + x]
    BY <1>2
  <2> QED BY <1>3, <2>1, <2>2, <2>3 DEF Part
<1> HIDE DEF c
<1>5. Joined(c, n + 1)
  BY <1>2, <1>4 DEF Joined
<1> QED BY <1>5 DEF c

(* Every tile is received in the version that was chosen.                  *)
LEMMA TransferredIs ==
  ASSUME sk \in Scalar, a \in Scalar, b_arr \in [Part -> Scalar],
         B_arr = NewBs(bitstring, b_arr), NEW i \in Part,
         message = [k \in Part |-> [j \in Bit |-> MarkedTile(k, j)]]
  PROVE  Transferred(i) = ChosenTile(i)
<1>1. bitstring \in [Part -> Bit] /\ BitOfPart(bitstring, i) \in Bit
  BY BitstringDigits, NewBsIs
<1>2. TransferKey(B_arr[i], BitOfPart(bitstring, i)) = RecipientKey(i)
  BY <1>1, TransferKeys DEF RecipientKey
<1> QED BY <1>1, <1>2 DEF Transferred, ChosenTile

(* Detection finds no wrong bit.                                           *)
LEMMA NothingWrong ==
  ASSUME input \in Image, sk \in Scalar, rec_out = [i \in Part |-> ChosenTile(i)]
  PROVE  Cardinality({i \in Part : Detected(rec_out[i]) # BitOfPart(bitstring, i)}) = 0
<1>1. {i \in Part : Detected(rec_out[i]) # BitOfPart(bitstring, i)} = {}
  BY ChosenTileIs
<1> QED BY <1>1, FS_EmptySet

-----------------------------------------------------------------------------
LEMMA Kept ==
  ASSUME UNCHANGED <<input, sk>>
  PROVE  /\ bitstring' = bitstring
         /\ \A i \in Part, j \in Bit : MarkedTile(i, j)' = MarkedTile(i, j)
         /\ \A i \in Part : ChosenTile(i)' = ChosenTile(i)
         /\ complete' = complete => (Joined(complete, Parts)' <=> Joined(complete, Parts))
<1>1. bitstring' = bitstring
  BY DEF bitstring
<1>2. \A i \in Part, j \in Bit : MarkedTile(i, j)' = MarkedTile(i, j)
  BY DEF MarkedTile
<1>3. \A i \in Part : ChosenTile(i)' = ChosenTile(i)
  BY <1>1 DEF MarkedTile, ChosenTile, BitOfPart
<1>4. complete' = complete => (Joined(complete, Parts)' <=> Joined(complete, Parts))
  BY DEF Joined, PixelOf, Width, Height
<1> QED BY <1>1, <1>2, <1>3, <1>4

LEMMA InvariantInit == Init => IInv
BY Sizes DEF Init, IInv, Uncommitted, Part

LEMMA InvariantStep == IInv /\ [Next]_vars => IInv'
<1> SUFFICES ASSUME IInv, [Next]_vars PROVE IInv'
  OBVIOUS
<1>0. /\ part \in 0 .. Parts /\ part \in Nat /\ Parts \in Nat \ {0}
      /\ sk \in Scalar /\ input \in Image
  BY Sizes DEF IInv
<1>1. CASE watermark
  <2>1. UNCHANGED <<input, sk, complete>>
    BY <1>1 DEF watermark, files
  <2>2. message' = [i \in Part |-> [j \in Bit |-> MarkedTile(i, j)']]
    BY <1>1, <2>1, Kept DEF watermark, MarkedTile
  <2> QED BY <1>1, <2>1, <2>2, Kept DEF IInv, watermark, Uncommitted, recipient, files
<1>2. CASE initA
  <2>1. UNCHANGED <<input, sk, complete>>
    BY <1>2 DEF initA, files
  <2>2. a' \in Scalar
    BY <1>2, DrawAssumption DEF initA
  <2>3. message' = [i \in Part |-> [j \in Bit |-> MarkedTile(i, j)']]
    BY <1>2, <2>1, Kept DEF initA, IInv
  <2> QED BY <1>2, <2>1, <2>2, <2>3, Kept DEF IInv, initA, Uncommitted, recipient, files
<1>3. CASE initB_arr
  <2>1. UNCHANGED <<input, sk, complete, a>>
    BY <1>3 DEF initB_arr, files, sender
  <2>2. b_arr' \in [Part -> Scalar] /\ B_arr' = NewBs(bitstring, b_arr)'
    BY <1>3, <2>1, Kept, DrawAssumption DEF initB_arr, NewBs, A, Part
  <2>3. message' = [i \in Part |-> [j \in Bit |-> MarkedTile(i, j)']]
    BY <1>3, <2>1, Kept DEF initB_arr, IInv, sender
  <2> QED BY <1>3, <2>1, <2>2, <2>3, Kept DEF IInv, initB_arr, Uncommitted, sender, files
<1>c. ASSUME stage \notin Uncommitted, UNCHANGED <<input, sk, sender, b_arr, B_arr>>
      PROVE  /\ message' = [i \in Part |-> [j \in Bit |-> MarkedTile(i, j)']]
             /\ b_arr' \in [Part -> Scalar] /\ B_arr' = NewBs(bitstring, b_arr)'
             /\ a' \in Scalar
  BY <1>c, Kept DEF IInv, sender, NewBs, A, Uncommitted
<1>r. ASSUME stage \in {"join", "joined"}, UNCHANGED <<input, sk, rec_out>>
      PROVE  rec_out' = [i \in Part |-> ChosenTile(i)']
  BY <1>r, Kept DEF IInv
<1>4. CASE Verification
  <2>1. UNCHANGED <<input, sk, complete, sender, b_arr, B_arr>> /\ stage \notin Uncommitted
    BY <1>4 DEF Verification, files, sender, recipient, Uncommitted
  <2>2. stage' = "transfer" /\ part' = 0
    <3>1. VerificationPasses(B_arr, b_arr)
      BY <1>0, <2>1, HonestPasses DEF IInv, Uncommitted
    <3> QED BY <1>4, <3>1 DEF Verification, IInv
  <2>3. \A i \in Part : ~ (i < part')
    BY <2>2 DEF Part
  <2> QED BY <1>4, <1>c, <2>1, <2>2, <2>3, Kept
          DEF IInv, Verification, Uncommitted, recipient, files
<1>5. CASE ot
  <2>1. UNCHANGED <<input, sk, complete, sender, b_arr, B_arr, stage>>
        /\ stage = "transfer" /\ stage \notin Uncommitted
    BY <1>5 DEF ot, files, sender, Uncommitted
  <2>2. part \in Part /\ part' = part + 1 /\ part' \in 0 .. Parts
    BY <1>0, <1>5 DEF ot, Part
  <2>3. Transferred(part) = ChosenTile(part)
    BY <1>0, <2>1, <2>2, TransferredIs DEF IInv, Uncommitted
  <2>4. result' = [i \in Part |-> IF i = part THEN ChosenTile(part) ELSE result[i]]
    BY <1>5, <2>2, <2>3 DEF ot, IInv
  <2>5. \A i \in Part : i < part' => result'[i] = ChosenTile(i)'
    <3> SUFFICES ASSUME NEW i \in Part, i < part + 1 PROVE result'[i] = ChosenTile(i)
      BY <2>1, <2>2, Kept
    <3>1. i = part \/ i < part
      BY <1>0 DEF Part
    <3> QED BY <2>1, <2>4, <3>1 DEF IInv
  <2>6. result' = [i \in Part |-> result'[i]]
    BY <2>4
  <2> QED BY <1>5, <1>c, <2>1, <2>2, <2>5, <2>6, Kept DEF IInv, ot, Uncommitted, files
<1>6. CASE finish
  <2>1. UNCHANGED <<input, sk, complete, sender, b_arr, B_arr>> /\ stage \notin Uncommitted
    BY <1>6 DEF finish, sender, recipient, Uncommitted
  <2>2. rec_out' = [i \in Part |-> ChosenTile(i)']
    <3>1. ASSUME NEW i \in Part PROVE Dumped(result[i]) = ChosenTile(i)
      <4>1. result[i] = ChosenTile(i)
        BY <1>0, <1>6 DEF finish, IInv, Part
      <4>2. message = [k \in Part |-> [j \in Bit |-> MarkedTile(k, j)]]
        BY <1>6 DEF finish, IInv
      <4> QED BY <1>0, <4>1, <4>2, DumpedIs
    <3> QED BY <1>6, <2>1, <3>1, Kept DEF finish
  <2> QED BY <1>0, <1>6, <1>c, <2>1, <2>2, Kept DEF IInv, finish, Uncommitted, recipient
<1>7. CASE join_file
  <2>1. UNCHANGED <<input, sk, complete, sender, b_arr, B_arr, rec_out, stage>>
        /\ stage = "join" /\ stage \notin Uncommitted
    BY <1>7 DEF join_file, sender, recipient, Uncommitted
  <2>2. part \in Part /\ part' = part + 1 /\ part' \in 0 .. Parts
    BY <1>0, <1>7 DEF join_file, Part
  <2>3. rec_out[part] = ChosenTile(part) /\ rec_out[0] = ChosenTile(0)
    <3>1. 0 \in Part
      BY Sizes DEF Part
    <3> QED BY <2>1, <2>2, <3>1 DEF IInv
  <2> DEFINE new == IF part = 0 THEN Canvas(rec_out[0], Side) ELSE canvas
  <2>4. canvas' = Paste(new, ChosenTile(part), part, Side)
    BY <1>7, <2>3 DEF join_file
  <2>5. IF part = 0 THEN new = Canvas(ChosenTile(0), Side) ELSE Joined(new, part)
    BY <1>0, <2>1, <2>3 DEF IInv
  <2> HIDE DEF new
  <2>6. Joined(Paste(new, ChosenTile(part), part, Side), part + 1)
    BY <1>0, <2>2, <2>5, PasteJoins
  <2>7. Joined(canvas, part)'
    BY <2>1, <2>2, <2>4, <2>6 DEF Joined, PixelOf, Width, Height
  <2> QED BY <1>7, <1>c, <1>r, <2>1, <2>2, <2>7, Kept DEF IInv, join_file, Uncommitted, recipient
<1>8. CASE join_stops
  <2>1. UNCHANGED <<input, sk, complete, sender, b_arr, B_arr, rec_out>>
        /\ stage = "join" /\ stage \notin Uncommitted
    BY <1>8 DEF join_stops, sender, recipient, files, Uncommitted
  <2> QED BY <1>8, <1>c, <1>r, <2>1, Kept DEF IInv, join_stops, Uncommitted, recipient
<1>9. CASE join_end
  <2>1. UNCHANGED <<input, sk, sender, b_arr, B_arr, rec_out>>
        /\ stage = "join" /\ stage \notin Uncommitted
    BY <1>9 DEF join_end, sender, recipient, Uncommitted
  <2>2. Joined(canvas, Parts) /\ complete' = canvas
    BY <1>0, <1>9 DEF join_end, IInv
  <2>3. Joined(complete, Parts)'
    BY <2>1, <2>2 DEF Joined, PixelOf, Width, Height
  <2> QED BY <1>9, <1>c, <1>r, <2>1, <2>3, Kept DEF IInv, join_end, Uncommitted, recipient
<1>10. CASE detect_wm
  <2>1. UNCHANGED <<input, sk, complete, sender, b_arr, B_arr, rec_out>>
        /\ stage = "joined" /\ stage \notin Uncommitted
    BY <1>10 DEF detect_wm, sender, recipient, files, Uncommitted
  <2>2. errorcount' = 0
    BY <1>0, <1>10, <2>1, NothingWrong DEF detect_wm, IInv
  <2> QED BY <1>10, <1>c, <1>r, <2>1, <2>2, Kept DEF IInv, detect_wm, Uncommitted, recipient
<1>11. CASE UNCHANGED vars
  <2>1. UNCHANGED <<input, sk, complete, stage, part, message, a, b_arr, B_arr, result,
                    rec_out, canvas, errorcount>>
    BY <1>11 DEF vars, sender, recipient, files
  <2>2. Joined(canvas, part)' <=> Joined(canvas, part)
    BY <2>1 DEF Joined, PixelOf, Width, Height
  <2>3. NewBs(bitstring, b_arr)' = NewBs(bitstring, b_arr)
    BY <2>1, Kept DEF NewBs, A
  <2>4. [i \in Part |-> [j \in Bit |-> MarkedTile(i, j)']]
          = [i \in Part |-> [j \in Bit |-> MarkedTile(i, j)]]
    BY <2>1, Kept
  <2> QED BY <2>1, <2>2, <2>3, <2>4, Kept DEF IInv
<1> QED BY <1>1, <1>2, <1>3, <1>4, <1>5, <1>6, <1>7, <1>8, <1>9, <1>10, <1>11 DEF Next

LEMMA Invariant == Spec => []IInv
BY InvariantInit, InvariantStep, PTL DEF Spec

-----------------------------------------------------------------------------
LEMMA PixelTyped ==
  ASSUME IInv, complete # Null, NEW q \in DOMAIN complete.content
  PROVE  complete.content[q] \in [from : {input.content[p] : p \in DOMAIN input.content},
                                  wm : Bit]
<1> DEFINE W == Width * Side
           H == Height * Side
           y == q \div W
           x == q % W
<1>1. /\ W \in Nat \ {0} /\ H \in Nat \ {0} /\ W <= input.width /\ H <= input.height
      /\ input.width \in Nat /\ input.height \in Nat
      /\ Width \in Nat \ {0} /\ Height \in Nat \ {0}
  BY TileSizes DEF IInv
<1>2. Joined(complete, Parts) /\ sk \in Scalar
  BY DEF IInv
<1>3. q \in 0 .. W * H - 1
  BY <1>2 DEF Joined, Places
<1>4. y \in 0 .. H - 1 /\ x \in 0 .. W - 1 /\ q = W * y + x
  <2> HIDE DEF W, H
  <2> QED BY <1>1, <1>3, DivisionBelow
<1>5. TileAt(Width, Height, x, y) \in Part
  <2>1. 0 \in Part
    BY Sizes DEF Part
  <2> HIDE DEF x, y
  <2> QED BY <1>1, <1>4, <2>1, TileAtIs
<1>6. TileAt(Width, Height, x, y) < Parts
  BY <1>5, Sizes DEF Part
<1> HIDE DEF x, y
<1>7. q = y * W + x
  <2> HIDE DEF W
  <2> QED BY <1>1, <1>4
<1>8. complete.content[q] = PixelOf(x, y)
  BY <1>2, <1>4, <1>6, <1>7 DEF Joined
<1>9. (sk \div 2 ^ TileAt(Width, Height, x, y)) % 2 \in Bit
  BY <1>2, <1>5, ChosenTileIs DEF IInv
<1>10. y * input.width + x \in DOMAIN input.content
  <2>1. y \in 0 .. input.height - 1 /\ x \in 0 .. input.width - 1
        /\ input.width \in Nat \ {0}
    <3> HIDE DEF W, H
    <3> QED BY <1>1, <1>4
  <2>2. input.width * y + x \in 0 .. input.width * input.height - 1
    BY <1>1, <2>1, Within
  <2>3. input.width * y = y * input.width
    BY <1>1, <2>1
  <2> QED BY <2>2, <2>3, ImageAssumption DEF IInv, Places
<1> QED BY <1>8, <1>9, <1>10 DEF PixelOf

(* Type correctness; the joined image has pixels of the input only, each   *)
(* with one mark.                                                          *)
THEOREM TypeCorrect == Spec => []TypeOK
<1>1. ASSUME IInv PROVE TypeOK
  <2>1. B_arr \in [Part -> Group] \cup {Null}
    <3>1. CASE stage \in Uncommitted
      BY <1>1, <3>1 DEF IInv
    <3>2. CASE stage \notin Uncommitted
      <4>1. \A i \in Part : NewBs(bitstring, b_arr)[i] \in Group
        BY <1>1, <3>2, BitstringDigits, NewBsIs DEF IInv, Uncommitted
      <4>2. B_arr = [i \in Part |-> NewBs(bitstring, b_arr)[i]]
        BY <1>1, <3>2 DEF IInv, NewBs
      <4> QED BY <4>1, <4>2
    <3> QED BY <3>1, <3>2
  <2>2. 0 \in 0 .. Parts
    BY Sizes
  <2> QED BY <1>1, <2>1, <2>2, PixelTyped DEF IInv, TypeOK
<1> QED BY <1>1, Invariant, PTL

(* An honest recipient passes the verification, whatever it draws, and     *)
(* bits that spell another number than the signing key modulo the order do *)
(* not pass in its place (NDA.cc lines 193-258, Recipient.h 103-167,       *)
(* Sender.h 106-118).                                                      *)
THEOREM VerificationChecksKey == Spec => []VerificationMeansKey
<1>1. ASSUME IInv PROVE VerificationMeansKey
  <2>1. stage # "exited"
    BY <1>1 DEF IInv
  <2>2. ASSUME stage = "committed", Generates(A), NEW bits \in [Part -> Bit]
        PROVE  VerificationPasses(NewBs(bits, b_arr), b_arr) <=> Spelled(bits) % Order = sk
    BY <1>1, <2>2, OnlyTheKeyPasses DEF IInv, Uncommitted
  <2> QED BY <2>1, <2>2 DEF VerificationMeansKey
<1> QED BY <1>1, Invariant, PTL

(* The key of a version that was not chosen is no key of the recipient's,  *)
(* unless two of its exponents lie the sender's apart (Sender.h lines      *)
(* 40-42, Recipient.h 37-49).                                              *)
THEOREM OtherVersionsSealed == Spec => []OtherVersionSealed
<1>1. ASSUME IInv PROVE OtherVersionSealed
  <2> SUFFICES ASSUME stage = "transfer", Generates(A), NEW i \in Part, NEW k \in Part,
                      TransferKey(B_arr[i], 1 - BitOfPart(bitstring, i)) = RecipientKey(k)
               PROVE  b_arr[k] \in {(b_arr[i] + a) % Order, (b_arr[i] - a) % Order}
    BY DEF OtherVersionSealed
  <2>1. a \in Scalar /\ b_arr \in [Part -> Scalar] /\ B_arr = NewBs(bitstring, b_arr)
        /\ sk \in Scalar
    BY <1>1 DEF IInv, Uncommitted
  <2>2. bitstring \in [Part -> Bit]
    BY <2>1, BitstringDigits
  <2>3. TransferKey(NewBs(bitstring, b_arr)[i], 1 - BitOfPart(bitstring, i)) = Pow(A, b_arr[k])
    BY <2>1 DEF RecipientKey
  <2> QED BY <2>1, <2>2, <2>3, OtherKeyApart
<1> QED BY <1>1, Invariant, PTL

(* The marks of the received tiles spell the recipient's key, and none is  *)
(* detected wrongly (NDA.cc lines 44-95 and 280-297).                      *)
THEOREM WatermarkIsKey == Spec => []WatermarkSpellsKey
<1>1. ASSUME IInv PROVE WatermarkSpellsKey
  <2> SUFFICES ASSUME stage = "detected"
               PROVE  errorcount = 0 /\
                      SumFunction([i \in Part |-> Detected(rec_out[i]) * 2 ^ i]) = sk
    BY DEF WatermarkSpellsKey
  <2> DEFINE w == [i \in Part |-> Detected(rec_out[i]) * 2 ^ i]
  <2>1. errorcount = 0 /\ sk \in Scalar /\ input \in Image
        /\ rec_out = [i \in Part |-> ChosenTile(i)]
    BY <1>1 DEF IInv
  <2>2. \A i \in Part : w[i] = ((sk \div 2 ^ i) % 2) * 2 ^ i
    BY <2>1, ChosenTileIs, BitstringDigits
  <2>3. w \in [Part -> Int]
    <3>1. \A i \in Part : Detected(rec_out[i]) \in Int /\ 2 ^ i \in Int
      BY <2>1, ChosenTileIs, BitstringDigits, Powers DEF Part, Bit, Detected
    <3>2. \A i \in Part : Detected(rec_out[i]) * 2 ^ i \in Int
      BY <3>1
    <3> QED BY <3>2
  <2> HIDE DEF w
  <2>4. SumFunction(w) = sk
    BY <2>1, <2>2, <2>3, PartsSpell
  <2> QED BY <2>1, <2>4 DEF w
<1> QED BY <1>1, Invariant, PTL

(* The joined image is the image that went in, less what the grid leaves   *)
(* over, each pixel with the mark of its bit of the key (split_pgm.cc      *)
(* lines 94-112, join_pgm.cc lines 53-134).                                *)
THEOREM ImageIsKey == Spec => []ImageSpellsKey
<1>1. ASSUME IInv PROVE ImageSpellsKey
  <2> SUFFICES ASSUME complete # Null
               PROVE  /\ complete.width = Width * Side /\ complete.height = Height * Side
                      /\ \A y \in 0 .. Height * Side - 1, x \in 0 .. Width * Side - 1 :
                           complete.content[y * complete.width + x] = PixelOf(x, y)
    BY DEF ImageSpellsKey, PixelOf, TileAt, Width, Height
  <2>1. Joined(complete, Parts) /\ input \in Image
    BY <1>1 DEF IInv
  <2>2. complete.width = Width * Side /\ complete.height = Height * Side
    BY <2>1 DEF Joined, Picture
  <2>3. ASSUME NEW y \in 0 .. Height * Side - 1, NEW x \in 0 .. Width * Side - 1
        PROVE  TileAt(Width, Height, x, y) < Parts
    <3>1. 0 \in Part
      BY Sizes DEF Part
    <3>2. TileAt(Width, Height, x, y) \in Part
      BY <2>1, <3>1, TileSizes, TileAtIs
    <3> QED BY <3>2, Sizes DEF Part
  <2> QED BY <2>1, <2>2, <2>3 DEF Joined
<1> QED BY <1>1, Invariant, PTL

-----------------------------------------------------------------------------
(* The stream (Memstream), which is part of the program's library.         *)

(* The buffer is clear behind the data as long as the stream is open, so   *)
(* that moving the position past the end shows zeros.                      *)
ClearBehind ==
  contents # NoBuffer /\ open => \A i \in size .. capacity - 1 : contents[i] = 0

StreamIInv ==
  /\ StreamTypeOK
  /\ position <= size
  /\ NullByteAtEnd
  /\ Published
  /\ ClearBehind

LEMMA CapacitiesNat == \A c \in Capacities : c \in Nat
BY MemstreamAssumption

LEMMA FirstCapacity == InitialCapacity \in Capacities
<1>1. 0 \in 0 .. Doublings
  BY MemstreamAssumption
<1>3. InitialCapacity * 2 ^ 0 \in Capacities
  BY <1>1, Zenon DEF Capacities
<1>2. 2 ^ 0 = 1
  OBVIOUS
<1> QED
  BY <1>3, <1>2, MemstreamAssumption

(* What Room hands out has the bytes of the buffer, zeros behind them, and *)
(* room for the byte asked for.                                            *)
LEMMA RoomKeeps ==
  ASSUME StreamTypeOK, contents # NoBuffer, NEW m \in Nat, NEW b \in Room(m)
  PROVE  /\ b.capacity \in Capacities /\ b.capacity >= capacity /\ b.capacity > m
         /\ b.contents \in [Bytes(b.capacity) -> Byte]
         /\ \A i \in Bytes(capacity) : b.contents[i] = contents[i]
         /\ \A i \in capacity .. b.capacity - 1 : b.contents[i] = 0
         /\ b.block \in Nat /\ b.ptr \in 0 .. b.block
         /\ ptr = block => b.ptr = b.block
<1>1. capacity \in Nat /\ contents \in [Bytes(capacity) -> Byte]
  BY CapacitiesNat DEF StreamTypeOK
<1>2. CASE m < capacity
  <2>1. b = Buffer(capacity, contents, block, ptr)
    BY <1>2 DEF Room
  <2> QED
    BY <2>1, <1>1, <1>2 DEF Buffer, StreamTypeOK, Bytes
<1>3. CASE ~ (m < capacity)
  <2>1. PICK c \in NewCapacity(m) : b = Buffer(c, Extended(c), block + 1, block + 1)
    BY <1>3 DEF Room, memstream_grow
  <2>2. c \in Capacities /\ c \in Nat /\ c > capacity /\ c > m
    BY CapacitiesNat DEF NewCapacity
  <2>3. Extended(c) \in [Bytes(c) -> Byte]
    BY <1>1, <2>2, MemstreamAssumption DEF Extended, Bytes
  <2>4. \A i \in Bytes(capacity) : Extended(c)[i] = contents[i]
    BY <1>1, <2>2 DEF Extended, Bytes
  <2>5. \A i \in capacity .. c - 1 : Extended(c)[i] = 0
    BY <1>1, <2>2 DEF Extended, Bytes
  <2>6. b.capacity = c /\ b.contents = Extended(c) /\ b.block = block + 1 /\ b.ptr = block + 1
    BY <2>1 DEF Buffer
  <2>7. block + 1 \in Nat /\ block + 1 \in 0 .. block + 1
    BY DEF StreamTypeOK
  <2> QED
    BY <1>1, <2>2, <2>3, <2>4, <2>5, <2>6, <2>7
<1> QED
  BY <1>2, <1>3

LEMMA NothingRead == NoBytes \in ByteStrings
<1>1. 0 \in 0 .. MaxCount /\ NoBytes \in [Bytes(0) -> Byte]
  BY MemstreamAssumption DEF NoBytes, Bytes
<1> QED BY <1>1 DEF ByteStrings

LEMMA StreamInitGood == StreamInit => StreamIInv
<1> SUFFICES ASSUME StreamInit PROVE StreamIInv
  OBVIOUS
<1>1. capacity \in Capacities /\ capacity \in Nat \ {0}
  BY FirstCapacity, MemstreamAssumption DEF StreamInit
<1>2. contents \in [Bytes(capacity) -> Byte] /\ \A i \in Bytes(capacity) : contents[i] = 0
  BY MemstreamAssumption DEF StreamInit
<1> QED
  BY <1>1, <1>2, NothingRead
     DEF StreamInit, StreamIInv, StreamTypeOK, NullByteAtEnd, Published, ClearBehind, Bytes

(* The mutable part of a write, whose bytes replace those at the position. *)
LEMMA WriteKeeps ==
  ASSUME StreamIInv, NEW n \in 1 .. MaxCount, NEW buf \in [Bytes(n) -> Byte],
         memstream_write(n, buf)
  PROVE  StreamIInv'
<1>n. n \in Nat /\ n > 0
  BY MemstreamAssumption
<1>1. /\ position \in Nat /\ size \in Nat /\ capacity \in Nat /\ sizeloc \in Nat
      /\ n \in Nat /\ n > 0 /\ contents # NoBuffer /\ open = TRUE
      /\ contents \in [Bytes(capacity) -> Byte]
  BY <1>n, CapacitiesNat DEF StreamIInv, StreamTypeOK, memstream_write, Usable
<1>2. PICK b \in Room(position + n) :
        /\ contents' = [i \in Bytes(b.capacity) |->
                          IF i \in position .. position + n - 1
                            THEN buf[i - position] ELSE b.contents[i]]
        /\ capacity' = b.capacity /\ block' = b.block /\ ptr' = b.ptr
  BY DEF memstream_write
<1>3. /\ b.capacity \in Capacities /\ b.capacity >= capacity /\ b.capacity > position + n
      /\ b.contents \in [Bytes(b.capacity) -> Byte]
      /\ \A i \in Bytes(capacity) : b.contents[i] = contents[i]
      /\ \A i \in capacity .. b.capacity - 1 : b.contents[i] = 0
      /\ b.block \in Nat /\ b.ptr \in 0 .. b.block
      /\ ptr = block => b.ptr = b.block
  <2>1. position + n \in Nat
    BY <1>1
  <2> QED
    BY <1>1, <2>1, RoomKeeps DEF StreamIInv
<1>4. b.capacity \in Nat
  BY <1>3, CapacitiesNat
<1>5. contents' \in [Bytes(capacity') -> Byte] /\ contents' # NoBuffer
  <2>1. contents' \in [Bytes(capacity') -> Byte]
    BY <1>1, <1>2, <1>3, <1>4 DEF Bytes
  <2> QED
    BY <2>1, <1>2, <1>3, MemstreamAssumption DEF Bytes
<1>6. /\ position' = position + n /\ size' = (IF size < position + n THEN position + n ELSE size)
      /\ sizeloc' = (IF size < position + n THEN position + n ELSE sizeloc)
      /\ open' = open /\ got' = NoBytes
  BY DEF memstream_write, Larger
<1>7. position <= size /\ size < capacity /\ sizeloc = size /\ ptr = block
  BY <1>1 DEF StreamIInv, NullByteAtEnd, Published
<1>8. \A i \in size' .. capacity' - 1 : contents'[i] = 0
  <2> SUFFICES ASSUME NEW i \in size' .. capacity' - 1 PROVE contents'[i] = 0
    OBVIOUS
  <2>1. i \in Bytes(b.capacity) /\ i >= size /\ i >= position + n
    BY <1>1, <1>2, <1>3, <1>4, <1>6, <1>7 DEF Bytes
  <2>2. contents'[i] = b.contents[i]
    BY <2>1, <1>1, <1>2
  <2>3. CASE i < capacity
    BY <2>1, <2>2, <2>3, <1>1, <1>3 DEF StreamIInv, ClearBehind, Bytes
  <2>4. CASE ~ (i < capacity)
    BY <2>1, <2>2, <2>4, <1>1, <1>3, <1>4 DEF Bytes
  <2> QED
    BY <2>3, <2>4
<1>9. size' < capacity' /\ contents'[size'] = 0
  <2>1. size' < capacity'
    BY <1>1, <1>2, <1>3, <1>4, <1>6, <1>7
  <2> QED
    BY <2>1, <1>1, <1>2, <1>4, <1>6, <1>8
<1> QED
  BY <1>1, <1>2, <1>3, <1>4, <1>5, <1>6, <1>7, <1>8, <1>9, NothingRead
     DEF StreamIInv, StreamTypeOK, NullByteAtEnd, Published, ClearBehind

LEMMA SeekKeeps ==
  ASSUME StreamIInv, NEW pos \in 0 .. MaxPosition, memstream_seek(pos)
  PROVE  StreamIInv'
<1>1. /\ position \in Nat /\ size \in Nat /\ capacity \in Nat /\ sizeloc \in Nat
      /\ pos \in Nat /\ contents # NoBuffer /\ open = TRUE
      /\ contents \in [Bytes(capacity) -> Byte]
  BY CapacitiesNat, MemstreamAssumption DEF StreamIInv, StreamTypeOK, memstream_seek, Usable
<1>2. PICK b \in Room(pos) :
        /\ contents' = b.contents
        /\ capacity' = b.capacity /\ block' = b.block /\ ptr' = b.ptr
  BY DEF memstream_seek
<1>3. /\ b.capacity \in Capacities /\ b.capacity >= capacity /\ b.capacity > pos
      /\ b.contents \in [Bytes(b.capacity) -> Byte]
      /\ \A i \in Bytes(capacity) : b.contents[i] = contents[i]
      /\ \A i \in capacity .. b.capacity - 1 : b.contents[i] = 0
      /\ b.block \in Nat /\ b.ptr \in 0 .. b.block
      /\ ptr = block => b.ptr = b.block
  BY <1>1, RoomKeeps DEF StreamIInv
<1>4. b.capacity \in Nat
  BY <1>3, CapacitiesNat
<1>5. contents' # NoBuffer
  BY <1>2, <1>3, MemstreamAssumption DEF Bytes
<1>6. /\ position' = pos /\ size' = (IF size < pos THEN pos ELSE size)
      /\ sizeloc' = (IF size < pos THEN pos ELSE sizeloc) /\ open' = open
      /\ got' = NoBytes
  BY DEF memstream_seek, Larger
<1>7. size < capacity /\ sizeloc = size /\ ptr = block
  BY <1>1 DEF StreamIInv, NullByteAtEnd, Published
<1>8. \A i \in size' .. capacity' - 1 : contents'[i] = 0
  <2> SUFFICES ASSUME NEW i \in size' .. capacity' - 1 PROVE contents'[i] = 0
    OBVIOUS
  <2>1. i \in Int /\ i >= size /\ i < b.capacity
    BY <1>1, <1>2, <1>4, <1>6
  <2>2. CASE i < capacity
    BY <2>1, <2>2, <1>1, <1>2, <1>3 DEF StreamIInv, ClearBehind, Bytes
  <2>3. CASE ~ (i < capacity)
    BY <2>1, <2>3, <1>1, <1>2, <1>3, <1>4
  <2> QED
    BY <2>2, <2>3
<1>9. size' < capacity' /\ contents'[size'] = 0
  <2>1. size' < capacity'
    BY <1>1, <1>2, <1>3, <1>4, <1>6, <1>7
  <2> QED
    BY <2>1, <1>1, <1>2, <1>4, <1>6, <1>8
<1> QED
  BY <1>1, <1>2, <1>3, <1>4, <1>5, <1>6, <1>7, <1>8, <1>9, NothingRead
     DEF StreamIInv, StreamTypeOK, NullByteAtEnd, Published, ClearBehind

LEMMA CloseKeeps == ASSUME StreamIInv, memstream_close PROVE StreamIInv'
<1>1. position \in Nat /\ size \in Nat /\ capacity \in Nat
  BY CapacitiesNat DEF StreamIInv, StreamTypeOK
<1>2. CASE contents = NoBuffer
  BY <1>1, <1>2, NothingRead
  DEF memstream_close, StreamIInv, StreamTypeOK, NullByteAtEnd, Published, ClearBehind
<1>3. CASE contents # NoBuffer
  <2>1. /\ size' = position /\ sizeloc' = position /\ ptr' = block /\ block' = block
        /\ contents' = [contents EXCEPT ![position] = 0]
        /\ position' = position /\ capacity' = capacity /\ open' = FALSE /\ got' = NoBytes
    BY <1>1, <1>3 DEF memstream_close, Smaller, StreamIInv
  <2>2. position \in Bytes(capacity) /\ contents \in [Bytes(capacity) -> Byte]
    BY <1>1, <1>3 DEF StreamIInv, StreamTypeOK, NullByteAtEnd, Bytes
  <2>3. contents' \in [Bytes(capacity) -> Byte] /\ contents'[position] = 0
    BY <2>1, <2>2, MemstreamAssumption
  <2>4. position < capacity
    BY <1>1, <2>2 DEF Bytes
  <2>5. StreamTypeOK'
    <3>1. contents' \in [Bytes(capacity') -> Byte] /\ capacity' \in Capacities
      BY <2>1, <2>3 DEF StreamIInv, StreamTypeOK
    <3>2. block' \in Nat /\ ptr' \in 0 .. block'
      BY <2>1 DEF StreamIInv, StreamTypeOK
    <3> QED
      BY <1>1, <2>1, <3>1, <3>2, NothingRead DEF StreamTypeOK
  <2>6. NullByteAtEnd' /\ Published' /\ ClearBehind'
    BY <2>1, <2>3, <2>4 DEF NullByteAtEnd, Published, ClearBehind
  <2> QED
    BY <1>1, <2>1, <2>5, <2>6 DEF StreamIInv
<1> QED
  BY <1>2, <1>3

LEMMA StreamInductive == StreamIInv /\ [StreamNext]_streamVars => StreamIInv'
<1> SUFFICES ASSUME StreamIInv, [StreamNext]_streamVars PROVE StreamIInv'
  OBVIOUS
<1>1. ASSUME NEW n \in 1 .. MaxCount, NEW buf \in [Bytes(n) -> Byte], memstream_write(n, buf)
      PROVE  StreamIInv'
  BY <1>1, WriteKeeps
<1>2. ASSUME NEW n \in 1 .. MaxCount, write_fails(n) PROVE StreamIInv'
  BY <1>2, NothingRead
  DEF write_fails, StreamIInv, StreamTypeOK, NullByteAtEnd, Published, ClearBehind
<1>3. ASSUME NEW n \in 1 .. MaxCount, memstream_read(n) PROVE StreamIInv'
  <2>1. position' \in Nat /\ position' <= size
    BY <1>3, MemstreamAssumption DEF memstream_read, Smaller, StreamIInv, StreamTypeOK
  <2>2. got' \in ByteStrings
    <3> DEFINE k == Smaller(size - position, n)
    <3>1. k \in 0 .. MaxCount /\ k <= size
      BY <1>3, MemstreamAssumption DEF Smaller, StreamIInv, StreamTypeOK
    <3>2. got' = [i \in Bytes(k) |-> contents[i]] /\ contents # NoBuffer
      BY <1>3 DEF memstream_read, Usable
    <3> HIDE DEF k
    <3>3. contents \in [Bytes(capacity) -> Byte] /\ Bytes(k) \subseteq Bytes(capacity)
      BY <3>1, <3>2, CapacitiesNat DEF StreamIInv, StreamTypeOK, NullByteAtEnd, Bytes
    <3>4. got' \in [Bytes(k) -> Byte]
      BY <3>2, <3>3
    <3> QED BY <3>1, <3>4 DEF ByteStrings
  <2> QED
    BY <1>3, <2>1, <2>2
       DEF memstream_read, StreamIInv, StreamTypeOK, NullByteAtEnd, Published, ClearBehind
<1>4. ASSUME NEW pos \in 0 .. MaxPosition, memstream_seek(pos) PROVE StreamIInv'
  BY <1>4, SeekKeeps
<1>5. ASSUME NEW pos \in 0 .. MaxPosition, seek_fails(pos) PROVE StreamIInv'
  <2>1. /\ contents' = NoBuffer /\ position' = pos /\ pos \in Nat /\ open' = FALSE
        /\ size' = (IF size < pos THEN pos ELSE size)
        /\ sizeloc' = (IF size < pos THEN pos ELSE sizeloc)
        /\ got' = NoBytes /\ UNCHANGED <<capacity, block, ptr>>
    BY <1>5, MemstreamAssumption DEF seek_fails, Larger
  <2>2. /\ size \in Nat /\ sizeloc \in Nat /\ capacity \in Capacities
        /\ block \in Nat /\ ptr \in 0 .. block
    BY DEF StreamIInv, StreamTypeOK
  <2>3. position' <= size' /\ size' \in Nat /\ sizeloc' \in Nat
    BY <2>1, <2>2
  <2>4. StreamTypeOK'
    BY <2>1, <2>2, <2>3, NothingRead DEF StreamTypeOK
  <2> QED
    BY <2>1, <2>3, <2>4 DEF StreamIInv, NullByteAtEnd, Published, ClearBehind
<1>6. CASE memstream_close
  BY <1>6, CloseKeeps
<1>7. CASE UNCHANGED streamVars
  BY <1>7 DEF streamVars, StreamIInv, StreamTypeOK, NullByteAtEnd, Published, ClearBehind
<1> QED
  BY <1>1, <1>2, <1>3, <1>4, <1>5, <1>6, <1>7 DEF StreamNext

LEMMA StreamInvariance == StreamSpec => []StreamIInv
BY StreamInitGood, StreamInductive, PTL DEF StreamSpec

(* The numbers and the buffer keep their types, and the buffer is always   *)
(* as large as the capacity says (memstream.c lines 60-65, 87-96)  .       *)
THEOREM StreamTypeCorrect == StreamSpec => []StreamTypeOK
<1>1. StreamIInv => StreamTypeOK
  BY DEF StreamIInv
<1> QED BY <1>1, StreamInvariance, PTL

(* There is room for the null byte, and it is there, after every call      *)
(* (memstream.c lines 118-119, 137, 146-147).                              *)
THEOREM NullByteKept == StreamSpec => []NullByteAtEnd
<1>1. StreamIInv => NullByteAtEnd
  BY DEF StreamIInv
<1> QED BY <1>1, StreamInvariance, PTL

(* The caller's pointers show the buffer in use, wherever realloc put it,  *)
(* and its size (memstream.c lines 95, 117, 136, 145-146).                 *)
THEOREM BufferPublished == StreamSpec => []Published
<1>1. StreamIInv => Published
  BY DEF StreamIInv
<1> QED BY <1>1, StreamInvariance, PTL

-----------------------------------------------------------------------------
LEMMA Numbers ==
  ASSUME StreamIInv
  PROVE  /\ position \in Nat /\ size \in Nat /\ capacity \in Nat /\ position <= size
         /\ contents # NoBuffer =>
              /\ contents \in [Bytes(capacity) -> Byte]
              /\ size < capacity
              /\ Shown = [i \in Bytes(size) |-> contents[i]]
              /\ DOMAIN Shown = Bytes(size)
              /\ \A i \in Bytes(size) : Shown[i] = contents[i]
BY CapacitiesNat DEF StreamIInv, StreamTypeOK, NullByteAtEnd, Published, Shown

(* A write shows the bytes written at the position, and between them and   *)
(* the end what was there.                                                 *)
LEMMA WriteShown ==
  ASSUME StreamIInv, StreamIInv', NEW n \in 1 .. MaxCount, NEW buf \in [Bytes(n) -> Byte],
         memstream_write(n, buf)
  PROVE  File!Write(n, buf)
<1>n. n \in Nat /\ n > 0
  BY MemstreamAssumption
<1>1. contents # NoBuffer /\ contents' # NoBuffer /\ open /\ open'
  <2>1. contents # NoBuffer /\ open /\ open'
    BY DEF memstream_write, Usable
  <2>2. PICK b \in Room(position + n) :
          contents' = [i \in Bytes(b.capacity) |->
                         IF i \in position .. position + n - 1
                           THEN buf[i - position] ELSE b.contents[i]]
                /\ capacity' = b.capacity
    BY DEF memstream_write
  <2>3. contents' # NoBuffer
    <3>1. contents' = NoBuffer \/ contents' \in [Bytes(capacity') -> Byte]
      BY DEF StreamIInv, StreamTypeOK
    <3>2. capacity' \in Capacities /\ position + n \in Nat
      BY <1>n DEF StreamIInv, StreamTypeOK
    <3>3. /\ b.contents \in [Bytes(b.capacity) -> Byte] /\ b.capacity \in Capacities
      BY <2>1, <3>2, RoomKeeps DEF StreamIInv
    <3>4. contents' \in [Bytes(b.capacity) -> Byte]
      BY <2>2, <3>3, <1>n, Numbers, CapacitiesNat DEF Bytes
    <3> QED
      BY <3>3, <3>4, MemstreamAssumption DEF Bytes
  <2> QED
    BY <2>1, <2>3
<1>2. PICK b \in Room(position + n) :
        /\ contents' = [i \in Bytes(b.capacity) |->
                          IF i \in position .. position + n - 1
                            THEN buf[i - position] ELSE b.contents[i]]
        /\ capacity' = b.capacity
  BY DEF memstream_write
<1>3. /\ b.capacity \in Nat /\ b.capacity >= capacity /\ b.capacity > position + n
      /\ \A i \in Bytes(capacity) : b.contents[i] = contents[i]
  <2>1. position + n \in Nat
    BY <1>n, Numbers
  <2> QED
    BY <1>1, <2>1, RoomKeeps, CapacitiesNat DEF StreamIInv
<1>4. /\ position' = position + n
      /\ size' = (IF size < position + n THEN position + n ELSE size)
  BY DEF memstream_write, Larger
<1>5. Shown' = [i \in DOMAIN Shown \cup File!Bytes(position + n) |->
                  IF i \in position .. position + n - 1 THEN buf[i - position] ELSE Shown[i]]
  <2>1. Bytes(size') = DOMAIN Shown \cup File!Bytes(position + n)
    BY <1>1, <1>4, <1>n, Numbers DEF Bytes, File!Bytes
  <2>2. ASSUME NEW i \in Bytes(size')
        PROVE  contents'[i] = IF i \in position .. position + n - 1
                                THEN buf[i - position] ELSE Shown[i]
    <3>1. i \in Bytes(b.capacity)
      BY <1>3, <1>4, <1>n, <1>1, Numbers DEF Bytes
    <3>2. CASE i \in position .. position + n - 1
      BY <3>1, <3>2, <1>2
    <3>3. CASE i \notin position .. position + n - 1
      <4>1. i \in Bytes(size) /\ i \in Bytes(capacity)
        BY <3>3, <1>4, <1>n, <1>1, Numbers DEF Bytes
      <4> QED
        BY <4>1, <3>1, <3>3, <1>1, <1>2, <1>3, Numbers
    <3> QED
      BY <3>2, <3>3
  <2>3. Shown' = [i \in Bytes(size') |-> contents'[i]]
    BY <1>1 DEF StreamIInv, Published, Shown
  <2> QED
    BY <2>1, <2>2, <2>3
<1> QED
  BY <1>1, <1>4, <1>5 DEF File!Write

(* A move of the position past the end shows zeros in between.             *)
LEMMA SeekShown ==
  ASSUME StreamIInv, StreamIInv', NEW pos \in 0 .. MaxPosition, memstream_seek(pos)
  PROVE  File!Seek(pos)
<1>1. contents # NoBuffer /\ open /\ open' /\ pos \in Nat
  BY MemstreamAssumption DEF memstream_seek, Usable
<1>2. PICK b \in Room(pos) : contents' = b.contents /\ capacity' = b.capacity
  BY DEF memstream_seek
<1>3. /\ b.capacity \in Capacities /\ b.capacity \in Nat
      /\ b.capacity >= capacity /\ b.capacity > pos
      /\ b.contents \in [Bytes(b.capacity) -> Byte]
      /\ \A i \in Bytes(capacity) : b.contents[i] = contents[i]
      /\ \A i \in capacity .. b.capacity - 1 : b.contents[i] = 0
  BY <1>1, RoomKeeps, CapacitiesNat DEF StreamIInv
<1>4. contents' # NoBuffer
  BY <1>2, <1>3, MemstreamAssumption DEF Bytes
<1>5. position' = pos /\ size' = (IF size < pos THEN pos ELSE size)
  BY DEF memstream_seek, Larger
<1>6. Shown' = [i \in DOMAIN Shown \cup File!Bytes(pos) |->
                  IF i \in DOMAIN Shown THEN Shown[i] ELSE 0]
  <2>1. Bytes(size') = DOMAIN Shown \cup File!Bytes(pos)
    BY <1>1, <1>5, Numbers DEF Bytes, File!Bytes
  <2>2. ASSUME NEW i \in Bytes(size')
        PROVE  contents'[i] = IF i \in DOMAIN Shown THEN Shown[i] ELSE 0
    <3>1. i \in Int /\ 0 <= i /\ i < b.capacity
      BY <1>1, <1>3, <1>5, Numbers DEF Bytes
    <3>2. CASE i \in Bytes(size)
      <4>1. i \in Bytes(capacity)
        BY <3>2, <1>1, Numbers DEF Bytes
      <4> QED
        BY <4>1, <3>2, <1>1, <1>2, <1>3, Numbers
    <3>3. CASE i \notin Bytes(size)
      <4>1. i >= size /\ i \notin DOMAIN Shown
        BY <3>1, <3>3, <1>1, Numbers DEF Bytes
      <4>2. CASE i < capacity
        <5>1. contents[i] = 0
          BY <4>1, <4>2, <3>1, <1>1, Numbers DEF StreamIInv, ClearBehind
        <5>2. i \in Bytes(capacity)
          BY <4>2, <3>1, Numbers DEF Bytes
        <5> QED BY <4>1, <5>1, <5>2, <1>2, <1>3
      <4>3. CASE ~ (i < capacity)
        BY <4>1, <4>3, <3>1, <1>2, <1>3, Numbers
      <4> QED
        BY <4>1, <4>2, <4>3
    <3> QED
      BY <3>2, <3>3
  <2>3. Shown' = [i \in Bytes(size') |-> contents'[i]]
    BY <1>4 DEF StreamIInv, Published, Shown
  <2> QED
    BY <2>1, <2>2, <2>3
<1> QED
  BY <1>1, <1>4, <1>5, <1>6 DEF File!Seek, File!InFile

LEMMA ReadShown ==
  ASSUME StreamIInv, StreamIInv', NEW n \in 1 .. MaxCount, memstream_read(n)
  PROVE  \E m \in 0 .. MaxCount : File!Read(m)
<1> DEFINE m == Smaller(size - position, n)
<1>1. contents # NoBuffer /\ contents' = contents /\ open /\ open' = open /\ size' = size
  BY DEF memstream_read, Usable
<1>2. m \in 0 .. MaxCount /\ position' = position + m
  BY MemstreamAssumption, Numbers DEF memstream_read, Smaller
<1>3. m = 0 \/ position + m - 1 \in Bytes(size)
  BY <1>2, Numbers, MemstreamAssumption DEF Smaller, Bytes
<1>4. m = 0 \/ position + m - 1 \in DOMAIN Shown
  BY <1>1, <1>3, Numbers
<1>5. Shown' = Shown
  BY <1>1 DEF memstream_read, Shown
<1>6. File!Read(m)
  BY <1>1, <1>2, <1>4, <1>5 DEF File!Read, File!InFile
<1> QED
  BY <1>2, <1>6

LEMMA CloseShown ==
  ASSUME StreamIInv, StreamIInv', memstream_close, contents # NoBuffer
  PROVE  File!Close
<1>1. /\ size' = position /\ position' = position /\ open /\ open' = FALSE
      /\ contents' = [contents EXCEPT ![position] = 0]
  BY Numbers DEF memstream_close, Smaller
<1>2. contents \in [Bytes(capacity) -> Byte] /\ capacity \in Capacities
  BY Numbers DEF StreamIInv, StreamTypeOK
<1>3. contents' \in [Bytes(capacity) -> Byte] /\ contents' # NoBuffer
  <2>1. contents' \in [Bytes(capacity) -> Byte]
    BY <1>1, <1>2, MemstreamAssumption
  <2> QED
    BY <1>2, <2>1, MemstreamAssumption DEF Bytes
<1>4. \A i \in Bytes(position) : contents'[i] = Shown[i]
  <2> SUFFICES ASSUME NEW i \in Bytes(position) PROVE contents'[i] = Shown[i]
    OBVIOUS
  <2>1. i \in Bytes(size) /\ i \in Bytes(capacity) /\ i # position
    BY Numbers DEF Bytes
  <2> QED
    BY <2>1, <1>1, <1>2, Numbers
<1>5. Shown' = [i \in File!Bytes(position) |-> Shown[i]]
  <2>1. Shown' = [i \in Bytes(size') |-> contents'[i]]
    BY <1>3 DEF StreamIInv, Published, Shown
  <2> QED
    BY <2>1, <1>1, <1>4 DEF Bytes, File!Bytes
<1> QED
  BY <1>1, <1>3, <1>5 DEF File!Close

LEMMA LostShown ==
  ASSUME contents # NoBuffer, contents' = NoBuffer, open
  PROVE  File!OutOfMemory
BY DEF File!OutOfMemory, File!NoData

LEMMA StepShown == StreamIInv /\ StreamIInv' /\ [StreamNext]_streamVars => [File!Next]_(File!vars)
<1> SUFFICES ASSUME StreamIInv, StreamIInv', [StreamNext]_streamVars PROVE [File!Next]_(File!vars)
  OBVIOUS
<1>1. ASSUME NEW n \in 1 .. MaxCount, NEW buf \in [Bytes(n) -> Byte], memstream_write(n, buf)
      PROVE  File!Next
  <2>1. File!Write(n, buf) /\ buf \in [File!Bytes(n) -> Byte]
    BY <1>1, WriteShown DEF Bytes, File!Bytes
  <2> QED
    BY <2>1 DEF File!Next
<1>2. ASSUME NEW n \in 1 .. MaxCount, write_fails(n) PROVE File!Next
  BY <1>2, LostShown DEF write_fails, Usable, File!Next
<1>3. ASSUME NEW n \in 1 .. MaxCount, memstream_read(n) PROVE File!Next
  BY <1>3, ReadShown DEF File!Next
<1>4. ASSUME NEW pos \in 0 .. MaxPosition, memstream_seek(pos) PROVE File!Next
  BY <1>4, SeekShown DEF File!Next
<1>5. ASSUME NEW pos \in 0 .. MaxPosition, seek_fails(pos) PROVE File!Next
  BY <1>5, LostShown DEF seek_fails, Usable, File!Next
<1>6. ASSUME memstream_close PROVE [File!Next]_(File!vars)
  <2>1. CASE contents # NoBuffer
    BY <1>6, <2>1, CloseShown DEF File!Next
  <2>2. CASE contents = NoBuffer
    BY <1>6, <2>2 DEF memstream_close, File!vars
  <2> QED
    BY <2>1, <2>2
<1>7. CASE UNCHANGED streamVars
  BY <1>7 DEF streamVars, File!vars, Shown
<1> QED
  BY <1>1, <1>2, <1>3, <1>4, <1>5, <1>6, <1>7 DEF StreamNext

LEMMA InitShown == StreamInit => File!Init
<1> SUFFICES ASSUME StreamInit PROVE File!Init
  OBVIOUS
<1>1. contents # NoBuffer
  BY FirstCapacity, MemstreamAssumption DEF StreamInit, Bytes
<1>2. Shown = File!NoData
  BY DEF StreamInit, Shown, Bytes, File!NoData
<1> QED
  BY <1>1, <1>2 DEF StreamInit, File!Init

(* The stream implements the file of MemFile: the buffer its caller is     *)
(* shown holds what was written, and zeros where nothing was, whenever and *)
(* however often it was moved (memstream.c lines 87-150).                  *)
THEOREM StreamImplementation == StreamSpec => ImplementsMemFile
BY StreamInitGood, StreamInductive, InitShown, StepShown, PTL
   DEF StreamSpec, ImplementsMemFile, File!Spec
=============================================================================
