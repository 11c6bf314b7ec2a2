----------------------- MODULE SoftwareTransferProofs -----------------------
(***************************************************************************)
(* What the running protocol keeps, for every group, number of files, key, *)
(* draw of the exponents and number of downloads, whatever is aborted,     *)
(* killed or late.                                                         *)
(***************************************************************************)
EXTENDS SoftwareTransfer, AlgebraProofs, SequenceTheorems

-----------------------------------------------------------------------------
(* The algebra of the transfer, for every draw of the exponents.           *)

LEMMA KeyBitIsBit == ASSUME NEW sk, NEW i PROVE KeyBit(sk, i) \in Version
BY DEF KeyBit, Version

(* Both sides of a transfer compute the same key for the version that the  *)
(* bit of the user's key chooses (handlers 3 to 6).                        *)
THEOREM TransferKeysAgree ==
  ASSUME NEW g \in Group, NEW a \in [Row -> Scalar], NEW b \in [Row -> Scalar],
         NEW sk, NEW i \in Row
  PROVE  OTKey(Offers(g, a), Choices(Offers(g, a), g, sk, b), a, i, KeyBit(sk, i))
           = ChosenKey(Offers(g, a), b, i)
<1> DEFINE A == Pow(g, a[i])
           C == Pow(g, b[i])
           bit == KeyBit(sk, i)
           B == Mul(Pow(A, bit), C)
<1>1. a[i] \in Scalar /\ b[i] \in Scalar
  OBVIOUS
<1>2. A \in Group /\ C \in Group
  BY <1>1, GroupClosed
<1>3. Offers(g, a)[i] = A /\ Choices(Offers(g, a), g, sk, b)[i] = B
  BY DEF Offers, Choices
<1>4. Pow(C, a[i]) = Pow(A, b[i])
  BY <1>1, PowerLaws
<1>5. CASE bit = 0
  <2>1. B = C
    <3>1. Mul(One, C) = C
      BY <1>2, GroupClosed, GroupLaws
    <3> QED BY <1>2, <1>5, <3>1, PowerLaws
  <2>2. OTKey(Offers(g, a), Choices(Offers(g, a), g, sk, b), a, i, bit) = Pow(B, a[i])
    BY <1>3, <1>5 DEF OTKey
  <2> QED BY <1>3, <1>4, <2>1, <2>2 DEF ChosenKey
<1>6. CASE bit = 1
  <2>1. B = Mul(A, C)
    BY <1>2, <1>6, PowerLaws
  <2>2. Mul(B, Inv(A)) = C
    BY <1>2, <2>1, Cancel
  <2>3. OTKey(Offers(g, a), Choices(Offers(g, a), g, sk, b), a, i, bit)
          = Pow(Mul(B, Inv(A)), a[i])
    BY <1>3, <1>6 DEF OTKey
  <2> QED BY <1>3, <1>4, <2>2, <2>3 DEF ChosenKey
<1> QED BY <1>5, <1>6, KeyBitIsBit DEF Version

(* The key of the version that was not chosen is another one, unless the   *)
(* sender drew an exponent whose square is zero (handlers 3 to 6).         *)
THEOREM OtherKeyDiffers ==
  ASSUME NEW g \in Group, NEW a \in [Row -> Scalar], NEW b \in [Row -> Scalar],
         NEW sk, NEW i \in Row, Pow(Offers(g, a)[i], a[i]) # One
  PROVE  OTKey(Offers(g, a), Choices(Offers(g, a), g, sk, b), a, i, 1 - KeyBit(sk, i))
           # ChosenKey(Offers(g, a), b, i)
<1> DEFINE A == Pow(g, a[i])
           C == Pow(g, b[i])
           bit == KeyBit(sk, i)
           B == Mul(Pow(A, bit), C)
           AA == Pow(A, a[i])
           K == Pow(C, a[i])
<1>1. a[i] \in Scalar /\ b[i] \in Scalar
  OBVIOUS
<1>2. A \in Group /\ C \in Group /\ AA \in Group /\ K \in Group
  BY <1>1, GroupClosed
<1>3. Offers(g, a)[i] = A /\ Choices(Offers(g, a), g, sk, b)[i] = B
  BY DEF Offers, Choices
<1>4. ChosenKey(Offers(g, a), b, i) = K
  BY <1>1, <1>3, PowerLaws DEF ChosenKey
<1>5. AA # One
  BY <1>3
<1>6. CASE bit = 0
  <2>1. B = C
    <3>1. Mul(One, C) = C
      BY <1>2, GroupClosed, GroupLaws
    <3> QED BY <1>2, <1>6, <3>1, PowerLaws
  <2>2. OTKey(Offers(g, a), Choices(Offers(g, a), g, sk, b), a, i, 1 - bit)
          = Pow(Mul(C, Inv(A)), a[i])
    BY <1>3, <1>6, <2>1 DEF OTKey
  <2>3. SUFFICES ASSUME Pow(Mul(C, Inv(A)), a[i]) = K PROVE FALSE
    BY <1>4, <2>2
  <2> DEFINE X == Mul(C, Inv(A))
  <2>4. X \in Group /\ Mul(X, A) = C
    <3>1. Inv(A) \in Group
      BY <1>2, GroupClosed
    <3>2. X \in Group
      BY <1>2, <3>1, GroupClosed
    <3>3. Mul(X, A) = Mul(C, Mul(Inv(A), A))
      BY <1>2, <3>1, GroupLaws
    <3>4. Mul(Inv(A), A) = One
      BY <1>2, <3>1, GroupLaws
    <3> QED BY <1>2, <3>2, <3>3, <3>4, GroupLaws
  <2>5. K = Mul(Pow(X, a[i]), AA)
    BY <1>1, <1>2, <2>4, PowerLaws
  <2>6. K = Mul(K, AA)
    BY <2>3, <2>5
  <2> QED BY <1>2, <1>5, <2>6, NoUnit
<1>7. CASE bit = 1
  <2>1. B = Mul(A, C)
    BY <1>2, <1>7, PowerLaws
  <2>2. OTKey(Offers(g, a), Choices(Offers(g, a), g, sk, b), a, i, 1 - bit) = Pow(B, a[i])
    BY <1>3, <1>7 DEF OTKey
  <2>3. Pow(B, a[i]) = Mul(AA, K)
    BY <1>1, <1>2, <2>1, PowerLaws
  <2>4. SUFFICES ASSUME Mul(AA, K) = K PROVE FALSE
    BY <1>4, <2>2, <2>3
  <2>5. Mul(K, AA) = K
    BY <1>2, <2>4, GroupLaws
  <2> QED BY <1>2, <1>5, <2>5, NoUnit
<1> QED BY <1>6, <1>7, KeyBitIsBit DEF Version

-----------------------------------------------------------------------------

Scalars == [Row -> Scalar]
Values == [Row -> Group]
Pairs == [Row -> [Version -> Group]]
Part == [1 .. PartSize -> Sealed(Jars)]
HubStates == {1, 3, 5, 7, 9, 11, 13, 15}
UserStates == {2, 4, 6, 8, 10, 12, 14, 16}

(* The hub's database, and what it holds when handler n is the next.       *)
HubRecord ==
  [g : OrNull(Group), sk : OrNull(Scalar), common_pk : OrNull(Group),
   points : OrNull(Pairs), randomVals : OrNull(Scalars), a : OrNull(Scalars),
   B : OrNull(Values), reRandEnc : OrNull(Values),
   outArray : OrNull([1 .. 2 * Rows -> Sealed(Jars)])]

HubHas(h, n) ==
  /\ h \in HubRecord
  /\ n >= 3 => h.g \in Group /\ h.sk \in Scalar
  /\ n >= 5 => /\ h.common_pk \in Group /\ h.points \in Pairs
               /\ h.randomVals \in Scalars /\ h.a \in Scalars
  /\ (n < 7 => h.B = Null) /\ (n < 9 => h.reRandEnc = Null)
  /\ n >= 7 => h.B \in Values
  /\ n >= 9 => h.reRandEnc \in Values
  /\ n >= 11 => h.outArray = OutArray(h.points)

(* The input of handler n of the hub, from whomever.                       *)
SenderInput(n, m) ==
  /\ n = 3 => m.S2.common_pk \in Group
  /\ n = 5 => m.B \in Values
  /\ n = 7 => m.reRandEnc \in Values

(* The user's database, and what it holds of the hub's when handler n is   *)
(* the next.                                                               *)
UserRecord ==
  [sk : OrNull(SecretKey), common_pk : OrNull(Group), g : OrNull(Group),
   A : OrNull(Values), b : OrNull(Scalars),
   enc : OrNull([Row -> [Version -> Sealed(Group)]]), recRandVals : OrNull(Scalars),
   decRecLayer : OrNull(Values), parts : Seq(Part)]

Layered(h) == ElGamalEnc2(h.points, h.randomVals, h.common_pk)
ChosenBs(u) == Choices(u.A, u.g, u.sk, u.b)
ChosenOf(pairs, sk) == [i \in Row |-> pairs[i][KeyBit(sk, i)]]

UserHas(h, u, n) ==
  /\ u \in UserRecord
  /\ n = 2 => u.sk = Null
  /\ n >= 4 => u.sk \in SecretKey /\ u.g = h.g /\ u.common_pk \in Group
  /\ n >= 6 => u.A = Offers(h.g, h.a) /\ u.b \in Scalars
  /\ n < 8 => u.enc = Null
  /\ n >= 8 => /\ u.enc = OTEncrypt(Layered(h), u.A, ChosenBs(u), h.a)
               /\ u.recRandVals \in Scalars
  /\ n < 10 => u.decRecLayer = Null
  /\ n >= 10 => u.decRecLayer = ChosenOf(h.points, u.sk)
  /\ n < 12 => Len(u.parts) = 0
  /\ n = 12 => Len(u.parts) = 1
  /\ n = 14 => Len(u.parts) = 2
  /\ n = 16 => Len(u.parts) \in {3, 4}
  /\ \A k \in 1 .. Len(u.parts) : u.parts[k] = Slice(OutArray(h.points), k)

(* What the hub whose handler n is the next holds of the user's.           *)
HubKnows(h, u, n) ==
  /\ n >= 5 => h.common_pk = u.common_pk
  /\ n >= 7 => h.B = ChosenBs(u)
  /\ n >= 9 => h.reRandEnc =
                 ReRandElGamal(ChosenOf(Layered(h), u.sk), u.recRandVals, u.common_pk)

(* What is on its way to the user, and to the hub.                         *)
ToReceiver(h, n, m) ==
  /\ n = 2 => m.S = [g |-> h.g, sender_pk |-> Pow(h.g, h.sk)]
  /\ n = 4 => m.S3.A = Offers(h.g, h.a)
  /\ n = 6 => m.enc = OTEncrypt(Layered(h), Offers(h.g, h.a), h.B, h.a)
  /\ n = 8 => m.decSenderLayer = StripLayer(h.reRandEnc, h.randomVals, h.common_pk)
  /\ n = 10 => m.outArray = Slice(OutArray(h.points), 1)
  /\ n = 12 => m.outArray = Slice(OutArray(h.points), 2)
  /\ n = 14 => m.outArray = Slice(OutArray(h.points), 3)
  /\ n = 16 => m.outArray = Slice(OutArray(h.points), 4)

ToSender(h, u, n, m) ==
  /\ n = 3 => m.S2.common_pk = u.common_pk
  /\ n = 5 => m.B = ChosenBs(u)
  /\ n = 7 => m.reRandEnc =
                ReRandElGamal(ChosenOf(Layered(h), u.sk), u.recRandVals, u.common_pk)

(* The two sides of a connection: h and u are their databases, p and n     *)
(* their next handlers, x and y what is on its way to the user and to the  *)
(* hub.                                                                    *)
Conversation(h, u, p, n, x, y) ==
  /\ p \in HubStates \ {1} /\ n \in UserStates /\ (p = n + 1 \/ n = p + 1)
  /\ UserHas(h, u, n) /\ HubKnows(h, u, p)
  /\ x # Null => (p = n + 1 \/ n = 16) /\ ToReceiver(h, n, x)
  /\ y # Null => n = p + 1 /\ ToSender(h, u, p, y)

-----------------------------------------------------------------------------
(* The types of what the handlers compute.                                 *)
LEMMA Bits ==
  /\ \A sk, i : KeyBit(sk, i) \in Version /\ KeyBit(sk, i) \in Scalar
  /\ \A sk, i : 1 - KeyBit(sk, i) \in Version
BY ScalarAssumption, KeyBitIsBit DEF Version

LEMMA OffersType == ASSUME NEW g \in Group, NEW a \in Scalars PROVE Offers(g, a) \in Values
BY GroupClosed DEF Scalars, Values, Offers

LEMMA ChoicesType ==
  ASSUME NEW A \in Values, NEW g \in Group, NEW sk, NEW b \in Scalars
  PROVE  Choices(A, g, sk, b) \in Values
BY GroupClosed, Bits DEF Scalars, Values, Choices

LEMMA LayersType ==
  ASSUME NEW v \in Values, NEW r \in Scalars, NEW pk \in Group
  PROVE  ReRandElGamal(v, r, pk) \in Values /\ StripLayer(v, r, pk) \in Values
BY GroupClosed DEF Scalars, Values, ReRandElGamal, StripLayer

LEMMA PairsType ==
  ASSUME NEW p \in Pairs, NEW r \in Scalars, NEW pk \in Group
  PROVE  ElGamalEnc2(p, r, pk) \in Pairs
BY GroupClosed DEF Scalars, Pairs, ElGamalEnc2, Version

LEMMA ChosenType == ASSUME NEW p \in Pairs, NEW sk PROVE ChosenOf(p, sk) \in Values
BY Bits DEF Pairs, Values, ChosenOf

LEMMA EncryptedType ==
  ASSUME NEW e \in Pairs, NEW A \in Values, NEW B \in Values, NEW a \in Scalars
  PROVE  OTEncrypt(e, A, B, a) \in [Row -> [Version -> Sealed(Group)]]
<1>1. \A i \in Row, j \in Version : OTKey(A, B, a, i, j) \in Group
  BY GroupClosed DEF Values, Scalars, OTKey
<1> QED BY <1>1 DEF OTEncrypt, Encrypt, Sealed, Pairs

(* Handler 6 opens what handler 5 closed.                                  *)
LEMMA Opened ==
  ASSUME NEW g \in Group, NEW a \in Scalars, NEW b \in Scalars, NEW sk, NEW e \in Pairs
  PROVE  LET A == Offers(g, a)
         IN OTDecrypt(OTEncrypt(e, A, Choices(A, g, sk, b), a), A, b, sk) = ChosenOf(e, sk)
<1> DEFINE A == Offers(g, a)
           B == Choices(A, g, sk, b)
<1>1. ASSUME NEW i \in Row
      PROVE  Decrypt(ChosenKey(A, b, i), OTEncrypt(e, A, B, a)[i][KeyBit(sk, i)])
               = e[i][KeyBit(sk, i)]
  <2>1. OTKey(A, B, a, i, KeyBit(sk, i)) = ChosenKey(A, b, i)
    BY TransferKeysAgree DEF Scalars
  <2> QED BY <2>1, Bits DEF OTEncrypt, Encrypt, Decrypt
<1> QED BY <1>1 DEF OTDecrypt, ChosenOf

(* What is left when the sender and then the receiver have taken off their *)
(* layers are the points of the versions that were chosen (handlers 3, 6,  *)
(* 7 and 8).                                                               *)
THEOREM LayersComeOff ==
  ASSUME NEW points \in Pairs, NEW pk \in Group, NEW sk, NEW r \in Scalars, NEW rr \in Scalars
  PROVE  StripLayer(StripLayer(ReRandElGamal(
             ChosenOf(ElGamalEnc2(points, r, pk), sk), rr, pk), r, pk), rr, pk)
           = ChosenOf(points, sk)
<1> DEFINE chosen == ChosenOf(ElGamalEnc2(points, r, pk), sk)
           back == StripLayer(ReRandElGamal(chosen, rr, pk), r, pk)
           all == StripLayer(back, rr, pk)
<1>1. ASSUME NEW i \in Row PROVE all[i] = points[i][KeyBit(sk, i)]
  <2> DEFINE q == points[i][KeyBit(sk, i)]
             y == Pow(pk, r[i])
             z == Pow(pk, rr[i])
  <2>1. q \in Group /\ y \in Group /\ z \in Group
    BY Bits, GroupClosed DEF Pairs, Scalars
  <2>2. chosen[i] = Mul(q, y)
    BY Bits DEF ElGamalEnc2, ChosenOf
  <2> HIDE DEF chosen
  <2>3. back[i] = Mul(Mul(chosen[i], z), Inv(y))
    BY DEF StripLayer, ReRandElGamal
  <2> HIDE DEF back
  <2>4. all[i] = Mul(back[i], Inv(z))
    BY DEF StripLayer
  <2> QED BY <2>1, <2>2, <2>3, <2>4, CancelBetween
<1>2. all \in Values
  <2>1. chosen \in Values
    BY PairsType, ChosenType
  <2> HIDE DEF chosen
  <2>2. back \in Values
    BY <2>1, LayersType
  <2> HIDE DEF back
  <2> QED BY <2>2, LayersType
<1> HIDE DEF all
<1>3. all = [i \in Row |-> all[i]]
  BY <1>2 DEF Values
<1>4. all = [i \in Row |-> points[i][KeyBit(sk, i)]]
  BY <1>1, <1>3
<1> QED BY <1>4 DEF ChosenOf, all, back, chosen

(* The four parts, one after the other, are the array.                     *)
LEMMA ArrayType ==
  ASSUME NEW points \in Pairs
  PROVE  OutArray(points) \in [1 .. 2 * Rows -> Sealed(Jars)]
<1>1. ASSUME NEW n \in 1 .. 2 * Rows
      PROVE  (n - 1) \div 2 \in Row /\ (n - 1) % 2 \in Version
  BY <1>1, SizeAssumption DEF Row, Version
<1> QED BY <1>1 DEF OutArray, Encrypt, Jar, Jars, Sealed, Pairs

(* A part is a stretch of the array.                                       *)
LEMMA SliceType ==
  ASSUME NEW arr \in [1 .. 2 * Rows -> Sealed(Jars)], NEW k \in 1 .. 4
  PROVE  /\ Slice(arr, k) \in Part
         /\ \A i \in 1 .. PartSize : Slice(arr, k)[i] = arr[(k - 1) * PartSize + i]
<1> USE SizeAssumption
<1>1. arr \in Seq(Sealed(Jars)) /\ Len(arr) = 2 * Rows
  OBVIOUS
<1>2. (k = 1 \/ k = 2 \/ k = 3 \/ k = 4)
  OBVIOUS
<1>3. (k - 1) * PartSize \in Nat /\ k * PartSize = (k - 1) * PartSize + PartSize
      /\ k * PartSize <= 2 * Rows
  BY <1>2
<1> DEFINE m == (k - 1) * PartSize
<1>4. Slice(arr, k) = SubSeq(arr, m + 1, m + PartSize)
  BY <1>3 DEF Slice
<1> HIDE DEF m
<1>5. m \in Nat /\ m + PartSize <= 2 * Rows
  BY <1>3 DEF m
<1> DEFINE from == m + 1
           to == m + PartSize
           S == Sealed(Jars)
           s == SubSeq(arr, from, to)
<1>6. from \in Int /\ to \in Int /\ to - from + 1 = PartSize /\ from <= to + 1
      /\ PartSize \in Nat
  BY <1>5
<1>7. \A i \in from .. to : arr[i] \in S
  BY <1>5
<1> HIDE DEF from, to, S
<1>8. /\ s \in Seq(S)
      /\ Len(s) = IF from <= to THEN to - from + 1 ELSE 0
      /\ \A i \in 1 .. to - from + 1 : s[i] = arr[from + i - 1]
  BY <1>6, <1>7, SubSeqProperties
<1> HIDE DEF s
<1>9. Len(s) = PartSize
  BY <1>6, <1>8
<1>10. \A i \in 1 .. PartSize : s[i] = arr[m + i]
  <2> SUFFICES ASSUME NEW i \in 1 .. PartSize
               PROVE  s[i] = arr[m + i]
    OBVIOUS
  <2>1. from + i - 1 = m + i /\ i \in 1 .. to - from + 1
    BY <1>5, <1>6 DEF from
  <2> QED BY <1>8, <2>1, Zenon
<1>11. s \in Part
  <2>1. s \in [1 .. Len(s) -> S]
    BY <1>8, LenProperties, Zenon
  <2> QED BY <1>9, <2>1 DEF Part, S
<1>12. Slice(arr, k) = s
  BY <1>4 DEF s, from, to
<1> QED BY <1>10, <1>11, <1>12 DEF m

(* The array begins with what is joined.                                   *)
Begins(arr, s, m) ==
  s \in Seq(Sealed(Jars)) /\ Len(s) = m /\ \A i \in 1 .. m : s[i] = arr[i]

(* What is joined stays the beginning of the array when the next part      *)
(* follows.                                                                *)
LEMMA OneMore ==
  ASSUME NEW arr \in [1 .. 2 * Rows -> Sealed(Jars)], NEW k \in 2 .. 4, NEW s,
         Begins(arr, s, (k - 1) * PartSize)
  PROVE  Begins(arr, s \o Slice(arr, k), k * PartSize)
<1> DEFINE m == (k - 1) * PartSize
           p == Slice(arr, k)
           S == Sealed(Jars)
<1>1. m \in Nat /\ k * PartSize = m + PartSize /\ PartSize \in Nat
  <2>1. PartSize \in Nat
    BY SizeAssumption
  <2>2. CASE k = 2
    BY <2>1, <2>2
  <2>3. CASE k = 3
    BY <2>1, <2>3
  <2>4. CASE k = 4
    BY <2>1, <2>4
  <2> QED BY <2>2, <2>3, <2>4
<1>2. p \in Seq(S) /\ Len(p) = PartSize /\ \A i \in 1 .. PartSize : p[i] = arr[m + i]
  <2>1. k \in 1 .. 4
    OBVIOUS
  <2>2. p \in Part /\ \A i \in 1 .. PartSize : p[i] = arr[m + i]
    BY <2>1, SliceType, Zenon
  <2>3. p \in [1 .. PartSize -> S]
    BY <2>2 DEF Part
  <2> HIDE DEF p, S
  <2> QED BY <1>1, <2>2, <2>3
<1>3. s \in Seq(S) /\ Len(s) = m /\ \A i \in 1 .. m : s[i] = arr[i]
  BY DEF Begins
<1> HIDE DEF m, p, S
<1>4. s \o p \in Seq(S) /\ Len(s \o p) = m + PartSize
  BY <1>2, <1>3, ConcatProperties
<1>5. ASSUME NEW i \in 1 .. m + PartSize PROVE (s \o p)[i] = arr[i]
  <2>1. (s \o p)[i] = IF i <= m THEN s[i] ELSE p[i - m]
    BY <1>2, <1>3, ConcatProperties
  <2>2. CASE i <= m
    BY <1>3, <2>1, <2>2
  <2>3. CASE i > m
    <3>1. i - m \in 1 .. PartSize /\ m + (i - m) = i
      BY <1>1, <2>3
    <3>2. p[i - m] = arr[m + (i - m)]
      BY <1>2, <3>1
    <3>3. ~ (i <= m)
      BY <1>1, <2>3
    <3> QED BY <2>1, <3>1, <3>2, <3>3
  <2>4. i <= m \/ i > m
    BY <1>1
  <2> QED BY <2>2, <2>3, <2>4, Zenon
<1> QED BY <1>1, <1>4, <1>5 DEF Begins, p, S

(* Entry n of the four parts together is entry n of the array: handler 16  *)
(* opens the ciphertexts that handler 9 made.                              *)
LEMMA Together ==
  ASSUME NEW arr \in [1 .. 2 * Rows -> Sealed(Jars)], NEW n \in 1 .. 2 * Rows
  PROVE  (Slice(arr, 1) \o Slice(arr, 2) \o Slice(arr, 3) \o Slice(arr, 4))[n] = arr[n]
<1> DEFINE one == Slice(arr, 1)
           two == one \o Slice(arr, 2)
           three == two \o Slice(arr, 3)
           four == three \o Slice(arr, 4)
<1>1. Begins(arr, one, (2 - 1) * PartSize)
  <2>1. one \in [1 .. PartSize -> Sealed(Jars)]
        /\ \A i \in 1 .. PartSize : one[i] = arr[(1 - 1) * PartSize + i]
    <3>1. 1 \in 1 .. 4
      OBVIOUS
    <3> QED BY <3>1, SliceType, Zenon DEF Part
  <2>2. PartSize \in Nat /\ (1 - 1) * PartSize = 0 /\ (2 - 1) * PartSize = PartSize
    BY SizeAssumption
  <2> DEFINE S == Sealed(Jars)
  <2> HIDE DEF one, S
  <2>3. \A i \in 1 .. PartSize : one[i] = arr[i]
    BY <2>1, <2>2
  <2>4. one \in Seq(S) /\ Len(one) = PartSize
    BY <2>1, <2>2 DEF S
  <2> QED BY <2>2, <2>3, <2>4 DEF Begins, S
<1> HIDE DEF one
<1>2. Begins(arr, two, 2 * PartSize)
  BY <1>1, OneMore
<1> HIDE DEF two
<1>3. Begins(arr, three, 3 * PartSize)
  <2>1. Begins(arr, two, (3 - 1) * PartSize)
    BY <1>2
  <2> QED BY <2>1, OneMore
<1> HIDE DEF three
<1>4. Begins(arr, four, 4 * PartSize)
  <2>1. Begins(arr, three, (4 - 1) * PartSize)
    BY <1>3
  <2> QED BY <2>1, OneMore
<1> HIDE DEF four
<1>5. four[n] = arr[n]
  BY <1>4, SizeAssumption DEF Begins
<1> QED BY <1>5 DEF four, three, two, one

-----------------------------------------------------------------------------
(* The hub's handlers: what they leave in the database, and in the         *)
(* conversation with a user who is still there.                            *)
Answers(h, p, y, h2, p2, m) ==
  /\ HubHas(h2, p2)
  /\ \A u, n, x : Conversation(h, u, p, n, x, y) => Conversation(h2, u, p2, n, m, Null)

SameDraws(h, h2) ==
  /\ h2.g = h.g /\ h2.sk = h.sk /\ h2.common_pk = h.common_pk /\ h2.points = h.points
  /\ h2.randomVals = h.randomVals /\ h2.a = h.a

(* What the user holds is said of the hub's draws alone.                   *)
LEMMA SameUser ==
  ASSUME NEW h, NEW h2, NEW u, NEW n, SameDraws(h, h2), UserHas(h, u, n)
  PROVE  UserHas(h2, u, n)
BY DEF SameDraws, UserHas, Layered

(* The answers of the hub's handlers are those that the user expects.      *)
LEMMA Answer3 ==
  ASSUME NEW h, NEW y, NEW m, y # Null, HubHas(h, 3), SenderInput(3, y),
         NEW points \in Pairs, NEW r \in Scalars, NEW a \in Scalars,
         m.S3.A = Offers(h.g, a)
  PROVE  Answers(h, 3, y, [h EXCEPT !.common_pk = y.S2.common_pk, !.points = points,
                                    !.randomVals = r, !.a = a], 5, m)
<1> DEFINE h2 == [h EXCEPT !.common_pk = y.S2.common_pk, !.points = points,
                           !.randomVals = r, !.a = a]
<1>1. h \in HubRecord /\ y.S2.common_pk \in Group /\ h.g \in Group /\ h.sk \in Scalar
  BY DEF HubHas, SenderInput
<1>2. h2 \in HubRecord /\ h2.g = h.g /\ h2.sk = h.sk /\ h2.common_pk = y.S2.common_pk
      /\ h2.points = points /\ h2.randomVals = r /\ h2.a = a
      /\ h2.B = h.B /\ h2.reRandEnc = h.reRandEnc
  BY <1>1 DEF HubRecord, OrNull
<1> HIDE DEF h2
<1>3. HubHas(h2, 5)
  BY <1>1, <1>2 DEF HubHas
<1>4. ASSUME NEW u, NEW n, NEW x, Conversation(h, u, 3, n, x, y)
      PROVE  Conversation(h2, u, 5, n, m, Null)
  <2>1. n = 4 /\ u \in UserRecord /\ y.S2.common_pk = u.common_pk
        /\ u.common_pk \in Group /\ u.g = h.g /\ u.sk \in SecretKey /\ Len(u.parts) = 0
    BY <1>4 DEF Conversation, UserHas, ToSender
  <2>2. UserHas(h2, u, 4)
    BY <1>2, <1>4, <2>1 DEF UserHas, Conversation
  <2>3. HubKnows(h2, u, 5) /\ ToReceiver(h2, 4, m)
    BY <1>2, <2>1 DEF HubKnows, ToReceiver
  <2> QED BY <2>1, <2>2, <2>3 DEF Conversation, HubStates, UserStates
<1> QED BY <1>3, <1>4 DEF Answers, h2

LEMMA Answer5 ==
  ASSUME NEW h, NEW y, NEW m, y # Null, HubHas(h, 5), SenderInput(5, y),
         m.enc = OTEncrypt(ElGamalEnc2(h.points, h.randomVals, h.common_pk),
                           Offers(h.g, h.a), y.B, h.a)
  PROVE  Answers(h, 5, y, [h EXCEPT !.B = y.B], 7, m)
<1> DEFINE h2 == [h EXCEPT !.B = y.B]
<1>1. h \in HubRecord /\ y.B \in Values
  BY DEF HubHas, SenderInput
<1>2. h2 \in HubRecord /\ SameDraws(h, h2) /\ h2.B = y.B
      /\ h2.reRandEnc = h.reRandEnc
  BY <1>1 DEF HubRecord, OrNull, SameDraws
<1> HIDE DEF h2
<1>3. HubHas(h2, 7)
  BY <1>1, <1>2 DEF HubHas, SameDraws
<1>4. ASSUME NEW u, NEW n, NEW x, Conversation(h, u, 5, n, x, y)
      PROVE  Conversation(h2, u, 7, n, m, Null)
  <2>1. n = 6 /\ y.B = ChosenBs(u) /\ UserHas(h2, u, 6) /\ h.common_pk = u.common_pk
    BY <1>2, <1>4, SameUser DEF Conversation, ToSender, HubKnows
  <2>2. HubKnows(h2, u, 7) /\ ToReceiver(h2, 6, m)
    BY <1>2, <2>1 DEF HubKnows, ToReceiver, SameDraws, Layered
  <2> QED BY <2>1, <2>2 DEF Conversation, HubStates, UserStates
<1> QED BY <1>3, <1>4 DEF Answers, h2

LEMMA Answer7 ==
  ASSUME NEW h, NEW y, NEW m, y # Null, HubHas(h, 7), SenderInput(7, y),
         m.decSenderLayer = StripLayer(y.reRandEnc, h.randomVals, h.common_pk)
  PROVE  Answers(h, 7, y, [h EXCEPT !.reRandEnc = y.reRandEnc], 9, m)
<1> DEFINE h2 == [h EXCEPT !.reRandEnc = y.reRandEnc]
<1>1. h \in HubRecord /\ y.reRandEnc \in Values
  BY DEF HubHas, SenderInput
<1>2. h2 \in HubRecord /\ SameDraws(h, h2) /\ h2.B = h.B /\ h2.reRandEnc = y.reRandEnc
  BY <1>1 DEF HubRecord, OrNull, SameDraws
<1> HIDE DEF h2
<1>3. HubHas(h2, 9)
  BY <1>1, <1>2 DEF HubHas, SameDraws
<1>4. ASSUME NEW u, NEW n, NEW x, Conversation(h, u, 7, n, x, y)
      PROVE  Conversation(h2, u, 9, n, m, Null)
  <2>1. n = 8 /\ UserHas(h2, u, 8) /\ h.common_pk = u.common_pk /\ h.B = ChosenBs(u)
        /\ y.reRandEnc = ReRandElGamal(ChosenOf(Layered(h), u.sk), u.recRandVals, u.common_pk)
    BY <1>2, <1>4, SameUser DEF Conversation, ToSender, HubKnows
  <2>2. HubKnows(h2, u, 9) /\ ToReceiver(h2, 8, m)
    BY <1>2, <2>1 DEF HubKnows, ToReceiver, SameDraws, Layered
  <2> QED BY <2>1, <2>2 DEF Conversation, HubStates, UserStates
<1> QED BY <1>3, <1>4 DEF Answers, h2

LEMMA Answer9 ==
  ASSUME NEW h, NEW y, NEW m, y # Null, HubHas(h, 9),
         m.outArray = Slice(OutArray(h.points), 1)
  PROVE  Answers(h, 9, y, [h EXCEPT !.outArray = OutArray(h.points)], 11, m)
<1> DEFINE h2 == [h EXCEPT !.outArray = OutArray(h.points)]
<1>1. h \in HubRecord /\ h.points \in Pairs
  BY DEF HubHas
<1>2. OutArray(h.points) \in [1 .. 2 * Rows -> Sealed(Jars)]
  BY <1>1, ArrayType
<1>3. h2 \in HubRecord /\ SameDraws(h, h2) /\ h2.B = h.B /\ h2.reRandEnc = h.reRandEnc
      /\ h2.outArray = OutArray(h.points)
  BY <1>1, <1>2 DEF HubRecord, OrNull, SameDraws
<1> HIDE DEF h2
<1>4. HubHas(h2, 11)
  BY <1>1, <1>3 DEF HubHas, SameDraws
<1>5. ASSUME NEW u, NEW n, NEW x, Conversation(h, u, 9, n, x, y)
      PROVE  Conversation(h2, u, 11, n, m, Null)
  <2>1. n = 10 /\ UserHas(h2, u, 10) /\ HubKnows(h, u, 9)
    BY <1>3, <1>5, SameUser DEF Conversation
  <2>2. HubKnows(h2, u, 11) /\ ToReceiver(h2, 10, m)
    BY <1>3, <2>1 DEF HubKnows, ToReceiver, SameDraws, Layered
  <2> QED BY <2>1, <2>2 DEF Conversation, HubStates, UserStates
<1> QED BY <1>4, <1>5 DEF Answers, h2

LEMMA AnswerPart ==
  ASSUME NEW h, NEW y, NEW m, y # Null, NEW p, NEW p2, HubHas(h, p),
         \/ p = 11 /\ p2 = 13 /\ m.outArray = Slice(h.outArray, 2)
         \/ p = 13 /\ p2 = 15 /\ m.outArray = Slice(h.outArray, 3)
         \/ p = 15 /\ p2 = 15 /\ m.outArray = Slice(h.outArray, 4)
  PROVE  Answers(h, p, y, h, p2, m)
<1>1. HubHas(h, p2) /\ h.outArray = OutArray(h.points)
  BY DEF HubHas
<1>2. ASSUME NEW u, NEW n, NEW x, Conversation(h, u, p, n, x, y)
      PROVE  Conversation(h, u, p2, n, m, Null)
  <2>1. n = p + 1
    BY <1>2 DEF Conversation
  <2>2. HubKnows(h, u, p2)
    BY <1>2 DEF Conversation, HubKnows
  <2>3. ToReceiver(h, n, m)
    BY <1>1, <2>1 DEF ToReceiver
  <2> QED BY <1>2, <2>1, <2>2, <2>3 DEF Conversation, HubStates, UserStates
<1> QED BY <1>1, <1>2 DEF Answers

-----------------------------------------------------------------------------
(* The user's handlers.                                                    *)
Replies(h, u, p, n, x, u2, n2, m) ==
  HubHas(h, p) /\ Conversation(h, u, p, n, x, Null) =>
    Conversation(h, u2, p, n2, Null, m) /\ SenderInput(p, m)

(* The replies of the user's handlers are those that the hub expects.      *)
LEMMA Reply2 ==
  ASSUME NEW h, NEW u, NEW p, NEW x, x # Null, NEW key \in SecretKey, NEW m,
         m.S2.common_pk = Pow(x.S.sender_pk, key)
  PROVE  Replies(h, u, p, 2, x, [u EXCEPT !.sk = key, !.common_pk = Pow(x.S.sender_pk, key),
                                          !.g = x.S.g], 4, m)
<1> SUFFICES ASSUME HubHas(h, p), Conversation(h, u, p, 2, x, Null)
             PROVE  Conversation(h, [u EXCEPT !.sk = key, !.common_pk = Pow(x.S.sender_pk, key),
                                              !.g = x.S.g], p, 4, Null, m)
                    /\ SenderInput(p, m)
  BY DEF Replies
<1> DEFINE u2 == [u EXCEPT !.sk = key, !.common_pk = Pow(x.S.sender_pk, key), !.g = x.S.g]
<1>1. /\ p = 3 /\ h.g \in Group /\ h.sk \in Scalar /\ u \in UserRecord /\ UserHas(h, u, 2)
      /\ x.S.g = h.g /\ x.S.sender_pk = Pow(h.g, h.sk) /\ key \in Scalar
  BY KeyAssumption DEF Conversation, HubStates, HubHas, UserHas, ToReceiver
<1>2. Pow(x.S.sender_pk, key) \in Group
  BY <1>1, GroupClosed
<1>3. /\ u2 \in UserRecord /\ u2.sk = key /\ u2.common_pk = Pow(x.S.sender_pk, key)
      /\ u2.g = h.g /\ u2.enc = u.enc /\ u2.decRecLayer = u.decRecLayer /\ u2.parts = u.parts
  BY <1>1, <1>2 DEF UserRecord, OrNull
<1> HIDE DEF u2
<1>4. UserHas(h, u2, 4)
  BY <1>1, <1>2, <1>3 DEF UserHas
<1>5. HubKnows(h, u2, p) /\ ToSender(h, u2, p, m) /\ SenderInput(p, m)
  BY <1>1, <1>2, <1>3 DEF HubKnows, ToSender, SenderInput
<1> QED BY <1>1, <1>4, <1>5 DEF Conversation, HubStates, UserStates, u2

LEMMA Reply4 ==
  ASSUME NEW h, NEW u, NEW p, NEW x, x # Null, NEW b \in Scalars, NEW m,
         m.B = Choices(x.S3.A, u.g, u.sk, b)
  PROVE  Replies(h, u, p, 4, x, [u EXCEPT !.A = x.S3.A, !.b = b], 6, m)
<1> SUFFICES ASSUME HubHas(h, p), Conversation(h, u, p, 4, x, Null)
             PROVE  Conversation(h, [u EXCEPT !.A = x.S3.A, !.b = b], p, 6, Null, m)
                    /\ SenderInput(p, m)
  BY DEF Replies
<1> DEFINE u2 == [u EXCEPT !.A = x.S3.A, !.b = b]
<1>1. /\ p = 5 /\ h.g \in Group /\ h.a \in Scalars /\ u \in UserRecord /\ UserHas(h, u, 4)
      /\ x.S3.A = Offers(h.g, h.a) /\ h.common_pk = u.common_pk /\ u.g \in Group
  BY DEF Conversation, HubStates, HubHas, UserHas, HubKnows, ToReceiver
<1>2. x.S3.A \in Values
  BY <1>1, OffersType
<1>3. m.B \in Values
  BY <1>1, <1>2, ChoicesType
<1>4. /\ u2 \in UserRecord /\ u2.A = x.S3.A /\ u2.b = b
      /\ u2.sk = u.sk /\ u2.common_pk = u.common_pk /\ u2.g = u.g
      /\ u2.enc = u.enc /\ u2.decRecLayer = u.decRecLayer /\ u2.parts = u.parts
  BY <1>1, <1>2 DEF UserRecord, OrNull
<1> HIDE DEF u2
<1>5. UserHas(h, u2, 6)
  BY <1>1, <1>4 DEF UserHas
<1>6. HubKnows(h, u2, p) /\ ToSender(h, u2, p, m) /\ SenderInput(p, m)
  BY <1>1, <1>3, <1>4 DEF HubKnows, ToSender, SenderInput, ChosenBs
<1> QED BY <1>1, <1>5, <1>6 DEF Conversation, HubStates, UserStates, u2

(* What handler 6 opens.                                                   *)
LEMMA Opens6 ==
  ASSUME NEW h, NEW u, NEW p, NEW x, x # Null, NEW y, HubHas(h, p),
         Conversation(h, u, p, 6, x, y)
  PROVE  /\ p = 7 /\ Layered(h) \in Pairs
         /\ x.enc = OTEncrypt(Layered(h), u.A, ChosenBs(u), h.a)
         /\ x.enc \in [Row -> [Version -> Sealed(Group)]]
         /\ OTDecrypt(x.enc, u.A, u.b, u.sk) = ChosenOf(Layered(h), u.sk)
<1>1. /\ p = 7 /\ h.g \in Group /\ h.a \in Scalars /\ h.points \in Pairs
      /\ h.randomVals \in Scalars /\ h.common_pk \in Group /\ h.B \in Values
      /\ u.A = Offers(h.g, h.a) /\ u.g = h.g /\ u.b \in Scalars /\ h.B = ChosenBs(u)
      /\ x.enc = OTEncrypt(Layered(h), Offers(h.g, h.a), h.B, h.a)
  BY DEF Conversation, HubStates, HubHas, UserHas, HubKnows, ToReceiver
<1>2. Layered(h) \in Pairs
  BY <1>1, PairsType DEF Layered
<1>3. u.A \in Values
  BY <1>1, OffersType
<1>4. x.enc \in [Row -> [Version -> Sealed(Group)]]
  BY <1>1, <1>2, <1>3, EncryptedType
<1>5. OTDecrypt(x.enc, u.A, u.b, u.sk) = ChosenOf(Layered(h), u.sk)
  <2>1. x.enc = OTEncrypt(Layered(h), Offers(h.g, h.a),
                          Choices(Offers(h.g, h.a), h.g, u.sk, u.b), h.a)
    BY <1>1 DEF ChosenBs
  <2> QED BY <1>1, <1>2, <2>1, Opened
<1> QED BY <1>1, <1>2, <1>4, <1>5

LEMMA Reply6 ==
  ASSUME NEW h, NEW u, NEW p, NEW x, x # Null, NEW r \in Scalars, NEW m,
         m.reRandEnc = ReRandElGamal(OTDecrypt(x.enc, u.A, u.b, u.sk), r, u.common_pk)
  PROVE  Replies(h, u, p, 6, x, [u EXCEPT !.enc = x.enc, !.recRandVals = r], 8, m)
<1> SUFFICES ASSUME HubHas(h, p), Conversation(h, u, p, 6, x, Null)
             PROVE  Conversation(h, [u EXCEPT !.enc = x.enc, !.recRandVals = r], p, 8, Null, m)
                    /\ SenderInput(p, m)
  BY DEF Replies
<1> DEFINE u2 == [u EXCEPT !.enc = x.enc, !.recRandVals = r]
           chosen == ChosenOf(Layered(h), u.sk)
<1>1. /\ p = 7 /\ x.enc = OTEncrypt(Layered(h), u.A, ChosenBs(u), h.a)
      /\ x.enc \in [Row -> [Version -> Sealed(Group)]]
      /\ m.reRandEnc = ReRandElGamal(chosen, r, u.common_pk) /\ Layered(h) \in Pairs
  BY Opens6
<1>2. /\ u \in UserRecord /\ UserHas(h, u, 6) /\ HubKnows(h, u, 7) /\ u.common_pk \in Group
  BY <1>1 DEF Conversation, UserHas
<1>3. m.reRandEnc \in Values
  BY <1>1, <1>2, ChosenType, LayersType
<1> HIDE DEF chosen
<1>4. /\ u2 \in UserRecord /\ u2.enc = x.enc /\ u2.recRandVals = r /\ u2.A = u.A /\ u2.b = u.b
      /\ u2.sk = u.sk /\ u2.common_pk = u.common_pk /\ u2.g = u.g
      /\ u2.decRecLayer = u.decRecLayer /\ u2.parts = u.parts
  BY <1>1, <1>2 DEF UserRecord, OrNull
<1> HIDE DEF u2
<1>5. ChosenBs(u2) = ChosenBs(u)
  BY <1>4 DEF ChosenBs
<1>6. UserHas(h, u2, 8)
  BY <1>1, <1>2, <1>4, <1>5 DEF UserHas
<1>7. HubKnows(h, u2, p) /\ ToSender(h, u2, p, m) /\ SenderInput(p, m)
  BY <1>1, <1>2, <1>3, <1>4, <1>5 DEF HubKnows, ToSender, SenderInput, chosen
<1> QED BY <1>1, <1>6, <1>7 DEF Conversation, HubStates, UserStates, u2

LEMMA Reply8 ==
  ASSUME NEW h, NEW u, NEW p, NEW x, x # Null, NEW m
  PROVE  Replies(h, u, p, 8, x,
           [u EXCEPT !.decRecLayer = StripLayer(x.decSenderLayer, u.recRandVals, u.common_pk)],
           10, m)
<1> DEFINE layer == StripLayer(x.decSenderLayer, u.recRandVals, u.common_pk)
           u2 == [u EXCEPT !.decRecLayer = layer]
<1> SUFFICES ASSUME HubHas(h, p), Conversation(h, u, p, 8, x, Null)
             PROVE  Conversation(h, u2, p, 10, Null, m) /\ SenderInput(p, m)
  BY DEF Replies
<1>1. /\ p = 9 /\ h.points \in Pairs /\ h.randomVals \in Scalars /\ h.common_pk \in Group
      /\ h.common_pk = u.common_pk /\ u.recRandVals \in Scalars /\ u \in UserRecord
      /\ UserHas(h, u, 8) /\ HubKnows(h, u, 9)
      /\ h.reRandEnc = ReRandElGamal(ChosenOf(Layered(h), u.sk), u.recRandVals, u.common_pk)
      /\ x.decSenderLayer = StripLayer(h.reRandEnc, h.randomVals, h.common_pk)
  BY DEF Conversation, HubStates, HubHas, UserHas, HubKnows, ToReceiver
<1>2. layer = ChosenOf(h.points, u.sk)
  BY <1>1, LayersComeOff DEF Layered
<1>3. layer \in Values
  BY <1>1, <1>2, ChosenType
<1> HIDE DEF layer
<1>4. /\ u2 \in UserRecord /\ u2.decRecLayer = layer /\ u2.enc = u.enc
      /\ u2.recRandVals = u.recRandVals /\ u2.A = u.A /\ u2.b = u.b
      /\ u2.sk = u.sk /\ u2.common_pk = u.common_pk /\ u2.g = u.g /\ u2.parts = u.parts
  BY <1>1, <1>3 DEF UserRecord, OrNull
<1> HIDE DEF u2
<1>5. ChosenBs(u2) = ChosenBs(u)
  BY <1>4 DEF ChosenBs
<1>6. UserHas(h, u2, 10)
  BY <1>1, <1>2, <1>4, <1>5 DEF UserHas
<1>7. HubKnows(h, u2, p) /\ ToSender(h, u2, p, m) /\ SenderInput(p, m)
  BY <1>1, <1>4, <1>5 DEF HubKnows, ToSender, SenderInput
<1> QED BY <1>1, <1>6, <1>7 DEF Conversation, HubStates, UserStates

(* A part is stored; in the last handler nothing is sent.                  *)
WithPart(u, x) == [u EXCEPT !.parts = Append(@, x.outArray)]

Stores(h, u, p, n, n2, u2) ==
  /\ p >= 9 /\ UserHas(h, u2, n2) /\ HubKnows(h, u2, p)
  /\ n = 14 => Len(u2.parts) = 3
  /\ n = 16 => Len(u2.parts) = 4

LEMMA Stored ==
  ASSUME NEW h, NEW u, NEW p, NEW n \in {10, 12, 14, 16}, NEW x, x # Null, NEW y,
         HubHas(h, p), Conversation(h, u, p, n, x, y), n = 16 => Len(u.parts) = 3,
         NEW n2, n2 = (IF n = 16 THEN 16 ELSE n + 2)
  PROVE  Stores(h, u, p, n, n2, WithPart(u, x))
<1> DEFINE k == Len(u.parts)
           part == Slice(OutArray(h.points), k + 1)
           u2 == WithPart(u, x)
<1>1. /\ p >= 11 /\ h.points \in Pairs /\ u \in UserRecord /\ UserHas(h, u, n)
      /\ HubKnows(h, u, p)
  <2>1. /\ p \in HubStates /\ (p = n + 1 \/ n = p + 1) /\ (p = n + 1 \/ n = 16)
        /\ UserHas(h, u, n) /\ HubKnows(h, u, p)
    BY DEF Conversation
  <2>2. p >= 11 /\ p >= 5 /\ p \in Nat
    BY <2>1 DEF HubStates
  <2>3. h.points \in Pairs
    BY <2>2 DEF HubHas
  <2>4. u \in UserRecord
    BY <2>1 DEF UserHas
  <2> QED BY <2>1, <2>2, <2>3, <2>4
<1>13. /\ k \in 0 .. 3
       /\ (n = 10 => k = 0) /\ (n = 12 => k = 1) /\ (n = 14 => k = 2) /\ (n = 16 => k = 3)
  BY <1>1 DEF UserHas
<1> HIDE DEF k
<1>14. x.outArray = part
  <2>1. ToReceiver(h, n, x)
    BY DEF Conversation
  <2>2. CASE n = 10
    BY <1>13, <2>1, <2>2 DEF ToReceiver
  <2>3. CASE n = 12
    BY <1>13, <2>1, <2>3 DEF ToReceiver
  <2>4. CASE n = 14
    BY <1>13, <2>1, <2>4 DEF ToReceiver
  <2>5. CASE n = 16
    BY <1>13, <2>1, <2>5 DEF ToReceiver
  <2> QED BY <2>2, <2>3, <2>4, <2>5
<1>2. x.outArray \in Part
  <2>1. k + 1 \in 1 .. 4
    BY <1>13
  <2> QED BY <1>1, <1>14, <2>1, ArrayType, SliceType
<1>3. u.parts \in Seq(Part)
  BY <1>1 DEF UserRecord
<1> DEFINE parts2 == Append(u.parts, x.outArray)
<1>4. parts2 \in Seq(Part) /\ Len(parts2) = k + 1
      /\ (\A i \in 1 .. k : parts2[i] = u.parts[i]) /\ parts2[k + 1] = x.outArray
  BY <1>2, <1>3, AppendProperties DEF k
<1> HIDE DEF parts2
<1>5. /\ u2 \in UserRecord /\ u2.parts = parts2 /\ u2.decRecLayer = u.decRecLayer
      /\ u2.enc = u.enc /\ u2.recRandVals = u.recRandVals /\ u2.A = u.A /\ u2.b = u.b
      /\ u2.sk = u.sk /\ u2.common_pk = u.common_pk /\ u2.g = u.g
  BY <1>1, <1>4 DEF UserRecord, parts2, WithPart
<1> HIDE DEF u2
<1>6. ChosenBs(u2) = ChosenBs(u)
  BY <1>5 DEF ChosenBs
<1>7. \A i \in 1 .. Len(u2.parts) : u2.parts[i] = Slice(OutArray(h.points), i)
  <2>1. ASSUME NEW i \in 1 .. k + 1 PROVE parts2[i] = Slice(OutArray(h.points), i)
    <3>1. CASE i = k + 1
      BY <1>4, <1>14, <3>1
    <3>2. CASE i \in 1 .. k
      BY <1>1, <1>4, <3>2 DEF UserHas, k
    <3> QED BY <1>13, <3>1, <3>2
  <2> QED BY <1>4, <1>5, <2>1
<1>8. /\ n2 = 12 => Len(u2.parts) = 1
      /\ n2 = 14 => Len(u2.parts) = 2
      /\ n2 = 16 => Len(u2.parts) \in {3, 4}
      /\ n2 \in {12, 14, 16}
  BY <1>13, <1>4, <1>5
<1>9. UserHas(h, u2, n2)
  BY <1>1, <1>5, <1>6, <1>7, <1>8 DEF UserHas
<1>10. HubKnows(h, u2, p)
  BY <1>1, <1>5, <1>6 DEF HubKnows
<1>11. (n = 14 => Len(u2.parts) = 3) /\ (n = 16 => Len(u2.parts) = 4)
  BY <1>4, <1>5, <1>13
<1>12. p >= 9
  BY <1>1 DEF Conversation, HubStates
<1> QED BY <1>9, <1>10, <1>11, <1>12 DEF Stores, u2

-----------------------------------------------------------------------------
(* The invariant: what the hub's databases hold; that a connection which   *)
(* waits is a fresh one; and the conversation on the accepted one.         *)
Types ==
  /\ hubStatus \in [Session -> {"idle", "running", "completed", "aborted"}]
  /\ senderState \in [Session -> HubStates]
  /\ hub \in [Session -> HubRecord]
  /\ toReceiver = [s \in Session |-> toReceiver[s]]
  /\ toSender = [s \in Session |-> toSender[s]]
  /\ \A s \in Session : toReceiver[s] = Null \/ toSender[s] = Null
  /\ backlog \in Seq(Session)
  /\ process \in {"down", "listening", "running", "writing", "filling"}
  /\ conn \in OrNull(Session)
  /\ process \in {"running", "writing", "filling"} <=> conn # Null
  /\ receiverState \in UserStates /\ user \in UserRecord
  /\ written \in 0 .. Rows
  /\ rcvd \in [Row -> OrNull(Jars) \cup {Torn}]
  /\ keyFile \in SecretKey

Hub(s) ==
  /\ HubHas(hub[s], senderState[s])
  /\ toSender[s] # Null => SenderInput(senderState[s], toSender[s])
  /\ hubStatus[s] = "idle" => toSender[s] = Null

Talk(s, u, n) == Conversation(hub[s], u, senderState[s], n, toReceiver[s], toSender[s])

Waiting ==
  /\ \A i \in 1 .. Len(backlog) :
       /\ hubStatus[backlog[i]] # "idle" /\ backlog[i] # conn
       /\ Talk(backlog[i], EmptyUser, 2)
  /\ \A i, j \in 1 .. Len(backlog) : backlog[i] = backlog[j] => i = j

Connected ==
  /\ conn # Null => hubStatus[conn] # "idle" /\ Talk(conn, user, receiverState)
  /\ conn = Null => user = EmptyUser /\ receiverState = 2
  /\ process = "running" /\ receiverState = 16 => Len(user.parts) = 3
  /\ process \in {"writing", "filling"} => receiverState = 16 /\ Len(user.parts) = 4
  /\ process = "filling" => written \in Row /\ rcvd[written] = Torn
  /\ process \notin {"writing", "filling"} => written = 0

IInv == Types /\ (\A s \in Session : Hub(s)) /\ Waiting /\ Connected

LEMMA TypesOK == Types => TypeOK
<1> SUFFICES ASSUME Types PROVE TypeOK
  OBVIOUS
<1>1. ASSUME NEW s \in Session
      PROVE  /\ hub[s].g \in OrNull(Group) /\ hub[s].common_pk \in OrNull(Group)
             /\ hub[s].sk \in OrNull(Scalar)
             /\ hub[s].points \in OrNull([Row -> [Version -> Group]])
             /\ {hub[s].randomVals, hub[s].a} \subseteq OrNull([Row -> Scalar])
             /\ {hub[s].B, hub[s].reRandEnc} \subseteq OrNull([Row -> Group])
             /\ hub[s].outArray \in OrNull([1 .. 2 * Rows -> Sealed(Jars)])
             /\ Null \in {toReceiver[s], toSender[s]}
  <2>1. hub[s] \in HubRecord /\ (toReceiver[s] = Null \/ toSender[s] = Null)
    BY DEF Types
  <2>2. /\ hub[s].g \in OrNull(Group) /\ hub[s].common_pk \in OrNull(Group)
        /\ hub[s].sk \in OrNull(Scalar) /\ hub[s].points \in OrNull(Pairs)
        /\ hub[s].randomVals \in OrNull(Scalars) /\ hub[s].a \in OrNull(Scalars)
        /\ hub[s].B \in OrNull(Values) /\ hub[s].reRandEnc \in OrNull(Values)
        /\ hub[s].outArray \in OrNull([1 .. 2 * Rows -> Sealed(Jars)])
    BY <2>1 DEF HubRecord
  <2> QED BY <2>1, <2>2 DEF Pairs, Scalars, Values
<1>2. /\ user.enc \in OrNull([Row -> [Version -> Sealed(Group)]])
      /\ user.decRecLayer \in OrNull([Row -> Group])
      /\ \A k \in 1 .. Len(user.parts) : user.parts[k] \in [1 .. PartSize -> Sealed(Jars)]
  BY DEF Types, UserRecord, Values, Part
<1>3. /\ hubStatus \in [Session -> {"idle", "running", "completed", "aborted"}]
      /\ senderState \in [Session -> {1, 3, 5, 7, 9, 11, 13, 15}]
      /\ process \in {"down", "listening", "running", "writing", "filling"}
      /\ conn \in OrNull(Session)
      /\ process \in {"running", "writing", "filling"} <=> conn # Null
      /\ receiverState \in {2, 4, 6, 8, 10, 12, 14, 16}
      /\ written \in 0 .. Rows
      /\ rcvd \in [Row -> OrNull(Jars) \cup {Torn}]
      /\ keyFile \in SecretKey
  BY DEF Types, HubStates, UserStates
<1> QED BY <1>1, <1>2, <1>3, Zenon DEF TypeOK

LEMMA EmptyUserRecord == EmptyUser \in UserRecord /\ EmptyUser.sk = Null
<1>1. <<>> \in Seq(Part)
  OBVIOUS
<1> QED BY <1>1 DEF EmptyUser, UserRecord, OrNull

LEMMA InitGood == Init => IInv
<1> SUFFICES ASSUME Init PROVE IInv
  OBVIOUS
<1>1. EmptyHub \in HubRecord
  BY DEF EmptyHub, HubRecord, OrNull
<1>2. Types
  <2>1. written \in 0 .. Rows
    BY SizeAssumption DEF Init
  <2>2. hub \in [Session -> HubRecord] /\ user \in UserRecord
    BY <1>1, EmptyUserRecord DEF Init
  <2>3. /\ toReceiver = [s \in Session |-> toReceiver[s]]
        /\ toSender = [s \in Session |-> toSender[s]]
        /\ \A s \in Session : toReceiver[s] = Null \/ toSender[s] = Null
    BY DEF Init
  <2>4. /\ hubStatus \in [Session -> {"idle", "running", "completed", "aborted"}]
        /\ senderState \in [Session -> HubStates] /\ receiverState \in UserStates
        /\ rcvd \in [Row -> OrNull(Jars) \cup {Torn}] /\ keyFile \in SecretKey
    BY DEF Init, HubStates, UserStates, OrNull
  <2>5. /\ process = "down" /\ conn = Null /\ conn \in OrNull(Session)
        /\ backlog \in Seq(Session)
    BY DEF Init, OrNull
  <2> QED BY <2>1, <2>2, <2>3, <2>4, <2>5 DEF Types
<1>3. ASSUME NEW s \in Session PROVE Hub(s)
  BY <1>1 DEF Init, Hub, HubHas, EmptyHub
<1>4. Waiting /\ Connected
  BY DEF Init, Waiting, Connected
<1> QED BY <1>2, <1>3, <1>4 DEF IInv

(* A handler of the hub.                                                   *)
LEMMA SenderKeeps ==
  ASSUME IInv, NEW s \in Session, NEW p, SenderRuns(s, p), NEW h2, NEW p2 \in HubStates, NEW m,
         Answers(hub[s], p, toSender[s], h2, p2, m), SenderAnswers(s, h2, p2, m),
         \/ hubStatus' = hubStatus
         \/ hubStatus' = [hubStatus EXCEPT ![s] = "completed"]
  PROVE  IInv'
<1>1. /\ hub' = [hub EXCEPT ![s] = h2] /\ senderState' = [senderState EXCEPT ![s] = p2]
      /\ toSender' = [toSender EXCEPT ![s] = Null] /\ toReceiver' = [toReceiver EXCEPT ![s] = m]
      /\ UNCHANGED <<backlog, process, conn, receiverState, user, written, rcvd, keyFile>>
  BY DEF SenderAnswers, userVars
<1>2. hubStatus[s] = "running" /\ senderState[s] = p /\ toSender[s] # Null
  BY DEF SenderRuns
<1>3. HubHas(h2, p2) /\ h2 \in HubRecord
  BY DEF Answers, HubHas
<1>4. Types'
  BY <1>1, <1>3 DEF IInv, Types
<1>5. /\ hub'[s] = h2 /\ senderState'[s] = p2 /\ toSender'[s] = Null /\ toReceiver'[s] = m
      /\ hubStatus'[s] # "idle"
  BY <1>1, <1>2 DEF IInv, Types
<1>6. \A q \in Session : q # s =>
        /\ hub'[q] = hub[q] /\ senderState'[q] = senderState[q] /\ toSender'[q] = toSender[q]
        /\ toReceiver'[q] = toReceiver[q] /\ hubStatus'[q] = hubStatus[q]
  BY <1>1 DEF IInv, Types
<1>7. ASSUME NEW q \in Session PROVE Hub(q)'
  BY <1>3, <1>5, <1>6 DEF IInv, Hub
<1>8. ASSUME NEW q \in Session, NEW u, NEW n, Talk(q, u, n)
      PROVE  Conversation(hub'[q], u, senderState'[q], n, toReceiver'[q], toSender'[q])
  <2>1. CASE q = s
    BY <1>2, <1>5, <1>8, <2>1 DEF Talk, Answers
  <2>2. CASE q # s
    BY <1>6, <1>8, <2>2 DEF Talk
  <2> QED BY <2>1, <2>2
<1>9. \A q \in Session : hubStatus[q] # "idle" => hubStatus'[q] # "idle"
  BY <1>5, <1>6
<1>10. Waiting'
  <2>1. \A i \in 1 .. Len(backlog) : backlog[i] \in Session
    BY DEF IInv, Types
  <2> QED BY <1>1, <1>8, <1>9, <2>1 DEF IInv, Waiting, Talk
<1>11. Connected'
  <2>1. conn # Null => conn \in Session
    BY DEF IInv, Types, OrNull
  <2>2. conn # Null => Talk(conn, user, receiverState)'
    BY <1>1, <1>8, <2>1 DEF IInv, Connected, Talk
  <2> QED BY <1>1, <1>9, <2>1, <2>2 DEF IInv, Connected
<1> QED BY <1>4, <1>7, <1>10, <1>11 DEF IInv

(* The hub gives up.                                                       *)
LEMMA AbortKeeps ==
  ASSUME IInv, NEW s \in Session, hubStatus[s] = "idle" => toSender[s] = Null,
         hubStatus' = [hubStatus EXCEPT ![s] = "aborted"],
         UNCHANGED <<senderState, hub, wire, userVars, keyFile>>
  PROVE  IInv'
<1>1. UNCHANGED <<senderState, hub, toReceiver, toSender, backlog, process, conn,
                  receiverState, user, written, rcvd, keyFile>>
  BY DEF wire, userVars
<1>2. \A q \in Session : hubStatus'[q] = "idle" => hubStatus[q] = "idle"
  BY DEF IInv, Types
<1>3. Types'
  BY <1>1 DEF IInv, Types
<1>4. ASSUME NEW q \in Session PROVE Hub(q)'
  BY <1>1, <1>2 DEF IInv, Hub
<1>5. Waiting'
  <2>1. \A i \in 1 .. Len(backlog) : backlog[i] \in Session
    BY DEF IInv, Types
  <2> QED BY <1>1, <1>2, <2>1 DEF IInv, Waiting, Talk
<1>6. Connected'
  <2>1. conn # Null => conn \in Session
    BY DEF IInv, Types, OrNull
  <2> QED BY <1>1, <1>2, <2>1 DEF IInv, Connected, Talk
<1> QED BY <1>3, <1>4, <1>5, <1>6 DEF IInv

(* A handler of the user that answers.                                     *)
LEMMA ReceiverKeeps ==
  ASSUME IInv, NEW n \in UserStates, ReceiverRuns(n), NEW u2, NEW n2 \in UserStates, NEW m,
         ReceiverAnswers(u2, n2, m),
         Replies(hub[conn], user, senderState[conn], n, toReceiver[conn], u2, n2, m),
         n2 = 16 => Len(u2.parts) = 3
  PROVE  IInv'
<1>1. /\ user' = u2 /\ receiverState' = n2
      /\ toReceiver' = [toReceiver EXCEPT ![conn] = Null]
      /\ toSender' = [toSender EXCEPT ![conn] = m]
      /\ UNCHANGED <<hubStatus, senderState, hub, backlog, process, conn, written, rcvd, keyFile>>
  BY DEF ReceiverAnswers, hubVars
<1>2. process = "running" /\ receiverState = n /\ toReceiver[conn] # Null
  BY DEF ReceiverRuns
<1>3. conn \in Session /\ conn # Null /\ toSender[conn] = Null
  BY <1>2 DEF IInv, Types, OrNull
<1>4. HubHas(hub[conn], senderState[conn])
      /\ Conversation(hub[conn], user, senderState[conn], n, toReceiver[conn], Null)
  BY <1>2, <1>3 DEF IInv, Hub, Connected, Talk
<1>5. Conversation(hub[conn], u2, senderState[conn], n2, Null, m)
      /\ SenderInput(senderState[conn], m)
  BY <1>4 DEF Replies
<1>6. u2 \in UserRecord
  BY <1>5 DEF Conversation, UserHas
<1>7. Types'
  BY <1>1, <1>3, <1>6 DEF IInv, Types
<1>8. toReceiver'[conn] = Null /\ toSender'[conn] = m
      /\ \A q \in Session : q # conn =>
           toReceiver'[q] = toReceiver[q] /\ toSender'[q] = toSender[q]
  BY <1>1, <1>3 DEF IInv, Types
<1>9. hubStatus[conn] # "idle"
  BY <1>3 DEF IInv, Connected
<1>10. ASSUME NEW q \in Session PROVE Hub(q)'
  <2>1. CASE q = conn
    BY <1>1, <1>4, <1>5, <1>8, <1>9, <2>1 DEF Hub
  <2>2. CASE q # conn
    BY <1>1, <1>8, <2>2 DEF IInv, Hub
  <2> QED BY <2>1, <2>2
<1>11. Waiting'
  <2>1. \A i \in 1 .. Len(backlog) : backlog[i] \in Session
    BY DEF IInv, Types
  <2> QED BY <1>1, <1>8, <2>1 DEF IInv, Waiting, Talk
<1>12. Connected'
  <2>1. Talk(conn, user, receiverState)'
    BY <1>1, <1>5, <1>8 DEF Talk
  <2> QED BY <1>1, <1>2, <1>3, <1>9, <2>1 DEF IInv, Connected
<1> QED BY <1>7, <1>10, <1>11, <1>12 DEF IInv

(* The user's process ends: nothing is left of the conversation.           *)
LEMMA EndKeeps == ASSUME IInv, ProcessEnds PROVE IInv'
<1>1. /\ process' = "down" /\ conn' = Null /\ backlog' = <<>>
      /\ receiverState' = 2 /\ user' = EmptyUser /\ written' = 0
      /\ UNCHANGED <<hubStatus, senderState, hub, toReceiver, toSender, rcvd, keyFile>>
  BY DEF ProcessEnds, hubVars, wire
<1>2. Types'
  BY <1>1, EmptyUserRecord, SizeAssumption DEF IInv, Types, OrNull, UserStates
<1>3. ASSUME NEW q \in Session PROVE Hub(q)'
  BY <1>1 DEF IInv, Hub
<1>4. Waiting' /\ Connected'
  BY <1>1 DEF Waiting, Connected
<1> QED BY <1>2, <1>3, <1>4 DEF IInv

(* A connection is made: a fresh one, behind those that wait.              *)
LEMMA BeginKeeps == ASSUME IInv, NEW s \in Session, sender_init_transfer1(s) PROVE IInv'
<1>1. PICK g \in Generator, sk \in DrawOne :
        /\ hub' = [hub EXCEPT ![s] = [EmptyHub EXCEPT !.g = g, !.sk = sk]]
        /\ toReceiver' = [toReceiver EXCEPT ![s] = [S |-> [g |-> g, sender_pk |-> Pow(g, sk)]]]
  BY Zenon DEF sender_init_transfer1
<1> DEFINE h2 == [EmptyHub EXCEPT !.g = g, !.sk = sk]
           m == [S |-> [g |-> g, sender_pk |-> Pow(g, sk)]]
<1>2. /\ hubStatus[s] = "idle" /\ backlog' = Append(backlog, s)
      /\ hubStatus' = [hubStatus EXCEPT ![s] = "running"]
      /\ senderState' = [senderState EXCEPT ![s] = 3]
      /\ UNCHANGED <<toSender, process, conn, receiverState, user, written, rcvd, keyFile>>
  BY DEF sender_init_transfer1
<1>3. g \in Group /\ sk \in Scalar
  BY DrawAssumption
<1>4. h2 \in HubRecord /\ h2.g = g /\ h2.sk = sk /\ h2.B = Null /\ h2.reRandEnc = Null
  BY <1>3 DEF EmptyHub, HubRecord, OrNull
<1>5. m.S = [g |-> h2.g, sender_pk |-> Pow(h2.g, h2.sk)]
  BY <1>4
<1> HIDE DEF h2, m
<1>6. HubHas(h2, 3)
  BY <1>3, <1>4 DEF HubHas
<1>7. Conversation(h2, EmptyUser, 3, 2, m, Null)
  <2>1. UserHas(h2, EmptyUser, 2)
    <3>1. EmptyUser.enc = Null /\ EmptyUser.decRecLayer = Null /\ EmptyUser.parts = <<>>
      BY DEF EmptyUser
    <3> QED BY <3>1, EmptyUserRecord DEF UserHas
  <2>2. HubKnows(h2, EmptyUser, 3) /\ ToReceiver(h2, 2, m)
    BY <1>5 DEF HubKnows, ToReceiver
  <2> QED BY <2>1, <2>2 DEF Conversation, HubStates, UserStates
<1>8. /\ hub'[s] = h2 /\ senderState'[s] = 3 /\ toReceiver'[s] = m /\ hubStatus'[s] = "running"
      /\ toSender[s] = Null /\ toSender' = toSender
      /\ \A q \in Session : q # s =>
           /\ hub'[q] = hub[q] /\ senderState'[q] = senderState[q]
           /\ toReceiver'[q] = toReceiver[q] /\ hubStatus'[q] = hubStatus[q]
  BY <1>1, <1>2 DEF IInv, Types, Hub, h2, m
<1>9. /\ backlog \in Seq(Session) /\ backlog' \in Seq(Session)
      /\ Len(backlog') = Len(backlog) + 1 /\ backlog'[Len(backlog) + 1] = s
      /\ \A i \in 1 .. Len(backlog) : backlog'[i] = backlog[i] /\ backlog[i] \in Session
  BY <1>2, AppendProperties DEF IInv, Types
<1>10. s # conn /\ \A i \in 1 .. Len(backlog) : backlog[i] # s
  <2>1. s # Null
    BY DrawAssumption
  <2> QED BY <1>2, <2>1 DEF IInv, Waiting, Connected
<1>11. Types'
  <2>1. /\ hub' \in [Session -> HubRecord]
        /\ toReceiver' = [q \in Session |-> toReceiver'[q]]
        /\ \A q \in Session : toReceiver'[q] = Null \/ toSender'[q] = Null
    BY <1>1, <1>4, <1>8 DEF IInv, Types, h2, m
  <2> QED BY <1>2, <1>9, <2>1 DEF IInv, Types, HubStates
<1>12. ASSUME NEW q \in Session PROVE Hub(q)'
  BY <1>6, <1>8 DEF IInv, Hub
<1>13. Waiting'
  <2>1. ASSUME NEW i \in 1 .. Len(backlog')
        PROVE  /\ hubStatus'[backlog'[i]] # "idle" /\ backlog'[i] # conn'
               /\ Talk(backlog[i], EmptyUser, 2)'
    <3>1. CASE i = Len(backlog) + 1
      BY <1>2, <1>7, <1>8, <1>9, <1>10, <3>1 DEF Talk
    <3>2. CASE i \in 1 .. Len(backlog)
      <4>1. backlog'[i] = backlog[i] /\ backlog[i] \in Session /\ backlog[i] # s
        BY <1>9, <1>10, <3>2
      <4> QED BY <1>2, <1>8, <3>2, <4>1 DEF IInv, Waiting, Talk
    <3> QED BY <1>9, <3>1, <3>2
  <2>2. \A i, j \in 1 .. Len(backlog') : backlog'[i] = backlog'[j] => i = j
    BY <1>9, <1>10 DEF IInv, Waiting
  <2> QED BY <2>1, <2>2 DEF Waiting
<1>14. Connected'
  <2>1. conn # Null => conn \in Session
    BY DEF IInv, Types, OrNull
  <2> QED BY <1>2, <1>8, <1>10, <2>1 DEF IInv, Connected, Talk
<1> QED BY <1>11, <1>12, <1>13, <1>14 DEF IInv

(* The connection that has waited longest is accepted: both sides are      *)
(* still at their beginnings.                                              *)
LEMMA AcceptKeeps == ASSUME IInv, Accept PROVE IInv'
<1>1. /\ process = "listening" /\ backlog # <<>> /\ process' = "running"
      /\ conn' = Head(backlog) /\ backlog' = Tail(backlog)
      /\ UNCHANGED <<hubStatus, senderState, hub, toReceiver, toSender, receiverState, user,
                     written, rcvd, keyFile>>
  BY DEF Accept, hubVars, wire
<1>2. /\ backlog \in Seq(Session) /\ Len(backlog) \in Nat /\ Len(backlog) > 0
      /\ conn' = backlog[1] /\ backlog' \in Seq(Session) /\ Len(backlog') = Len(backlog) - 1
      /\ \A i \in 1 .. Len(backlog') : backlog'[i] = backlog[i + 1] /\ backlog[i + 1] \in Session
      /\ conn' \in Session
  BY <1>1, HeadTailProperties DEF IInv, Types
<1>3. conn = Null /\ user = EmptyUser /\ receiverState = 2
  BY <1>1 DEF IInv, Types, Connected
<1>4. Types'
  <2>1. conn' # Null
    BY <1>2, DrawAssumption
  <2> QED BY <1>1, <1>2, <2>1 DEF IInv, Types, OrNull
<1>5. ASSUME NEW q \in Session PROVE Hub(q)'
  BY <1>1 DEF IInv, Hub
<1>6. Waiting'
  <2>1. ASSUME NEW i \in 1 .. Len(backlog')
        PROVE  /\ hubStatus'[backlog'[i]] # "idle" /\ backlog'[i] # conn'
               /\ Talk(backlog[i], EmptyUser, 2)'
    <3>1. i + 1 \in 1 .. Len(backlog) /\ 1 \in 1 .. Len(backlog) /\ i + 1 # 1
      BY <1>2
    <3>2. backlog'[i] = backlog[i + 1]
      BY <1>2
    <3> QED BY <1>1, <1>2, <3>1, <3>2 DEF IInv, Waiting, Talk
  <2>2. \A i, j \in 1 .. Len(backlog') : backlog'[i] = backlog'[j] => i = j
    <3>1. SUFFICES ASSUME NEW i \in 1 .. Len(backlog'), NEW j \in 1 .. Len(backlog'),
                          backlog'[i] = backlog'[j]
                   PROVE  i = j
      OBVIOUS
    <3>2. i + 1 \in 1 .. Len(backlog) /\ j + 1 \in 1 .. Len(backlog)
      BY <1>2
    <3>3. backlog[i + 1] = backlog[j + 1]
      BY <1>2, <3>1
    <3>4. i + 1 = j + 1
      BY <3>2, <3>3 DEF IInv, Waiting
    <3> QED BY <1>2, <3>4
  <2> QED BY <2>1, <2>2 DEF Waiting
<1>7. Connected'
  <2>1. 1 \in 1 .. Len(backlog)
    BY <1>2
  <2>2. hubStatus[backlog[1]] # "idle" /\ Talk(backlog[1], EmptyUser, 2)
    BY <2>1 DEF IInv, Waiting
  <2> QED BY <1>1, <1>2, <1>3, <2>2 DEF IInv, Connected, Talk
<1> QED BY <1>4, <1>5, <1>6, <1>7 DEF IInv

(* What handler 16 writes.                                                 *)
LEMMA Opening ==
  ASSUME IInv, process = "filling"
  PROVE  OpenJar(AllParts, user.decRecLayer, user.sk, written)
           = Jar(written, KeyBit(user.sk, written))
<1> DEFINE h == hub[conn]
           w == written
           bit == KeyBit(user.sk, w)
           n == 2 * w + bit + 1
           arr == OutArray(h.points)
<1>1. conn \in Session /\ conn # Null /\ w \in Row /\ w \in Nat /\ Rows \in Nat
  BY SizeAssumption DEF IInv, Types, Connected, OrNull, Row
<1>2. Talk(conn, user, 16) /\ Len(user.parts) = 4 /\ HubHas(h, senderState[conn])
  BY <1>1 DEF IInv, Connected, Hub
<1>3. UserHas(h, user, 16) /\ senderState[conn] = 15
  BY <1>2 DEF Talk, Conversation, HubStates
<1>4. h.points \in Pairs /\ user.decRecLayer = ChosenOf(h.points, user.sk)
      /\ \A k \in 1 .. 4 : user.parts[k] = Slice(arr, k)
  BY <1>2, <1>3 DEF HubHas, UserHas
<1>5. bit \in {0, 1}
  BY Bits DEF Version
<1> HIDE DEF bit
<1>6. n \in 1 .. 2 * Rows /\ (n - 1) \div 2 = w /\ (n - 1) % 2 = bit
  <2>1. w <= Rows - 1
    BY <1>1 DEF Row
  <2> QED BY <1>1, <1>5, <2>1
<1> HIDE DEF n
<1>7. AllParts[n] = arr[n]
  <2>1. AllParts = Slice(arr, 1) \o Slice(arr, 2) \o Slice(arr, 3) \o Slice(arr, 4)
    <3>1. /\ user.parts[1] = Slice(arr, 1) /\ user.parts[2] = Slice(arr, 2)
          /\ user.parts[3] = Slice(arr, 3) /\ user.parts[4] = Slice(arr, 4)
      BY <1>4
    <3> QED BY <3>1, Zenon DEF AllParts
  <2>2. arr \in [1 .. 2 * Rows -> Sealed(Jars)]
    BY <1>4, ArrayType
  <2> HIDE DEF arr
  <2>3. (Slice(arr, 1) \o Slice(arr, 2) \o Slice(arr, 3) \o Slice(arr, 4))[n] = arr[n]
    BY <1>6, <2>2, Together, Zenon
  <2> QED BY <2>1, <2>3
<1>8. arr[n] = Encrypt(h.points[w][bit], Jar(w, bit))
  BY <1>6 DEF OutArray
<1>9. user.decRecLayer[w] = h.points[w][bit]
  BY <1>1, <1>4 DEF ChosenOf, bit
<1>10. OpenJar(AllParts, user.decRecLayer, user.sk, w) = Decrypt(user.decRecLayer[w], AllParts[n])
  BY DEF OpenJar, n, bit
<1>11. Decrypt(h.points[w][bit], Encrypt(h.points[w][bit], Jar(w, bit))) = Jar(w, bit)
  BY DEF Encrypt, Decrypt
<1> QED BY <1>1, <1>7, <1>8, <1>9, <1>10, <1>11 DEF bit

(* A file is opened, which empties it; it is filled and closed.            *)
LEMMA OpenKeeps == ASSUME IInv, OpenFile PROVE IInv'
<1>1. /\ process = "writing" /\ written < Rows /\ process' = "filling"
      /\ rcvd' = [rcvd EXCEPT ![written] = Torn]
      /\ UNCHANGED <<hubStatus, senderState, hub, toReceiver, toSender, backlog, conn,
                     receiverState, user, written, keyFile>>
  BY DEF OpenFile, hubVars, wire
<1>2. written \in Row /\ rcvd \in [Row -> OrNull(Jars) \cup {Torn}]
  BY <1>1, SizeAssumption DEF IInv, Types, Row
<1>3. rcvd' \in [Row -> OrNull(Jars) \cup {Torn}] /\ rcvd'[written] = Torn
  BY <1>1, <1>2
<1>4. Types'
  BY <1>1, <1>3 DEF IInv, Types
<1>5. ASSUME NEW q \in Session PROVE Hub(q)'
  BY <1>1 DEF IInv, Hub
<1>6. Waiting'
  BY <1>1 DEF IInv, Waiting, Talk
<1>7. Connected'
  BY <1>1, <1>2, <1>3 DEF IInv, Connected, Talk
<1> QED BY <1>4, <1>5, <1>6, <1>7 DEF IInv

LEMMA WriteKeeps == ASSUME IInv, WriteFile PROVE IInv'
<1>1. /\ process = "filling" /\ process' = "writing" /\ written' = written + 1
      /\ rcvd' = [rcvd EXCEPT ![written] = Jar(written, KeyBit(user.sk, written))]
      /\ UNCHANGED <<hubStatus, senderState, hub, toReceiver, toSender, backlog, conn,
                     receiverState, user, keyFile>>
  BY Opening DEF WriteFile, hubVars, wire
<1>2. written \in Row
  BY <1>1 DEF IInv, Connected
<1>3. Jar(written, KeyBit(user.sk, written)) \in OrNull(Jars)
  BY <1>2, Bits DEF Jar, Jars, OrNull
<1>4. Types'
  <2>1. written' \in 0 .. Rows
    BY <1>1, <1>2, SizeAssumption DEF Row
  <2>2. rcvd' \in [Row -> OrNull(Jars) \cup {Torn}]
    BY <1>1, <1>2, <1>3 DEF IInv, Types
  <2> QED BY <1>1, <2>1, <2>2 DEF IInv, Types
<1>5. ASSUME NEW q \in Session PROVE Hub(q)'
  BY <1>1 DEF IInv, Hub
<1>6. Waiting' /\ Connected'
  BY <1>1 DEF IInv, Waiting, Connected, Talk
<1> QED BY <1>4, <1>5, <1>6 DEF IInv

-----------------------------------------------------------------------------
(* Every handler keeps the invariant.                                      *)
LEMMA HubSteps == ASSUME IInv, NEW s \in Session, SenderStep(s) PROVE IInv'
<1> DEFINE h == hub[s]
           y == toSender[s]
<1>1. HubHas(h, senderState[s]) /\ (y # Null => SenderInput(senderState[s], y))
  BY DEF IInv, Hub
<1>2. CASE sender_transfer3(s)
  <2>1. PICK points \in Points, r \in Draw, a \in Draw :
          SenderAnswers(s, [h EXCEPT !.common_pk = y.S2.common_pk, !.points = points,
                                     !.randomVals = r, !.a = a], 5,
            [S3 |-> [elgPoints |-> ElGamalEnc2(points, r, y.S2.common_pk),
                     A |-> Offers(h.g, a)]])
    BY <1>2, Zenon DEF sender_transfer3
  <2> DEFINE m == [S3 |-> [elgPoints |-> ElGamalEnc2(points, r, y.S2.common_pk),
                           A |-> Offers(h.g, a)]]
  <2>2. SenderRuns(s, 3) /\ UNCHANGED hubStatus
    BY <1>2 DEF sender_transfer3
  <2>3. points \in Pairs /\ r \in Scalars /\ a \in Scalars
    BY DrawAssumption DEF Pairs, Scalars
  <2>4. y # Null /\ HubHas(h, 3) /\ SenderInput(3, y)
    BY <1>1, <2>2 DEF SenderRuns
  <2>5. m.S3.A = Offers(h.g, a)
    OBVIOUS
  <2> HIDE DEF m
  <2> DEFINE h2 == [h EXCEPT !.common_pk = y.S2.common_pk, !.points = points,
                             !.randomVals = r, !.a = a]
  <2>6. Answers(h, 3, y, h2, 5, m)
    BY <2>3, <2>4, <2>5, Answer3, Zenon
  <2>7. SenderAnswers(s, h2, 5, m)
    BY <2>1, Zenon DEF m
  <2> HIDE DEF h2
  <2>8. 5 \in HubStates
    BY DEF HubStates
  <2> QED BY <2>2, <2>6, <2>7, <2>8, SenderKeeps
<1>3. CASE init_ot5(s)
  <2> DEFINE m == [enc |-> OTEncrypt(ElGamalEnc2(h.points, h.randomVals, h.common_pk),
                                     Offers(h.g, h.a), y.B, h.a)]
             h2 == [h EXCEPT !.B = y.B]
  <2>1. SenderRuns(s, 5) /\ SenderAnswers(s, h2, 7, m) /\ UNCHANGED hubStatus
    BY <1>3, Zenon DEF init_ot5
  <2>2. y # Null /\ HubHas(h, 5) /\ SenderInput(5, y)
    BY <1>1, <2>1 DEF SenderRuns
  <2>3. m.enc = OTEncrypt(ElGamalEnc2(h.points, h.randomVals, h.common_pk),
                          Offers(h.g, h.a), y.B, h.a)
    OBVIOUS
  <2> HIDE DEF m
  <2>4. Answers(h, 5, y, h2, 7, m)
    BY <2>2, <2>3, Answer5, Zenon
  <2> HIDE DEF h2
  <2>5. 7 \in HubStates
    BY DEF HubStates
  <2> QED BY <2>1, <2>4, <2>5, SenderKeeps
<1>4. CASE sender_dec_layer7(s)
  <2> DEFINE m == [decSenderLayer |-> StripLayer(y.reRandEnc, h.randomVals, h.common_pk)]
             h2 == [h EXCEPT !.reRandEnc = y.reRandEnc]
  <2>1. SenderRuns(s, 7) /\ SenderAnswers(s, h2, 9, m) /\ UNCHANGED hubStatus
    BY <1>4, Zenon DEF sender_dec_layer7
  <2>2. y # Null /\ HubHas(h, 7) /\ SenderInput(7, y)
    BY <1>1, <2>1 DEF SenderRuns
  <2>3. m.decSenderLayer = StripLayer(y.reRandEnc, h.randomVals, h.common_pk)
    OBVIOUS
  <2> HIDE DEF m
  <2>4. Answers(h, 7, y, h2, 9, m)
    BY <2>2, <2>3, Answer7, Zenon
  <2> HIDE DEF h2
  <2>5. 9 \in HubStates
    BY DEF HubStates
  <2> QED BY <2>1, <2>4, <2>5, SenderKeeps
<1>5. CASE send_encryptions9(s)
  <2> DEFINE m == [outArray |-> Slice(OutArray(h.points), 1)]
             h2 == [h EXCEPT !.outArray = OutArray(h.points)]
  <2>1. SenderRuns(s, 9) /\ SenderAnswers(s, h2, 11, m) /\ UNCHANGED hubStatus
    BY <1>5, Zenon DEF send_encryptions9
  <2>2. y # Null /\ HubHas(h, 9)
    BY <1>1, <2>1 DEF SenderRuns
  <2>3. m.outArray = Slice(OutArray(h.points), 1)
    OBVIOUS
  <2> HIDE DEF m
  <2>4. Answers(h, 9, y, h2, 11, m)
    BY <2>2, <2>3, Answer9, Zenon
  <2> HIDE DEF h2
  <2>5. 11 \in HubStates
    BY DEF HubStates
  <2> QED BY <2>1, <2>4, <2>5, SenderKeeps
<1>6. CASE send_enc_part2_11(s)
  <2> DEFINE m == [outArray |-> Slice(h.outArray, 2)]
  <2>1. SenderRuns(s, 11) /\ SenderAnswers(s, h, 13, m) /\ UNCHANGED hubStatus
    BY <1>6, Zenon DEF send_enc_part2_11
  <2>2. y # Null /\ HubHas(h, 11) /\ m.outArray = Slice(h.outArray, 2)
    BY <1>1, <2>1 DEF SenderRuns
  <2> HIDE DEF m
  <2>3. Answers(h, 11, y, h, 13, m)
    BY <2>2, AnswerPart
  <2> QED BY <2>1, <2>3, SenderKeeps DEF HubStates
<1>7. CASE send_enc_part3_13(s)
  <2> DEFINE m == [outArray |-> Slice(h.outArray, 3)]
  <2>1. SenderRuns(s, 13) /\ SenderAnswers(s, h, 15, m) /\ UNCHANGED hubStatus
    BY <1>7, Zenon DEF send_enc_part3_13
  <2>2. y # Null /\ HubHas(h, 13) /\ m.outArray = Slice(h.outArray, 3)
    BY <1>1, <2>1 DEF SenderRuns
  <2> HIDE DEF m
  <2>3. Answers(h, 13, y, h, 15, m)
    BY <2>2, AnswerPart
  <2> QED BY <2>1, <2>3, SenderKeeps DEF HubStates
<1>8. CASE send_enc_part4_15(s)
  <2> DEFINE m == [outArray |-> Slice(h.outArray, 4)]
  <2>1. SenderRuns(s, 15) /\ SenderAnswers(s, h, 15, m)
        /\ hubStatus' = [hubStatus EXCEPT ![s] = "completed"]
    BY <1>8, Zenon DEF send_enc_part4_15
  <2>2. y # Null /\ HubHas(h, 15) /\ m.outArray = Slice(h.outArray, 4)
    BY <1>1, <2>1 DEF SenderRuns
  <2> HIDE DEF m
  <2>3. Answers(h, 15, y, h, 15, m)
    BY <2>2, AnswerPart
  <2> QED BY <2>1, <2>3, SenderKeeps DEF HubStates
<1>9. CASE JarMissing(s)
  BY <1>9, AbortKeeps DEF JarMissing, SenderRuns
<1>10. CASE SenderTimeout(s)
  BY <1>10, AbortKeeps DEF SenderTimeout
<1> QED BY <1>2, <1>3, <1>4, <1>5, <1>6, <1>7, <1>8, <1>9, <1>10 DEF SenderStep

(* Handlers 10, 12 and 14 store a part and ask for the next.               *)
LEMMA PartKeeps ==
  ASSUME IInv, NEW n \in {10, 12, 14}, recv_encryptions(n)
  PROVE  IInv'
<1> DEFINE h == hub[conn]
           p == senderState[conn]
           x == toReceiver[conn]
           u2 == WithPart(user, x)
           n2 == n + 2
           m == [msg |-> "GotIt"]
<1>1. ReceiverRuns(n) /\ ReceiverAnswers(u2, n2, m)
  BY DEF recv_encryptions, WithPart
<1>2. conn \in Session /\ x # Null /\ conn # Null /\ receiverState = n /\ toSender[conn] = Null
  BY <1>1 DEF ReceiverRuns, IInv, Types, OrNull
<1>3. HubHas(h, p) /\ Conversation(h, user, p, n, x, Null)
  BY <1>2 DEF IInv, Hub, Connected, Talk
<1>4. n \in {10, 12, 14, 16} /\ n # 16 /\ n2 = (IF n = 16 THEN 16 ELSE n + 2)
      /\ n2 \in UserStates /\ n \in UserStates
  BY DEF UserStates
<1>5. /\ p >= 9 /\ UserHas(h, u2, n2) /\ HubKnows(h, u2, p)
      /\ n = 14 => Len(u2.parts) = 3
  <2>1. n = 16 => Len(user.parts) = 3
    BY <1>4
  <2> HIDE DEF n2
  <2>2. Stores(h, user, p, n, n2, u2)
    BY <1>2, <1>3, <1>4, <2>1, Stored, Zenon
  <2> QED BY <2>2 DEF Stores
<1>6. p = n + 1 /\ p \in HubStates \ {1}
  BY <1>2, <1>3, <1>4 DEF Conversation
<1> HIDE DEF u2, m
<1>7. Conversation(h, u2, p, n2, Null, m) /\ SenderInput(p, m)
  <2>1. ToSender(h, u2, p, m) /\ SenderInput(p, m)
    BY <1>4, <1>6 DEF ToSender, SenderInput
  <2>2. n2 = p + 1
    BY <1>4, <1>6
  <2> QED BY <1>4, <1>5, <1>6, <2>1, <2>2 DEF Conversation
<1>8. Replies(h, user, p, n, x, u2, n2, m)
  BY <1>7 DEF Replies
<1>9. n2 = 16 => Len(u2.parts) = 3
  BY <1>4, <1>5
<1> HIDE DEF n2
<1> QED BY <1>1, <1>4, <1>8, <1>9, ReceiverKeeps

(* Handler 16 stores the last part; the hub's handler is 15 and stays it.  *)
LEMMA LastPartKeeps == ASSUME IInv, rec_enc_part4_16 PROVE IInv'
<1> DEFINE h == hub[conn]
           p == senderState[conn]
           x == toReceiver[conn]
           u2 == WithPart(user, x)
<1>1. /\ user' = u2 /\ toReceiver' = [toReceiver EXCEPT ![conn] = Null]
      /\ process' = "writing"
      /\ UNCHANGED <<hubStatus, senderState, hub, toSender, backlog, conn, receiverState,
                     written, rcvd, keyFile>>
  BY DEF rec_enc_part4_16, hubVars, WithPart
<1>2. process = "running" /\ receiverState = 16 /\ x # Null
  BY DEF rec_enc_part4_16, ReceiverRuns
<1>3. conn \in Session /\ conn # Null /\ toSender[conn] = Null /\ Len(user.parts) = 3
  BY <1>2 DEF IInv, Types, OrNull, Connected
<1>4. HubHas(h, p) /\ Conversation(h, user, p, 16, x, Null)
  BY <1>2, <1>3 DEF IInv, Hub, Connected, Talk
<1>5. UserHas(h, u2, 16) /\ HubKnows(h, u2, p) /\ Len(u2.parts) = 4
  <2>1. /\ 16 = (IF 16 = 16 THEN 16 ELSE 16 + 2) /\ 16 \in {10, 12, 14, 16}
        /\ 16 = 16 => Len(user.parts) = 3
    BY <1>3
  <2>2. Stores(h, user, p, 16, 16, u2)
    BY <1>2, <1>3, <1>4, <2>1, Stored, Zenon
  <2> QED BY <2>2 DEF Stores
<1> HIDE DEF u2
<1>6. Conversation(h, u2, p, 16, Null, Null)
  BY <1>4, <1>5 DEF Conversation
<1>7. u2 \in UserRecord
  BY <1>5 DEF UserHas
<1>8. toReceiver'[conn] = Null /\ toSender'[conn] = Null
      /\ \A q \in Session : q # conn => toReceiver'[q] = toReceiver[q]
  BY <1>1, <1>3 DEF IInv, Types
<1>9. Types'
  BY <1>1, <1>3, <1>7 DEF IInv, Types
<1>10. ASSUME NEW q \in Session PROVE Hub(q)'
  BY <1>1 DEF IInv, Hub
<1>11. Waiting'
  <2>1. \A i \in 1 .. Len(backlog) : backlog[i] \in Session
    BY DEF IInv, Types
  <2> QED BY <1>1, <1>8, <2>1 DEF IInv, Waiting, Talk
<1>12. Connected'
  <2>1. Talk(conn, user, receiverState)'
    BY <1>1, <1>2, <1>6, <1>8 DEF Talk
  <2>2. written = 0
    BY <1>2 DEF IInv, Connected
  <2> QED BY <1>1, <1>2, <1>3, <1>5, <2>1, <2>2 DEF IInv, Connected
<1> QED BY <1>9, <1>10, <1>11, <1>12 DEF IInv

(* The user's handlers that answer, and the rest of its process.           *)
LEMMA UserSteps == ASSUME IInv, ReceiverStep PROVE IInv'
<1> DEFINE h == hub[conn]
           p == senderState[conn]
           x == toReceiver[conn]
<1>1. CASE receiver_init_transfer2
  <2> DEFINE u2 == [user EXCEPT !.sk = keyFile, !.common_pk = Pow(x.S.sender_pk, keyFile),
                                !.g = x.S.g]
             m == [S2 |-> [receiver_pk |-> Pow(x.S.g, keyFile),
                           common_pk |-> Pow(x.S.sender_pk, keyFile)]]
  <2>1. ReceiverRuns(2) /\ ReceiverAnswers(u2, 4, m)
    BY <1>1, Zenon DEF receiver_init_transfer2
  <2>2. x # Null /\ keyFile \in SecretKey /\ 4 # 16
    BY <2>1 DEF ReceiverRuns, IInv, Types
  <2>3. m.S2.common_pk = Pow(x.S.sender_pk, keyFile)
    OBVIOUS
  <2> HIDE DEF m
  <2>4. Replies(h, user, p, 2, x, u2, 4, m)
    BY <2>2, <2>3, Reply2, Zenon
  <2> HIDE DEF u2
  <2> QED BY <2>1, <2>2, <2>4, ReceiverKeeps DEF UserStates
<1>2. CASE receiver_transfer4
  <2>1. PICK b \in Draw :
          ReceiverAnswers([user EXCEPT !.A = x.S3.A, !.b = b], 6,
                          [B |-> Choices(x.S3.A, user.g, user.sk, b)])
    BY <1>2, Zenon DEF receiver_transfer4
  <2> DEFINE u2 == [user EXCEPT !.A = x.S3.A, !.b = b]
             m == [B |-> Choices(x.S3.A, user.g, user.sk, b)]
  <2>2. ReceiverRuns(4) /\ x # Null /\ b \in Scalars /\ 6 # 16
    BY <1>2, DrawAssumption DEF receiver_transfer4, ReceiverRuns, Scalars
  <2>3. m.B = Choices(x.S3.A, user.g, user.sk, b)
    OBVIOUS
  <2> HIDE DEF m
  <2>4. Replies(h, user, p, 4, x, u2, 6, m)
    BY <2>2, <2>3, Reply4, Zenon
  <2>5. ReceiverAnswers(u2, 6, m)
    BY <2>1, Zenon DEF m
  <2> HIDE DEF u2
  <2> QED BY <2>2, <2>4, <2>5, ReceiverKeeps DEF UserStates
<1>3. CASE recv_ot6
  <2>1. PICK r \in Draw :
          ReceiverAnswers([user EXCEPT !.enc = x.enc, !.recRandVals = r], 8,
            [reRandEnc |-> ReRandElGamal(OTDecrypt(x.enc, user.A, user.b, user.sk), r,
                                         user.common_pk)])
    BY <1>3, Zenon DEF recv_ot6
  <2> DEFINE u2 == [user EXCEPT !.enc = x.enc, !.recRandVals = r]
             m == [reRandEnc |-> ReRandElGamal(OTDecrypt(x.enc, user.A, user.b, user.sk), r,
                                               user.common_pk)]
  <2>2. ReceiverRuns(6) /\ x # Null /\ r \in Scalars /\ 8 # 16
    BY <1>3, DrawAssumption DEF recv_ot6, ReceiverRuns, Scalars
  <2>3. m.reRandEnc = ReRandElGamal(OTDecrypt(x.enc, user.A, user.b, user.sk), r,
                                    user.common_pk)
    OBVIOUS
  <2> HIDE DEF m
  <2>4. Replies(h, user, p, 6, x, u2, 8, m)
    BY <2>2, <2>3, Reply6, Zenon
  <2>5. ReceiverAnswers(u2, 8, m)
    BY <2>1, Zenon DEF m
  <2> HIDE DEF u2
  <2> QED BY <2>2, <2>4, <2>5, ReceiverKeeps DEF UserStates
<1>4. CASE final_recv8
  <2> DEFINE u2 == [user EXCEPT !.decRecLayer =
                      StripLayer(x.decSenderLayer, user.recRandVals, user.common_pk)]
             m == [msg |-> "OK"]
  <2>1. ReceiverRuns(8) /\ ReceiverAnswers(u2, 10, m)
    BY <1>4, Zenon DEF final_recv8
  <2>2. x # Null /\ 10 # 16
    BY <2>1 DEF ReceiverRuns
  <2> HIDE DEF m
  <2>3. Replies(h, user, p, 8, x, u2, 10, m)
    BY <2>2, Reply8, Zenon
  <2> HIDE DEF u2
  <2> QED BY <2>1, <2>2, <2>3, ReceiverKeeps DEF UserStates
<1>5. CASE \E n \in {10, 12, 14} : recv_encryptions(n)
  BY <1>5, PartKeeps
<1>6. CASE AllWritten \/ ConnectionClosed
  BY <1>6, EndKeeps DEF AllWritten, ConnectionClosed
<1> QED BY <1>1, <1>2, <1>3, <1>4, <1>5, <1>6, LastPartKeeps, OpenKeeps, WriteKeeps
    DEF ReceiverStep

(* Every step keeps the invariant.                                         *)
LEMMA NextKeeps == IInv /\ [Next]_vars => IInv'
<1> SUFFICES ASSUME IInv, [Next]_vars PROVE IInv'
  OBVIOUS
<1>1. ASSUME NEW s \in Session, ConnectionRefused(s) PROVE IInv'
  <2>1. toSender[s] = Null
    BY <1>1 DEF ConnectionRefused, IInv, Hub
  <2> QED BY <1>1, <2>1, AbortKeeps DEF ConnectionRefused
<1>2. CASE StartService
  <2>1. /\ process = "down" /\ process' = "listening"
        /\ UNCHANGED <<hubStatus, senderState, hub, toReceiver, toSender, backlog, conn,
                       receiverState, user, written, rcvd, keyFile>>
    BY <1>2 DEF StartService, hubVars, wire
  <2>2. Types'
    BY <2>1 DEF IInv, Types
  <2>3. (\A q \in Session : Hub(q)') /\ Waiting' /\ Connected'
    BY <2>1 DEF IInv, Hub, Waiting, Connected, Talk
  <2> QED BY <2>2, <2>3 DEF IInv
<1>3. CASE NewKey \/ UNCHANGED vars
  <2>1. /\ keyFile' \in SecretKey
        /\ UNCHANGED <<hubStatus, senderState, hub, toReceiver, toSender, backlog, process,
                       conn, receiverState, user, written, rcvd>>
    BY <1>3 DEF NewKey, vars, hubVars, wire, userVars, IInv, Types
  <2>2. Types'
    BY <2>1 DEF IInv, Types
  <2>3. (\A q \in Session : Hub(q)') /\ Waiting' /\ Connected'
    BY <2>1 DEF IInv, Hub, Waiting, Connected, Talk
  <2> QED BY <2>2, <2>3 DEF IInv
<1>4. CASE Crash
  BY <1>4, EndKeeps DEF Crash
<1> QED BY <1>1, <1>2, <1>3, <1>4, BeginKeeps, HubSteps, AcceptKeeps, UserSteps DEF Next

LEMMA Invariance == Spec => []IInv
BY InitGood, NextKeeps, PTL DEF Spec

-----------------------------------------------------------------------------
(* The variables have their types in every state (the constants' laws are  *)
(* the assumptions of PairingGroup and Oblivious).                         *)
THEOREM TypeCorrect == Spec => []TypeOK
<1>1. IInv => TypeOK
  BY TypesOK DEF IInv
<1> QED BY <1>1, Invariance, PTL

(* What the user keeps of a transfer comes from the hub it is connected    *)
(* with, and the hub from the handlers before.                             *)
LEMMA Partner ==
  ASSUME IInv, conn # Null
  PROVE  /\ conn \in Session /\ UserHas(hub[conn], user, receiverState)
         /\ HubHas(hub[conn], senderState[conn])
         /\ receiverState \in UserStates /\ senderState[conn] \in HubStates
         /\ (senderState[conn] = receiverState + 1 \/ receiverState = senderState[conn] + 1)
BY DEF IInv, Types, OrNull, Hub, Connected, Talk, Conversation

(* Handler 6 never fails on a key: of an honest hub every chosen           *)
(* ciphertext opens (sofTran.py lines 243, 261-262, 296).                  *)
THEOREM CiphertextsOpen == Spec => []ChosenCiphertextsOpen
<1>1. ASSUME IInv, ReceiverRuns(6), NEW i \in Row
      PROVE  OTDecrypt(toReceiver[conn].enc, user.A, user.b, user.sk)[i] # Garbage
  <2>1. conn # Null /\ receiverState = 6 /\ toReceiver[conn] # Null
    BY <1>1 DEF ReceiverRuns, IInv, Types
  <2>2. /\ HubHas(hub[conn], senderState[conn])
        /\ Conversation(hub[conn], user, senderState[conn], 6, toReceiver[conn], toSender[conn])
    BY <1>1, <2>1, Partner DEF IInv, Connected, Talk
  <2>3. /\ Layered(hub[conn]) \in Pairs
        /\ OTDecrypt(toReceiver[conn].enc, user.A, user.b, user.sk)
             = ChosenOf(Layered(hub[conn]), user.sk)
    BY <2>1, <2>2, Opens6
  <2>4. ChosenOf(Layered(hub[conn]), user.sk) \in Values
    BY <2>3, ChosenType
  <2>5. ChosenOf(Layered(hub[conn]), user.sk)[i] \in Group
    BY <2>4 DEF Values
  <2> QED BY <2>3, <2>5, KeyAssumption
<1>2. IInv => ChosenCiphertextsOpen
  BY <1>1 DEF ChosenCiphertextsOpen
<1> QED BY <1>2, Invariance, PTL

(* The user opens one version of a file only: the transfer key of a row    *)
(* does not fit the other version, nor do the points it learnt, if the     *)
(* hub's draws were such that they could keep anything apart (sofTran.py   *)
(* lines 196, 214, 261-262, 302-309, 332).                                 *)
THEOREM VersionsSealed == Spec => []OtherVersionSealed
<1> DEFINE h == hub[conn]
<1>1. ASSUME IInv, user.enc # Null, NEW i \in Row, Pow(user.A[i], h.a[i]) # One
      PROVE  user.enc[i][1 - KeyBit(user.sk, i)].key # ChosenKey(user.A, user.b, i)
  <2>1. conn # Null
    BY <1>1 DEF IInv, Connected, EmptyUser
  <2>2. receiverState >= 8 /\ receiverState >= 6 /\ receiverState >= 4
    BY <1>1, <2>1, Partner DEF UserHas, UserStates
  <2>3. senderState[conn] >= 5 /\ senderState[conn] >= 3
    BY <1>1, <2>1, <2>2, Partner DEF UserStates, HubStates
  <2>4. /\ user.A = Offers(h.g, h.a) /\ user.g = h.g /\ user.b \in Scalars
        /\ user.enc = OTEncrypt(Layered(h), user.A, ChosenBs(user), h.a)
    BY <1>1, <2>1, <2>2, Partner DEF UserHas
  <2>5. h.g \in Group /\ h.a \in Scalars
    BY <1>1, <2>1, <2>3, Partner DEF HubHas
  <2>6. ChosenBs(user) = Choices(Offers(h.g, h.a), h.g, user.sk, user.b)
    BY <2>4 DEF ChosenBs
  <2>7. OTKey(Offers(h.g, h.a), ChosenBs(user), h.a, i, 1 - KeyBit(user.sk, i))
          # ChosenKey(Offers(h.g, h.a), user.b, i)
    BY <1>1, <2>4, <2>5, <2>6, OtherKeyDiffers DEF Scalars
  <2>8. user.enc[i][1 - KeyBit(user.sk, i)].key
          = OTKey(Offers(h.g, h.a), ChosenBs(user), h.a, i, 1 - KeyBit(user.sk, i))
    BY <2>4, Bits DEF OTEncrypt, Encrypt
  <2> QED BY <2>4, <2>7, <2>8
<1>2. ASSUME IInv, user.decRecLayer # Null, PointsDiffer(h.points), NEW i \in Row, NEW k \in Row
      PROVE  user.decRecLayer[k] # h.points[i][1 - KeyBit(user.sk, i)]
  <2>1. conn # Null
    BY <1>2 DEF IInv, Connected, EmptyUser
  <2>2. receiverState >= 10
    BY <1>2, <2>1, Partner DEF UserHas, UserStates
  <2>3. user.decRecLayer = ChosenOf(h.points, user.sk)
    BY <1>2, <2>1, <2>2, Partner DEF UserHas
  <2>4. user.decRecLayer[k] = h.points[k][KeyBit(user.sk, k)]
    BY <2>3 DEF ChosenOf
  <2>5. KeyBit(user.sk, i) # 1 - KeyBit(user.sk, i)
    BY Bits DEF Version
  <2>6. k = i => KeyBit(user.sk, k) # 1 - KeyBit(user.sk, i)
    BY <2>5
  <2>7. \A j, l \in Version : h.points[k][j] = h.points[i][l] => k = i /\ j = l
    BY <1>2, Zenon DEF PointsDiffer
  <2>8. KeyBit(user.sk, k) \in Version /\ 1 - KeyBit(user.sk, i) \in Version
    BY Bits
  <2> QED BY <2>4, <2>6, <2>7, <2>8
<1>3. IInv => OtherVersionSealed
  BY <1>1, <1>2 DEF OtherVersionSealed
<1> QED BY <1>3, Invariance, PTL

-----------------------------------------------------------------------------
(* Factors can be cancelled on the left, and in quotients.                 *)
LEMMA LeftCancel ==
  ASSUME NEW x \in Group, NEW l \in Group, NEW m \in Group, Mul(x, l) = Mul(x, m)
  PROVE  l = m
<1>1. Mul(Mul(x, l), Inv(x)) = l
  BY Cancel
<1>2. Mul(Mul(x, m), Inv(x)) = m
  BY Cancel
<1> QED BY <1>1, <1>2

LEMMA Quotient ==
  ASSUME NEW x \in Group, NEW y \in Group
  PROVE  Mul(x, Inv(y)) \in Group /\ Mul(Mul(x, Inv(y)), y) = x
<1>1. Inv(y) \in Group
  BY GroupClosed
<1>2. Mul(Mul(x, Inv(y)), y) = Mul(x, Mul(Inv(y), y))
  BY <1>1, GroupLaws
<1>3. Mul(Inv(y), y) = One
  BY <1>1, GroupLaws
<1> QED BY <1>1, <1>2, <1>3, GroupClosed, GroupLaws

LEMMA QuotientCancel ==
  ASSUME NEW x \in Group, NEW y \in Group, NEW l \in Group, NEW m \in Group,
         Mul(Mul(x, l), Inv(Mul(y, m))) = Mul(x, Inv(y))
  PROVE  l = m
<1> DEFINE q == Mul(x, Inv(y))
           xl == Mul(x, l)
           ym == Mul(y, m)
<1>1. q \in Group /\ Mul(q, y) = x
  BY Quotient
<1>2. xl \in Group /\ ym \in Group
  BY GroupClosed
<1>3. Mul(Mul(xl, Inv(ym)), ym) = xl
  <2> HIDE DEF xl, ym
  <2> QED BY <1>2, Quotient
<1>4. Mul(q, ym) = xl
  BY <1>3
<1>5. Mul(q, ym) = Mul(Mul(q, y), m)
  <2> HIDE DEF q
  <2> QED BY <1>1, GroupLaws
<1>6. Mul(x, m) = Mul(x, l)
  <2> HIDE DEF q
  <2> QED BY <1>1, <1>4, <1>5
<1> QED BY <1>6, LeftCancel

(* Rows that a layer was put on show nothing of what is below.             *)
LEMMA LayerBlinds ==
  ASSUME NEW sent, NEW chosen \in Values, NEW layer \in Values,
         \A i \in Row : sent[i] = Mul(chosen[i], layer[i])
  PROVE  Blinded(sent, chosen, layer)
<1> SUFFICES ASSUME NEW i \in Row, NEW k \in Row
             PROVE  /\ sent[i] = chosen[i] => layer[i] = One
                    /\ Mul(sent[i], Inv(sent[k])) = Mul(chosen[i], Inv(chosen[k]))
                         => layer[i] = layer[k]
  BY DEF Blinded
<1>1. /\ chosen[i] \in Group /\ chosen[k] \in Group
      /\ layer[i] \in Group /\ layer[k] \in Group
  BY DEF Values
<1>2. sent[i] = chosen[i] => layer[i] = One
  BY <1>1, NoUnit
<1>3. Mul(sent[i], Inv(sent[k])) = Mul(chosen[i], Inv(chosen[k])) => layer[i] = layer[k]
  BY <1>1, QuotientCancel
<1> QED BY <1>2, <1>3

(* What the user returns does not give its choice away: the hub recognises *)
(* no row, and no relation between two rows, that it offered, unless the   *)
(* user's own exponents have no effect (sofTran.py lines 229-243,          *)
(* 292-316).                                                               *)
THEOREM ChoiceStaysBlinded == Spec => []ChoiceBlinded
<1> DEFINE h == hub[conn]
           A == Offers(h.g, h.a)
           chosenA == [i \in Row |-> Pow(A[i], KeyBit(user.sk, i))]
           layerB == Offers(h.g, user.b)
           chosen == ChosenOf(Layered(h), user.sk)
           layer == Offers(h.common_pk, user.recRandVals)
<1>1. ASSUME IInv, conn # Null, h.B # Null PROVE Blinded(h.B, chosenA, layerB)
  <2>1. senderState[conn] >= 7 /\ receiverState >= 6 /\ senderState[conn] >= 3
        /\ senderState[conn] >= 5 /\ receiverState >= 4
    BY <1>1, Partner DEF HubHas, HubStates, UserStates
  <2>2. /\ h.g \in Group /\ h.a \in Scalars
        /\ user.A = A /\ user.g = h.g /\ user.b \in Scalars
    BY <1>1, <2>1, Partner DEF HubHas, UserHas
  <2>3. HubKnows(h, user, senderState[conn])
    BY <1>1 DEF IInv, Connected, Talk, Conversation
  <2>4. h.B = ChosenBs(user)
    BY <2>1, <2>3 DEF HubKnows
  <2> HIDE DEF h
  <2>5. A \in Values /\ layerB \in Values
    BY <2>2, OffersType
  <2> HIDE DEF A
  <2>6. chosenA \in Values
    BY <2>5, Bits, GroupClosed DEF Values
  <2>7. \A i \in Row : h.B[i] = Mul(chosenA[i], layerB[i])
    BY <2>2, <2>4 DEF ChosenBs, Choices, Offers
  <2> HIDE DEF chosenA, layerB
  <2> QED BY <2>5, <2>6, <2>7, LayerBlinds
<1>2. ASSUME IInv, conn # Null, h.reRandEnc # Null PROVE Blinded(h.reRandEnc, chosen, layer)
  <2>1. senderState[conn] >= 9 /\ receiverState >= 8 /\ senderState[conn] >= 5
    BY <1>2, Partner DEF HubHas, HubStates, UserStates
  <2>2. /\ h.common_pk \in Group /\ h.points \in Pairs /\ h.randomVals \in Scalars
        /\ user.recRandVals \in Scalars
    BY <1>2, <2>1, Partner DEF HubHas, UserHas
  <2>3. HubKnows(h, user, senderState[conn])
    BY <1>2 DEF IInv, Connected, Talk, Conversation
  <2>4. h.reRandEnc = ReRandElGamal(chosen, user.recRandVals, h.common_pk)
    BY <2>1, <2>3 DEF HubKnows
  <2> HIDE DEF h
  <2>5. Layered(h) \in Pairs
    BY <2>2, PairsType DEF Layered
  <2>6. chosen \in Values
    BY <2>5, ChosenType
  <2>7. layer \in Values
    BY <2>2, OffersType
  <2> HIDE DEF chosen
  <2>8. \A i \in Row : h.reRandEnc[i] = Mul(chosen[i], layer[i])
    BY <2>4 DEF ReRandElGamal, Offers
  <2> HIDE DEF layer
  <2> QED BY <2>6, <2>7, <2>8, LayerBlinds
<1>3. IInv => ChoiceBlinded
  BY <1>1, <1>2 DEF ChoiceBlinded, ChosenOf, Layered
<1> QED BY <1>3, Invariance, PTL

-----------------------------------------------------------------------------
LEMMA SameSum == ASSUME NEW f PROVE D!SumFunction(f) = SumFunction(f)
BY DEF SumFunction, SumFunctionOnSet, FoldFunctionOnSet, MapThenFoldSet,
       D!SumFunction, D!SumFunctionOnSet, D!FoldFunctionOnSet, D!MapThenFoldSet

(* The bits that the handlers index by are the digits of the binary        *)
(* numeral of the key, for keys of any length (sofTran.py lines 229-232).  *)
THEOREM NumeralSpelled == NumeralSpellsKey
<1> SUFFICES ASSUME NEW key \in SecretKey
             PROVE  D!Spelled([i \in Row |-> KeyBit(key, i)]) = key
  BY DEF NumeralSpellsKey
<1> DEFINE w == [i \in 0 .. Rows - 1 |-> KeyBit(key, i) * 2 ^ (Rows - 1 - i)]
<1>1. Rows \in Nat /\ key \in 0 .. 2 ^ Rows - 1
  BY SizeAssumption, KeyAssumption
<1>2. \A k \in 0 .. Rows - 1 : 2 ^ k \in Nat \ {0}
  BY <1>1, PowerOfTwo
<1>3. ASSUME NEW k \in 0 .. Rows - 1
      PROVE  KeyBit(key, Rows - 1 - k) = (key \div 2 ^ k) % 2
  <2>1. Rows - 1 - (Rows - 1 - k) = k
    BY <1>1
  <2>2. (key \div 2 ^ k) % 2 \in 0 .. 1
    <3> DEFINE d == 2 ^ k
    <3>1. d \in Nat \ {0} /\ key \in Int
      BY <1>1, <1>2
    <3> HIDE DEF d
    <3>2. key \div d \in Int
      BY <3>1, Division
    <3>3. (key \div d) % 2 \in 0 .. 1
      BY <3>2, Division
    <3> QED BY <3>3 DEF d
  <2> QED BY <2>1, <2>2 DEF KeyBit
<1>4. w \in [0 .. Rows - 1 -> Int]
  <2>1. ASSUME NEW i \in 0 .. Rows - 1
        PROVE  KeyBit(key, i) \in Int /\ 2 ^ (Rows - 1 - i) \in Int
    <3>1. Rows - 1 - i \in 0 .. Rows - 1
      BY <1>1
    <3>2. 2 ^ (Rows - 1 - i) \in Nat \ {0}
      BY <1>2, <3>1
    <3>3. KeyBit(key, i) \in {0, 1}
      BY KeyBitIsBit DEF Version
    <3> QED BY <3>2, <3>3
  <2> QED BY <2>1
<1>5. PICK p \in [0 .. Rows -> Int] :
        /\ p[0] = 0 /\ p[Rows] = SumFunction(w)
        /\ \A k \in 0 .. Rows - 1 : p[k + 1] = p[k] + w[Rows - 1 - k]
  BY <1>1, <1>4, SumDown
<1>6. ASSUME NEW k \in 0 .. Rows - 1
      PROVE  p[k + 1] = p[k] + ((key \div 2 ^ k) % 2) * 2 ^ k
  <2>1. Rows - 1 - k \in 0 .. Rows - 1 /\ Rows - 1 - (Rows - 1 - k) = k
    BY <1>1
  <2>2. w[Rows - 1 - k] = KeyBit(key, Rows - 1 - k) * 2 ^ k
    BY <2>1
  <2> QED BY <1>3, <1>5, <2>2
<1>7. p[Rows] = key
  BY <1>1, <1>5, <1>6, DigitsSpell
<1>8. D!Spelled([i \in Row |-> KeyBit(key, i)]) = SumFunction(w)
  <2>1. w = [i \in D!Row |-> [k \in Row |-> KeyBit(key, k)][i] * 2 ^ (Rows - 1 - i)]
    BY DEF D!Row, Row
  <2> HIDE DEF w
  <2> QED BY <2>1, SameSum DEF D!Spelled
<1> QED BY <1>5, <1>7, <1>8

-----------------------------------------------------------------------------
(* Every step is one of a download's, or nothing to the disk: crashes,     *)
(* timeouts and repeated downloads included.                               *)
LEMMA StepsDeliver == IInv /\ [Next]_vars => [D!Next]_(D!vars)
<1> SUFFICES ASSUME IInv, [Next]_vars PROVE [D!Next]_(D!vars)
  OBVIOUS
<1>1. ASSUME UNCHANGED <<user, written, rcvd, keyFile>> PROVE [D!Next]_(D!vars)
  BY <1>1 DEF D!vars
<1>2. user \in UserRecord
  BY DEF IInv, Types
<1>3. ASSUME ProcessEnds PROVE [D!Next]_(D!vars)
  <2>1. user'.sk = Null /\ written' = 0 /\ UNCHANGED <<rcvd, keyFile>>
    BY <1>3, EmptyUserRecord DEF ProcessEnds
  <2>2. CASE user.sk # Null
    BY <2>1, <2>2 DEF D!Next, D!End
  <2>3. CASE user.sk = Null
    <3>1. process \notin {"writing", "filling"}
      BY <2>3, Partner, KeyAssumption DEF IInv, Types, Connected, UserHas
    <3>2. written = 0
      BY <3>1 DEF IInv, Connected
    <3> QED BY <2>1, <2>3, <3>2 DEF D!vars
  <2> QED BY <2>2, <2>3
<1>4. ASSUME NEW s \in Session,
             sender_init_transfer1(s) \/ ConnectionRefused(s) \/ SenderStep(s)
      PROVE  [D!Next]_(D!vars)
  <2>1. UNCHANGED <<user, written, rcvd, keyFile>>
    BY <1>4, Zenon DEF sender_init_transfer1, ConnectionRefused, SenderStep, sender_transfer3,
      init_ot5, sender_dec_layer7, send_encryptions9, JarMissing, send_enc_part2_11,
      send_enc_part3_13, send_enc_part4_15, SenderTimeout, SenderAnswers, userVars
  <2> QED BY <1>1, <2>1
<1>5. CASE receiver_init_transfer2
  <2>1. receiverState = 2 /\ conn # Null
    BY <1>5 DEF receiver_init_transfer2, ReceiverRuns, IInv, Types
  <2>2. user.sk = Null
    BY <2>1, Partner DEF UserHas
  <2>3. user'.sk = keyFile /\ UNCHANGED <<keyFile, written, rcvd>>
    BY <1>2, <1>5 DEF receiver_init_transfer2, ReceiverAnswers, UserRecord
  <2> QED BY <2>2, <2>3 DEF D!Next, D!Begin
<1>6. CASE receiver_transfer4 \/ recv_ot6 \/ final_recv8
           \/ \E n \in {10, 12, 14} : recv_encryptions(n)
  <2>1. CASE receiver_transfer4
    BY <1>2, <2>1 DEF receiver_transfer4, ReceiverAnswers, UserRecord, D!vars
  <2>2. CASE recv_ot6
    BY <1>2, <2>2 DEF recv_ot6, ReceiverAnswers, UserRecord, D!vars
  <2>3. CASE final_recv8
    BY <1>2, <2>3 DEF final_recv8, ReceiverAnswers, UserRecord, D!vars
  <2>4. CASE \E n \in {10, 12, 14} : recv_encryptions(n)
    BY <1>2, <2>4 DEF recv_encryptions, ReceiverAnswers, UserRecord, D!vars
  <2> QED BY <1>6, <2>1, <2>2, <2>3, <2>4
<1>7. CASE rec_enc_part4_16
  <2>1. user'.sk = user.sk /\ UNCHANGED <<written, rcvd, keyFile>>
    BY <1>2, <1>7 DEF rec_enc_part4_16, UserRecord
  <2> QED BY <2>1 DEF D!vars
<1>8. CASE WriteFile
  <2> DEFINE digits == [i \in Row |-> KeyBit(user.sk, i)]
  <2>1. process = "filling" /\ written' = written + 1 /\ UNCHANGED <<user, keyFile>>
    BY <1>8 DEF WriteFile
  <2>2. /\ written \in Row /\ written < Rows /\ rcvd[written] = Torn
        /\ rcvd' = [rcvd EXCEPT ![written] = Jar(written, digits[written])]
    <3>1. written \in Row /\ rcvd[written] = Torn
      BY <2>1 DEF IInv, Connected
    <3>2. written < Rows
      BY <3>1, SizeAssumption DEF Row
    <3>3. rcvd' = [rcvd EXCEPT ![written] = Jar(written, KeyBit(user.sk, written))]
      BY <1>8, <2>1, Opening DEF WriteFile
    <3> QED BY <3>1, <3>2, <3>3
  <2>3. user.sk \in SecretKey /\ user.sk # Null
    BY <2>1, Partner, KeyAssumption DEF IInv, Types, Connected, UserHas
  <2>4. digits \in [D!Row -> {0, 1}]
    BY Bits DEF D!Row, Row, Version
  <2>5. D!Spelled(digits) = user.sk
    BY <2>3, NumeralSpelled DEF NumeralSpellsKey
  <2>6. rcvd' = [rcvd EXCEPT ![written] = D!Jar(written, digits[written])]
    BY <2>2 DEF Jar, D!Jar
  <2> HIDE DEF digits
  <2>7. D!Write
    BY <2>1, <2>2, <2>3, <2>4, <2>5, <2>6 DEF D!Write
  <2> QED BY <2>7 DEF D!Next
<1>12. CASE OpenFile
  <2>1. user.sk # Null
    BY <1>12, Partner, KeyAssumption DEF OpenFile, IInv, Types, Connected, UserHas
  <2> QED BY <1>12, <2>1 DEF OpenFile, D!Next, D!Open
<1>9. CASE AllWritten \/ ConnectionClosed \/ Crash
  BY <1>3, <1>9 DEF AllWritten, ConnectionClosed, Crash
<1>10. CASE StartService \/ Accept \/ UNCHANGED vars
  BY <1>1, <1>10 DEF StartService, Accept, vars, userVars
<1>11. CASE NewKey
  BY <1>11 DEF NewKey, userVars, D!Next, D!NewKey
<1> QED BY <1>4, <1>5, <1>6, <1>7, <1>8, <1>9, <1>10, <1>11, <1>12
    DEF Next, ReceiverStep

(* The protocol implements Delivery: the files reach the disk in order,    *)
(* each emptied and then filled with the version that the binary numeral   *)
(* of the key of this run asks for; a run that is killed leaves at most    *)
(* the file torn that it had opened (sofTran.py lines 229-237, 299-309,    *)
(* 371-389, 457-487).                                                      *)
THEOREM Implementation == Spec => ImplementsDelivery
<1>1. Init => D!Init
  BY EmptyUserRecord DEF Init, D!Init, D!Row, Row
<1>2. IInv /\ [Next]_vars => [D!Next]_(D!vars)
  BY StepsDeliver
<1> QED BY <1>1, <1>2, Invariance, PTL DEF Spec, ImplementsDelivery, D!Spec
=============================================================================
