----------------------------- MODULE Oblivious -----------------------------
(***************************************************************************)
(* What the handlers of SoftwareTransfer (sofTran.py) compute: ElGamal     *)
(* layers over group points, the keys of the one-out-of-two transfers, and *)
(* the ciphertexts.  AES opens what it closed under the same key; SHA2     *)
(* keeps points apart, so a point stands for the AES key that is its hash. *)
(***************************************************************************)
EXTENDS PairingGroup, Sequences

CONSTANTS
  Rows,       \* how many files there are, and bits in the receiver's key: 256
  PartSize,   \* how many ciphertexts go into one message: 128
  SecretKey,  \* the keys that key.txt may hold
  Garbage,    \* what decryption under another key gives
  Null

ASSUME SizeAssumption == Rows \in Nat /\ PartSize \in Nat /\ 2 * Rows = 4 * PartSize

ASSUME KeyAssumption ==
  /\ SecretKey \subseteq Scalar \cap 0 .. 2 ^ Rows - 1
  /\ Null \notin Group /\ Null \notin Scalar /\ Garbage \notin Group

Row == 0 .. Rows - 1
Version == {0, 1}

-----------------------------------------------------------------------------
(* bitstring[i]: the binary digits of the key, most significant first,     *)
(* padded with zeros on the left.                                          *)
KeyBit(sk, i) == IF (sk \div 2 ^ (Rows - 1 - i)) % 2 = 0 THEN 0 ELSE 1

(* One random value per row, which its two points share.                   *)
ElGamalEnc2(points, r, pk) ==
  [i \in Row |-> [j \in Version |-> Mul(points[i][j], Pow(pk, r[i]))]]

ReRandElGamal(values, r, pk) == [i \in Row |-> Mul(values[i], Pow(pk, r[i]))]

(* The same layer taken off: by the sender its own, then by the receiver.  *)
StripLayer(values, r, pk) == [i \in Row |-> Mul(values[i], Inv(Pow(pk, r[i])))]

-----------------------------------------------------------------------------
(* A and B of the transfers, and the keys of both sides.                   *)
Offers(g, a) == [i \in Row |-> Pow(g, a[i])]

Choices(A, g, sk, b) ==
  [i \in Row |-> Mul(Pow(A[i], KeyBit(sk, i)), Pow(g, b[i]))]

\* mutants of OTKey: A is multiplied; A is forgotten
OTKeyTimesA(A, B, a, i, j) ==
  IF j = 0 THEN Pow(B[i], a[i]) ELSE Pow(Mul(B[i], A[i]), a[i])
OTKeySame(A, B, a, i, j) == Pow(B[i], a[i])

OTKey(A, B, a, i, j) ==
  IF j = 0 THEN Pow(B[i], a[i]) ELSE Pow(Mul(B[i], Inv(A[i])), a[i])

ChosenKey(A, b, i) == Pow(A[i], b[i])

-----------------------------------------------------------------------------
Encrypt(key, m) == [key |-> key, body |-> m]
Decrypt(key, c) == IF c.key = key THEN c.body ELSE Garbage

OTEncrypt(elgPoints, A, B, a) ==
  [i \in Row |-> [j \in Version |-> Encrypt(OTKey(A, B, a, i, j), elgPoints[i][j])]]

OTDecrypt(enc, A, b, sk) ==
  [i \in Row |-> Decrypt(ChosenKey(A, b, i), enc[i][KeyBit(sk, i)])]

(* The jars, both versions of the first file, then of the second, ..., each *)
(* under the hash of its point; and the slices that travel.                *)
Jar(i, j) == [file |-> i, wm |-> j]

OutArray(points) ==
  [n \in 1 .. 2 * Rows |->
     LET i == (n - 1) \div 2
         j == (n - 1) % 2
     IN Encrypt(points[i][j], Jar(i, j))]

Slice(outArray, k) == SubSeq(outArray, (k - 1) * PartSize + 1, k * PartSize)

(* What is written as file i.                                              *)
OpenJar(outArray, decRecLayer, sk, i) ==
  Decrypt(decRecLayer[i], outArray[2 * i + KeyBit(sk, i) + 1])
=============================================================================
