---------------------------- MODULE PairingGroup ----------------------------
(***************************************************************************)
(* The group G1 that both oblivious transfers work in (PBC through charm   *)
(* in sofTran.py, PBC through its C++ wrapper in NDA.cc).  It is known by  *)
(* its laws alone: a commutative group, written with powers.               *)
(***************************************************************************)
EXTENDS Integers

CONSTANTS
  Group,      \* the points of G1
  Scalar,     \* the exponents
  Mul(_, _), Inv(_), Pow(_, _), One

ASSUME ScalarAssumption == {0, 1} \subseteq Scalar /\ Scalar \subseteq Int

ASSUME GroupClosed ==
  /\ One \in Group
  /\ \A x, y \in Group : Mul(x, y) \in Group
  /\ \A x \in Group : Inv(x) \in Group
  /\ \A x \in Group, n \in Scalar : Pow(x, n) \in Group

ASSUME GroupLaws ==
  /\ \A x, y \in Group : Mul(x, y) = Mul(y, x)
  /\ \A x, y, z \in Group : Mul(Mul(x, y), z) = Mul(x, Mul(y, z))
  /\ \A x \in Group : Mul(x, One) = x /\ Mul(x, Inv(x)) = One

ASSUME PowerLaws ==
  /\ \A x \in Group : Pow(x, 0) = One /\ Pow(x, 1) = x
  /\ \A x \in Group, m, n \in Scalar : Pow(Pow(x, m), n) = Pow(Pow(x, n), m)
  /\ \A x, y \in Group, n \in Scalar : Pow(Mul(x, y), n) = Mul(Pow(x, n), Pow(y, n))
=============================================================================
