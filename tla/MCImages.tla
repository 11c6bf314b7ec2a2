------------------------------ MODULE MCImages ------------------------------
(***************************************************************************)
(* The image program and the memory stream that its library uses.  They    *)
(* share nothing; therefore one is at its beginning, one of them for the   *)
(* image program, while the other goes on.                                 *)
(*                                                                         *)
(* Four tiles and so keys of four bits, in the group of integers modulo a  *)
(* prime that four bits hold; images that the grid divides and images with *)
(* pixels left over; a sender's exponent of zero, and recipient's          *)
(* exponents that are all the same.  A buffer of two bytes that can double *)
(* twice.                                                                  *)
(***************************************************************************)
EXTENDS Nda, Memstream

MCGroup == 0 .. Order - 1
MCMul(x, y) == (x + y) % Order
MCInv(x) == (Order - x) % Order
MCPow(x, n) == (x * n) % Order

Blank(width, height) == Picture(width, height, [p \in Places(width, height) |-> p])
SomeImages == {Blank(2, 2), Blank(5, 4), Blank(3, 7)}

Vector(x, y) == [i \in Part |-> x + i * y]
SomeVectors == {Vector(0, 0), Vector(3, 2), Vector(1, 3), Vector(0, 4)}

SomeBytes == {0, 1}

ApartInit == Init /\ StreamInit

ApartNext ==
  \/ StreamInit /\ Next /\ UNCHANGED streamVars
  \/ Init /\ sk = 0 /\ input = Blank(2, 2) /\ StreamNext /\ UNCHANGED vars

ApartSpec == ApartInit /\ [][ApartNext]_<<vars, streamVars>>
=============================================================================
