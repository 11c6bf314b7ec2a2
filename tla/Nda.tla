-------------------------------- MODULE Nda --------------------------------
(***************************************************************************)
(* The NDA program for images (NDA.cc with Sender.h and Recipient.h): one  *)
(* process that plays both sides.  The sender cuts the image into tiles    *)
(* and marks each with 0 and with 1; the recipient commits to the bits of  *)
(* its signing key by one group element per tile; the sender checks that   *)
(* the bits spell the key behind g^sk; every tile is transferred in the    *)
(* version its bit chooses; the tiles are written, joined, and the marks   *)
(* are read back.                                                          *)
(*                                                                         *)
(* The watermarking tools are external: marking and detecting are perfect. *)
(* They first mark the image as a whole, with a mark that every copy has   *)
(* and that is reported, not checked, in the end: the image that the model *)
(* starts with is the one so marked.                                       *)
(***************************************************************************)
EXTENDS PairingGroup, PgmTiles, FiniteSets, Functions

CONSTANTS
  Order,     \* exponents are computed modulo the order of the group
  Parts,     \* sec_par: tiles and bits, 256
  Side,      \* tiles in a row and in a column, 16
  public_g,  \* the point that both sides know
  Image,     \* the images a user may pass
  Draw,      \* what the recipient's random exponents may be
  DrawOne,   \* what the sender's random exponent may be
  Null

ASSUME PartsAssumption ==
  /\ Side \in Nat \ {0} /\ Parts = Side * Side
  /\ Order \in 1 .. 2 ^ Parts /\ Scalar = 0 .. Order - 1

(* G1 has as many points as there are exponents.                           *)
ASSUME OrderAssumption ==
  /\ IsFiniteSet(Group) /\ Cardinality(Group) = Order
  /\ \A x \in Group, m, n \in Scalar :
       /\ Mul(Pow(x, m), Pow(x, n)) = Pow(x, (m + n) % Order)
       /\ Pow(Pow(x, m), n) = Pow(x, (m * n) % Order)

(* An image has a pixel at least for every tile.                           *)
ASSUME ImageAssumption ==
  \A img \in Image : /\ img.width \in Nat /\ img.width >= Side
                     /\ img.height \in Nat /\ img.height >= Side
                     /\ DOMAIN img.content = Places(img.width, img.height)

ASSUME DrawAssumption ==
  /\ public_g \in Group
  /\ Draw \subseteq [0 .. Parts - 1 -> Scalar] /\ DrawOne \subseteq Scalar

VARIABLES
  stage,       \* where main is
  part,        \* the loop counter of the transfers, and of join
  input,       \* the image, with the mark of the whole image
  sk,          \* R_sk
  message,     \* message[i][j]: tile i marked with j
  a,           \* the sender's exponent, one for all tiles
  b_arr,       \* the recipient's exponents
  B_arr,       \* what the sender gets of them
  result,      \* the tiles that were decrypted
  rec_out,     \* the files rec_out<i>.pgm
  canvas,      \* join's content_new
  complete,    \* NDA_out_complete.pgm
  errorcount   \* wrongly detected bits

sender == <<message, a>>
recipient == <<b_arr, B_arr, result>>
files == <<rec_out, canvas, complete>>
vars == <<stage, part, input, sk, sender, recipient, files, errorcount>>

Part == 0 .. Parts - 1
Bit == {0, 1}

-----------------------------------------------------------------------------
(* The binary numeral of the key, most significant bit first, padded with  *)
(* zeros to the number of tiles.                                           *)
bitstring == [n \in Part |-> (sk \div 2 ^ (Parts - 1 - n)) % 2]

\* a mutant of BitOfPart: the bits are taken in the order of the numeral
BitOfPartForward(bits, i) == bits[i]

(* The numeral is most significant first, the tiles are not.               *)
BitOfPart(bits, i) == bits[Parts - 1 - i]

A == Pow(public_g, a)

\* a mutant of NewBs: the recipient's exponent is left out for a one
NewBsBare(bits, b) ==
  [i \in Part |-> IF bits[Parts - 1 - i] = 0 THEN Pow(public_g, b[i]) ELSE A]

(* initB_arr.                                                              *)
NewBs(bits, b) ==
  [i \in Part |-> IF bits[Parts - 1 - i] = 0 THEN Pow(public_g, b[i])
                  ELSE Mul(A, Pow(public_g, b[i]))]

(* The mark of a tile, and what the detector and the comparison of the two *)
(* signatures say of a file.                                               *)
Mark(tile, j) ==
  [tile EXCEPT !.content = [p \in DOMAIN @ |-> [from |-> @[p], wm |-> j]]]

Detected(file) ==
  IF file # Null /\ \A p \in DOMAIN file.content : file.content[p].wm = 1 THEN 1 ELSE 0

ASSUME NullAssumption ==
  \A img \in Image, i \in Part, j \in Bit : Mark(Tile(img, Side, Side, i), j) # Null

-----------------------------------------------------------------------------
(* x, Cb and Cs of the recipient, and the sender's product of the B.       *)
init_x(b) == SumFunction([i \in Part |-> 2 ^ i * b[i]]) % Order

\* a mutant of Weight: the powers of two start at 2
WeightShifted(i) == 2 ^ (i + 1)

Weight(i) == 2 ^ i

product_Bs(B) == FoldFunction(Mul, One, [i \in Part |-> Pow(B[i], Weight(i) % Order)])

VerificationPasses(B, b) ==
  LET Cb == Pow(public_g, init_x(b))
      Cs == Pow(public_g, sk)
  IN product_Bs(B) = Mul(Cb, Pow(Cs, a))

\* a mutant of TransferKey: both versions under the key of version 0
TransferKeySame(B, j) == Pow(B, a)

(* k[0] and k[1] of getEncrypted.                                          *)
TransferKey(B, j) == IF j = 0 THEN Pow(B, a) ELSE Pow(Mul(B, Inv(A)), a)

(* makeKeys: both of its keys are this one.                                *)
RecipientKey(i) == Pow(A, b_arr[i])

(* A tile decrypted under another key is no picture.                       *)
Transferred(i) ==
  LET j == BitOfPart(bitstring, i)
  IN IF TransferKey(B_arr[i], j) = RecipientKey(i) THEN message[i][j] ELSE Null

-----------------------------------------------------------------------------
Init ==
  /\ stage = "start" /\ part = 0
  /\ input \in Image /\ sk \in Scalar
  /\ message = Null /\ a = Null
  /\ b_arr = Null /\ B_arr = Null /\ result = [i \in Part |-> Null]
  /\ rec_out = [i \in Part |-> Null] /\ canvas = Null /\ complete = Null
  /\ errorcount = Null

(* The image is marked as a whole, split, and each tile marked twice.      *)
watermark ==
  /\ stage = "start"
  /\ stage' = "marked"
  /\ message' = [i \in Part |-> [j \in Bit |-> Mark(Tile(input, Side, Side, i), j)]]
  /\ UNCHANGED <<part, input, sk, a, recipient, files, errorcount>>

initA ==
  /\ stage = "marked"
  /\ stage' = "offered"
  /\ a' \in DrawOne
  /\ UNCHANGED <<part, input, sk, message, recipient, files, errorcount>>

initB_arr ==
  /\ stage = "offered"
  /\ stage' = "committed"
  /\ b_arr' \in Draw
  /\ B_arr' = NewBs(bitstring, b_arr')
  /\ UNCHANGED <<part, input, sk, sender, result, files, errorcount>>

(* The check of the signing key; main exits if it fails.                   *)
Verification ==
  /\ stage = "committed"
  /\ stage' = IF VerificationPasses(B_arr, b_arr) THEN "transfer" ELSE "exited"
  /\ UNCHANGED <<part, input, sk, sender, recipient, files, errorcount>>

ot ==
  /\ stage = "transfer" /\ part < Parts
  /\ result' = [result EXCEPT ![part] = Transferred(part)]
  /\ part' = part + 1
  /\ UNCHANGED <<stage, input, sk, sender, b_arr, B_arr, files, errorcount>>

(* finish dumps every tile, in the length of the one that was marked last, *)
(* and starts join.  Of that length only the pixels are counted here.      *)
\* a mutant of message_len: the last byte is not counted
message_len_short == LET last == message[Parts - 1][1] IN last.width * last.height - 1

message_len == LET last == message[Parts - 1][1] IN last.width * last.height

Dumped(tile) ==
  IF tile = Null THEN Null
  ELSE [tile EXCEPT !.content = [p \in 0 .. message_len - 1 |-> @[p]]]

finish ==
  /\ stage = "transfer" /\ part = Parts
  /\ stage' = "join" /\ part' = 0
  /\ rec_out' = [i \in Part |-> Dumped(result[i])]
  /\ UNCHANGED <<input, sk, sender, recipient, canvas, complete, errorcount>>

join_file ==
  /\ stage = "join" /\ part < Parts
  /\ rec_out[part] # Null
  /\ canvas' = Paste(IF part = 0 THEN Canvas(rec_out[0], Side) ELSE canvas,
                     rec_out[part], part, Side)
  /\ part' = part + 1
  /\ UNCHANGED <<stage, input, sk, sender, recipient, rec_out, complete, errorcount>>

(* A file that cannot be opened or is no picture ends join before it       *)
(* writes a pixel; main goes on.                                           *)
join_stops ==
  /\ stage = "join" /\ part < Parts
  /\ stage' = "joined"
  /\ UNCHANGED <<part, input, sk, sender, recipient, files, errorcount>>

join_end ==
  /\ stage = "join" /\ part = Parts
  /\ stage' = "joined"
  /\ complete' = canvas
  /\ UNCHANGED <<part, input, sk, sender, recipient, rec_out, canvas, errorcount>>

(* The tiles' marks are counted; what the detector then says of the whole  *)
(* image is printed and changes nothing.                                   *)
detect_wm ==
  /\ stage = "joined"
  /\ stage' = "detected"
  /\ errorcount' = Cardinality({i \in Part : Detected(rec_out[i]) # BitOfPart(bitstring, i)})
  /\ UNCHANGED <<part, input, sk, sender, recipient, files>>

Next ==
  \/ watermark \/ initA \/ initB_arr \/ Verification \/ ot
  \/ finish \/ join_file \/ join_stops \/ join_end \/ detect_wm

Spec == Init /\ [][Next]_vars
-----------------------------------------------------------------------------
TypeOK ==
  /\ stage \in {"start", "marked", "offered", "committed", "transfer", "exited",
                "join", "joined", "detected"}
  /\ part \in 0 .. Parts
  /\ sk \in Scalar /\ input \in Image
  /\ a \in Scalar \cup {Null}
  /\ b_arr \in [Part -> Scalar] \cup {Null}
  /\ B_arr \in [Part -> Group] \cup {Null}
  /\ complete # Null =>
       \A q \in DOMAIN complete.content :
         complete.content[q] \in [from : {input.content[p] : p \in DOMAIN input.content},
                                  wm : Bit]
  /\ errorcount \in 0 .. Parts \cup {Null}

(* The number that a numeral spells, its first digit leading.              *)
Spelled(bits) == SumFunction([n \in Part |-> bits[n] * 2 ^ (Parts - 1 - n)])

Generates(x) == {Pow(x, n) : n \in Scalar} = Group

(* The verification lets the honest recipient pass, and of all bit strings *)
(* that a recipient could have been made with it accepts those only that   *)
(* spell its signing key (NDA.cc lines 193-258, Recipient.h 103-167,       *)
(* Sender.h 106-118).                                                      *)
VerificationMeansKey ==
  /\ stage # "exited"
  /\ stage = "committed" /\ Generates(A) =>
       \A bits \in [Part -> Bit] :
         VerificationPasses(NewBs(bits, b_arr), b_arr) <=> Spelled(bits) % Order = sk

(* The key of a version that was not chosen is none of the keys that the   *)
(* recipient can compute, although the sender has one exponent for all     *)
(* tiles - unless the exponents happen to lie a apart (Sender.h lines      *)
(* 40-42, Recipient.h 37-49).                                              *)
OtherVersionSealed ==
  stage = "transfer" /\ Generates(A) =>
    \A i, k \in Part :
      b_arr[k] \notin {(b_arr[i] + a) % Order, (b_arr[i] - a) % Order} =>
        TransferKey(B_arr[i], 1 - BitOfPart(bitstring, i)) # RecipientKey(k)

(* What the marks of the received tiles spell is the recipient's key, and  *)
(* detection finds no wrong bit (NDA.cc lines 44-95 and 280-297).          *)
WatermarkSpellsKey ==
  stage = "detected" =>
    /\ errorcount = 0
    /\ SumFunction([i \in Part |-> Detected(rec_out[i]) * 2 ^ i]) = sk

(* The joined image is the marked image that was split, less what the grid *)
(* leaves over, each pixel with the mark that the bit of its tile asks for *)
(* (split_pgm.cc lines 94-112, join_pgm.cc lines 53-134).                  *)
ImageSpellsKey ==
  complete # Null =>
    LET w == input.width \div Side
        h == input.height \div Side
    IN /\ complete.width = w * Side /\ complete.height = h * Side
       /\ \A y \in 0 .. h * Side - 1, x \in 0 .. w * Side - 1 :
            complete.content[y * complete.width + x] =
              [from |-> input.content[y * input.width + x],
               wm |-> (sk \div 2 ^ (Side * (y \div h) + x \div w)) % 2]
=============================================================================
