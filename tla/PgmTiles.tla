------------------------------ MODULE PgmTiles ------------------------------
(***************************************************************************)
(* The two helper programs of the image NDA: split_pgm.cc cuts an image    *)
(* into a grid of tiles, join_pgm.cc puts the received tiles together      *)
(* again, file after file.  A picture has a width, a height and a pixel    *)
(* for every place of its row-major content.                               *)
(***************************************************************************)
EXTENDS Integers

CONSTANT Noise  \* what malloc leaves in a pixel nobody wrote

Picture(width, height, content) ==
  [width |-> width, height |-> height, content |-> content]

Places(width, height) == 0 .. width * height - 1

(* split: tile number i * width_split + j; pixels that the division leaves *)
(* over at the right and at the bottom are in no tile.                     *)
Tile(img, width_split, height_split, n) ==
  LET width == img.width \div width_split
      height == img.height \div height_split
      i == n \div width_split
      j == n % width_split
      upper_left == img.width * height * i + width * j
  IN Picture(width, height,
             [p \in Places(width, height) |->
                img.content[upper_left + (p % width) + img.width * (p \div width)]])

(* join reads as many pixels as the header promises; a file that is too    *)
(* short leaves the rest of the buffer as it was.                          *)
ReadTile(file) ==
  [file EXCEPT !.content = [p \in Places(file.width, file.height) |->
                              IF p \in DOMAIN @ THEN @[p] ELSE Noise]]

(* The first file fixes the size of the new picture.                       *)
Canvas(first, sqrt_n) ==
  Picture(first.width * sqrt_n, first.height * sqrt_n,
          [q \in Places(first.width * sqrt_n, first.height * sqrt_n) |-> Noise])

\* a mutant of UpperLeft: the tiles are laid out column by column
UpperLeftColumns(new, file, i, sqrt_n) ==
  new.width * file.height * (i % sqrt_n) + file.width * (i \div sqrt_n)

UpperLeft(new, file, i, sqrt_n) ==
  new.width * file.height * (i \div sqrt_n) + file.width * (i % sqrt_n)

(* File i is copied to its place; other pixels stay.                       *)
Paste(new, file, i, sqrt_n) ==
  LET tile == ReadTile(file)
      place == [p \in DOMAIN tile.content |->
                  UpperLeft(new, file, i, sqrt_n) + (p % file.width)
                    + (p \div file.width) * new.width]
  IN [new EXCEPT !.content =
        [q \in DOMAIN @ |->
           IF \E p \in DOMAIN place : place[p] = q
             THEN tile.content[CHOOSE p \in DOMAIN place : place[p] = q]
             ELSE @[q]]]
=============================================================================
