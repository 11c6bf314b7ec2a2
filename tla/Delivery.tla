------------------------------ MODULE Delivery ------------------------------
(***************************************************************************)
(* What a download is for, seen from the disk of the user: the user holds  *)
(* one version of every file, and the versions spell the binary numeral of *)
(* the key that the user ran the transfer with, so that the files, found   *)
(* elsewhere, give the key away.  Files are written one by one, each one   *)
(* emptied first; a run may stop anywhere, leave a file torn and files of  *)
(* an earlier run behind it.                                               *)
(***************************************************************************)
EXTENDS Integers, Functions

CONSTANTS Rows, SecretKey, Null, Torn

VARIABLES
  keyFile,  \* the key in key.txt
  owed,     \* the key whose numeral a running download will spell
  written,  \* how many files it has written
  rcvd      \* rcvd[i]: the version of file i in rcvd_files, or Torn

vars == <<keyFile, owed, written, rcvd>>

Row == 0 .. Rows - 1

(* The number that a row of binary digits spells, the first one leading.   *)
Spelled(digits) == SumFunction([i \in Row |-> digits[i] * 2 ^ (Rows - 1 - i)])

Jar(i, j) == [file |-> i, wm |-> j]

Init ==
  /\ keyFile \in SecretKey
  /\ owed = Null
  /\ written = 0
  /\ rcvd = [i \in Row |-> Null]

NewKey ==
  /\ keyFile' \in SecretKey
  /\ UNCHANGED <<owed, written, rcvd>>

Begin ==
  /\ owed = Null
  /\ owed' = keyFile
  /\ UNCHANGED <<keyFile, written, rcvd>>

(* The next file is emptied.                                               *)
Open ==
  /\ owed # Null /\ written < Rows
  /\ rcvd' = [rcvd EXCEPT ![written] = Torn]
  /\ UNCHANGED <<keyFile, owed, written>>

(* It becomes the version that the numeral of the key asks for.            *)
Write ==
  /\ owed # Null /\ written < Rows /\ rcvd[written] = Torn
  /\ \E digits \in [Row -> {0, 1}] :
       /\ Spelled(digits) = owed
       /\ rcvd' = [rcvd EXCEPT ![written] = Jar(written, digits[written])]
  /\ written' = written + 1
  /\ UNCHANGED <<keyFile, owed>>

(* The download is over, with all files written or not.                    *)
End ==
  /\ owed # Null
  /\ owed' = Null
  /\ written' = 0
  /\ UNCHANGED <<keyFile, rcvd>>

Next == NewKey \/ Begin \/ Open \/ Write \/ End

Spec == Init /\ [][Next]_vars
=============================================================================
