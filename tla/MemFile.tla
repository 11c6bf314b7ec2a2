------------------------------ MODULE MemFile ------------------------------
(***************************************************************************)
(* What open_memstream promises the program that prints to the stream and  *)
(* looks at the buffer: a file of bytes with a position, which grows as it *)
(* is written to and which a move of the position past its end fills up    *)
(* with zeros; closing the stream cuts it off at the position.  When       *)
(* memory runs out the file is lost.  Of reading it says only that the     *)
(* position moves within the file.                                         *)
(***************************************************************************)
EXTENDS Integers

CONSTANTS Byte, MaxCount, MaxPosition

VARIABLES
  data,      \* the bytes, counted from 0
  position,
  state      \* "open", "closed" or "lost"

vars == <<data, position, state>>

NoData == [i \in {} |-> 0]

(* The bytes of a file are the numbers below its length.                   *)
Bytes(n) == 0 .. n - 1
InFile(i) == i \in DOMAIN data

Init == data = NoData /\ position = 0 /\ state = "open"

Write(n, buf) ==
  /\ state = "open" /\ state' = state
  /\ position' = position + n
  /\ data' = [i \in DOMAIN data \cup Bytes(position + n) |->
                IF i \in position .. position + n - 1 THEN buf[i - position] ELSE data[i]]

Read(n) ==
  /\ state = "open"
  /\ n = 0 \/ InFile(position + n - 1)
  /\ position' = position + n
  /\ UNCHANGED <<data, state>>

Seek(to) ==
  /\ state = "open" /\ state' = state
  /\ position' = to
  /\ data' = [i \in DOMAIN data \cup Bytes(to) |-> IF InFile(i) THEN data[i] ELSE 0]

Close ==
  /\ state = "open" /\ state' = "closed"
  /\ data' = [i \in Bytes(position) |-> data[i]]
  /\ UNCHANGED position

OutOfMemory ==
  /\ state = "open" /\ state' = "lost"
  /\ data' = NoData /\ position' = 0

Next ==
  \/ \E n \in 1 .. MaxCount : \E buf \in [Bytes(n) -> Byte] : Write(n, buf)
  \/ \E n \in 0 .. MaxCount : Read(n)
  \/ \E to \in 0 .. MaxPosition : Seek(to)
  \/ Close
  \/ OutOfMemory

Spec == Init /\ [][Next]_vars
=============================================================================
