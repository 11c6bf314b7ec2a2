------------------------- MODULE MCSoftwareTransfer -------------------------
(***************************************************************************)
(* Four files, so keys of four bits and two ciphertexts in each part, both *)
(* versions of a file in the same one.  The group is the integers modulo   *)
(* Q, with exponents modulo Q.  One download goes on with several draws of *)
(* the random values, and two downloads with one draw of each.             *)
(***************************************************************************)
EXTENDS SoftwareTransfer

CONSTANTS s1, s2, Q

MCGroup == 0 .. Q - 1
MCMul(x, y) == (x + y) % Q
MCInv(x) == (Q - x) % Q
MCPow(x, n) == (x * n) % Q

TwoSessions == {s1, s2}

SomeKeys == {0, 10}

(* All points differ; two versions of different files are the same point.  *)
Differing == [i \in Row |-> [j \in Version |-> 2 * i + j]]
Meeting == [i \in Row |-> [j \in Version |-> (i + 3 * j) % Rows]]
SomePoints == {Differing, Meeting}

(* All exponents differ; some are equal and one is zero.                   *)
Counting == [i \in Row |-> i + 1]
Repeating == [i \in Row |-> IF i = 0 THEN 0 ELSE 3]
SomeVectors == {Counting, Repeating}

OneDraw ==
  /\ {user.b, user.recRandVals} \subseteq {Null, Counting}
  /\ \A s \in Session :
       /\ {hub[s].randomVals, hub[s].a} \subseteq {Null, Counting}
       /\ hub[s].points \in {Null, Differing} /\ hub[s].sk \in {Null, 2}

(* Whoever starts the second download waits for what is drawn; no step     *)
(* that the code takes by itself is held up by that.                       *)
MCNext == Next /\ (hubStatus'[s2] = "idle" \/ OneDraw')

MCSpec ==
  /\ Init /\ [][MCNext]_vars
  /\ \A s \in Session : WF_vars(SenderStep(s))
  /\ WF_vars(Accept) /\ WF_vars(ReceiverStep)

ASSUME NumeralSpellsKey
=============================================================================
