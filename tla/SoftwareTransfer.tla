-------------------------- MODULE SoftwareTransfer --------------------------
(***************************************************************************)
(* The oblivious transfer of the watermarked jars (sofTran.py) between the *)
(* sender service of the hub (senderService.py, beginOT) and the user's    *)
(* service (userService.py, getDocument).  The hub holds every file in two *)
(* versions; the user gets the one that a bit of its secret key chooses,   *)
(* the hub does not learn which.                                           *)
(*                                                                         *)
(* Every download request starts a session of the hub with a thread and a  *)
(* socket of its own; the user's process accepts one connection in its     *)
(* life.  The handlers numbered 1 to 16 alternate: one side's answer is    *)
(* the other side's input.  The charm library carries them: it stores what *)
(* arrives, runs the handler of the current state and sends what that      *)
(* returns.  The hub waits 15 seconds for an answer, the user for ever.    *)
(***************************************************************************)
EXTENDS Oblivious

CONSTANTS
  Session,    \* the downloads that the hub is asked for
  Generator,  \* what the random point g may be
  Draw,       \* what a row of random exponents may be
  DrawOne,    \* what a single random exponent may be
  Points,     \* what the 256 x 2 random points may be
  Backlog,    \* connections that wait for accept
  Torn        \* a file that is empty, or holds a part of what is written

ASSUME DrawAssumption ==
  /\ Generator \subseteq Group
  /\ Draw \subseteq [Row -> Scalar] /\ DrawOne \subseteq Scalar
  /\ Points \subseteq [Row -> [Version -> Group]]
  /\ Backlog \in Nat /\ Null \notin Session /\ Torn # Null

VARIABLES
  hubStatus,    \* hubStatus[s]: how the hub's side of a session stands
  senderState,  \* senderState[s]: the handler that its next input runs
  hub,          \* hub[s]: what the sender's database holds
  toReceiver,   \* toReceiver[s]: the message on its way to the user
  toSender,     \* toSender[s]: the message on its way to the hub
  backlog,      \* sessions whose connection is made and not accepted
  process,      \* the user's process
  conn,         \* the session it has accepted
  receiverState,\* the handler that its next input runs
  user,         \* what the receiver's database holds
  written,      \* how many files handler 16 has written and closed
  rcvd,         \* rcvd[i]: what ./rcvd_files/HelloWorld<i>.jar holds
  keyFile       \* the key in key.txt

hubVars == <<hubStatus, senderState, hub>>
wire == <<toReceiver, toSender>>
userVars == <<backlog, process, conn, receiverState, user, written, rcvd>>
vars == <<hubVars, wire, userVars, keyFile>>

EmptyHub == [g |-> Null, sk |-> Null, common_pk |-> Null, points |-> Null,
             randomVals |-> Null, a |-> Null, B |-> Null, reRandEnc |-> Null,
             outArray |-> Null]

EmptyUser == [sk |-> Null, common_pk |-> Null, g |-> Null, A |-> Null, b |-> Null,
              enc |-> Null, recRandVals |-> Null, decRecLayer |-> Null,
              parts |-> <<>>]

Init ==
  /\ hubStatus = [s \in Session |-> "idle"]
  /\ senderState = [s \in Session |-> 1]
  /\ hub = [s \in Session |-> EmptyHub]
  /\ toReceiver = [s \in Session |-> Null]
  /\ toSender = [s \in Session |-> Null]
  /\ backlog = <<>>
  /\ process = "down" /\ conn = Null
  /\ receiverState = 2 /\ user = EmptyUser /\ written = 0
  /\ rcvd = [i \in Row |-> Null]
  /\ keyFile \in SecretKey

-----------------------------------------------------------------------------
(* beginOT: the connection is made, to the backlog, and handler 1 draws    *)
(* the group's g and the sender's key.                                     *)
sender_init_transfer1(s) ==
  /\ hubStatus[s] = "idle"
  /\ process # "down" /\ Len(backlog) < Backlog
  /\ \E g \in Generator, sk \in DrawOne :
       /\ hub' = [hub EXCEPT ![s] = [EmptyHub EXCEPT !.g = g, !.sk = sk]]
       /\ toReceiver' = [toReceiver EXCEPT ![s] =
                           [S |-> [g |-> g, sender_pk |-> Pow(g, sk)]]]
  /\ backlog' = Append(backlog, s)
  /\ hubStatus' = [hubStatus EXCEPT ![s] = "running"]
  /\ senderState' = [senderState EXCEPT ![s] = 3]
  /\ UNCHANGED <<toSender, process, conn, receiverState, user, written, rcvd, keyFile>>

(* Nobody listens: connect raises.                                         *)
ConnectionRefused(s) ==
  /\ hubStatus[s] = "idle" /\ process = "down"
  /\ hubStatus' = [hubStatus EXCEPT ![s] = "aborted"]
  /\ UNCHANGED <<senderState, hub, wire, userVars, keyFile>>

(* The input of handler n of the sender has come; it leaves db in the      *)
(* database, next as the state and sends answer.                           *)
SenderRuns(s, n) ==
  hubStatus[s] = "running" /\ senderState[s] = n /\ toSender[s] # Null

SenderAnswers(s, db, next, answer) ==
  /\ hub' = [hub EXCEPT ![s] = db]
  /\ senderState' = [senderState EXCEPT ![s] = next]
  /\ toSender' = [toSender EXCEPT ![s] = Null]
  /\ toReceiver' = [toReceiver EXCEPT ![s] = answer]
  /\ UNCHANGED <<userVars, keyFile>>

sender_transfer3(s) ==
  /\ SenderRuns(s, 3)
  /\ \E points \in Points, randomVals, a \in Draw :
       LET common_pk == toSender[s].S2.common_pk
       IN SenderAnswers(s,
            [hub[s] EXCEPT !.common_pk = common_pk, !.points = points,
                           !.randomVals = randomVals, !.a = a],
            5,
            [S3 |-> [elgPoints |-> ElGamalEnc2(points, randomVals, common_pk),
                     A |-> Offers(hub[s].g, a)]])
  /\ UNCHANGED hubStatus

init_ot5(s) ==
  /\ SenderRuns(s, 5)
  /\ LET db == hub[s]
         B == toSender[s].B
     IN SenderAnswers(s, [db EXCEPT !.B = B], 7,
          [enc |-> OTEncrypt(ElGamalEnc2(db.points, db.randomVals, db.common_pk),
                             Offers(db.g, db.a), B, db.a)])
  /\ UNCHANGED hubStatus

sender_dec_layer7(s) ==
  /\ SenderRuns(s, 7)
  /\ LET db == hub[s]
         reRandEnc == toSender[s].reRandEnc
     IN SenderAnswers(s, [db EXCEPT !.reRandEnc = reRandEnc], 9,
          [decSenderLayer |-> StripLayer(reRandEnc, db.randomVals, db.common_pk)])
  /\ UNCHANGED hubStatus

send_encryptions9(s) ==
  /\ SenderRuns(s, 9)
  /\ LET outArray == OutArray(hub[s].points)
     IN SenderAnswers(s, [hub[s] EXCEPT !.outArray = outArray], 11,
                      [outArray |-> Slice(outArray, 1)])
  /\ UNCHANGED hubStatus

(* One of the jars cannot be opened: handler 9 raises.                     *)
JarMissing(s) ==
  /\ SenderRuns(s, 9)
  /\ hubStatus' = [hubStatus EXCEPT ![s] = "aborted"]
  /\ UNCHANGED <<senderState, hub, wire, userVars, keyFile>>

send_enc_part2_11(s) ==
  /\ SenderRuns(s, 11)
  /\ SenderAnswers(s, hub[s], 13, [outArray |-> Slice(hub[s].outArray, 2)])
  /\ UNCHANGED hubStatus

send_enc_part3_13(s) ==
  /\ SenderRuns(s, 13)
  /\ SenderAnswers(s, hub[s], 15, [outArray |-> Slice(hub[s].outArray, 3)])
  /\ UNCHANGED hubStatus

(* The last part is sent, and the hub reports "OT completed".              *)
send_enc_part4_15(s) ==
  /\ SenderRuns(s, 15)
  /\ SenderAnswers(s, hub[s], 15, [outArray |-> Slice(hub[s].outArray, 4)])
  /\ hubStatus' = [hubStatus EXCEPT ![s] = "completed"]

(* No answer for 15 seconds, or the connection is closed: recv raises.     *)
SenderTimeout(s) ==
  /\ hubStatus[s] = "running" /\ toSender[s] = Null
  /\ hubStatus' = [hubStatus EXCEPT ![s] = "aborted"]
  /\ UNCHANGED <<senderState, hub, wire, userVars, keyFile>>
-----------------------------------------------------------------------------
(* The user starts the service: it binds its port and listens.             *)
StartService ==
  /\ process = "down"
  /\ process' = "listening"
  /\ UNCHANGED <<hubVars, wire, backlog, conn, receiverState, user, written, rcvd, keyFile>>

(* Another key is put into key.txt.                                        *)
NewKey ==
  /\ keyFile' \in SecretKey
  /\ UNCHANGED <<hubVars, wire, userVars>>

Accept ==
  /\ process = "listening" /\ backlog # <<>>
  /\ process' = "running"
  /\ conn' = Head(backlog)
  /\ backlog' = Tail(backlog)
  /\ UNCHANGED <<hubVars, wire, receiverState, user, written, rcvd, keyFile>>

ReceiverRuns(n) ==
  process = "running" /\ receiverState = n /\ toReceiver[conn] # Null

ReceiverAnswers(db, next, answer) ==
  /\ user' = db
  /\ receiverState' = next
  /\ toReceiver' = [toReceiver EXCEPT ![conn] = Null]
  /\ toSender' = [toSender EXCEPT ![conn] = answer]
  /\ UNCHANGED <<hubVars, backlog, process, conn, written, rcvd, keyFile>>

receiver_init_transfer2 ==
  /\ ReceiverRuns(2)
  /\ LET S == toReceiver[conn].S
         common_pk == Pow(S.sender_pk, keyFile)
     IN ReceiverAnswers([user EXCEPT !.sk = keyFile, !.common_pk = common_pk, !.g = S.g],
          4, [S2 |-> [receiver_pk |-> Pow(S.g, keyFile), common_pk |-> common_pk]])

receiver_transfer4 ==
  /\ ReceiverRuns(4)
  /\ \E b \in Draw :
       LET A == toReceiver[conn].S3.A
       IN ReceiverAnswers([user EXCEPT !.A = A, !.b = b], 6,
            [B |-> Choices(A, user.g, user.sk, b)])

\* a mutant of recv_ot6: one exponent serves for all rows of what is sent
recv_ot6OneLayer ==
  /\ ReceiverRuns(6)
  /\ \E recRandVals \in Draw :
       LET enc == toReceiver[conn].enc
           recElgPoints == OTDecrypt(enc, user.A, user.b, user.sk)
           one == [i \in Row |-> recRandVals[0]]
       IN /\ \A i \in Row : recElgPoints[i] # Garbage
          /\ ReceiverAnswers([user EXCEPT !.enc = enc, !.recRandVals = recRandVals], 8,
               [reRandEnc |-> ReRandElGamal(recElgPoints, one, user.common_pk)])

(* bytesToObject raises on a point that did not decrypt.                   *)
recv_ot6 ==
  /\ ReceiverRuns(6)
  /\ \E recRandVals \in Draw :
       LET enc == toReceiver[conn].enc
           recElgPoints == OTDecrypt(enc, user.A, user.b, user.sk)
       IN /\ \A i \in Row : recElgPoints[i] # Garbage
          /\ ReceiverAnswers([user EXCEPT !.enc = enc, !.recRandVals = recRandVals], 8,
               [reRandEnc |-> ReRandElGamal(recElgPoints, recRandVals, user.common_pk)])

final_recv8 ==
  /\ ReceiverRuns(8)
  /\ LET decSenderLayer == toReceiver[conn].decSenderLayer
     IN ReceiverAnswers(
          [user EXCEPT !.decRecLayer =
             StripLayer(decSenderLayer, user.recRandVals, user.common_pk)],
          10, [msg |-> "OK"])

(* Handlers 10, 12 and 14 differ in the part that they store.              *)
recv_encryptions(n) ==
  /\ ReceiverRuns(n)
  /\ ReceiverAnswers([user EXCEPT !.parts = Append(@, toReceiver[conn].outArray)],
                     n + 2, [msg |-> "GotIt"])

(* Handler 16 stores the last part, and then writes file after file.       *)
rec_enc_part4_16 ==
  /\ ReceiverRuns(16)
  /\ user' = [user EXCEPT !.parts = Append(@, toReceiver[conn].outArray)]
  /\ toReceiver' = [toReceiver EXCEPT ![conn] = Null]
  /\ process' = "writing"
  /\ UNCHANGED <<hubVars, toSender, backlog, conn, receiverState, written, rcvd, keyFile>>

AllParts == user.parts[1] \o user.parts[2] \o user.parts[3] \o user.parts[4]

(* Opening the next file empties it, whatever an earlier run left there.   *)
OpenFile ==
  /\ process = "writing" /\ written < Rows
  /\ rcvd' = [rcvd EXCEPT ![written] = Torn]
  /\ process' = "filling"
  /\ UNCHANGED <<hubVars, wire, backlog, conn, receiverState, user, written, keyFile>>

\* a mutant of WriteFile: the key is read from key.txt again
WriteFileNewKey ==
  /\ process = "filling" /\ process' = "writing"
  /\ rcvd' = [rcvd EXCEPT ![written] =
                OpenJar(AllParts, user.decRecLayer, keyFile, written)]
  /\ written' = written + 1
  /\ UNCHANGED <<hubVars, wire, backlog, conn, receiverState, user, keyFile>>

(* The last of the content is written, and the file closed.  Until then    *)
(* some of it may be on the disk, and a crash leaves the file as it is.    *)
WriteFile ==
  /\ process = "filling" /\ process' = "writing"
  /\ rcvd' = [rcvd EXCEPT ![written] =
                OpenJar(AllParts, user.decRecLayer, user.sk, written)]
  /\ written' = written + 1
  /\ UNCHANGED <<hubVars, wire, backlog, conn, receiverState, user, keyFile>>

\* a mutant of ProcessEnds: what was accepted is still taken to be connected
ProcessEndsKeepsConn ==
  /\ process' = "down" /\ backlog' = <<>>
  /\ receiverState' = 2 /\ user' = EmptyUser /\ written' = 0
  /\ UNCHANGED <<hubVars, wire, conn, rcvd, keyFile>>

(* The process is over: its database is gone, and so are the connections   *)
(* that it had or that waited for it.                                      *)
ProcessEnds ==
  /\ process' = "down" /\ conn' = Null /\ backlog' = <<>>
  /\ receiverState' = 2 /\ user' = EmptyUser /\ written' = 0
  /\ UNCHANGED <<hubVars, wire, rcvd, keyFile>>

AllWritten == process = "writing" /\ written = Rows /\ ProcessEnds

\* a mutant of HubGone: the end of an aborted session is not noticed
HubGoneCompleted(s) == hubStatus[s] = "completed"

(* The hub's end of the connection is closed.                              *)
HubGone(s) == hubStatus[s] \in {"completed", "aborted"}

(* Nothing more comes from the hub: the read of the user's process ends.   *)
ConnectionClosed ==
  /\ process = "running" /\ toReceiver[conn] = Null /\ HubGone(conn)
  /\ ProcessEnds

(* The process is killed, or a handler raises.                             *)
Crash == process # "down" /\ ProcessEnds

-----------------------------------------------------------------------------
SenderStep(s) ==
  \/ sender_transfer3(s)  \/ init_ot5(s)          \/ sender_dec_layer7(s)
  \/ send_encryptions9(s) \/ JarMissing(s)        \/ send_enc_part2_11(s)
  \/ send_enc_part3_13(s) \/ send_enc_part4_15(s) \/ SenderTimeout(s)

ReceiverStep ==
  \/ receiver_init_transfer2 \/ receiver_transfer4 \/ recv_ot6 \/ final_recv8
  \/ \E n \in {10, 12, 14} : recv_encryptions(n)
  \/ rec_enc_part4_16 \/ OpenFile \/ WriteFile \/ AllWritten \/ ConnectionClosed

Next ==
  \/ \E s \in Session : sender_init_transfer1(s) \/ ConnectionRefused(s) \/ SenderStep(s)
  \/ StartService \/ NewKey \/ Accept \/ ReceiverStep \/ Crash

Spec == Init /\ [][Next]_vars

(* Both processes run: a handler whose input is there finishes, a wait of  *)
(* the hub ends after 15 seconds, accept returns.  Nothing is assumed of   *)
(* the people who start downloads and services.                            *)
FairSpec ==
  /\ Spec
  /\ \A s \in Session : WF_vars(SenderStep(s))
  /\ WF_vars(Accept) /\ WF_vars(ReceiverStep)
-----------------------------------------------------------------------------
OrNull(S) == S \cup {Null}
Sealed(S) == [key : Group, body : S]
Jars == [file : Row, wm : Version]

TypeOK ==
  /\ hubStatus \in [Session -> {"idle", "running", "completed", "aborted"}]
  /\ senderState \in [Session -> {1, 3, 5, 7, 9, 11, 13, 15}]
  /\ \A s \in Session :
       /\ hub[s].g \in OrNull(Group) /\ hub[s].common_pk \in OrNull(Group)
       /\ hub[s].sk \in OrNull(Scalar)
       /\ hub[s].points \in OrNull([Row -> [Version -> Group]])
       /\ {hub[s].randomVals, hub[s].a} \subseteq OrNull([Row -> Scalar])
       /\ {hub[s].B, hub[s].reRandEnc} \subseteq OrNull([Row -> Group])
       /\ hub[s].outArray \in OrNull([1 .. 2 * Rows -> Sealed(Jars)])
       /\ Null \in {toReceiver[s], toSender[s]}
  /\ process \in {"down", "listening", "running", "writing", "filling"}
  /\ conn \in OrNull(Session)
  /\ process \in {"running", "writing", "filling"} <=> conn # Null
  /\ receiverState \in {2, 4, 6, 8, 10, 12, 14, 16}
  /\ user.enc \in OrNull([Row -> [Version -> Sealed(Group)]])
  /\ user.decRecLayer \in OrNull([Row -> Group])
  /\ \A k \in 1 .. Len(user.parts) :
       user.parts[k] \in [1 .. PartSize -> Sealed(Jars)]
  /\ written \in 0 .. Rows
  /\ rcvd \in [Row -> OrNull(Jars) \cup {Torn}]
  /\ keyFile \in SecretKey

(* What reaches the disk of the user, crashes, timeouts, late answers and  *)
(* repeated downloads included: files in order, each emptied and then      *)
(* filled with the version that the binary numeral of the key of this run  *)
(* asks for.  A run that is killed leaves the file that it had opened      *)
(* torn, and what an earlier run had written there is gone (sofTran.py     *)
(* lines 229-237, 299-309, 371-389, 457-487).                              *)
D == INSTANCE Delivery WITH owed <- user.sk

ImplementsDelivery == D!Spec

(* The bits are the digits of the binary numeral.                          *)
NumeralSpellsKey ==
  \A key \in SecretKey : D!Spelled([i \in Row |-> KeyBit(key, i)]) = key

(* Between an honest hub and an honest user every chosen ciphertext opens: *)
(* handler 6 never fails on a key (sofTran.py lines 243, 261-262, 296).    *)
ChosenCiphertextsOpen ==
  ReceiverRuns(6) =>
    \A i \in Row : OTDecrypt(toReceiver[conn].enc, user.A, user.b, user.sk)[i] # Garbage

(* The user opens one version of a file only: the transfer key of a row    *)
(* does not open the point of the row's other version, and none of the     *)
(* points it learnt is the key of another version of any file.  The hub    *)
(* may have drawn exponents or points that betray it, with no chance to    *)
(* speak of (sofTran.py lines 196, 214, 261-262, 302-309, 332).            *)
PointsDiffer(points) ==
  \A i, k \in Row, j, l \in Version : points[i][j] = points[k][l] => i = k /\ j = l

OtherVersionSealed ==
  /\ user.enc # Null =>
       \A i \in Row :
         Pow(user.A[i], hub[conn].a[i]) # One =>
           user.enc[i][1 - KeyBit(user.sk, i)].key # ChosenKey(user.A, user.b, i)
  /\ user.decRecLayer # Null /\ PointsDiffer(hub[conn].points) =>
       \A i, k \in Row :
         user.decRecLayer[k] # hub[conn].points[i][1 - KeyBit(user.sk, i)]

(* The hub's view of the choice.  It knows which A and which layered point *)
(* it offered for either version of a row; if a row that comes back were   *)
(* the chosen one again, or two rows stood to each other as the two that   *)
(* were chosen, it could tell the versions.  That happens only where the   *)
(* user drew the same exponent for the two rows, or one without effect     *)
(* (sofTran.py lines 229-243, 292-316).                                    *)
Blinded(sent, chosen, layer) ==
  \A i, k \in Row :
    /\ sent[i] = chosen[i] => layer[i] = One
    /\ Mul(sent[i], Inv(sent[k])) = Mul(chosen[i], Inv(chosen[k])) => layer[i] = layer[k]

ChoiceBlinded ==
  conn # Null =>
    LET db == hub[conn]
        elgPoints == ElGamalEnc2(db.points, db.randomVals, db.common_pk)
    IN /\ db.B # Null =>
            Blinded(db.B, [i \in Row |-> Pow(Offers(db.g, db.a)[i], KeyBit(user.sk, i))],
                    Offers(db.g, user.b))
       /\ db.reRandEnc # Null =>
            Blinded(db.reRandEnc, [i \in Row |-> elgPoints[i][KeyBit(user.sk, i)]],
                    Offers(db.common_pk, user.recRandVals))

(* The user's process waits without a timeout, and still a connection that *)
(* it has accepted does not keep it for ever: the files are written or the *)
(* process ends (sofTran.py lines 328-346, senderService.py line 153).     *)
ServiceEnds == process = "running" ~> process = "down"
=============================================================================
