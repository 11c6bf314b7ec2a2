----------------------------- MODULE MCGateway -----------------------------
(***************************************************************************)
(* A hub and two users.  The calls are the ones that can disturb each      *)
(* other: requests of both users, the same penalty sent by two clients, a  *)
(* refund, and the status that a client reads in between.                  *)
(***************************************************************************)
EXTENDS Gateway, TLC

CONSTANTS hub, usr, other, m, peer1, peer2, r1, r2, r3

MCKey == {hub, usr, other}

Download(user, amount, date) ==
  [fn |-> "download_request",
   args |-> [owner |-> hub, user |-> user, amount |-> amount, date |-> date]]

PenaltyOf(user) ==
  [fn |-> "penalty",
   args |-> [message |-> m, ownerSig |-> [by |-> hub, message |-> m],
             userSig |-> [by |-> user, message |-> m]]]

AmountsAsked == {2, 3}
DatesAsked == {1}

Contending == {Download(usr, 2, 1), Download(other, 3, 1), PenaltyOf(usr)}

Various == {Download(usr, 2, 1), [fn |-> "refund"], [fn |-> "get_status"]}

OnePeer == {peer1}
TwoPeers == {peer1, peer2}
TwoRequests == {r1, r2}
ThreeRequests == {r1, r2, r3}

RequestSymmetry == Permutations(Request)
=============================================================================
