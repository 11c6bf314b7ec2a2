---------------------------- MODULE MCChannelSetup ----------------------------
(***************************************************************************)
(* Two requests to instantiate a chaincode, or joins that ask two peers    *)
(* between them.  Joining and instantiating share nothing; therefore one   *)
(* is at its beginning while the other goes on.                            *)
(***************************************************************************)
EXTENDS ChannelSetup

CONSTANTS r1, r2, j1, j2, p1, p2

TheRequests == {r1, r2}
TheJoins == {j1, j2}
ThePeers == {p1, p2}

ApartNext ==
  \/ Init /\ Joining!Next /\ UNCHANGED vars
  \/ Joining!Init /\ Next /\ UNCHANGED joinVars

ApartSpec ==
  /\ SetupInit /\ [][ApartNext]_<<vars, joinVars>>
  /\ Fairness /\ Joining!Fairness
=============================================================================
