----------------------------- MODULE ChannelSetup -----------------------------
(***************************************************************************)
(* The set-up of a channel: creating and joining it, or instantiating a    *)
(* chaincode on it, side by side.  The two share no variable of the        *)
(* server, and none of Fabric that is modelled.                            *)
(***************************************************************************)
EXTENDS InstantiateChaincode

CONSTANTS Join, Peer, Member, MaxTargets, MaxBlocks

VARIABLES
  create, channel, joined, joinAt, names, first, asked, reply,
  joinHub, joinTimer, resolved, joinSent, joinFaults, blocks

joinVars == <<create, channel, joined, joinAt, names, first, asked, reply,
              joinHub, joinTimer, resolved, joinSent, joinFaults, blocks>>

Joining == INSTANCE JoinChannel WITH
  at <- joinAt, hub <- joinHub, timer <- joinTimer, sent <- joinSent, faults <- joinFaults

ASSUME SetupAssumption == Joining!JoinChannelAssumption

-----------------------------------------------------------------------------
SetupInit == Init /\ Joining!Init

SetupNext ==
  \/ Joining!Next /\ UNCHANGED vars
  \/ Next /\ UNCHANGED joinVars

SetupSpec ==
  /\ SetupInit /\ [][SetupNext]_<<vars, joinVars>>
  /\ Fairness /\ Joining!Fairness

-----------------------------------------------------------------------------
(* The types of the two parts; see InstantiateChaincode and JoinChannel.   *)
(* Code: instantiate-chaincode.js:26-123, join-channel.js:41-107.          *)
SetupTypeOK == TypeOK /\ Joining!TypeOK

(* A join that reports success has had every configured peer it names join *)
(* the channel (join-channel.js:82-117); see JoinChannel.                  *)
SuccessMeansJoined == Joining!SuccessMeansJoined

(* A join comes to an end, where no block of several transactions comes    *)
(* (join-channel.js:85-101); see JoinChannel.                              *)
EveryJoinEnds == Joining!EveryJoinEnds
=============================================================================
