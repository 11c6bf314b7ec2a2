-------------------------- MODULE ChannelSetupProofs --------------------------
(***************************************************************************)
(* The types of both parts, for every number of requests at once; and that *)
(* a join which reports success has had every configured peer it names     *)
(* join, for every number of joins and peers.                              *)
(***************************************************************************)
EXTENDS ChannelSetup, TLAPS

LEMMA InitGood == Init => TypeOK
BY InstantiateAssumption DEF Init, TypeOK, Over

LEMMA NextKeepsTypes == TypeOK /\ [Next]_vars => TypeOK'
<1> SUFFICES ASSUME TypeOK, [Next]_vars PROVE TypeOK'
  OBVIOUS
<1> USE InstantiateAssumption DEF TypeOK, Goes, Fault, Over, Transactions, Disconnected
<1>1. ASSUME NEW r \in Request, instantiateChaincode(r) PROVE TypeOK'
  BY <1>1 DEF instantiateChaincode
<1>2. ASSUME NEW r \in Request, ProposalFails(r) PROVE TypeOK'
  BY <1>2 DEF ProposalFails
<1>3. ASSUME NEW r \in Request, newTransactionID(r) PROVE TypeOK'
  BY <1>3 DEF newTransactionID
<1>4. ASSUME NEW r \in Request, registerTxEvent(r) PROVE TypeOK'
  BY <1>4 DEF registerTxEvent
<1>5. ASSUME NEW r \in Request, HubUp(r) PROVE TypeOK'
  BY <1>5 DEF HubUp
<1>6. ASSUME NEW r \in Request, HubDown(r) PROVE TypeOK'
  BY <1>6 DEF HubDown
<1>7. ASSUME NEW r \in Request, OrderAnswered(r) PROVE TypeOK'
  BY <1>7 DEF OrderAnswered
<1>8. ASSUME NEW r \in Request, PeerCommits(r) PROVE TypeOK'
  BY <1>8 DEF PeerCommits
<1>9. ASSUME NEW r \in Request, NEW tx \in Request, TxEvent(r, tx) PROVE TypeOK'
  <2>1. CASE r \notin listens \/ deployId[r] # tx
    BY <1>9, <2>1 DEF TxEvent
  <2>2. CASE r \in listens /\ deployId[r] = tx
    <3>1. hub' \in [Request -> {"none", "connecting", "up", "down"}]
      BY <1>9, <2>2 DEF TxEvent
    <3>2. \A q \in listens' : hub'[q] \in {"connecting", "up"}
      <4>1. listens' = listens \ {eh} /\ hub' = [hub EXCEPT ![eh] = "down"]
        BY <1>9, <2>2 DEF TxEvent
      <4> QED BY <4>1
    <3>3. at' \in [Request -> {"idle", "channel", "proposed", "waiting", "event"} \cup Over]
      BY <1>9, <2>2 DEF TxEvent
    <3> QED BY <1>9, <2>2, <3>1, <3>2, <3>3 DEF TxEvent
  <2> QED BY <2>1, <2>2
<1>10. ASSUME NEW r \in Request, TimerFires(r) PROVE TypeOK'
  <2>1. hub' \in [Request -> {"none", "connecting", "up", "down"}]
    BY <1>10 DEF TimerFires
  <2>2. \A q \in listens' : hub'[q] \in {"connecting", "up"}
    BY <1>10 DEF TimerFires
  <2>3. at' \in [Request -> {"idle", "channel", "proposed", "waiting", "event"} \cup Over]
    BY <1>10 DEF TimerFires
  <2> QED BY <1>10, <2>1, <2>2, <2>3 DEF TimerFires
<1>11. CASE Restart
  BY <1>11 DEF Restart, Open
<1>12. CASE UNCHANGED vars
  BY <1>12 DEF vars
<1> QED
  BY <1>1, <1>2, <1>3, <1>4, <1>5, <1>6, <1>7, <1>8, <1>9, <1>10, <1>11, <1>12
  DEF Next, Proceeds

-----------------------------------------------------------------------------
(* The variables keep their types, and a hub that was disconnected has no  *)
(* listener (instantiate-chaincode.js:89-123).                             *)
THEOREM TypeCorrect == Spec => []TypeOK
BY InitGood, NextKeepsTypes, PTL DEF Spec

-----------------------------------------------------------------------------
(* A hub belongs to a peer that the join names, and is opened once the     *)
(* join has the genesis block.                                             *)
HubsNamed ==
  \A j \in Join, p \in Peer :
    /\ joinHub[j][p] # "none" => p \in names[j] /\ joinAt[j] \notin {"idle", "genesis"}
    /\ p \in asked[j] => joinAt[j] \notin {"idle", "genesis"}

(* A block of the channel has left the peer that joined it, a promise is   *)
(* resolved by such a block only, and the first target has joined where    *)
(* its answer is good.                                                     *)
PeersJoined ==
  /\ \A j \in Join : reply[j] # Null => joinAt[j] \notin {"idle", "genesis"}
  /\ \A j \in Join : reply[j] = "good" => first[j] \in joined
  /\ \A w \in joinSent : w[3] = "channel" => w[2] \in joined
  /\ \A w \in resolved : w[2] \in joined

(* The orderer takes the channel once, and a join asks for its genesis     *)
(* block before anything else.                                             *)
Created ==
  /\ channel # "none" => create = "success"
  /\ \A j \in Join : joinAt[j] \in {"waiting", "joined"} => channel = "created"

PromiseTypes ==
  /\ asked \in [Join -> SUBSET Peer]
  /\ joinTimer \subseteq Join \X Peer /\ resolved \subseteq Join \X Peer

JoinIInv ==
  /\ Joining!TypeOK /\ PromiseTypes /\ HubsNamed
  /\ PeersJoined /\ Created /\ SuccessMeansJoined

LEMMA JoinInitGood == Joining!Init => JoinIInv
BY SetupAssumption DEF Joining!Init, Joining!JoinChannelAssumption, JoinIInv, Joining!TypeOK,
   Joining!Over, PromiseTypes, HubsNamed, PeersJoined, Created, SuccessMeansJoined,
   Joining!SuccessMeansJoined, Joining!TargetsOf

-----------------------------------------------------------------------------
HubStates == {"none", "connecting", "up", "down"}

(* A join's end closes hubs, and makes none.                               *)
HubsKept ==
  /\ joinHub' \in [Join -> [Peer -> HubStates]]
  /\ \A k \in Join, p \in Peer : joinHub'[k][p] = "none" <=> joinHub[k][p] = "none"

LEMMA HubClosed ==
  ASSUME joinHub \in [Join -> [Peer -> HubStates]],
         NEW k \in Join, NEW p \in Peer, NEW from \in HubStates \ {"none"},
         NEW to \in HubStates \ {"none"},
         joinHub[k][p] = from, joinHub' = [joinHub EXCEPT ![k][p] = to]
  PROVE  HubsKept
BY DEF HubsKept, HubStates

LEMMA EndsCloses ==
  ASSUME joinHub \in [Join -> [Peer -> HubStates]],
         NEW j \in Join, NEW how, Joining!Ends(j, how)
  PROVE  HubsKept /\ \E end \in {how, "crashed"} : joinAt' = [joinAt EXCEPT ![j] = end]
<1>1. CASE Joining!Goes(j, how) /\ Joining!closeConnections
  BY <1>1 DEF Joining!Goes, Joining!closeConnections, HubsKept, HubStates
<1>2. CASE /\ Joining!Goes(j, "crashed")
           /\ \E k \in Join, p \in Peer :
                joinHub[k][p] = "up" /\ joinHub' = [joinHub EXCEPT ![k][p] = "down"]
  BY <1>2, HubClosed DEF Joining!Goes, HubStates
<1> QED BY <1>1, <1>2 DEF Joining!Ends

(* A promise that is settled ends the join with success only when every    *)
(* peer named has answered and all their promises are resolved.            *)
LEMMA SettlesEnds ==
  ASSUME joinHub \in [Join -> [Peer -> HubStates]],
         NEW j \in Join, NEW done, NEW answered, NEW answer,
         Joining!Settles(j, done, answered, answer)
  PROVE  /\ HubsKept
         /\ \/ joinAt' = joinAt
            \/ /\ joinAt[j] = "waiting"
               /\ \E end \in {"joined", "failed", "crashed"} :
                    /\ joinAt' = [joinAt EXCEPT ![j] = end]
                    /\ end = "joined" => {j} \X names[j] \subseteq done /\ answer = "good"
<1>1. CASE /\ joinAt[j] = "waiting" /\ answered = Joining!TargetsOf(names[j])
           /\ {j} \X names[j] \subseteq done
  <2> DEFINE how == IF answer = "good" THEN "joined" ELSE "failed"
  <2>1. Joining!Ends(j, how)
    BY <1>1 DEF Joining!Settles
  <2>2. HubsKept /\ \E end \in {how, "crashed"} : joinAt' = [joinAt EXCEPT ![j] = end]
    BY <2>1, EndsCloses
  <2>3. how \in {"joined", "failed"} /\ (how = "joined" => answer = "good")
    OBVIOUS
  <2> QED BY <1>1, <2>2, <2>3
<1>2. CASE ~(/\ joinAt[j] = "waiting" /\ answered = Joining!TargetsOf(names[j])
             /\ {j} \X names[j] \subseteq done)
  BY <1>2 DEF Joining!Settles, HubsKept
<1> QED BY <1>1, <1>2

LEMMA JoinNextGood == JoinIInv /\ [Joining!Next]_joinVars => JoinIInv'
<1> SUFFICES ASSUME JoinIInv, [Joining!Next]_joinVars PROVE JoinIInv'
  OBVIOUS
<1> USE SetupAssumption DEF Joining!JoinChannelAssumption, JoinIInv, Joining!TypeOK, Joining!Over,
        PromiseTypes, HubsNamed, PeersJoined, Created, SuccessMeansJoined,
        Joining!SuccessMeansJoined, Joining!Goes, Joining!Fault, Joining!network,
        Joining!request, Joining!waits
<1>1. CASE \/ Joining!createChannel \/ Joining!CreateAnswered \/ Joining!CreateFails
           \/ Joining!ChannelMade
  <2>1. UNCHANGED <<joined, joinAt, names, first, asked, reply, joinHub, joinTimer, resolved,
                    joinSent, blocks>>
    BY <1>1 DEF Joining!createChannel, Joining!CreateAnswered, Joining!CreateFails,
                Joining!ChannelMade
  <2>2. /\ create' \in {"idle", "refused", "sent", "success", "failed"}
        /\ channel' \in {"none", "accepted", "created"} /\ joinFaults' \in 0..MaxFaults
        /\ channel' # "none" => create' = "success"
        /\ channel = "created" => channel' = "created"
    BY <1>1 DEF Joining!createChannel, Joining!CreateAnswered, Joining!CreateFails,
                Joining!ChannelMade
  <2> QED BY <2>1, <2>2
<1>2. ASSUME NEW j \in Join, Joining!joinChannel(j) PROVE JoinIInv'
  <2>1. PICK ps \in SUBSET Peer, p \in Peer :
          /\ names' = [names EXCEPT ![j] = ps] /\ first' = [first EXCEPT ![j] = p]
    BY <1>2 DEF Joining!joinChannel
  <2>2. /\ joinAt[j] = "idle" /\ joinAt' = [joinAt EXCEPT ![j] = "genesis"]
        /\ UNCHANGED <<create, channel, joined, asked, reply, joinHub, joinTimer, resolved,
                       joinSent, joinFaults, blocks>>
    BY <1>2 DEF Joining!joinChannel
  <2>3. \A w \in joinTimer \cup resolved : w[1] # j
    BY <2>2
  <2>4. asked[j] = {}
    BY <2>2
  <2>5. \A k \in Join : asked'[k] \subseteq Joining!TargetsOf(names'[k])
    BY <2>1, <2>2, <2>4
  <2>6. \A w \in joinTimer' \cup resolved' : w[2] \in names'[w[1]] /\ joinHub'[w[1]][w[2]] # "none"
    BY <2>1, <2>2, <2>3
  <2>7. reply[j] = Null
    BY <2>2
  <2>8. PeersJoined'
    <3>1. \A k \in Join : reply'[k] # Null => joinAt'[k] \notin {"idle", "genesis"}
      BY <2>2, <2>7
    <3>2. \A k \in Join : reply'[k] = "good" => first'[k] \in joined'
      BY <2>1, <2>2, <2>7
    <3> QED BY <2>2, <3>1, <3>2
  <2>9. PromiseTypes' /\ HubsNamed' /\ Created' /\ SuccessMeansJoined'
    BY <2>1, <2>2, <2>4
  <2>10. Joining!TypeOK'
    BY <2>1, <2>2, <2>5, <2>6
  <2> QED BY <2>8, <2>9, <2>10
<1>3. ASSUME NEW j \in Join, Joining!JoinRefused(j) PROVE JoinIInv'
  BY <1>3 DEF Joining!JoinRefused
<1>4. ASSUME NEW j \in Join, Joining!GenesisFails(j) \/ Joining!ConnectFails(j) PROVE JoinIInv'
  <2>1. Joining!Ends(j, "failed") /\ joinAt[j] = "genesis"
    BY <1>4 DEF Joining!GenesisFails, Joining!ConnectFails
  <2>2. HubsKept /\ \E end \in {"failed", "crashed"} : joinAt' = [joinAt EXCEPT ![j] = end]
    BY <2>1, EndsCloses DEF HubStates
  <2> QED BY <1>4, <2>1, <2>2 DEF Joining!GenesisFails, Joining!ConnectFails, HubsKept, HubStates
<1>5. ASSUME NEW j \in Join, Joining!connect(j) PROVE JoinIInv'
  BY <1>5 DEF Joining!connect
<1>6. ASSUME NEW j \in Join, NEW p \in Peer, Joining!HubUp(j, p) \/ Joining!HubDown(j, p)
      PROVE  JoinIInv'
  <2>1. joinHub[j][p] \in HubStates \ {"none"}
        /\ \E to \in HubStates \ {"none"} : joinHub' = [joinHub EXCEPT ![j][p] = to]
    BY <1>6 DEF Joining!HubUp, Joining!HubDown, HubStates
  <2>2. HubsKept
    <3> HIDE DEF JoinIInv
    <3>1. joinHub \in [Join -> [Peer -> HubStates]]
      BY DEF JoinIInv, HubStates
    <3> QED BY <2>1, <3>1, HubClosed
  <2>3. UNCHANGED <<create, channel, joined, joinAt, names, first, asked, reply, joinTimer,
                    resolved, joinSent, blocks>> /\ joinFaults' \in 0..MaxFaults
    BY <1>6 DEF Joining!HubUp, Joining!HubDown
  <2> QED BY <2>2, <2>3 DEF HubsKept, HubStates
<1>7. ASSUME NEW j \in Join, NEW p \in Peer, Joining!PeerAsked(j, p) PROVE JoinIInv'
  <2>1. /\ joinHub[j][p] # "none" \/ (names[j] = {} /\ joinAt[j] = "waiting")
        /\ asked' = [asked EXCEPT ![j] = @ \cup {p}]
        /\ joined' \in {joined, joined \cup {p}}
        /\ joinFaults' \in 0..MaxFaults
        /\ UNCHANGED <<create, channel, names, first, joinTimer, resolved, blocks>>
    BY <1>7 DEF Joining!PeerAsked
  <2>7. reply' \in [Join -> {Null, "good", "bad"}]
    <3>1. \E answer \in {"good", "bad", reply[j]} : reply' = [reply EXCEPT ![j] = answer]
      BY <1>7 DEF Joining!PeerAsked
    <3> QED BY <3>1
  <2>2. joinSent' \subseteq Join \X Peer \X Joining!Block
        /\ \A w \in joinSent' : w \in joinSent \/ (w[2] = p /\ p \in joined')
    BY <1>7 DEF Joining!PeerAsked, Joining!ToHubs, Joining!Block
  <2>3. /\ HubsKept
        /\ \/ joinAt' = joinAt
           \/ /\ joinAt[j] = "waiting"
              /\ \E end \in {"joined", "failed", "crashed"} :
                   /\ joinAt' = [joinAt EXCEPT ![j] = end]
                   /\ end = "joined" => {j} \X names[j] \subseteq resolved /\ reply'[j] = "good"
    BY <1>7, SettlesEnds DEF Joining!PeerAsked, HubStates
  <2>8. /\ \A k \in Join : joinAt'[k] \in {"idle", "genesis"} <=> joinAt[k] \in {"idle", "genesis"}
        /\ joinAt[j] \notin {"idle", "genesis"}
    BY <2>1, <2>3
  <2>9. PeersJoined'
    <3>1. \A k \in Join \ {j} : reply'[k] = reply[k]
      BY <1>7 DEF Joining!PeerAsked
    <3>2. reply'[j] = "good" => first[j] \in joined'
      BY <1>7 DEF Joining!PeerAsked
    <3>3. \A k \in Join : reply'[k] # Null => joinAt'[k] \notin {"idle", "genesis"}
      BY <2>8, <3>1
    <3>4. \A k \in Join : reply'[k] = "good" => first[k] \in joined'
      BY <2>1, <3>1, <3>2
    <3>5. \A w \in joinSent' : w[3] = "channel" => w[2] \in joined'
      BY <2>1, <2>2
    <3> QED BY <2>1, <3>3, <3>4, <3>5
  <2>10. PromiseTypes'
    BY <2>1
  <2>11. HubsNamed'
    BY <2>1, <2>3, <2>8 DEF HubsKept
  <2>12. Created'
    BY <2>1, <2>3
  <2>4. PromiseTypes' /\ HubsNamed' /\ Created' /\ PeersJoined'
    BY <2>9, <2>10, <2>11, <2>12
  <2>5. Joining!TypeOK'
    <3>1. \A w \in joinTimer \cup resolved : w[2] \in names[w[1]] /\ joinHub'[w[1]][w[2]] # "none"
      BY <2>3 DEF HubsKept
    <3>2. \A k \in Join : asked'[k] \subseteq Joining!TargetsOf(names[k])
      BY <2>1 DEF Joining!TargetsOf
    <3>3. joinHub' \in [Join -> [Peer -> HubStates]]
      BY <2>3 DEF HubsKept
    <3>4. joinAt' \in [Join -> {"idle", "genesis", "waiting"} \cup Joining!Over]
      BY <2>3
    <3> QED BY <2>1, <2>2, <2>7, <3>1, <3>2, <3>3, <3>4 DEF HubStates
  <2>6. SuccessMeansJoined'
    <3>1. ASSUME NEW k \in Join, joinAt'[k] = "joined", joinAt[k] # "joined"
          PROVE  names[k] \subseteq joined' /\ first[k] \in joined' /\ channel = "created"
      <4>1. /\ k = j /\ joinAt[j] = "waiting" /\ {j} \X names[j] \subseteq resolved
            /\ reply'[j] = "good"
        BY <2>3, <3>1
      <4>2. ASSUME NEW q \in names[j] PROVE q \in joined
        <5>1. <<j, q>>[2] \in joined
          BY <4>1
        <5> QED BY <5>1
      <4> QED BY <2>1, <2>4, <4>1, <4>2
    <3> QED BY <2>1, <3>1
  <2> QED BY <2>4, <2>5, <2>6
<1>8. ASSUME NEW p \in Peer, Joining!PeerCommits(p) PROVE JoinIInv'
  BY <1>8 DEF Joining!PeerCommits, Joining!ToHubs, Joining!Block
<1>9. ASSUME NEW j \in Join, NEW p \in Peer, NEW b \in Joining!Block, Joining!BlockEvent(j, p, b)
      PROVE  JoinIInv'
  <2>1. /\ joinAt[j] = "waiting" /\ <<j, p, b>> \in joinSent
        /\ joinSent' = joinSent \ {<<j, p, b>>}
        /\ UNCHANGED <<create, channel, joined, names, first, asked, reply, joinFaults, blocks>>
    BY <1>9 DEF Joining!BlockEvent
  <2>2. CASE joinHub[j][p] # "up"
    BY <1>9, <2>1, <2>2 DEF Joining!BlockEvent
  <2>3. CASE joinHub[j][p] = "up"
    <3>1. joinTimer' = joinTimer \ {<<j, p>>}
      BY <1>9, <2>3 DEF Joining!BlockEvent
    <3>2. resolved' \in {resolved, resolved \cup {<<j, p>>}}
          /\ (resolved' # resolved => b = "channel")
      BY <1>9, <2>3 DEF Joining!BlockEvent
    <3>3. b = "channel" => p \in joined
      <4>1. <<j, p, b>>[3] = "channel" => <<j, p, b>>[2] \in joined
        BY <2>1
      <4> QED BY <4>1
    <3>4. /\ HubsKept
          /\ \/ joinAt' = joinAt
             \/ \E end \in {"joined", "failed", "crashed"} :
                  /\ joinAt' = [joinAt EXCEPT ![j] = end]
                  /\ end = "joined" => {j} \X names[j] \subseteq resolved' /\ reply[j] = "good"
      <4>1. CASE Joining!Settles(j, resolved', asked[j], reply[j])
        BY <4>1, SettlesEnds DEF HubStates
      <4>2. CASE UNCHANGED <<joinAt, joinHub>> \/ Joining!Rejects(j)
        BY <4>2 DEF Joining!Rejects, HubsKept, HubStates
      <4> QED BY <1>9, <2>3, <4>1, <4>2 DEF Joining!BlockEvent
    <3>5. p \in names[j]
      BY <2>3
    <3>6. PeersJoined'
      <4>1. \A k \in Join : joinAt[k] \notin {"idle", "genesis"}
                             => joinAt'[k] \notin {"idle", "genesis"}
        BY <3>4
      <4>2. \A w \in resolved' : w[2] \in joined
        BY <3>2, <3>3
      <4> QED BY <2>1, <4>1, <4>2
    <3>7. PromiseTypes' /\ HubsNamed' /\ Created'
      BY <2>1, <3>1, <3>2, <3>4 DEF HubsKept
    <3>8. Joining!TypeOK'
      <4>1. \A w \in joinTimer' \cup resolved' :
              w[2] \in names[w[1]] /\ joinHub'[w[1]][w[2]] # "none"
        <5>1. \A w \in joinTimer' \cup resolved' : w \in Join \X Peer
              /\ (w \in joinTimer \cup resolved \/ w = <<j, p>>)
          BY <3>1, <3>2
        <5>2. \A w \in joinTimer' \cup resolved' :
                w[2] \in names[w[1]] /\ joinHub[w[1]][w[2]] # "none"
          BY <2>3, <3>5, <5>1
        <5> QED BY <3>4, <5>1, <5>2 DEF HubsKept
      <4>2. joinTimer' \cap resolved' = {}
        BY <3>1, <3>2
      <4>3. joinHub' \in [Join -> [Peer -> HubStates]]
        BY <3>4 DEF HubsKept
      <4>4. joinAt' \in [Join -> {"idle", "genesis", "waiting"} \cup Joining!Over]
        BY <3>4
      <4> QED BY <2>1, <4>1, <4>2, <4>3, <4>4 DEF HubStates
    <3>9. SuccessMeansJoined'
      <4>1. ASSUME NEW k \in Join, joinAt'[k] = "joined", joinAt[k] # "joined"
            PROVE  names[k] \subseteq joined /\ first[k] \in joined /\ channel = "created"
        <5>1. k = j /\ {j} \X names[j] \subseteq resolved' /\ reply[j] = "good"
          BY <3>4, <4>1
        <5>2. ASSUME NEW q \in names[j] PROVE q \in joined
          <6>1. <<j, q>>[2] \in joined
            BY <2>1, <3>6, <5>1
          <6> QED BY <6>1
        <5> QED BY <2>1, <5>1, <5>2
      <4> QED BY <2>1, <4>1
    <3> QED BY <3>6, <3>7, <3>8, <3>9
  <2> QED BY <2>2, <2>3
<1>10. ASSUME NEW j \in Join, NEW p \in Peer, Joining!TimerFires(j, p) PROVE JoinIInv'
  BY <1>10 DEF Joining!TimerFires, Joining!Rejects
<1>11. CASE UNCHANGED joinVars
  BY <1>11 DEF joinVars
<1> QED
  BY <1>1, <1>2, <1>3, <1>4, <1>5, <1>6, <1>7, <1>8, <1>9, <1>10, <1>11
  DEF Joining!Next, Joining!Proceeds

-----------------------------------------------------------------------------
LEMMA SetupSteps ==
  [SetupNext]_<<vars, joinVars>> => [Next]_vars /\ [Joining!Next]_joinVars
BY DEF SetupNext

LEMMA SetupRefines == SetupSpec => Spec
<1>1. SetupInit => Init
  BY DEF SetupInit
<1> QED BY <1>1, SetupSteps, PTL DEF SetupSpec, Spec

LEMMA JoinInvariance == SetupSpec => []JoinIInv
<1>1. SetupInit => JoinIInv
  BY JoinInitGood DEF SetupInit
<1>2. JoinIInv /\ [SetupNext]_<<vars, joinVars>> => JoinIInv'
  BY JoinNextGood, SetupSteps
<1> QED BY <1>1, <1>2, PTL DEF SetupSpec

(* The variables of both parts keep their types; a promise of a join has   *)
(* its hub, and its timer runs no more once it is resolved                 *)
(* (join-channel.js:41-107).                                               *)
THEOREM SetupTypeCorrect == SetupSpec => []SetupTypeOK
<1>1. TypeOK /\ JoinIInv => SetupTypeOK
  BY DEF JoinIInv, SetupTypeOK
<1> QED BY <1>1, SetupRefines, TypeCorrect, JoinInvariance, PTL

(* A join reports success only when every configured peer it names, and   *)
(* the first one it asked, has joined the channel, though the answer of    *)
(* one peer alone is looked at (join-channel.js:82-117).                   *)
THEOREM PeersHaveJoined == SetupSpec => []SuccessMeansJoined
<1>1. JoinIInv => SuccessMeansJoined
  BY DEF JoinIInv
<1> QED BY <1>1, JoinInvariance, PTL
=============================================================================
