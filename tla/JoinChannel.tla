----------------------------- MODULE JoinChannel -----------------------------
(***************************************************************************)
(* The channel is created at the orderer, and peers are asked to join it   *)
(* (create-channel.js, join-channel.js, the event hub of fabric-client).   *)
(* A join opens an event hub to every peer it names, waits for a block     *)
(* from each and for the answers to its proposal, and at its end closes    *)
(* every hub of a list that all joins share.  A callback and the promises  *)
(* it settles are one step.                                                *)
(*                                                                         *)
(* An error of either operation is thrown again and the route does not     *)
(* catch it: such a request gets no answer.                                *)
(***************************************************************************)
EXTENDS Integers, FiniteSets

CONSTANTS
  Join,       \* join requests, each used once
  Peer,       \* the peers that are configured for the organisation
  Member,     \* peers that are in another channel as well
  Null,
  MaxTargets, \* bound: how many peers the joins ask between them
  MaxFaults,  \* bound of the failures of the network
  MaxBlocks   \* bound of the blocks that are not the channel's first one

JoinChannelAssumption ==
  /\ Member \subseteq Peer
  /\ Null \notin Peer \cup {"good", "bad"}
  /\ MaxTargets \in Nat /\ MaxFaults \in Nat /\ MaxBlocks \in Nat

VARIABLES
  create,    \* what the request to create the channel has come to
  channel,   \* the channel at the orderer
  joined,    \* the peers that have the channel
  at,        \* what each join has come to
  names,     \* the configured peers it names
  first,     \* the first of its targets
  asked,     \* the targets its proposal has reached
  reply,     \* what the first of them answered
  hub,       \* its event hubs, all of them in allEventhubs
  timer,     \* the promises whose timer runs
  resolved,  \* the promises that are resolved
  sent,      \* blocks on their way to a hub
  faults, blocks

network == <<faults, blocks>>
request == <<names, first>>
waits == <<hub, timer, resolved>>
vars == <<create, channel, joined, at, names, first, asked, reply,
          hub, timer, resolved, sent, faults, blocks>>

(* A block of one transaction of the channel, one of another channel, and  *)
(* a block of several transactions.                                        *)
Block == {"channel", "elsewhere", "several"}

Over == {"refused", "joined", "failed", "crashed"}

Init ==
  /\ create = "idle" /\ channel = "none" /\ joined = {}
  /\ at = [j \in Join |-> "idle"]
  /\ names = [j \in Join |-> {}] /\ first = [j \in Join |-> Null]
  /\ asked = [j \in Join |-> {}] /\ reply = [j \in Join |-> Null]
  /\ hub = [j \in Join |-> [p \in Peer |-> "none"]]
  /\ timer = {} /\ resolved = {} /\ sent = {}
  /\ faults = 0 /\ blocks = 0

Fault == faults < MaxFaults /\ faults' = faults + 1

-----------------------------------------------------------------------------
createChannel ==
  /\ create = "idle" /\ create' \in {"sent", "refused"}
  /\ UNCHANGED <<channel, joined, at, request, asked, reply, waits, sent, network>>

(* The orderer takes the configuration, which the channel comes of later.  *)
CreateAnswered ==
  /\ create = "sent" /\ create' = "success" /\ channel' = "accepted"
  /\ UNCHANGED <<joined, at, request, asked, reply, waits, sent, network>>

CreateFails ==
  /\ create = "sent" /\ create' = "failed" /\ Fault
  /\ UNCHANGED <<channel, joined, at, request, asked, reply, waits, sent, blocks>>

ChannelMade ==
  /\ channel = "accepted" /\ channel' = "created"
  /\ UNCHANGED <<create, joined, at, request, asked, reply, waits, sent, network>>

-----------------------------------------------------------------------------
(* isconnected() is false of a hub that has not been answered yet: such a  *)
(* hub is not closed.  A hub that is closed drops its listener.            *)
closeConnections ==
  hub' = [j \in Join |-> [p \in Peer |-> IF hub[j][p] = "up" THEN "down" ELSE hub[j][p]]]

Goes(j, step) == at' = [at EXCEPT ![j] = step]

(* The join is over and closes the connections.  Where another request has *)
(* just cleared the user context the first disconnect throws.              *)
Ends(j, how) ==
  \/ Goes(j, how) /\ closeConnections
  \/ /\ Goes(j, "crashed")
     /\ \E k \in Join, p \in Peer :
          hub[k][p] = "up" /\ hub' = [hub EXCEPT ![k][p] = "down"]

(* Where no name is left the library asks all peers of the channel.        *)
TargetsOf(ps) == IF ps = {} THEN Peer ELSE ps

(* A promise of join j is settled, and perhaps the last: of the answers to *)
(* the proposal only the first one is looked at.                           *)
Settles(j, done, answered, answer) ==
  IF at[j] = "waiting" /\ answered = TargetsOf(names[j]) /\ {j} \X names[j] \subseteq done
  THEN Ends(j, IF answer = "good" THEN "joined" ELSE "failed")
  ELSE UNCHANGED <<at, hub>>

(* reject() passes no error.  The handler reads its stack, which throws    *)
(* before the connections are closed.                                      *)
Rejects(j) ==
  /\ Goes(j, "crashed") /\ UNCHANGED hub

Targeted ==
  {w \in Join \X Peer : at[w[1]] \notin {"idle", "refused"} /\ w[2] \in TargetsOf(names[w[1]])}

(* A name that is not configured is dropped, with a line in the log where  *)
(* none is left.                                                           *)
joinChannel(j) ==
  /\ at[j] = "idle" /\ Goes(j, "genesis")
  /\ \E ps \in SUBSET Peer, p \in Peer :
       /\ p \in TargetsOf(ps) /\ Cardinality(Targeted) + Cardinality(TargetsOf(ps)) <= MaxTargets
       /\ names' = [names EXCEPT ![j] = ps]
       /\ first' = [first EXCEPT ![j] = p]
  /\ UNCHANGED <<create, channel, joined, asked, reply, waits, sent, network>>

(* A request without peers.                                                *)
JoinRefused(j) ==
  /\ at[j] = "idle" /\ Goes(j, "refused")
  /\ UNCHANGED <<create, channel, joined, request, asked, reply, waits, sent, network>>

(* The administrator or the genesis block is not to be had.                *)
GenesisFails(j) ==
  /\ at[j] = "genesis" /\ Ends(j, "failed")
  /\ \/ channel # "created" /\ UNCHANGED faults
     \/ Fault
  /\ UNCHANGED <<create, channel, joined, request, asked, reply, timer, resolved, sent, blocks>>

(* Mutant of connect: no timer is set.                                     *)
connectUntimed(j) ==
  /\ at[j] = "genesis" /\ channel = "created"
  /\ Goes(j, "waiting")
  /\ hub' = [hub EXCEPT ![j] = [p \in Peer |-> IF p \in names[j] THEN "connecting" ELSE "none"]]
  /\ UNCHANGED <<create, channel, joined, request, asked, reply, timer, resolved, sent, network>>

(* The genesis block has come: hubs are opened, a listener and a timer are *)
(* set for each named peer, and the proposal is sent.                      *)
connect(j) ==
  /\ at[j] = "genesis" /\ channel = "created"
  /\ Goes(j, "waiting")
  /\ hub' = [hub EXCEPT ![j] = [p \in Peer |-> IF p \in names[j] THEN "connecting" ELSE "none"]]
  /\ timer' = timer \cup ({j} \X names[j])
  /\ UNCHANGED <<create, channel, joined, request, asked, reply, resolved, sent, network>>

(* Another request has cleared the client's user context: connect throws.  *)
ConnectFails(j) ==
  /\ at[j] = "genesis" /\ channel = "created" /\ Fault
  /\ Ends(j, "failed")
  /\ UNCHANGED <<create, channel, joined, request, asked, reply, timer, resolved, sent, blocks>>

HubUp(j, p) ==
  /\ hub[j][p] = "connecting" /\ hub' = [hub EXCEPT ![j][p] = "up"]
  /\ UNCHANGED <<create, channel, joined, at, request, asked, reply, timer, resolved,
                 sent, network>>

(* The connection times out or breaks.  No error callback was given.       *)
HubDown(j, p) ==
  /\ hub[j][p] \in {"connecting", "up"} /\ hub' = [hub EXCEPT ![j][p] = "down"]
  /\ Fault
  /\ UNCHANGED <<create, channel, joined, at, request, asked, reply, timer, resolved, sent, blocks>>

-----------------------------------------------------------------------------
(* What comes to a hub, or to a timer, of a join that is over has no       *)
(* effect and is left out.                                                 *)
ToHubs(p, b) == {<<j, p, b>> : j \in {k \in Join : at[k] = "waiting" /\ hub[k][p] = "up"}}

(* A peer takes the proposal.  It joins a channel once, and commits the    *)
(* channel's first block as it does.                                       *)
PeerAsked(j, p) ==
  /\ hub[j][p] # "none" \/ (names[j] = {} /\ at[j] = "waiting")
  /\ p \notin asked[j]
  /\ asked' = [asked EXCEPT ![j] = @ \cup {p}]
  /\ \/ /\ UNCHANGED faults
        /\ joined' = joined \cup {p}
        /\ sent' = sent \cup (IF p \in joined THEN {} ELSE ToHubs(p, "channel"))
        /\ reply' = [reply EXCEPT ![j] = IF p # first[j] THEN @
                                         ELSE IF p \in joined THEN "bad" ELSE "good"]
     \/ /\ Fault /\ UNCHANGED <<joined, sent>>
        /\ reply' = [reply EXCEPT ![j] = IF p = first[j] THEN "bad" ELSE @]
  /\ Settles(j, resolved, asked'[j], reply'[j])
  /\ UNCHANGED <<create, channel, request, timer, resolved, blocks>>

(* A later block of a channel that the peer is in.                         *)
PeerCommits(p) ==
  /\ blocks < MaxBlocks /\ blocks' = blocks + 1
  /\ \E b \in Block :
       /\ b = "channel" => p \in joined
       /\ b = "elsewhere" => p \in Member
       /\ b = "several" => p \in joined \cup Member
       /\ sent' = sent \cup ToHubs(p, b)
  /\ UNCHANGED <<create, channel, joined, at, request, asked, reply, waits, faults>>

(* Mutants of BlockEvent: the timer runs on; any block of one transaction  *)
(* will do.                                                                *)
BlockEventTimed(j, p, b) ==
  /\ at[j] = "waiting" /\ b = "channel"
  /\ <<j, p, b>> \in sent /\ sent' = sent \ {<<j, p, b>>}
  /\ resolved' = resolved \cup {<<j, p>>}
  /\ Settles(j, resolved', asked[j], reply[j])
  /\ UNCHANGED <<create, channel, joined, request, asked, reply, timer, network>>

BlockEventOfAnyChannel(j, p, b) ==
  /\ at[j] = "waiting"
  /\ <<j, p, b>> \in sent /\ sent' = sent \ {<<j, p, b>>}
  /\ IF hub[j][p] # "up" THEN UNCHANGED <<at, waits>>
     ELSE /\ timer' = timer \ {<<j, p>>}
          /\ resolved' = (IF b # "several" THEN resolved \cup {<<j, p>>} ELSE resolved)
          /\ Settles(j, resolved', asked[j], reply[j])
  /\ UNCHANGED <<create, channel, joined, request, asked, reply, network>>

(* The listener of a hub that is up.  Whatever the block, its timer stops; *)
(* one of several transactions settles nothing.                            *)
BlockEvent(j, p, b) ==
  /\ at[j] = "waiting"
  /\ <<j, p, b>> \in sent /\ sent' = sent \ {<<j, p, b>>}
  /\ UNCHANGED <<create, channel, joined, request, asked, reply, network>>
  /\ IF hub[j][p] # "up" THEN UNCHANGED <<at, waits>>
     ELSE /\ timer' = timer \ {<<j, p>>}
          /\ \/ /\ b = "channel" /\ resolved' = resolved \cup {<<j, p>>}
                /\ Settles(j, resolved', asked[j], reply[j])
             \/ /\ b = "elsewhere" /\ UNCHANGED resolved
                /\ IF <<j, p>> \in resolved THEN UNCHANGED <<at, hub>> ELSE Rejects(j)
             \/ b = "several" /\ UNCHANGED <<at, hub, resolved>>

TimerFires(j, p) ==
  /\ at[j] = "waiting"
  /\ <<j, p>> \in timer /\ timer' = timer \ {<<j, p>>}
  /\ Rejects(j)
  /\ UNCHANGED <<create, channel, joined, request, asked, reply, resolved, sent, network>>

-----------------------------------------------------------------------------
Proceeds(j) ==
  \/ GenesisFails(j) \/ connect(j)
  \/ \E p \in Peer : PeerAsked(j, p) \/ TimerFires(j, p) \/ \E b \in Block : BlockEvent(j, p, b)

Next ==
  \/ createChannel \/ CreateAnswered \/ CreateFails \/ ChannelMade
  \/ \E j \in Join :
       \/ joinChannel(j) \/ JoinRefused(j) \/ ConnectFails(j) \/ Proceeds(j)
       \/ \E p \in Peer : HubUp(j, p) \/ HubDown(j, p)
  \/ \E p \in Peer : PeerCommits(p)

Spec == Init /\ [][Next]_vars

(* The network delivers and node runs the timers.                          *)
Fairness ==
  /\ \A j \in Join : WF_vars(GenesisFails(j) \/ connect(j))
  /\ \A j \in Join, p \in Peer :
       /\ WF_vars(PeerAsked(j, p)) /\ WF_vars(TimerFires(j, p))
       /\ \A b \in Block : WF_vars(BlockEvent(j, p, b))

FairSpec == Spec /\ Fairness

-----------------------------------------------------------------------------
(* The types of the variables, and that a promise has a hub.               *)
(* Code: join-channel.js:41-107.                                           *)
TypeOK ==
  /\ create \in {"idle", "refused", "sent", "success", "failed"}
  /\ channel \in {"none", "accepted", "created"}
  /\ joined \subseteq Peer
  /\ at \in [Join -> {"idle", "genesis", "waiting"} \cup Over]
  /\ names \in [Join -> SUBSET Peer] /\ first \in [Join -> Peer \cup {Null}]
  /\ \A j \in Join : asked[j] \subseteq TargetsOf(names[j])
  /\ reply \in [Join -> {Null, "good", "bad"}]
  /\ hub \in [Join -> [Peer -> {"none", "connecting", "up", "down"}]]
  /\ \A w \in timer \cup resolved : w[2] \in names[w[1]] /\ hub[w[1]][w[2]] # "none"
  /\ timer \cap resolved = {}
  /\ sent \subseteq Join \X Peer \X Block
  /\ faults \in 0..MaxFaults /\ blocks \in 0..MaxBlocks

(* A join that reports success has had every configured peer it names join *)
(* the channel, though only the first peer's answer is looked at, blocks   *)
(* come from all channels of a peer, and a peer may fail or may have been  *)
(* asked by another join.  Names that are not configured are no peers: the *)
(* join says success of the rest, and of the first peer of the channel     *)
(* where there is no rest.                                                 *)
(* Code: join-channel.js:68-106, 112-117; helper.js:103-133.               *)
SuccessMeansJoined ==
  \A j \in Join : at[j] = "joined" =>
    names[j] \cup {first[j]} \subseteq joined /\ channel = "created"

(* Whatever the network loses and whoever closes its hubs, a join comes to *)
(* an end, where no block of several transactions comes: such a block      *)
(* stops the timer and settles nothing.  Code: join-channel.js:85-101.     *)
EveryJoinEnds ==
  [](\A w \in sent : w[3] # "several")
    => \A j \in Join : at[j] \in {"genesis", "waiting"} ~> at[j] \in Over
=============================================================================
