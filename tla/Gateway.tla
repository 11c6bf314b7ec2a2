------------------------------ MODULE Gateway ------------------------------
(***************************************************************************)
(* invokeChaincode of the REST gateway (invoke-transaction.js) above a     *)
(* Hyperledger Fabric channel.  Every POST to /chaincodes, a get_status    *)
(* included, becomes a transaction: the peers simulate it (endorsement),   *)
(* the gateway compares their verdicts, sends it to the orderer, waits for *)
(* one commit event per peer under a timeout, and answers the client.      *)
(*                                                                         *)
(* Requests run concurrently: the node process interleaves their promise   *)
(* callbacks, and every action below is one callback or one step of        *)
(* Fabric.  Fabric is not part of the repository; it is modelled from what *)
(* the gateway and the chaincode rely on: a total order of transactions, a *)
(* transaction invalid when something it read was written since, and peers *)
(* that commit the same chain, each at its own pace.                       *)
(***************************************************************************)
EXTENDS Apdlcc, Sequences, FiniteSets

CONSTANTS
  Request,    \* the POST requests of the clients, each sent once
  Amount,     \* deposit amounts clients ask for, NotANumber among them
  Date,       \* deposit times clients ask for, NotADate among them
  Call,       \* what the requests may ask for
  Peer,       \* the peers of the channel
  FirstPeer,  \* the peer whose proposal response comes first in the results
  MaxTime,    \* bound of the clock
  Null        \* nothing yet; as a payload, a text that is no contract

ASSUME PeerAssumption == FirstPeer \in Peer
ASSUME InputAssumption ==
  /\ Amount \subseteq Int \cup {NotANumber}
  /\ Date \subseteq Nat \cup {NotADate}
  /\ MaxTime \in Nat

(* The functions of the chaincode with the arguments that clients send;    *)
(* refund and get_status look at none.                                     *)
ASSUME CallAssumption ==
  \A k \in Call :
    \/ k.fn = "download_request" /\ k.args \in DownloadArgs(Amount, Date)
    \/ k.fn = "penalty" /\ k.args \in PenaltyArgs
    \/ k.fn \in {"refund", "get_status"}

VARIABLES
  states,    \* states[v]: the world state after v - 1 writing transactions
  chain,     \* the ordered transactions: request, validation code, version after
  height,    \* height[p]: how much of the chain peer p has committed
  inflight,  \* requests whose transaction the orderer has and has not ordered
  now,       \* the clock of the peers
  pc,        \* where the promise chain of a request is
  call,      \* what the request asks for
  answers,   \* answers[r][p]: the proposal response of peer p
  sent,      \* the outcome of sendTransaction
  events,    \* events[r][p]: the commit event of peer p
  logInfo    \* log_info, what the client will be answered

fabric == <<states, chain, height, inflight>>
gateway == <<pc, call, answers, sent, events, logInfo>>
vars == <<fabric, now, gateway>>

World == [contract : LedgerContract, balance : [Key -> Balance]]

(* The world state that transaction puts leave.                            *)
Apply(w, puts) == [contract |-> puts.contract,
                   balance |-> PutBalances(w.balance, puts.balances)]

Version == Len(states)
Tip == states[Version]

(* The version of the world state that a peer has committed.               *)
PeerVersion(p) == IF height[p] = 0 THEN 1 ELSE chain[height[p]].version

-----------------------------------------------------------------------------
NoCall == [fn |-> "none"]

(* The Error that stands for a response when a peer gives none.            *)
NoResponse == [version |-> 0, result |-> [status |-> 0]]

(* Simulation of one invocation: status and payload of the response, what  *)
(* it read and wrote, and its puts.  Balances are left out of the two sets *)
(* because a handler that touches one touches the contract too.            *)
Refused == [status |-> 500, payload |-> Null, reads |-> {}, writes |-> {}]

\* a mutant of Succeeded: the contract is kept in a variable of the chaincode
SucceededUnread(reads, c, b) ==
  [status |-> 200, payload |-> Null, reads |-> {}, writes |-> {"contract"},
   puts |-> [contract |-> c, balances |-> b]]

Succeeded(reads, c, b) ==
  [status |-> 200, payload |-> Null, reads |-> reads, writes |-> {"contract"},
   puts |-> [contract |-> c, balances |-> b]]

Simulate(k, w, t) ==
  CASE k.fn = "download_request" ->
         IF DownloadAccepted(k.args, t)
           THEN Succeeded({}, DownloadContract(k.args), DownloadBalances(k.args))
           ELSE Refused
    [] k.fn = "penalty" ->
         IF PenaltyAccepted(w.contract, k.args)
           THEN Succeeded({"contract"}, PenaltyContract(w.contract),
                          PenaltyBalances(w.contract, w.balance))
           ELSE Refused
    [] k.fn = "refund" ->
         IF RefundAccepted(w.contract, t)
           THEN Succeeded({"contract"}, RefundContract(w.contract),
                          RefundBalances(w.contract, w.balance))
           ELSE Refused
    [] k.fn = "get_status" ->
         [status |-> 200, payload |-> w.contract, reads |-> {"contract"},
          writes |-> {}]

-----------------------------------------------------------------------------
Init ==
  /\ states = <<[contract |-> InitContract(0), balance |-> [k \in Key |-> Absent]]>>
  /\ chain = <<>>
  /\ height = [p \in Peer |-> 0]
  /\ inflight = {}
  /\ now = 0
  /\ pc = [r \in Request |-> "new"]
  /\ call = [r \in Request |-> NoCall]
  /\ answers = [r \in Request |-> [p \in Peer |-> Null]]
  /\ sent = [r \in Request |-> "pending"]
  /\ events = [r \in Request |-> [p \in Peer |-> "pending"]]
  /\ logInfo = [r \in Request |-> Null]

(* The user of the token is found and the proposal goes to the peers.      *)
SendTransactionProposal(r, k) ==
  /\ pc[r] = "new"
  /\ pc' = [pc EXCEPT ![r] = "proposed"]
  /\ call' = [call EXCEPT ![r] = k]
  /\ UNCHANGED <<fabric, now, answers, sent, events, logInfo>>

(* No user context: newTransactionID throws, the error becomes a string,   *)
(* and the last callback answers the log_info that nobody set.             *)
SubmitterFails(r) ==
  /\ pc[r] = "new"
  /\ pc' = [pc EXCEPT ![r] = "replied"]
  /\ UNCHANGED <<fabric, now, call, answers, sent, events, logInfo>>

(* A peer simulates the proposal against the state it has committed.       *)
Endorse(r, p) ==
  /\ pc[r] = "proposed" /\ answers[r][p] = Null
  /\ answers' = [answers EXCEPT ![r][p] =
       [version |-> PeerVersion(p),
        result |-> Simulate(call[r], states[PeerVersion(p)], now)]]
  /\ UNCHANGED <<fabric, now, pc, call, sent, events, logInfo>>

(* A peer cannot be reached or its deadline passes: the entry is an Error. *)
EndorseFails(r, p) ==
  /\ pc[r] = "proposed" /\ answers[r][p] = Null
  /\ answers' = [answers EXCEPT ![r][p] = NoResponse]
  /\ UNCHANGED <<fabric, now, pc, call, sent, events, logInfo>>

Answered(r) == \A p \in Peer : answers[r][p] # Null

AllGood(r) == \A p \in Peer : answers[r][p].result.status = 200

(* proposalResponses[0].                                                   *)
FirstResponse(r) == answers[r][FirstPeer]

BadProposal == [status |-> 500, payload |-> Null]

\* a mutant of Reply: the answer carries the proposal response as it is
ReplyWhole(e) == e.result

Reply(e) == [status |-> e.result.status, payload |-> e.result.payload]

(* Every response is 200: the first one becomes the answer, a listener is  *)
(* set per peer, and the transaction goes to the orderer.                  *)
SendTransaction(r) ==
  /\ pc[r] = "proposed" /\ Answered(r) /\ AllGood(r)
  /\ logInfo' = [logInfo EXCEPT ![r] = Reply(FirstResponse(r))]
  /\ pc' = [pc EXCEPT ![r] = "waiting"]
  /\ UNCHANGED <<fabric, now, call, answers, sent, events>>

(* Some response is not: status 500, and nothing is sent.                  *)
ProposalRejected(r) ==
  /\ pc[r] = "proposed" /\ Answered(r) /\ ~ AllGood(r)
  /\ logInfo' = [logInfo EXCEPT ![r] = BadProposal]
  /\ pc' = [pc EXCEPT ![r] = "replied"]
  /\ UNCHANGED <<fabric, now, call, answers, sent, events>>

(* An event hub or the transaction cannot be made (no user context, say):  *)
(* the exception is thrown after log_info was set, and makes it a 500.     *)
SendThrows(r) ==
  /\ pc[r] = "proposed" /\ Answered(r) /\ AllGood(r)
  /\ logInfo' = [logInfo EXCEPT ![r] = BadProposal]
  /\ pc' = [pc EXCEPT ![r] = "replied"]
  /\ UNCHANGED <<fabric, now, call, answers, sent, events>>

-----------------------------------------------------------------------------
(* The orderer takes the transaction and says so, or its word is lost.     *)
Broadcast(r, ack) ==
  /\ pc[r] \in {"waiting", "replied"} /\ sent[r] = "pending"
  /\ logInfo[r] # Null /\ logInfo[r] # BadProposal
  /\ inflight' = inflight \cup {r}
  /\ sent' = [sent EXCEPT ![r] = ack]
  /\ UNCHANGED <<states, chain, height, now, pc, call, answers, events, logInfo>>

(* The transaction never reaches the orderer.                              *)
BroadcastFails(r) ==
  /\ pc[r] = "waiting" /\ sent[r] = "pending"
  /\ sent' = [sent EXCEPT ![r] = "failed"]
  /\ UNCHANGED <<fabric, now, pc, call, answers, events, logInfo>>

(* A transaction is valid if what it read is still the current version.    *)
NoConflict(e) == e.result.reads # {} => e.version = Version

(* The orderer puts the transaction in the next block, and its validation  *)
(* code and its writes are determined.                                     *)
Order(r) ==
  /\ r \in inflight
  /\ LET e == FirstResponse(r)
         valid == NoConflict(e)
         writes == valid /\ e.result.writes # {}
     IN /\ states' = IF writes THEN Append(states, Apply(Tip, e.result.puts)) ELSE states
        /\ chain' = Append(chain, [request |-> r, valid |-> valid,
                                   version |-> IF writes THEN Version + 1 ELSE Version])
  /\ inflight' = inflight \ {r}
  /\ UNCHANGED <<height, now, gateway>>

(* Peer p commits the next block.  Its event reaches the listener of the   *)
(* request, if that is still set and the hub's stream is up.               *)
Commit(p, heard) ==
  /\ height[p] < Len(chain)
  /\ height' = [height EXCEPT ![p] = @ + 1]
  /\ LET b == chain[height[p] + 1]
     IN events' = IF heard /\ pc[b.request] = "waiting" /\ events[b.request][p] = "pending"
                    THEN [events EXCEPT ![b.request][p] =
                            IF b.valid THEN "valid" ELSE "invalid"]
                    ELSE events
  /\ UNCHANGED <<states, chain, inflight, now, pc, call, answers, sent, logInfo>>

-----------------------------------------------------------------------------
(* The 30 s timer of a listener fires.                                     *)
Timeout(r, p) ==
  /\ pc[r] = "waiting" /\ events[r][p] = "pending"
  /\ events' = [events EXCEPT ![r][p] = "timeout"]
  /\ UNCHANGED <<fabric, now, pc, call, answers, sent, logInfo>>

(* Promise.all has settled: everything succeeded, or something was         *)
(* rejected.                                                               *)
AllCommitted(r) == sent[r] = "ok" /\ \A p \in Peer : events[r][p] = "valid"

\* a mutant of SomeRejected: the timer of a listener does not reject
SomeRejectedNoTimer(r) ==
  sent[r] = "failed" \/ \E p \in Peer : events[r][p] = "invalid"

SomeRejected(r) ==
  sent[r] = "failed" \/ \E p \in Peer : events[r][p] \in {"invalid", "timeout"}

\* a mutant of LastReply: a transaction not seen committed is a failure
LastReplyFailure(r) == IF AllCommitted(r) THEN logInfo[r] ELSE BadProposal

(* The last callback answers log_info in both of its branches.             *)
LastReply(r) == logInfo[r]

Respond(r) ==
  /\ pc[r] = "waiting"
  /\ AllCommitted(r) \/ SomeRejected(r)
  /\ logInfo' = [logInfo EXCEPT ![r] = LastReply(r)]
  /\ pc' = [pc EXCEPT ![r] = "replied"]
  /\ UNCHANGED <<fabric, now, call, answers, sent, events>>

Tick ==
  /\ now < MaxTime
  /\ now' = now + 1
  /\ UNCHANGED <<fabric, gateway>>

-----------------------------------------------------------------------------
GatewayStep(r) ==
  \/ \E k \in Call : SendTransactionProposal(r, k)
  \/ SubmitterFails(r)
  \/ SendTransaction(r)
  \/ ProposalRejected(r)
  \/ SendThrows(r)
  \/ \E p \in Peer : Timeout(r, p)
  \/ Respond(r)

FabricStep ==
  \/ \E r \in Request, p \in Peer : Endorse(r, p) \/ EndorseFails(r, p)
  \/ \E r \in Request, ack \in {"ok", "failed"} : Broadcast(r, ack)
  \/ \E r \in Request : BroadcastFails(r)
  \/ \E r \in Request : Order(r)
  \/ \E p \in Peer, heard \in BOOLEAN : Commit(p, heard)

Next == (\E r \in Request : GatewayStep(r)) \/ FabricStep \/ Tick

Spec == Init /\ [][Next]_vars

(* What the node process and the gRPC deadlines guarantee: a proposal is   *)
(* answered or fails, callbacks run, timers fire.  Nothing is assumed of   *)
(* the orderer or of the peers' commits.                                   *)
Fairness ==
  \A r \in Request :
    /\ \A p \in Peer : /\ WF_vars(Endorse(r, p) \/ EndorseFails(r, p))
                       /\ WF_vars(Timeout(r, p))
    /\ WF_vars(SendTransaction(r) \/ ProposalRejected(r) \/ SendThrows(r))
    /\ WF_vars(Respond(r))

FairSpec == Spec /\ Fairness
-----------------------------------------------------------------------------
Result ==
  {Refused} \cup
  [status : {200}, payload : {Null} \cup LedgerContract,
   reads : SUBSET {"contract"}, writes : {{}}] \cup
  [status : {200}, payload : {Null}, reads : SUBSET {"contract"}, writes : {{"contract"}},
   puts : [contract : LedgerContract, balances : Puts]]

Proposal == [version : Nat \ {0}, result : Result]

TypeOK ==
  /\ states \in Seq(World) /\ Len(states) >= 1
  /\ chain \in Seq([request : Request, valid : BOOLEAN, version : Nat])
  /\ \A i \in 1 .. Len(chain) : chain[i].version \in 1 .. Version
  /\ height \in [Peer -> 0 .. Len(chain)]
  /\ inflight \subseteq Request
  /\ now \in 0 .. MaxTime
  /\ pc \in [Request -> {"new", "proposed", "waiting", "replied"}]
  /\ call \in [Request -> Call \cup {NoCall}]
  /\ answers \in [Request -> [Peer -> Proposal \cup {Null, NoResponse}]]
  /\ sent \in [Request -> {"pending", "ok", "failed"}]
  /\ events \in [Request -> [Peer -> {"pending", "valid", "invalid", "timeout"}]]
  /\ logInfo \in [Request ->
       {Null, BadProposal} \cup [status : {200}, payload : {Null} \cup LedgerContract]]

(* The ledger behind the gateway is the serial contract: a transaction     *)
(* that was simulated earlier, on a peer that may lag, among other         *)
(* requests, takes effect as one handler run on the contract it meets      *)
(* (invoke-transaction.js lines 34-128, apdlcc.go Invoke).                 *)
AC == INSTANCE ApdlContract WITH contract <- Tip.contract, balance <- Tip.balance

ImplementsContract == AC!Spec

(* No request in force is penalised twice: between two valid penalties in  *)
(* the chain there is a valid download request, however many clients send  *)
(* the same penalty and whatever they are answered (apdlcc.go line 106).   *)
ValidAt(i, fn) == chain[i].valid /\ call[chain[i].request].fn = fn

PenaltyOnce ==
  \A i, j \in 1 .. Len(chain) :
    i < j /\ ValidAt(i, "penalty") /\ ValidAt(j, "penalty")
      => \E m \in i .. j : ValidAt(m, "download_request")

(* A client that is not answered 200 may try again: its transaction is not *)
(* in the ledger and will not get there (invoke-transaction.js lines       *)
(* 63-68, 135-139 and 159-166).                                            *)
Failed(r) == pc[r] = "replied" /\ (logInfo[r] = Null \/ logInfo[r].status # 200)

FailureMeansNoEffect ==
  \A r \in Request : Failed(r) =>
    /\ r \notin inflight
    /\ \A i \in 1 .. Len(chain) : chain[i].request # r

(* Every proposal is answered in the end, even if the orderer and the      *)
(* peers fall silent (invoke-transaction.js lines 99-104).                 *)
EveryProposalAnswered ==
  \A r \in Request : pc[r] = "proposed" ~> pc[r] = "replied"

(* What the comment on the timeout says: a transaction that was not        *)
(* committed is not answered as a success (invoke-transaction.js lines     *)
(* 83-85).                                                                 *)
SuccessMeansCommitted ==
  \A r \in Request :
    pc[r] = "replied" /\ logInfo[r] # Null /\ logInfo[r].status = 200
      => \E i \in 1 .. Len(chain) : chain[i].request = r /\ chain[i].valid
=============================================================================
