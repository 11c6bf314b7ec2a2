--------------------------- MODULE GatewayProofs ---------------------------
(***************************************************************************)
(* The gateway above Fabric implements the serial contract, whatever the   *)
(* number of clients, peers and requests.                                  *)
(***************************************************************************)
EXTENDS Gateway, SequenceTheorems, TLAPS

ACProofs == INSTANCE ApdlContractProofs WITH
              contract <- Tip.contract, balance <- Tip.balance

(* The contract behind the gateway is the contract of those proofs, so     *)
(* what its handlers return is typed here too.                             *)
LEMMA SameTypes ==
  /\ ACProofs!LedgerContract = LedgerContract
  /\ ACProofs!Balance = Balance
  /\ ACProofs!Puts = Puts
<1>1. ACProofs!Int64 = Int64
  BY DEF Int64,
       ACProofs!Int64
<1>2. ACProofs!Contract = Contract
  BY <1>1 DEF Contract, Status,
       ACProofs!Contract, ACProofs!Status
<1>3. ACProofs!LedgerContract = LedgerContract
  BY <1>2, Zenon DEF LedgerContract, ACProofs!LedgerContract
<1> QED BY <1>1, <1>3 DEF Balance, Puts,
       ACProofs!Balance, ACProofs!Puts

LEMMA InitTyped ==
  ASSUME NEW t \in Nat
  PROVE  InitContract(t) \in LedgerContract
<1>1. ACProofs!InitContract(t) = InitContract(t)
  BY DEF InitContract, ACProofs!InitContract
<1> QED BY <1>1, SameTypes, KeyAssumption, AmountAssumption,
       InputAssumption, ACProofs!InitTyped

LEMMA RefundIsRefused ==
  ASSUME NEW c \in LedgerContract, NEW t
  PROVE  ~ RefundAccepted(c, t)
<1>1. ACProofs!RefundAccepted(c, t) = RefundAccepted(c, t)
  BY DEF RefundAccepted, StatusAllowsRefund,
       ACProofs!RefundAccepted, ACProofs!StatusAllowsRefund
<1> QED BY <1>1, SameTypes, KeyAssumption, AmountAssumption,
       InputAssumption, ACProofs!RefundIsRefused

LEMMA PutIsTyped ==
  ASSUME NEW b \in [Key -> Balance], NEW puts \in Puts
  PROVE  PutBalances(b, puts) \in [Key -> Balance]
<1>1. ACProofs!PutBalances(b, puts) = PutBalances(b, puts)
  BY DEF PutBalances, ACProofs!PutBalances
<1> QED BY <1>1, SameTypes, KeyAssumption, AmountAssumption,
       InputAssumption, ACProofs!PutIsTyped

LEMMA DownloadTyped ==
  ASSUME NEW amounts, NEW dates, dates \subseteq Nat \cup {NotADate},
         NEW a \in DownloadArgs(amounts, dates), NEW t \in Nat, DownloadAccepted(a, t)
  PROVE  DownloadContract(a) \in LedgerContract /\ DownloadBalances(a) \in Puts
<1>1. ACProofs!DownloadArgs(amounts, dates) = DownloadArgs(amounts, dates)
  BY DEF DownloadArgs, ACProofs!DownloadArgs
<1>2. ACProofs!DownloadAccepted(a, t) = DownloadAccepted(a, t)
  BY DEF DownloadAccepted, Int64,
       ACProofs!DownloadAccepted, ACProofs!Int64
<1>3. ACProofs!DownloadContract(a) = DownloadContract(a)
  BY DEF DownloadContract, ACProofs!DownloadContract
<1>4. ACProofs!DownloadBalances(a) = DownloadBalances(a)
  BY DEF DownloadBalances, Wrap,
       ACProofs!DownloadBalances, ACProofs!Wrap
<1>5. a \in ACProofs!DownloadArgs(amounts, dates) /\ ACProofs!DownloadAccepted(a, t)
  BY <1>1, <1>2
<1>6. /\ ACProofs!DownloadContract(a) \in ACProofs!LedgerContract
      /\ ACProofs!DownloadBalances(a) \in ACProofs!Puts
  BY <1>5, KeyAssumption, AmountAssumption, InputAssumption, ACProofs!DownloadTyped
<1> QED BY <1>3, <1>4, <1>6, SameTypes

LEMMA PenaltyTyped ==
  ASSUME NEW c \in LedgerContract, NEW b \in [Key -> Balance],
         NEW a, PenaltyAccepted(c, a)
  PROVE  PenaltyContract(c) \in LedgerContract /\ PenaltyBalances(c, b) \in Puts
<1>1. ACProofs!PenaltyAccepted(c, a) = PenaltyAccepted(c, a)
  BY DEF PenaltyAccepted, StatusAllowsPenalty, verifySig,
       ACProofs!PenaltyAccepted, ACProofs!StatusAllowsPenalty, ACProofs!verifySig
<1>2. ACProofs!PenaltyContract(c) = PenaltyContract(c)
  BY DEF PenaltyContract, ACProofs!PenaltyContract
<1>3. ACProofs!PenaltyBalances(c, b) = PenaltyBalances(c, b)
  BY DEF PenaltyBalances, Wrap, AtoiOrZero,
       ACProofs!PenaltyBalances, ACProofs!Wrap, ACProofs!AtoiOrZero
<1>4. c \in ACProofs!LedgerContract /\ b \in [Key -> ACProofs!Balance]
  BY SameTypes
<1>5. /\ ACProofs!PenaltyContract(c) \in ACProofs!LedgerContract
      /\ ACProofs!PenaltyBalances(c, b) \in ACProofs!Puts
  BY <1>1, <1>4, KeyAssumption, AmountAssumption, InputAssumption, ACProofs!PenaltyTyped
<1> QED BY <1>2, <1>3, <1>5, SameTypes

(* Every invocation that a client may ask for is answered with a refusal,  *)
(* a read or a contract and balances to write.                             *)
LEMMA SimulateTyped ==
  ASSUME NEW k \in Call, NEW w \in World, NEW t \in Nat
  PROVE  Simulate(k, w, t) \in Result
<1> USE DEF World
<1>1. CASE k.fn = "download_request"
  <2>1. k.args \in DownloadArgs(Amount, Date)
    BY <1>1, CallAssumption
  <2>2. CASE DownloadAccepted(k.args, t)
    <3>1. DownloadContract(k.args) \in LedgerContract /\ DownloadBalances(k.args) \in Puts
      BY <2>1, <2>2, DownloadTyped, InputAssumption
    <3>2. Simulate(k, w, t) =
            Succeeded({}, DownloadContract(k.args), DownloadBalances(k.args))
      BY <1>1, <2>2 DEF Simulate
    <3> QED BY <3>1, <3>2 DEF Succeeded, Result
  <2>3. CASE ~ DownloadAccepted(k.args, t)
    BY <1>1, <2>3 DEF Simulate, Result
  <2> QED BY <2>2, <2>3
<1>2. CASE k.fn = "penalty"
  <2>1. CASE PenaltyAccepted(w.contract, k.args)
    <3>1. /\ PenaltyContract(w.contract) \in LedgerContract
          /\ PenaltyBalances(w.contract, w.balance) \in Puts
      BY <2>1, PenaltyTyped
    <3>2. Simulate(k, w, t) = Succeeded({"contract"}, PenaltyContract(w.contract),
                                        PenaltyBalances(w.contract, w.balance))
      BY <1>2, <2>1 DEF Simulate
    <3> QED BY <3>1, <3>2 DEF Succeeded, Result
  <2>2. CASE ~ PenaltyAccepted(w.contract, k.args)
    BY <1>2, <2>2 DEF Simulate, Result
  <2> QED BY <2>1, <2>2
<1>3. CASE k.fn = "refund"
  BY <1>3, RefundIsRefused DEF Simulate, Result
<1>4. CASE k.fn = "get_status"
  BY <1>4 DEF Simulate, Result
<1> QED BY <1>1, <1>2, <1>3, <1>4, CallAssumption

-----------------------------------------------------------------------------
(* A proposal response is the simulation of the request on a version of    *)
(* the world state that the ledger went through, at a clock reading of the *)
(* past.                                                                   *)
Explained(e, k, worlds, clock) ==
  /\ e.version <= Len(worlds)
  /\ \E t \in 0 .. clock : e.result = Simulate(k, worlds[e.version], t)

Responses ==
  \A r \in Request, p \in Peer :
    answers[r][p] \notin {Null, NoResponse}
      => Explained(answers[r][p], call[r], states, now)

(* The promise chain of a request: nobody has simulated what was not sent, *)
(* and what is being simulated is one of the calls.                        *)
Progress ==
  \A r \in Request :
    /\ pc[r] = "new" => \A p \in Peer : answers[r][p] = Null
    /\ pc[r] = "proposed" => call[r] \in Call
    /\ \A p \in Peer : answers[r][p] # Null => call[r] \in Call

(* What reaches the orderer was accepted by the first peer.                *)
Accepted(r) == FirstResponse(r) # Null /\ FirstResponse(r).result.status = 200

OnlyAcceptedIsSent ==
  \A r \in Request :
    (logInfo[r] \notin {Null, BadProposal} \/ r \in inflight) => Accepted(r)

IInv == TypeOK /\ Responses /\ Progress /\ OnlyAcceptedIsSent

LEMMA InvariantInit == Init => IInv
<1> SUFFICES ASSUME Init PROVE IInv
  OBVIOUS
<1> USE DEF Init
<1>1. [contract |-> InitContract(0), balance |-> [k \in Key |-> Absent]] \in World
  BY InitTyped DEF World, Balance
<1>2. states \in Seq(World) /\ Len(states) = 1
  BY <1>1
<1>3. TypeOK
  BY <1>2, InputAssumption DEF TypeOK, Version
<1>4. Responses /\ Progress /\ OnlyAcceptedIsSent
  BY DEF Responses, Progress, OnlyAcceptedIsSent
<1> QED BY <1>3, <1>4 DEF IInv

(* A peer simulates on a version that the ledger went through.             *)
LEMMA PeerVersionExists ==
  ASSUME TypeOK, NEW p \in Peer
  PROVE  PeerVersion(p) \in 1 .. Version /\ states[PeerVersion(p)] \in World
<1>1. Version \in Nat /\ Version >= 1
  BY DEF TypeOK, Version
<1>2. height[p] \in 0 .. Len(chain) /\ Len(chain) \in Nat
  BY DEF TypeOK
<1>3. PeerVersion(p) \in 1 .. Version
  BY <1>1, <1>2 DEF PeerVersion, TypeOK
<1> QED BY <1>3 DEF TypeOK, Version

(* What a peer answers.                                                    *)
LEMMA EndorsementTyped ==
  ASSUME TypeOK, Progress, NEW r \in Request, NEW p \in Peer, pc[r] = "proposed"
  PROVE  [version |-> PeerVersion(p),
          result |-> Simulate(call[r], states[PeerVersion(p)], now)] \in Proposal
<1>1. call[r] \in Call /\ now \in Nat
  BY DEF Progress, TypeOK
<1>2. PeerVersion(p) \in 1 .. Version /\ states[PeerVersion(p)] \in World
  BY PeerVersionExists
<1>3. Simulate(call[r], states[PeerVersion(p)], now) \in Result
  BY <1>1, <1>2, SimulateTyped
<1>4. PeerVersion(p) \in Nat \ {0}
  BY <1>2 DEF TypeOK, Version
<1> QED BY <1>3, <1>4 DEF Proposal

(* The steps of the gateway and of the peers' simulations leave the ledger *)
(* alone.                                                                  *)
LEMMA GatewayStepTyped ==
  ASSUME TypeOK, Progress, OnlyAcceptedIsSent, NEW r \in Request,
         GatewayStep(r) \/ (\E p \in Peer : Endorse(r, p) \/ EndorseFails(r, p))
  PROVE  TypeOK'
<1> USE DEF TypeOK, Version, fabric
<1>1. ASSUME NEW k \in Call, SendTransactionProposal(r, k) PROVE TypeOK'
  BY <1>1 DEF SendTransactionProposal
<1>2. CASE SubmitterFails(r)
  BY <1>2 DEF SubmitterFails
<1>3. CASE SendTransaction(r)
  <2>1. FirstResponse(r) \in Proposal /\ FirstResponse(r).result.status = 200
    BY <1>3, PeerAssumption DEF SendTransaction, Answered, AllGood, FirstResponse, NoResponse
  <2>2. Reply(FirstResponse(r)) \in [status : {200}, payload : {Null} \cup LedgerContract]
    BY <2>1 DEF Reply, Proposal, Result, Refused
  <2> QED BY <1>3, <2>2 DEF SendTransaction
<1>4. CASE ProposalRejected(r)
  BY <1>4 DEF ProposalRejected
<1>5. CASE SendThrows(r)
  BY <1>5 DEF SendThrows
<1>6. ASSUME NEW p \in Peer, Timeout(r, p) PROVE TypeOK'
  BY <1>6 DEF Timeout
<1>7. CASE Respond(r)
  BY <1>7 DEF Respond, LastReply
<1>8. ASSUME NEW p \in Peer, Endorse(r, p) PROVE TypeOK'
  BY <1>8, EndorsementTyped DEF Endorse
<1>9. ASSUME NEW p \in Peer, EndorseFails(r, p) PROVE TypeOK'
  BY <1>9 DEF EndorseFails
<1> QED BY <1>1, <1>2, <1>3, <1>4, <1>5, <1>6, <1>7, <1>8, <1>9 DEF GatewayStep

(* What an ordered transaction that writes leaves is a world state.        *)
LEMMA WrittenStateTyped ==
  ASSUME TypeOK, NEW e \in Proposal, e.result.writes # {}
  PROVE  Apply(Tip, e.result.puts) \in World
<1>1. /\ e.result.puts.contract \in LedgerContract
      /\ e.result.puts.balances \in Puts
  BY DEF Proposal, Result, Refused
<1>2. Tip \in World
  BY DEF TypeOK, Tip, Version
<1>3. PutBalances(Tip.balance, e.result.puts.balances) \in [Key -> Balance]
  BY <1>1, <1>2, PutIsTyped DEF World
<1> QED BY <1>1, <1>3 DEF Apply, World

(* A request that reached the orderer has an accepting first response.     *)
LEMMA AcceptedTyped ==
  ASSUME TypeOK, NEW r \in Request, Accepted(r)
  PROVE  FirstResponse(r) \in Proposal /\ FirstResponse(r).result.status = 200
BY PeerAssumption DEF TypeOK, Accepted, FirstResponse, NoResponse

LEMMA OrderTyped ==
  ASSUME TypeOK, OnlyAcceptedIsSent, NEW r \in Request, Order(r)
  PROVE  TypeOK' /\ Version' \in {Version, Version + 1}
                 /\ \A v \in 1 .. Version : states'[v] = states[v]
<1> DEFINE e == FirstResponse(r)
           valid == NoConflict(e)
           writes == valid /\ e.result.writes # {}
           block == [request |-> r, valid |-> valid,
                     version |-> IF writes THEN Version + 1 ELSE Version]
<1> USE DEF TypeOK, Version
<1>1. e \in Proposal
  BY AcceptedTyped DEF Order, OnlyAcceptedIsSent
<1>2. valid \in BOOLEAN
  BY DEF NoConflict
<1>3. states' \in Seq(World) /\ Len(states') \in {Len(states), Len(states) + 1}
      /\ \A v \in 1 .. Len(states) : states'[v] = states[v]
  <2>1. CASE writes
    <3>1. states' = Append(states, Apply(Tip, e.result.puts))
      BY <2>1 DEF Order
    <3> QED BY <1>1, <2>1, <3>1, WrittenStateTyped
  <2>2. CASE ~ writes
    BY <2>2 DEF Order
  <2> QED BY <2>1, <2>2
<1>4. block.version = Len(states')
  <2>1. CASE writes
    <3>1. states' = Append(states, Apply(Tip, e.result.puts))
      BY <2>1 DEF Order
    <3> QED BY <2>1, <3>1, <1>1, WrittenStateTyped
  <2>2. CASE ~ writes
    BY <2>2 DEF Order
  <2> QED BY <2>1, <2>2
<1>5. block \in [request : Request, valid : BOOLEAN, version : Nat]
  <2>1. block.version \in Nat
    BY <1>3, <1>4
  <2> HIDE DEF valid, writes
  <2> QED BY <1>2, <2>1
<1>6. chain' = Append(chain, block)
  BY DEF Order
<1> HIDE DEF block
<1>7. chain' \in Seq([request : Request, valid : BOOLEAN, version : Nat])
      /\ Len(chain') = Len(chain) + 1
  BY <1>5, <1>6
<1>8. \A i \in 1 .. Len(chain') : chain'[i].version \in 1 .. Len(states')
  <2> SUFFICES ASSUME NEW i \in 1 .. Len(chain') PROVE chain'[i].version \in 1 .. Len(states')
    OBVIOUS
  <2>1. CASE i = Len(chain) + 1
    BY <1>3, <1>4, <1>5, <1>6, <2>1
  <2>2. CASE i # Len(chain) + 1
    <3>1. i \in 1 .. Len(chain)
      BY <1>7, <2>2
    <3>2. chain'[i] = chain[i] /\ chain[i].version \in 1 .. Len(states)
      BY <1>5, <1>6, <3>1
    <3> QED BY <3>2, <1>3
  <2> QED BY <2>1, <2>2
<1>9. inflight' \subseteq Request /\ height' \in [Peer -> 0 .. Len(chain')]
  BY <1>7 DEF Order
<1>10. UNCHANGED <<now, gateway>>
  BY DEF Order
<1> QED BY <1>3, <1>7, <1>8, <1>9, <1>10 DEF gateway

LEMMA CommitTyped ==
  ASSUME TypeOK, NEW p \in Peer, NEW heard \in BOOLEAN, Commit(p, heard)
  PROVE  TypeOK'
<1> USE DEF TypeOK, Version
<1>1. height' \in [Peer -> 0 .. Len(chain)]
  BY DEF Commit
<1>2. events' \in [Request -> [Peer -> {"pending", "valid", "invalid", "timeout"}]]
  <2> DEFINE q == chain[height[p] + 1].request
             code == IF chain[height[p] + 1].valid THEN "valid" ELSE "invalid"
  <2>1. height[p] + 1 \in 1 .. Len(chain)
    BY DEF Commit
  <2>2. chain[height[p] + 1] \in [request : Request, valid : BOOLEAN, version : Nat]
    <3> DEFINE Block == [request : Request, valid : BOOLEAN, version : Nat]
    <3>1. chain \in Seq(Block)
      OBVIOUS
    <3> HIDE DEF Block, TypeOK
    <3>2. chain[height[p] + 1] \in Block
      BY <2>1, <3>1, ElementOfSeq
    <3> QED BY <3>2 DEF Block
  <2>3. q \in Request
    BY <2>2
  <2>4. events' = events \/ events' = [events EXCEPT ![q][p] = code]
    BY DEF Commit
  <2>5. code \in {"pending", "valid", "invalid", "timeout"}
    OBVIOUS
  <2>6. events \in [Request -> [Peer -> {"pending", "valid", "invalid", "timeout"}]]
    OBVIOUS
  <2> HIDE DEF q, code, TypeOK
  <2> QED BY <2>3, <2>4, <2>5, <2>6
<1> QED BY <1>1, <1>2 DEF Commit

LEMMA TypeStep ==
  ASSUME IInv, [Next]_vars
  PROVE  TypeOK'
<1> USE DEF IInv
<1>1. ASSUME NEW r \in Request, GatewayStep(r) PROVE TypeOK'
  BY <1>1, GatewayStepTyped
<1>2. ASSUME NEW r \in Request, NEW p \in Peer, Endorse(r, p) \/ EndorseFails(r, p)
      PROVE TypeOK'
  BY <1>2, GatewayStepTyped
<1>3. ASSUME NEW r \in Request, NEW ack \in {"ok", "failed"}, Broadcast(r, ack)
      PROVE TypeOK'
  BY <1>3 DEF Broadcast, TypeOK, Version
<1>4. ASSUME NEW r \in Request, BroadcastFails(r) PROVE TypeOK'
  BY <1>4 DEF BroadcastFails, TypeOK, Version, fabric
<1>5. ASSUME NEW r \in Request, Order(r) PROVE TypeOK'
  BY <1>5, OrderTyped
<1>6. ASSUME NEW p \in Peer, NEW heard \in BOOLEAN, Commit(p, heard) PROVE TypeOK'
  BY <1>6, CommitTyped
<1>7. CASE Tick
  BY <1>7, InputAssumption DEF Tick, TypeOK, Version, fabric, gateway
<1>8. CASE UNCHANGED vars
  BY <1>8 DEF vars, TypeOK, Version, fabric, gateway
<1> QED BY <1>1, <1>2, <1>3, <1>4, <1>5, <1>6, <1>7, <1>8 DEF Next, FabricStep

-----------------------------------------------------------------------------
(* A response stays explained when the ledger grows and time passes.       *)
LEMMA ExplainedStable ==
  ASSUME TypeOK, TypeOK', NEW k, NEW e \in Proposal, Explained(e, k, states, now),
         now' >= now, Version' >= Version,
         \A v \in 1 .. Version : states'[v] = states[v]
  PROVE  Explained(e, k, states', now')
<1>1. PICK t \in 0 .. now : e.result = Simulate(k, states[e.version], t)
  BY DEF Explained
<1>2. e.version \in 1 .. Version
  BY DEF Explained, Proposal, TypeOK, Version
<1>3. t \in 0 .. now' /\ states'[e.version] = states[e.version]
  BY <1>1, <1>2 DEF TypeOK
<1>4. e.version <= Len(states')
  BY <1>2 DEF TypeOK, Version
<1> QED BY <1>1, <1>3, <1>4 DEF Explained

(* The ledger only grows and the clock only advances.                      *)
LEMMA LedgerGrows ==
  ASSUME IInv, [Next]_vars
  PROVE  /\ now' >= now /\ Version' >= Version
         /\ \A v \in 1 .. Version : states'[v] = states[v]
<1> USE DEF IInv
<1>0. now \in Nat /\ Version \in Nat
  BY DEF TypeOK, Version
<1>1. ASSUME NEW r \in Request, Order(r)
      PROVE  /\ now' >= now /\ Version' >= Version
             /\ \A v \in 1 .. Version : states'[v] = states[v]
  <2>1. now' = now
    BY <1>1 DEF Order
  <2>2. Version' \in {Version, Version + 1} /\ \A v \in 1 .. Version : states'[v] = states[v]
    BY <1>1, OrderTyped
  <2> QED BY <1>0, <2>1, <2>2
<1>2. CASE Tick
  BY <1>0, <1>2 DEF Tick, fabric, Version
<1>3. ASSUME UNCHANGED <<states, now>>
      PROVE  /\ now' >= now /\ Version' >= Version
             /\ \A v \in 1 .. Version : states'[v] = states[v]
  BY <1>0, <1>3 DEF Version
<1>4. ASSUME NEW r \in Request, GatewayStep(r) PROVE UNCHANGED <<states, now>>
  BY <1>4 DEF GatewayStep, SendTransactionProposal, SubmitterFails, SendTransaction,
              ProposalRejected, SendThrows, Timeout, Respond, fabric
<1>5. FabricStep => UNCHANGED <<states, now>> \/ \E r \in Request : Order(r)
  BY DEF FabricStep, Endorse, EndorseFails, Broadcast, BroadcastFails, Commit, fabric
<1>6. CASE UNCHANGED vars
  BY <1>6, <1>3 DEF vars, fabric
<1> QED BY <1>1, <1>2, <1>3, <1>4, <1>5, <1>6 DEF Next

(* A response, once given, stays: the call it answers does not change.     *)
LEMMA ResponsesStep ==
  ASSUME IInv, [Next]_vars, TypeOK'
  PROVE  Responses'
<1> SUFFICES ASSUME NEW r \in Request, NEW p \in Peer, answers'[r][p] \notin {Null, NoResponse}
             PROVE  Explained(answers'[r][p], call'[r], states', now')
  BY DEF Responses
<1> USE DEF IInv
<1>1. CASE answers'[r][p] = answers[r][p]
  <2>1. answers[r][p] \in Proposal /\ Explained(answers[r][p], call[r], states, now)
    BY <1>1 DEF Responses, TypeOK
  <2>2. call'[r] = call[r]
    <3>1. ASSUME NEW q \in Request, NEW k \in Call, SendTransactionProposal(q, k)
          PROVE  call'[r] = call[r]
      BY <3>1, <1>1 DEF SendTransactionProposal, Progress, TypeOK
    <3>2. ASSUME NEW q \in Request, GatewayStep(q)
          PROVE  call'[r] = call[r]
      BY <3>1, <3>2 DEF GatewayStep, SubmitterFails, SendTransaction,
                        ProposalRejected, SendThrows, Timeout, Respond
    <3>3. FabricStep => call' = call
      BY DEF FabricStep, Endorse, EndorseFails, Broadcast, BroadcastFails, Order, Commit,
             gateway
    <3> QED BY <3>2, <3>3 DEF Next, Tick, vars, gateway
  <2>3. Explained(answers[r][p], call[r], states', now')
    BY <2>1, LedgerGrows, ExplainedStable
  <2> QED BY <1>1, <2>2, <2>3
<1>2. CASE answers'[r][p] # answers[r][p]
  <2>1. Endorse(r, p)
    <3>1. ASSUME NEW q \in Request, GatewayStep(q) PROVE answers' = answers
      BY <3>1 DEF GatewayStep, SendTransactionProposal, SubmitterFails, SendTransaction,
                  ProposalRejected, SendThrows, Timeout, Respond
    <3>2. ASSUME NEW q \in Request, NEW s \in Peer, Endorse(q, s) \/ EndorseFails(q, s)
          PROVE  Endorse(r, p)
      <4>a. answers \in [Request -> [Peer -> Proposal \cup {Null, NoResponse}]]
        BY DEF TypeOK
      <4>b. PICK x : answers' = [answers EXCEPT ![q][s] = x]
        BY <3>2 DEF Endorse, EndorseFails
      <4>1. q = r /\ s = p
        BY <4>a, <4>b, <1>2
      <4>2. ~ EndorseFails(r, p)
        BY DEF EndorseFails, TypeOK
      <4> QED BY <3>2, <4>1, <4>2
    <3>3. FabricStep => answers' = answers
                        \/ \E q \in Request, s \in Peer : Endorse(q, s) \/ EndorseFails(q, s)
      BY DEF FabricStep, Broadcast, BroadcastFails, Order, Commit, gateway
    <3> QED BY <1>2, <3>1, <3>2, <3>3 DEF Next, Tick, vars, gateway
  <2> DEFINE e == [version |-> PeerVersion(p),
                   result |-> Simulate(call[r], states[PeerVersion(p)], now)]
  <2>2. answers'[r][p] = e
    BY <2>1 DEF Endorse, TypeOK
  <2>3. UNCHANGED <<states, now, call>>
    BY <2>1 DEF Endorse, fabric
  <2>4. PeerVersion(p) <= Version /\ now \in 0 .. now
    BY PeerVersionExists DEF TypeOK, Version
  <2>5. Explained(e, call[r], states, now)
    BY <2>4 DEF Explained, Version
  <2> HIDE DEF e
  <2> QED BY <2>2, <2>3, <2>5
<1> QED BY <1>1, <1>2

(* What every step of a request other than its own does to it: nothing;    *)
(* and what fabric does to the promise chains: nothing.                    *)
LEMMA ProgressStep ==
  ASSUME IInv, [Next]_vars
  PROVE  Progress'
<1> USE DEF IInv, TypeOK, Progress
<1>1. ASSUME NEW r \in Request, GatewayStep(r) PROVE Progress'
  <2>1. ASSUME NEW k \in Call, SendTransactionProposal(r, k) PROVE Progress'
    BY <2>1 DEF SendTransactionProposal
  <2>2. CASE SubmitterFails(r)
    BY <2>2 DEF SubmitterFails
  <2>3. CASE SendTransaction(r)
    BY <2>3 DEF SendTransaction
  <2>4. CASE ProposalRejected(r)
    BY <2>4 DEF ProposalRejected
  <2>a. CASE SendThrows(r)
    BY <2>a DEF SendThrows
  <2>5. CASE Respond(r)
    BY <2>5 DEF Respond
  <2>6. ASSUME NEW p \in Peer, Timeout(r, p) PROVE Progress'
    BY <2>6 DEF Timeout
  <2> QED BY <1>1, <2>1, <2>2, <2>3, <2>4, <2>a, <2>5, <2>6 DEF GatewayStep
<1>2. ASSUME NEW r \in Request, NEW p \in Peer, Endorse(r, p) \/ EndorseFails(r, p)
      PROVE Progress'
  <2>1. \A q \in Request : q # r => answers'[q] = answers[q]
    <3>1. answers \in [Request -> [Peer -> Proposal \cup {Null, NoResponse}]]
      OBVIOUS
    <3>2. PICK x : answers' = [answers EXCEPT ![r][p] = x]
      BY <1>2 DEF Endorse, EndorseFails
    <3> QED BY <3>1, <3>2
  <2>2. pc[r] = "proposed" /\ pc' = pc /\ call' = call
    BY <1>2 DEF Endorse, EndorseFails
  <2> HIDE DEF TypeOK
  <2>3. \A q \in Request, s \in Peer : q # r => answers'[q][s] = answers[q][s]
    BY <2>1
  <2> QED BY <2>2, <2>3
<1>3. CASE UNCHANGED <<pc, call, answers>>
  BY <1>3
<1>4. FabricStep => \/ UNCHANGED <<pc, call, answers>>
                    \/ \E r \in Request, p \in Peer : Endorse(r, p) \/ EndorseFails(r, p)
  BY DEF FabricStep, Broadcast, BroadcastFails, Order, Commit, gateway
<1> QED BY <1>1, <1>2, <1>3, <1>4 DEF Next, Tick, vars, gateway

(* Accepting responses stay, and log_info holds an answer of 200, and the  *)
(* orderer a transaction, only after the first response accepted.          *)
LEMMA SentStep ==
  ASSUME IInv, [Next]_vars
  PROVE  OnlyAcceptedIsSent'
<1> USE DEF IInv
<1> SUFFICES ASSUME NEW r \in Request, logInfo'[r] \notin {Null, BadProposal} \/ r \in inflight'
             PROVE  Accepted(r)'
  BY DEF OnlyAcceptedIsSent
<1>1. Accepted(r) => Accepted(r)'
  <2>1. ASSUME NEW q \in Request, NEW p \in Peer, Endorse(q, p) \/ EndorseFails(q, p),
               Accepted(r)
        PROVE  Accepted(r)'
    <3>1. FirstPeer \in Peer /\ answers[r][FirstPeer] # Null
      BY <2>1, PeerAssumption DEF Accepted, FirstResponse
    <3>2. answers[q][p] = Null
      BY <2>1 DEF Endorse, EndorseFails
    <3>3. answers'[r][FirstPeer] = answers[r][FirstPeer]
      <4>1. answers \in [Request -> [Peer -> Proposal \cup {Null, NoResponse}]]
        BY DEF TypeOK
      <4>2. PICK x : answers' = [answers EXCEPT ![q][p] = x]
        BY <2>1 DEF Endorse, EndorseFails
      <4> QED BY <3>1, <3>2, <4>1, <4>2
    <3> QED BY <2>1, <3>3 DEF Accepted, FirstResponse
  <2>2. ASSUME UNCHANGED answers, Accepted(r) PROVE Accepted(r)'
    BY <2>2 DEF Accepted, FirstResponse
  <2>3. ASSUME NEW q \in Request, GatewayStep(q) PROVE UNCHANGED answers
    BY <2>3 DEF GatewayStep, SendTransactionProposal, SubmitterFails, SendTransaction,
                ProposalRejected, SendThrows, Timeout, Respond
  <2>4. FabricStep => \/ UNCHANGED answers
                      \/ \E q \in Request, p \in Peer : Endorse(q, p) \/ EndorseFails(q, p)
    BY DEF FabricStep, Broadcast, BroadcastFails, Order, Commit, gateway
  <2> QED BY <2>1, <2>2, <2>3, <2>4 DEF Next, Tick, vars, gateway
<1>2. CASE logInfo[r] \notin {Null, BadProposal} \/ r \in inflight
  BY <1>1, <1>2 DEF OnlyAcceptedIsSent
<1>3. CASE logInfo[r] \in {Null, BadProposal} /\ r \notin inflight
  <2>1. ASSUME NEW q \in Request, GatewayStep(q) PROVE Accepted(r)'
    <3>1. inflight' = inflight
      BY <2>1 DEF GatewayStep, SendTransactionProposal, SubmitterFails, SendTransaction,
                  ProposalRejected, SendThrows, Timeout, Respond, fabric
    <3>2. logInfo'[r] # logInfo[r] /\ logInfo'[r] # BadProposal
      BY <1>3, <3>1
    <3>3. SendTransaction(q) /\ q = r
      BY <2>1, <3>2 DEF GatewayStep, SendTransactionProposal, SubmitterFails,
             SendTransaction, ProposalRejected, SendThrows, Timeout, Respond, LastReply, TypeOK
    <3>4. Accepted(r)
      BY <3>3, PeerAssumption
      DEF SendTransaction, Answered, AllGood, Accepted, FirstResponse
    <3> QED BY <1>1, <3>4
  <2>2. ASSUME NEW q \in Request, NEW ack \in {"ok", "failed"}, Broadcast(q, ack)
        PROVE  Accepted(r)'
    <3>1. r = q /\ logInfo[r] \notin {Null, BadProposal}
      BY <1>3, <2>2 DEF Broadcast
    <3> QED BY <1>3, <3>1
  <2>3. ASSUME logInfo' = logInfo, inflight' \subseteq inflight PROVE FALSE
    BY <1>3, <2>3
  <2>4. FabricStep =>
          \/ logInfo' = logInfo /\ inflight' \subseteq inflight
          \/ \E q \in Request, ack \in {"ok", "failed"} : Broadcast(q, ack)
    BY DEF FabricStep, Endorse, EndorseFails, BroadcastFails, Order, Commit, gateway, fabric
  <2> QED BY <2>1, <2>2, <2>3, <2>4 DEF Next, Tick, vars, gateway, fabric
<1> QED BY <1>2, <1>3

LEMMA Invariant == Spec => []IInv
<1>1. Init => IInv
  BY InvariantInit
<1>2. IInv /\ [Next]_vars => IInv'
  BY TypeStep, ResponsesStep, ProgressStep, SentStep DEF IInv
<1> QED BY <1>1, <1>2, PTL DEF Spec

(* Type correctness of the gateway: the world states of the ledger are     *)
(* contracts and balances, and the chain refers to versions that exist.    *)
THEOREM TypeCorrect == Spec => []TypeOK
<1>1. IInv => TypeOK
  BY DEF IInv
<1> QED BY <1>1, Invariant, PTL

-----------------------------------------------------------------------------
(* A transaction that is valid and writes takes effect as one run of its   *)
(* handler on the tip of the ledger: a download request reads nothing, and *)
(* what a penalty read is the tip, because no version came after it.       *)
LEMMA OrderImplements ==
  ASSUME IInv, NEW r \in Request, Order(r)
  PROVE  [AC!Next]_(AC!vars)
<1> DEFINE e == FirstResponse(r)
           k == call[r]
<1> USE DEF IInv
<1>1. e \in Proposal /\ e.result.status = 200
  BY AcceptedTyped DEF Order, OnlyAcceptedIsSent
<1>2. e.version \in 1 .. Version /\ states[e.version] \in World
  <2>1. e # Null /\ e # NoResponse
    BY <1>1, AcceptedTyped DEF Order, OnlyAcceptedIsSent, Accepted, NoResponse
  <2>2. e.version <= Version
    BY <2>1, PeerAssumption DEF Responses, Explained, FirstResponse, Version
  <2> QED BY <1>1, <2>2 DEF Proposal, TypeOK, Version
<1>3. k \in Call
  BY PeerAssumption, <1>1 DEF Progress, FirstResponse, Accepted, OnlyAcceptedIsSent, Order
<1>4. PICK t \in 0 .. now : e.result = Simulate(k, states[e.version], t)
  <2>1. e # Null /\ e # NoResponse
    BY <1>1, AcceptedTyped DEF Order, OnlyAcceptedIsSent, Accepted, NoResponse
  <2> QED BY <2>1, PeerAssumption DEF Responses, Explained, FirstResponse
<1>5. now' = now
  BY DEF Order
<1>6. CASE ~ (NoConflict(e) /\ e.result.writes # {})
  BY <1>5, <1>6 DEF Order, AC!vars, Tip, Version
<1>7. CASE NoConflict(e) /\ e.result.writes # {}
  <2>1. states' = Append(states, Apply(Tip, e.result.puts))
    BY <1>7 DEF Order
  <2>2. Tip' = Apply(Tip, e.result.puts)
    BY <1>1, <1>7, <2>1, WrittenStateTyped DEF TypeOK, Tip, Version
  <2>3. /\ Tip'.contract = e.result.puts.contract
        /\ Tip'.balance = PutBalances(Tip.balance, e.result.puts.balances)
    BY <2>2 DEF Apply
  <2>4. CASE k.fn = "download_request"
    <3>1. DownloadAccepted(k.args, t)
      BY <1>4, <1>7, <2>4 DEF Simulate, Refused
    <3>2. e.result = Succeeded({}, DownloadContract(k.args), DownloadBalances(k.args))
      <4>1. Simulate(k, states[e.version], t)
              = Succeeded({}, DownloadContract(k.args), DownloadBalances(k.args))
        <5> HIDE DEF k, e
        <5> QED BY <2>4, <3>1 DEF Simulate
      <4> HIDE DEF k, e
      <4> QED BY <1>4, <4>1
    <3>3. AC!DownloadRequest(k.args, t)
      <4>1. AC!DownloadAccepted(k.args, t)
        BY <3>1 DEF AC!DownloadAccepted, DownloadAccepted, AC!Int64, Int64
      <4>2. /\ e.result.puts.contract = DownloadContract(k.args)
            /\ e.result.puts.balances = DownloadBalances(k.args)
        BY <3>2 DEF Succeeded
      <4>3. AC!DownloadContract(k.args) = DownloadContract(k.args)
        BY DEF AC!DownloadContract, DownloadContract
      <4>4. AC!DownloadBalances(k.args) = DownloadBalances(k.args)
        BY DEF AC!DownloadBalances, DownloadBalances, AC!Wrap, Wrap
      <4>5. AC!PutBalances(Tip.balance, AC!DownloadBalances(k.args))
              = PutBalances(Tip.balance, DownloadBalances(k.args))
        BY <4>4 DEF AC!PutBalances, PutBalances
      <4> QED BY <1>5, <2>3, <4>1, <4>2, <4>3, <4>5 DEF AC!DownloadRequest
    <3>4. k.args \in AC!DownloadArgs(Amount, Date)
      BY <1>3, <2>4, CallAssumption DEF AC!DownloadArgs, DownloadArgs
    <3> QED BY <1>4, <3>3, <3>4 DEF AC!Next
  <2>5. CASE k.fn # "download_request"
    <3>1. states[e.version] = Tip
      <4>1. e.result.reads # {}
        BY <1>3, <1>4, <1>7, <2>5, CallAssumption DEF Simulate, Refused, Succeeded
      <4> QED BY <1>7, <4>1 DEF NoConflict, Tip
    <3>2. CASE k.fn = "penalty"
      <4>1. PenaltyAccepted(Tip.contract, k.args)
        BY <1>4, <1>7, <3>1, <3>2 DEF Simulate, Refused
      <4>2. e.result = Succeeded({"contract"}, PenaltyContract(Tip.contract),
                                 PenaltyBalances(Tip.contract, Tip.balance))
        <5>1. Simulate(k, Tip, t) = Succeeded({"contract"}, PenaltyContract(Tip.contract),
                                              PenaltyBalances(Tip.contract, Tip.balance))
          <6> HIDE DEF k, e
          <6> QED BY <3>2, <4>1 DEF Simulate
        <5>2. e.result = Simulate(k, Tip, t)
          BY <1>4, <3>1
        <5> QED BY <5>1, <5>2
      <4>3. AC!Penalty(k.args)
        <5>1. AC!PenaltyAccepted(Tip.contract, k.args)
          BY <4>1 DEF AC!PenaltyAccepted, PenaltyAccepted, AC!verifySig, verifySig,
                      AC!StatusAllowsPenalty, StatusAllowsPenalty
        <5>2. /\ e.result.puts.contract = PenaltyContract(Tip.contract)
              /\ e.result.puts.balances = PenaltyBalances(Tip.contract, Tip.balance)
          BY <4>2 DEF Succeeded
        <5>3. AC!PenaltyContract(Tip.contract) = PenaltyContract(Tip.contract)
          BY DEF AC!PenaltyContract, PenaltyContract
        <5>4. AC!PenaltyBalances(Tip.contract, Tip.balance)
                = PenaltyBalances(Tip.contract, Tip.balance)
          BY DEF AC!PenaltyBalances, PenaltyBalances, AC!Wrap, Wrap, AC!AtoiOrZero,
                 AtoiOrZero
        <5>5. AC!PutBalances(Tip.balance, AC!PenaltyBalances(Tip.contract, Tip.balance))
                = PutBalances(Tip.balance, PenaltyBalances(Tip.contract, Tip.balance))
          BY <5>4 DEF AC!PutBalances, PutBalances
        <5> QED BY <1>5, <2>3, <5>1, <5>2, <5>3, <5>5 DEF AC!Penalty
      <4>4. k.args \in AC!PenaltyArgs
        BY <1>3, <3>2, CallAssumption DEF AC!PenaltyArgs, PenaltyArgs, AC!Signature, Signature
      <4> QED BY <4>3, <4>4 DEF AC!Next
    <3>3. CASE k.fn = "refund"
      BY <1>2, <1>4, <1>7, <3>3, RefundIsRefused DEF Simulate, Refused, World
    <3>4. CASE k.fn = "get_status"
      BY <1>4, <1>7, <3>4 DEF Simulate
    <3> QED BY <1>3, <2>5, <3>2, <3>3, <3>4, CallAssumption
  <2> QED BY <2>4, <2>5
<1> QED BY <1>6, <1>7

(* Every behaviour of the gateway above Fabric is a behaviour of the       *)
(* serial contract.                                                        *)
THEOREM Implementation == Spec => ImplementsContract
<1>1. Init => AC!Init
  BY DEF Init, AC!Init, Tip, Version, AC!InitContract, InitContract
<1>2. IInv /\ [Next]_vars => [AC!Next]_(AC!vars)
  <2> SUFFICES ASSUME IInv, [Next]_vars PROVE [AC!Next]_(AC!vars)
    OBVIOUS
  <2>1. ASSUME NEW r \in Request, Order(r) PROVE [AC!Next]_(AC!vars)
    BY <2>1, OrderImplements
  <2>2. CASE Tick
    <3>1. AC!Tick
      BY <2>2 DEF Tick, AC!Tick, fabric, Tip, Version
    <3> QED BY <3>1 DEF AC!Next
  <2>3. CASE UNCHANGED <<states, now>>
    BY <2>3 DEF AC!vars, Tip, Version
  <2>4. ASSUME NEW r \in Request, GatewayStep(r) PROVE UNCHANGED <<states, now>>
    BY <2>4 DEF GatewayStep, SendTransactionProposal, SubmitterFails, SendTransaction,
                ProposalRejected, SendThrows, Timeout, Respond, fabric
  <2>5. FabricStep => UNCHANGED <<states, now>> \/ \E r \in Request : Order(r)
    BY DEF FabricStep, Endorse, EndorseFails, Broadcast, BroadcastFails, Commit, fabric
  <2>6. CASE UNCHANGED vars
    BY <2>6, <2>3 DEF vars, fabric
  <2> QED BY <2>1, <2>2, <2>3, <2>4, <2>5, <2>6 DEF Next
<1> QED BY <1>1, <1>2, Invariant, PTL DEF Spec, ImplementsContract, AC!Spec

-----------------------------------------------------------------------------
(* Beyond the refinement: a failure that a client was answered stays one,  *)
(* and a request is penalised once.                                        *)
Ordered(r) == \E i \in 1 .. Len(chain) : chain[i].request = r

(* What the orderer has taken was answered, or will be, with the 200 that  *)
(* log_info holds since the proposal.                                      *)
Taken ==
  \A r \in Request :
    r \in inflight \/ Ordered(r)
      => logInfo[r] \notin {Null, BadProposal} /\ pc[r] \in {"waiting", "replied"}

LEMMA TakenStep ==
  ASSUME IInv, Taken, [Next]_vars
  PROVE  Taken'
<1> USE DEF IInv, TypeOK, Taken, Ordered
<1>1. ASSUME NEW q \in Request, GatewayStep(q) PROVE Taken'
  <2>1. inflight' = inflight /\ chain' = chain
    BY <1>1 DEF GatewayStep, SendTransactionProposal, SubmitterFails, SendTransaction,
                ProposalRejected, SendThrows, Timeout, Respond, fabric
  <2>2. CASE pc[q] \in {"new", "proposed"}
    <3>1. \A r \in Request : r # q => pc'[r] = pc[r] /\ logInfo'[r] = logInfo[r]
      BY <1>1 DEF GatewayStep, SendTransactionProposal, SubmitterFails, SendTransaction,
                  ProposalRejected, SendThrows, Timeout, Respond
    <3>2. ~ (q \in inflight \/ Ordered(q))
      BY <2>2
    <3> QED BY <2>1, <3>1, <3>2
  <2>3. CASE pc[q] \notin {"new", "proposed"}
    <3>1. Respond(q) \/ \E p \in Peer : Timeout(q, p)
      BY <1>1, <2>3 DEF GatewayStep, SendTransactionProposal, SubmitterFails,
                        SendTransaction, ProposalRejected, SendThrows
    <3>2. /\ logInfo' = logInfo
          /\ \A r \in Request : pc[r] \in {"waiting", "replied"}
                                  => pc'[r] \in {"waiting", "replied"}
      BY <3>1 DEF Respond, Timeout, LastReply
    <3> QED BY <2>1, <3>2
  <2> QED BY <2>2, <2>3
<1>2. ASSUME NEW q \in Request, NEW ack \in {"ok", "failed"}, Broadcast(q, ack)
      PROVE  Taken'
  BY <1>2 DEF Broadcast
<1>3. ASSUME NEW q \in Request, Order(q) PROVE Taken'
  <2>1. PICK b : chain' = Append(chain, b) /\ b.request = q
    <3> DEFINE valid == NoConflict(FirstResponse(q))
               writes == valid /\ FirstResponse(q).result.writes # {}
               block == [request |-> q, valid |-> valid,
                         version |-> IF writes THEN Version + 1 ELSE Version]
    <3>1. chain' = Append(chain, block)
      BY <1>3 DEF Order
    <3>2. block.request = q
      OBVIOUS
    <3> QED BY <3>1, <3>2
  <2>2. \A r \in Request : Ordered(r)' => Ordered(r) \/ r = q
    BY <2>1
  <2>3. q \in inflight /\ inflight' \subseteq inflight /\ UNCHANGED <<pc, logInfo>>
    BY <1>3 DEF Order, gateway
  <2> QED BY <2>2, <2>3
<1>4. ASSUME UNCHANGED <<inflight, chain, pc, logInfo>> PROVE Taken'
  BY <1>4
<1>5. FabricStep \/ Tick \/ UNCHANGED vars =>
        \/ UNCHANGED <<inflight, chain, pc, logInfo>>
        \/ \E q \in Request, ack \in {"ok", "failed"} : Broadcast(q, ack)
        \/ \E q \in Request : Order(q)
  BY DEF FabricStep, Endorse, EndorseFails, BroadcastFails, Commit, Tick, vars, fabric, gateway
<1> QED BY <1>1, <1>2, <1>3, <1>4, <1>5 DEF Next

LEMMA TakenInvariant == Spec => []Taken
<1>1. Init => Taken
  BY DEF Init, Taken, Ordered
<1>2. IInv /\ Taken /\ [Next]_vars => Taken'
  BY TakenStep
<1> QED BY <1>1, <1>2, Invariant, PTL DEF Spec

(* A request that was not answered 200 is not in the ledger and will not   *)
(* get there.                                                              *)
THEOREM FailuresHaveNoEffect == Spec => []FailureMeansNoEffect
<1>1. TypeOK /\ Taken => FailureMeansNoEffect
  BY DEF TypeOK, Taken, Ordered, FailureMeansNoEffect, Failed
<1> QED BY <1>1, TypeCorrect, TakenInvariant, PTL

-----------------------------------------------------------------------------
(* What an ordered transaction does to the contract: a valid penalty finds *)
(* it not penalised and leaves it penalised; only valid penalties and      *)
(* download requests touch it.                                             *)
LEMMA OrderEffect ==
  ASSUME IInv, NEW r \in Request, Order(r)
  PROVE  LET e == FirstResponse(r)
             k == call[r]
         IN /\ NoConflict(e) /\ k.fn = "penalty" =>
                 Tip.contract.status # "penalized" /\ Tip'.contract.status = "penalized"
            /\ ~ NoConflict(e) \/ k.fn \notin {"penalty", "download_request"} => Tip' = Tip
<1> DEFINE e == FirstResponse(r)
           k == call[r]
<1> USE DEF IInv
<1>1. e \in Proposal /\ e.result.status = 200
  BY AcceptedTyped DEF Order, OnlyAcceptedIsSent
<1>2. e # Null /\ e # NoResponse
  BY <1>1, AcceptedTyped DEF Order, OnlyAcceptedIsSent, Accepted, NoResponse
<1>3. e.version \in 1 .. Version /\ states[e.version] \in World
  <2>1. e.version <= Version
    BY <1>2, PeerAssumption DEF Responses, Explained, FirstResponse, Version
  <2> QED BY <1>1, <2>1 DEF Proposal, TypeOK, Version
<1>4. k \in Call
  BY PeerAssumption, <1>1 DEF Progress, FirstResponse, Accepted, OnlyAcceptedIsSent, Order
<1>5. PICK t \in 0 .. now : e.result = Simulate(k, states[e.version], t)
  BY <1>2, PeerAssumption DEF Responses, Explained, FirstResponse
<1>6. ASSUME ~ (NoConflict(e) /\ e.result.writes # {}) PROVE Tip' = Tip
  BY <1>6 DEF Order, Tip, Version
<1>7. ASSUME NoConflict(e), k.fn = "penalty"
      PROVE  Tip.contract.status # "penalized" /\ Tip'.contract.status = "penalized"
  <2>1. PenaltyAccepted(states[e.version].contract, k.args)
    <3> HIDE DEF e, k
    <3> QED BY <1>1, <1>5, <1>7 DEF Simulate, Refused
  <2>2. e.result = Succeeded({"contract"}, PenaltyContract(states[e.version].contract),
              PenaltyBalances(states[e.version].contract, states[e.version].balance))
    <3> HIDE DEF e, k
    <3> QED BY <1>5, <1>7, <2>1 DEF Simulate
  <2>3. states[e.version] = Tip
    BY <1>7, <2>2 DEF NoConflict, Succeeded, Tip
  <2>4. Tip' = Apply(Tip, e.result.puts)
    <3>1. e.result.writes # {}
      BY <2>2 DEF Succeeded
    <3>2. states' = Append(states, Apply(Tip, e.result.puts))
      BY <1>7, <3>1 DEF Order
    <3> QED BY <1>1, <3>1, <3>2, WrittenStateTyped DEF TypeOK, Tip, Version
  <2>5. Tip'.contract = PenaltyContract(Tip.contract)
    BY <2>2, <2>3, <2>4 DEF Succeeded, Apply
  <2>6. Tip.contract \in LedgerContract
    BY <1>3, <2>3 DEF World
  <2> QED BY <2>1, <2>3, <2>5, <2>6
          DEF PenaltyAccepted, StatusAllowsPenalty, PenaltyContract, LedgerContract, Contract
<1>8. ASSUME k.fn \notin {"penalty", "download_request"} PROVE Tip' = Tip
  <2>1. k.fn \in {"refund", "get_status"}
    BY <1>4, <1>8, CallAssumption
  <2>2. e.result.writes = {}
    <3> HIDE DEF e, k
    <3> QED BY <1>3, <1>5, <2>1, RefundIsRefused DEF Simulate, Refused, World
  <2> QED BY <1>6, <2>2
<1> QED BY <1>6, <1>7, <1>8

-----------------------------------------------------------------------------
(* Where the chain holds valid penalties and valid download requests.      *)
Penalties ==
  {i \in 1 .. Len(chain) : chain[i].valid /\ call[chain[i].request].fn = "penalty"}
Downloads ==
  {i \in 1 .. Len(chain) : chain[i].valid /\ call[chain[i].request].fn = "download_request"}

(* A penalty leaves its mark on the contract until a download request      *)
(* replaces it, and so no second one is accepted before.                   *)
PenaltySettled ==
  \A i \in Penalties :
    Tip.contract.status = "penalized" \/ \E m \in Downloads : i <= m

PenaltyApart ==
  \A i, j \in Penalties : i < j => \E m \in Downloads : i <= m /\ m <= j

(* What was ordered stays in the chain, and the request what it was.       *)
LEMMA ChainStays ==
  ASSUME IInv, Taken, [Next]_vars
  PROVE  /\ Len(chain') >= Len(chain)
         /\ \A i \in 1 .. Len(chain) :
              chain'[i] = chain[i] /\ call'[chain[i].request] = call[chain[i].request]
<1> USE DEF IInv, TypeOK
<1>1. Len(chain') >= Len(chain) /\ \A i \in 1 .. Len(chain) : chain'[i] = chain[i]
  <2>1. ASSUME NEW q \in Request, Order(q)
        PROVE  /\ Len(chain') >= Len(chain)
               /\ \A i \in 1 .. Len(chain) : chain'[i] = chain[i]
    <3>1. PICK b : chain' = Append(chain, b)
      BY <2>1 DEF Order
    <3> QED BY <3>1
  <2>2. ASSUME NEW q \in Request, GatewayStep(q) PROVE UNCHANGED chain
    BY <2>2 DEF GatewayStep, SendTransactionProposal, SubmitterFails, SendTransaction,
                ProposalRejected, SendThrows, Timeout, Respond, fabric
  <2>3. FabricStep => UNCHANGED chain \/ \E q \in Request : Order(q)
    BY DEF FabricStep, Endorse, EndorseFails, Broadcast, BroadcastFails, Commit, fabric
  <2> QED BY <2>1, <2>2, <2>3 DEF Next, Tick, vars, fabric
<1>2. \A r \in Request : Ordered(r) => call'[r] = call[r]
  <2>1. ASSUME NEW q \in Request, GatewayStep(q), NEW r \in Request, Ordered(r)
        PROVE  call'[r] = call[r]
    BY <2>1 DEF Taken, GatewayStep, SendTransactionProposal, SubmitterFails,
           SendTransaction, ProposalRejected, SendThrows, Timeout, Respond
  <2>2. FabricStep \/ Tick \/ UNCHANGED vars => UNCHANGED call
    BY DEF FabricStep, Endorse, EndorseFails, Broadcast, BroadcastFails, Order, Commit,
           Tick, vars, gateway
  <2> QED BY <2>1, <2>2 DEF Next
<1>3. \A i \in 1 .. Len(chain) : Ordered(chain[i].request) /\ chain[i].request \in Request
  <2> TAKE i \in 1 .. Len(chain)
  <2>1. chain[i] \in [request : Request, valid : BOOLEAN, version : Nat]
    <3>1. chain \in Seq([request : Request, valid : BOOLEAN, version : Nat])
      OBVIOUS
    <3> HIDE DEF IInv, TypeOK
    <3> QED BY <3>1, ElementOfSeq
  <2>2. Ordered(chain[i].request)
    <3> SUFFICES \E j \in 1 .. Len(chain) : chain[j].request = chain[i].request
      BY DEF Ordered
    <3> QED OBVIOUS
  <2> QED BY <2>1, <2>2
<1> QED BY <1>1, <1>2, <1>3

LEMMA PenaltyOrdered ==
  ASSUME IInv, Taken, PenaltySettled, PenaltyApart, NEW q \in Request, Order(q), [Next]_vars
  PROVE  PenaltySettled' /\ PenaltyApart'
<1> DEFINE n == Len(chain) + 1
           e == FirstResponse(q)
           Found(fn) == NoConflict(e) /\ call[q].fn = fn
<1>1. Len(chain') = n /\ chain'[n].valid = NoConflict(e) /\ chain'[n].request = q
  <2> DEFINE writes == NoConflict(e) /\ e.result.writes # {}
             block == [request |-> q, valid |-> NoConflict(e),
                       version |-> IF writes THEN Version + 1 ELSE Version]
  <2>1. chain' = Append(chain, block)
    BY DEF Order
  <2>2. block.valid = NoConflict(e) /\ block.request = q
    OBVIOUS
  <2>3. chain \in Seq([request : Request, valid : BOOLEAN, version : Nat])
    BY DEF IInv, TypeOK
  <2> HIDE DEF block, e
  <2> QED BY <2>1, <2>2, <2>3
<1>2. call' = call
  BY DEF Order, gateway
<1>3. Len(chain) \in Nat
  BY DEF IInv, TypeOK
<1>4. \A i \in 1 .. Len(chain) :
        chain'[i] = chain[i] /\ call'[chain[i].request] = call[chain[i].request]
  BY ChainStays
<1>5. /\ Found("penalty") => Tip.contract.status # "penalized"
                             /\ Tip'.contract.status = "penalized"
      /\ ~ Found("penalty") /\ ~ Found("download_request") => Tip' = Tip
  BY OrderEffect
<1> HIDE DEF e
<1>6. Penalties' = Penalties \cup {i \in {n} : Found("penalty")}
  BY <1>1, <1>2, <1>3, <1>4 DEF Penalties
<1>7. Downloads' = Downloads \cup {i \in {n} : Found("download_request")}
  BY <1>1, <1>2, <1>3, <1>4 DEF Downloads
<1>8. Penalties \subseteq 1 .. Len(chain) /\ Downloads \subseteq 1 .. Len(chain)
  BY DEF Penalties, Downloads
<1>9. ~ (Found("penalty") /\ Found("download_request"))
  OBVIOUS
<1> HIDE DEF Found
<1>10. PenaltySettled'
  <2>1. CASE Found("penalty")
    BY <1>5, <2>1 DEF PenaltySettled
  <2>2. CASE Found("download_request")
    <3>1. n \in Downloads' /\ Penalties' = Penalties
      BY <1>6, <1>7, <1>9, <2>2
    <3>2. \A i \in Penalties' : i <= n
      BY <1>3, <1>8, <3>1
    <3> HIDE DEF n
    <3> QED BY <3>1, <3>2 DEF PenaltySettled
  <2>3. CASE ~ Found("penalty") /\ ~ Found("download_request")
    BY <1>5, <1>6, <1>7, <2>3 DEF PenaltySettled
  <2> QED BY <2>1, <2>2, <2>3
<1>11. PenaltyApart'
  BY <1>3, <1>5, <1>6, <1>7, <1>8 DEF PenaltySettled, PenaltyApart
<1> QED BY <1>10, <1>11

LEMMA PenaltyStep ==
  ASSUME IInv, Taken, PenaltySettled, PenaltyApart, [Next]_vars
  PROVE  PenaltySettled' /\ PenaltyApart'
<1>1. CASE UNCHANGED <<chain, states>>
  <2>1. Tip' = Tip
    BY <1>1 DEF Tip, Version
  <2>2. Penalties' = Penalties /\ Downloads' = Downloads
    BY <1>1, ChainStays DEF Penalties, Downloads
  <2> QED BY <2>1, <2>2 DEF PenaltySettled, PenaltyApart
<1>2. ASSUME NEW q \in Request, GatewayStep(q) PROVE UNCHANGED <<chain, states>>
  BY <1>2 DEF GatewayStep, SendTransactionProposal, SubmitterFails, SendTransaction,
              ProposalRejected, SendThrows, Timeout, Respond, fabric
<1>3. FabricStep \/ Tick \/ UNCHANGED vars =>
        UNCHANGED <<chain, states>> \/ \E q \in Request : Order(q)
  BY DEF FabricStep, Endorse, EndorseFails, Broadcast, BroadcastFails, Commit, Tick, vars, fabric
<1> QED BY <1>1, <1>2, <1>3, PenaltyOrdered DEF Next

(* No request in force is penalised twice, for any number of clients that  *)
(* send the same penalty at the same time.                                 *)
THEOREM PenalisedOnce == Spec => []PenaltyOnce
<1>1. Init => PenaltySettled /\ PenaltyApart
  BY DEF Init, PenaltySettled, PenaltyApart, Penalties
<1>2. /\ IInv /\ Taken /\ (PenaltySettled /\ PenaltyApart) /\ [Next]_vars
      => (PenaltySettled /\ PenaltyApart)'
  BY PenaltyStep
<1>3. PenaltyApart => PenaltyOnce
  BY DEF PenaltyApart, PenaltyOnce, ValidAt, Penalties, Downloads
<1> QED BY <1>1, <1>2, <1>3, Invariant, TakenInvariant, PTL DEF Spec
=============================================================================
