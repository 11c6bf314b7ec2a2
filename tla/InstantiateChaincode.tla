------------------------- MODULE InstantiateChaincode -------------------------
(***************************************************************************)
(* Requests to instantiate a chaincode, and the two variables of the       *)
(* module that all of them share: the transaction id and the event hub     *)
(* (instantiate-chaincode.js, and the event hub of fabric-client).  What   *)
(* runs between two awaits is one step, and so is a callback with the      *)
(* promises it settles.                                                    *)
(*                                                                         *)
(* The transaction of a request is named by the request.                   *)
(***************************************************************************)
EXTENDS Integers, FiniteSets

CONSTANTS
  Request,    \* requests, each used once
  Null,
  Together,   \* how many requests the operators have open at once
  MaxFaults   \* bound of the failures of the network and the endorsers

ASSUME InstantiateAssumption ==
  /\ Null \notin Request /\ Null \notin BOOLEAN /\ Null # "SUCCESS"
  /\ Together \in Nat \ {0} /\ MaxFaults \in Nat

VARIABLES
  tx_id,     \* the transaction id last made
  eh,        \* the request whose event hub was made last
  at,        \* what each request has come to
  deployId,  \* the transaction whose event it waits for
  hub,       \* its event hub
  listens,   \* the requests whose hub has the listener
  timer,     \* the requests whose timer runs
  ordered,   \* what the orderer said of its transaction
  valid,     \* what became of the transaction at the peer
  sent,      \* events on their way to the hub of a request
  faults

vars == <<tx_id, eh, at, deployId, hub, listens, timer, ordered, valid, sent, faults>>

Over == {"success", "failure", "refused", "lost"}
Open == {r \in Request : at[r] \notin Over \cup {"idle"}}

Init ==
  /\ tx_id = Null /\ eh = Null
  /\ at = [r \in Request |-> "idle"]
  /\ deployId = [r \in Request |-> Null]
  /\ hub = [r \in Request |-> "none"]
  /\ listens = {} /\ timer = {}
  /\ ordered = [r \in Request |-> Null]
  /\ valid = [r \in Request |-> Null]
  /\ sent = {} /\ faults = 0

Goes(r, step) == at' = [at EXCEPT ![r] = step]
Fault == faults < MaxFaults /\ faults' = faults + 1

-----------------------------------------------------------------------------
(* A request comes, or one with a field missing.                           *)
instantiateChaincode(r) ==
  /\ at[r] = "idle" /\ Cardinality(Open) < Together
  /\ \E step \in {"channel", "refused"} : Goes(r, step)
  /\ UNCHANGED <<tx_id, eh, deployId, hub, listens, timer, ordered, valid, sent, faults>>

(* The administrator or the channel's configuration is not to be had; the  *)
(* endorsers refuse or cannot be asked; or they agree and the new hub does *)
(* not open, because another request has cleared the user context.         *)
ProposalFails(r) ==
  /\ at[r] \in {"channel", "proposed"} /\ Fault /\ Goes(r, "failure")
  /\ eh' = eh \/ (at[r] = "proposed" /\ eh' = r)
  /\ UNCHANGED <<tx_id, deployId, hub, listens, timer, ordered, valid, sent>>

newTransactionID(r) ==
  /\ at[r] = "channel" /\ Goes(r, "proposed")
  /\ tx_id' = r
  /\ UNCHANGED <<eh, deployId, hub, listens, timer, ordered, valid, sent, faults>>

(* Mutant of registerTxEvent: no timer is set.                             *)
registerTxEventUntimed(r) ==
  /\ at[r] = "proposed" /\ Goes(r, "waiting")
  /\ deployId' = [deployId EXCEPT ![r] = tx_id]
  /\ eh' = r /\ hub' = [hub EXCEPT ![r] = "connecting"]
  /\ listens' = listens \cup {r}
  /\ UNCHANGED <<tx_id, timer, ordered, valid, sent, faults>>

(* The endorsers agree: a hub is opened with a listener for the id that    *)
(* tx_id has by now, a timer is set, and the request's own transaction is  *)
(* sent to the orderer.                                                    *)
registerTxEvent(r) ==
  /\ at[r] = "proposed" /\ Goes(r, "waiting")
  /\ deployId' = [deployId EXCEPT ![r] = tx_id]
  /\ eh' = r /\ hub' = [hub EXCEPT ![r] = "connecting"]
  /\ listens' = listens \cup {r} /\ timer' = timer \cup {r}
  /\ UNCHANGED <<tx_id, ordered, valid, sent, faults>>

HubUp(r) ==
  /\ hub[r] = "connecting" /\ hub' = [hub EXCEPT ![r] = "up"]
  /\ UNCHANGED <<tx_id, eh, at, deployId, listens, timer, ordered, valid, sent, faults>>

(* disconnect() drops the listeners of the hub; no error callback is set.  *)
Disconnected(r) ==
  /\ hub' = [hub EXCEPT ![r] = "down"]
  /\ listens' = listens \ {r}

HubDown(r) ==
  /\ hub[r] \in {"connecting", "up"} /\ Disconnected(r) /\ Fault
  /\ UNCHANGED <<tx_id, eh, at, deployId, timer, ordered, valid, sent>>

-----------------------------------------------------------------------------
Transactions == {r \in Request : deployId[r] # Null}

(* The orderer's answer.  Anything but SUCCESS rejects the request, and    *)
(* its timer goes on.                                                      *)
OrderAnswered(r) ==
  /\ r \in Transactions /\ ordered[r] = Null
  /\ UNCHANGED <<tx_id, eh, deployId, hub, listens, timer, valid, sent>>
  /\ \/ /\ ordered' = [ordered EXCEPT ![r] = "SUCCESS"]
        /\ at' = [at EXCEPT ![r] = IF @ = "event" THEN "success" ELSE @]
        /\ UNCHANGED faults
     \/ /\ Fault
        /\ ordered' = [ordered EXCEPT ![r] = "refused"]
        /\ at' = [at EXCEPT ![r] = IF @ \in {"waiting", "event"} THEN "failure" ELSE @]

(* The peer commits a transaction that was ordered, and finds it valid or  *)
(* not; the hubs that are registered with it are told.                     *)
PeerCommits(r) ==
  /\ r \in Transactions /\ ordered[r] # "refused" /\ valid[r] = Null
  /\ \E v \in BOOLEAN : valid' = [valid EXCEPT ![r] = v]
  /\ sent' = sent \cup {<<q, r>> : q \in {k \in Request : hub[k] = "up"}}
  /\ UNCHANGED <<tx_id, eh, at, deployId, hub, listens, timer, ordered, faults>>

(* The listener stops the request's timer and disconnects the hub that was *)
(* made last.                                                              *)
TxEvent(r, tx) ==
  /\ <<r, tx>> \in sent /\ sent' = sent \ {<<r, tx>>}
  /\ UNCHANGED <<tx_id, eh, deployId, ordered, valid, faults>>
  /\ IF r \notin listens \/ deployId[r] # tx THEN UNCHANGED <<at, hub, listens, timer>>
     ELSE /\ timer' = timer \ {r} /\ Disconnected(eh)
          /\ at' = [at EXCEPT ![r] = IF @ # "waiting" THEN @
                                     ELSE IF ~valid[tx] THEN "failure"
                                     ELSE IF ordered[r] = "SUCCESS" THEN "success"
                                     ELSE "event"]

(* Thirty seconds are over: the hub that was made last is disconnected.    *)
TimerFires(r) ==
  /\ r \in timer /\ timer' = timer \ {r}
  /\ Disconnected(eh)
  /\ at' = [at EXCEPT ![r] = IF @ = "waiting" THEN "failure" ELSE @]
  /\ UNCHANGED <<tx_id, eh, deployId, ordered, valid, sent, faults>>

(* The server stops and starts again, or a disconnect has thrown in a      *)
(* callback because another request had cleared the user context.          *)
Restart ==
  /\ Fault
  /\ tx_id' = Null /\ eh' = Null
  /\ at' = [r \in Request |-> IF r \in Open THEN "lost" ELSE at[r]]
  /\ hub' = [r \in Request |-> "none"]
  /\ listens' = {} /\ timer' = {} /\ sent' = {}
  /\ UNCHANGED <<deployId, ordered, valid>>

-----------------------------------------------------------------------------
Proceeds(r) ==
  \/ newTransactionID(r) \/ registerTxEvent(r)
  \/ OrderAnswered(r) \/ TimerFires(r) \/ \E tx \in Request : TxEvent(r, tx)

Next ==
  \/ \E r \in Request :
       \/ instantiateChaincode(r) \/ ProposalFails(r) \/ Proceeds(r)
       \/ HubUp(r) \/ HubDown(r) \/ PeerCommits(r)
  \/ Restart

Spec == Init /\ [][Next]_vars

(* The endorsers and the orderer answer, node runs timers and callbacks.   *)
(* Nothing is said of the peer: it need not commit.                        *)
Fairness == \A r \in Request :
  /\ WF_vars(newTransactionID(r)) /\ WF_vars(registerTxEvent(r))
  /\ WF_vars(OrderAnswered(r)) /\ WF_vars(TimerFires(r))

FairSpec == Spec /\ Fairness

-----------------------------------------------------------------------------
(* The types of the variables, and that only a hub that is not closed has  *)
(* a listener.  Code: instantiate-chaincode.js:26-27, 89-123.              *)
TypeOK ==
  /\ tx_id \in Request \cup {Null} /\ eh \in Request \cup {Null}
  /\ at \in [Request -> {"idle", "channel", "proposed", "waiting", "event"} \cup Over]
  /\ deployId \in [Request -> Request \cup {Null}]
  /\ hub \in [Request -> {"none", "connecting", "up", "down"}]
  /\ \A r \in listens : hub[r] \in {"connecting", "up"}
  /\ timer \subseteq Request
  /\ ordered \in [Request -> {Null, "SUCCESS", "refused"}]
  /\ valid \in [Request -> BOOLEAN \cup {Null}]
  /\ sent \subseteq Request \X Request
  /\ faults \in 0..MaxFaults

(* A request is answered with success only when its own transaction was    *)
(* ordered and committed as valid: "if the transaction did not get         *)
(* committed within the timeout period, fail the test"                     *)
(* (instantiate-chaincode.js:86-88).  It is not so: the id whose event it  *)
(* waits for is the one that the last request has made.                    *)
(* Code: instantiate-chaincode.js:26-27, 44, 89-123.                       *)
OwnTransactionCommitted ==
  \A r \in Request : at[r] = "success" => ordered[r] = "SUCCESS" /\ valid[r] = TRUE

(* Every request is answered or lost with the process, though the peer     *)
(* commits nothing, the hub is lost, or another request's callback         *)
(* disconnects it.                                                         *)
(* Code: instantiate-chaincode.js:101-134.                                 *)
EveryRequestAnswered == \A r \in Request : r \in Open ~> at[r] \in Over
=============================================================================
