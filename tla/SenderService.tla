--------------------------- MODULE SenderService ---------------------------
(***************************************************************************)
(* The hub's service (senderService.py) between the contract and the       *)
(* transfer: a POST to /download asks the gateway for the status of the    *)
(* contract and, if the answer can be read as one, connects to the user's  *)
(* service and runs the transfer as the sender.  The handlers run in       *)
(* threads of one process.  The same file's command "penalize" sends a     *)
(* penalty and prints what it makes of the answer.                         *)
(*                                                                         *)
(* The ledger is the one of ApdlContract.  What the gateway answers stands *)
(* for the contract as one peer had it when it simulated the call, so it   *)
(* may be any contract that was ever in the ledger; or the gateway answers *)
(* that the proposal failed, with an empty payload, or with no object at   *)
(* all.  An object without "payload" it never sends, and so the branches   *)
(* that ask for one ("txid invalid", "Penalize did not work") are never    *)
(* taken: a bad answer raises an exception instead.                        *)
(***************************************************************************)
EXTENDS Apdlcc, FiniteSets

CONSTANTS
  Amount, Date, MaxTime,  \* as in ApdlContract
  Download,               \* POST requests to /download
  Penalize,               \* runs of the command "penalize"
  MaxStarts,              \* bound: how often the user starts the service
  Null

VARIABLES
  contract, balance, now,  \* the ledger
  past,      \* the contracts the ledger has held
  at,        \* at[c]: how far a call has come, or how it ended
  view,      \* view[d]: the contract that was read in the answer
  user,      \* the download that the user's service has accepted, or
             \* "listening" or "stopped"
  starts     \* how often that service was started

vars == <<contract, balance, now, past, at, view, user, starts>>

Ledger == INSTANCE ApdlContract

Call == Download \cup Penalize

(* "listening" and "stopped" are no requests.                              *)
ASSUME ServiceAssumption ==
  /\ Ledger!BoundAssumption
  /\ {"listening", "stopped"} \cap Download = {}
  /\ MaxStarts \in Nat

Init ==
  /\ Ledger!Init
  /\ past = {contract}
  /\ at = [c \in Call |-> "idle"]
  /\ view = [d \in Download |-> Null]
  /\ user = "stopped" /\ starts = 0

LedgerStep ==
  /\ Ledger!Next
  /\ past' = past \cup {contract'}
  /\ UNCHANGED <<at, view, user, starts>>

unchangedLedger == UNCHANGED <<contract, balance, now, past>>

Goes(c, from, to) == at[c] = from /\ at' = [at EXCEPT ![c] = to]

(* A POST comes in; one without a transaction id is answered.  The id is   *)
(* not used any further.                                                   *)
download_request(d) ==
  /\ Goes(d, "idle", "register") \/ Goes(d, "idle", "no txid")
  /\ unchangedLedger /\ UNCHANGED <<view, user, starts>>

penalize(p) ==
  /\ Goes(p, "idle", "register")
  /\ unchangedLedger /\ UNCHANGED <<view, user, starts>>

(* Without a token the next call is refused with a page that is no JSON.   *)
send_register_request(c) ==
  /\ Goes(c, "register", "ask") \/ Goes(c, "register", "error")
  /\ unchangedLedger /\ UNCHANGED <<view, user, starts>>

(* A mutant of ReadAsRequest: the port is not converted to a number.       *)
ReadAnyContract(c) == TRUE

(* The contract of a fresh ledger has no port that int() could convert.    *)
ReadAsRequest(c) == c.user # NoKey

get_status(d) ==
  /\ \E c \in past :
       /\ ReadAsRequest(c)
       /\ Goes(d, "ask", "connect")
       /\ view' = [view EXCEPT ![d] = c]
  /\ unchangedLedger /\ UNCHANGED <<user, starts>>

(* An empty payload, no object, no port that is a number: an exception.    *)
get_status_raises(d) ==
  /\ Goes(d, "ask", "error")
  /\ unchangedLedger /\ UNCHANGED <<view, user, starts>>

(* Whatever address the contract has, the hub connects to the one the      *)
(* user's service listens at.  While that service is busy its socket still *)
(* takes a connection, and then nobody answers on it.                      *)
beginOT(d) ==
  /\ IF user = "stopped" THEN Goes(d, "connect", "error") /\ UNCHANGED user
     ELSE IF user = "listening" THEN Goes(d, "connect", "transfer") /\ user' = d
     ELSE Goes(d, "connect", "waiting") /\ UNCHANGED user
  /\ unchangedLedger /\ UNCHANGED <<view, starts>>

(* A mutant of Completed: whoever waited is told that it was served.       *)
CompletedAll(d) == [c \in Call |-> IF c = d \/ at[c] = "waiting" THEN "OT completed" ELSE at[c]]
Completed(d) == [at EXCEPT ![d] = "OT completed"]

(* The transfer ends on both sides; its steps are those of                 *)
(* SoftwareTransfer.                                                       *)
OTCompleted(d) ==
  /\ at[d] = "transfer" /\ user = d
  /\ at' = Completed(d)
  /\ user' = "stopped"
  /\ unchangedLedger /\ UNCHANGED <<view, starts>>

(* A mutant of OTFails: the socket has no timeout.                         *)
OTFailsNoTimeout(d) ==
  /\ user # d /\ Goes(d, "transfer", "error")
  /\ unchangedLedger /\ UNCHANGED <<view, user, starts>>

(* The socket times out after 15 s, or the user's side is gone.            *)
OTFails(d) ==
  /\ Goes(d, "transfer", "error") \/ Goes(d, "waiting", "error")
  /\ user' = (IF user = d THEN "stopped" ELSE user)
  /\ unchangedLedger /\ UNCHANGED <<view, starts>>

(* The gateway's answer always has a payload, which is all that penalize   *)
(* looks for, whether a peer simulated the penalty or refused it.          *)
PenaltyAnswered(p) ==
  /\ Goes(p, "ask", "Penalize successful")
  /\ unchangedLedger /\ UNCHANGED <<view, user, starts>>

PenaltyRaises(p) ==
  /\ Goes(p, "ask", "error")
  /\ unchangedLedger /\ UNCHANGED <<view, user, starts>>

(* The user starts the service that accepts one connection, or stops it.   *)
StartService ==
  /\ user = "stopped" /\ starts < MaxStarts
  /\ user' = "listening" /\ starts' = starts + 1
  /\ unchangedLedger /\ UNCHANGED <<at, view>>

StopService ==
  /\ user # "stopped" /\ user' = "stopped"
  /\ unchangedLedger /\ UNCHANGED <<at, view, starts>>

Serve(d) ==
  \/ send_register_request(d) \/ get_status(d) \/ get_status_raises(d)
  \/ beginOT(d) \/ OTCompleted(d) \/ OTFails(d)

Next ==
  \/ LedgerStep
  \/ \E d \in Download : download_request(d) \/ Serve(d)
  \/ \E p \in Penalize :
       penalize(p) \/ send_register_request(p) \/ PenaltyAnswered(p) \/ PenaltyRaises(p)
  \/ StartService \/ StopService

Spec == Init /\ [][Next]_vars

(* Every call to the gateway returns, if only with an error, and a read    *)
(* from the user's socket times out.                                       *)
Fairness == \A d \in Download : WF_vars(Serve(d))

FairSpec == Spec /\ Fairness

-----------------------------------------------------------------------------
Ended == {"no txid", "error", "OT completed", "Penalize successful"}

TypeOK ==
  /\ contract \in past /\ past \subseteq LedgerContract
  /\ at \in [Call -> {"idle", "register", "ask", "connect", "transfer", "waiting"} \cup Ended]
  /\ view \in [Download -> LedgerContract \cup {Null}]
  /\ user \in Download \cup {"listening", "stopped"}
  /\ starts \in 0 .. MaxStarts

(* The hub sends software only after somebody had a download_request       *)
(* accepted by the chaincode: no answer of the gateway, however old or     *)
(* wrong, is read as a request that never was (senderService.py lines      *)
(* 55-80; apdlcc.go lines 41-50, 60-93).                                   *)
TransferNeedsRequest ==
  \A d \in Download : at[d] \in {"connect", "transfer", "waiting", "OT completed"} =>
    view[d] \in past /\ view[d].status # "init" /\ {view[d].owner, view[d].user} \subseteq Key

(* One start of the user's service serves one download: whoever is told    *)
(* that the transfer is complete was the one that the service ran with     *)
(* (senderService.py lines 24-25, 147-160; userService.py lines 39-55).    *)
OneServedPerStart ==
  Cardinality({d \in Download : at[d] = "OT completed" \/ user = d})
    + (IF user = "listening" THEN 1 ELSE 0) <= starts

(* Every POST to /download is answered, also the one whose connection      *)
(* nobody at the other end takes up (senderService.py lines 15-28, 153).   *)
EveryDownloadAnswered ==
  \A d \in Download : at[d] = "register" ~> at[d] \in Ended
=============================================================================
