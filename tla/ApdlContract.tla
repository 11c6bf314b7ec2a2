---------------------------- MODULE ApdlContract ----------------------------
(***************************************************************************)
(* The APDL contract as the ledger promises it: the handlers of apdlcc.go  *)
(* run one at a time on one contract record and one balance per public     *)
(* key.  A handler may read a clock that is behind the current one: a peer *)
(* simulates a transaction before the transaction gets its place in the    *)
(* ledger.                                                                 *)
(***************************************************************************)
EXTENDS Apdlcc

CONSTANTS
  Amount,    \* deposit amounts clients ask for, NotANumber among them
  Date,      \* deposit times clients ask for, NotADate among them
  MaxTime    \* bound of the clock

ASSUME BoundAssumption ==
  /\ Amount \subseteq Int \cup {NotANumber}
  /\ Date \subseteq Nat \cup {NotADate}
  /\ MaxTime \in Nat

VARIABLES
  contract,  \* what the ledger holds under ContractKey
  balance,   \* what the ledger holds under each public key
  now        \* the clock

vars == <<contract, balance, now>>

Init ==
  /\ contract = InitContract(0)
  /\ balance = [k \in Key |-> Absent]
  /\ now = 0

DownloadRequest(a, t) ==
  /\ DownloadAccepted(a, t)
  /\ contract' = DownloadContract(a)
  /\ balance' = PutBalances(balance, DownloadBalances(a))
  /\ UNCHANGED now

Penalty(a) ==
  /\ PenaltyAccepted(contract, a)
  /\ contract' = PenaltyContract(contract)
  /\ balance' = PutBalances(balance, PenaltyBalances(contract, balance))
  /\ UNCHANGED now

(* A refused refund is a step too, one that writes nothing.                *)
Refund(t) ==
  /\ IF RefundAccepted(contract, t)
       THEN /\ contract' = RefundContract(contract)
            /\ balance' = PutBalances(balance, RefundBalances(contract, balance))
       ELSE UNCHANGED <<contract, balance>>
  /\ UNCHANGED now

Tick ==
  /\ now < MaxTime
  /\ now' = now + 1
  /\ UNCHANGED <<contract, balance>>

Next ==
  \/ \E a \in DownloadArgs(Amount, Date), t \in 0 .. now : DownloadRequest(a, t)
  \/ \E a \in PenaltyArgs : Penalty(a)
  \/ \E t \in 0 .. now : Refund(t)
  \/ Tick

Spec == Init /\ [][Next]_vars

-----------------------------------------------------------------------------
(* The ledger holds a contract that names its parties, and integers.       *)
TypeOK ==
  /\ contract \in LedgerContract
  /\ balance \in [Key -> Balance]
  /\ now \in 0 .. MaxTime

(* The balance of the contract's user tells how far the contract went: one *)
(* deposit below the salary once the download is requested, two once it is *)
(* penalised, and never a third time; the owner pays the first one only    *)
(* (apdlcc.go lines 86-88, 106-122).                                       *)
DepositAccounting ==
  /\ contract.status = "download_requested" =>
       \A k \in {contract.owner, contract.user} :
          balance[k] = Wrap(StartAmount - contract.deposit)
  /\ contract.status = "penalized" =>
       /\ balance[contract.user] =
            Wrap(Wrap(StartAmount - contract.deposit) - contract.deposit)
       /\ contract.owner # contract.user =>
            balance[contract.owner] = Wrap(StartAmount - contract.deposit)

(* The recorded balances only fall on account of the contract: a step that *)
(* takes money from a key is a penalty of a download request in force that *)
(* names it as the user, or a new request that names it (apdlcc.go lines   *)
(* 86-88, 117-121).                                                        *)
OnlyPartiesPay ==
  [][\A k \in Key :
       balance[k] # Absent /\ balance'[k] # balance[k] =>
         \/ /\ contract.status = "download_requested"
            /\ contract' = [contract EXCEPT !.status = "penalized"]
            /\ k = contract.user
         \/ /\ contract'.status = "download_requested"
            /\ k \in {contract'.owner, contract'.user}]_vars

(* A penalty takes the deposit from the user's balance as long as twice    *)
(* the deposit fits between the salary and the least integer; beyond that  *)
(* the subtraction of line 119 wraps.                                      *)
PenaltyLowersBalance ==
  [][/\ contract.status = "download_requested" /\ contract'.status = "penalized"
     /\ 2 * contract.deposit <= StartAmount + Half
     => balance'[contract.user] = balance[contract.user] - contract.deposit]_vars

(* What the messages of the refund branch say (apdlcc.go lines 136, 148    *)
(* and 150): a request in force is refused its refund only because it has  *)
(* not expired yet.                                                        *)
ExpiredRequestIsRefundable ==
  contract.status = "download_requested" /\ now > contract.expiry
    => RefundAccepted(contract, now)
=============================================================================
