------------------------- MODULE ApdlContractProofs -------------------------
(***************************************************************************)
(* What holds of the APDL contract for every set of keys, every salary and *)
(* every width of the integers.                                            *)
(***************************************************************************)
EXTENDS ApdlContract, TLAPS

-----------------------------------------------------------------------------
(* What the handlers of the chaincode return (Apdlcc).                     *)

(* One wrapped addition or subtraction of two integers of the width gives  *)
(* an integer of the width.                                                *)
LEMMA WrapInRange ==
  ASSUME NEW i \in Int, -2 * Half <= i, i < 2 * Half
  PROVE  Wrap(i) \in Int64
BY AmountAssumption DEF Wrap, Int64

(* A result that fits is not changed by the wrapping.                      *)
LEMMA WrapFits ==
  ASSUME NEW i \in Int64
  PROVE  Wrap(i) = i
BY AmountAssumption DEF Wrap, Int64

(* What instantiation writes is a contract.                                *)
LEMMA InitTyped ==
  ASSUME NEW t \in Nat
  PROVE  InitContract(t) \in LedgerContract
BY AmountAssumption DEF InitContract, LedgerContract, Contract, Status, Int64

(* An accepted download request has parties that are keys, a deposit       *)
(* between zero and the largest integer, and an expiry after the clock.    *)
LEMMA AcceptedArguments ==
  ASSUME NEW amounts, NEW dates, dates \subseteq Nat \cup {NotADate},
         NEW a \in DownloadArgs(amounts, dates), NEW t \in Nat, DownloadAccepted(a, t)
  PROVE  /\ a.owner \in Key /\ a.user \in Key
         /\ a.amount \in Int64 /\ a.amount >= 0
         /\ a.date \in Nat /\ a.date > 0
<1>1. a \in [owner : Key, user : Key, amount : amounts, date : dates]
  BY DEF DownloadArgs, DownloadAccepted
<1>2. a.owner \in Key /\ a.user \in Key /\ a.date \in dates
  BY <1>1
<1>3. a.date \in Nat
  BY <1>2 DEF DownloadAccepted
<1>4. a.amount \in Int64 /\ a.amount >= 0 /\ a.date > t
  BY DEF DownloadAccepted
<1> QED BY <1>2, <1>3, <1>4

(* The balances stay typed when a handler puts some of them.               *)
LEMMA PutIsTyped ==
  ASSUME NEW b \in [Key -> Balance], NEW puts \in Puts
  PROVE  PutBalances(b, puts) \in [Key -> Balance]
<1>1. PICK S \in SUBSET Key : puts \in [S -> Int64]
  BY DEF Puts
<1>2. \A k \in DOMAIN puts : puts[k] \in Int64
  BY <1>1
<1> QED BY <1>2 DEF PutBalances, Balance

(* A download request writes a contract and balances.                      *)
LEMMA DownloadTyped ==
  ASSUME NEW amounts, NEW dates, dates \subseteq Nat \cup {NotADate},
         NEW a \in DownloadArgs(amounts, dates), NEW t \in Nat, DownloadAccepted(a, t)
  PROVE  DownloadContract(a) \in LedgerContract /\ DownloadBalances(a) \in Puts
<1>1. /\ a.owner \in Key /\ a.user \in Key
      /\ a.amount \in Int64 /\ a.amount >= 0
      /\ a.date \in Nat /\ a.date > 0
  BY AcceptedArguments
<1>2. DownloadContract(a) \in LedgerContract
  BY <1>1 DEF DownloadContract, LedgerContract, Contract, Status
<1>3. Wrap(StartAmount - a.amount) \in Int64
  BY <1>1, WrapInRange, AmountAssumption DEF Int64
<1>4. DownloadBalances(a) \in [{a.owner, a.user} -> Int64]
  BY <1>3 DEF DownloadBalances
<1> QED BY <1>1, <1>2, <1>4 DEF Puts

(* A penalty is accepted only while a download request, or an expired one, *)
(* is in force.                                                            *)
LEMMA PenaltyStatus ==
  ASSUME NEW c \in LedgerContract, NEW a, PenaltyAccepted(c, a)
  PROVE  c.status \in {"download_requested", "expired"}
BY DEF LedgerContract, Contract, Status, PenaltyAccepted, StatusAllowsPenalty

(* A stored balance, less or plus a deposit, is an integer.                *)
LEMMA BalanceTyped ==
  ASSUME NEW b \in [Key -> Balance], NEW k \in Key, NEW d \in Int64
  PROVE  Wrap(AtoiOrZero(b[k]) - d) \in Int64 /\ Wrap(AtoiOrZero(b[k]) + d) \in Int64
<1>1. AtoiOrZero(b[k]) \in Int64
  BY AmountAssumption DEF AtoiOrZero, Balance, Int64
<1> QED BY <1>1, WrapInRange, AmountAssumption DEF Int64

(* A penalty writes a contract and the balance of a key.                   *)
LEMMA PenaltyTyped ==
  ASSUME NEW c \in LedgerContract, NEW b \in [Key -> Balance],
         NEW a, PenaltyAccepted(c, a)
  PROVE  PenaltyContract(c) \in LedgerContract /\ PenaltyBalances(c, b) \in Puts
<1>1. c.user \in Key /\ c.deposit \in Int64
  BY PenaltyStatus DEF LedgerContract, Contract
<1>2. PenaltyContract(c) \in LedgerContract
  BY PenaltyStatus DEF PenaltyContract, LedgerContract, Contract, Status
<1>3. PenaltyBalances(c, b) \in [{c.user} -> Int64]
  BY <1>1, BalanceTyped DEF PenaltyBalances
<1> QED BY <1>1, <1>2, <1>3 DEF Puts

(* No refund is ever accepted: refund waits for a status that no contract  *)
(* has (lines 85 and 135).                                                 *)
LEMMA RefundIsRefused ==
  ASSUME NEW c \in LedgerContract, NEW t
  PROVE  ~ RefundAccepted(c, t)
BY DEF LedgerContract, Contract, Status, RefundAccepted, StatusAllowsRefund

-----------------------------------------------------------------------------
LEMMA TypeInit == Init => TypeOK
BY InitTyped, BoundAssumption DEF Init, TypeOK, Balance

LEMMA TypeStep == TypeOK /\ [Next]_vars => TypeOK'
<1> SUFFICES ASSUME TypeOK, [Next]_vars PROVE TypeOK'
  OBVIOUS
<1> USE DEF TypeOK
<1>1. ASSUME NEW a \in DownloadArgs(Amount, Date), NEW t \in 0 .. now,
             DownloadRequest(a, t)
      PROVE  TypeOK'
  <2>1. t \in Nat /\ DownloadAccepted(a, t) /\ Date \subseteq Nat \cup {NotADate}
    BY <1>1, BoundAssumption DEF DownloadRequest
  <2>2. DownloadContract(a) \in LedgerContract /\ DownloadBalances(a) \in Puts
    BY <2>1, DownloadTyped
  <2>3. PutBalances(balance, DownloadBalances(a)) \in [Key -> Balance]
    BY <2>2, PutIsTyped
  <2> QED BY <1>1, <2>2, <2>3 DEF DownloadRequest
<1>2. ASSUME NEW a \in PenaltyArgs, Penalty(a)
      PROVE  TypeOK'
  BY <1>2, PenaltyTyped, PutIsTyped DEF Penalty
<1>3. ASSUME NEW t \in 0 .. now, Refund(t)
      PROVE  TypeOK'
  BY <1>3, RefundIsRefused DEF Refund
<1>4. CASE Tick
  BY <1>4, BoundAssumption DEF Tick
<1>5. CASE UNCHANGED vars
  BY <1>5 DEF vars
<1> QED BY <1>1, <1>2, <1>3, <1>4, <1>5 DEF Next

(* Type correctness: besides the types, a contract that left "init" names  *)
(* two keys and a deposit that is not negative.                            *)
THEOREM TypeCorrect == Spec => []TypeOK
BY TypeInit, TypeStep, PTL DEF Spec

(* The status "expired" is never reached, because only a refund writes it. *)
NeverExpired == contract.status # "expired"

(* The inductive invariant: the accounts are inductive together with the   *)
(* types and the absence of "expired", from which a penalty would charge a *)
(* balance that the accounts say nothing of.                               *)
IInv == TypeOK /\ NeverExpired /\ DepositAccounting

LEMMA InvariantInit == Init => NeverExpired /\ DepositAccounting
BY DEF Init, NeverExpired, DepositAccounting, InitContract

LEMMA InvariantStep ==
  ASSUME IInv, [Next]_vars
  PROVE  NeverExpired' /\ DepositAccounting'
<1> USE DEF IInv, NeverExpired
<1>1. ASSUME NEW a \in DownloadArgs(Amount, Date), NEW t \in 0 .. now,
             DownloadRequest(a, t)
      PROVE  NeverExpired' /\ DepositAccounting'
  <2>1. a.owner \in Key /\ a.user \in Key
    <3>1. t \in Nat /\ DownloadAccepted(a, t) /\ Date \subseteq Nat \cup {NotADate}
      BY <1>1, BoundAssumption DEF DownloadRequest, TypeOK
    <3> QED BY <3>1, AcceptedArguments
  <2>2. /\ contract'.status = "download_requested"
        /\ contract'.owner = a.owner /\ contract'.user = a.user
        /\ contract'.deposit = a.amount
    BY <1>1 DEF DownloadRequest, DownloadContract
  <2>3. \A k \in {a.owner, a.user} : balance'[k] = Wrap(StartAmount - a.amount)
    BY <1>1, <2>1 DEF DownloadRequest, DownloadBalances, PutBalances
  <2> QED BY <2>2, <2>3 DEF DepositAccounting
<1>2. ASSUME NEW a \in PenaltyArgs, Penalty(a)
      PROVE  NeverExpired' /\ DepositAccounting'
  <2>1. contract.status = "download_requested"
    BY <1>2, PenaltyStatus DEF Penalty, TypeOK
  <2>2. contract.owner \in Key /\ contract.user \in Key
    BY <2>1 DEF TypeOK, LedgerContract
  <2>3. /\ contract'.status = "penalized"
        /\ contract'.owner = contract.owner /\ contract'.user = contract.user
        /\ contract'.deposit = contract.deposit
    BY <1>2 DEF Penalty, PenaltyContract, TypeOK, LedgerContract, Contract
  <2>4. balance[contract.user] = Wrap(StartAmount - contract.deposit)
        /\ balance[contract.owner] = Wrap(StartAmount - contract.deposit)
    BY <2>1 DEF DepositAccounting
  <2>5. Wrap(StartAmount - contract.deposit) # Absent
    BY <2>1, WrapInRange, AmountAssumption DEF TypeOK, LedgerContract, Contract, Int64
  <2>6. \A k \in Key : balance'[k] = IF k = contract.user
                                       THEN Wrap(AtoiOrZero(balance[k]) - contract.deposit)
                                       ELSE balance[k]
    BY <1>2 DEF Penalty, PenaltyBalances, PutBalances
  <2>7. balance'[contract.user] =
          Wrap(Wrap(StartAmount - contract.deposit) - contract.deposit)
    BY <2>2, <2>4, <2>5, <2>6 DEF AtoiOrZero
  <2>8. contract.owner # contract.user =>
          balance'[contract.owner] = Wrap(StartAmount - contract.deposit)
    BY <2>2, <2>4, <2>6
  <2> QED BY <2>3, <2>7, <2>8 DEF DepositAccounting
<1>3. ASSUME NEW t \in 0 .. now, Refund(t)
      PROVE  NeverExpired' /\ DepositAccounting'
  BY <1>3, RefundIsRefused DEF Refund, TypeOK, DepositAccounting
<1>4. CASE Tick
  BY <1>4 DEF Tick, DepositAccounting
<1>5. CASE UNCHANGED vars
  BY <1>5 DEF vars, DepositAccounting
<1> QED BY <1>1, <1>2, <1>3, <1>4, <1>5 DEF Next

LEMMA Invariant == Spec => []IInv
<1>1. Init => NeverExpired /\ DepositAccounting
  BY InvariantInit
<1>2. TypeOK /\ NeverExpired /\ DepositAccounting /\ [Next]_vars
        => NeverExpired' /\ DepositAccounting'
  BY InvariantStep DEF IInv
<1> QED BY <1>1, <1>2, TypeCorrect, PTL DEF Spec, IInv

(* The accounts of the contract's parties: the user of a penalised         *)
(* contract is charged twice and never more.                               *)
THEOREM DepositsAccounted == Spec => []DepositAccounting
<1>1. IInv => DepositAccounting
  BY DEF IInv
<1> QED BY <1>1, Invariant, PTL

(* Each step that changes a recorded balance belongs to the contract: it   *)
(* penalises the user of a request in force or puts a new request in       *)
(* force.                                                                  *)
THEOREM OnlyPartiesPayThm == Spec => OnlyPartiesPay
<1> DEFINE Charged ==
      \A k \in Key : balance[k] # Absent /\ balance'[k] # balance[k] =>
         \/ /\ contract.status = "download_requested"
            /\ contract' = [contract EXCEPT !.status = "penalized"]
            /\ k = contract.user
         \/ /\ contract'.status = "download_requested"
            /\ k \in {contract'.owner, contract'.user}
<1>1. IInv /\ [Next]_vars => [Charged]_vars
  <2> SUFFICES ASSUME IInv, Next PROVE Charged
    BY DEF vars
  <2>1. ASSUME NEW a \in DownloadArgs(Amount, Date), NEW t \in 0 .. now,
               DownloadRequest(a, t)
        PROVE  Charged
    BY <2>1 DEF DownloadRequest, DownloadContract, DownloadBalances, PutBalances,
                IInv, TypeOK
  <2>2. ASSUME NEW a \in PenaltyArgs, Penalty(a)
        PROVE  Charged
    <3>1. contract.status = "download_requested"
      BY <2>2, PenaltyStatus DEF Penalty, IInv, TypeOK, NeverExpired
    <3>2. \A k \in Key : k # contract.user => balance'[k] = balance[k]
      BY <2>2 DEF Penalty, PenaltyBalances, PutBalances
    <3> QED BY <2>2, <3>1, <3>2 DEF Penalty, PenaltyContract
  <2>3. ASSUME NEW t \in 0 .. now, Refund(t)
        PROVE  Charged
    BY <2>3, RefundIsRefused DEF Refund, IInv, TypeOK
  <2>4. CASE Tick
    BY <2>4 DEF Tick
  <2> QED BY <2>1, <2>2, <2>3, <2>4 DEF Next
<1> QED BY <1>1, Invariant, PTL DEF Spec, OnlyPartiesPay

(* The subtraction of a penalty is exact while twice the deposit fits      *)
(* between the salary and the least integer.                               *)
THEOREM PenaltyLowersBalanceThm == Spec => PenaltyLowersBalance
<1> DEFINE Lowered ==
      /\ contract.status = "download_requested" /\ contract'.status = "penalized"
      /\ 2 * contract.deposit <= StartAmount + Half
      => balance'[contract.user] = balance[contract.user] - contract.deposit
<1>1. IInv /\ [Next]_vars => [Lowered]_vars
  <2> SUFFICES ASSUME IInv, Next, contract.status = "download_requested",
                      contract'.status = "penalized",
                      2 * contract.deposit <= StartAmount + Half
               PROVE  balance'[contract.user] = balance[contract.user] - contract.deposit
    BY DEF vars
  <2>1. PICK a \in PenaltyArgs : Penalty(a)
    <3>1. ASSUME NEW a \in DownloadArgs(Amount, Date), NEW t \in 0 .. now,
                 DownloadRequest(a, t)
          PROVE  FALSE
      BY <3>1 DEF DownloadRequest, DownloadContract
    <3>2. ASSUME NEW t \in 0 .. now, Refund(t)
          PROVE  FALSE
      BY <3>2, RefundIsRefused DEF Refund, IInv, TypeOK
    <3>3. CASE Tick
      BY <3>3 DEF Tick
    <3> QED BY <3>1, <3>2, <3>3 DEF Next
  <2>2. contract.user \in Key /\ contract.deposit \in Int64 /\ contract.deposit >= 0
    BY DEF IInv, TypeOK, LedgerContract, Contract
  <2> DEFINE left == StartAmount - contract.deposit
  <2>3. left \in Int64 /\ left - contract.deposit \in Int64
    BY <2>2, AmountAssumption DEF Int64
  <2>4. balance[contract.user] = left
    BY <2>3, WrapFits DEF IInv, DepositAccounting
  <2>5. AtoiOrZero(balance[contract.user]) = left
    BY <2>3, <2>4, AmountAssumption DEF AtoiOrZero, Int64
  <2>6. balance'[contract.user] = Wrap(left - contract.deposit)
    BY <2>1, <2>2, <2>5 DEF Penalty, PenaltyBalances, PutBalances
  <2> QED BY <2>3, <2>4, <2>6, WrapFits
<1> QED BY <1>1, Invariant, PTL DEF Spec, PenaltyLowersBalance

(* No request is ever refunded, whatever its expiry and the clock.         *)
THEOREM NeverRefunded == Spec => [](~ RefundAccepted(contract, now))
<1>1. TypeOK => ~ RefundAccepted(contract, now)
  BY RefundIsRefused DEF TypeOK
<1> QED BY <1>1, TypeCorrect, PTL
=============================================================================
