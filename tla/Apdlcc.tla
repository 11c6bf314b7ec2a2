------------------------------- MODULE Apdlcc -------------------------------
(***************************************************************************)
(* The handlers of the APDL chaincode (apdlcc.go) as pure operators: what  *)
(* one invocation accepts, what it answers and what it writes, given the   *)
(* contract record and the balances it reads and the clock of the peer     *)
(* that simulates it.  ApdlContract runs them one after another, Gateway   *)
(* simulates them on a peer and commits their writes later.                *)
(*                                                                         *)
(* A public key is a value of Key.  download_request stores whatever two   *)
(* strings it is given, so Key also holds strings that are no ECDSA key.   *)
(***************************************************************************)
EXTENDS Integers

CONSTANTS
  Key,            \* the strings that clients use as public keys
  EcdsaKey,       \* those that ParsePKIXPublicKey accepts as ECDSA keys
  NoKey,          \* the public key of Party{}
  Message,        \* messages that signatures are made for
  StartAmount,    \* the balance every party is assumed to start with
  Half,           \* an int holds -Half .. Half - 1
  NotANumber,     \* an amount that Atoi refuses
  NotADate,       \* a deposit time that time.Parse refuses
  Malformed,      \* an argument list of the wrong length
  ShortSignature, \* a signature without the comma between r and s
  Absent          \* the value of a ledger key that was never put

Int64 == -Half .. Half - 1

(* NoKey is no client's key; the salary every party starts with fits the   *)
(* integers that hold balances, and Absent is none of them.                *)
ASSUME KeyAssumption == EcdsaKey \subseteq Key /\ NoKey \notin Key
ASSUME AmountAssumption ==
  /\ Half \in Nat /\ StartAmount \in 0 .. Half - 1
  /\ Absent \notin Int

(* One addition or subtraction of the Go type int.                         *)
Wrap(i) == IF i < -Half THEN i + 2 * Half
           ELSE IF i >= Half THEN i - 2 * Half
           ELSE i

-----------------------------------------------------------------------------
(* The contract record.  A party is its public key: its address and port   *)
(* are never read by the chaincode.                                        *)
Status == {"init", "download_requested", "penalized", "expired"}

Contract == [status : Status, owner : Key \cup {NoKey}, user : Key \cup {NoKey},
             expiry : Nat, deposit : Int64]

(* Once a download was requested, the contract names two parties, a        *)
(* deposit that is not negative and an expiry that some clock reading      *)
(* preceded (lines 69 and 75).                                             *)
LedgerContract ==
  {c \in Contract : c.status # "init" => /\ {c.owner, c.user} \subseteq Key
                                        /\ c.deposit >= 0
                                        /\ c.expiry > 0}

Balance == Int64 \cup {Absent}

InitContract(t) ==
  [status |-> "init", owner |-> NoKey, user |-> NoKey, expiry |-> t, deposit |-> 0]

(* A signature names the key that made it and the message it is made for.  *)
Signature == [by : EcdsaKey, message : Message] \cup {ShortSignature}

(* Atoi of a stored balance, whose error the chaincode drops.              *)
AtoiOrZero(b) == IF b = Absent THEN 0 ELSE b

-----------------------------------------------------------------------------
(* verifySig: both keys must parse and both signatures must have two       *)
(* parts, and then the loop leaves in "verified" the verdict of its last   *)
(* turn, the one on the user's signature.                                  *)
verifySig(message, owner, user, ownerSig, userSig) ==
  /\ {owner, user} \subseteq EcdsaKey
  /\ ShortSignature \notin {ownerSig, userSig}
  /\ userSig = [by |-> user, message |-> message]

\* a mutant of DownloadAccepted: a negative deposit is not refused
DownloadAcceptedNegative(a, t) ==
  a # Malformed /\ a.amount # NotANumber /\ a.amount \in Int64 /\ a.date # NotADate /\ a.date > t

(* download_request looks at its arguments and at the clock only: the      *)
(* current contract, whatever its status, does not matter.                 *)
DownloadAccepted(a, t) ==
  /\ a # Malformed
  /\ a.amount # NotANumber
  /\ a.amount \in Int64 /\ a.amount >= 0
  /\ a.date # NotADate
  /\ a.date > t

DownloadContract(a) ==
  [status |-> "download_requested", owner |-> a.owner, user |-> a.user,
   expiry |-> a.date, deposit |-> a.amount]

(* The deposit is taken from the salary of both parties.                   *)
DownloadBalances(a) == [k \in {a.owner, a.user} |-> Wrap(StartAmount - a.amount)]

\* a mutant of StatusAllowsPenalty: a penalised contract can be penalised again
StatusAllowsPenaltyTwice(status) == status # "init"

StatusAllowsPenalty(status) == status \notin {"init", "penalized"}

PenaltyAccepted(c, a) ==
  /\ a # Malformed
  /\ StatusAllowsPenalty(c.status)
  /\ verifySig(a.message, c.owner, c.user, a.ownerSig, a.userSig)

PenaltyContract(c) == [c EXCEPT !.status = "penalized"]

\* mutants of PenaltyBalances: the owner is charged; the deposit is paid out
PenaltyBalancesOwner(c, b) == [k \in {c.owner} |-> Wrap(AtoiOrZero(b[k]) - c.deposit)]
PenaltyBalancesPaidOut(c, b) == [k \in {c.user} |-> Wrap(AtoiOrZero(b[k]) + c.deposit)]

PenaltyBalances(c, b) == [k \in {c.user} |-> Wrap(AtoiOrZero(b[k]) - c.deposit)]

(* The status that refund waits for is not the one that download_request   *)
(* writes.                                                                 *)
StatusAllowsRefund(status) == status = "download_request"

RefundAccepted(c, t) == StatusAllowsRefund(c.status) /\ t > c.expiry

RefundContract(c) == [c EXCEPT !.status = "expired"]

RefundBalances(c, b) == [k \in {c.user} |-> Wrap(AtoiOrZero(b[k]) + c.deposit)]

-----------------------------------------------------------------------------
(* The arguments a client may send.                                        *)
DownloadArgs(amounts, dates) ==
  [owner : Key, user : Key, amount : amounts, date : dates] \cup {Malformed}

PenaltyArgs ==
  [message : Message, ownerSig : Signature, userSig : Signature] \cup {Malformed}

(* The balances that a handler puts: integers, under some of the keys.     *)
Puts == UNION {[S -> Int64] : S \in SUBSET Key}

(* The balances after the given ones were put.                             *)
PutBalances(b, puts) == [k \in Key |-> IF k \in DOMAIN puts THEN puts[k] ELSE b[k]]
=============================================================================
