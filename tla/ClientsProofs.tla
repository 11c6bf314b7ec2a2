--------------------------- MODULE ClientsProofs ---------------------------
(***************************************************************************)
(* What the hub's service and the page keep, whatever the number of        *)
(* requests, users, clicks and blocks, and whatever the ledger does.       *)
(***************************************************************************)
EXTENDS Clients, Sequences, FiniteSetTheorems, TLAPS

ACProofs == INSTANCE ApdlContractProofs

-----------------------------------------------------------------------------
(* The ledger of the service is the contract of those proofs.              *)
LEMMA SameLedger ==
  /\ ACProofs!LedgerContract = LedgerContract
  /\ ACProofs!TypeOK <=> Ledger!TypeOK
  /\ ACProofs!Init <=> Ledger!Init
  /\ ACProofs!vars = Ledger!vars
<1>1. ACProofs!LedgerContract = LedgerContract
  BY DEF LedgerContract, Contract, Status, Int64,
       ACProofs!LedgerContract, ACProofs!Contract, ACProofs!Status, ACProofs!Int64
<1>2. Ledger!LedgerContract = LedgerContract
  BY DEF LedgerContract, Contract, Status, Int64,
       Ledger!LedgerContract, Ledger!Contract, Ledger!Status, Ledger!Int64
<1>3. Ledger!Balance = ACProofs!Balance
  BY DEF Ledger!Balance, ACProofs!Balance, Ledger!Int64, ACProofs!Int64
<1>4. ACProofs!TypeOK <=> Ledger!TypeOK
  BY <1>1, <1>2, <1>3 DEF ACProofs!TypeOK, Ledger!TypeOK
<1>5. ACProofs!Init <=> Ledger!Init
  BY DEF ACProofs!Init, Ledger!Init, ACProofs!InitContract, Ledger!InitContract
<1> QED BY <1>1, <1>4, <1>5 DEF ACProofs!vars, Ledger!vars

LEMMA SameStep == Ledger!Next <=> ACProofs!Next
BY DEF Ledger!Next, ACProofs!Next,
  Ledger!DownloadRequest, ACProofs!DownloadRequest,
  Ledger!Penalty, ACProofs!Penalty, Ledger!Refund, ACProofs!Refund,
  Ledger!Tick, ACProofs!Tick,
  Ledger!DownloadArgs, ACProofs!DownloadArgs,
  Ledger!PenaltyArgs, ACProofs!PenaltyArgs,
  Ledger!Signature, ACProofs!Signature,
  Ledger!DownloadAccepted, ACProofs!DownloadAccepted,
  Ledger!DownloadContract, ACProofs!DownloadContract,
  Ledger!DownloadBalances, ACProofs!DownloadBalances,
  Ledger!PenaltyAccepted, ACProofs!PenaltyAccepted,
  Ledger!StatusAllowsPenalty, ACProofs!StatusAllowsPenalty,
  Ledger!verifySig, ACProofs!verifySig,
  Ledger!PenaltyContract, ACProofs!PenaltyContract,
  Ledger!PenaltyBalances, ACProofs!PenaltyBalances,
  Ledger!RefundAccepted, ACProofs!RefundAccepted,
  Ledger!StatusAllowsRefund, ACProofs!StatusAllowsRefund,
  Ledger!RefundContract, ACProofs!RefundContract,
  Ledger!RefundBalances, ACProofs!RefundBalances,
  Ledger!PutBalances, ACProofs!PutBalances,
  Ledger!AtoiOrZero, ACProofs!AtoiOrZero,
  Ledger!Wrap, ACProofs!Wrap, Ledger!Int64, ACProofs!Int64

LEMMA LedgerInit == Ledger!Init => Ledger!TypeOK
BY SameLedger, ACProofs!TypeInit, ServiceAssumption, KeyAssumption, AmountAssumption
   DEF Ledger!BoundAssumption

LEMMA LedgerTypes == Ledger!TypeOK /\ Ledger!Next => Ledger!TypeOK'
<1>1. ACProofs!TypeOK' <=> Ledger!TypeOK'
  <2>1. Ledger!LedgerContract = ACProofs!LedgerContract
    BY DEF Ledger!LedgerContract, Ledger!Contract, Ledger!Status, Ledger!Int64,
       ACProofs!LedgerContract, ACProofs!Contract, ACProofs!Status, ACProofs!Int64
  <2>2. Ledger!Balance = ACProofs!Balance
    BY DEF Ledger!Balance, ACProofs!Balance, Ledger!Int64, ACProofs!Int64
  <2> QED BY <2>1, <2>2 DEF ACProofs!TypeOK, Ledger!TypeOK
<1>2. ACProofs!TypeOK /\ [ACProofs!Next]_(ACProofs!vars) => ACProofs!TypeOK'
  BY ACProofs!TypeStep, ServiceAssumption, KeyAssumption, AmountAssumption
     DEF Ledger!BoundAssumption
<1> QED BY <1>1, <1>2, SameLedger, SameStep

(* A contract that names a user was requested, by two parties with keys.   *)
Requested(c) ==
  ReadAsRequest(c) => c.status # "init" /\ {c.owner, c.user} \subseteq Key

LEMMA LedgerRequested ==
  ASSUME Ledger!TypeOK, Requested(contract), Ledger!Next
  PROVE  contract' \in LedgerContract /\ Requested(contract')
<1>1. contract \in LedgerContract /\ contract' \in LedgerContract
  BY LedgerTypes DEF Ledger!TypeOK,
     LedgerContract, Contract, Status, Int64,
     Ledger!LedgerContract, Ledger!Contract, Ledger!Status, Ledger!Int64
<1>2. ReadAsRequest(contract') => contract'.status # "init"
  <2>1. ASSUME NEW a \in Ledger!DownloadArgs(Amount, Date), NEW t \in 0 .. now,
               Ledger!DownloadRequest(a, t)
        PROVE  contract'.status # "init"
    BY <2>1 DEF Ledger!DownloadRequest, Ledger!DownloadContract
  <2>2. ASSUME NEW a \in Ledger!PenaltyArgs, Ledger!Penalty(a)
        PROVE  contract'.status # "init"
    BY <2>2, <1>1 DEF Ledger!Penalty, Ledger!PenaltyContract, LedgerContract, Contract
  <2>3. ASSUME NEW t \in 0 .. now, Ledger!Refund(t)
        PROVE  UNCHANGED contract
    BY <2>3, <1>1 DEF Ledger!Refund, Ledger!RefundAccepted, Ledger!StatusAllowsRefund,
                      LedgerContract, Contract, Status
  <2>4. CASE Ledger!Tick
    BY <2>4 DEF Ledger!Tick, Requested
  <2> QED BY <2>1, <2>2, <2>3, <2>4 DEF Ledger!Next, Requested
<1> QED BY <1>1, <1>2 DEF Requested, LedgerContract

-----------------------------------------------------------------------------
(* The invariant of the hub's service.                                     *)
PastRequested == Ledger!TypeOK /\ \A c \in past : Requested(c)

Reached == {"connect", "transfer", "waiting", "OT completed"}

Viewed ==
  \A d \in Download : at[d] \in Reached => view[d] \in past /\ ReadAsRequest(view[d])

Served == {d \in Download : at[d] = "OT completed" \/ user = d}
Listening == IF user = "listening" THEN 1 ELSE 0

Counted == IsFiniteSet(Served) /\ Cardinality(Served) + Listening <= starts

ServiceIInv == TypeOK /\ PastRequested /\ Viewed /\ Counted

LEMMA ServiceInit == Init => ServiceIInv
<1> SUFFICES ASSUME Init PROVE ServiceIInv
  OBVIOUS
<1> USE DEF Init
<1>1. Ledger!TypeOK
  BY LedgerInit
<1>2. contract \in LedgerContract
  BY <1>1 DEF Ledger!TypeOK,
     LedgerContract, Contract, Status, Int64,
     Ledger!LedgerContract, Ledger!Contract, Ledger!Status, Ledger!Int64
<1>3. TypeOK
  BY <1>2, ServiceAssumption DEF TypeOK
<1>4. Requested(contract)
  BY DEF Requested, ReadAsRequest, Ledger!Init, Ledger!InitContract
<1>5. Served = {}
  BY ServiceAssumption DEF Served, Call
<1>6. Counted
  BY <1>5, FS_EmptySet DEF Counted, Listening
<1>7. Viewed
  BY DEF Viewed, Reached, Call
<1> QED BY <1>1, <1>3, <1>4, <1>6, <1>7 DEF ServiceIInv, PastRequested

(* A step after which no more downloads are served, and the service        *)
(* listens as before or no longer, keeps the count.                        *)
LEMMA FewerServed ==
  ASSUME TypeOK, Counted, Served' \subseteq Served, UNCHANGED starts,
         user' = user \/ user' # "listening"
  PROVE  Counted'
<1>1. IsFiniteSet(Served') /\ Cardinality(Served') <= Cardinality(Served)
  BY FS_Subset DEF Counted
<1>2. Cardinality(Served) \in Nat /\ Cardinality(Served') \in Nat
  BY <1>1, FS_CardinalityType DEF Counted
<1>3. Listening' <= Listening /\ Listening \in Nat /\ Listening' \in Nat
  BY DEF Listening
<1>4. starts \in Nat
  BY ServiceAssumption DEF TypeOK
<1> QED BY <1>1, <1>2, <1>3, <1>4 DEF Counted

(* A call that goes anywhere but on to the user's service.                 *)
LEMMA CallMoves ==
  ASSUME ServiceIInv, NEW c \in Call, NEW from,
         NEW to \in {"register", "no txid", "ask", "error", "Penalize successful"},
         Goes(c, from, to), unchangedLedger, UNCHANGED <<view, user, starts>>
  PROVE  ServiceIInv'
<1> USE DEF Goes, unchangedLedger
<1>1. TypeOK'
  BY DEF ServiceIInv, TypeOK, Ended
<1>2. PastRequested'
  BY DEF ServiceIInv, PastRequested, Ledger!TypeOK
<1>3. Viewed'
  BY DEF ServiceIInv, Viewed, Reached, Call, TypeOK
<1>4. Served' \subseteq Served
  BY DEF ServiceIInv, TypeOK, Served, Call
<1>5. Counted'
  BY <1>4, FewerServed DEF ServiceIInv
<1> QED BY <1>1, <1>2, <1>3, <1>5 DEF ServiceIInv

LEMMA LedgerMoves ==
  ASSUME ServiceIInv, LedgerStep
  PROVE  ServiceIInv'
<1> USE DEF ServiceIInv, LedgerStep
<1>1. contract' \in LedgerContract /\ Requested(contract')
  BY LedgerRequested DEF PastRequested, TypeOK
<1>2. Ledger!TypeOK'
  BY LedgerTypes DEF PastRequested
<1>3. TypeOK'
  BY <1>1 DEF TypeOK
<1>4. PastRequested'
  BY <1>1, <1>2 DEF PastRequested
<1>5. Viewed'
  BY DEF Viewed
<1>6. Counted'
  BY DEF Counted, Served, Listening
<1> QED BY <1>3, <1>4, <1>5, <1>6

LEMMA StatusRead ==
  ASSUME ServiceIInv, NEW d \in Download, get_status(d)
  PROVE  ServiceIInv'
<1> USE DEF ServiceIInv
<1>1. PICK c \in past : /\ ReadAsRequest(c)
                        /\ Goes(d, "ask", "connect")
                        /\ view' = [view EXCEPT ![d] = c]
  BY DEF get_status
<1>2. UNCHANGED <<contract, balance, now, past, user, starts>>
  BY DEF get_status, unchangedLedger
<1>3. TypeOK'
  BY <1>1, <1>2 DEF TypeOK, Goes
<1>4. PastRequested'
  BY <1>2 DEF PastRequested, Ledger!TypeOK
<1>5. Viewed'
  BY <1>1, <1>2 DEF Viewed, Reached, Goes, TypeOK, Call
<1>6. Served' \subseteq Served
  BY <1>1, <1>2 DEF Served, Goes, TypeOK, Call
<1>7. Counted'
  BY <1>2, <1>6, FewerServed
<1> QED BY <1>3, <1>4, <1>5, <1>7

LEMMA Connected ==
  ASSUME ServiceIInv, NEW d \in Download, beginOT(d)
  PROVE  ServiceIInv'
<1> USE DEF ServiceIInv
<1>1. UNCHANGED <<contract, balance, now, past, view, starts>>
  BY DEF beginOT, unchangedLedger
<1>2. PICK to \in {"error", "transfer", "waiting"} : Goes(d, "connect", to)
  BY Zenon DEF beginOT
<1>3. user' = user \/ (user = "listening" /\ user' = d)
  BY DEF beginOT
<1>4. TypeOK'
  BY <1>1, <1>2, <1>3 DEF TypeOK, Goes, Call, Ended
<1>5. PastRequested'
  BY <1>1 DEF PastRequested, Ledger!TypeOK
<1>6. Viewed'
  BY <1>1, <1>2 DEF Viewed, Reached, Goes, TypeOK, Call
<1>7. CASE user' = user
  <2>1. Served' \subseteq Served
    BY <1>2, <1>7 DEF Served, Goes, TypeOK, Call
  <2>2. Counted'
    BY <1>1, <1>7, <2>1, FewerServed
  <2> QED BY <1>4, <1>5, <1>6, <2>2
<1>8. CASE user = "listening" /\ user' = d
  <2>1. Served' = Served \cup {d} /\ d \notin Served
    BY <1>2, <1>8, ServiceAssumption DEF Served, Goes, TypeOK, Call
  <2>2. IsFiniteSet(Served') /\ Cardinality(Served') = Cardinality(Served) + 1
    BY <2>1, FS_AddElement DEF Counted
  <2>3. Listening = 1 /\ Listening' = 0
    BY <1>8, ServiceAssumption DEF Listening
  <2>4. Cardinality(Served) \in Nat /\ starts \in Nat
    BY FS_CardinalityType, ServiceAssumption DEF Counted, TypeOK
  <2>5. Counted'
    BY <1>1, <2>2, <2>3, <2>4 DEF Counted
  <2> QED BY <1>4, <1>5, <1>6, <2>5
<1> QED BY <1>3, <1>7, <1>8

LEMMA TransferEnds ==
  ASSUME ServiceIInv, NEW d \in Download, OTCompleted(d) \/ OTFails(d)
  PROVE  ServiceIInv'
<1> USE DEF ServiceIInv
<1>1. UNCHANGED <<contract, balance, now, past, view, starts>>
  BY DEF OTCompleted, OTFails, unchangedLedger
<1>2. PICK to \in {"OT completed", "error"} :
        /\ at' = [at EXCEPT ![d] = to]
        /\ to = "OT completed" => at[d] = "transfer" /\ user = d
  BY DEF OTCompleted, OTFails, Completed, Goes
<1>3. user' = user \/ user' = "stopped"
  BY DEF OTCompleted, OTFails
<1>4. TypeOK'
  BY <1>1, <1>2, <1>3 DEF TypeOK, Call, Ended
<1>5. PastRequested'
  BY <1>1 DEF PastRequested, Ledger!TypeOK
<1>6. Viewed'
  BY <1>1, <1>2 DEF Viewed, Reached, TypeOK, Call
<1>7. Served' \subseteq Served
  BY <1>2, <1>3, ServiceAssumption DEF Served, TypeOK, Call
<1>8. Counted'
  BY <1>1, <1>3, <1>7, FewerServed
<1> QED BY <1>4, <1>5, <1>6, <1>8

LEMMA ServiceStarts ==
  ASSUME ServiceIInv, StartService
  PROVE  ServiceIInv'
<1> USE DEF ServiceIInv, StartService, unchangedLedger
<1>1. TypeOK'
  BY ServiceAssumption DEF TypeOK
<1>2. PastRequested' /\ Viewed'
  BY DEF PastRequested, Ledger!TypeOK, Viewed
<1>3. Served' = Served
  BY ServiceAssumption DEF Served
<1>4. Listening = 0 /\ Listening' = 1
  BY DEF Listening
<1>5. Cardinality(Served) \in Nat /\ starts \in Nat
  BY FS_CardinalityType, ServiceAssumption DEF Counted, TypeOK
<1>6. Counted'
  BY <1>3, <1>4, <1>5 DEF Counted
<1> QED BY <1>1, <1>2, <1>6

LEMMA ServiceStops ==
  ASSUME ServiceIInv, StopService
  PROVE  ServiceIInv'
<1> USE DEF ServiceIInv, StopService, unchangedLedger
<1>1. TypeOK'
  BY DEF TypeOK
<1>2. PastRequested' /\ Viewed'
  BY DEF PastRequested, Ledger!TypeOK, Viewed
<1>3. Served' \subseteq Served
  BY ServiceAssumption DEF Served
<1>4. Counted'
  BY <1>3, FewerServed
<1> QED BY <1>1, <1>2, <1>4

LEMMA ServiceStep == ServiceIInv /\ [Next]_vars => ServiceIInv'
<1> SUFFICES ASSUME ServiceIInv, [Next]_vars PROVE ServiceIInv'
  OBVIOUS
<1>1. CASE LedgerStep
  BY <1>1, LedgerMoves
<1>2. ASSUME NEW d \in Download, download_request(d) \/ Serve(d)
      PROVE  ServiceIInv'
  <2>1. CASE download_request(d) \/ send_register_request(d) \/ get_status_raises(d)
    BY <2>1, CallMoves DEF download_request, send_register_request, get_status_raises, Call
  <2>2. CASE get_status(d)
    BY <2>2, StatusRead
  <2>3. CASE beginOT(d)
    BY <2>3, Connected
  <2>4. CASE OTCompleted(d) \/ OTFails(d)
    BY <2>4, TransferEnds
  <2> QED BY <1>2, <2>1, <2>2, <2>3, <2>4 DEF Serve
<1>3. ASSUME NEW p \in Penalize,
             penalize(p) \/ send_register_request(p) \/ PenaltyAnswered(p) \/ PenaltyRaises(p)
      PROVE  ServiceIInv'
  BY <1>3, CallMoves DEF penalize, send_register_request, PenaltyAnswered, PenaltyRaises, Call
<1>4. CASE StartService
  BY <1>4, ServiceStarts
<1>5. CASE StopService
  BY <1>5, ServiceStops
<1>6. CASE UNCHANGED vars
  BY <1>6 DEF vars, ServiceIInv, TypeOK, PastRequested, Ledger!TypeOK, Viewed,
              Counted, Served, Listening
<1> QED BY <1>1, <1>2, <1>3, <1>4, <1>5, <1>6 DEF Next

-----------------------------------------------------------------------------
(* The invariant of the page.                                              *)
Progress ==
  [at : {"idle", "submitted", "height", "blocks", "done", "dead"},
   by : Entity \cup {Null}, as : Entity \cup {Null}, shown : Entity \cup {Placeholder, Null},
   total : 0 .. MaxHeight, asked : SUBSET (0 .. MaxHeight - 1)]

(* What the list of blocks has in each place.                              *)
Entries == [by : Page!Click, number : 0 .. MaxHeight - 1]

(* The page shows the credentials of whose token it holds.                 *)
Shows == credentials = current_token \/ credentials = Placeholder

PageIInv == Page!TypeOK /\ Shows /\ SubmittedAsShown

Consistent(k) == k.as = k.shown \/ k.shown = Placeholder

LEMMA PageInit == Page!Init => PageIInv
<1> SUFFICES ASSUME Page!Init PROVE PageIInv
  OBVIOUS
<1> USE DEF Page!Init, Page!Idle
<1>1. MaxFailures \in Nat /\ MaxHeight \in Nat /\ MaxHeight >= 2
  BY PageAssumption DEF Page!WebUIAssumption
<1>2. Page!TypeOK
  BY <1>1 DEF Page!TypeOK
<1>3. Shows /\ SubmittedAsShown
  BY DEF Shows, SubmittedAsShown, Page!SubmittedAsShown
<1> QED BY <1>2, <1>3 DEF PageIInv

(* A step of one click: what has come of it changes to k, the list and the *)
(* last refresh may change, whose page it is does not.                     *)
ClickMoves(c, k) ==
  /\ click' = [click EXCEPT ![c] = k]
  /\ UNCHANGED <<current_token, credentials, registered_users, registering, height>>

LEMMA ClickKeeps ==
  ASSUME PageIInv, NEW c \in Page!Click, NEW k \in Progress, Consistent(k),
         ClickMoves(c, k),
         blockchain' \in Seq(Entries), latest' \in Page!Click \cup {Null},
         failures' \in 0 .. MaxFailures
  PROVE  PageIInv'
<1> USE DEF PageIInv, ClickMoves
<1>1. Page!TypeOK'
  BY DEF Page!TypeOK, Progress, Entries
<1>2. SubmittedAsShown'
  BY DEF SubmittedAsShown, Page!SubmittedAsShown, Consistent, Page!TypeOK
<1>3. Shows'
  BY DEF Shows
<1> QED BY <1>1, <1>2, <1>3

(* What getBlock makes of a click.                                         *)
LEMMA NextBlock ==
  ASSUME Page!TypeOK, NEW k \in Progress, NEW n \in Nat, NEW total \in 0 .. MaxHeight
  PROVE  /\ Page!getBlock(k, n, total) \in Progress
         /\ Consistent(k) => Consistent(Page!getBlock(k, n, total))
         /\ n < total => /\ Page!getBlock(k, n, total).at = "blocks"
                         /\ Page!getBlock(k, n, total).asked = {n}
                         /\ Page!getBlock(k, n, total).total = total
         /\ n >= total => /\ Page!getBlock(k, n, total).at = "done"
                          /\ Page!getBlock(k, n, total).total = total
<1>0. MaxHeight \in Nat
  BY PageAssumption DEF Page!WebUIAssumption
<1>1. CASE n < total
  <2> DEFINE g == [k EXCEPT !.at = "blocks", !.by = current_token, !.asked = {n},
                            !.total = total]
  <2>1. Page!Asked(n, total) = {n} /\ {n} # {}
    BY <1>0, <1>1 DEF Page!Asked
  <2>2. Page!getBlock(k, n, total) = g
    BY <2>1, Zenon DEF Page!getBlock
  <2>3. current_token \in Entity \cup {Null} /\ {n} \in SUBSET (0 .. MaxHeight - 1)
    BY <1>0, <1>1 DEF Page!TypeOK
  <2>4. g \in Progress
    BY <2>3 DEF Progress
  <2>5. g.at = "blocks" /\ g.asked = {n} /\ g.total = total /\ g.as = k.as /\ g.shown = k.shown
    BY DEF Progress
  <2>6. Consistent(k) => Consistent(g)
    BY <2>5 DEF Consistent
  <2> HIDE DEF g
  <2>7. ~ n >= total
    BY <1>0, <1>1
  <2> QED BY <2>2, <2>4, <2>5, <2>6, <2>7
<1>2. CASE n >= total
  <2> DEFINE g == [Page!Idle EXCEPT !.at = "done", !.total = total]
  <2>1. Page!Asked(n, total) = {}
    BY <1>2 DEF Page!Asked
  <2>2. Page!getBlock(k, n, total) = g
    BY <2>1, Zenon DEF Page!getBlock
  <2>3. g \in Progress /\ g.at = "done" /\ g.total = total /\ g.as = g.shown
    BY DEF Progress, Page!Idle
  <2>4. Consistent(g)
    BY <2>3 DEF Consistent
  <2> HIDE DEF g
  <2>5. ~ n < total
    BY <1>0, <1>2
  <2> QED BY <2>2, <2>3, <2>4, <2>5
<1> QED BY <1>0, <1>1, <1>2

(* A click that has been answered, refused or made anew is consistent.     *)
LEMMA ClickStates ==
  ASSUME PageIInv, NEW c \in Page!Click
  PROVE  /\ click[c] \in Progress /\ Consistent(click[c])
         /\ [Page!Idle EXCEPT !.at = "dead"] \in Progress
         /\ Consistent([Page!Idle EXCEPT !.at = "dead"])
         /\ [Page!Idle EXCEPT !.at = "height", !.by = current_token] \in Progress
         /\ Consistent([Page!Idle EXCEPT !.at = "height", !.by = current_token])
<1>0. MaxHeight \in Nat
  BY PageAssumption DEF Page!WebUIAssumption
<1>1. click[c] \in Progress /\ Consistent(click[c])
  BY DEF PageIInv, Page!TypeOK, Progress, SubmittedAsShown, Page!SubmittedAsShown, Consistent
<1>2. current_token \in Entity \cup {Null}
  BY DEF PageIInv, Page!TypeOK
<1>3. /\ [Page!Idle EXCEPT !.at = "dead"] \in Progress
      /\ [Page!Idle EXCEPT !.at = "height", !.by = current_token] \in Progress
  <2>1. Page!Idle \in Progress
    BY <1>0 DEF Progress, Page!Idle
  <2> QED BY <1>2, <2>1 DEF Progress
<1> QED BY <1>1, <1>3 DEF Consistent, Page!Idle

LEMMA PageStep == PageIInv /\ [Page!Next]_(Page!vars) => PageIInv'
<1> SUFFICES ASSUME PageIInv, [Page!Next]_(Page!vars) PROVE PageIInv'
  OBVIOUS
<1>0. /\ MaxFailures \in Nat /\ MaxHeight \in Nat /\ MaxHeight >= 2
      /\ Picks \subseteq Entity \cup {Placeholder}
  BY PageAssumption DEF Page!WebUIAssumption
<1>1. blockchain \in Seq(Entries) /\ <<>> \in Seq(Entries)
  BY DEF PageIInv, Page!TypeOK, Entries
<1>2. failures \in 0 .. MaxFailures /\ latest \in Page!Click \cup {Null}
  BY DEF PageIInv, Page!TypeOK
<1>3. Page!Fails => failures' \in 0 .. MaxFailures
  BY <1>0, <1>2 DEF Page!Fails
<1>4. ASSUME NEW e \in Entity, Page!Registered(e) \/ Page!RegistrationError(e)
      PROVE  PageIInv'
  <2>1. Page!TypeOK'
    BY <1>3, <1>4 DEF PageIInv, Page!TypeOK, Page!Registered, Page!RegistrationError
  <2>2. Shows'
    BY <1>4 DEF PageIInv, Shows, Page!Registered, Page!RegistrationError
  <2>3. SubmittedAsShown'
    BY <1>4 DEF PageIInv, SubmittedAsShown, Page!SubmittedAsShown, Page!Registered,
                Page!RegistrationError
  <2> QED BY <2>1, <2>2, <2>3 DEF PageIInv
<1>5. ASSUME NEW e \in Picks, Page!loginUser(e)
      PROVE  PageIInv'
  <2>1. Page!TypeOK'
    BY <1>0, <1>5 DEF PageIInv, Page!TypeOK, Page!loginUser
  <2>2. Shows'
    BY <1>5 DEF PageIInv, Shows, Page!loginUser
  <2>3. SubmittedAsShown'
    BY <1>5 DEF PageIInv, SubmittedAsShown, Page!SubmittedAsShown, Page!loginUser
  <2> QED BY <2>1, <2>2, <2>3 DEF PageIInv
<1>6. ASSUME NEW c \in Page!Click, Page!home(c) \/ Page!Submitted(c)
      PROVE  PageIInv'
  <2> DEFINE k == [Page!Idle EXCEPT !.at = "height", !.by = current_token]
  <2>1. ClickMoves(c, k) /\ blockchain' = <<>> /\ latest' = c /\ UNCHANGED failures
    BY <1>6 DEF Page!home, Page!Submitted, Page!refreshBlockchain, Page!user, ClickMoves
  <2>2. k \in Progress /\ Consistent(k)
    BY ClickStates
  <2> HIDE DEF k
  <2> QED BY <1>1, <1>2, <2>1, <2>2, ClickKeeps
<1>7. ASSUME NEW c \in Page!Click, Page!submit(c)
      PROVE  PageIInv'
  <2> DEFINE k == [click[c] EXCEPT !.at = "submitted", !.by = current_token,
                                   !.as = current_token, !.shown = credentials]
  <2>1. ClickMoves(c, k) /\ UNCHANGED <<blockchain, latest, failures>>
    BY <1>7 DEF Page!submit, Page!user, ClickMoves
  <2>2. click[c] \in Progress
    BY ClickStates
  <2>3. /\ current_token \in Entity \cup {Null}
        /\ credentials \in Entity \cup {Placeholder, Null}
    BY DEF PageIInv, Page!TypeOK
  <2>4. k \in Progress /\ k.as = current_token /\ k.shown = credentials
    BY <2>2, <2>3 DEF Progress
  <2>5. Consistent(k)
    BY <2>4 DEF PageIInv, Shows, Consistent
  <2> HIDE DEF k
  <2> QED BY <1>1, <1>2, <2>1, <2>4, <2>5, ClickKeeps
<1>8. ASSUME NEW c \in Page!Click, Page!Refused(c)
      PROVE  PageIInv'
  <2> DEFINE k == [Page!Idle EXCEPT !.at = "dead"]
  <2>1. /\ ClickMoves(c, k) /\ UNCHANGED <<blockchain, latest>>
        /\ failures' \in 0 .. MaxFailures
    BY <1>2, <1>3, <1>8 DEF Page!Refused, Page!user, ClickMoves
  <2>2. k \in Progress /\ Consistent(k)
    BY ClickStates
  <2> HIDE DEF k
  <2> QED BY <1>1, <1>2, <2>1, <2>2, ClickKeeps
<1>9. ASSUME NEW c \in Page!Click, Page!HeightAnswered(c)
      PROVE  PageIInv'
  <2> DEFINE k == Page!getBlock(click[c], 0, height)
  <2>1. ClickMoves(c, k) /\ UNCHANGED <<blockchain, latest, failures>>
    BY <1>9 DEF Page!HeightAnswered, Page!user, ClickMoves, PageIInv, Page!TypeOK
  <2>2. height \in 0 .. MaxHeight
    BY <1>0 DEF PageIInv, Page!TypeOK
  <2>3. k \in Progress /\ Consistent(k)
    BY <2>2, ClickStates, NextBlock DEF PageIInv
  <2> HIDE DEF k
  <2> QED BY <1>1, <1>2, <2>1, <2>3, ClickKeeps
<1>10. ASSUME NEW c \in Page!Click, NEW n \in 0 .. MaxHeight - 1, Page!BlockAnswered(c, n)
       PROVE  PageIInv'
  <2> DEFINE k == Page!getBlock(click[c], n + 1, click[c].total)
  <2>1. /\ ClickMoves(c, k) /\ UNCHANGED <<latest, failures>>
        /\ blockchain' = Append(blockchain, Page!Listed(c, n))
    BY <1>10 DEF Page!BlockAnswered, Page!user, ClickMoves, PageIInv, Page!TypeOK
  <2>2. blockchain' \in Seq(Entries)
    <3>1. Page!Listed(c, n) \in Entries
      BY DEF Entries, Page!Listed
    <3> QED BY <1>1, <2>1, <3>1
  <2>3. click[c] \in Progress /\ click[c].total \in 0 .. MaxHeight /\ n + 1 \in Nat
    BY ClickStates, <1>0 DEF Progress
  <2>4. k \in Progress /\ Consistent(k)
    BY <2>3, ClickStates, NextBlock DEF PageIInv
  <2> HIDE DEF k
  <2> QED BY <1>1, <1>2, <2>1, <2>2, <2>4, ClickKeeps
<1>11. CASE Page!BlockAdded
  <2>1. Page!TypeOK'
    BY <1>0, <1>11 DEF PageIInv, Page!TypeOK, Page!BlockAdded, Page!user
  <2> QED BY <1>11, <2>1 DEF PageIInv, Page!BlockAdded, Page!user, Shows,
                             SubmittedAsShown, Page!SubmittedAsShown
<1>12. CASE UNCHANGED Page!vars
  <2>1. Page!TypeOK'
    BY <1>12 DEF PageIInv, Page!TypeOK, Page!vars
  <2> QED BY <1>12, <2>1 DEF PageIInv, Page!vars, Shows,
                             SubmittedAsShown, Page!SubmittedAsShown
<1> QED BY <1>4, <1>5, <1>6, <1>7, <1>8, <1>9, <1>10, <1>11, <1>12 DEF Page!Next

-----------------------------------------------------------------------------
Ascending(list) ==
  \A i, j \in 1 .. Len(list) : i < j /\ list[i].by = list[j].by => list[i].number < list[j].number

(* Of click c the list has blocks below n only; it has all of those.       *)
Below(list, c, n) == \A i \in 1 .. Len(list) : list[i].by = c => list[i].number < n
HasAll(list, c, n) ==
  \A j \in 0 .. n - 1 : \E i \in 1 .. Len(list) : list[i] = [by |-> c, number |-> j]

(* What the list and the last refresh say of a click that has come to k: a *)
(* click has listed the blocks below the one it asks for, and if no later  *)
(* one has emptied the list they are all there.                            *)
Fits(c, k, list, last) ==
  /\ k.at \in {"idle", "submitted", "height"} => Below(list, c, 0)
  /\ k.at = "blocks" => \A n \in k.asked :
       n < k.total /\ Below(list, c, n) /\ (last = c => HasAll(list, c, n))
  /\ k.at = "done" /\ last = c => HasAll(list, c, k.total)

OrderIInv ==
  /\ PageIInv /\ Ascending(blockchain)
  /\ \A c \in Page!Click : Fits(c, click[c], blockchain, latest)

LEMMA OrderInit == Page!Init => OrderIInv
<1> SUFFICES ASSUME Page!Init PROVE OrderIInv
  OBVIOUS
<1>1. PageIInv
  BY PageInit
<1>2. blockchain = <<>> /\ \A c \in Page!Click : click[c].at = "idle"
  BY DEF Page!Init, Page!Idle
<1> QED BY <1>1, <1>2 DEF OrderIInv, Ascending, Fits, Below

(* The list is emptied for another click: nothing of this one is left.     *)
LEMMA FitsEmptied ==
  ASSUME NEW c, NEW b, b # c, NEW k, NEW list, NEW last, NEW h,
         k.at = "blocks" => \A n \in k.asked : n < k.total,
         Fits(c, k, list, last)
  PROVE  Fits(c, k, <<>>, b)
BY DEF Fits, Below

(* The list grows by a block of another click.                             *)
LEMMA FitsAppended ==
  ASSUME NEW list \in Seq(Entries), NEW e \in Entries, NEW c, NEW k, NEW last,
         e.by # c, Fits(c, k, list, last)
  PROVE  Fits(c, k, Append(list, e), last)
<1> DEFINE more == Append(list, e)
<1>1. /\ Len(more) = Len(list) + 1 /\ more[Len(list) + 1] = e
      /\ \A i \in 1 .. Len(list) : more[i] = list[i]
      /\ Len(list) \in Nat
  OBVIOUS
<1> HIDE DEF more
<1>2. ASSUME NEW n, Below(list, c, n) PROVE Below(more, c, n)
  BY <1>1, <1>2 DEF Below
<1>3. ASSUME NEW n, HasAll(list, c, n) PROVE HasAll(more, c, n)
  BY <1>1, <1>3 DEF HasAll
<1> QED BY <1>2, <1>3 DEF Fits, more

(* The list grows by the block that was asked for.                         *)
LEMMA NextListed ==
  ASSUME NEW list \in Seq(Entries), NEW c \in Page!Click, NEW n \in 0 .. MaxHeight - 1,
         Ascending(list), Below(list, c, n)
  PROVE  /\ Ascending(Append(list, [by |-> c, number |-> n]))
         /\ Below(Append(list, [by |-> c, number |-> n]), c, n + 1)
         /\ HasAll(list, c, n) => HasAll(Append(list, [by |-> c, number |-> n]), c, n + 1)
<1> DEFINE e == [by |-> c, number |-> n]
           more == Append(list, e)
<1>0. MaxHeight \in Nat /\ n \in Nat
  BY PageAssumption DEF Page!WebUIAssumption
<1>1. /\ e \in Entries /\ e.by = c /\ e.number = n
      /\ \A i \in 1 .. Len(list) : list[i].number \in Nat
  <2>1. e \in Entries /\ e.by = c /\ e.number = n
    BY DEF Entries
  <2>2. ASSUME NEW i \in 1 .. Len(list) PROVE list[i].number \in Nat
    <3>1. list[i] \in Entries
      OBVIOUS
    <3> QED BY <1>0, <3>1 DEF Entries
  <2> QED BY <2>1, <2>2
<1>2. /\ Len(more) = Len(list) + 1 /\ more[Len(list) + 1] = e
      /\ \A i \in 1 .. Len(list) : more[i] = list[i]
      /\ Len(list) \in Nat
  BY <1>1
<1>3. e = [by |-> c, number |-> n]
  OBVIOUS
<1> HIDE DEF more, e
<1>4. Ascending(more)
  <2> SUFFICES ASSUME NEW i \in 1 .. Len(more), NEW j \in 1 .. Len(more), i < j,
                      more[i].by = more[j].by
               PROVE  more[i].number < more[j].number
    BY DEF Ascending
  <2>1. i \in 1 .. Len(list)
    BY <1>2
  <2>2. CASE j \in 1 .. Len(list)
    BY <1>2, <2>1, <2>2 DEF Ascending
  <2>3. CASE j \notin 1 .. Len(list)
    <3>1. more[j] = e /\ more[i] = list[i]
      BY <1>2, <2>1, <2>3
    <3> QED BY <1>1, <2>1, <3>1 DEF Below
  <2> QED BY <2>2, <2>3
<1>5. Below(more, c, n + 1)
  BY <1>0, <1>1, <1>2 DEF Below
<1>6. ASSUME HasAll(list, c, n) PROVE HasAll(more, c, n + 1)
  <2>1. ASSUME NEW j \in 0 .. (n + 1) - 1
        PROVE  \E i \in 1 .. Len(more) : more[i] = [by |-> c, number |-> j]
    <3>1. CASE j = n
      <4>1. Len(list) + 1 \in 1 .. Len(more)
        BY <1>2
      <4> QED BY <1>2, <1>3, <3>1, <4>1
    <3>2. CASE j # n
      <4>1. j \in 0 .. n - 1
        BY <1>0, <3>2
      <4>2. PICK i \in 1 .. Len(list) : list[i] = [by |-> c, number |-> j]
        BY <1>6, <4>1 DEF HasAll
      <4> QED BY <1>2, <4>2
    <3> QED BY <3>1, <3>2
  <2> QED BY <2>1 DEF HasAll
<1> QED BY <1>4, <1>5, <1>6 DEF more, e

(* One click moves on and the list stays, is emptied for it or grows by a  *)
(* block of it: what the list says of the others stays true.               *)
LEMMA OthersFit ==
  ASSUME OrderIInv, PageIInv', NEW c \in Page!Click, NEW k,
         click' = [click EXCEPT ![c] = k],
         \/ blockchain' = blockchain /\ latest' = latest
         \/ blockchain' = <<>> /\ latest' = c
         \/ /\ latest' = latest
            /\ \E e \in Entries : e.by = c /\ blockchain' = Append(blockchain, e),
         Ascending(blockchain'), Fits(c, k, blockchain', latest')
  PROVE  OrderIInv'
<1>1. /\ \A b \in Page!Click \ {c} : click'[b] = click[b]
      /\ click'[c] = k /\ blockchain \in Seq(Entries)
  BY DEF OrderIInv, PageIInv, Page!TypeOK, Entries
<1>2. ASSUME NEW b \in Page!Click \ {c}
      PROVE  Fits(b, click[b], blockchain', latest')
  <2> DEFINE q == click[b]
             list == blockchain
             last == latest
  <2>1. Fits(b, q, list, last) /\ list \in Seq(Entries)
    BY <1>1 DEF OrderIInv
  <2>2. q.at = "blocks" => \A n \in q.asked : n < q.total
    BY <2>1 DEF Fits
  <2> HIDE DEF q, list, last
  <2>3. Fits(b, q, <<>>, c)
    BY <2>1, <2>2, FitsEmptied
  <2>4. ASSUME NEW e \in Entries, e.by = c PROVE Fits(b, q, Append(list, e), last)
    BY <2>1, <2>4, FitsAppended
  <2> QED BY <2>1, <2>3, <2>4 DEF q, list, last
<1>3. ASSUME NEW b \in Page!Click PROVE Fits(b, click'[b], blockchain', latest')
  BY <1>1, <1>2
<1> QED BY <1>3 DEF OrderIInv

LEMMA OrderStep == OrderIInv /\ [Page!Next]_(Page!vars) => OrderIInv'
<1> SUFFICES ASSUME OrderIInv, [Page!Next]_(Page!vars) PROVE OrderIInv'
  OBVIOUS
<1>0. PageIInv /\ PageIInv'
  BY PageStep DEF OrderIInv
<1>1. /\ blockchain \in Seq(Entries) /\ click \in [Page!Click -> Progress]
      /\ height \in Nat /\ height >= 2 /\ Ascending(blockchain)
      /\ \A c \in Page!Click : Fits(c, click[c], blockchain, latest)
  BY <1>0, PageAssumption DEF OrderIInv, PageIInv, Page!TypeOK, Progress, Entries,
                              Page!WebUIAssumption
<1>2. ASSUME UNCHANGED <<blockchain, click, latest>>
      PROVE  OrderIInv'
  BY <1>0, <1>2 DEF OrderIInv
<1>3. ASSUME NEW e \in Entity, Page!Registered(e) \/ Page!RegistrationError(e)
      PROVE  OrderIInv'
  BY <1>2, <1>3 DEF Page!Registered, Page!RegistrationError
<1>4. ASSUME NEW e \in Picks, Page!loginUser(e)
      PROVE  OrderIInv'
  BY <1>2, <1>4 DEF Page!loginUser
<1>5. ASSUME NEW c \in Page!Click, Page!home(c) \/ Page!Submitted(c)
      PROVE  OrderIInv'
  <2> DEFINE k == [Page!Idle EXCEPT !.at = "height", !.by = current_token]
  <2>1. click' = [click EXCEPT ![c] = k] /\ blockchain' = <<>> /\ latest' = c
    BY <1>5 DEF Page!home, Page!Submitted, Page!refreshBlockchain
  <2>2. k.at = "height"
    BY DEF Page!Idle
  <2> HIDE DEF k
  <2>3. Ascending(blockchain') /\ Fits(c, k, blockchain', latest')
    BY <2>1, <2>2 DEF Ascending, Fits, Below
  <2> QED BY <1>0, <2>1, <2>3, OthersFit
<1>6. ASSUME NEW c \in Page!Click, Page!submit(c)
      PROVE  OrderIInv'
  <2> DEFINE k == [click[c] EXCEPT !.at = "submitted", !.by = current_token,
                                   !.as = current_token, !.shown = credentials]
  <2>1. /\ click' = [click EXCEPT ![c] = k] /\ UNCHANGED <<blockchain, latest>>
        /\ click[c].at = "idle"
    BY <1>6, <1>1 DEF Page!submit, Page!Free
  <2>2. k.at = "submitted"
    BY <1>1 DEF Progress
  <2> HIDE DEF k
  <2>3. Fits(c, k, blockchain, latest)
    BY <1>1, <2>1, <2>2 DEF Fits
  <2> QED BY <1>0, <1>1, <2>1, <2>3, OthersFit
<1>7. ASSUME NEW c \in Page!Click, Page!Refused(c)
      PROVE  OrderIInv'
  <2> DEFINE k == [Page!Idle EXCEPT !.at = "dead"]
  <2>1. click' = [click EXCEPT ![c] = k] /\ UNCHANGED <<blockchain, latest>>
    BY <1>7 DEF Page!Refused
  <2>2. k.at = "dead"
    BY DEF Page!Idle
  <2> HIDE DEF k
  <2>3. Fits(c, k, blockchain, latest)
    BY <2>2 DEF Fits
  <2> QED BY <1>0, <1>1, <2>1, <2>3, OthersFit
<1>8. ASSUME NEW c \in Page!Click, Page!HeightAnswered(c)
      PROVE  OrderIInv'
  <2> DEFINE k == Page!getBlock(click[c], 0, height)
  <2>1. /\ click' = [click EXCEPT ![c] = k] /\ UNCHANGED <<blockchain, latest>>
        /\ click[c].at = "height"
    BY <1>8, <1>1 DEF Page!HeightAnswered
  <2>2. height \in 0 .. MaxHeight /\ click[c] \in Progress
    BY <1>0, <1>1 DEF PageIInv, Page!TypeOK
  <2>3. k.at = "blocks" /\ k.asked = {0} /\ k.total = height
    <3>1. Page!TypeOK /\ 0 \in Nat /\ 0 < height
      BY <1>0, <1>1 DEF PageIInv
    <3> HIDE DEF k
    <3>2. 0 < height => k.at = "blocks" /\ k.asked = {0} /\ k.total = height
      BY <2>2, <3>1, NextBlock DEF k
    <3> QED BY <3>1, <3>2
  <2> HIDE DEF k
  <2>4. Fits(c, k, blockchain, latest)
    BY <1>1, <2>1, <2>3 DEF Fits, HasAll
  <2> QED BY <1>0, <1>1, <2>1, <2>4, OthersFit
<1>9. ASSUME NEW c \in Page!Click, NEW n \in 0 .. MaxHeight - 1, Page!BlockAnswered(c, n)
      PROVE  OrderIInv'
  <2> DEFINE total == click[c].total
             k == Page!getBlock(click[c], n + 1, total)
             e == [by |-> c, number |-> n]
  <2>1. /\ click' = [click EXCEPT ![c] = k] /\ UNCHANGED latest
        /\ blockchain' = Append(blockchain, e) /\ click[c].at = "blocks"
        /\ n \in click[c].asked
    BY <1>9, <1>1 DEF Page!BlockAnswered, Page!Listed
  <2>2. n < total /\ Below(blockchain, c, n) /\ (latest = c => HasAll(blockchain, c, n))
    BY <1>1, <2>1 DEF Fits
  <2>3. click[c] \in Progress /\ total \in 0 .. MaxHeight /\ total \in Nat /\ n \in Nat
    BY <1>1, PageAssumption DEF Progress, Page!WebUIAssumption
  <2> HIDE DEF total
  <2>4. /\ n + 1 < total => k.at = "blocks" /\ k.asked = {n + 1} /\ k.total = total
        /\ n + 1 >= total => k.at = "done" /\ k.total = total
    <3>1. n + 1 \in Nat /\ Page!TypeOK
      BY <1>0, <2>3 DEF PageIInv
    <3> HIDE DEF e
    <3> QED BY <2>3, <3>1, NextBlock
  <2>5. n + 1 < total \/ (n + 1 >= total /\ total = n + 1)
    BY <2>2, <2>3
  <2>6. /\ Ascending(blockchain') /\ Below(blockchain', c, n + 1)
        /\ latest = c => HasAll(blockchain', c, n + 1)
    BY <1>1, <2>1, <2>2, NextListed
  <2>7. e \in Entries /\ e.by = c
    BY DEF Entries
  <2> HIDE DEF k, e
  <2>8. Fits(c, k, blockchain', latest')
    BY <2>1, <2>4, <2>5, <2>6 DEF Fits
  <2> QED BY <1>0, <2>1, <2>6, <2>7, <2>8, OthersFit
<1>10. CASE Page!BlockAdded
  BY <1>2, <1>10 DEF Page!BlockAdded
<1>11. CASE UNCHANGED Page!vars
  BY <1>2, <1>11 DEF Page!vars
<1> QED BY <1>3, <1>4, <1>5, <1>6, <1>7, <1>8, <1>9, <1>10, <1>11 DEF Page!Next

-----------------------------------------------------------------------------
(* Side by side, each keeps its invariant.                                 *)
LEMMA Invariance == ClientsSpec => [](ServiceIInv /\ PageIInv)
<1>1. ClientsInit => ServiceIInv /\ PageIInv
  BY ServiceInit, PageInit DEF ClientsInit
<1>2. ServiceIInv /\ PageIInv /\ [ClientsNext]_<<vars, pageVars>> => (ServiceIInv /\ PageIInv)'
  <2> SUFFICES ASSUME ServiceIInv, PageIInv, [ClientsNext]_<<vars, pageVars>>
               PROVE  ServiceIInv' /\ PageIInv'
    OBVIOUS
  <2>1. [Next]_vars /\ [Page!Next]_(Page!vars)
    BY DEF ClientsNext, pageVars, Page!vars
  <2> QED BY <2>1, ServiceStep, PageStep
<1> QED BY <1>1, <1>2, PTL DEF ClientsSpec

(* The types of both clients, the ledger's contract among them, which      *)
(* names two keys once it is requested.                                    *)
THEOREM TypeCorrect == ClientsSpec => []ClientsTypeOK
<1>1. ServiceIInv /\ PageIInv => ClientsTypeOK
  BY DEF ServiceIInv, PageIInv, ClientsTypeOK
<1> QED BY <1>1, Invariance, PTL

(* The hub connects to a user's service only for a contract that the       *)
(* chaincode accepted a download_request for, however old or wrong the     *)
(* gateway's answer is (senderService.py lines 55-80).                     *)
THEOREM OnlyRequestedIsSent == ClientsSpec => []TransferNeedsRequest
<1>1. ServiceIInv => TransferNeedsRequest
  <2> SUFFICES ASSUME ServiceIInv, NEW d \in Download, at[d] \in Reached
               PROVE  /\ view[d] \in past /\ view[d].status # "init"
                      /\ {view[d].owner, view[d].user} \subseteq Key
    BY DEF TransferNeedsRequest, Reached
  <2>1. view[d] \in past /\ ReadAsRequest(view[d])
    BY DEF ServiceIInv, Viewed
  <2>2. Requested(view[d])
    BY <2>1 DEF ServiceIInv, PastRequested
  <2> QED BY <2>1, <2>2 DEF Requested
<1> QED BY <1>1, Invariance, PTL

(* However many requests come and whenever the user stops the service,     *)
(* no more of them are told that the transfer is complete than the service *)
(* was started (senderService.py lines 24-25, 147-160).                    *)
THEOREM StartsAreCounted == ClientsSpec => []OneServedPerStart
<1>1. ServiceIInv => OneServedPerStart
  BY DEF ServiceIInv, Counted, Served, Listening, OneServedPerStart
<1> QED BY <1>1, Invariance, PTL

(* What the page submits, it submits in the name of the user it shows, or  *)
(* of the last one it showed before the placeholder was chosen             *)
(* (webUI/js/app.js lines 34-52, 64-74, 94-102).                           *)
THEOREM SubmissionsAreShown == ClientsSpec => []SubmittedAsShown
<1>1. PageIInv => SubmittedAsShown
  BY DEF PageIInv
<1> QED BY <1>1, Invariance, PTL

(* Whatever the number of refreshes that fill the one list at once, each   *)
(* lists its blocks in ascending order and none twice, and when the last   *)
(* one is done the list has every block there was when it asked            *)
(* (webUI/js/app.js lines 172-287).                                        *)
THEOREM RefreshesListAll == ClientsSpec => []RefreshListsAll
<1>1. ClientsInit => OrderIInv
  BY OrderInit DEF ClientsInit
<1>2. OrderIInv /\ [ClientsNext]_<<vars, pageVars>> => OrderIInv'
  <2> SUFFICES ASSUME OrderIInv, [ClientsNext]_<<vars, pageVars>>
               PROVE  OrderIInv'
    OBVIOUS
  <2>1. [Page!Next]_(Page!vars)
    BY DEF ClientsNext, pageVars, Page!vars
  <2> QED BY <2>1, OrderStep
<1>3. OrderIInv => RefreshListsAll
  <2> SUFFICES ASSUME OrderIInv PROVE RefreshListsAll
    OBVIOUS
  <2>1. blockchain \in Seq(Entries) /\ latest \in Page!Click \cup {Null}
    BY DEF OrderIInv, PageIInv, Page!TypeOK, Entries
  <2>2. DOMAIN blockchain = 1 .. Len(blockchain)
    BY <2>1
  <2>3. Ascending(blockchain)
    BY DEF OrderIInv
  <2>4. latest # Null /\ click[latest].at = "done" =>
          HasAll(blockchain, latest, click[latest].total)
    BY <2>1 DEF OrderIInv, Fits
  <2> QED BY <2>2, <2>3, <2>4 DEF RefreshListsAll, Page!RefreshListsAll, Page!Listed,
                                  Ascending, HasAll
<1> QED BY <1>1, <1>2, <1>3, PTL DEF ClientsSpec
=============================================================================
