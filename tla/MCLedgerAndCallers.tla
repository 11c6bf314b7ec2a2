------------------------- MODULE MCLedgerAndCallers -------------------------
(***************************************************************************)
(* The contract on the ledger; and the requests of two callers who share   *)
(* the REST server's client of one organisation, one of whom was enrolled  *)
(* before the server started.  In whose name a request comes to the ledger *)
(* is nothing the chaincode looks at; therefore one of the two is at its   *)
(* beginning while the other goes on.                                      *)
(***************************************************************************)
EXTENDS MCApdlContract, UserContext

CONSTANT other

OneUser == {usr}
TwoUsers == {usr, other}
AllKinds == {"users", "invoke", "query", "list", "install"}

ApartNext ==
  \/ ContextInit /\ Next /\ UNCHANGED contextVars
  \/ Init /\ ContextNext /\ UNCHANGED vars

ApartInit == Init /\ ContextInit

ApartSpec == ApartInit /\ [][ApartNext]_<<vars, contextVars>> /\ ContextFairness
=============================================================================
