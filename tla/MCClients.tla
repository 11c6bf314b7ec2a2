----------------------------- MODULE MCClients -----------------------------
(***************************************************************************)
(* Two requests ask the hub's service for a download of one user's         *)
(* contract, and a page with two users.  The clients share nothing;        *)
(* therefore one is at its beginning while the other goes on.              *)
(***************************************************************************)
EXTENDS Clients

CONSTANTS usr, m, d1, d2, p1, e1, e2

MCKey == {usr}
MCMessage == {m}
SomeAmounts == {-1, 2}
OneDate == {1}
TwoDownloads == {d1, d2}
OnePenalize == {p1}
TheEntities == {e1, e2}
EntitiesAndPlaceholder == {e1, e2, Placeholder}

ApartNext ==
  \/ Page!Init /\ Next /\ UNCHANGED pageVars
  \/ Init /\ Page!Next /\ UNCHANGED vars

ApartSpec == ClientsInit /\ [][ApartNext]_<<vars, pageVars>> /\ Fairness
=============================================================================
