------------------------------ MODULE Clients ------------------------------
(***************************************************************************)
(* The two clients of the gateway, side by side: the hub's service and the *)
(* page.  They share nothing but what the gateway answers them, which is   *)
(* any answer that it could give.                                          *)
(***************************************************************************)
EXTENDS SenderService

CONSTANTS Entity, Placeholder, Picks, MaxClicks, Together, MaxHeight, MaxFailures

VARIABLES
  current_token, credentials, registered_users, registering,
  blockchain, height, click, latest, failures

pageVars == <<current_token, credentials, registered_users, registering,
              blockchain, height, click, latest, failures>>

Page == INSTANCE WebUI

ASSUME PageAssumption == Page!WebUIAssumption

ClientsInit == Init /\ Page!Init

ClientsNext ==
  \/ Next /\ UNCHANGED pageVars
  \/ Page!Next /\ UNCHANGED vars

ClientsSpec == ClientsInit /\ [][ClientsNext]_<<vars, pageVars>> /\ Fairness

-----------------------------------------------------------------------------
ClientsTypeOK == TypeOK /\ Page!TypeOK

(* See WebUI.                                                              *)
SubmittedAsShown == Page!SubmittedAsShown

(* See WebUI.                                                              *)
RefreshListsAll == Page!RefreshListsAll

(* See WebUI.                                                              *)
BlocksInOrder == Page!BlocksInOrder
=============================================================================
