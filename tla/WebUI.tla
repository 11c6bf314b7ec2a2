-------------------------------- MODULE WebUI --------------------------------
(***************************************************************************)
(* The page that registers users with the gateway, lets its user choose    *)
(* in whose name to act, submits transactions and lists the blocks         *)
(* (webUI/js/app.js).  What the page does in one event is one step;        *)
(* answers come in any order.                                              *)
(*                                                                         *)
(* A role and an entity are one entity here, a token is its holder.        *)
(* registered_user is true when there is a current token.                  *)
(***************************************************************************)
EXTENDS Integers, Sequences, FiniteSets

CONSTANTS
  Entity,      \* the users that the page registers
  Placeholder, \* "-- select entity here --"
  Null,
  Picks,       \* what is chosen in the login form
  MaxClicks,   \* bound of the clicks that submit or refresh
  Together,    \* how many of them are in progress at once
  MaxHeight,   \* bound of the chain's height
  MaxFailures  \* bound of the answers that are errors

Click == 1 .. MaxClicks  \* numbered as they are made

WebUIAssumption ==
  /\ Placeholder \notin Entity /\ Null \notin Entity \cup {Placeholder} \cup Click
  /\ Picks \subseteq Entity \cup {Placeholder}
  /\ Together \in Nat \ {0} /\ MaxFailures \in Nat /\ MaxClicks \in Nat
  /\ MaxHeight \in Nat /\ MaxHeight >= 2

VARIABLES
  current_token,
  credentials,       \* the fields of class userCredentials
  registered_users,
  registering,       \* registrations that are not answered
  blockchain,        \* what blockchainDiv lists: a block's number and whose answer it was
  height,            \* of the chain at the peer
  click,             \* what has come of each click
  latest,            \* the click that emptied the list last
  failures

vars == <<current_token, credentials, registered_users, registering,
          blockchain, height, click, latest, failures>>

user == <<current_token, credentials, registered_users, registering>>

(* as, shown: whose token a transaction was submitted with, and whose      *)
(* credentials were shown; by: the token of the request it waits for;      *)
(* asked: the blocks it has asked for.                                     *)
Idle == [at |-> "idle", by |-> Null, as |-> Null, shown |-> Null, total |-> 0, asked |-> {}]

Init ==
  /\ current_token = Null /\ credentials = Null
  /\ registered_users = {} /\ registering = Entity
  /\ blockchain = <<>> /\ height = 2
  /\ click = [c \in Click |-> Idle]
  /\ latest = Null /\ failures = 0

Fails == failures < MaxFailures /\ failures' = failures + 1

InProgress == {c \in Click : click[c].at \in {"submitted", "height", "blocks"}}
Free(c) ==
  /\ click[c].at = "idle" /\ \A b \in 1 .. c - 1 : click[b].at # "idle"
  /\ Cardinality(InProgress) < Together

-----------------------------------------------------------------------------
(* Mutants of Registered: the token is not kept with the user; the fields  *)
(* are not filled.                                                         *)
RegisteredUnlisted(e) ==
  /\ e \in registering /\ registering' = registering \ {e}
  /\ current_token' = e /\ credentials' = e
  /\ UNCHANGED <<registered_users, blockchain, height, click, latest, failures>>

RegisteredUnseen(e) ==
  /\ e \in registering /\ registering' = registering \ {e}
  /\ current_token' = e
  /\ registered_users' = registered_users \cup {e}
  /\ UNCHANGED <<credentials, blockchain, height, click, latest, failures>>

(* A registration is answered, and the page switches to that user.         *)
Registered(e) ==
  /\ e \in registering /\ registering' = registering \ {e}
  /\ current_token' = e /\ credentials' = e
  /\ registered_users' = registered_users \cup {e}
  /\ UNCHANGED <<blockchain, height, click, latest, failures>>

RegistrationError(e) ==
  /\ e \in registering /\ registering' = registering \ {e} /\ Fails
  /\ UNCHANGED <<current_token, credentials, registered_users,
                 blockchain, height, click, latest>>

(* The form offers the placeholder and the registered users.  The fields   *)
(* are filled whatever was chosen.                                         *)
loginUser(e) ==
  /\ e \in Picks \cap (registered_users \cup {Placeholder})
  /\ credentials' = e
  /\ current_token' = (IF e \in registered_users THEN e ELSE current_token)
  /\ UNCHANGED <<registered_users, registering, blockchain, height, click, latest, failures>>

-----------------------------------------------------------------------------
(* The list is emptied and the height asked for.                           *)
refreshBlockchain(c) ==
  /\ blockchain' = <<>> /\ latest' = c
  /\ click' = [click EXCEPT ![c] = [Idle EXCEPT !.at = "height", !.by = current_token]]

home(c) ==
  /\ Free(c) /\ refreshBlockchain(c)
  /\ UNCHANGED <<user, height, failures>>

(* downloadSoftware and submitPenalty: nothing is sent without a user.     *)
submit(c) ==
  /\ Free(c) /\ current_token # Null
  /\ click' = [click EXCEPT ![c] = [@ EXCEPT !.at = "submitted", !.by = current_token,
                                             !.as = current_token, !.shown = credentials]]
  /\ UNCHANGED <<user, blockchain, height, latest, failures>>

(* The gateway's answer, good or bad, is shown, and the list refreshed.    *)
Submitted(c) ==
  /\ click[c].at = "submitted" /\ refreshBlockchain(c)
  /\ UNCHANGED <<user, height, failures>>

(* Somebody's transaction is committed.                                    *)
BlockAdded ==
  /\ height < MaxHeight /\ height' = height + 1
  /\ UNCHANGED <<user, blockchain, click, latest, failures>>

(* A request without a token is refused, and others may be: there is no    *)
(* handler of an error, and reading one as an answer throws.               *)
Refused(c) ==
  /\ click[c].at \in {"submitted", "height", "blocks"}
  /\ \/ click[c].by = Null /\ UNCHANGED failures
     \/ Fails
  /\ click' = [click EXCEPT ![c] = [Idle EXCEPT !.at = "dead"]]
  /\ UNCHANGED <<user, blockchain, height, latest>>

-----------------------------------------------------------------------------
(* getBlock asks for a block until all are there.                          *)
Asked(n, total) == IF n >= total THEN {} ELSE {n}

getBlock(k, n, total) ==
  IF Asked(n, total) = {} THEN [Idle EXCEPT !.at = "done", !.total = total]
  ELSE [k EXCEPT !.at = "blocks", !.by = current_token, !.asked = Asked(n, total), !.total = total]

(* Mutant of HeightAnswered: a loop asks for all the blocks at once.       *)
HeightAnsweredLoop(c) ==
  /\ click[c].at = "height" /\ click[c].by # Null
  /\ click' = [click EXCEPT ![c] = [@ EXCEPT !.at = "blocks", !.asked = 0 .. height - 1,
                                             !.total = height]]
  /\ UNCHANGED <<user, blockchain, height, latest, failures>>

HeightAnswered(c) ==
  /\ click[c].at = "height" /\ click[c].by # Null
  /\ click' = [click EXCEPT ![c] = getBlock(@, 0, height)]
  /\ UNCHANGED <<user, blockchain, height, latest, failures>>

Listed(c, n) == [by |-> c, number |-> n]

(* A block is added at the end of the list and the next one asked for.     *)
BlockAnswered(c, n) ==
  /\ n \in click[c].asked /\ click[c].at = "blocks"
  /\ blockchain' = Append(blockchain, Listed(c, n))
  /\ click' = [click EXCEPT ![c] = getBlock(@, n + 1, @.total)]
  /\ UNCHANGED <<user, height, latest, failures>>

-----------------------------------------------------------------------------
Next ==
  \/ \E e \in Entity : Registered(e) \/ RegistrationError(e)
  \/ \E e \in Picks : loginUser(e)
  \/ \E c \in Click :
       \/ home(c) \/ submit(c) \/ Submitted(c) \/ Refused(c)
       \/ HeightAnswered(c) \/ \E n \in 0 .. MaxHeight - 1 : BlockAnswered(c, n)
  \/ BlockAdded

Spec == Init /\ [][Next]_vars

-----------------------------------------------------------------------------
(* The types of the variables.  Code: webUI/js/app.js:1-11, 172-287.       *)
TypeOK ==
  /\ current_token \in registered_users \cup {Null}
  /\ credentials \in Entity \cup {Placeholder, Null}
  /\ registered_users \subseteq Entity /\ registering \subseteq Entity
  /\ blockchain \in Seq([by : Click, number : 0 .. MaxHeight - 1]) /\ height \in 2 .. MaxHeight
  /\ click \in [Click ->
        [at : {"idle", "submitted", "height", "blocks", "done", "dead"},
         by : Entity \cup {Null}, as : Entity \cup {Null}, shown : Entity \cup {Placeholder, Null},
         total : 0 .. MaxHeight, asked : SUBSET (0 .. MaxHeight - 1)]]
  /\ latest \in Click \cup {Null} /\ failures \in 0 .. MaxFailures

(* A transaction is submitted with the token of the user whose credentials *)
(* the page shows, whatever the order in which the registrations and the   *)
(* logins come: "User switched to Role: ... Entity: ..." (app.js:51); but  *)
(* the placeholder in the login form shows other credentials and leaves    *)
(* the token.  Code: webUI/js/app.js:34-52, 64-74, 94-102.                 *)
SubmittedAsShown ==
  \A c \in Click : click[c].as = click[c].shown \/ click[c].shown = Placeholder

(* However many refreshes fill the one list, each adds its blocks in       *)
(* ascending order, none of them twice; and when the last one is done the  *)
(* list has all the blocks that there were when it asked for the height,   *)
(* though transactions are committed meanwhile, answers to earlier         *)
(* refreshes come late and any request may be refused.                     *)
(* Code: webUI/js/app.js:172-287.                                          *)
RefreshListsAll ==
  /\ \A i, j \in DOMAIN blockchain :
       i < j /\ blockchain[i].by = blockchain[j].by => blockchain[i].number < blockchain[j].number
  /\ latest # Null /\ click[latest].at = "done" =>
       \A n \in 0 .. click[latest].total - 1 :
         \E i \in DOMAIN blockchain : blockchain[i] = Listed(latest, n)

(* The blocks that the page lists are those from the first one on, each    *)
(* once, and when the last refresh is done as many as there were when it   *)
(* asked: getBlock is recursive "to make sure blocks get added in right    *)
(* order" (app.js:279-280).  It is not so: a second refresh empties the    *)
(* list under the first one, and then both fill it.                        *)
(* Code: webUI/js/app.js:172-287.                                          *)
BlocksInOrder ==
  /\ \A i \in DOMAIN blockchain : blockchain[i].number = i - 1
  /\ latest # Null /\ click[latest].at = "done" => Len(blockchain) = click[latest].total
=============================================================================
