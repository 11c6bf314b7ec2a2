---------------------------- MODULE UserContext ----------------------------
(***************************************************************************)
(* The REST server's one Fabric client of an organisation, and the         *)
(* requests that share it.  A request has the client forget its user       *)
(* context, looks the caller up in the state store, enrols the caller with *)
(* the help of the registrar where the store has no such user, and then    *)
(* signs with whatever context the client has (app.js, helper.js,          *)
(* query.js, the first and the last part of invoke-transaction.js, and the *)
(* fabric-client they call).  What runs between two awaits is one step.    *)
(*                                                                         *)
(* The store holds one file per user, written by one call on a file that   *)
(* the same call has emptied: until it is complete the user is not found.  *)
(* The certificate authority and the store outlive a restart.              *)
(***************************************************************************)
EXTENDS Integers, FiniteSets

CONSTANTS
  User,         \* the callers, the registrar not among them
  Earlier,      \* the callers that were enrolled before the server's last start
  Admin,        \* the registrar, users[0] of the setting "admins"
  OrgAdmin,     \* the peer administrator that chaincodes are installed as
  Kinds,        \* the kinds of requests that come
  None,
  Text,         \* an error turned into a string in place of a user
  MaxRequests,  \* bound of the requests that come
  MaxFaults     \* bound of the faults of a behaviour

Name == User \cup {Admin, OrgAdmin}
Request == 1 .. MaxRequests  \* numbered as they come

ASSUME UserContextAssumption ==
  /\ Earlier \subseteq User
  /\ Kinds \subseteq {"users", "invoke", "query", "list", "install"}
  /\ None \notin Name /\ Text \notin Name /\ None # Text
  /\ Admin \notin User /\ OrgAdmin \notin User /\ Admin # OrgAdmin
  /\ MaxRequests \in Nat /\ MaxFaults \in Nat

VARIABLES
  context,     \* client._userContext
  stored,      \* names whose file in the state store is complete
  saving,      \* whose file a request is writing
  registered,  \* users that the certificate authority knows
  req,         \* what each request has come to
  faults       \* faults so far

contextVars == <<context, stored, saving, registered, req, faults>>

Step == {"idle", "open", "load", "adminOpen", "adminLoad", "adminEnroll",
         "adminSave", "register", "enroll", "orgOpen", "orgCreate", "orgSave",
         "proposed", "sent", "done", "hung", "lost"}

(* got: what the look-up handed over; creator: in whose name the proposal  *)
(* is.                                                                     *)
Idle == [kind |-> None, user |-> None, at |-> "idle", got |-> None,
         creator |-> None, answer |-> None]

ContextInit ==
  /\ context = None
  /\ stored = (IF Earlier = {} THEN {} ELSE Earlier \cup {Admin})
  /\ saving = {}
  /\ registered = Earlier
  /\ req = [r \in Request |-> Idle]
  /\ faults = 0

(* An answer of /users that reports success carries a token for the user.  *)
HasToken(u) ==
  \/ u \in Earlier
  \/ \E r \in Request : req[r].kind = "users" /\ req[r].user = u /\ req[r].answer = "success"

At(r, step) == req[r].at = step
GoesOn(r, step) == req' = [req EXCEPT ![r].at = step]

(* A request that is over has no locals.  Of its answer, what matters is   *)
(* whether it carries a token.                                             *)
Over(q, how) == [Idle EXCEPT !.kind = q.kind, !.at = how]
Answered(q, answer) ==
  IF q.kind = "users" THEN [Over(q, "done") EXCEPT !.user = q.user, !.answer = answer]
                      ELSE Over(q, "done")

(* client.newTransactionID and what is sent with it throw without a        *)
(* context.  The error handlers answer that, but for the one of install,   *)
(* which throws again, and nobody catches that.                            *)
Signed(q, ctx) ==
  IF ctx # None THEN [q EXCEPT !.at = "proposed", !.creator = ctx]
  ELSE IF q.kind = "install" THEN [q EXCEPT !.at = "hung"]
  ELSE Answered(q, "failure")

(* A mutant of HandOver: /users answers with what it was handed.           *)
HandOverWhole(q, who, ctx) ==
  IF q.kind # "users" THEN Signed([q EXCEPT !.got = who], ctx)
                      ELSE Answered([q EXCEPT !.got = who], who)

(* The look-up has resolved with a user, a text or nothing.  /users says   *)
(* success unless reading a property of nothing throws, which nobody       *)
(* catches; the others do not look at what they got.                       *)
HandOver(q, who, ctx) ==
  IF q.kind # "users" THEN Signed([q EXCEPT !.got = who], ctx)
  ELSE IF who = None THEN [q EXCEPT !.at = "hung"]
  ELSE Answered([q EXCEPT !.got = who], "success")

-----------------------------------------------------------------------------
(* Requests arrive.  A field that is missing is answered at once.          *)
Arrives(r, kind, u, step) ==
  /\ kind \in Kinds
  /\ At(r, "idle") /\ \A q \in 1 .. r - 1 : ~ At(q, "idle")
  /\ \/ req' = [req EXCEPT ![r].kind = kind, ![r].user = u, ![r].at = step]
     \/ req' = [req EXCEPT ![r] = Over(@, "done")]
  /\ UNCHANGED <<context, stored, saving, registered, faults>>

PostUsers(r, u) == Arrives(r, "users", u, "open")
PostInvoke(r, u) == HasToken(u) /\ Arrives(r, "invoke", u, "open")
GetQuery(r, u) == HasToken(u) /\ Arrives(r, "query", u, "open")

(* The administrator of the organisation acts for whoever has a token.     *)
GetChaincodes(r, u) == HasToken(u) /\ Arrives(r, "list", None, "orgOpen")
PostChaincodes(r, u) == HasToken(u) /\ Arrives(r, "install", None, "orgOpen")

(* The directory of the store is there and becomes the client's store.     *)
(* That alone has the client forget its user context (Client.js line       *)
(* 1186), also in getOrgAdmin, which does not say so.                      *)
SetStateStore(r, from, to) ==
  /\ At(r, from)
  /\ context' = None
  /\ GoesOn(r, to)
  /\ UNCHANGED <<stored, saving, registered, faults>>

Open(r) == SetStateStore(r, "open", "load")
AdminOpen(r) == SetStateStore(r, "adminOpen", "adminLoad")
OrgOpen(r) == SetStateStore(r, "orgOpen", "orgCreate")

(* A mutant of Load: a caller that is not found is not enrolled either.    *)
LoadOnly(r) ==
  /\ At(r, "load")
  /\ LET u == IF req[r].user \in stored THEN req[r].user ELSE None IN
       /\ context' = u
       /\ req' = [req EXCEPT ![r] = HandOver(@, u, u)]
  /\ UNCHANGED <<stored, saving, registered, faults>>

(* The caller's file is read.                                              *)
Load(r) ==
  /\ At(r, "load")
  /\ LET u == req[r].user IN
       IF u \in stored
         THEN /\ context' = u
              /\ req' = [req EXCEPT ![r] = HandOver(@, u, u)]
         ELSE /\ GoesOn(r, "adminOpen")
              /\ UNCHANGED context
  /\ UNCHANGED <<stored, saving, registered, faults>>

(* Reading fails: the last handler of getRegisteredUsers makes a text of   *)
(* the error, and only /users looks at the type of what it got.            *)
LoadFails(r) ==
  /\ faults < MaxFaults /\ faults' = faults + 1
  /\ At(r, "load")
  /\ req' = [req EXCEPT ![r] = IF @.kind = "users" THEN Answered(@, "failure")
                                                   ELSE HandOver(@, Text, context)]
  /\ UNCHANGED <<context, stored, saving, registered>>

AdminLoad(r) ==
  /\ At(r, "adminLoad")
  /\ IF Admin \in stored
       THEN context' = Admin /\ GoesOn(r, "register")
       ELSE UNCHANGED context /\ GoesOn(r, "adminEnroll")
  /\ UNCHANGED <<stored, saving, registered, faults>>

(* setUserContext sets the context at once and then writes the file.       *)
SetUserContext(r, who) ==
  /\ context' = who
  /\ stored' = stored \ {who}
  /\ saving' = saving \cup {<<r, who>>}

AdminEnroll(r) ==
  /\ At(r, "adminEnroll")
  /\ SetUserContext(r, Admin)
  /\ GoesOn(r, "adminSave")
  /\ UNCHANGED <<registered, faults>>

(* A file that was being written is complete.                              *)
SaveUserToStateStore(r, who) ==
  /\ <<r, who>> \in saving
  /\ stored' = stored \cup {who}
  /\ saving' = saving \ {<<r, who>>}
  /\ UNCHANGED <<context, registered, req, faults>>

AdminSaved(r) ==
  /\ At(r, "adminSave") /\ <<r, Admin>> \notin saving
  /\ GoesOn(r, "register")
  /\ UNCHANGED <<context, stored, saving, registered, faults>>

(* No registrar: register and then setUserContext are given nothing.       *)
AdminFails(r) ==
  /\ faults < MaxFaults /\ faults' = faults + 1
  /\ \E step \in {"adminLoad", "adminEnroll"} : At(r, step)
  /\ req' = [req EXCEPT ![r] = HandOver(@, None, context)]
  /\ UNCHANGED <<context, stored, saving, registered>>

Register(r) ==
  /\ At(r, "register") /\ req[r].user \notin registered
  /\ registered' = registered \cup {req[r].user}
  /\ GoesOn(r, "enroll")
  /\ UNCHANGED <<context, stored, saving, faults>>

(* A mutant of NotRegistered: the text is handed over, and the context is  *)
(* left alone.                                                             *)
NotRegisteredText(r) ==
  /\ req' = [req EXCEPT ![r] = HandOver(@, Text, context)]
  /\ UNCHANGED <<context, stored, saving>>

(* The authority refuses a name it knows; the error becomes a text, the    *)
(* text passes the next handler, and the one after it takes the variable   *)
(* that holds the registrar for the new user.                              *)
NotRegistered(r) ==
  /\ SetUserContext(r, Admin)
  /\ req' = [req EXCEPT ![r] = HandOver(@, Admin, Admin)]

RegisterRefused(r) ==
  /\ At(r, "register") /\ req[r].user \in registered
  /\ NotRegistered(r)
  /\ UNCHANGED <<registered, faults>>

(* The authority cannot be reached, or its answer is lost.                 *)
RegisterFails(r) ==
  /\ faults < MaxFaults /\ faults' = faults + 1
  /\ At(r, "register")
  /\ registered' \in {registered, registered \cup {req[r].user}}
  /\ NotRegistered(r)

Enroll(r) ==
  /\ At(r, "enroll")
  /\ LET u == req[r].user IN
       /\ SetUserContext(r, u)
       /\ req' = [req EXCEPT ![r] = HandOver(@, u, u)]
  /\ UNCHANGED <<registered, faults>>

EnrollFails(r) ==
  /\ faults < MaxFaults /\ faults' = faults + 1
  /\ At(r, "enroll")
  /\ req' = [req EXCEPT ![r] = HandOver(@, Text, context)]
  /\ UNCHANGED <<context, stored, saving, registered>>

-----------------------------------------------------------------------------
(* getOrgAdmin resolves when the file of the administrator is complete;    *)
(* its caller signs after that.                                            *)
CreateUser(r) ==
  /\ At(r, "orgCreate")
  /\ SetUserContext(r, OrgAdmin)
  /\ GoesOn(r, "orgSave")
  /\ UNCHANGED <<registered, faults>>

OrgSaved(r) ==
  /\ At(r, "orgSave") /\ <<r, OrgAdmin>> \notin saving
  /\ req' = [req EXCEPT ![r] = Signed([@ EXCEPT !.got = OrgAdmin], context)]
  /\ UNCHANGED <<context, stored, saving, registered, faults>>

(* The peers have answered.  A query or an installation passes that on;    *)
(* an invocation is turned into a transaction that is signed now.          *)
PeersAnswer(r) ==
  /\ At(r, "proposed")
  /\ \/ req[r].kind = "invoke" /\ context # None
        /\ req' = [req EXCEPT ![r].at = "sent"]
     \/ req[r].kind = "invoke" /\ context = None
        /\ req' = [req EXCEPT ![r] = Answered(@, "failure")]
     \/ req[r].kind # "invoke"
        /\ req' = [req EXCEPT ![r] = Over(@, "done")]
  /\ UNCHANGED <<context, stored, saving, registered, faults>>

ProposalFails(r) ==
  /\ At(r, "proposed")
  /\ req' = [req EXCEPT ![r] = Answered(@, "failure")]
  /\ UNCHANGED <<context, stored, saving, registered, faults>>

(* Events, timers or the orderer have ended the wait for the transaction.  *)
Respond(r) ==
  /\ At(r, "sent")
  /\ req' = [req EXCEPT ![r] = Over(@, "done")]
  /\ UNCHANGED <<context, stored, saving, registered, faults>>

InProgress(r) == req[r].at \notin {"idle", "done", "lost"}

(* The server stops and starts: requests in progress are gone, and files   *)
(* that were being written stay empty.                                     *)
Stopped ==
  /\ context' = None
  /\ saving' = {}
  /\ req' = [r \in Request |->
               IF InProgress(r) THEN Over(req[r], "lost") ELSE req[r]]
  /\ UNCHANGED <<stored, registered>>

Restart == faults < MaxFaults /\ faults' = faults + 1 /\ Stopped

(* The event or the timer disconnects an event hub, which has the context  *)
(* sign that.  Without one this throws, in a callback: the process ends.   *)
DisconnectThrows(r) == At(r, "sent") /\ context = None /\ Stopped /\ UNCHANGED faults

Proceeds(r) ==
  \/ Open(r) \/ Load(r)
  \/ AdminOpen(r) \/ AdminLoad(r) \/ AdminEnroll(r) \/ AdminSaved(r)
  \/ Register(r) \/ RegisterRefused(r) \/ Enroll(r)
  \/ OrgOpen(r) \/ CreateUser(r) \/ OrgSaved(r)
  \/ PeersAnswer(r) \/ ProposalFails(r) \/ Respond(r) \/ DisconnectThrows(r)

ContextNext ==
  \/ \E r \in Request, u \in User :
       \/ PostUsers(r, u) \/ PostInvoke(r, u) \/ GetQuery(r, u)
       \/ GetChaincodes(r, u) \/ PostChaincodes(r, u)
  \/ \E r \in Request :
       Proceeds(r) \/ LoadFails(r) \/ AdminFails(r) \/ RegisterFails(r) \/ EnrollFails(r)
  \/ \E r \in Request, who \in Name : SaveUserToStateStore(r, who)
  \/ Restart

ContextSpec == ContextInit /\ [][ContextNext]_contextVars

(* The event loop runs what can run, every call to a peer, the authority   *)
(* or the disk returns, if only with an error, and the timers fire.        *)
ContextFairness ==
  \A r \in Request :
    /\ WF_contextVars(Proceeds(r))
    /\ WF_contextVars(\E who \in Name : SaveUserToStateStore(r, who))

FairContextSpec == ContextSpec /\ ContextFairness

-----------------------------------------------------------------------------
ContextTypeOK ==
  /\ context \in Name \cup {None}
  /\ stored \subseteq Name /\ saving \subseteq Request \X Name
  /\ registered \subseteq User
  /\ req \in [Request ->
        [kind : Kinds \cup {None}, user : User \cup {None}, at : Step,
         got : Name \cup {None, Text}, creator : Name \cup {None},
         answer : {"success", "failure", None}]]
  /\ faults \in 0 .. MaxFaults

(* A caller's request is made in the name of another caller only where a   *)
(* call of that request to the store or to the authority failed; without   *)
(* faults it is made in the caller's own name or in the registrar's        *)
(* (helper.js lines 201-268).                                              *)
NotInTheNameOfAnother ==
  \A r \in Request :
    req[r].kind \in {"invoke", "query"} /\ req[r].creator \in User \ {req[r].user}
      => faults > 0 /\ req[r].got \notin Name

(* Until something fails every request is answered or lost with the        *)
(* process: no one waits for a context or a file that another request      *)
(* keeps away (helper.js lines 159-268, app.js lines 105-137).  An         *)
(* installation may find the context gone and is then not answered.        *)
EveryCallerAnswered ==
  \A r \in Request :
    req[r].kind \notin {None, "install"} ~> req[r].at \in {"done", "lost"} \/ faults > 0
=============================================================================
