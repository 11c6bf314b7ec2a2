------------------------- MODULE UserContextProofs -------------------------
(***************************************************************************)
(* In whose name requests are made, for any number of requests, users and  *)
(* faults.  The invariant is one about each request: what its place in the *)
(* look-up says about its fields.  Every step but a stop changes one       *)
(* request, and faults only grow.                                          *)
(***************************************************************************)
EXTENDS UserContext, TLAPS

ReqType ==
  [kind : Kinds \cup {None}, user : User \cup {None}, at : Step,
   got : Name \cup {None, Text}, creator : Name \cup {None},
   answer : {"success", "failure", None}]

LookUp == {"open", "load", "adminOpen", "adminLoad", "adminEnroll",
           "adminSave", "register", "enroll"}

(* q, while there were f faults: what has not come has no creator; a       *)
(* look-up is one for a user; the peer administrator acts for the requests *)
(* that name no user; and what the property says of one request.           *)
GoodReq(q, f) ==
  /\ q \in ReqType
  /\ q.at = "idle" => q.creator = None
  /\ q.at \in LookUp => q.user \in User /\ q.kind \in {"users", "invoke", "query"}
  /\ q.at \in {"orgOpen", "orgCreate", "orgSave"} => q.kind \in {"list", "install"}
  /\ q.kind \in {"invoke", "query"} /\ q.creator \in User \ {q.user}
       => f > 0 /\ q.got \notin Name

IInv == ContextTypeOK /\ \A r \in Request : GoodReq(req[r], faults)

(* What a look-up may hand over: the user it is for or the registrar,      *)
(* together with the context of the same name; or something that is no     *)
(* user, after a fault.                                                    *)
Handed(q, who, ctx, f) ==
  /\ who \in Name \cup {None, Text} /\ ctx \in Name \cup {None}
  /\ who \in Name => ctx = who /\ who \in {q.user, Admin}
  /\ who \notin Name => f > 0

-----------------------------------------------------------------------------
(* A request that is over is a good one: it has no creator.                *)
LEMMA OverGood ==
  ASSUME NEW f, NEW q \in ReqType, NEW how \in {"done", "lost"}
  PROVE  GoodReq(Over(q, how), f)
BY UserContextAssumption DEF GoodReq, Over, Idle, ReqType, Step, LookUp

LEMMA AnsweredGood ==
  ASSUME NEW f, NEW q \in ReqType, NEW answer \in {"success", "failure"}
  PROVE  GoodReq(Answered(q, answer), f)
<1>1. CASE q.kind = "users"
  BY <1>1, UserContextAssumption DEF GoodReq, Answered, Over, Idle, ReqType, Step, LookUp
<1>2. CASE q.kind # "users"
  BY <1>2, OverGood DEF Answered
<1> QED BY <1>1, <1>2

(* Only a request of a kind that looks nobody up may be signed by a name   *)
(* that it did not find.                                                   *)
LEMMA SignedGood ==
  ASSUME NEW f \in Nat, NEW q \in ReqType, NEW ctx \in Name \cup {None},
         q.kind \in {"invoke", "query"} =>
           /\ q.got \in Name => ctx = q.got /\ q.got \in {q.user, Admin}
           /\ q.got \notin Name => f > 0
  PROVE  GoodReq(Signed(q, ctx), f)
<1>1. CASE ctx # None
  <2>1. Signed(q, ctx) = [q EXCEPT !.at = "proposed", !.creator = ctx]
    BY <1>1 DEF Signed
  <2> DEFINE p == [q EXCEPT !.at = "proposed", !.creator = ctx]
  <2>2. /\ p \in ReqType /\ p.kind = q.kind /\ p.user = q.user /\ p.got = q.got
        /\ p.at = "proposed" /\ p.creator = ctx
    BY <1>1 DEF ReqType, Step
  <2>3. GoodReq(p, f)
    <3> HIDE DEF p
    <3>1. q.kind \in {"invoke", "query"} /\ q.got \in Name => ctx \notin User \ {q.user}
      BY UserContextAssumption
    <3> QED BY <2>2, <3>1 DEF GoodReq, LookUp
  <2> QED BY <2>1, <2>3
<1>2. CASE ctx = None /\ q.kind = "install"
  <2>1. Signed(q, ctx) = [q EXCEPT !.at = "hung"]
    BY <1>2 DEF Signed
  <2> QED BY <1>2, <2>1 DEF GoodReq, ReqType, Step, LookUp
<1>3. CASE ctx = None /\ q.kind # "install"
  BY <1>3, AnsweredGood DEF Signed
<1> QED BY <1>1, <1>2, <1>3

LEMMA HandOverGood ==
  ASSUME NEW f \in Nat, NEW q \in ReqType, NEW who, NEW ctx, Handed(q, who, ctx, f)
  PROVE  GoodReq(HandOver(q, who, ctx), f)
<1> DEFINE p == [q EXCEPT !.got = who]
<1>1. p \in ReqType /\ p.kind = q.kind /\ p.user = q.user /\ p.got = who
  BY DEF Handed, ReqType
<1>2. CASE q.kind # "users"
  <2>1. GoodReq(Signed(p, ctx), f)
    <3> HIDE DEF p
    <3> QED BY <1>1, SignedGood DEF Handed
  <2> QED BY <1>2, <2>1 DEF HandOver
<1>3. CASE q.kind = "users" /\ who = None
  BY <1>3 DEF HandOver, GoodReq, ReqType, Step, LookUp
<1>4. CASE q.kind = "users" /\ who # None
  BY <1>1, <1>4, AnsweredGood DEF HandOver
<1> QED BY <1>2, <1>3, <1>4

-----------------------------------------------------------------------------
OtherTypes ==
  /\ context \in Name \cup {None}
  /\ stored \subseteq Name /\ saving \subseteq Request \X Name
  /\ registered \subseteq User
  /\ faults \in 0 .. MaxFaults

LEMMA Types == ContextTypeOK <=> OtherTypes /\ req \in [Request -> ReqType]
BY DEF ContextTypeOK, OtherTypes, ReqType

(* A step that changes one request, and makes a good one of it.            *)
LEMMA Change ==
  ASSUME IInv, OtherTypes', faults <= faults',
         NEW r \in Request, NEW q, GoodReq(q, faults'),
         req' = [req EXCEPT ![r] = q]
  PROVE  IInv'
<1>1. faults \in Nat /\ faults' \in Nat /\ req \in [Request -> ReqType]
  BY Types DEF IInv, OtherTypes
<1>2. ASSUME NEW s \in Request PROVE GoodReq(req'[s], faults')
  <2>1. CASE s = r
    BY <1>1, <2>1
  <2>2. CASE s # r
    <3>1. req'[s] = req[s] /\ GoodReq(req[s], faults)
      BY <1>1, <2>2 DEF IInv
    <3> QED BY <1>1, <3>1 DEF GoodReq
  <2> QED BY <2>1, <2>2
<1>3. q \in ReqType
  BY DEF GoodReq
<1>4. ContextTypeOK'
  <2>1. req' \in [Request -> ReqType]
    BY <1>1, <1>3
  <2> QED BY <2>1 DEF ContextTypeOK, OtherTypes, ReqType
<1> QED BY <1>2, <1>4 DEF IInv

(* A request that has not begun, or has gone on by one step of its         *)
(* look-up.                                                                *)
LEMMA Moved ==
  ASSUME IInv, OtherTypes', faults' = faults,
         NEW r \in Request, NEW from, NEW step \in Step \ {"idle"}, At(r, from), GoesOn(r, step),
         step \in LookUp => from \in LookUp,
         step \in {"orgOpen", "orgCreate", "orgSave"} =>
           from \in {"orgOpen", "orgCreate", "orgSave"}
  PROVE  IInv'
<1> DEFINE q == [req[r] EXCEPT !.at = step]
<1>1. req \in [Request -> ReqType] /\ GoodReq(req[r], faults) /\ req[r].at = from
  BY Types DEF IInv, At
<1>2. /\ q \in ReqType /\ q.at = step
      /\ q.kind = req[r].kind /\ q.user = req[r].user
      /\ q.got = req[r].got /\ q.creator = req[r].creator
  BY <1>1 DEF ReqType
<1>3. GoodReq(q, faults')
  <2> HIDE DEF q
  <2> QED BY <1>1, <1>2 DEF GoodReq
<1>4. req' = [req EXCEPT ![r] = q]
  BY <1>1 DEF GoesOn
<1>5. faults <= faults'
  BY DEF OtherTypes
<1> HIDE DEF q
<1> QED BY <1>3, <1>4, <1>5, Change

LEMMA Arrived ==
  ASSUME IInv, NEW r \in Request, NEW kind, NEW u \in User \cup {None}, NEW step,
         Arrives(r, kind, u, step),
         \/ step = "open" /\ u \in User /\ kind \in {"users", "invoke", "query"}
         \/ step = "orgOpen" /\ kind \in {"list", "install"}
  PROVE  IInv'
<1>1. req \in [Request -> ReqType] /\ GoodReq(req[r], faults) /\ req[r].at = "idle"
  BY Types DEF IInv, Arrives, At
<1>2. OtherTypes' /\ faults' = faults /\ faults <= faults' /\ kind \in Kinds
  BY DEF IInv, ContextTypeOK, OtherTypes, Arrives
<1>3. CASE req' = [req EXCEPT ![r].kind = kind, ![r].user = u, ![r].at = step]
  <2> DEFINE q == [req[r] EXCEPT !.kind = kind, !.user = u, !.at = step]
  <2>1. /\ q \in ReqType /\ q.at = step /\ q.kind = kind /\ q.user = u
        /\ q.creator = None
    BY <1>1, <1>2 DEF ReqType, Step, GoodReq
  <2>2. req' = [req EXCEPT ![r] = q]
    BY <1>1, <1>3
  <2> HIDE DEF q
  <2>3. GoodReq(q, faults')
    BY <2>1, UserContextAssumption DEF GoodReq, LookUp, Name
  <2> QED BY <1>2, <2>2, <2>3, Change
<1>4. CASE req' = [req EXCEPT ![r] = Over(@, "done")]
  <2>1. req' = [req EXCEPT ![r] = Over(req[r], "done")]
    BY <1>1, <1>4
  <2>2. GoodReq(Over(req[r], "done"), faults')
    BY <1>1, OverGood
  <2> QED BY <1>2, <2>1, <2>2, Change
<1> QED BY <1>3, <1>4 DEF Arrives

(* A request that has handed over what its look-up found.                  *)
LEMMA HasHandedOver ==
  ASSUME IInv, OtherTypes', faults <= faults', NEW r \in Request, NEW who, NEW ctx,
         Handed(req[r], who, ctx, faults'),
         req' = [req EXCEPT ![r] = HandOver(req[r], who, ctx)]
  PROVE  IInv'
<1>1. req[r] \in ReqType /\ faults' \in Nat
  BY Types DEF IInv, OtherTypes
<1>2. GoodReq(HandOver(req[r], who, ctx), faults')
  BY <1>1, HandOverGood
<1> QED BY <1>2, Change

LEMMA HasAnswered ==
  ASSUME IInv, OtherTypes', faults <= faults', NEW r \in Request,
         NEW answer \in {"success", "failure"},
         req' = [req EXCEPT ![r] = Answered(req[r], answer)]
  PROVE  IInv'
<1>1. req[r] \in ReqType
  BY Types DEF IInv
<1>2. GoodReq(Answered(req[r], answer), faults')
  BY <1>1, AnsweredGood
<1> QED BY <1>2, Change

LEMMA IsOver ==
  ASSUME IInv, OtherTypes', faults <= faults', NEW r \in Request,
         NEW how \in {"done", "lost"}, req' = [req EXCEPT ![r] = Over(req[r], how)]
  PROVE  IInv'
<1>1. req[r] \in ReqType
  BY Types DEF IInv
<1>2. GoodReq(Over(req[r], how), faults')
  BY <1>1, OverGood
<1> QED BY <1>2, Change

LEMMA StopKeeps ==
  ASSUME IInv, Stopped, faults' \in 0 .. MaxFaults, faults <= faults'
  PROVE  IInv'
<1>1. faults \in Nat /\ req \in [Request -> ReqType]
  BY Types DEF IInv, OtherTypes
<1>2. ASSUME NEW s \in Request PROVE GoodReq(req'[s], faults')
  <2>1. CASE InProgress(s)
    BY <1>1, <2>1, OverGood DEF Stopped
  <2>2. CASE ~ InProgress(s)
    <3>1. req'[s] = req[s] /\ GoodReq(req[s], faults)
      BY <1>1, <2>2 DEF Stopped, IInv
    <3> QED BY <1>1, <3>1 DEF GoodReq
  <2> QED BY <2>1, <2>2
<1>3. req' \in [Request -> ReqType]
  BY <1>2 DEF Stopped, GoodReq
<1>4. ContextTypeOK'
  BY <1>3, Types DEF IInv, ContextTypeOK, ReqType, Stopped
<1> QED BY <1>2, <1>4 DEF IInv

-----------------------------------------------------------------------------
(* The steps of one request, in the order of the module.                   *)
LEMMA RequestKeeps ==
  ASSUME IInv, NEW r \in Request,
         \/ Proceeds(r) \/ LoadFails(r) \/ AdminFails(r) \/ RegisterFails(r) \/ EnrollFails(r)
  PROVE  IInv'
<1> DEFINE q == req[r]
<1>0. /\ OtherTypes /\ faults \in Nat /\ MaxFaults \in Nat /\ req \in [Request -> ReqType]
      /\ GoodReq(q, faults) /\ q \in ReqType
  BY Types, UserContextAssumption DEF IInv, OtherTypes
<1> USE DEF LookUp, Step
<1>1. CASE Open(r)
  BY <1>0, <1>1, Moved DEF Open, SetStateStore, OtherTypes
<1>2. CASE AdminOpen(r)
  BY <1>0, <1>2, Moved DEF AdminOpen, SetStateStore, OtherTypes
<1>3. CASE OrgOpen(r)
  BY <1>0, <1>3, Moved DEF OrgOpen, SetStateStore, OtherTypes
<1>4. CASE Load(r)
  <2>1. CASE q.user \in stored
    <3>1. OtherTypes' /\ faults' = faults /\ faults <= faults'
      BY <1>0, <1>4, <2>1 DEF Load, OtherTypes
    <3>2. req' = [req EXCEPT ![r] = HandOver(req[r], q.user, q.user)]
      BY <1>0, <1>4, <2>1 DEF Load
    <3>3. Handed(req[r], q.user, q.user, faults')
      BY <1>0, <2>1 DEF Handed, OtherTypes
    <3> QED BY <3>1, <3>2, <3>3, HasHandedOver
  <2>2. CASE q.user \notin stored
    BY <1>0, <1>4, <2>2, Moved DEF Load, OtherTypes
  <2> QED BY <2>1, <2>2
<1>5. CASE LoadFails(r)
  <2>1. OtherTypes' /\ faults <= faults' /\ faults' > 0
    BY <1>0, <1>5 DEF LoadFails, OtherTypes
  <2>2. CASE q.kind = "users"
    <3>1. req' = [req EXCEPT ![r] = Answered(req[r], "failure")]
      BY <1>0, <1>5, <2>2 DEF LoadFails
    <3> QED BY <2>1, <3>1, HasAnswered
  <2>3. CASE q.kind # "users"
    <3>1. req' = [req EXCEPT ![r] = HandOver(req[r], Text, context)]
      BY <1>0, <1>5, <2>3 DEF LoadFails
    <3>2. Handed(req[r], Text, context, faults')
      BY <1>0, <2>1, UserContextAssumption DEF Handed, OtherTypes
    <3> QED BY <2>1, <3>1, <3>2, HasHandedOver
  <2> QED BY <2>2, <2>3
<1>6. CASE AdminLoad(r)
  <2>1. OtherTypes' /\ faults' = faults
    BY <1>0, <1>6 DEF AdminLoad, OtherTypes, Name
  <2>2. CASE Admin \in stored
    BY <1>6, <2>1, <2>2, Moved DEF AdminLoad
  <2>3. CASE Admin \notin stored
    BY <1>6, <2>1, <2>3, Moved DEF AdminLoad
  <2> QED BY <2>2, <2>3
<1>7. CASE AdminEnroll(r)
  <2>1. OtherTypes' /\ faults' = faults
    BY <1>0, <1>7 DEF AdminEnroll, SetUserContext, OtherTypes, Name
  <2> QED BY <1>7, <2>1, Moved DEF AdminEnroll
<1>8. CASE AdminSaved(r)
  <2>1. OtherTypes' /\ faults' = faults
    BY <1>0, <1>8 DEF AdminSaved, OtherTypes
  <2> QED BY <1>8, <2>1, Moved DEF AdminSaved
<1>9. CASE AdminFails(r)
  <2>1. OtherTypes' /\ faults <= faults' /\ faults' > 0
    BY <1>0, <1>9 DEF AdminFails, OtherTypes
  <2>2. req' = [req EXCEPT ![r] = HandOver(req[r], None, context)]
    BY <1>0, <1>9 DEF AdminFails
  <2>3. Handed(req[r], None, context, faults')
    BY <1>0, <2>1, UserContextAssumption DEF Handed, OtherTypes
  <2> QED BY <2>1, <2>2, <2>3, HasHandedOver
<1>10. CASE Register(r)
  <2>1. OtherTypes' /\ faults' = faults
    BY <1>0, <1>10 DEF Register, At, OtherTypes, GoodReq
  <2> QED BY <1>10, <2>1, Moved DEF Register
<1>11. CASE NotRegistered(r) /\ At(r, "register") /\ faults <= faults'
            /\ faults' \in 0 .. MaxFaults /\ registered' \in {registered, registered \cup {q.user}}
  <2>1. q.user \in User
    BY <1>0, <1>11 DEF At, GoodReq
  <2>2. OtherTypes'
    BY <1>0, <1>11, <2>1 DEF NotRegistered, SetUserContext, OtherTypes, Name
  <2>3. req' = [req EXCEPT ![r] = HandOver(req[r], Admin, Admin)]
    BY <1>0, <1>11 DEF NotRegistered
  <2>4. Handed(req[r], Admin, Admin, faults')
    BY DEF Handed, Name
  <2> QED BY <1>11, <2>2, <2>3, <2>4, HasHandedOver
<1>12. CASE RegisterRefused(r)
  BY <1>0, <1>11, <1>12 DEF RegisterRefused, OtherTypes
<1>13. CASE RegisterFails(r)
  BY <1>0, <1>11, <1>13 DEF RegisterFails, OtherTypes
<1>14. CASE Enroll(r)
  <2>1. q.user \in User
    BY <1>0, <1>14 DEF Enroll, At, GoodReq
  <2>2. OtherTypes' /\ faults <= faults'
    BY <1>0, <1>14, <2>1 DEF Enroll, SetUserContext, OtherTypes, Name
  <2>3. req' = [req EXCEPT ![r] = HandOver(req[r], q.user, q.user)]
    BY <1>0, <1>14 DEF Enroll
  <2>4. Handed(req[r], q.user, q.user, faults')
    BY <2>1 DEF Handed, Name
  <2> QED BY <2>2, <2>3, <2>4, HasHandedOver
<1>15. CASE EnrollFails(r)
  <2>1. OtherTypes' /\ faults <= faults' /\ faults' > 0
    BY <1>0, <1>15 DEF EnrollFails, OtherTypes
  <2>2. req' = [req EXCEPT ![r] = HandOver(req[r], Text, context)]
    BY <1>0, <1>15 DEF EnrollFails
  <2>3. Handed(req[r], Text, context, faults')
    BY <1>0, <2>1, UserContextAssumption DEF Handed, OtherTypes
  <2> QED BY <2>1, <2>2, <2>3, HasHandedOver
<1>16. CASE CreateUser(r)
  <2>1. OtherTypes' /\ faults' = faults
    BY <1>0, <1>16 DEF CreateUser, SetUserContext, OtherTypes, Name
  <2> QED BY <1>16, <2>1, Moved DEF CreateUser
<1>17. CASE OrgSaved(r)
  <2> DEFINE p == [q EXCEPT !.got = OrgAdmin]
  <2>1. OtherTypes' /\ faults' = faults /\ faults <= faults'
    BY <1>0, <1>17 DEF OrgSaved, OtherTypes
  <2>2. p \in ReqType /\ p.kind \notin {"invoke", "query"}
    BY <1>0, <1>17 DEF OrgSaved, At, GoodReq, ReqType, Name
  <2>3. req' = [req EXCEPT ![r] = Signed(p, context)]
    BY <1>0, <1>17 DEF OrgSaved
  <2> HIDE DEF p
  <2>4. GoodReq(Signed(p, context), faults')
    BY <1>0, <2>1, <2>2, SignedGood DEF OtherTypes
  <2> QED BY <2>1, <2>3, <2>4, Change
<1>18. CASE PeersAnswer(r)
  <2>1. OtherTypes' /\ faults' = faults /\ faults <= faults' /\ At(r, "proposed")
    BY <1>0, <1>18 DEF PeersAnswer, OtherTypes
  <2>2. CASE req' = [req EXCEPT ![r].at = "sent"]
    BY <2>1, <2>2, Moved DEF GoesOn
  <2>3. CASE req' = [req EXCEPT ![r] = Answered(@, "failure")]
    BY <1>0, <2>1, <2>3, HasAnswered
  <2>4. CASE req' = [req EXCEPT ![r] = Over(@, "done")]
    BY <1>0, <2>1, <2>4, IsOver
  <2> QED BY <1>18, <2>2, <2>3, <2>4 DEF PeersAnswer
<1>19. CASE ProposalFails(r)
  <2>1. OtherTypes' /\ faults <= faults'
    BY <1>0, <1>19 DEF ProposalFails, OtherTypes
  <2> QED BY <1>0, <1>19, <2>1, HasAnswered DEF ProposalFails
<1>20. CASE Respond(r)
  <2>1. OtherTypes' /\ faults <= faults'
    BY <1>0, <1>20 DEF Respond, OtherTypes
  <2> QED BY <1>0, <1>20, <2>1, IsOver DEF Respond
<1>21. CASE DisconnectThrows(r)
  BY <1>0, <1>21, StopKeeps DEF DisconnectThrows, OtherTypes
<1> QED
  BY <1>1, <1>2, <1>3, <1>4, <1>5, <1>6, <1>7, <1>8, <1>9, <1>10, <1>12, <1>13, <1>14,
     <1>15, <1>16, <1>17, <1>18, <1>19, <1>20, <1>21
  DEF Proceeds

LEMMA NextKeeps == IInv /\ [ContextNext]_contextVars => IInv'
<1> SUFFICES ASSUME IInv, [ContextNext]_contextVars PROVE IInv'
  OBVIOUS
<1>0. OtherTypes /\ MaxFaults \in Nat
  BY Types, UserContextAssumption DEF IInv
<1>1. ASSUME NEW r \in Request, NEW u \in User,
             \/ PostUsers(r, u) \/ PostInvoke(r, u) \/ GetQuery(r, u)
             \/ GetChaincodes(r, u) \/ PostChaincodes(r, u)
      PROVE  IInv'
  <2>1. CASE PostUsers(r, u)
    BY <2>1, Arrived DEF PostUsers
  <2>2. CASE PostInvoke(r, u)
    BY <2>2, Arrived DEF PostInvoke
  <2>3. CASE GetQuery(r, u)
    BY <2>3, Arrived DEF GetQuery
  <2>4. CASE GetChaincodes(r, u)
    BY <2>4, Arrived DEF GetChaincodes
  <2>5. CASE PostChaincodes(r, u)
    BY <2>5, Arrived DEF PostChaincodes
  <2> QED BY <1>1, <2>1, <2>2, <2>3, <2>4, <2>5
<1>2. ASSUME NEW r \in Request, NEW who \in Name, SaveUserToStateStore(r, who) PROVE IInv'
  BY <1>0, <1>2 DEF SaveUserToStateStore, IInv, ContextTypeOK, OtherTypes
<1>3. CASE Restart
  BY <1>0, <1>3, StopKeeps DEF Restart, OtherTypes
<1>4. CASE UNCHANGED contextVars
  BY <1>4 DEF contextVars, IInv, ContextTypeOK
<1> QED BY <1>1, <1>2, <1>3, <1>4, RequestKeeps DEF ContextNext

LEMMA InitGood == ContextInit => IInv
<1> SUFFICES ASSUME ContextInit PROVE IInv
  OBVIOUS
<1>1. Idle \in ReqType
  BY DEF Idle, ReqType, Step
<1>2. ASSUME NEW r \in Request PROVE GoodReq(req[r], faults)
  BY <1>1, UserContextAssumption DEF ContextInit, Idle, GoodReq, LookUp, Name
<1>3. ContextTypeOK
  BY <1>1, UserContextAssumption DEF ContextInit, ContextTypeOK, ReqType, Name
<1> QED BY <1>2, <1>3 DEF IInv

LEMMA Invariance == ContextSpec => []IInv
BY InitGood, NextKeeps, PTL DEF ContextSpec

-----------------------------------------------------------------------------
(* The variables keep their types (helper.js, app.js, Client.js).          *)
THEOREM TypeCorrect == ContextSpec => []ContextTypeOK
<1>1. IInv => ContextTypeOK
  BY DEF IInv
<1> QED BY <1>1, Invariance, PTL

(* Without a failing call no caller acts in another caller's name          *)
(* (helper.js lines 201-268).                                              *)
THEOREM NoOtherName == ContextSpec => []NotInTheNameOfAnother
<1>1. IInv => NotInTheNameOfAnother
  BY DEF IInv, GoodReq, NotInTheNameOfAnother
<1> QED BY <1>1, Invariance, PTL
=============================================================================
