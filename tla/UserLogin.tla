----------------------------- MODULE UserLogin ------------------------------
(***************************************************************************)
(* How a user of the election system becomes one of its persons: the user  *)
(* asks to be a person (HomeController.RequestUserLoginAssociation), an    *)
(* officer approves or rejects the request (EligereESAPI), and at every    *)
(* page the user's logins are looked up (EligereClaimsTransformation).     *)
(*                                                                         *)
(* Every handler reads and saves later.  The users are those of the        *)
(* default provider: a federated user is a person by the fiscal code.      *)
(***************************************************************************)
EXTENDS Naturals, FiniteSets

CONSTANTS
  Request,   \* the requests to the election system, each answered once
  User,      \* the names under which users are authenticated
  Person,    \* the fiscal codes of the persons that are registered
  None       \* no user, no person

VARIABLES
  asked,    \* asked[i]: the UserLoginRequest that i added, or NoRow
  logins,   \* the UserLogins <<i, q>>: one of asked[i], added by q
  deciding, \* deciding[q]: what q has read and not saved yet
  overlap   \* rows approved or rejected while already being so (history)

lvars == <<asked, logins, deciding, overlap>>

-----------------------------------------------------------------------------
NoRow == [user |-> None, person |-> None, approved |-> FALSE, approval |-> FALSE]

NewRow(u, p) == [user |-> u, person |-> p, approved |-> FALSE, approval |-> FALSE]

Rows == {i \in Request : asked[i] # NoRow}

LoginsOf(u) == {l \in logins : asked[l[1]].user = u}

(* TransformAsync: a user with exactly one login is its person.            *)
PersonFK(u) ==
  IF Cardinality(LoginsOf(u)) = 1
    THEN asked[(CHOOSE l \in LoginsOf(u) : TRUE)[1]].person
    ELSE None

Idle == [at |-> "new"]
Ended == [at |-> "done"]

Decisions ==
  {Idle, Ended}
    \union [at: {"asking"}, user: User, person: Person]
    \union [at: {"approving", "rejecting"}, rows: SUBSET Request]

LoginTypeOK ==
  /\ asked \in [Request ->
       [user: User, person: Person, approved: BOOLEAN, approval: BOOLEAN] \union {NoRow}]
  /\ logins \subseteq Rows \X Request
  /\ deciding \in [Request -> Decisions]
  /\ overlap \subseteq Rows

LoginInit ==
  /\ asked = [i \in Request |-> NoRow]
  /\ logins = {}
  /\ deciding = [q \in Request |-> Idle]
  /\ overlap = {}

-----------------------------------------------------------------------------
(* It looks for a request whose UserId is the fiscal code, and for a login *)
(* of the user.                                                            *)
RequestUserLoginAssociation(q, u, p) ==
  /\ deciding[q] = Idle
  /\ \A i \in Rows : asked[i].user # p
  /\ LoginsOf(u) = {}
  /\ deciding' = [deciding EXCEPT ![q] = [at |-> "asking", user |-> u, person |-> p]]
  /\ UNCHANGED <<asked, logins, overlap>>

SaveUserLoginRequest(q) ==
  /\ deciding[q].at = "asking"
  /\ asked' = [asked EXCEPT ![q] = NewRow(deciding[q].user, deciding[q].person)]
  /\ deciding' = [deciding EXCEPT ![q] = Ended]
  /\ UNCHANGED <<logins, overlap>>

-----------------------------------------------------------------------------
(* The officers.                                                           *)

Pending == {i \in Rows : ~asked[i].approval}

(* The rows being decided by a request other than q.                       *)
Undecided(q) ==
  UNION {deciding[r].rows : r \in {s \in Request \ {q} :
                                     deciding[s].at \in {"approving", "rejecting"}}}

Decide(q, at, rows) ==
  /\ deciding' = [deciding EXCEPT ![q] = [at |-> at, rows |-> rows]]
  /\ overlap' = overlap \union (rows \intersect Undecided(q))
  /\ UNCHANGED <<asked, logins>>

DecideAgain(q, i) ==  \* mutant: also a request that was answered
  /\ deciding[q] = Idle
  /\ i \in Rows
  /\ Decide(q, "approving", {i})

(* ApproveUserLoginRequest/{id}, ...                                       *)
ApproveUserLoginRequest(q, i) ==
  /\ deciding[q] = Idle
  /\ i \in Pending
  /\ Decide(q, "approving", {i})

(* ... ApproveUserLoginRequests, ...                                       *)
ApproveUserLoginRequests(q) ==
  /\ deciding[q] = Idle
  /\ Pending # {}
  /\ Decide(q, "approving", Pending)

RejectUnknown(q, i) ==  \* mutant: also a request that does not exist
  /\ deciding[q] = Idle
  /\ ~asked[i].approval
  /\ Decide(q, "rejecting", {i})

(* ... and RejectUserLoginRequest read what has no approval date.          *)
RejectUserLoginRequest(q, i) ==
  /\ deciding[q] = Idle
  /\ i \in Pending
  /\ Decide(q, "rejecting", {i})

(* One save per request, with a login for each row approved.               *)
SaveApproval(q) ==
  /\ deciding[q].at = "approving"
  /\ asked' = [i \in Request |->
                 IF i \in deciding[q].rows
                   THEN [asked[i] EXCEPT !.approved = TRUE, !.approval = TRUE]
                   ELSE asked[i]]
  /\ logins' = logins \union (deciding[q].rows \X {q})
  /\ deciding' = [deciding EXCEPT ![q] = Ended]
  /\ UNCHANGED overlap

SaveRejectionUndoing(q) ==  \* mutant: the user's logins go with the request
  /\ deciding[q].at = "rejecting"
  /\ asked' = [i \in Request |->
                 IF i \in deciding[q].rows THEN [asked[i] EXCEPT !.approval = TRUE]
                                           ELSE asked[i]]
  /\ logins' = {l \in logins : \A i \in deciding[q].rows : asked[l[1]].user # asked[i].user}
  /\ deciding' = [deciding EXCEPT ![q] = Ended]
  /\ UNCHANGED overlap

(* Approved was read as false, so only the date and the approver are       *)
(* saved: a rejection does not undo an approval.                           *)
SaveRejection(q) ==
  /\ deciding[q].at = "rejecting"
  /\ asked' = [i \in Request |->
                 IF i \in deciding[q].rows THEN [asked[i] EXCEPT !.approval = TRUE]
                                           ELSE asked[i]]
  /\ deciding' = [deciding EXCEPT ![q] = Ended]
  /\ UNCHANGED <<logins, overlap>>

LoginStep(q) ==
  \/ \E u \in User, p \in Person : RequestUserLoginAssociation(q, u, p)
  \/ SaveUserLoginRequest(q)
  \/ \E i \in Request : ApproveUserLoginRequest(q, i) \/ RejectUserLoginRequest(q, i)
  \/ ApproveUserLoginRequests(q)
  \/ SaveApproval(q) \/ SaveRejection(q)

-----------------------------------------------------------------------------
(* EligereRoles.cs:195 says of the logins of a user: "Should be either 0   *)
(* or 1".  They are more when the user asked twice before the first        *)
(* approval (HomeController.cs:114 looks for the wrong column), or when    *)
(* two officers approved at once.                                          *)
OneLoginPerUser ==
  \A u \in User : Cardinality(LoginsOf(u)) =< 1

(* One request gives a user two logins only when two approvals of it       *)
(* overlapped (EligereESAPI.cs:635-646); and whatever rejections came      *)
(* between, a request is approved exactly when it has a login.             *)
SecondLoginHasCause ==
  /\ \A l, m \in logins : l # m /\ l[1] = m[1] => l[1] \in overlap
  /\ \A i \in Rows : asked[i].approved <=> \E q \in Request : <<i, q>> \in logins
=============================================================================
