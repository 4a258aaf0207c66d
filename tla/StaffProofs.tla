----------------------------- MODULE StaffProofs ----------------------------
(***************************************************************************)
(* What holds of Staff for every number of requests, users, persons and    *)
(* elections.                                                              *)
(***************************************************************************)
EXTENDS Staff, FiniteSetTheorems, TLAPS

-----------------------------------------------------------------------------
(* Logins.                                                                 *)

Answering(q) == deciding[q].at \in {"approving", "rejecting"}

(* A row was added by a request that is over; what is answered are rows.   *)
RowsAreOver ==
  /\ \A i \in Rows : deciding[i] = Ended
  /\ \A q \in Request : Answering(q) => deciding[q].rows \subseteq Rows

(* A row that only one request has answered is open until that one saves.  *)
OpenUntilSaved ==
  \A q \in Request : Answering(q) =>
    \A i \in deciding[q].rows \ overlap :
      /\ ~asked[i].approval
      /\ \A r \in Request \ {q} : Answering(r) => i \notin deciding[r].rows

ApprovedIsClosed == \A i \in Rows : asked[i].approved => asked[i].approval

LoginInv ==
  LoginTypeOK /\ RowsAreOver /\ OpenUntilSaved /\ ApprovedIsClosed /\ SecondLoginHasCause

LEMMA LoginInvInit == LoginInit => LoginInv
<1> SUFFICES ASSUME LoginInit PROVE LoginInv
  OBVIOUS
<1>1. Rows = {}
  BY DEF LoginInit, Rows
<1>2. LoginTypeOK
  BY <1>1 DEF LoginInit, LoginTypeOK, Decisions, Idle
<1>3. \A q \in Request : ~Answering(q)
  BY DEF LoginInit, Answering, Idle
<1>4. RowsAreOver /\ OpenUntilSaved /\ ApprovedIsClosed
  BY <1>1, <1>3 DEF RowsAreOver, OpenUntilSaved, ApprovedIsClosed
<1>5. SecondLoginHasCause
  BY <1>1 DEF LoginInit, SecondLoginHasCause
<1> QED
  BY <1>2, <1>4, <1>5 DEF LoginInv

LEMMA LoginInvStutter ==
  LoginInv /\ UNCHANGED users => LoginInv'
BY DEF LoginInv, users, LoginTypeOK, RowsAreOver, OpenUntilSaved, ApprovedIsClosed,
       SecondLoginHasCause, Rows, Answering

(* What a request has in hand.                                             *)
LEMMA InHand ==
  ASSUME LoginTypeOK, NEW q \in Request
  PROVE  /\ Answering(q) => deciding[q].rows \in SUBSET Request
         /\ deciding[q].at = "asking" => deciding[q].user \in User /\ deciding[q].person \in Person
         /\ deciding[q] = Ended => ~Answering(q) /\ deciding[q].at # "asking"
         /\ deciding[q] = Idle => ~Answering(q) /\ deciding[q].at # "asking"
BY DEF LoginTypeOK, Decisions, Answering, Idle, Ended

(* A request that reads a new row in hand changes nothing else.            *)
LEMMA LoginInvRequestUserLoginAssociation ==
  ASSUME LoginInv, NEW q \in Request, NEW u \in User, NEW p \in Person,
         RequestUserLoginAssociation(q, u, p)
  PROVE  LoginInv'
<1> USE DEF LoginInv
<1> DEFINE job == [at |-> "asking", user |-> u, person |-> p]
<1>1. /\ deciding' = [deciding EXCEPT ![q] = job]
      /\ deciding[q] = Idle
      /\ UNCHANGED <<asked, logins, overlap>>
  BY DEF RequestUserLoginAssociation
<1>2. Rows' = Rows
  BY <1>1 DEF Rows
<1>3. job \in Decisions
  BY DEF Decisions
<1>4. job.at = "asking"
  OBVIOUS
<1> HIDE DEF job
<1>5. deciding \in [Request -> Decisions]
  BY DEF LoginTypeOK
<1>6. deciding' \in [Request -> Decisions]
  BY <1>1, <1>3, <1>5
<1>7. \A r \in Request : Answering(r)' => Answering(r) /\ deciding'[r] = deciding[r]
  BY <1>1, <1>4, <1>5 DEF Answering
<1>8. LoginTypeOK'
  BY <1>1, <1>2, <1>6 DEF LoginTypeOK
<1>9. q \notin Rows
  BY <1>1 DEF RowsAreOver, Idle, Ended
<1>10. RowsAreOver'
  <2>1. \A i \in Rows : deciding'[i] = Ended
    BY <1>1, <1>5, <1>9 DEF RowsAreOver, Rows
  <2> QED
    BY <1>2, <1>7, <2>1 DEF RowsAreOver
<1>11. OpenUntilSaved'
  BY <1>1, <1>7 DEF OpenUntilSaved
<1>12. ApprovedIsClosed' /\ SecondLoginHasCause'
  BY <1>1, <1>2 DEF ApprovedIsClosed, SecondLoginHasCause
<1> QED
  BY <1>8, <1>10, <1>11, <1>12

LEMMA LoginInvSaveUserLoginRequest ==
  ASSUME LoginInv, NEW q \in Request, SaveUserLoginRequest(q)
  PROVE  LoginInv'
<1> USE DEF LoginInv
<1> DEFINE row == NewRow(deciding[q].user, deciding[q].person)
<1>1. /\ deciding[q].at = "asking"
      /\ asked' = [asked EXCEPT ![q] = row]
      /\ deciding' = [deciding EXCEPT ![q] = Ended]
      /\ UNCHANGED <<logins, overlap>>
  BY DEF SaveUserLoginRequest
<1>2. deciding[q].user \in User /\ deciding[q].person \in Person /\ deciding[q] # Ended
  BY <1>1, InHand
<1>3. /\ row \in [user: User, person: Person, approved: BOOLEAN, approval: BOOLEAN]
      /\ row # NoRow /\ ~row.approved /\ ~row.approval
  BY <1>2, StaffAssumption DEF NewRow, NoRow
<1> HIDE DEF row
<1>4. /\ deciding \in [Request -> Decisions]
      /\ asked \in [Request ->
           [user: User, person: Person, approved: BOOLEAN, approval: BOOLEAN] \union {NoRow}]
  BY DEF LoginTypeOK
<1>5. q \notin Rows
  BY <1>2 DEF RowsAreOver
<1>6. Rows' = Rows \union {q}
  BY <1>1, <1>3, <1>4 DEF Rows
<1>7. \A i \in Rows : asked'[i] = asked[i]
  BY <1>1, <1>4, <1>5 DEF Rows
<1>8. asked'[q] = row
  BY <1>1, <1>4
<1>9. \A r \in Request : Answering(r)' => Answering(r) /\ deciding'[r] = deciding[r]
  BY <1>1, <1>4 DEF Answering, Ended
<1>10. LoginTypeOK'
  <2>1. asked' \in [Request ->
           [user: User, person: Person, approved: BOOLEAN, approval: BOOLEAN] \union {NoRow}]
    BY <1>1, <1>3, <1>4
  <2>2. deciding' \in [Request -> Decisions]
    BY <1>1, <1>4 DEF Decisions
  <2>3. logins' \subseteq Rows' \X Request /\ overlap' \subseteq Rows'
    BY <1>1, <1>6 DEF LoginTypeOK
  <2> QED
    BY <2>1, <2>2, <2>3 DEF LoginTypeOK
<1>11. RowsAreOver'
  <2>1. \A i \in Rows' : deciding'[i] = Ended
    BY <1>1, <1>4, <1>6 DEF RowsAreOver, Rows
  <2>2. \A r \in Request : Answering(r)' => deciding'[r].rows \subseteq Rows'
    BY <1>6, <1>9 DEF RowsAreOver
  <2> QED
    BY <2>1, <2>2 DEF RowsAreOver
<1>12. OpenUntilSaved'
  <2>1. ASSUME NEW r \in Request, Answering(r)', NEW i \in deciding'[r].rows \ overlap'
        PROVE  /\ ~asked'[i].approval
               /\ \A s \in Request \ {r} : Answering(s)' => i \notin deciding'[s].rows
    <3>1. Answering(r) /\ deciding'[r] = deciding[r]
      BY <1>9, <2>1
    <3>2. i \in Rows /\ i \in deciding[r].rows \ overlap
      BY <1>1, <2>1, <3>1 DEF RowsAreOver
    <3>3. /\ ~asked[i].approval
          /\ \A s \in Request \ {r} : Answering(s) => i \notin deciding[s].rows
      BY <3>1, <3>2 DEF OpenUntilSaved
    <3> QED
      BY <1>7, <1>9, <3>2, <3>3
  <2> QED
    BY <2>1 DEF OpenUntilSaved
<1>13. ApprovedIsClosed'
  BY <1>3, <1>6, <1>7, <1>8 DEF ApprovedIsClosed
<1>14. SecondLoginHasCause'
  <2>1. \A r \in Request : <<q, r>> \notin logins
    BY <1>5 DEF LoginTypeOK
  <2>2. \A l, m \in logins : l # m /\ l[1] = m[1] => l[1] \in overlap
    BY DEF SecondLoginHasCause
  <2>3. \A i \in Rows' : asked'[i].approved <=> \E r \in Request : <<i, r>> \in logins
    BY <1>3, <1>6, <1>7, <1>8, <2>1 DEF SecondLoginHasCause
  <2> QED
    BY <1>1, <2>2, <2>3 DEF SecondLoginHasCause
<1> QED
  BY <1>10, <1>11, <1>12, <1>13, <1>14

(* Reading rows to answer them: those that another request has in hand are *)
(* marked.                                                                 *)
LEMMA LoginInvDecide ==
  ASSUME LoginInv, NEW q \in Request, deciding[q] = Idle,
         NEW at \in {"approving", "rejecting"}, NEW rows \in SUBSET Pending,
         Decide(q, at, rows)
  PROVE  LoginInv'
<1> USE DEF LoginInv
<1> DEFINE job == [at |-> at, rows |-> rows]
<1>1. /\ deciding' = [deciding EXCEPT ![q] = job]
      /\ overlap' = overlap \union (rows \intersect Undecided(q))
      /\ UNCHANGED <<asked, logins>>
  BY DEF Decide
<1>2. deciding \in [Request -> Decisions] /\ rows \subseteq Rows /\ Rows \subseteq Request
  BY DEF LoginTypeOK, Pending, Rows
<1>3. job \in Decisions /\ job.at = at /\ job.rows = rows
  BY <1>2 DEF Decisions
<1> HIDE DEF job
<1>4. Rows' = Rows
  BY <1>1 DEF Rows
<1>5. deciding' \in [Request -> Decisions]
  BY <1>1, <1>2, <1>3
<1>6. q \notin Rows
  BY DEF RowsAreOver, Idle, Ended
<1>7. ~Answering(q)
  BY InHand
<1>8. Answering(q)' /\ deciding'[q].rows = rows
  BY <1>1, <1>2, <1>3 DEF Answering
<1>9. \A r \in Request \ {q} : deciding'[r] = deciding[r] /\ (Answering(r)' <=> Answering(r))
  BY <1>1, <1>2 DEF Answering
<1>10. LoginTypeOK'
  BY <1>1, <1>2, <1>4, <1>5 DEF LoginTypeOK
<1>11. RowsAreOver'
  <2>1. \A i \in Rows : deciding'[i] = Ended
    BY <1>1, <1>2, <1>6 DEF RowsAreOver
  <2>2. \A r \in Request : Answering(r)' => deciding'[r].rows \subseteq Rows
    BY <1>2, <1>8, <1>9 DEF RowsAreOver
  <2> QED
    BY <1>4, <2>1, <2>2 DEF RowsAreOver
<1>12. OpenUntilSaved'
  <2>1. ASSUME NEW r \in Request \ {q}, Answering(r), NEW i \in rows \ overlap'
        PROVE  i \notin deciding[r].rows
    BY <1>1, <2>1 DEF Undecided, Answering
  <2>2. ASSUME NEW r \in Request, Answering(r)', NEW i \in deciding'[r].rows \ overlap'
        PROVE  /\ ~asked[i].approval
               /\ \A s \in Request \ {r} : Answering(s)' => i \notin deciding'[s].rows
    <3>1. CASE r = q
      BY <1>8, <1>9, <2>1, <2>2, <3>1 DEF Pending
    <3>2. CASE r # q
      <4>1. i \in deciding[r].rows \ overlap /\ Answering(r)
        BY <1>1, <1>9, <2>2, <3>2
      <4>2. /\ ~asked[i].approval
            /\ \A s \in Request \ {r} : Answering(s) => i \notin deciding[s].rows
        BY <4>1 DEF OpenUntilSaved
      <4>3. i \notin rows
        BY <2>1, <2>2, <3>2, <4>1
      <4> QED
        BY <1>8, <1>9, <4>2, <4>3
    <3> QED
      BY <3>1, <3>2
  <2> QED
    BY <1>1, <2>2 DEF OpenUntilSaved
<1>13. ApprovedIsClosed' /\ SecondLoginHasCause'
  BY <1>1, <1>4 DEF ApprovedIsClosed, SecondLoginHasCause
<1> QED
  BY <1>10, <1>11, <1>12, <1>13

(* What a save does to the row i.                                          *)
LEMMA LoginInvSaveApproval ==
  ASSUME LoginInv, NEW q \in Request, SaveApproval(q)
  PROVE  LoginInv'
<1> USE DEF LoginInv
<1> DEFINE Row == [user: User, person: Person, approved: BOOLEAN, approval: BOOLEAN]
           rows == deciding[q].rows
<1>1. /\ deciding[q].at = "approving"
      /\ asked' = [i \in Request |->
                     IF i \in rows THEN [asked[i] EXCEPT !.approved = TRUE, !.approval = TRUE]
                     ELSE asked[i]]
      /\ logins' = logins \union (rows \X {q})
      /\ deciding' = [deciding EXCEPT ![q] = Ended]
      /\ overlap' = overlap
  BY DEF SaveApproval
<1>2. /\ deciding \in [Request -> Decisions]
      /\ asked \in [Request -> Row \union {NoRow}]
      /\ Answering(q) /\ rows \subseteq Rows /\ Rows \subseteq Request
  BY <1>1 DEF LoginTypeOK, Answering, RowsAreOver, Rows
<1>3. \A i \in Rows : asked[i] \in Row
  BY <1>2 DEF Rows
<1>4. NoRow \notin Row
  BY StaffAssumption DEF NoRow
<1>5. \A i \in rows : asked'[i] \in Row /\ asked'[i].approved = TRUE /\ asked'[i].approval = TRUE
  BY <1>1, <1>2, <1>3
<1>6. \A i \in Request \ rows : asked'[i] = asked[i]
  BY <1>1
<1> HIDE DEF Row, rows
<1>7. Rows' = Rows
  BY <1>2, <1>4, <1>5, <1>6 DEF Rows
<1>8. \A r \in Request : Answering(r)' => r # q /\ Answering(r) /\ deciding'[r] = deciding[r]
  BY <1>1, <1>2 DEF Answering, Ended
<1>9. LoginTypeOK'
  <2>1. asked' = [i \in Request |-> asked'[i]]
    BY <1>1
  <2>2. asked' \in [Request -> Row \union {NoRow}]
    BY <1>2, <1>5, <1>6, <2>1
  <2>3. deciding' \in [Request -> Decisions]
    BY <1>1, <1>2 DEF Decisions
  <2>4. logins' \subseteq Rows' \X Request
    BY <1>1, <1>2, <1>7 DEF LoginTypeOK
  <2> QED
    BY <1>1, <1>7, <2>2, <2>3, <2>4 DEF LoginTypeOK, Row
<1>10. RowsAreOver'
  <2>1. \A i \in Rows : deciding'[i] = Ended
    BY <1>1, <1>2 DEF RowsAreOver
  <2> QED
    BY <1>7, <1>8, <2>1 DEF RowsAreOver
<1>11. OpenUntilSaved'
  <2>1. ASSUME NEW r \in Request, Answering(r)', NEW i \in deciding'[r].rows \ overlap'
        PROVE  /\ ~asked'[i].approval
               /\ \A s \in Request \ {r} : Answering(s)' => i \notin deciding'[s].rows
    <3>1. r # q /\ Answering(r) /\ i \in deciding[r].rows \ overlap
      BY <1>1, <1>8, <2>1
    <3>2. /\ ~asked[i].approval
          /\ \A s \in Request \ {r} : Answering(s) => i \notin deciding[s].rows
      BY <3>1 DEF OpenUntilSaved
    <3>3. i \notin rows /\ i \in Request
      BY <1>2, <3>1, <3>2 DEF rows, RowsAreOver
    <3> QED
      BY <1>6, <1>8, <3>2, <3>3
  <2> QED
    BY <2>1 DEF OpenUntilSaved
<1>12. ApprovedIsClosed'
  <2>1. ASSUME NEW i \in Rows, asked'[i].approved
        PROVE  asked'[i].approval
    <3>1. CASE i \in rows
      BY <1>5, <3>1
    <3>2. CASE i \notin rows
      BY <1>2, <1>6, <2>1, <3>2 DEF ApprovedIsClosed
    <3> QED
      BY <3>1, <3>2
  <2> QED
    BY <1>7, <2>1 DEF ApprovedIsClosed
<1>13. SecondLoginHasCause'
  <2>1. ASSUME NEW l \in logins, l[1] \in rows
        PROVE  l[1] \in overlap
    <3>1. /\ l[1] \in Rows /\ l[2] \in Request /\ l = <<l[1], l[2]>>
      BY DEF LoginTypeOK
    <3>2. asked[l[1]].approved
      BY <3>1 DEF SecondLoginHasCause
    <3>3. asked[l[1]].approval
      BY <3>1, <3>2 DEF ApprovedIsClosed
    <3> QED
      BY <1>2, <2>1, <3>3 DEF OpenUntilSaved, rows
  <2>2. ASSUME NEW l \in logins', NEW m \in logins', l # m, l[1] = m[1]
        PROVE  l[1] \in overlap
    <3>1. CASE l \in logins /\ m \in logins
      BY <2>2, <3>1 DEF SecondLoginHasCause
    <3>2. CASE l \in rows \X {q} /\ m \in rows \X {q}
      BY <2>2, <3>2
    <3>3. CASE l \in logins /\ m \in rows \X {q}
      BY <2>1, <2>2, <3>3
    <3>4. CASE l \in rows \X {q} /\ m \in logins
      BY <2>1, <2>2, <3>4
    <3> QED
      BY <1>1, <3>1, <3>2, <3>3, <3>4
  <2>3. ASSUME NEW i \in Rows
        PROVE  asked'[i].approved <=> \E r \in Request : <<i, r>> \in logins'
    <3>1. CASE i \in rows
      <4>1. <<i, q>> \in logins'
        BY <1>1, <3>1
      <4> QED
        BY <1>5, <3>1, <4>1
    <3>2. CASE i \notin rows
      <4>1. \A r \in Request : <<i, r>> \in logins' <=> <<i, r>> \in logins
        BY <1>1, <3>2
      <4>2. asked[i].approved <=> \E r \in Request : <<i, r>> \in logins
        BY DEF SecondLoginHasCause
      <4> QED
        BY <1>2, <1>6, <3>2, <4>1, <4>2
    <3> QED
      BY <3>1, <3>2
  <2> QED
    BY <1>1, <1>7, <2>2, <2>3 DEF SecondLoginHasCause
<1> QED
  BY <1>9, <1>10, <1>11, <1>12, <1>13

LEMMA LoginInvSaveRejection ==
  ASSUME LoginInv, NEW q \in Request, SaveRejection(q)
  PROVE  LoginInv'
<1> USE DEF LoginInv
<1> DEFINE Row == [user: User, person: Person, approved: BOOLEAN, approval: BOOLEAN]
           rows == deciding[q].rows
<1>1. /\ deciding[q].at = "rejecting"
      /\ asked' = [i \in Request |->
                     IF i \in rows THEN [asked[i] EXCEPT !.approval = TRUE] ELSE asked[i]]
      /\ deciding' = [deciding EXCEPT ![q] = Ended]
      /\ UNCHANGED <<logins, overlap>>
  BY DEF SaveRejection
<1>2. /\ deciding \in [Request -> Decisions]
      /\ asked \in [Request -> Row \union {NoRow}]
      /\ Answering(q) /\ rows \subseteq Rows /\ Rows \subseteq Request
  BY <1>1 DEF LoginTypeOK, Answering, RowsAreOver, Rows
<1>3. \A i \in Rows : asked[i] \in Row
  BY <1>2 DEF Rows
<1>4. NoRow \notin Row
  BY StaffAssumption DEF NoRow
<1>5. \A i \in rows : /\ asked'[i] \in Row
                      /\ asked'[i].approved = asked[i].approved
                      /\ asked'[i].approval = TRUE
  BY <1>1, <1>2, <1>3
<1>6. \A i \in Request \ rows : asked'[i] = asked[i]
  BY <1>1
<1> HIDE DEF Row, rows
<1>7. Rows' = Rows
  BY <1>2, <1>4, <1>5, <1>6 DEF Rows
<1>8. \A r \in Request : Answering(r)' => r # q /\ Answering(r) /\ deciding'[r] = deciding[r]
  BY <1>1, <1>2 DEF Answering, Ended
<1>9. LoginTypeOK'
  <2>1. asked' = [i \in Request |-> asked'[i]]
    BY <1>1
  <2>2. asked' \in [Request -> Row \union {NoRow}]
    BY <1>2, <1>5, <1>6, <2>1
  <2>3. deciding' \in [Request -> Decisions]
    BY <1>1, <1>2 DEF Decisions
  <2> QED
    BY <1>1, <1>7, <2>2, <2>3 DEF LoginTypeOK, Row
<1>10. RowsAreOver'
  <2>1. \A i \in Rows : deciding'[i] = Ended
    BY <1>1, <1>2 DEF RowsAreOver
  <2> QED
    BY <1>7, <1>8, <2>1 DEF RowsAreOver
<1>11. OpenUntilSaved'
  <2>1. ASSUME NEW r \in Request, Answering(r)', NEW i \in deciding'[r].rows \ overlap'
        PROVE  /\ ~asked'[i].approval
               /\ \A s \in Request \ {r} : Answering(s)' => i \notin deciding'[s].rows
    <3>1. r # q /\ Answering(r) /\ i \in deciding[r].rows \ overlap
      BY <1>1, <1>8, <2>1
    <3>2. /\ ~asked[i].approval
          /\ \A s \in Request \ {r} : Answering(s) => i \notin deciding[s].rows
      BY <3>1 DEF OpenUntilSaved
    <3>3. i \notin rows /\ i \in Request
      BY <1>2, <3>1, <3>2 DEF rows, RowsAreOver
    <3> QED
      BY <1>6, <1>8, <3>2, <3>3
  <2> QED
    BY <2>1 DEF OpenUntilSaved
<1>12. ApprovedIsClosed'
  <2>1. ASSUME NEW i \in Rows, asked'[i].approved
        PROVE  asked'[i].approval
    <3>1. CASE i \in rows
      BY <1>5, <3>1
    <3>2. CASE i \notin rows
      BY <1>2, <1>6, <2>1, <3>2 DEF ApprovedIsClosed
    <3> QED
      BY <3>1, <3>2
  <2> QED
    BY <1>7, <2>1 DEF ApprovedIsClosed
<1>13. SecondLoginHasCause'
  <2>1. \A i \in Rows : asked'[i].approved <=> asked[i].approved
    BY <1>2, <1>5, <1>6
  <2> QED
    BY <1>1, <1>7, <2>1 DEF SecondLoginHasCause
<1> QED
  BY <1>9, <1>10, <1>11, <1>12, <1>13

LEMMA LoginInvStep ==
  ASSUME LoginInv, NEW q \in Request, LoginStep(q)
  PROVE  LoginInv'
<1>1. ASSUME NEW u \in User, NEW p \in Person, RequestUserLoginAssociation(q, u, p)
      PROVE  LoginInv'
  BY <1>1, LoginInvRequestUserLoginAssociation
<1>2. ASSUME NEW i \in Request, ApproveUserLoginRequest(q, i)
      PROVE  LoginInv'
  <2>1. {i} \in SUBSET Pending
    BY <1>2 DEF ApproveUserLoginRequest
  <2> QED
    BY <1>2, <2>1, LoginInvDecide DEF ApproveUserLoginRequest
<1>3. ASSUME NEW i \in Request, RejectUserLoginRequest(q, i)
      PROVE  LoginInv'
  <2>1. {i} \in SUBSET Pending
    BY <1>3 DEF RejectUserLoginRequest
  <2> QED
    BY <1>3, <2>1, LoginInvDecide DEF RejectUserLoginRequest
<1>4. CASE ApproveUserLoginRequests(q)
  <2>1. PICK S \in SUBSET Pending : S = Pending
    OBVIOUS
  <2> QED
    BY <1>4, <2>1, LoginInvDecide DEF ApproveUserLoginRequests
<1> QED
  BY <1>1, <1>2, <1>3, <1>4, LoginInvSaveUserLoginRequest, LoginInvSaveApproval,
     LoginInvSaveRejection DEF LoginStep

-----------------------------------------------------------------------------
(* Commissions: what a request has in hand.                                *)

(* A clone has read commissions and members of theirs; a commission that   *)
(* is still there is still of the source, unless it was moved.             *)
CopyOK(job) ==
  /\ DOMAIN job.commissions \subseteq 1 .. lastC
  /\ DOMAIN job.members \subseteq 1 .. lastM
  /\ \A c \in DOMAIN job.commissions :
       /\ job.commissions[c].group \in Group
       /\ job.commissions[c].president \in DOMAIN job.members =>
            job.members[job.commissions[c].president].commission = c
       /\ c \in DOMAIN commission =>
            commission[c].election = job.from \/ commission[c].election \in unsettled
  /\ \A m \in DOMAIN job.members :
       job.members[m] \in [commission: DOMAIN job.commissions, person: Person]

Deleting(job) == job.at \in {"strip", "gather", "erase"}

JobOK(job) ==
  /\ job.at = "add" => job.election \in Election /\ job.group \in Group
                       /\ job.person \in Person \union {None}
  /\ job.at = "seat" => job.commission \in 1 .. lastC /\ job.person \in Person
  /\ job.at = "put" => job.election \in Election
  /\ job.at = "join" => job.person \in Person
  /\ job.at = "remove" => job.commission \in 1 .. lastC
  /\ job.at = "preside" /\ job.member \in DOMAIN member =>
       member[job.member].commission = job.commission
  /\ job.at = "preside" => job.member \in 1 .. lastM
  /\ job.at = "strip" => DOMAIN job = {"at", "election", "all", "stripped"}
  /\ Deleting(job) /\ job.all /\ job.election \in cast => job.election \in during
  /\ job.at \in {"clone", "copy"} =>
       job.to \in Election /\ job.from # job.to /\ job.sgroup \in Group
  /\ job.at = "copy" => CopyOK(job)
  /\ job.at = "seatAll" =>
       /\ DOMAIN job.presidents \subseteq 1 .. lastC
       /\ \A c \in DOMAIN job.presidents :
            /\ job.presidents[c] \in 1 .. lastM
            /\ job.presidents[c] \in DOMAIN member =>
                 member[job.presidents[c]].commission = c

Jobs ==
  /\ editing = [q \in Request |-> editing[q]]
  /\ \A q \in Request : JobOK(editing[q])

CommissionInv ==
  /\ CommissionTypeOK /\ Jobs
  /\ PresidentSitsOnIt /\ HeadlessOnPurpose /\ GroupsAgree /\ VotesAreKept

(* What no request undoes: ids are not used again, a commissioner stays on *)
(* its commission, a commission moves only when that is marked.            *)
Forward ==
  /\ lastC \in Nat /\ lastC' \in Nat /\ lastC =< lastC'
  /\ lastM \in Nat /\ lastM' \in Nat /\ lastM =< lastM'
  /\ \A m \in DOMAIN member' : m \in 1 .. lastM =>
       m \in DOMAIN member /\ member'[m].commission = member[m].commission
  /\ \A c \in DOMAIN commission' : c \in 1 .. lastC =>
       /\ c \in DOMAIN commission
       /\ \/ commission'[c].election = commission[c].election
          \/ commission'[c].election \in unsettled'
  /\ unsettled \subseteq unsettled'
  /\ during \subseteq during'

LEMMA JobStays ==
  ASSUME Forward, NEW job, JobOK(job),
         Deleting(job) /\ job.all /\ job.election \in cast' => job.election \in during'
  PROVE  JobOK(job)'
<1>1. 1 .. lastC \subseteq 1 .. lastC' /\ 1 .. lastM \subseteq 1 .. lastM'
  BY DEF Forward
<1>2. job.at = "preside" /\ job.member \in DOMAIN member' =>
        member'[job.member].commission = job.commission
  BY DEF Forward, JobOK
<1>3. ASSUME job.at = "copy"
      PROVE  CopyOK(job)'
  <2>1. CopyOK(job)
    BY <1>3 DEF JobOK
  <2>2. ASSUME NEW c \in DOMAIN job.commissions, c \in DOMAIN commission'
        PROVE  commission'[c].election = job.from \/ commission'[c].election \in unsettled'
    <3>1. c \in DOMAIN commission
          /\ (\/ commission'[c].election = commission[c].election
              \/ commission'[c].election \in unsettled')
      BY <2>1, <2>2 DEF CopyOK, Forward
    <3>2. commission[c].election = job.from \/ commission[c].election \in unsettled
      BY <2>1, <3>1 DEF CopyOK
    <3> QED
      BY <3>1, <3>2 DEF Forward
  <2> QED
    BY <1>1, <2>1, <2>2 DEF CopyOK, Group
<1>4. ASSUME job.at = "seatAll"
      PROVE  /\ DOMAIN job.presidents \subseteq 1 .. lastC'
             /\ \A c \in DOMAIN job.presidents :
                  /\ job.presidents[c] \in 1 .. lastM'
                  /\ job.presidents[c] \in DOMAIN member' =>
                       member'[job.presidents[c]].commission = c
  <2>1. DOMAIN job.presidents \subseteq 1 .. lastC'
    BY <1>1, <1>4 DEF JobOK
  <2>2. ASSUME NEW c \in DOMAIN job.presidents
        PROVE  /\ job.presidents[c] \in 1 .. lastM'
               /\ job.presidents[c] \in DOMAIN member' =>
                    member'[job.presidents[c]].commission = c
    <3>1. /\ job.presidents[c] \in 1 .. lastM
          /\ job.presidents[c] \in DOMAIN member => member[job.presidents[c]].commission = c
      BY <1>4 DEF JobOK
    <3> QED
      BY <1>1, <3>1 DEF Forward
  <2> QED
    BY <2>1, <2>2
<1> QED
  BY <1>1, <1>2, <1>3, <1>4 DEF JobOK, Group

(* One request takes another job in hand, the others keep theirs.          *)
LEMMA JobsStep ==
  ASSUME Jobs, NEW q \in Request, NEW job, To(q, job), JobOK(job)', Forward, cast' \subseteq cast
  PROVE  Jobs'
<1>1. editing' = [r \in Request |-> editing'[r]]
  BY DEF Jobs, To
<1>2. ASSUME NEW r \in Request
      PROVE  JobOK(editing[r])'
  <2>1. CASE r = q
    <3>1. editing'[r] = job
      BY <2>1 DEF Jobs, To
    <3> QED
      BY <3>1
  <2>2. CASE r # q
    <3>1. PICK j : j = editing[r]
      OBVIOUS
    <3>2. editing'[r] = j
      BY <2>2, <3>1 DEF Jobs, To
    <3>3. JobOK(j)
      BY <3>1 DEF Jobs
    <3>4. JobOK(j)'
      <4>1. Deleting(j) /\ j.all /\ j.election \in cast' => j.election \in during'
        BY <3>3 DEF JobOK, Forward
      <4> QED
        BY <3>3, <4>1, JobStays
    <3> QED
      BY <3>2, <3>4
  <2> QED
    BY <2>1, <2>2
<1> QED
  BY <1>1, <1>2 DEF Jobs

-----------------------------------------------------------------------------
(* Commissions: the steps that only read.                                  *)

LEMMA SeatingOfOthers ==
  ASSUME Jobs, NEW q \in Request, NEW job, To(q, job), NEW r \in Request \ {q}
  PROVE  Seating(r)' = Seating(r)
<1>1. editing'[r] = editing[r]
  BY DEF Jobs, To
<1> QED
  BY <1>1 DEF Seating, In

LEMMA HeadlessStep ==
  ASSUME CommissionInv, NEW q \in Request, NEW job, To(q, job),
         \A c \in DOMAIN commission' : commission'[c].president = None =>
           \/ c \in headless' \union Seating(q)'
           \/ /\ c \in DOMAIN commission /\ commission[c].president = None
              /\ c \notin Seating(q) /\ (c \in headless => c \in headless')
  PROVE  HeadlessOnPurpose'
<1>1. ASSUME NEW c \in DOMAIN commission', commission'[c].president = None,
             c \notin headless' \union Seating(q)'
      PROVE  \E r \in Request : c \in Seating(r)'
  <2>1. /\ c \in DOMAIN commission /\ commission[c].president = None
        /\ c \notin Seating(q) /\ c \notin headless
    BY <1>1
  <2>2. PICK r \in Request : c \in Seating(r)
    BY <2>1 DEF CommissionInv, HeadlessOnPurpose
  <2>3. r # q
    BY <2>1, <2>2
  <2>4. Seating(r)' = Seating(r)
    BY <2>3, SeatingOfOthers DEF CommissionInv
  <2> QED
    BY <2>2, <2>4
<1> QED
  BY <1>1 DEF HeadlessOnPurpose

LEMMA CommissionInvInit == CommissionInit => CommissionInv
<1> SUFFICES ASSUME CommissionInit PROVE CommissionInv
  OBVIOUS
<1>1. DOMAIN commission = {} /\ DOMAIN member = {}
  BY DEF CommissionInit
<1>2. CommissionTypeOK
  <2>1. DOMAIN groupId \subseteq Election /\ \A e \in DOMAIN groupId : groupId[e] \in Group
    BY DEF CommissionInit, Group
  <2>2. lastC \in 0 .. MaxCommissions /\ lastM \in 0 .. MaxMembers
    BY StaffAssumption DEF CommissionInit
  <2> QED
    BY <1>1, <2>1, <2>2 DEF CommissionInit, CommissionTypeOK
<1>3. \A q \in Request : editing[q].at = "new"
  BY DEF CommissionInit, New
<1>4. Jobs
  BY <1>3 DEF Jobs, JobOK, Deleting, CommissionInit
<1>5. PresidentSitsOnIt /\ HeadlessOnPurpose /\ GroupsAgree /\ VotesAreKept
  BY <1>1 DEF PresidentSitsOnIt, HeadlessOnPurpose, GroupsAgree, VotesAreKept, CommissionInit
<1> QED
  BY <1>2, <1>4, <1>5 DEF CommissionInv

LEMMA CommissionInvStutter ==
  CommissionInv /\ UNCHANGED offices => CommissionInv'
BY DEF CommissionInv, offices, CommissionTypeOK, Group, Jobs, JobOK, CopyOK, Deleting,
       PresidentSitsOnIt, HeadlessOnPurpose, Seating, In, GroupsAgree, VotesAreKept

LEMMA LastIsNat ==
  ASSUME CommissionTypeOK
  PROVE  lastC \in Nat /\ lastM \in Nat
BY StaffAssumption DEF CommissionTypeOK

LEMMA Reading ==
  ASSUME CommissionInv, NEW q \in Request, NEW job, To(q, job),
         UNCHANGED <<groupId, active, cast, commissions, marks>>,
         JobOK(job), Seating(q) = {}
  PROVE  CommissionInv'
<1> USE DEF CommissionInv, commissions, marks
<1>1. CommissionTypeOK'
  BY DEF CommissionTypeOK, Group
<1>2. Forward
  BY LastIsNat DEF Forward
<1>3. JobOK(job)'
  BY DEF JobOK, CopyOK, Group, Deleting
<1>4. Jobs'
  BY <1>2, <1>3, JobsStep
<1>5. HeadlessOnPurpose'
  <2>1. \A c \in DOMAIN commission' : commission'[c].president = None =>
          /\ c \in DOMAIN commission /\ commission[c].president = None
          /\ c \notin Seating(q) /\ (c \in headless => c \in headless')
    OBVIOUS
  <2> QED
    BY <2>1, HeadlessStep
<1>6. PresidentSitsOnIt' /\ GroupsAgree' /\ VotesAreKept'
  BY DEF PresidentSitsOnIt, GroupsAgree, VotesAreKept
<1> QED
  BY <1>1, <1>4, <1>5, <1>6

LEMMA ReadingNew ==
  ASSUME NEW q \in Request, editing[q] = New
  PROVE  Seating(q) = {}
BY DEF New, Seating, In

LEMMA NoneIsNoId == \A n \in Nat : \A i \in 1 .. n : i # None
<1> SUFFICES ASSUME NEW n \in Nat, NEW i \in 1 .. n PROVE i # None
  OBVIOUS
<1>1. i \in Nat
  OBVIOUS
<1> QED
  BY <1>1, StaffAssumption

(* The rows as the types have them.                                        *)
LEMMA RowTypes ==
  ASSUME CommissionTypeOK
  PROVE  /\ DOMAIN groupId \subseteq Election
         /\ \A e \in DOMAIN groupId : groupId[e] \in Group
         /\ DOMAIN commission \subseteq 1 .. lastC /\ DOMAIN member \subseteq 1 .. lastM
         /\ \A c \in DOMAIN commission :
              /\ commission[c].election \in DOMAIN groupId
              /\ commission[c].group \in Group
              /\ commission[c].president \in DOMAIN member \union {None}
         /\ \A m \in DOMAIN member :
              member[m].commission \in DOMAIN commission /\ member[m].person \in Person
BY DEF CommissionTypeOK

LEMMA InvAddPSCommission ==
  ASSUME CommissionInv, NEW q \in Request, NEW e \in Election, NEW p \in Person \union {None},
         AddPSCommission(q, e, p)
  PROVE  CommissionInv'
<1>1. PICK job : job = [at |-> "add", election |-> e, group |-> groupId[e], person |-> p]
  OBVIOUS
<1>2. JobOK(job)
  BY <1>1, RowTypes DEF CommissionInv, AddPSCommission, JobOK, Deleting
<1> QED
  BY <1>1, <1>2, Reading, ReadingNew DEF AddPSCommission

LEMMA InvAddPollingStationComission ==
  ASSUME CommissionInv, NEW q \in Request, NEW e \in Election, NEW b \in BOOLEAN,
         AddPollingStationComission(q, e, b)
  PROVE  CommissionInv'
<1>1. PICK job : job = [at |-> "put", election |-> e, president |-> b]
  OBVIOUS
<1>2. JobOK(job)
  BY <1>1 DEF JobOK, Deleting
<1> QED
  BY <1>1, <1>2, Reading, ReadingNew DEF AddPollingStationComission

LEMMA InvUpdatePSCommissions ==
  ASSUME CommissionInv, NEW q \in Request, NEW c \in DOMAIN commission, NEW e \in Election,
         NEW b \in BOOLEAN, UpdatePSCommissions(q, c, e, b)
  PROVE  CommissionInv'
<1>1. PICK job : job = [at |-> "update", commission |-> c, president |-> b,
                        from |-> commission[c].election, to |-> e]
  OBVIOUS
<1>2. JobOK(job)
  BY <1>1 DEF JobOK, Deleting
<1> QED
  BY <1>1, <1>2, Reading, ReadingNew DEF UpdatePSCommissions

LEMMA InvJoin ==
  ASSUME CommissionInv, NEW q \in Request, NEW c \in DOMAIN commission, NEW p \in Person,
         AddPSCommissioner(q, c, p) \/ AddPSCommissionStaff(q, c, p)
  PROVE  CommissionInv'
<1>1. PICK job : job = [at |-> "join", commission |-> c, person |-> p]
  OBVIOUS
<1>2. JobOK(job)
  BY <1>1 DEF JobOK, Deleting
<1> QED
  BY <1>1, <1>2, Reading, ReadingNew DEF AddPSCommissioner, AddPSCommissionStaff

LEMMA InvRemove ==
  ASSUME CommissionInv, NEW q \in Request, NEW m \in DOMAIN member,
         RemovePSCommissioner(q, m) \/ DeletePSCommissionStaff(q, m)
  PROVE  CommissionInv'
<1>1. PICK clear : /\ editing[q] = New
                   /\ To(q, [at |-> "remove", member |-> m,
                             commission |-> member[m].commission, clear |-> clear])
                   /\ UNCHANGED <<groupId, active, cast, commissions, marks>>
  BY DEF RemovePSCommissioner, DeletePSCommissionStaff
<1>2. PICK job : job = [at |-> "remove", member |-> m,
                        commission |-> member[m].commission, clear |-> clear]
  OBVIOUS
<1>3. member[m].commission \in 1 .. lastC
  BY RowTypes DEF CommissionInv
<1>4. JobOK(job)
  BY <1>2, <1>3 DEF JobOK, Deleting
<1> QED
  BY <1>1, <1>2, <1>4, Reading, ReadingNew

LEMMA InvSetAsPresident ==
  ASSUME CommissionInv, NEW q \in Request, NEW m \in DOMAIN member, SetAsPresident(q, m)
  PROVE  CommissionInv'
<1>1. PICK job : job = [at |-> "preside", member |-> m, commission |-> member[m].commission]
  OBVIOUS
<1>2. JobOK(job)
  BY <1>1, RowTypes DEF CommissionInv, JobOK, Deleting
<1> QED
  BY <1>1, <1>2, Reading, ReadingNew DEF SetAsPresident

LEMMA InvDelete ==
  ASSUME CommissionInv, NEW q \in Request, NEW e \in Election, Delete(q, e)
  PROVE  CommissionInv'
<1>1. PICK at \in {"strip", "gather"} :
        \E S : To(q, [at |-> at, election |-> e, all |-> TRUE, stripped |-> S])
  BY DEF Delete
<1>2. PICK S : To(q, [at |-> at, election |-> e, all |-> TRUE, stripped |-> S])
  BY <1>1
<1>3. PICK job : job = [at |-> at, election |-> e, all |-> TRUE, stripped |-> S]
  OBVIOUS
<1>4. e \notin cast
  BY DEF Delete
<1>5. /\ job.at \in {"strip", "gather"} /\ job.election = e
      /\ DOMAIN job = {"at", "election", "all", "stripped"}
  BY <1>1, <1>3
<1>6. JobOK(job)
  BY <1>4, <1>5 DEF JobOK, Deleting
<1> QED
  BY <1>2, <1>3, <1>6, Reading, ReadingNew DEF Delete

LEMMA InvDeletePSCommission ==
  ASSUME CommissionInv, NEW q \in Request, NEW c \in DOMAIN commission,
         DeletePSCommission(q, c)
  PROVE  CommissionInv'
<1>1. PICK at \in {"strip", "gather"} :
        \E e, S : To(q, [at |-> at, election |-> e, all |-> FALSE, stripped |-> S])
  BY DEF DeletePSCommission
<1>2. PICK e, S : To(q, [at |-> at, election |-> e, all |-> FALSE, stripped |-> S])
  BY <1>1
<1>3. PICK job : job = [at |-> at, election |-> e, all |-> FALSE, stripped |-> S]
  OBVIOUS
<1>4. /\ job.at \in {"strip", "gather"} /\ ~job.all
      /\ DOMAIN job = {"at", "election", "all", "stripped"}
  BY <1>1, <1>3
<1>5. JobOK(job)
  BY <1>4 DEF JobOK, Deleting
<1> QED
  BY <1>2, <1>3, <1>5, Reading, ReadingNew DEF DeletePSCommission

LEMMA InvGather ==
  ASSUME CommissionInv, NEW q \in Request, Gather(q)
  PROVE  CommissionInv'
<1>1. PICK C, M : To(q, [at |-> "erase", election |-> editing[q].election,
                         all |-> editing[q].all, commissions |-> C, members |-> M])
  BY DEF Gather
<1>2. PICK job : job = [at |-> "erase", election |-> editing[q].election,
                        all |-> editing[q].all, commissions |-> C, members |-> M]
  OBVIOUS
<1>3. job.at = "erase" /\ job.election = editing[q].election /\ (job.all <=> editing[q].all)
  BY <1>2
<1>4. editing[q].at = "gather" /\ JobOK(editing[q])
  BY DEF CommissionInv, Jobs, Gather, In
<1>5. JobOK(job)
  BY <1>3, <1>4 DEF JobOK, Deleting
<1>6. Seating(q) = {}
  BY <1>4 DEF Seating, In
<1> QED
  BY <1>1, <1>2, <1>5, <1>6, Reading DEF Gather

LEMMA InvClonePSCommissions ==
  ASSUME CommissionInv, NEW q \in Request, NEW s \in Election, NEW d \in Election,
         NEW upcoming \in BOOLEAN, ClonePSCommissions(q, s, d, upcoming)
  PROVE  CommissionInv'
<1>1. PICK fresh : To(q, [at |-> "clone", from |-> s, to |-> d, upcoming |-> upcoming,
                          fresh |-> fresh, sgroup |-> groupId[s], dgroup |-> groupId[d]])
  BY DEF ClonePSCommissions
<1>2. PICK job : job = [at |-> "clone", from |-> s, to |-> d, upcoming |-> upcoming,
                        fresh |-> fresh, sgroup |-> groupId[s], dgroup |-> groupId[d]]
  OBVIOUS
<1>3. job.at = "clone" /\ job.from = s /\ job.to = d /\ job.sgroup = groupId[s]
  BY <1>2
<1>4. s # d /\ groupId[s] \in Group
  BY RowTypes DEF CommissionInv, ClonePSCommissions
<1>5. JobOK(job)
  BY <1>3, <1>4 DEF JobOK, Deleting
<1> QED
  BY <1>1, <1>2, <1>5, Reading, ReadingNew DEF ClonePSCommissions

LEMMA InvReadCommissions ==
  ASSUME CommissionInv, NEW q \in Request, ReadCommissions(q)
  PROVE  CommissionInv'
<1> DEFINE s == editing[q].from
           C == CommissionsOf(s)
           M == MembersOf(C)
<1>1. PICK job : job = [at |-> "copy", from |-> s, to |-> editing[q].to,
                        upcoming |-> editing[q].upcoming, fresh |-> editing[q].fresh,
                        sgroup |-> editing[q].sgroup, dgroup |-> editing[q].dgroup,
                        commissions |-> Restrict(commission, C),
                        members |-> Restrict(member, M)]
  OBVIOUS
<1>2. /\ job.at = "copy" /\ job.from = s /\ job.to = editing[q].to
      /\ job.sgroup = editing[q].sgroup
      /\ job.commissions = [c \in C |-> commission[c]]
      /\ job.members = [m \in M |-> member[m]]
  BY <1>1 DEF Restrict
<1>3. editing[q].at = "clone" /\ JobOK(editing[q])
  BY DEF CommissionInv, Jobs, ReadCommissions, In
<1>4. C \subseteq DOMAIN commission /\ \A c \in C : commission[c].election = s
  BY DEF CommissionsOf
<1>5. M \subseteq DOMAIN member /\ \A m \in M : member[m].commission \in C
  BY DEF MembersOf
<1>6. /\ DOMAIN job.commissions = C /\ \A c \in C : job.commissions[c] = commission[c]
      /\ DOMAIN job.members = M /\ \A m \in M : job.members[m] = member[m]
  BY <1>2
<1> HIDE DEF C, M
<1>7. CopyOK(job)
  <2>1. C \subseteq 1 .. lastC /\ M \subseteq 1 .. lastM
    BY <1>4, <1>5, RowTypes DEF CommissionInv
  <2>2. ASSUME NEW c \in C
        PROVE  /\ job.commissions[c].group \in Group
               /\ job.commissions[c].president \in M =>
                    job.members[job.commissions[c].president].commission = c
               /\ commission[c].election = job.from
    <3>1. commission[c].group \in Group
      BY <1>4, RowTypes DEF CommissionInv
    <3>2. ASSUME commission[c].president \in M
          PROVE  member[commission[c].president].commission = c
      <4>1. commission[c].president \in 1 .. lastM /\ lastM \in Nat
        BY <2>1, <3>2, LastIsNat DEF CommissionInv
      <4>2. commission[c].president # None
        BY <4>1, NoneIsNoId
      <4> QED
        BY <1>4, <4>2 DEF CommissionInv, PresidentSitsOnIt
    <3> QED
      BY <1>2, <1>4, <1>6, <3>1, <3>2
  <2>3. \A m \in M : job.members[m] \in [commission: C, person: Person]
    <3>1. ASSUME NEW m \in M
          PROVE  member[m] \in [commission: C, person: Person]
      <4>1. member[m] \in [commission: DOMAIN commission, person: Person]
        BY <1>5 DEF CommissionInv, CommissionTypeOK
      <4> QED
        BY <1>5, <4>1
    <3> QED
      BY <1>6, <3>1
  <2> QED
    BY <1>6, <2>1, <2>2, <2>3 DEF CopyOK
<1>8. JobOK(job)
  BY <1>2, <1>3, <1>7 DEF JobOK, Deleting
<1>9. Seating(q) = {}
  BY <1>3 DEF Seating, In
<1>10. To(q, job) /\ UNCHANGED <<groupId, active, cast, commissions, marks>>
  BY <1>1 DEF ReadCommissions, C, M
<1> QED
  BY <1>8, <1>9, <1>10, Reading

-----------------------------------------------------------------------------
(* Commissions: the steps that save.                                       *)

LEMMA DoneIsOK == JobOK(Done) /\ JobOK(Done)'
BY DEF Done, JobOK, Deleting

LEMMA DoneSeatsNone ==
  ASSUME Jobs, NEW q \in Request, To(q, Done)
  PROVE  Seating(q)' = {}
BY DEF Jobs, To, Done, Seating, In

LEMMA InvFail ==
  ASSUME CommissionInv, NEW q \in Request, Fail(q)
  PROVE  CommissionInv'
<1> USE DEF CommissionInv, commissions
<1>1. /\ headless' = headless \union (Seating(q) \intersect DOMAIN commission)
      /\ To(q, Done)
      /\ UNCHANGED <<groupId, active, cast, commissions, unsettled, lost, during>>
  BY DEF Fail
<1>2. CommissionTypeOK'
  BY <1>1 DEF CommissionTypeOK, Group
<1>3. Forward
  BY <1>1, LastIsNat DEF Forward
<1>4. Jobs'
  BY <1>1, <1>3, DoneIsOK, JobsStep
<1>5. HeadlessOnPurpose'
  <2>1. \A c \in DOMAIN commission' : commission'[c].president = None =>
          \/ c \in headless'
          \/ /\ c \in DOMAIN commission /\ commission[c].president = None
             /\ c \notin Seating(q) /\ (c \in headless => c \in headless')
    BY <1>1
  <2> QED
    BY <1>1, <2>1, HeadlessStep
<1>6. PresidentSitsOnIt' /\ GroupsAgree' /\ VotesAreKept'
  BY <1>1 DEF PresidentSitsOnIt, GroupsAgree, VotesAreKept
<1> QED
  BY <1>2, <1>4, <1>5, <1>6

(* The elections go on.                                                    *)
LEMMA SeatingStays ==
  ASSUME UNCHANGED editing, NEW r \in Request
  PROVE  Seating(r)' = Seating(r)
BY DEF Seating, In

LEMMA InvElectionControl ==
  ASSUME CommissionInv, NEW e \in Election, ElectionControl(e)
  PROVE  CommissionInv'
<1> USE DEF CommissionInv, commissions, marks
<1>1. /\ active' \subseteq active \union {e}
      /\ UNCHANGED <<groupId, cast, commissions, editing, marks>>
  BY DEF ElectionControl
<1>2. CommissionTypeOK'
  BY <1>1 DEF CommissionTypeOK, Group
<1>3. Jobs'
  BY <1>1 DEF Jobs, JobOK, CopyOK, Deleting, Group
<1>4. HeadlessOnPurpose'
  BY <1>1, SeatingStays DEF HeadlessOnPurpose
<1>5. PresidentSitsOnIt' /\ GroupsAgree' /\ VotesAreKept'
  BY <1>1 DEF PresidentSitsOnIt, GroupsAgree, VotesAreKept
<1> QED
  BY <1>2, <1>3, <1>4, <1>5

LEMMA InvRecordVote ==
  ASSUME CommissionInv, NEW e \in Election, RecordVote(e)
  PROVE  CommissionInv'
<1> USE DEF CommissionInv, commissions
<1>1. /\ cast' = cast \union {e}
      /\ during' = during \union
           {f \in {e} : \E q \in Request : editing[q].at \in {"strip", "gather", "erase"}
                                           /\ editing[q].election = e}
      /\ UNCHANGED <<groupId, active, commissions, editing, headless, unsettled, lost>>
  BY DEF RecordVote
<1>2. CommissionTypeOK'
  BY <1>1 DEF CommissionTypeOK, Group
<1>3. Forward
  BY <1>1, LastIsNat DEF Forward
<1>4. ASSUME NEW q \in Request
      PROVE  JobOK(editing[q])'
  <2>1. PICK j : j = editing[q]
    OBVIOUS
  <2>2. JobOK(j)
    BY <2>1 DEF Jobs
  <2>3. Deleting(j) /\ j.all /\ j.election \in cast' => j.election \in during'
    <3>1. CASE j.election \in cast
      BY <1>1, <2>2, <3>1 DEF JobOK
    <3>2. CASE j.election \notin cast
      BY <1>1, <2>1, <3>2 DEF Deleting
    <3> QED
      BY <3>1, <3>2
  <2>4. JobOK(j)'
    BY <1>3, <2>2, <2>3, JobStays
  <2> QED
    BY <1>1, <2>1, <2>4
<1>5. Jobs'
  BY <1>1, <1>4 DEF Jobs
<1>6. HeadlessOnPurpose'
  BY <1>1, SeatingStays DEF HeadlessOnPurpose
<1>7. PresidentSitsOnIt' /\ GroupsAgree' /\ VotesAreKept'
  BY <1>1 DEF PresidentSitsOnIt, GroupsAgree, VotesAreKept
<1> QED
  BY <1>2, <1>5, <1>6, <1>7

(* A new commission.                                                       *)
LEMMA InsertedRow ==
  ASSUME CommissionTypeOK, NEW e, NEW g, Insert(e, g), NEW n, n = lastC'
  PROVE  /\ n = lastC + 1 /\ n \in Nat /\ n \in 1 .. n /\ n =< MaxCommissions
         /\ n \notin DOMAIN commission /\ n \notin 1 .. lastC
         /\ 1 .. lastC \subseteq 1 .. n
         /\ e \in DOMAIN groupId
         /\ DOMAIN commission' = DOMAIN commission \union {n}
         /\ commission'[n] = [election |-> e, group |-> g, president |-> None]
         /\ \A c \in DOMAIN commission : commission'[c] = commission[c]
         /\ UNCHANGED <<groupId, active, cast, member, lastM, lost, during>>
<1>1. lastC \in Nat /\ DOMAIN commission \subseteq 1 .. lastC
  BY LastIsNat, RowTypes
<1>2. n = lastC + 1 /\ n \in Nat /\ n \notin 1 .. lastC
  BY <1>1 DEF Insert
<1>3. n \notin DOMAIN commission
  BY <1>1, <1>2
<1>4. n =< MaxCommissions /\ n \in 1 .. n /\ 1 .. lastC \subseteq 1 .. n
  BY <1>1, <1>2, StaffAssumption DEF Insert
<1>5. /\ DOMAIN commission' = DOMAIN commission \union {n}
      /\ commission'[n] = NewCommission(e, g)
      /\ \A c \in DOMAIN commission : commission'[c] = commission[c]
  BY <1>3 DEF Insert
<1> QED
  BY <1>2, <1>3, <1>4, <1>5 DEF Insert, NewCommission

LEMMA InvInsert ==
  ASSUME CommissionInv, NEW q \in Request, NEW e, NEW g, g \in Group, Insert(e, g),
         NEW n, n = lastC',
         NEW job, To(q, job), JobOK(job)',
         unsettled \subseteq unsettled', unsettled' \subseteq Election,
         g = groupId[e] \/ e \in unsettled',
         headless \subseteq headless', headless' \subseteq headless \union {n},
         n \in headless' \union Seating(q)', Seating(q) = {}
  PROVE  CommissionInv'
<1> USE DEF CommissionInv
<1>1. /\ n = lastC + 1 /\ n \in Nat /\ n \in 1 .. n /\ n =< MaxCommissions
      /\ n \notin DOMAIN commission /\ n \notin 1 .. lastC
      /\ 1 .. lastC \subseteq 1 .. n
      /\ e \in DOMAIN groupId
      /\ DOMAIN commission' = DOMAIN commission \union {n}
      /\ commission'[n] = [election |-> e, group |-> g, president |-> None]
      /\ \A c \in DOMAIN commission : commission'[c] = commission[c]
      /\ UNCHANGED <<groupId, active, cast, member, lastM, lost, during>>
  BY InsertedRow
<1>2. CommissionTypeOK'
  <2>1. lastC' \in 0 .. MaxCommissions /\ DOMAIN commission' \subseteq 1 .. lastC'
    BY <1>1, RowTypes, StaffAssumption
  <2>2. \A c \in DOMAIN commission' :
          commission'[c] \in [election: DOMAIN groupId', group: Group,
                              president: DOMAIN member' \union {None}]
    <3>1. ASSUME NEW c \in DOMAIN commission
          PROVE  commission'[c] \in [election: DOMAIN groupId', group: Group,
                                     president: DOMAIN member' \union {None}]
      BY <1>1 DEF CommissionTypeOK
    <3>2. commission'[n] \in [election: DOMAIN groupId', group: Group,
                              president: DOMAIN member' \union {None}]
      BY <1>1
    <3> QED
      BY <1>1, <3>1, <3>2
  <2>3. \A m \in DOMAIN member' :
          member'[m] \in [commission: DOMAIN commission', person: Person]
    BY <1>1 DEF CommissionTypeOK
  <2>4. headless' \subseteq 1 .. lastC'
    BY <1>1 DEF CommissionTypeOK
  <2> QED
    BY <1>1, <2>1, <2>2, <2>3, <2>4 DEF CommissionTypeOK, Group
<1>3. Forward
  BY <1>1, LastIsNat DEF Forward
<1>4. Jobs'
  BY <1>1, <1>3, JobsStep
<1>5. HeadlessOnPurpose'
  <2>1. ASSUME NEW c \in DOMAIN commission', commission'[c].president = None
        PROVE  \/ c \in headless' \union Seating(q)'
               \/ /\ c \in DOMAIN commission /\ commission[c].president = None
                  /\ c \notin Seating(q) /\ (c \in headless => c \in headless')
    BY <1>1, <2>1
  <2> QED
    BY <2>1, HeadlessStep
<1>6. PresidentSitsOnIt'
  BY <1>1 DEF PresidentSitsOnIt
<1>7. GroupsAgree'
  BY <1>1 DEF GroupsAgree
<1>8. VotesAreKept'
  BY <1>1 DEF VotesAreKept
<1> QED
  BY <1>2, <1>4, <1>5, <1>6, <1>7, <1>8

LEMMA InvSaveCommission ==
  ASSUME CommissionInv, NEW q \in Request, SaveCommission(q)
  PROVE  CommissionInv'
<1> USE DEF CommissionInv
<1>1. PICK e, g, p : e = editing[q].election /\ g = editing[q].group /\ p = editing[q].person
  OBVIOUS
<1>2. PICK n : n = lastC'
  OBVIOUS
<1>3. /\ editing[q].at = "add" /\ JobOK(editing[q])
  BY DEF Jobs, SaveCommission, In
<1>4. e \in Election /\ g \in Group /\ p \in Person \union {None} /\ Seating(q) = {}
  BY <1>1, <1>3 DEF JobOK, Seating, In
<1>5. Insert(e, g) /\ unsettled' = unsettled \union {f \in {e} : groupId[f] # g}
  BY <1>1 DEF SaveCommission
<1>6. /\ unsettled \subseteq unsettled' /\ unsettled' \subseteq Election
      /\ g = groupId[e] \/ e \in unsettled'
  BY <1>4, <1>5 DEF CommissionTypeOK
<1>7. CASE p = None
  <2>1. To(q, Done) /\ headless' = headless \union {n}
    BY <1>1, <1>2, <1>7 DEF SaveCommission
  <2> QED
    BY <1>2, <1>4, <1>5, <1>6, <2>1, DoneIsOK, InvInsert
<1>8. CASE p # None
  <2>1. To(q, [at |-> "seat", commission |-> n, person |-> p]) /\ headless' = headless
    BY <1>1, <1>2, <1>8 DEF SaveCommission
  <2>2. PICK job : job = [at |-> "seat", commission |-> n, person |-> p]
    OBVIOUS
  <2>3. n \in 1 .. lastC'
    BY <1>2, <1>5, InsertedRow
  <2>4. JobOK(job)'
    BY <1>4, <1>8, <2>2, <2>3 DEF JobOK, Deleting
  <2>5. editing'[q] = job
    BY <2>1, <2>2 DEF Jobs, To
  <2>6. n \in Seating(q)'
    BY <2>2, <2>5 DEF Seating, In
  <2> QED
    BY <1>2, <1>4, <1>5, <1>6, <2>1, <2>2, <2>4, <2>6, InvInsert
<1> QED
  BY <1>7, <1>8

LEMMA InvNewPSCommissions ==
  ASSUME CommissionInv, NEW q \in Request, NewPSCommissions(q)
  PROVE  CommissionInv'
<1> USE DEF CommissionInv
<1>1. PICK e, n : e = editing[q].election /\ n = lastC'
  OBVIOUS
<1>2. editing[q].at = "put" /\ JobOK(editing[q])
  BY DEF Jobs, NewPSCommissions, In
<1>3. e \in Election /\ Seating(q) = {}
  BY <1>1, <1>2 DEF JobOK, Seating, In
<1>4. /\ Insert(e, None) /\ unsettled' = unsettled \union {e}
      /\ headless' = headless \union {n} /\ To(q, Done)
  BY <1>1 DEF NewPSCommissions
<1>5. None \in Group /\ unsettled' \subseteq Election
  BY <1>3, <1>4 DEF CommissionTypeOK, Group
<1> QED
  BY <1>1, <1>3, <1>4, <1>5, DoneIsOK, InvInsert

LEMMA InvSaveUpdatePSCommissions ==
  ASSUME CommissionInv, NEW q \in Request, SaveUpdatePSCommissions(q)
  PROVE  CommissionInv'
<1> USE DEF CommissionInv
<1>0. PICK c, e, moved : c = editing[q].commission /\ e = editing[q].to
                         /\ moved = {e} \ {editing[q].from}
  OBVIOUS
<1>1. /\ editing[q].at = "update" /\ moved \subseteq DOMAIN groupId
      /\ commission' = IF moved = {} THEN commission
                       ELSE [commission EXCEPT ![c].election = e]
      /\ unsettled' = unsettled \union moved
      /\ To(q, Done)
      /\ UNCHANGED <<groupId, active, cast, member, lastC, lastM, headless, lost, during>>
  BY <1>0 DEF SaveUpdatePSCommissions, In
<1>2. /\ DOMAIN commission' = DOMAIN commission /\ Seating(q) = {}
      /\ moved # {} => e \in moved
      /\ unsettled' \subseteq Election
  BY <1>0, <1>1 DEF Seating, In, CommissionTypeOK
<1>3. ASSUME NEW d \in DOMAIN commission
      PROVE  /\ commission'[d] \in [election: DOMAIN groupId, group: Group,
                                    president: DOMAIN member \union {None}]
             /\ commission'[d].president = commission[d].president
             /\ commission'[d].group = commission[d].group
             /\ \/ commission'[d].election = commission[d].election
                \/ commission'[d].election \in unsettled'
  <2>1. commission[d] \in [election: DOMAIN groupId, group: Group,
                           president: DOMAIN member \union {None}]
    BY DEF CommissionTypeOK
  <2>2. CASE d = c /\ moved # {}
    <3>1. commission'[d] = [commission[d] EXCEPT !.election = e]
      BY <1>1, <2>2
    <3> QED
      BY <1>1, <1>2, <2>1, <2>2, <3>1
  <2>3. CASE d # c \/ moved = {}
    BY <1>1, <2>1, <2>3
  <2> QED
    BY <2>2, <2>3
<1>4. CommissionTypeOK'
  BY <1>1, <1>2, <1>3 DEF CommissionTypeOK, Group
<1>5. Forward
  BY <1>1, <1>2, <1>3, LastIsNat DEF Forward
<1>6. Jobs'
  BY <1>1, <1>5, DoneIsOK, JobsStep
<1>7. HeadlessOnPurpose'
  <2>1. \A d \in DOMAIN commission' : commission'[d].president = None =>
          /\ d \in DOMAIN commission /\ commission[d].president = None
          /\ d \notin Seating(q) /\ (d \in headless => d \in headless')
    BY <1>1, <1>2, <1>3
  <2> QED
    BY <1>1, <2>1, HeadlessStep
<1>8. PresidentSitsOnIt'
  BY <1>1, <1>2, <1>3 DEF PresidentSitsOnIt
<1>9. GroupsAgree'
  BY <1>1, <1>2, <1>3 DEF GroupsAgree
<1>10. VotesAreKept'
  BY <1>1 DEF VotesAreKept
<1> QED
  BY <1>4, <1>6, <1>7, <1>8, <1>9, <1>10

(* A new commissioner.                                                     *)
LEMMA AddedMember ==
  ASSUME CommissionTypeOK, NEW n, n = lastM', NEW c \in DOMAIN commission, NEW p \in Person,
         lastM < MaxMembers, lastM' = lastM + 1,
         member' = [m \in DOMAIN member \union {lastM'} |->
                      IF m = lastM' THEN [commission |-> c, person |-> p] ELSE member[m]]
  PROVE  /\ n = lastM + 1 /\ n \in Nat /\ n \in 1 .. n /\ n \in 0 .. MaxMembers /\ n # None
         /\ n \notin DOMAIN member /\ n \notin 1 .. lastM /\ 1 .. lastM \subseteq 1 .. n
         /\ DOMAIN member' = DOMAIN member \union {n}
         /\ member'[n] = [commission |-> c, person |-> p]
         /\ \A m \in DOMAIN member : member'[m] = member[m]
         /\ DOMAIN member' \subseteq 1 .. lastM'
         /\ \A m \in DOMAIN member' :
              member'[m] \in [commission: DOMAIN commission, person: Person]
<1>1. lastM \in Nat /\ DOMAIN member \subseteq 1 .. lastM
  BY LastIsNat, RowTypes
<1>2. n = lastM + 1 /\ n \in Nat /\ n \notin 1 .. lastM
  BY <1>1
<1>3. n \notin DOMAIN member
  BY <1>1, <1>2
<1>4. n \in 0 .. MaxMembers /\ n \in 1 .. n /\ 1 .. lastM \subseteq 1 .. n
  BY <1>1, <1>2, StaffAssumption
<1>5. /\ DOMAIN member' = DOMAIN member \union {n}
      /\ member'[n] = [commission |-> c, person |-> p]
      /\ \A m \in DOMAIN member : member'[m] = member[m]
  BY <1>3
<1>6. \A m \in DOMAIN member : member[m] \in [commission: DOMAIN commission, person: Person]
  BY DEF CommissionTypeOK
<1>7. n # None
  BY <1>2, StaffAssumption
<1> QED
  BY <1>1, <1>2, <1>3, <1>4, <1>5, <1>6, <1>7

LEMMA InvSaveCommissioner ==
  ASSUME CommissionInv, NEW q \in Request, SaveCommissioner(q)
  PROVE  CommissionInv'
<1> USE DEF CommissionInv, marks
<1>1. PICK c, p, n : c = editing[q].commission /\ p = editing[q].person /\ n = lastM'
  OBVIOUS
<1>2. editing[q].at = "join" /\ JobOK(editing[q])
  BY DEF Jobs, SaveCommissioner, In
<1>3. c \in DOMAIN commission /\ p \in Person /\ Seating(q) = {}
  BY <1>1, <1>2 DEF JobOK, Seating, In, SaveCommissioner
<1>4. /\ To(q, Done)
      /\ UNCHANGED <<groupId, active, cast, commission, lastC, marks>>
  BY DEF SaveCommissioner
<1>5. /\ n = lastM + 1 /\ n \in Nat /\ n \in 0 .. MaxMembers
      /\ n \notin DOMAIN member /\ n \notin 1 .. lastM
      /\ DOMAIN member' = DOMAIN member \union {n}
      /\ \A m \in DOMAIN member : member'[m] = member[m]
      /\ DOMAIN member' \subseteq 1 .. lastM'
      /\ \A m \in DOMAIN member' :
           member'[m] \in [commission: DOMAIN commission, person: Person]
  <2>1. /\ lastM < MaxMembers /\ lastM' = lastM + 1
        /\ member' = [m \in DOMAIN member \union {lastM'} |->
                        IF m = lastM' THEN [commission |-> c, person |-> p] ELSE member[m]]
    BY <1>1 DEF SaveCommissioner
  <2> QED
    BY <1>1, <1>3, <2>1, AddedMember
<1>6. CommissionTypeOK'
  <2>1. \A c1 \in DOMAIN commission' :
          commission'[c1] \in [election: DOMAIN groupId', group: Group,
                               president: DOMAIN member' \union {None}]
    BY <1>4, <1>5 DEF CommissionTypeOK
  <2> QED
    BY <1>1, <1>4, <1>5, <2>1 DEF CommissionTypeOK, Group
<1>7. Forward
  BY <1>1, <1>4, <1>5, LastIsNat DEF Forward
<1>8. Jobs'
  BY <1>4, <1>7, DoneIsOK, JobsStep
<1>9. HeadlessOnPurpose'
  <2>1. \A d \in DOMAIN commission' : commission'[d].president = None =>
          /\ d \in DOMAIN commission /\ commission[d].president = None
          /\ d \notin Seating(q) /\ (d \in headless => d \in headless')
    BY <1>3, <1>4
  <2> QED
    BY <1>4, <2>1, HeadlessStep
<1>10. PresidentSitsOnIt'
  BY <1>4, <1>5, RowTypes DEF PresidentSitsOnIt
<1>11. GroupsAgree' /\ VotesAreKept'
  BY <1>4 DEF GroupsAgree, VotesAreKept
<1> QED
  BY <1>6, <1>8, <1>9, <1>10, <1>11

(* Steps that change nothing but presidents.                               *)
LEMMA InvPresidents ==
  ASSUME CommissionInv, NEW q \in Request, NEW job, To(q, job), JobOK(job)',
         UNCHANGED <<groupId, active, cast, member, lastC, lastM, unsettled, lost, during>>,
         DOMAIN commission' = DOMAIN commission,
         headless' \subseteq 1 .. lastC,
         \A c \in DOMAIN commission :
           /\ \/ commission'[c] = commission[c]
              \/ \E p : /\ commission'[c] = [commission[c] EXCEPT !.president = p]
                        /\ p = None \/ (p \in DOMAIN member /\ member[p].commission = c)
           /\ commission'[c].president = None =>
                \/ c \in headless'
                \/ /\ commission[c].president = None /\ c \notin Seating(q)
                   /\ (c \in headless => c \in headless')
  PROVE  CommissionInv'
<1> USE DEF CommissionInv
<1> DEFINE Rec == [election: DOMAIN groupId, group: Group, president: DOMAIN member \union {None}]
<1>1. ASSUME NEW c \in DOMAIN commission
      PROVE  /\ commission'[c] \in Rec
             /\ commission'[c].election = commission[c].election
             /\ commission'[c].group = commission[c].group
             /\ commission'[c].president # None =>
                  member[commission'[c].president].commission = c
  <2>1. commission[c] \in Rec
    BY DEF CommissionTypeOK
  <2>2. CASE commission'[c] = commission[c]
    BY <2>1, <2>2 DEF PresidentSitsOnIt
  <2>3. ASSUME NEW p, commission'[c] = [commission[c] EXCEPT !.president = p],
               p = None \/ (p \in DOMAIN member /\ member[p].commission = c)
        PROVE  /\ commission'[c] \in Rec
               /\ commission'[c].election = commission[c].election
               /\ commission'[c].group = commission[c].group
               /\ commission'[c].president # None =>
                    member[commission'[c].president].commission = c
    BY <2>1, <2>3
  <2> QED
    BY <2>2, <2>3
<1>2. CommissionTypeOK'
  BY <1>1 DEF CommissionTypeOK, Group
<1>3. Forward
  BY <1>1, LastIsNat DEF Forward
<1>4. Jobs'
  BY <1>3, JobsStep
<1>5. HeadlessOnPurpose'
  BY HeadlessStep
<1>6. PresidentSitsOnIt'
  BY <1>1 DEF PresidentSitsOnIt
<1>7. GroupsAgree' /\ VotesAreKept'
  BY <1>1 DEF GroupsAgree, VotesAreKept
<1> QED
  BY <1>2, <1>4, <1>5, <1>6, <1>7

LEMMA InvSaveSetAsPresident ==
  ASSUME CommissionInv, NEW q \in Request, SaveSetAsPresident(q)
  PROVE  CommissionInv'
<1>1. PICK c, p : c = editing[q].commission /\ p = editing[q].member
  OBVIOUS
<1>2. editing[q].at = "preside" /\ JobOK(editing[q])
  BY DEF CommissionInv, Jobs, SaveSetAsPresident, In
<1>3. /\ p \in DOMAIN member /\ member[p].commission = c /\ Seating(q) = {}
      /\ p \in 1 .. lastM /\ lastM \in Nat
  BY <1>1, <1>2, LastIsNat DEF CommissionInv, JobOK, Seating, In, SaveSetAsPresident
<1>4. p # None
  BY <1>3, NoneIsNoId
<1>5. /\ commission' = [commission EXCEPT ![c].president = p]
      /\ headless' = headless \ {c} /\ To(q, Done)
      /\ UNCHANGED <<groupId, active, cast, member, lastC, lastM, unsettled, lost, during>>
  BY <1>1 DEF SaveSetAsPresident
<1>6. DOMAIN commission' = DOMAIN commission /\ headless' \subseteq 1 .. lastC
  BY <1>5 DEF CommissionInv, CommissionTypeOK
<1>7. ASSUME NEW d \in DOMAIN commission
      PROVE  /\ \/ commission'[d] = commission[d]
                \/ \E r : /\ commission'[d] = [commission[d] EXCEPT !.president = r]
                          /\ r = None \/ (r \in DOMAIN member /\ member[r].commission = d)
             /\ commission'[d].president = None =>
                  \/ d \in headless'
                  \/ /\ commission[d].president = None /\ d \notin Seating(q)
                     /\ (d \in headless => d \in headless')
  <2>1. CASE d = c
    <3>1. commission'[d] = [commission[d] EXCEPT !.president = p]
      BY <1>5, <2>1
    <3>2. commission[d] \in [election: DOMAIN groupId, group: Group,
                             president: DOMAIN member \union {None}]
      BY DEF CommissionInv, CommissionTypeOK
    <3>3. commission'[d].president = p
      BY <3>1, <3>2
    <3> QED
      BY <1>3, <1>4, <2>1, <3>1, <3>3
  <2>2. CASE d # c
    BY <1>3, <1>5, <2>2
  <2> QED
    BY <2>1, <2>2
<1> QED
  BY <1>5, <1>6, <1>7, DoneIsOK, InvPresidents

LEMMA InvStrip ==
  ASSUME CommissionInv, NEW q \in Request, Strip(q)
  PROVE  CommissionInv'
<1>1. PICK S, job : S = editing[q].stripped /\ job = [editing[q] EXCEPT !.at = "gather"]
  OBVIOUS
<1>2. editing[q].at = "strip" /\ JobOK(editing[q])
  BY DEF CommissionInv, Jobs, Strip, In
<1>3. job.at = "gather" /\ job.all = editing[q].all /\ job.election = editing[q].election
  BY <1>1, <1>2 DEF JobOK
<1>4. UNCHANGED <<groupId, active, cast, member, lastC, lastM, unsettled, lost, during>>
  BY DEF Strip
<1>5. JobOK(job)'
  BY <1>2, <1>3, <1>4 DEF JobOK, Deleting
<1>6. Seating(q) = {}
  BY <1>2 DEF Seating, In
<1>7. /\ S \subseteq DOMAIN commission
      /\ commission' = [c \in DOMAIN commission |->
                          IF c \in S THEN [commission[c] EXCEPT !.president = None]
                          ELSE commission[c]]
      /\ headless' = headless \union S /\ To(q, job)
  BY <1>1 DEF Strip
<1>8. DOMAIN commission' = DOMAIN commission /\ headless' \subseteq 1 .. lastC
  BY <1>7 DEF CommissionInv, CommissionTypeOK
<1>9. ASSUME NEW d \in DOMAIN commission
      PROVE  /\ \/ commission'[d] = commission[d]
                \/ \E r : /\ commission'[d] = [commission[d] EXCEPT !.president = r]
                          /\ r = None \/ (r \in DOMAIN member /\ member[r].commission = d)
             /\ commission'[d].president = None =>
                  \/ d \in headless'
                  \/ /\ commission[d].president = None /\ d \notin Seating(q)
                     /\ (d \in headless => d \in headless')
  BY <1>6, <1>7
<1> QED
  BY <1>4, <1>5, <1>7, <1>8, <1>9, InvPresidents

LEMMA InvSavePresidents ==
  ASSUME CommissionInv, NEW q \in Request, SavePresidents(q)
  PROVE  CommissionInv'
<1>1. PICK P : P = editing[q].presidents
  OBVIOUS
<1>2. editing[q].at = "seatAll" /\ JobOK(editing[q])
  BY DEF CommissionInv, Jobs, SavePresidents, In
<1>3. /\ Seating(q) = DOMAIN P /\ lastM \in Nat
      /\ \A c \in DOMAIN P : P[c] \in DOMAIN member /\ member[P[c]].commission = c
      /\ \A c \in DOMAIN P : P[c] \in 1 .. lastM
  <2>1. Seating(q) = DOMAIN P
    BY <1>1, <1>2 DEF Seating, In
  <2>2. lastM \in Nat
    BY LastIsNat DEF CommissionInv
  <2>3. \A c \in DOMAIN P :
          /\ P[c] \in 1 .. lastM
          /\ P[c] \in DOMAIN member => member[P[c]].commission = c
    BY <1>1, <1>2 DEF JobOK
  <2>4. \A c \in DOMAIN P : P[c] \in DOMAIN member
    BY <1>1 DEF SavePresidents
  <2> QED
    BY <2>1, <2>2, <2>3, <2>4
<1>4. \A c \in DOMAIN P : P[c] # None
  BY <1>3, NoneIsNoId
<1>5. /\ DOMAIN P \subseteq DOMAIN commission
      /\ commission' = [c \in DOMAIN commission |->
                          IF c \in DOMAIN P THEN [commission[c] EXCEPT !.president = P[c]]
                          ELSE commission[c]]
      /\ headless' = headless \ DOMAIN P /\ To(q, Done)
      /\ UNCHANGED <<groupId, active, cast, member, lastC, lastM, unsettled, lost, during>>
  BY <1>1 DEF SavePresidents
<1>6. DOMAIN commission' = DOMAIN commission /\ headless' \subseteq 1 .. lastC
  BY <1>5 DEF CommissionInv, CommissionTypeOK
<1>7. ASSUME NEW d \in DOMAIN commission
      PROVE  /\ \/ commission'[d] = commission[d]
                \/ \E r : /\ commission'[d] = [commission[d] EXCEPT !.president = r]
                          /\ r = None \/ (r \in DOMAIN member /\ member[r].commission = d)
             /\ commission'[d].president = None =>
                  \/ d \in headless'
                  \/ /\ commission[d].president = None /\ d \notin Seating(q)
                     /\ (d \in headless => d \in headless')
  <2>1. CASE d \in DOMAIN P
    <3>1. commission'[d] = [commission[d] EXCEPT !.president = P[d]]
      BY <1>5, <2>1
    <3>2. commission[d] \in [election: DOMAIN groupId, group: Group,
                             president: DOMAIN member \union {None}]
      BY DEF CommissionInv, CommissionTypeOK
    <3>3. commission'[d].president = P[d]
      BY <3>1, <3>2
    <3> QED
      BY <1>3, <1>4, <2>1, <3>1, <3>3
  <2>2. CASE d \notin DOMAIN P
    BY <1>3, <1>5, <2>2
  <2> QED
    BY <2>1, <2>2
<1> QED
  BY <1>5, <1>6, <1>7, DoneIsOK, InvPresidents

LEMMA InvSavePresident ==
  ASSUME CommissionInv, NEW q \in Request, SavePresident(q)
  PROVE  CommissionInv'
<1> USE DEF CommissionInv
<1> DEFINE Rec == [election: DOMAIN groupId, group: Group, president: DOMAIN member' \union {None}]
<1>1. PICK c, p, n : c = editing[q].commission /\ p = editing[q].person /\ n = lastM'
  OBVIOUS
<1>2. editing[q].at = "seat" /\ JobOK(editing[q])
  BY DEF Jobs, SavePresident, In
<1>3. c \in DOMAIN commission /\ p \in Person /\ Seating(q) = {c}
  BY <1>1, <1>2 DEF JobOK, Seating, In, SavePresident
<1>4. /\ commission' = [commission EXCEPT ![c].president = n]
      /\ headless' = headless \ {c} /\ To(q, Done)
      /\ UNCHANGED <<groupId, active, cast, lastC, unsettled, lost, during>>
  BY <1>1 DEF SavePresident
<1>5. /\ n = lastM + 1 /\ n \in Nat /\ n \in 0 .. MaxMembers /\ n # None
      /\ n \notin DOMAIN member /\ n \notin 1 .. lastM
      /\ DOMAIN member' = DOMAIN member \union {n}
      /\ member'[n] = [commission |-> c, person |-> p]
      /\ \A m \in DOMAIN member : member'[m] = member[m]
      /\ DOMAIN member' \subseteq 1 .. lastM'
      /\ \A m \in DOMAIN member' :
           member'[m] \in [commission: DOMAIN commission, person: Person]
  <2>1. /\ lastM < MaxMembers /\ lastM' = lastM + 1
        /\ member' = [m \in DOMAIN member \union {lastM'} |->
                        IF m = lastM' THEN [commission |-> c, person |-> p] ELSE member[m]]
    BY <1>1 DEF SavePresident
  <2> QED
    BY <1>1, <1>3, <2>1, AddedMember
<1>6. DOMAIN commission' = DOMAIN commission
  BY <1>4
<1>7. ASSUME NEW d \in DOMAIN commission
      PROVE  /\ commission'[d] \in Rec
             /\ commission'[d].election = commission[d].election
             /\ commission'[d].group = commission[d].group
             /\ IF d = c THEN commission'[d].president = n
                         ELSE commission'[d].president = commission[d].president
  <2>1. commission[d] \in [election: DOMAIN groupId, group: Group,
                           president: DOMAIN member \union {None}]
    BY DEF CommissionTypeOK
  <2>2. CASE d = c
    <3>1. commission'[d] = [commission[d] EXCEPT !.president = n]
      BY <1>4, <2>2
    <3> QED
      BY <1>5, <2>1, <2>2, <3>1
  <2>3. CASE d # c
    BY <1>4, <1>5, <2>1, <2>3
  <2> QED
    BY <2>2, <2>3
<1>8. CommissionTypeOK'
  <2>1. headless' \subseteq 1 .. lastC'
    BY <1>4 DEF CommissionTypeOK
  <2> QED
    BY <1>1, <1>4, <1>5, <1>6, <1>7, <2>1 DEF CommissionTypeOK, Group
<1>9. Forward
  BY <1>1, <1>4, <1>5, <1>6, <1>7, LastIsNat DEF Forward
<1>10. Jobs'
  BY <1>4, <1>9, DoneIsOK, JobsStep
<1>11. HeadlessOnPurpose'
  <2>1. ASSUME NEW d \in DOMAIN commission', commission'[d].president = None
        PROVE  /\ d \in DOMAIN commission /\ commission[d].president = None
               /\ d \notin Seating(q) /\ (d \in headless => d \in headless')
    <3>1. d # c
      BY <1>5, <1>6, <1>7, <2>1
    <3> QED
      BY <1>3, <1>4, <1>6, <1>7, <2>1, <3>1
  <2> QED
    BY <1>4, <2>1, HeadlessStep
<1>12. PresidentSitsOnIt'
  <2>1. ASSUME NEW d \in DOMAIN commission, commission'[d].president # None
        PROVE  member'[commission'[d].president].commission = d
    <3>1. CASE d = c
      BY <1>5, <1>7, <3>1
    <3>2. CASE d # c
      <4>1. commission[d].president # None /\ commission'[d].president = commission[d].president
        BY <1>7, <2>1, <3>2
      <4>2. commission[d].president \in DOMAIN member
        BY <4>1, RowTypes
      <4> QED
        BY <1>5, <4>1, <4>2 DEF PresidentSitsOnIt
    <3> QED
      BY <3>1, <3>2
  <2> QED
    BY <1>6, <2>1 DEF PresidentSitsOnIt
<1>13. GroupsAgree' /\ VotesAreKept'
  BY <1>4, <1>6, <1>7 DEF GroupsAgree, VotesAreKept
<1> QED
  BY <1>8, <1>10, <1>11, <1>12, <1>13

LEMMA InvSaveRemoval ==
  ASSUME CommissionInv, NEW q \in Request, SaveRemoval(q)
  PROVE  CommissionInv'
<1> USE DEF CommissionInv
<1> DEFINE Rec == [election: DOMAIN groupId, group: Group, president: DOMAIN member' \union {None}]
<1>1. PICK c, p, clear : c = editing[q].commission /\ p = editing[q].member
                         /\ clear = editing[q].clear
  OBVIOUS
<1>2. editing[q].at = "remove" /\ JobOK(editing[q])
  BY DEF Jobs, SaveRemoval, In
<1>3. c \in 1 .. lastC /\ p \in DOMAIN member /\ Seating(q) = {}
  BY <1>1, <1>2 DEF JobOK, Seating, In, SaveRemoval
<1>4. /\ commission' = IF clear THEN [commission EXCEPT ![c].president = None] ELSE commission
      /\ \A d \in DOMAIN commission : commission'[d].president # p
      /\ member' = [m \in DOMAIN member \ {p} |-> member[m]]
      /\ headless' = headless \union {d \in {c} : clear} /\ To(q, Done)
      /\ UNCHANGED <<groupId, active, cast, lastC, lastM, unsettled, lost, during>>
  BY <1>1 DEF SaveRemoval, Without, Restrict
<1>5. /\ DOMAIN member' = DOMAIN member \ {p}
      /\ \A m \in DOMAIN member' : member'[m] = member[m]
  BY <1>4
<1>6. DOMAIN commission' = DOMAIN commission
  BY <1>4
<1>7. ASSUME NEW d \in DOMAIN commission
      PROVE  /\ commission'[d].election = commission[d].election
             /\ commission'[d].group = commission[d].group
             /\ \/ commission'[d].president = commission[d].president
                \/ commission'[d].president = None /\ d \in headless'
             /\ commission'[d] \in Rec
  <2>1. commission[d] \in [election: DOMAIN groupId, group: Group,
                           president: DOMAIN member \union {None}]
    BY DEF CommissionTypeOK
  <2>2. commission'[d].president # p
    BY <1>4
  <2>3. CASE d = c /\ clear
    <3>1. commission'[d] = [commission[d] EXCEPT !.president = None] /\ d \in headless'
      BY <1>4, <2>3
    <3> QED
      BY <2>1, <3>1
  <2>4. CASE ~(d = c /\ clear)
    <3>1. commission'[d] = commission[d]
      BY <1>4, <2>4
    <3> QED
      BY <1>5, <2>1, <2>2, <3>1
  <2> QED
    BY <2>3, <2>4
<1>8. CommissionTypeOK'
  <2>1. headless' \subseteq 1 .. lastC'
    BY <1>3, <1>4 DEF CommissionTypeOK
  <2>2. DOMAIN member' \subseteq 1 .. lastM'
        /\ \A m \in DOMAIN member' :
             member'[m] \in [commission: DOMAIN commission', person: Person]
    BY <1>4, <1>5, <1>6 DEF CommissionTypeOK
  <2> QED
    BY <1>4, <1>6, <1>7, <2>1, <2>2 DEF CommissionTypeOK, Group
<1>9. Forward
  BY <1>4, <1>5, <1>6, <1>7, LastIsNat DEF Forward
<1>10. Jobs'
  BY <1>4, <1>9, DoneIsOK, JobsStep
<1>11. HeadlessOnPurpose'
  <2>1. \A d \in DOMAIN commission' : commission'[d].president = None =>
          \/ d \in headless'
          \/ /\ d \in DOMAIN commission /\ commission[d].president = None
             /\ d \notin Seating(q) /\ (d \in headless => d \in headless')
    BY <1>3, <1>4, <1>6, <1>7
  <2> QED
    BY <1>4, <2>1, HeadlessStep
<1>12. PresidentSitsOnIt'
  <2>1. ASSUME NEW d \in DOMAIN commission, commission'[d].president # None
        PROVE  member'[commission'[d].president].commission = d
    <3>1. commission'[d].president = commission[d].president
      BY <1>7, <2>1
    <3>2. commission'[d].president \in DOMAIN member'
      BY <1>7, <2>1
    <3> QED
      BY <1>5, <2>1, <3>1, <3>2 DEF PresidentSitsOnIt
  <2> QED
    BY <1>6, <2>1 DEF PresidentSitsOnIt
<1>13. GroupsAgree' /\ VotesAreKept'
  BY <1>4, <1>6, <1>7 DEF GroupsAgree, VotesAreKept
<1> QED
  BY <1>8, <1>10, <1>11, <1>12, <1>13

(* A president is removed only with the commission presided over, and not  *)
(* even then.                                                              *)
LEMMA InvErase ==
  ASSUME CommissionInv, NEW q \in Request, Erase(q)
  PROVE  CommissionInv'
<1> USE DEF CommissionInv
<1>1. PICK job : job = editing[q]
  OBVIOUS
<1>2. PICK gone : gone = {e \in {job.election} : job.all}
  OBVIOUS
<1>3. job.at = "erase" /\ JobOK(job)
  BY <1>1 DEF Jobs, Erase, In
<1>4. Seating(q) = {}
  BY <1>1, <1>3 DEF Seating, In
<1>5. PICK C, M : C = job.commissions /\ M = job.members
  OBVIOUS
<1>6. /\ C \subseteq DOMAIN commission
      /\ \A e \in gone : CommissionsOf(e) \subseteq C
      /\ MembersOf(C) = M
      /\ PresidentsOf(DOMAIN commission) \intersect M = {}
      /\ commission' = [c \in DOMAIN commission \ C |-> commission[c]]
      /\ member' = [m \in DOMAIN member \ M |-> member[m]]
      /\ groupId' = [e \in DOMAIN groupId \ gone |-> groupId[e]]
      /\ active' = active \ gone /\ cast' = cast \ gone
      /\ lost' = lost \union (cast \intersect gone)
      /\ To(q, Done)
      /\ UNCHANGED <<lastC, lastM, headless, unsettled, during>>
  BY <1>1, <1>2, <1>5 DEF Erase, Without, Restrict
<1>7. /\ DOMAIN commission' = DOMAIN commission \ C
      /\ \A c \in DOMAIN commission' : commission'[c] = commission[c]
      /\ DOMAIN member' = DOMAIN member \ M
      /\ \A m \in DOMAIN member' : member'[m] = member[m]
      /\ DOMAIN groupId' = DOMAIN groupId \ gone
      /\ \A e \in DOMAIN groupId' : groupId'[e] = groupId[e]
  BY <1>6
<1>8. ASSUME NEW c \in DOMAIN commission'
      PROVE  /\ commission[c].election \notin gone
             /\ commission[c].president \notin M
  <2>1. commission[c].election \notin gone
    BY <1>6, <1>7 DEF CommissionsOf
  <2>2. commission[c].president \notin M
    <3>1. CASE commission[c].president = None
      <4>1. M \subseteq DOMAIN member
        BY <1>6 DEF MembersOf
      <4>2. None \notin DOMAIN member
        BY RowTypes, LastIsNat, NoneIsNoId
      <4> QED
        BY <3>1, <4>1, <4>2
    <3>2. CASE commission[c].president # None
      BY <1>6, <1>7, <3>2 DEF PresidentsOf
    <3> QED
      BY <3>1, <3>2
  <2> QED
    BY <2>1, <2>2
<1>9. ASSUME NEW m \in DOMAIN member'
      PROVE  member[m].commission \notin C
  BY <1>6, <1>7 DEF MembersOf
<1>10. CommissionTypeOK'
  <2>1. ASSUME NEW c \in DOMAIN commission'
        PROVE  commission'[c] \in [election: DOMAIN groupId', group: Group,
                                   president: DOMAIN member' \union {None}]
    <3>1. commission[c] \in [election: DOMAIN groupId, group: Group,
                             president: DOMAIN member \union {None}]
      BY <1>7 DEF CommissionTypeOK
    <3> QED
      BY <1>7, <1>8, <3>1
  <2>2. ASSUME NEW m \in DOMAIN member'
        PROVE  member'[m] \in [commission: DOMAIN commission', person: Person]
    <3>1. member[m] \in [commission: DOMAIN commission, person: Person]
      BY <1>7 DEF CommissionTypeOK
    <3> QED
      BY <1>7, <1>9, <3>1
  <2>3. /\ DOMAIN groupId' \subseteq Election /\ \A e \in DOMAIN groupId' : groupId'[e] \in Group
        /\ DOMAIN commission' \subseteq 1 .. lastC' /\ DOMAIN member' \subseteq 1 .. lastM'
    BY <1>6, <1>7, RowTypes
  <2>4. /\ active' \subseteq Election /\ cast' \subseteq Election /\ lost' \subseteq Election
        /\ headless' \subseteq 1 .. lastC' /\ unsettled' \subseteq Election
        /\ during' \subseteq Election
        /\ lastC' \in 0 .. MaxCommissions /\ lastM' \in 0 .. MaxMembers
    BY <1>6 DEF CommissionTypeOK
  <2> QED
    BY <2>1, <2>2, <2>3, <2>4 DEF CommissionTypeOK, Group
<1>11. Forward
  BY <1>6, <1>7, LastIsNat DEF Forward
<1>12. Jobs'
  BY <1>6, <1>11, DoneIsOK, JobsStep
<1>13. HeadlessOnPurpose'
  <2>1. \A c \in DOMAIN commission' : commission'[c].president = None =>
          /\ c \in DOMAIN commission /\ commission[c].president = None
          /\ c \notin Seating(q) /\ (c \in headless => c \in headless')
    BY <1>4, <1>6, <1>7
  <2> QED
    BY <1>6, <2>1, HeadlessStep
<1>14. PresidentSitsOnIt'
  <2>1. ASSUME NEW c \in DOMAIN commission', commission'[c].president # None
        PROVE  member'[commission'[c].president].commission = c
    <3>1. /\ commission'[c] = commission[c] /\ c \in DOMAIN commission
          /\ commission[c].president \in DOMAIN member
      BY <1>7, <2>1, RowTypes
    <3>2. commission[c].president \in DOMAIN member'
      BY <1>7, <1>8, <3>1
    <3> QED
      BY <1>7, <2>1, <3>1, <3>2 DEF PresidentSitsOnIt
  <2> QED
    BY <2>1 DEF PresidentSitsOnIt
<1>15. GroupsAgree'
  <2>1. ASSUME NEW c \in DOMAIN commission'
        PROVE  commission[c].election \in DOMAIN groupId'
    BY <1>7, <1>8, RowTypes
  <2> QED
    BY <1>6, <1>7, <2>1 DEF GroupsAgree
<1>16. VotesAreKept'
  <2>1. cast \intersect gone \subseteq during
    BY <1>2, <1>3 DEF JobOK, Deleting
  <2> QED
    BY <1>6, <2>1 DEF VotesAreKept
<1> QED
  BY <1>10, <1>12, <1>13, <1>14, <1>15, <1>16

-----------------------------------------------------------------------------
(* Commissions: the clone.                                                 *)

(* The copies of a finite set of rows are new and different, so that each  *)
(* has one original.                                                       *)
LEMMA CopiesAreNew ==
  ASSUME NEW n \in Nat, NEW S \in SUBSET (1 .. n), NEW last \in Nat
  PROVE  /\ Cardinality(S) \in Nat
         /\ \A x \in S : /\ CopyOf(x, S, last) \in 1 .. (last + Cardinality(S))
                         /\ CopyOf(x, S, last) \notin 1 .. last
                         /\ Original(CopyOf(x, S, last), S, last) = x
<1> DEFINE Below(x) == {y \in S : y =< x}
<1>1. IsFiniteSet(S) /\ Cardinality(S) \in Nat
  <2>1. 1 \in Int /\ n \in Int
    OBVIOUS
  <2>2. IsFiniteSet(1 .. n)
    BY <2>1, FS_Interval
  <2>3. IsFiniteSet(S)
    BY <2>2, FS_Subset
  <2> QED
    BY <2>3, FS_CardinalityType
<1>2. ASSUME NEW x \in S
      PROVE  /\ IsFiniteSet(Below(x)) /\ Cardinality(Below(x)) \in Nat
             /\ Cardinality(Below(x)) # 0 /\ Cardinality(Below(x)) =< Cardinality(S)
  <2>1. IsFiniteSet(Below(x)) /\ Cardinality(Below(x)) =< Cardinality(S)
    BY <1>1, FS_Subset
  <2>2. x \in Below(x)
    OBVIOUS
  <2> QED
    BY <2>1, <2>2, FS_CardinalityType, FS_EmptySet
<1>3. ASSUME NEW x \in S
      PROVE  /\ CopyOf(x, S, last) \in 1 .. (last + Cardinality(S))
             /\ CopyOf(x, S, last) \notin 1 .. last
  <2>1. PICK k : k = Cardinality(Below(x))
    OBVIOUS
  <2>2. k \in Nat /\ k # 0 /\ k =< Cardinality(S)
    BY <1>2, <2>1
  <2>3. CopyOf(x, S, last) = last + k
    BY <2>1 DEF CopyOf
  <2> QED
    BY <1>1, <2>2, <2>3
<1>4. ASSUME NEW x \in S, NEW y \in S, x < y
      PROVE  CopyOf(x, S, last) # CopyOf(y, S, last)
  <2>1. Below(x) \in SUBSET Below(y) /\ y \in Below(y) /\ y \notin Below(x)
    <3>1. x \in Nat /\ y \in Nat /\ \A z \in S : z \in Nat
      OBVIOUS
    <3>2. \A z \in S : z =< x => z =< y
      BY <1>4, <3>1
    <3>3. y =< y /\ ~(y =< x)
      BY <1>4, <3>1
    <3> QED
      BY <3>2, <3>3
  <2>2. PICK j, k : j = Cardinality(Below(x)) /\ k = Cardinality(Below(y))
    OBVIOUS
  <2>3. j # k
    <3>1. IsFiniteSet(Below(y))
      BY <1>2
    <3> HIDE DEF Below
    <3>2. j = k => Below(y) = Below(x)
      BY <2>1, <2>2, <3>1, FS_Subset
    <3> QED
      BY <2>1, <3>2
  <2>4. j \in Nat /\ k \in Nat
    BY <1>2, <2>2
  <2>5. CopyOf(x, S, last) = last + j /\ CopyOf(y, S, last) = last + k
    BY <2>2 DEF CopyOf
  <2> QED
    BY <2>3, <2>4, <2>5
<1>5. ASSUME NEW x \in S, NEW y \in S, CopyOf(x, S, last) = CopyOf(y, S, last)
      PROVE  x = y
  <2>1. x \in Nat /\ y \in Nat
    OBVIOUS
  <2>2. ~(x < y) /\ ~(y < x)
    BY <1>4, <1>5
  <2> QED
    BY <2>1, <2>2
<1>6. ASSUME NEW x \in S
      PROVE  Original(CopyOf(x, S, last), S, last) = x
  BY <1>5 DEF Original
<1> QED
  BY <1>1, <1>3, <1>6

(* The rows that the first save of a clone leaves.                         *)
NewIds(C, M) ==
  /\ lastC \in Nat /\ lastM \in Nat
  /\ Cardinality(C) \in Nat /\ Cardinality(M) \in Nat
  /\ lastC' = lastC + Cardinality(C) /\ lastM' = lastM + Cardinality(M)
  /\ \A x \in C : /\ CopyOf(x, C, lastC) \in 1 .. lastC'
                  /\ CopyOf(x, C, lastC) \notin 1 .. lastC
                  /\ Original(CopyOf(x, C, lastC), C, lastC) = x
  /\ \A x \in M : /\ CopyOf(x, M, lastM) \in 1 .. lastM'
                  /\ CopyOf(x, M, lastM) \notin 1 .. lastM
                  /\ Original(CopyOf(x, M, lastM), M, lastM) = x

NewDomains(C, M) ==
  /\ DOMAIN commission' = DOMAIN commission \union {CopyOf(x, C, lastC) : x \in C}
  /\ DOMAIN member' = DOMAIN member \union {CopyOf(x, M, lastM) : x \in M}

OldCommissions(q, job, C) ==
  \A c \in DOMAIN commission :
    commission'[c] = IF c \in C /\ job.fresh THEN [commission[c] EXCEPT !.group = q]
                     ELSE commission[c]

NewCommissions(q, job, C) ==
  \A x \in C : commission'[CopyOf(x, C, lastC)] =
    [election |-> job.to, group |-> IF job.fresh THEN q ELSE job.commissions[x].group,
     president |-> None]

OldMembers == \A m \in DOMAIN member : member'[m] = member[m]

NewMembers(job, C, M) ==
  \A x \in M : member'[CopyOf(x, M, lastM)] =
    [job.members[x] EXCEPT !.commission = CopyOf(job.members[x].commission, C, lastC)]

LEMMA ClonedRows ==
  ASSUME CommissionInv, NEW q \in Request, SaveClone(q),
         NEW job, job = editing[q],
         NEW C, C = DOMAIN job.commissions, NEW M, M = DOMAIN job.members
  PROVE  /\ CopyOK(job) /\ NewIds(C, M) /\ NewDomains(C, M)
         /\ OldCommissions(q, job, C) /\ NewCommissions(q, job, C)
         /\ OldMembers /\ NewMembers(job, C, M)
<1> USE DEF CommissionInv
<1>1. job.at = "copy" /\ JobOK(job)
  BY DEF Jobs, SaveClone, In
<1>2. CopyOK(job)
  BY <1>1 DEF JobOK
<1>3. /\ lastC \in Nat /\ lastM \in Nat
      /\ DOMAIN commission \subseteq 1 .. lastC /\ DOMAIN member \subseteq 1 .. lastM
  BY LastIsNat, RowTypes
<1>4. lastC' = lastC + Cardinality(C) /\ lastM' = lastM + Cardinality(M)
  BY DEF SaveClone
<1>5. /\ Cardinality(C) \in Nat
      /\ \A x \in C : /\ CopyOf(x, C, lastC) \in 1 .. lastC'
                      /\ CopyOf(x, C, lastC) \notin 1 .. lastC
                      /\ Original(CopyOf(x, C, lastC), C, lastC) = x
  <2>1. C \in SUBSET (1 .. lastC)
    BY <1>2 DEF CopyOK
  <2> QED
    BY <1>3, <1>4, <2>1, CopiesAreNew
<1>6. /\ Cardinality(M) \in Nat
      /\ \A x \in M : /\ CopyOf(x, M, lastM) \in 1 .. lastM'
                      /\ CopyOf(x, M, lastM) \notin 1 .. lastM
                      /\ Original(CopyOf(x, M, lastM), M, lastM) = x
  <2>1. M \in SUBSET (1 .. lastM)
    BY <1>2 DEF CopyOK
  <2> QED
    BY <1>3, <1>4, <2>1, CopiesAreNew
<1>7. commission' =
        [c \in DOMAIN commission \union {CopyOf(x, C, lastC) : x \in C} |->
           IF c \notin DOMAIN commission
             THEN [election |-> job.to,
                   group |-> IF job.fresh THEN q
                             ELSE job.commissions[Original(c, C, lastC)].group,
                   president |-> None]
           ELSE IF c \in C /\ job.fresh THEN [commission[c] EXCEPT !.group = q]
           ELSE commission[c]]
  BY DEF SaveClone, ClonedCommissions, NewCommission
<1>8. member' =
        [m \in DOMAIN member \union {CopyOf(x, M, lastM) : x \in M} |->
           IF m \in DOMAIN member THEN member[m]
           ELSE [job.members[Original(m, M, lastM)] EXCEPT !.commission =
                   CopyOf(job.members[Original(m, M, lastM)].commission, C, lastC)]]
  BY DEF SaveClone, ClonedMembers
<1>9. ASSUME NEW x \in C
      PROVE  commission'[CopyOf(x, C, lastC)] =
               [election |-> job.to, group |-> IF job.fresh THEN q ELSE job.commissions[x].group,
                president |-> None]
  <2>1. PICK c : c = CopyOf(x, C, lastC)
    OBVIOUS
  <2>2. c \notin DOMAIN commission /\ Original(c, C, lastC) = x
    BY <1>3, <1>5, <2>1
  <2>3. c \in {CopyOf(y, C, lastC) : y \in C}
    BY <2>1
  <2> QED
    BY <1>7, <2>1, <2>2, <2>3
<1>10. ASSUME NEW x \in M
       PROVE  member'[CopyOf(x, M, lastM)] =
                [job.members[x] EXCEPT !.commission = CopyOf(job.members[x].commission, C, lastC)]
  <2>1. PICK m : m = CopyOf(x, M, lastM)
    OBVIOUS
  <2>2. m \notin DOMAIN member /\ Original(m, M, lastM) = x
    BY <1>3, <1>6, <2>1
  <2>3. m \in {CopyOf(y, M, lastM) : y \in M}
    BY <2>1
  <2> QED
    BY <1>8, <2>1, <2>2, <2>3
<1>11. DOMAIN commission' = DOMAIN commission \union {CopyOf(x, C, lastC) : x \in C}
       /\ \A c \in DOMAIN commission :
            commission'[c] = IF c \in C /\ job.fresh THEN [commission[c] EXCEPT !.group = q]
                             ELSE commission[c]
  BY <1>7
<1>12. DOMAIN member' = DOMAIN member \union {CopyOf(x, M, lastM) : x \in M}
       /\ \A m \in DOMAIN member : member'[m] = member[m]
  BY <1>8
<1> QED
  BY <1>2, <1>3, <1>4, <1>5, <1>6, <1>9, <1>10, <1>11, <1>12
     DEF NewIds, NewDomains, OldCommissions, NewCommissions, OldMembers, NewMembers

(* The presidents that the second save will seat.                          *)
LEMMA ClonedPresidentsSit ==
  ASSUME CommissionInv, NEW q \in Request, SaveClone(q),
         NEW job, job = editing[q],
         NEW C, C = DOMAIN job.commissions, NEW M, M = DOMAIN job.members,
         NEW P, P = ClonedPresidents(q)
  PROVE  /\ DOMAIN P \subseteq {CopyOf(x, C, lastC) : x \in C}
         /\ \A c \in DOMAIN P : P[c] \in 1 .. lastM' /\ member'[P[c]].commission = c
<1> DEFINE led == {x \in C : job.commissions[x].president \in M}
<1>1. P = [c \in {CopyOf(x, C, lastC) : x \in led} |->
             CopyOf(job.commissions[Original(c, C, lastC)].president, M, lastM)]
  BY DEF ClonedPresidents
<1>2. CopyOK(job) /\ NewIds(C, M) /\ NewMembers(job, C, M)
  BY ClonedRows
<1>3. ASSUME NEW x \in led, NEW c, c = CopyOf(x, C, lastC)
      PROVE  P[c] \in 1 .. lastM' /\ member'[P[c]].commission = c
  <2>1. PICK p : p = job.commissions[x].president
    OBVIOUS
  <2>2. x \in C /\ p \in M /\ Original(c, C, lastC) = x
    BY <1>2, <1>3, <2>1 DEF NewIds
  <2>3. P[c] = CopyOf(p, M, lastM)
    BY <1>1, <1>3, <2>1, <2>2
  <2>4. P[c] \in 1 .. lastM'
    BY <1>2, <2>2, <2>3 DEF NewIds
  <2>5. job.members[p] \in [commission: C, person: Person] /\ job.members[p].commission = x
    BY <1>2, <2>1, <2>2 DEF CopyOK
  <2>6. member'[P[c]] = [job.members[p] EXCEPT !.commission = CopyOf(x, C, lastC)]
    BY <1>2, <2>2, <2>3, <2>5 DEF NewMembers
  <2>7. member'[P[c]].commission = c
    BY <1>3, <2>5, <2>6
  <2> QED
    BY <2>4, <2>7
<1>4. DOMAIN P = {CopyOf(x, C, lastC) : x \in led}
  BY <1>1
<1> HIDE DEF led
<1>5. \A c \in DOMAIN P : P[c] \in 1 .. lastM' /\ member'[P[c]].commission = c
  BY <1>3, <1>4
<1> QED
  BY <1>4, <1>5 DEF led

(* Where the groups of the commissions come from.                          *)
LEMMA ClonedGroupsAgree ==
  ASSUME CommissionInv, NEW q \in Request, SaveClone(q)
  PROVE  GroupsAgree'
<1> USE DEF CommissionInv
<1>1. PICK job, C, M : job = editing[q] /\ C = DOMAIN job.commissions /\ M = DOMAIN job.members
  OBVIOUS
<1>2. NewDomains(C, M) /\ OldCommissions(q, job, C) /\ NewCommissions(q, job, C)
  BY <1>1, ClonedRows
<1>3. PICK s, d : s = job.from /\ d = job.to
  OBVIOUS
<1>4. job.at = "copy" /\ JobOK(job)
  BY <1>1 DEF Jobs, SaveClone, In
<1>5. s # d /\ CopyOK(job) /\ d \in DOMAIN groupId
      /\ (job.fresh => s \in DOMAIN groupId)
  BY <1>1, <1>3, <1>4 DEF JobOK, SaveClone
<1>6. groupId' = [e \in DOMAIN groupId |->
        IF e = s /\ job.fresh THEN q
        ELSE IF e = d /\ job.upcoming
                /\ (IF job.fresh THEN q ELSE job.sgroup) # job.dgroup
          THEN (IF job.fresh THEN q ELSE job.sgroup) ELSE groupId[e]]
  BY <1>1, <1>3 DEF SaveClone, ClonedGroups, LinkedGroup
<1>7. unsettled' = unsettled \union Mixed(q)
  BY DEF SaveClone
<1>8. d \notin unsettled' =>
        /\ CommissionsOf(d) = {} /\ job.upcoming
        /\ s \notin unsettled /\ s \in DOMAIN groupId
        /\ groupId[s] = job.sgroup /\ groupId[d] = job.dgroup
        /\ \A x \in C : /\ x \in CommissionsOf(s)
                        /\ commission[x].group = job.commissions[x].group
  BY <1>1, <1>3, <1>7 DEF Mixed
<1>9. s \notin unsettled' /\ job.fresh => CommissionsOf(s) = C
  BY <1>1, <1>3, <1>7 DEF Mixed
<1>10. DOMAIN commission' = DOMAIN commission \union {CopyOf(x, C, lastC) : x \in C}
  BY <1>2 DEF NewDomains
<1>11. ASSUME NEW c \in DOMAIN commission, commission'[c].election \notin unsettled'
       PROVE  commission'[c].group = groupId'[commission'[c].election]
  <2>1. PICK e : e = commission[c].election
    OBVIOUS
  <2>2. commission[c] \in [election: DOMAIN groupId, group: Group,
                           president: DOMAIN member \union {None}]
    BY DEF CommissionTypeOK
  <2>3. commission'[c] = IF c \in C /\ job.fresh THEN [commission[c] EXCEPT !.group = q]
                         ELSE commission[c]
    BY <1>2 DEF OldCommissions
  <2>4. commission'[c].election = e /\ e \in DOMAIN groupId
    BY <2>1, <2>2, <2>3
  <2>5. e \notin unsettled' /\ e \notin unsettled /\ c \in CommissionsOf(e)
    BY <1>7, <1>11, <2>1, <2>4 DEF CommissionsOf
  <2>6. commission[c].group = groupId[e]
    BY <2>1, <2>5 DEF GroupsAgree
  <2>7. e # d
    BY <1>8, <2>5
  <2>8. CASE job.fresh /\ c \in C
    <3>1. e = s
      BY <1>1, <1>3, <1>5, <2>1, <2>5, <2>8 DEF CopyOK
    <3>2. groupId'[e] = q
      BY <1>6, <2>4, <2>8, <3>1
    <3>3. commission'[c].group = q
      BY <2>2, <2>3, <2>8
    <3> QED
      BY <2>4, <3>2, <3>3
  <2>9. CASE ~(job.fresh /\ c \in C)
    <3>1. ~(e = s /\ job.fresh)
      BY <1>9, <2>5, <2>9
    <3>2. groupId'[e] = groupId[e]
      BY <1>6, <2>4, <2>7, <3>1
    <3>3. commission'[c] = commission[c]
      BY <2>3, <2>9
    <3> QED
      BY <2>4, <2>6, <3>2, <3>3
  <2> QED
    BY <2>8, <2>9
<1>12. ASSUME NEW x \in C, d \notin unsettled'
       PROVE  commission'[CopyOf(x, C, lastC)].group = groupId'[d]
  <2>1. commission'[CopyOf(x, C, lastC)] =
          [election |-> job.to, group |-> IF job.fresh THEN q ELSE job.commissions[x].group,
           president |-> None]
    BY <1>2 DEF NewCommissions
  <2>2. groupId'[d] = IF job.fresh THEN q ELSE job.sgroup
    BY <1>5, <1>6, <1>8, <1>12
  <2>3. job.commissions[x].group = job.sgroup
    <3>1. /\ x \in CommissionsOf(s) /\ s \notin unsettled /\ groupId[s] = job.sgroup
          /\ commission[x].group = job.commissions[x].group
      BY <1>8, <1>12
    <3>2. x \in DOMAIN commission /\ commission[x].election = s
      BY <3>1 DEF CommissionsOf
    <3>3. commission[x].group = groupId[s]
      BY <3>1, <3>2 DEF GroupsAgree
    <3> QED
      BY <3>1, <3>3
  <2> QED
    BY <2>1, <2>2, <2>3
<1>13. \A x \in C : commission'[CopyOf(x, C, lastC)].election = d
  <2>1. ASSUME NEW x \in C
        PROVE  commission'[CopyOf(x, C, lastC)].election = d
    <3>1. commission'[CopyOf(x, C, lastC)] =
            [election |-> job.to, group |-> IF job.fresh THEN q ELSE job.commissions[x].group,
             president |-> None]
      BY <1>2 DEF NewCommissions
    <3> QED
      BY <1>3, <3>1
  <2> QED
    BY <2>1
<1> QED
  BY <1>10, <1>11, <1>12, <1>13 DEF GroupsAgree

LEMMA InvSaveClone ==
  ASSUME CommissionInv, NEW q \in Request, SaveClone(q)
  PROVE  CommissionInv'
<1> USE DEF CommissionInv
<1>1. PICK job, C, M, P : /\ job = editing[q] /\ C = DOMAIN job.commissions
                          /\ M = DOMAIN job.members /\ P = ClonedPresidents(q)
  OBVIOUS
<1>2. PICK NC, NM : NC = {CopyOf(x, C, lastC) : x \in C} /\ NM = {CopyOf(x, M, lastM) : x \in M}
  OBVIOUS
<1>3. /\ NewIds(C, M) /\ NewDomains(C, M)
      /\ OldCommissions(q, job, C) /\ NewCommissions(q, job, C)
      /\ OldMembers /\ NewMembers(job, C, M)
  BY <1>1, ClonedRows
<1>4. job.at = "copy" /\ JobOK(job)
  BY <1>1 DEF Jobs, SaveClone, In
<1>5. /\ job.to \in DOMAIN groupId /\ CopyOK(job) /\ Seating(q) = {}
      /\ job.to \in Election /\ job.sgroup \in Group
      /\ job.fresh => job.from \in DOMAIN groupId
  BY <1>1, <1>4 DEF JobOK, SaveClone, Seating, In
<1>6. /\ groupId' = ClonedGroups(q)
      /\ headless' = headless \union (NC \ DOMAIN P)
      /\ unsettled' = unsettled \union Mixed(q)
      /\ To(q, [at |-> "seatAll", presidents |-> P])
      /\ UNCHANGED <<active, cast, lost, during>>
      /\ lastC' \in Nat /\ lastC' =< MaxCommissions /\ lastM' \in Nat /\ lastM' =< MaxMembers
  <2>1. Copies(q) = NC
    BY <1>1, <1>2 DEF Copies
  <2>2. lastC' \in Nat /\ lastM' \in Nat
    BY <1>3 DEF NewIds
  <2>3. lastC' =< MaxCommissions /\ lastM' =< MaxMembers
    BY DEF SaveClone
  <2> QED
    BY <1>1, <2>1, <2>2, <2>3 DEF SaveClone
<1>7. /\ DOMAIN groupId' = DOMAIN groupId
      /\ \A e \in DOMAIN groupId' : groupId'[e] \in Group
  <2>1. LinkedGroup(q) \in Group /\ q \in Group
    BY <1>1, <1>5 DEF LinkedGroup, Group
  <2> QED
    BY <1>6, <2>1, RowTypes DEF ClonedGroups
<1>8. /\ lastC \in Nat /\ lastM \in Nat /\ lastC =< lastC' /\ lastM =< lastM'
      /\ NC \subseteq 1 .. lastC' /\ NC \intersect (1 .. lastC) = {}
      /\ NM \subseteq 1 .. lastM' /\ NM \intersect (1 .. lastM) = {}
      /\ DOMAIN commission' = DOMAIN commission \union NC
      /\ DOMAIN member' = DOMAIN member \union NM
  <2>1. /\ lastC \in Nat /\ lastM \in Nat /\ Cardinality(C) \in Nat /\ Cardinality(M) \in Nat
        /\ lastC' = lastC + Cardinality(C) /\ lastM' = lastM + Cardinality(M)
    BY <1>3 DEF NewIds
  <2>2. /\ \A x \in C : /\ CopyOf(x, C, lastC) \in 1 .. lastC'
                        /\ CopyOf(x, C, lastC) \notin 1 .. lastC
        /\ \A x \in M : /\ CopyOf(x, M, lastM) \in 1 .. lastM'
                        /\ CopyOf(x, M, lastM) \notin 1 .. lastM
        /\ DOMAIN commission' = DOMAIN commission \union NC
        /\ DOMAIN member' = DOMAIN member \union NM
    BY <1>2, <1>3 DEF NewIds, NewDomains
  <2>3. NC \subseteq 1 .. lastC' /\ NC \intersect (1 .. lastC) = {}
    BY <1>2, <2>2
  <2>4. NM \subseteq 1 .. lastM' /\ NM \intersect (1 .. lastM) = {}
    BY <1>2, <2>2
  <2>5. lastC =< lastC' /\ lastM =< lastM'
    BY <2>1
  <2> QED
    BY <2>1, <2>2, <2>3, <2>4, <2>5
<1>9. ASSUME NEW c \in DOMAIN commission
      PROVE  /\ commission'[c] \in [election: DOMAIN groupId, group: Group,
                                    president: DOMAIN member \union {None}]
             /\ commission'[c].election = commission[c].election
             /\ commission'[c].president = commission[c].president
  <2>1. commission[c] \in [election: DOMAIN groupId, group: Group,
                           president: DOMAIN member \union {None}]
    BY DEF CommissionTypeOK
  <2>2. commission'[c] = IF c \in C /\ job.fresh THEN [commission[c] EXCEPT !.group = q]
                         ELSE commission[c]
    BY <1>3 DEF OldCommissions
  <2>3. q \in Group
    BY DEF Group
  <2> QED
    BY <2>1, <2>2, <2>3
<1>10. ASSUME NEW c \in NC
      PROVE  /\ commission'[c] \in [election: DOMAIN groupId, group: Group,
                                    president: DOMAIN member \union {None}]
             /\ commission'[c].president = None
  <2>1. PICK x \in C : c = CopyOf(x, C, lastC)
    BY <1>2
  <2>2. PICK g : g = IF job.fresh THEN q ELSE job.commissions[x].group
    OBVIOUS
  <2>3. g \in Group
    BY <1>1, <1>5, <2>2 DEF CopyOK, Group
  <2>4. commission'[c] = [election |-> job.to, group |-> g, president |-> None]
    BY <1>3, <2>1, <2>2 DEF NewCommissions
  <2> QED
    BY <1>5, <2>3, <2>4
<1>11. \A m \in DOMAIN member : member'[m] = member[m]
  BY <1>3 DEF OldMembers
<1>12. ASSUME NEW m \in NM
       PROVE  member'[m] \in [commission: NC, person: Person]
  <2>1. PICK x \in M : m = CopyOf(x, M, lastM)
    BY <1>2
  <2>2. job.members[x] \in [commission: C, person: Person]
    BY <1>1, <1>5 DEF CopyOK
  <2>3. PICK c : c = CopyOf(job.members[x].commission, C, lastC)
    OBVIOUS
  <2>4. c \in NC
    BY <1>2, <2>2, <2>3
  <2>5. member'[m] = [job.members[x] EXCEPT !.commission = c]
    BY <1>3, <2>1, <2>3 DEF NewMembers
  <2> QED
    BY <2>2, <2>4, <2>5
<1>13. Mixed(q) \subseteq Election
  <2>1. Mixed(q) \subseteq {job.to} \union {e \in {job.from} : job.fresh}
    BY <1>1 DEF Mixed
  <2> QED
    BY <1>5, <2>1, RowTypes
<1>14. CommissionTypeOK'
  <2>1. 1 .. lastC \subseteq 1 .. lastC' /\ 1 .. lastM \subseteq 1 .. lastM'
    <3>1. /\ lastC \in Nat /\ lastM \in Nat /\ lastC' \in Nat /\ lastM' \in Nat
          /\ lastC =< lastC' /\ lastM =< lastM'
      BY <1>6, <1>8
    <3> QED
      BY <3>1
  <2>2. DOMAIN commission' \subseteq 1 .. lastC' /\ DOMAIN member' \subseteq 1 .. lastM'
    <3>1. DOMAIN commission \subseteq 1 .. lastC /\ DOMAIN member \subseteq 1 .. lastM
      BY RowTypes
    <3>2. DOMAIN commission' = DOMAIN commission \union NC /\ NC \subseteq 1 .. lastC'
      BY <1>8
    <3>3. DOMAIN member' = DOMAIN member \union NM /\ NM \subseteq 1 .. lastM'
      BY <1>8
    <3> QED
      BY <2>1, <3>1, <3>2, <3>3
  <2>3. \A c \in DOMAIN commission' :
          commission'[c] \in [election: DOMAIN groupId', group: Group,
                              president: DOMAIN member' \union {None}]
    <3>1. ASSUME NEW c \in DOMAIN commission'
          PROVE  commission'[c] \in [election: DOMAIN groupId, group: Group,
                                     president: DOMAIN member \union {None}]
      BY <1>8, <1>9, <1>10
    <3> QED
      BY <1>7, <1>8, <3>1
  <2>4. \A m \in DOMAIN member' :
          member'[m] \in [commission: DOMAIN commission', person: Person]
    <3>1. ASSUME NEW m \in DOMAIN member
          PROVE  member'[m] \in [commission: DOMAIN commission', person: Person]
      <4>1. member[m] \in [commission: DOMAIN commission, person: Person]
        BY DEF CommissionTypeOK
      <4> QED
        BY <1>8, <1>11, <4>1
    <3>2. ASSUME NEW m \in NM
          PROVE  member'[m] \in [commission: DOMAIN commission', person: Person]
      <4>1. member'[m] \in [commission: NC, person: Person]
        BY <1>12
      <4> QED
        BY <1>8, <4>1
    <3> QED
      BY <1>8, <3>1, <3>2
  <2>5. headless' \subseteq 1 .. lastC'
    <3>1. headless \subseteq 1 .. lastC
      BY DEF CommissionTypeOK
    <3>2. NC \subseteq 1 .. lastC' /\ headless' = headless \union (NC \ DOMAIN P)
      BY <1>6, <1>8
    <3> QED
      BY <2>1, <3>1, <3>2
  <2>6. unsettled' \subseteq Election
    BY <1>6, <1>13 DEF CommissionTypeOK
  <2>7. lastC' \in 0 .. MaxCommissions /\ lastM' \in 0 .. MaxMembers
    BY <1>6, StaffAssumption
  <2>8. DOMAIN groupId' \subseteq Election
    BY <1>7, RowTypes
  <2> QED
    BY <1>6, <1>7, <2>2, <2>3, <2>4, <2>5, <2>6, <2>7, <2>8 DEF CommissionTypeOK, Group
<1>15. Forward
  <2>1. \A m \in DOMAIN member' : m \in 1 .. lastM =>
          m \in DOMAIN member /\ member'[m].commission = member[m].commission
    BY <1>8, <1>11
  <2>2. \A c \in DOMAIN commission' : c \in 1 .. lastC =>
          c \in DOMAIN commission /\ commission'[c].election = commission[c].election
    BY <1>8, <1>9
  <2> QED
    BY <1>6, <1>8, <2>1, <2>2 DEF Forward
<1>16. PICK seats : seats = [at |-> "seatAll", presidents |-> P]
  OBVIOUS
<1>17. DOMAIN P \subseteq NC
       /\ \A c \in DOMAIN P : P[c] \in 1 .. lastM' /\ member'[P[c]].commission = c
  BY <1>1, <1>2, ClonedPresidentsSit
<1>18. JobOK(seats)'
  <2>1. DOMAIN P \subseteq 1 .. lastC'
    BY <1>8, <1>17
  <2> QED
    BY <1>16, <1>17, <2>1 DEF JobOK, Deleting
<1>19. To(q, seats)
  BY <1>6, <1>16
<1>20. Jobs'
  BY <1>6, <1>15, <1>18, <1>19, JobsStep
<1>21. HeadlessOnPurpose'
  <2>1. editing'[q] = seats
    BY <1>19 DEF Jobs, To
  <2>2. Seating(q)' = DOMAIN P
    BY <1>16, <2>1 DEF Seating, In
  <2>3. ASSUME NEW c \in DOMAIN commission', commission'[c].president = None
        PROVE  \/ c \in headless' \union Seating(q)'
               \/ /\ c \in DOMAIN commission /\ commission[c].president = None
                  /\ c \notin Seating(q) /\ (c \in headless => c \in headless')
    <3>1. CASE c \in NC
      BY <1>6, <2>2, <3>1
    <3>2. CASE c \in DOMAIN commission
      BY <1>5, <1>6, <1>9, <2>3, <3>2
    <3> QED
      BY <1>8, <3>1, <3>2
  <2> QED
    BY <1>19, <2>3, HeadlessStep
<1>22. PresidentSitsOnIt'
  <2>1. ASSUME NEW c \in DOMAIN commission', commission'[c].president # None
        PROVE  member'[commission'[c].president].commission = c
    <3>1. c \in DOMAIN commission /\ commission[c].president = commission'[c].president
      BY <1>8, <1>9, <1>10, <2>1
    <3>2. commission[c].president \in DOMAIN member
      BY <2>1, <3>1, RowTypes
    <3> QED
      BY <1>11, <2>1, <3>1, <3>2 DEF PresidentSitsOnIt
  <2> QED
    BY <2>1 DEF PresidentSitsOnIt
<1>23. VotesAreKept'
  BY <1>6 DEF VotesAreKept
<1> QED
  BY <1>14, <1>20, <1>21, <1>22, <1>23, ClonedGroupsAgree

LEMMA CommissionInvStep ==
  ASSUME CommissionInv, NEW q \in Request, CommissionStep(q)
  PROVE  CommissionInv'
<1>1. ASSUME NEW e \in Election, NEW p \in Person \union {None}, AddPSCommission(q, e, p)
      PROVE  CommissionInv'
  BY <1>1, InvAddPSCommission
<1>2. ASSUME NEW e \in Election,
             Delete(q, e) \/ \E b \in BOOLEAN : AddPollingStationComission(q, e, b)
      PROVE  CommissionInv'
  BY <1>2, InvAddPollingStationComission, InvDelete
<1>3. ASSUME NEW c \in DOMAIN commission, NEW e \in Election, NEW b \in BOOLEAN,
             UpdatePSCommissions(q, c, e, b)
      PROVE  CommissionInv'
  BY <1>3, InvUpdatePSCommissions
<1>4. ASSUME NEW c \in DOMAIN commission, NEW p \in Person,
             AddPSCommissioner(q, c, p) \/ AddPSCommissionStaff(q, c, p)
      PROVE  CommissionInv'
  BY <1>4, InvJoin
<1>5. ASSUME NEW c \in DOMAIN commission, DeletePSCommission(q, c)
      PROVE  CommissionInv'
  BY <1>5, InvDeletePSCommission
<1>6. ASSUME NEW m \in DOMAIN member,
             RemovePSCommissioner(q, m) \/ DeletePSCommissionStaff(q, m) \/ SetAsPresident(q, m)
      PROVE  CommissionInv'
  BY <1>6, InvRemove, InvSetAsPresident
<1>7. ASSUME NEW s \in Election, NEW d \in Election, NEW upcoming \in BOOLEAN,
             ClonePSCommissions(q, s, d, upcoming)
      PROVE  CommissionInv'
  BY <1>7, InvClonePSCommissions
<1>8. CASE SaveCommission(q) \/ SavePresident(q) \/ NewPSCommissions(q)
           \/ SaveUpdatePSCommissions(q)
  BY <1>8, InvSaveCommission, InvSavePresident, InvNewPSCommissions, InvSaveUpdatePSCommissions
<1>9. CASE SaveCommissioner(q) \/ SaveRemoval(q) \/ SaveSetAsPresident(q)
  BY <1>9, InvSaveCommissioner, InvSaveRemoval, InvSaveSetAsPresident
<1>10. CASE Strip(q) \/ Gather(q) \/ Erase(q)
  BY <1>10, InvStrip, InvGather, InvErase
<1>11. CASE ReadCommissions(q) \/ SaveClone(q) \/ SavePresidents(q) \/ Fail(q)
  BY <1>11, InvReadCommissions, InvSaveClone, InvSavePresidents, InvFail
<1> QED
  BY <1>1, <1>2, <1>3, <1>4, <1>5, <1>6, <1>7, <1>8, <1>9, <1>10, <1>11 DEF CommissionStep

-----------------------------------------------------------------------------
(* The theorems about states.                                              *)

StaffInv == LoginInv /\ CommissionInv

LEMMA StaffInvInit == Init => StaffInv
BY LoginInvInit, CommissionInvInit DEF Init, StaffInv

LEMMA StaffInvNext == StaffInv /\ [Next]_vars => StaffInv'
<1> SUFFICES ASSUME StaffInv, [Next]_vars PROVE StaffInv'
  OBVIOUS
<1> USE DEF StaffInv
<1>1. ASSUME NEW q \in Request, LoginStep(q), UNCHANGED offices
      PROVE  StaffInv'
  BY <1>1, LoginInvStep, CommissionInvStutter
<1>2. ASSUME NEW q \in Request, CommissionStep(q), UNCHANGED users
      PROVE  StaffInv'
  BY <1>2, LoginInvStutter, CommissionInvStep
<1>3. CASE ElectionStep /\ UNCHANGED users
  BY <1>3, LoginInvStutter, InvElectionControl, InvRecordVote DEF ElectionStep
<1>4. CASE UNCHANGED vars
  BY <1>4, LoginInvStutter, CommissionInvStutter DEF vars
<1> QED
  BY <1>1, <1>2, <1>3, <1>4 DEF Next

THEOREM StaffInvAlways == Spec => []StaffInv
BY StaffInvInit, StaffInvNext, PTL DEF Spec

(* Every reachable state is well typed: no row refers to a row that is     *)
(* gone, whatever saves fail between two others (ElectionsController.cs).  *)
THEOREM TypeCorrect == Spec => []TypeOK
<1>1. StaffInv => TypeOK
  BY DEF StaffInv, LoginInv, CommissionInv, TypeOK
<1> QED
  BY <1>1, StaffInvAlways, PTL

(* A president is a commissioner of the commission, also of a copy         *)
(* (ElectionsController.cs:728).                                           *)
THEOREM PresidentSitsOnItHolds == Spec => []PresidentSitsOnIt
<1>1. StaffInv => PresidentSitsOnIt
  BY DEF StaffInv, CommissionInv
<1> QED
  BY <1>1, StaffInvAlways, PTL

(* A commission is without president only on purpose, or because the       *)
(* request that was to seat one failed (ElectionsController.cs:305, 349,   *)
(* 391, 755).                                                              *)
THEOREM HeadlessOnPurposeHolds == Spec => []HeadlessOnPurpose
<1>1. StaffInv => HeadlessOnPurpose
  BY DEF StaffInv, CommissionInv
<1> QED
  BY <1>1, StaffInvAlways, PTL

(* The commissions of an election are of its group unless one was marked   *)
(* as not being so when it came (ElectionsController.cs:688-720).          *)
THEOREM GroupsAgreeHolds == Spec => []GroupsAgree
<1>1. StaffInv => GroupsAgree
  BY DEF StaffInv, CommissionInv
<1> QED
  BY <1>1, StaffInvAlways, PTL

(* Votes are deleted only if they came while their election was being      *)
(* deleted (ElectionsController.cs:154, 174).                              *)
THEOREM VotesAreKeptHolds == Spec => []VotesAreKept
<1>1. StaffInv => VotesAreKept
  BY DEF StaffInv, CommissionInv
<1> QED
  BY <1>1, StaffInvAlways, PTL

(* A request has two logins only if two approvals of it overlapped, and a  *)
(* login exactly when it was approved (EligereESAPI.cs:635-646).           *)
THEOREM SecondLoginHasCauseHolds == Spec => []SecondLoginHasCause
<1>1. StaffInv => SecondLoginHasCause
  BY DEF StaffInv, LoginInv
<1> QED
  BY <1>1, StaffInvAlways, PTL

-----------------------------------------------------------------------------
(* Presidents keep their role.                                             *)

(* Nobody who presides over a commission is replaced.                      *)
PresidentsStay ==
  \A c \in DOMAIN commission : commission[c].president # None =>
    /\ c \in DOMAIN commission' /\ commission'[c].president = commission[c].president
    /\ member'[commission[c].president].person = member[commission[c].president].person

LEMMA StayInCommissionStep ==
  ASSUME CommissionInv, NEW q \in Request, CommissionStep(q),
         ~SaveRemoval(q), ~SaveSetAsPresident(q), ~SavePresident(q), ~SavePresidents(q), ~Strip(q)
  PROVE  PresidentsStay
<1> USE DEF CommissionInv
<1>1. CASE UNCHANGED <<commission, member>>
  BY <1>1 DEF PresidentsStay
<1>2. ASSUME NEW e, NEW g, Insert(e, g)
      PROVE  PresidentsStay
  <2>1. PICK n : n = lastC'
    OBVIOUS
  <2>2. /\ DOMAIN commission' = DOMAIN commission \union {n} /\ member' = member
        /\ \A c \in DOMAIN commission : commission'[c] = commission[c]
    BY <1>2, <2>1, InsertedRow
  <2> QED
    BY <2>2 DEF PresidentsStay
<1>3. CASE SaveUpdatePSCommissions(q)
  <2>1. /\ \E c, e : commission' = [commission EXCEPT ![c].election = e]
                     \/ commission' = commission
        /\ member' = member
    BY <1>3 DEF SaveUpdatePSCommissions
  <2>2. ASSUME NEW d \in DOMAIN commission
        PROVE  d \in DOMAIN commission' /\ commission'[d].president = commission[d].president
    <3>1. commission[d] \in [election: DOMAIN groupId, group: Group,
                             president: DOMAIN member \union {None}]
      BY DEF CommissionTypeOK
    <3> QED
      BY <2>1, <3>1
  <2> QED
    BY <2>1, <2>2 DEF PresidentsStay
<1>4. CASE SaveCommissioner(q)
  <2>1. commission' = commission
    BY <1>4 DEF SaveCommissioner
  <2>2. \A m \in DOMAIN member : member'[m] = member[m]
    <3>1. lastM' \notin DOMAIN member
      BY <1>4, RowTypes, LastIsNat DEF SaveCommissioner
    <3> QED
      BY <1>4, <3>1 DEF SaveCommissioner
  <2> QED
    BY <2>1, <2>2, RowTypes DEF PresidentsStay
<1>5. CASE Erase(q)
  <2>1. PICK C, M : C = editing[q].commissions /\ M = editing[q].members
    OBVIOUS
  <2>2. /\ MembersOf(C) = M
        /\ PresidentsOf(DOMAIN commission) \intersect M = {}
        /\ commission' = [c \in DOMAIN commission \ C |-> commission[c]]
        /\ member' = [m \in DOMAIN member \ M |-> member[m]]
    BY <1>5, <2>1 DEF Erase, Without, Restrict
  <2>3. ASSUME NEW c \in DOMAIN commission, commission[c].president # None
        PROVE  c \notin C /\ commission[c].president \in DOMAIN member \ M
    <3>1. commission[c].president \in DOMAIN member /\ commission[c].president \notin M
      BY <2>2, <2>3, RowTypes DEF PresidentsOf
    <3>2. member[commission[c].president].commission = c
      BY <2>3 DEF PresidentSitsOnIt
    <3> QED
      BY <2>2, <3>1, <3>2 DEF MembersOf
  <2> QED
    BY <2>2, <2>3 DEF PresidentsStay
<1>6. CASE SaveClone(q)
  <2>1. PICK job, C, M : job = editing[q] /\ C = DOMAIN job.commissions /\ M = DOMAIN job.members
    OBVIOUS
  <2>2. NewDomains(C, M) /\ OldCommissions(q, job, C) /\ OldMembers
    BY <1>6, <2>1, ClonedRows
  <2>3. ASSUME NEW d \in DOMAIN commission
        PROVE  d \in DOMAIN commission' /\ commission'[d].president = commission[d].president
    <3>1. commission[d] \in [election: DOMAIN groupId, group: Group,
                             president: DOMAIN member \union {None}]
      BY DEF CommissionTypeOK
    <3>2. commission'[d] = IF d \in C /\ job.fresh THEN [commission[d] EXCEPT !.group = q]
                           ELSE commission[d]
      BY <2>2 DEF OldCommissions
    <3>3. d \in DOMAIN commission'
      BY <2>2 DEF NewDomains
    <3> QED
      BY <3>1, <3>2, <3>3
  <2>4. \A m \in DOMAIN member : member'[m] = member[m]
    BY <2>2 DEF OldMembers
  <2> QED
    BY <2>3, <2>4, RowTypes DEF PresidentsStay
<1>7. CASE SaveCommission(q)
  BY <1>2, <1>7 DEF SaveCommission
<1>8. CASE NewPSCommissions(q)
  BY <1>2, <1>8 DEF NewPSCommissions
<1> QED
  BY <1>1, <1>3, <1>4, <1>5, <1>6, <1>7, <1>8
     DEF CommissionStep, AddPSCommission, AddPollingStationComission, Delete,
         UpdatePSCommissions, AddPSCommissioner, AddPSCommissionStaff, DeletePSCommission, RemovePSCommissioner,
         DeletePSCommissionStaff, SetAsPresident, ClonePSCommissions, Gather,
         ReadCommissions, Fail, commissions

(* A user's person changes only with an approval.                          *)
LEMMA PersonStays ==
  ASSUME LoginInv, NEW q \in Request, LoginStep(q), ~SaveApproval(q),
         NEW u \in User, PersonFK(u) # None
  PROVE  PersonFK(u)' = PersonFK(u)
<1> USE DEF LoginInv
<1>1. logins' = logins
  BY DEF LoginStep, RequestUserLoginAssociation, SaveUserLoginRequest, Decide,
         ApproveUserLoginRequest, RejectUserLoginRequest, ApproveUserLoginRequests,
         SaveRejection
<1>2. ASSUME NEW i \in Rows
      PROVE  asked'[i].user = asked[i].user /\ asked'[i].person = asked[i].person
  <2>1. CASE UNCHANGED asked
    BY <2>1
  <2>2. CASE SaveUserLoginRequest(q)
    <3>1. i # q
      BY <2>2, InHand DEF SaveUserLoginRequest, RowsAreOver
    <3> QED
      BY <2>2, <3>1 DEF SaveUserLoginRequest, LoginTypeOK, Rows
  <2>3. CASE SaveRejection(q)
    <3>1. /\ asked[i] \in [user: User, person: Person, approved: BOOLEAN, approval: BOOLEAN]
          /\ i \in Request
      BY DEF LoginTypeOK, Rows
    <3> QED
      BY <2>3, <3>1 DEF SaveRejection
  <2> QED
    BY <2>1, <2>2, <2>3
       DEF LoginStep, RequestUserLoginAssociation, Decide, ApproveUserLoginRequest,
           RejectUserLoginRequest, ApproveUserLoginRequests
<1>3. \A l \in logins : l[1] \in Rows
  BY DEF LoginTypeOK
<1>4. LoginsOf(u)' = LoginsOf(u)
  BY <1>1, <1>2, <1>3 DEF LoginsOf
<1>5. Cardinality(LoginsOf(u)) = 1
  BY DEF PersonFK
<1>6. PICK l : l = CHOOSE x \in LoginsOf(u) : TRUE
  OBVIOUS
<1>7. l \in LoginsOf(u)
  <2>1. LoginsOf(u) # {}
    BY <1>5, FS_EmptySet
  <2> QED
    BY <1>6, <2>1
<1>8. asked'[l[1]].person = asked[l[1]].person
  BY <1>2, <1>3, <1>7 DEF LoginsOf
<1> QED
  BY <1>4, <1>5, <1>6, <1>8 DEF PersonFK

LEMMA RoleIsKept ==
  ASSUME StaffInv, [Next]_vars, NEW u \in User, IsPresident(u),
         \A q \in Request : /\ ~SaveRemoval(q) /\ ~SaveSetAsPresident(q) /\ ~SavePresident(q)
                            /\ ~SavePresidents(q) /\ ~Strip(q) /\ ~SaveApproval(q)
  PROVE  IsPresident(u)'
<1> USE DEF StaffInv
<1>1. PICK c \in DOMAIN commission : /\ commission[c].president # None
                                     /\ member[commission[c].president].person = PersonFK(u)
  BY DEF IsPresident
<1>2. PersonFK(u) # None
  <2>1. commission[c].president \in DOMAIN member
    BY <1>1, RowTypes DEF CommissionInv
  <2>2. member[commission[c].president].person \in Person
    BY <2>1, RowTypes DEF CommissionInv
  <2> QED
    BY <1>1, <2>2, StaffAssumption
<1>3. PresidentsStay
  <2>1. CASE UNCHANGED <<commission, member>>
    BY <2>1 DEF PresidentsStay
  <2>2. ASSUME NEW q \in Request, CommissionStep(q)
        PROVE  PresidentsStay
    BY <2>2, StayInCommissionStep
  <2>3. UNCHANGED <<commission, member>> \/ \E q \in Request : CommissionStep(q)
    BY DEF Next, vars, offices, ElectionStep, ElectionControl, RecordVote, commissions
  <2> QED
    BY <2>1, <2>2, <2>3
<1>4. PersonFK(u)' = PersonFK(u)
  <2>1. CASE UNCHANGED users
    BY <2>1 DEF users, PersonFK, LoginsOf
  <2>2. ASSUME NEW q \in Request, LoginStep(q)
        PROVE  PersonFK(u)' = PersonFK(u)
    BY <1>2, <2>2, PersonStays
  <2>3. UNCHANGED users \/ \E q \in Request : LoginStep(q)
    BY DEF Next, vars
  <2> QED
    BY <2>1, <2>2, <2>3
<1>5. /\ c \in DOMAIN commission' /\ commission'[c].president = commission[c].president
      /\ member'[commission[c].president].person = member[commission[c].president].person
  BY <1>1, <1>3 DEF PresidentsStay
<1> QED
  BY <1>1, <1>4, <1>5 DEF IsPresident

(* A president stops being one only by a removal, a replacement, a         *)
(* deletion, or the approval of a second login (EligereRoles.cs:25-54).    *)
THEOREM PresidentKeepsRoleHolds == Spec => PresidentKeepsRole
<1> DEFINE Kept == \A u \in User :
             IsPresident(u) /\ ~IsPresident(u)' =>
               \E q \in Request : \/ SaveRemoval(q) \/ SaveSetAsPresident(q)
                                  \/ SavePresident(q) \/ SavePresidents(q)
                                  \/ Strip(q) \/ SaveApproval(q)
<1>1. StaffInv /\ [Next]_vars => Kept
  <2> SUFFICES ASSUME StaffInv, [Next]_vars PROVE Kept
    OBVIOUS
  <2> QED
    BY RoleIsKept
<1>2. StaffInv /\ [Next]_vars => [Kept]_vars
  BY <1>1
<1> HIDE DEF Kept
<1>3. Spec => [][Kept]_vars
  BY <1>2, StaffInvAlways, PTL DEF Spec
<1> QED
  BY <1>3 DEF PresidentKeepsRole, Kept
=============================================================================
