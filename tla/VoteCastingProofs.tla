-------------------------- MODULE VoteCastingProofs --------------------------
(***************************************************************************)
(* What holds of VoteCasting for every number of requests, operators,      *)
(* dashboards, tickets, elections and crashes.                             *)
(***************************************************************************)
EXTENDS VoteCasting, TicketsQueueProofs, FiniteSetTheorems

-----------------------------------------------------------------------------
(* Types.                                                                  *)

LEMMA TicketIsOne ==
  ASSUME NEW r \in Request, OneTicket(r)
  PROVE  TicketOf(r) \in Hash /\ req[r].hashes = {TicketOf(r)}
BY DEF OneTicket, TicketOf

LEMMA EntryType ==
  ASSUME TypeOK, NEW r \in Request, req[r] \in Card,
         NEW k \in DOMAIN req[r].ballot
  PROVE  Entry(r, k) \in Entries
<1>1. req[r].ballot \in Seq(Name)
  BY VotingAssumption DEF Card
<1>2. k \in Nat \ {0} /\ req[r].ballot[k] \in Name
  BY <1>1
<1> QED
  BY <1>2 DEF Entry, Entries, Card

(* A request that was received has a card, and one that stores preferences *)
(* has one to store: its list is not empty.                                *)
CardInv ==
  /\ \A r \in Request : pc[r] # "idle" => req[r] \in Card
  /\ \A r \in Request : pc[r] \in {"ticket", "ballot"}
                        => next[r] =< Len(req[r].ballot)
  /\ \A r \in Request : pc[r] \in {"idle", "open", "locked"} => next[r] = 1
  /\ \A r \in Request : pc[r] \notin {"idle", "open", "refused", "died"}
                        => OneTicket(r)

LEMMA TypeInit == Init => TypeOK /\ CardInv
<1> SUFFICES ASSUME Init PROVE TypeOK /\ CardInv
  OBVIOUS
<1>1. QTypeOK
  BY DEF Init, QInit, QTypeOK, Doing, Slot
<1>2. CardInv
  BY DEF Init, CardInv
<1>3. CastTypeOK
  BY DEF Init, CastTypeOK, PC, Ends
<1>4. TallyTypeOK
  BY DEF Init, TallyTypeOK
<1>5. crashes \in 0..MaxCrashes
  BY VotingAssumption DEF Init
<1> QED
  BY <1>1, <1>2, <1>3, <1>4, <1>5 DEF TypeOK

(* What a step of the system is for the queue.                             *)
LEMMA QueuePart ==
  ASSUME [Next]_vars
  PROVE  \/ \E r \in Request : AddBegin(r) \/ AddEnd(r)
         \/ \E c \in Caller : NotifyStep(c) \/ NotifyThrows(c)
         \/ QCrash
         \/ UNCHANGED qvars
<1>1. CASE UNCHANGED vars
  BY <1>1 DEF vars
<1>2. CASE Crash
  BY <1>2 DEF Crash
<1>3. CASE \E d \in Dashboard : SendHangingTickets(d)
  BY <1>3 DEF SendHangingTickets, Caller
<1>4. CASE \E o \in Operator : CloseElections(o) \/ SealAndCount(o)
  BY <1>4 DEF CloseElections, SealAndCount
<1>5. ASSUME NEW r \in Request, Receive(r) \/ RequestStep(r)
      PROVE  \/ AddBegin(r) \/ AddEnd(r) \/ NotifyStep(r) \/ NotifyThrows(r)
             \/ UNCHANGED qvars
  BY <1>5 DEF RequestStep, Receive, RefuseTickets, Enter, AcceptBallot, AcceptEmpty, RefuseBallot,
              PutTicket, PutBallot, StartNotify, Notify, Answer, FailToNotify
<1> QED
  BY <1>1, <1>2, <1>3, <1>4, <1>5 DEF Next, Caller

(* What a step of the system is for the tally.                             *)
LEMMA TallyPart ==
  ASSUME [Next]_vars
  PROVE  \/ \E o \in Operator : CloseElections(o) \/ SealAndCount(o)
         \/ \E r \in Request : AcceptEmpty(r)
         \/ Crash
         \/ UNCHANGED <<tvars, crashes>>
<1>1. CASE UNCHANGED vars
  BY <1>1 DEF vars
<1>2. CASE \E d \in Dashboard : SendHangingTickets(d)
  BY <1>2 DEF SendHangingTickets
<1>3. ASSUME NEW r \in Request, Receive(r) \/ RequestStep(r)
      PROVE  AcceptEmpty(r) \/ UNCHANGED <<tvars, crashes>>
  BY <1>3 DEF RequestStep, Receive, RefuseTickets, Enter, AcceptBallot, AcceptEmpty, RefuseBallot,
              PutTicket, PutBallot, StartNotify, Notify, Answer, FailToNotify
<1> QED
  BY <1>1, <1>2, <1>3 DEF Next

LEMMA TallyTypes ==
  ASSUME TypeOK, CardInv, [Next]_vars
  PROVE  TallyTypeOK' /\ crashes' \in 0..MaxCrashes
<1> USE DEF TypeOK
<1>1. ASSUME NEW o \in Operator, CloseElections(o)
      PROVE  TallyTypeOK' /\ UNCHANGED crashes
  BY <1>1 DEF CloseElections, TallyTypeOK
<1>2. ASSUME NEW o \in Operator, SealAndCount(o)
      PROVE  TallyTypeOK' /\ UNCHANGED crashes
  BY <1>2 DEF SealAndCount, TallyTypeOK, CastTypeOK, Iterate, InFlight
<1>3. ASSUME Crash
      PROVE  TallyTypeOK'
  BY <1>3 DEF Crash, TallyTypeOK
<1>4. ASSUME Crash
      PROVE  crashes' \in 0..MaxCrashes
  BY <1>4, VotingAssumption DEF Crash
<1>5. ASSUME UNCHANGED <<tvars, crashes>>
      PROVE  TallyTypeOK' /\ UNCHANGED crashes
  BY <1>5 DEF TallyTypeOK, tvars
<1>6. ASSUME NEW r \in Request, AcceptEmpty(r)
      PROVE  TallyTypeOK' /\ UNCHANGED crashes
  <2>1. TicketOf(r) \in Hash
    BY <1>6, TicketIsOne DEF AcceptEmpty, CardInv, Ends
  <2> QED
    BY <1>6, <2>1 DEF AcceptEmpty, TallyTypeOK
<1> QED
  BY <1>1, <1>2, <1>3, <1>4, <1>5, <1>6, TallyPart

(* What a step of the system is for the requests.                          *)
LEMMA CastTypes ==
  ASSUME TypeOK, CardInv, [Next]_vars
  PROVE  CastTypeOK' /\ CardInv'
<1> USE DEF TypeOK, CastTypeOK, CardInv, PC, Ends, OneTicket
<1>1. ASSUME NEW r \in Request, Receive(r)
      PROVE  CastTypeOK' /\ CardInv'
  <2>1. PICK b \in Bundle, e \in Election, p \in Ballots :
          req' = [req EXCEPT ![r] = [hashes |-> TicketsFor(b, e), election |-> e,
                                     ballot |-> p]]
    BY <1>1 DEF Receive
  <2>2. [hashes |-> TicketsFor(b, e), election |-> e, ballot |-> p] \in Card
    BY VotingAssumption DEF Card, TicketsFor
  <2> QED
    BY <1>1, <2>1, <2>2 DEF Receive
<1>2. ASSUME NEW r \in Request, RefuseTickets(r)
      PROVE  CastTypeOK' /\ CardInv'
  BY <1>2 DEF RefuseTickets
<1>3. ASSUME NEW r \in Request, Enter(r)
      PROVE  CastTypeOK' /\ CardInv'
  BY <1>3 DEF Enter
<1>4. ASSUME NEW r \in Request, AcceptBallot(r)
      PROVE  CastTypeOK' /\ CardInv'
  <2>1. next[r] =< Len(req[r].ballot)
    <3>1. req[r].ballot \in Seq(Name) \ {<<>>}
      BY <1>4, VotingAssumption DEF AcceptBallot, Card
    <3>2. next[r] = 1
      BY <1>4 DEF AcceptBallot
    <3> QED
      BY <3>1, <3>2
  <2> QED
    BY <1>4, <2>1 DEF AcceptBallot
<1>5. ASSUME NEW r \in Request, RefuseBallot(r)
      PROVE  CastTypeOK' /\ CardInv'
  BY <1>5 DEF RefuseBallot
<1>6. ASSUME NEW r \in Request, PutTicket(r)
      PROVE  CastTypeOK' /\ CardInv'
  <2>1. TicketOf(r) \in Hash
    BY <1>6, TicketIsOne DEF PutTicket
  <2> QED
    BY <1>6, <2>1 DEF PutTicket
<1>7. ASSUME NEW r \in Request, PutBallot(r)
      PROVE  CastTypeOK' /\ CardInv'
  <2>1. Entry(r, next[r]) \in Entries
    <3>1. req[r] \in Card /\ next[r] \in 1..Len(req[r].ballot)
      BY <1>7, VotingAssumption DEF PutBallot, Card
    <3>2. next[r] \in DOMAIN req[r].ballot
      BY <3>1, VotingAssumption DEF Card
    <3> QED
      BY <3>1, <3>2, EntryType
  <2>2. box' \subseteq Entries
    BY <1>7, <2>1 DEF PutBallot, Put
  <2>3. Len(req[r].ballot) \in Nat
    BY <1>7, VotingAssumption DEF PutBallot, Card
  <2>4. CASE next[r] < Len(req[r].ballot)
    <3>1. pc'[r] = "ticket" /\ next'[r] = next[r] + 1 /\ req' = req
      BY <1>7, <2>4 DEF PutBallot
    <3>2. next[r] \in Nat /\ next'[r] =< Len(req'[r].ballot)
      BY <2>3, <2>4, <3>1
    <3>3. \A s \in Request : s # r => pc'[s] = pc[s] /\ next'[s] = next[s]
      BY <1>7, <2>4 DEF PutBallot
    <3>4. pc[r] = "ballot"
      BY <1>7 DEF PutBallot
    <3>5. \A s \in Request : pc'[s] # "idle" => req'[s] \in Card
      BY <3>1, <3>3, <3>4
    <3>6. \A s \in Request : pc'[s] \in {"ticket", "ballot"}
                             => next'[s] =< Len(req'[s].ballot)
      BY <3>1, <3>2, <3>3
    <3>7. \A s \in Request : pc'[s] \in {"idle", "open", "locked"} => next'[s] = 1
      BY <3>1, <3>3
    <3>8. \A s \in Request : pc'[s] \notin {"idle", "open", "refused", "died"}
                             => OneTicket(s)'
      BY <3>1, <3>3, <3>4
    <3>9. CardInv'
      BY <3>5, <3>6, <3>7, <3>8
    <3>10. next' \in [Request -> Nat \ {0}]
      <4>1. next' = [next EXCEPT ![r] = @ + 1] /\ next[r] + 1 \in Nat \ {0}
        BY <1>7, <2>4, <3>2 DEF PutBallot
      <4> QED
        BY <4>1
    <3>11. CastTypeOK'
      BY <1>7, <2>2, <2>4, <3>10 DEF PutBallot
    <3> QED
      BY <3>9, <3>11
  <2>5. CASE ~(next[r] < Len(req[r].ballot))
    BY <1>7, <2>2, <2>5 DEF PutBallot
  <2> QED
    BY <2>4, <2>5
<1>8. ASSUME NEW r \in Request, StartNotify(r)
      PROVE  CastTypeOK' /\ CardInv'
  BY <1>8 DEF StartNotify
<1>9. ASSUME NEW r \in Request, Answer(r)
      PROVE  CastTypeOK' /\ CardInv'
  BY <1>9 DEF Answer
<1>10. CASE Crash
  BY <1>10 DEF Crash, InFlight
<1>11. CASE UNCHANGED svars
  BY <1>11 DEF svars
<1>12. ASSUME NEW r \in Request, AcceptEmpty(r)
       PROVE  CastTypeOK' /\ CardInv'
  BY <1>12 DEF AcceptEmpty
<1>13. ASSUME NEW r \in Request, FailToNotify(r)
       PROVE  CastTypeOK' /\ CardInv'
  BY <1>13 DEF FailToNotify
<1> QED
  BY <1>1, <1>2, <1>3, <1>4, <1>5, <1>6, <1>7, <1>8, <1>9, <1>10, <1>11, <1>12, <1>13
     DEF Next, RequestStep, vars, Notify, SendHangingTickets, CloseElections, SealAndCount

(* Every state is well typed: what the requests carry and store, the list  *)
(* of notices whatever its races leave in it, and the tally.               *)
THEOREM TypeCorrect == Spec => [](TypeOK /\ CardInv)
<1>1. TypeOK /\ CardInv /\ [Next]_vars => (TypeOK /\ CardInv)'
  <2> SUFFICES ASSUME TypeOK, CardInv, [Next]_vars
               PROVE  TypeOK' /\ CardInv'
    OBVIOUS
  <2>1. QTypeOK'
    BY QueuePart, QueueStepTypes DEF TypeOK
  <2> QED
    BY <2>1, CastTypes, TallyTypes DEF TypeOK
<1> QED
  BY <1>1, TypeInit, PTL DEF Spec

-----------------------------------------------------------------------------
(* One ballot per ticket.                                                  *)

Inside == {"locked", "ticket", "ballot"}

Through == {"cast", "notify", "accepted", "failed"}

(* lock(ticketsDb) is what keeps writers apart.                            *)
LockInv == \A r \in Request : pc[r] \in Inside <=> ticketsLock = r

(* A ticket is spent before anything is stored for it ...                  *)
SpentInv ==
  /\ \A r \in Request : pc[r] \in {"ballot"} \union Through /\ req[r].ballot # <<>>
                        => TicketOf(r) \in used
  /\ \A x \in box : /\ OneTicket(x.id[1])
                    /\ TicketOf(x.id[1]) \in used
                    /\ pc[x.id[1]] \in {"ticket", "ballot", "died"} \union Through

(* ... and the request that may store for it is the only one that did.     *)
OwnerInv ==
  /\ \A r \in Request : pc[r] \in {"ticket", "ballot"} =>
       \A x \in box : TicketOf(x.id[1]) = TicketOf(r) => x.id[1] = r
  /\ \A x, y \in box : TicketOf(x.id[1]) = TicketOf(y.id[1]) => x.id[1] = y.id[1]

BallotInv == LockInv /\ SpentInv /\ OwnerInv

(* Only Receive changes a card, and only of a request that is idle: what a *)
(* request that got further is about stays the same.                       *)
LEMMA CardsStay ==
  ASSUME [Next]_vars, NEW r \in Request, pc[r] # "idle"
  PROVE  /\ req'[r] = req[r]
         /\ TicketOf(r)' = TicketOf(r)
         /\ OneTicket(r)' = OneTicket(r)
         /\ WholeBallot(r)' = WholeBallot(r)
         /\ \A k : Entry(r, k)' = Entry(r, k)

<1>1. req'[r] = req[r]
  <2>1. CASE UNCHANGED req
    BY <2>1
  <2>2. CASE \E s \in Request : Receive(s)
    BY <2>2 DEF Receive
  <2> QED
    BY <2>1, <2>2
       DEF Next, vars, svars, RequestStep, RefuseTickets, Enter, AcceptBallot,
           AcceptEmpty, RefuseBallot, PutTicket, PutBallot, StartNotify, Notify, Answer, FailToNotify,
           SendHangingTickets, CloseElections, SealAndCount, Crash
<1> QED
  BY <1>1 DEF TicketOf, OneTicket, WholeBallot, Entry

LEMMA LockStep ==
  ASSUME TypeOK, LockInv, [Next]_vars
  PROVE  LockInv'
<1> USE DEF TypeOK, CastTypeOK, LockInv, Inside
<1>1. ASSUME NEW r \in Request, Receive(r)
      PROVE  LockInv'
  BY <1>1, VotingAssumption DEF Receive
<1>2. ASSUME NEW r \in Request, RefuseTickets(r)
      PROVE  LockInv'
  BY <1>2 DEF RefuseTickets
<1>3. ASSUME NEW r \in Request, Enter(r)
      PROVE  LockInv'
  BY <1>3, VotingAssumption DEF Enter
<1>4. ASSUME NEW r \in Request, AcceptBallot(r)
      PROVE  LockInv'
  BY <1>4 DEF AcceptBallot
<1>5. ASSUME NEW r \in Request, RefuseBallot(r)
      PROVE  LockInv'
  BY <1>5, VotingAssumption DEF RefuseBallot
<1>6. ASSUME NEW r \in Request, PutTicket(r)
      PROVE  LockInv'
  BY <1>6 DEF PutTicket
<1>7. ASSUME NEW r \in Request, PutBallot(r)
      PROVE  LockInv'
  BY <1>7, VotingAssumption DEF PutBallot
<1>8. ASSUME NEW r \in Request, StartNotify(r)
      PROVE  LockInv'
  BY <1>8 DEF StartNotify
<1>9. ASSUME NEW r \in Request, Answer(r)
      PROVE  LockInv'
  BY <1>9 DEF Answer
<1>10. CASE Crash
  BY <1>10, VotingAssumption DEF Crash, InFlight, Ends
<1>11. CASE UNCHANGED svars
  BY <1>11 DEF svars
<1>12. ASSUME NEW r \in Request, AcceptEmpty(r)
       PROVE  LockInv'
  BY <1>12, VotingAssumption DEF AcceptEmpty
<1>13. ASSUME NEW r \in Request, FailToNotify(r)
       PROVE  LockInv'
  BY <1>13 DEF FailToNotify
<1> QED
  BY <1>1, <1>2, <1>3, <1>4, <1>5, <1>6, <1>7, <1>8, <1>9, <1>10, <1>11, <1>12, <1>13
     DEF Next, RequestStep, vars, Notify, SendHangingTickets, CloseElections, SealAndCount

(* A step leaves the box alone or is one PutBallot; and spent tickets stay *)
(* spent.                                                                  *)
LEMMA BoxPart ==
  ASSUME [Next]_vars
  PROVE  /\ UNCHANGED box \/ \E r \in Request : PutBallot(r)
         /\ used \subseteq used'
BY DEF Next, vars, svars, RequestStep, Receive, RefuseTickets, Enter, AcceptBallot,
       AcceptEmpty, RefuseBallot, PutTicket, PutBallot, StartNotify, Notify, Answer, FailToNotify,
       SendHangingTickets, CloseElections, SealAndCount, Crash

(* How far a request gets in one step.                                     *)
LEMMA PcPart ==
  ASSUME TypeOK, [Next]_vars, NEW r \in Request
  PROVE  \/ pc'[r] = pc[r]
         \/ pc[r] = "idle" /\ pc'[r] \in {"open", "refused"}
         \/ pc[r] = "open" /\ pc'[r] \in {"locked", "refused"}
         \/ AcceptBallot(r) /\ pc'[r] = "ticket"
         \/ AcceptEmpty(r) /\ pc'[r] = "cast"
         \/ pc[r] = "locked" /\ pc'[r] = "refused"
         \/ PutTicket(r) /\ pc'[r] = "ballot"
         \/ PutBallot(r) /\ pc'[r] \in {"ticket", "cast"}
         \/ pc[r] = "cast" /\ pc'[r] = "notify"
         \/ pc[r] = "notify" /\ Answer(r) /\ pc'[r] = "accepted"
         \/ pc[r] = "notify" /\ FailToNotify(r) /\ pc'[r] = "failed"
         \/ r \in InFlight /\ Crash /\ pc'[r] = "died"
<1> USE DEF TypeOK, CastTypeOK
<1>1. CASE UNCHANGED pc
  BY <1>1
<1>2. CASE Crash
  BY <1>2 DEF Crash
<1>3. ASSUME NEW s \in Request, Receive(s) \/ RequestStep(s), s # r
      PROVE  pc'[r] = pc[r]
  BY <1>3 DEF RequestStep, Receive, RefuseTickets, Enter, AcceptBallot, AcceptEmpty, RefuseBallot,
              PutTicket, PutBallot, StartNotify, Notify, Answer, FailToNotify, svars
<1>4. CASE Receive(r) \/ RefuseTickets(r) \/ Enter(r)
  BY <1>4 DEF Receive, RefuseTickets, Enter
<1>5. CASE AcceptBallot(r) \/ AcceptEmpty(r) \/ RefuseBallot(r)
  BY <1>5 DEF AcceptBallot, AcceptEmpty, RefuseBallot
<1>6. CASE PutTicket(r) \/ PutBallot(r)
  BY <1>6 DEF PutTicket, PutBallot
<1>7. CASE StartNotify(r) \/ Notify(r) \/ Answer(r) \/ FailToNotify(r)
  BY <1>7 DEF StartNotify, Notify, Answer, FailToNotify, svars
<1> QED
  BY <1>1, <1>2, <1>3, <1>4, <1>5, <1>6, <1>7
     DEF Next, vars, svars, RequestStep, SendHangingTickets, CloseElections, SealAndCount

(* Where an entry of the next state comes from.                            *)
LEMMA NewEntry ==
  ASSUME TypeOK, [Next]_vars, NEW x \in box'
  PROVE  /\ x \in box /\ x.id[1] \in Request
         \/ \E r \in Request : PutBallot(r) /\ x = Entry(r, next[r]) /\ x.id[1] = r
<1>1. CASE x \in box
  BY <1>1 DEF TypeOK, CastTypeOK, Entries
<1>2. CASE x \notin box
  <2>1. PICK r \in Request : PutBallot(r)
    BY <1>2, BoxPart
  <2>2. x = Entry(r, next[r])
    BY <1>2, <2>1 DEF PutBallot, Put
  <2> QED
    BY <2>1, <2>2 DEF Entry
<1> QED
  BY <1>1, <1>2

(* Who stores a ballot has a preference to store.                          *)
LEMMA WritersHaveBallots ==
  ASSUME CardInv, TypeOK, NEW r \in Request, pc[r] \in {"ticket", "ballot"}
  PROVE  req[r].ballot # <<>>
<1>1. next[r] \in Nat \ {0} /\ next[r] =< Len(req[r].ballot)
  BY DEF CardInv, TypeOK, CastTypeOK
<1> QED
  BY <1>1

LEMMA SpentStep ==
  ASSUME TypeOK, CardInv, SpentInv, [Next]_vars
  PROVE  SpentInv'
<1>1. ASSUME NEW r \in Request, pc'[r] \in {"ballot"} \union Through,
             req'[r].ballot # <<>>
      PROVE  TicketOf(r)' \in used'
  <2>1. pc[r] # "idle"
    BY <1>1, PcPart DEF Through, AcceptEmpty, PutTicket, PutBallot
  <2>2. TicketOf(r)' = TicketOf(r) /\ req[r].ballot # <<>>
    BY <1>1, <2>1, CardsStay
  <2>3. CASE PutTicket(r)
    BY <2>2, <2>3 DEF PutTicket
  <2>4. CASE ~PutTicket(r)
    <3>1. pc[r] \in {"ballot"} \union Through
      BY <1>1, <2>2, <2>4, PcPart DEF Through, AcceptEmpty, PutBallot
    <3> QED
      BY <3>1, <2>2, BoxPart DEF SpentInv
  <2> QED
    BY <2>3, <2>4
<1>2. ASSUME NEW x \in box'
      PROVE  /\ OneTicket(x.id[1])'
             /\ TicketOf(x.id[1])' \in used'
             /\ pc'[x.id[1]] \in {"ticket", "ballot", "died"} \union Through
  <2> DEFINE r == x.id[1]
  <2>1. r \in Request /\ OneTicket(r) /\ TicketOf(r) \in used
        /\ pc[r] \in {"ticket", "ballot", "died"} \union Through
    <3>1. CASE x \in box /\ x.id[1] \in Request
      BY <3>1 DEF SpentInv
    <3>2. CASE \E s \in Request : PutBallot(s) /\ x = Entry(s, next[s]) /\ x.id[1] = s
      <4>1. PICK s \in Request : PutBallot(s) /\ x.id[1] = s
        BY <3>2
      <4>2. req[s].ballot # <<>>
        BY <4>1, WritersHaveBallots DEF PutBallot
      <4> QED
        BY <4>1, <4>2, Zenon DEF PutBallot, CardInv, SpentInv, Ends
    <3> QED
      BY <3>1, <3>2, NewEntry
  <2>2. OneTicket(r)' /\ TicketOf(r)' \in used'
    BY <2>1, CardsStay, BoxPart DEF Through
  <2>3. pc'[r] \in {"ticket", "ballot", "died"} \union Through
    BY <2>1, PcPart DEF Through, AcceptBallot
  <2> QED
    BY <2>2, <2>3
<1> QED
  BY <1>1, <1>2 DEF SpentInv

LEMMA OwnerStep ==
  ASSUME TypeOK, CardInv, BallotInv, [Next]_vars
  PROVE  OwnerInv'
<1> USE DEF BallotInv
<1>1. \A x \in box' : /\ x.id[1] \in Request
                      /\ pc[x.id[1]] \in {"ticket", "ballot", "died"} \union Through
                      /\ TicketOf(x.id[1])' = TicketOf(x.id[1])
  <2> SUFFICES ASSUME NEW x \in box'
               PROVE  /\ x.id[1] \in Request
                      /\ pc[x.id[1]] \in {"ticket", "ballot", "died"} \union Through
                      /\ TicketOf(x.id[1])' = TicketOf(x.id[1])
    OBVIOUS
  <2>1. x.id[1] \in Request
        /\ pc[x.id[1]] \in {"ticket", "ballot", "died"} \union Through
    BY NewEntry DEF SpentInv, PutBallot
  <2> QED
    BY <2>1, CardsStay DEF Through
<1>2. ASSUME NEW r \in Request, pc'[r] \in {"ticket", "ballot"}, NEW x \in box',
             TicketOf(x.id[1])' = TicketOf(r)'
      PROVE  x.id[1] = r
  <2>1. pc[r] \in Inside
    BY <1>2, PcPart DEF Inside, AcceptBallot, PutTicket, PutBallot
  <2>2. TicketOf(r)' = TicketOf(r)
    BY <2>1, CardsStay DEF Inside
  <2>3. TicketOf(x.id[1]) = TicketOf(r)
    BY <1>1, <1>2, <2>2
  <2>4. CASE pc[r] = "locked"
    <3>1. AcceptBallot(r) /\ UNCHANGED box
      BY <1>2, <2>4, PcPart DEF AcceptBallot, PutTicket, PutBallot
    <3>2. TicketOf(r) \notin used
      BY <3>1 DEF AcceptBallot, MayCast
    <3> QED
      BY <3>1, <3>2, <2>3 DEF SpentInv
  <2>5. CASE pc[r] \in {"ticket", "ballot"}
    <3>1. CASE x \in box
      BY <3>1, <2>3, <2>5 DEF OwnerInv
    <3>2. CASE x \notin box
      <4>1. PICK s \in Request : PutBallot(s) /\ x.id[1] = s
        BY <3>2, NewEntry
      <4>2. ticketsLock = s /\ ticketsLock = r
        BY <4>1, <2>1 DEF LockInv, PutBallot, Inside
      <4> QED
        BY <4>1, <4>2
    <3> QED
      BY <3>1, <3>2
  <2> QED
    BY <2>1, <2>4, <2>5 DEF Inside
<1>3. ASSUME NEW x \in box', NEW y \in box', TicketOf(x.id[1])' = TicketOf(y.id[1])'
      PROVE  x.id[1] = y.id[1]
  <2>1. TicketOf(x.id[1]) = TicketOf(y.id[1])
    BY <1>1, <1>3
  <2>2. ASSUME NEW u \in box', NEW v \in box', u \notin box, v \in box,
               TicketOf(u.id[1]) = TicketOf(v.id[1])
        PROVE  u.id[1] = v.id[1]
    <3>1. PICK s \in Request : PutBallot(s) /\ u.id[1] = s
      BY <2>2, NewEntry
    <3> QED
      BY <3>1, <2>2 DEF PutBallot, OwnerInv
  <2>3. CASE x \in box /\ y \in box
    BY <2>1, <2>3 DEF OwnerInv
  <2>4. CASE x \notin box /\ y \notin box
    <3>1. PICK s \in Request : PutBallot(s)
      BY <2>4, NewEntry
    <3> QED
      BY <3>1, <2>4 DEF PutBallot, Put
  <2> QED
    BY <2>1, <2>2, <2>3, <2>4
<1> QED
  BY <1>2, <1>3 DEF OwnerInv

LEMMA BallotInvariant == Spec => []BallotInv
<1>1. Init => BallotInv
  BY VotingAssumption
     DEF Init, BallotInv, LockInv, SpentInv, OwnerInv, Inside, Through
<1>2. TypeOK /\ CardInv /\ BallotInv /\ [Next]_vars => BallotInv'
  BY LockStep, SpentStep, OwnerStep DEF BallotInv
<1> QED
  BY <1>1, <1>2, TypeCorrect, PTL DEF Spec

(* For any number of requests and crashes: no ticket is worth two ballots. *)
THEOREM OneBallotPerTicketHolds == Spec => []OneBallotPerTicket
<1>1. BallotInv => OneBallotPerTicket
  BY DEF BallotInv, OwnerInv, OneBallotPerTicket
<1> QED
  BY <1>1, BallotInvariant, PTL

-----------------------------------------------------------------------------
(* What was acknowledged is stored.                                        *)

(* All the preferences are in the box, or there are none and it is noted   *)
(* that the ticket came with an empty list.                                *)
Settled(r) == /\ WholeBallot(r) \subseteq box
              /\ req[r].ballot = <<>> => OneTicket(r) /\ TicketOf(r) \in empties

(* The preferences a request is done with are in the box: those before     *)
(* next while it is inside the lock, all of them once it is through.       *)
StoredInv ==
  /\ \A r \in Request : pc[r] \in Inside =>
       \A k \in 1..(next[r] - 1) : Entry(r, k) \in box
  /\ \A r \in Request : pc[r] \in Through => Settled(r)

(* A Put never loses another entry: two entries with one id are the same.  *)
LEMMA EntryKept ==
  ASSUME [Next]_vars, NEW r \in Request, NEW k, Entry(r, k) \in box
  PROVE  Entry(r, k) \in box'
<1>1. CASE UNCHANGED box
  BY <1>1
<1>2. ASSUME NEW s \in Request, PutBallot(s)
      PROVE  Entry(r, k) \in box'
  <2>1. box' = Put(box, Entry(s, next[s]))
    BY <1>2 DEF PutBallot
  <2>2. CASE Entry(r, k).id = Entry(s, next[s]).id
    <3>1. r = s /\ k = next[s]
      BY <2>2 DEF Entry
    <3> QED
      BY <3>1, <2>1 DEF Put
  <2>3. CASE Entry(r, k).id # Entry(s, next[s]).id
    BY <2>1, <2>3 DEF Put
  <2> QED
    BY <2>2, <2>3
<1> QED
  BY <1>1, <1>2, BoxPart

LEMMA WholeKept ==
  ASSUME [Next]_vars, NEW r \in Request, pc[r] # "idle", WholeBallot(r) \subseteq box
  PROVE  WholeBallot(r)' \subseteq box'
<1>1. WholeBallot(r)' = WholeBallot(r)
  BY CardsStay
<1>2. WholeBallot(r) \subseteq box'
  BY EntryKept DEF WholeBallot
<1> QED
  BY <1>1, <1>2

(* The note on an empty list is kept.                                      *)
LEMMA EmptiesPart ==
  ASSUME [Next]_vars
  PROVE  UNCHANGED empties \/ \E r \in Request : AcceptEmpty(r)
BY DEF Next, vars, tvars, RequestStep, Receive, RefuseTickets, Enter, AcceptBallot,
       AcceptEmpty, RefuseBallot, PutTicket, PutBallot, StartNotify, Notify, Answer,
       FailToNotify, SendHangingTickets, CloseElections, SealAndCount, Crash

LEMMA SettledKept ==
  ASSUME [Next]_vars, NEW r \in Request, pc[r] # "idle", Settled(r)
  PROVE  Settled(r)'
<1>1. WholeBallot(r)' \subseteq box'
  BY WholeKept DEF Settled
<1>2. empties \subseteq empties'
  BY EmptiesPart DEF AcceptEmpty
<1>3. req'[r] = req[r] /\ TicketOf(r)' = TicketOf(r) /\ OneTicket(r)' = OneTicket(r)
  BY CardsStay
<1> QED
  BY <1>1, <1>2, <1>3 DEF Settled

(* How next moves.                                                         *)
LEMMA NextPart ==
  ASSUME TypeOK, [Next]_vars, NEW r \in Request
  PROVE  \/ next'[r] = next[r]
         \/ PutBallot(r) /\ next'[r] = next[r] + 1
BY DEF TypeOK, CastTypeOK, Next, vars, svars, RequestStep, Receive, RefuseTickets, Enter,
       AcceptBallot, AcceptEmpty, RefuseBallot, PutTicket, PutBallot, StartNotify, Notify, Answer, FailToNotify,
       SendHangingTickets, CloseElections, SealAndCount, Crash

LEMMA StoredStep ==
  ASSUME TypeOK, CardInv, StoredInv, [Next]_vars
  PROVE  StoredInv'
<1>1. ASSUME NEW r \in Request, PutBallot(r)
      PROVE  Entry(r, next[r]) \in box'
  BY <1>1 DEF PutBallot, Put
<1>2. ASSUME NEW r \in Request, pc'[r] \in Inside, NEW k \in 1..(next'[r] - 1)
      PROVE  Entry(r, k)' \in box'
  <2>1. next[r] \in Nat \ {0}
    BY DEF TypeOK, CastTypeOK
  <2>2. CASE pc[r] \in Inside
    <3>1. Entry(r, k)' = Entry(r, k)
      BY <2>2, CardsStay DEF Inside
    <3>2. CASE k \in 1..(next[r] - 1)
      BY <3>1, <3>2, <2>2, EntryKept DEF StoredInv
    <3>3. CASE k \notin 1..(next[r] - 1)
      <4>1. PutBallot(r) /\ k = next[r]
        BY <1>2, <2>1, <3>3, NextPart
      <4> QED
        BY <4>1, <3>1, <1>1
    <3> QED
      BY <3>2, <3>3
  <2>3. CASE pc[r] \notin Inside
    <3>1. pc[r] = "open"
      BY <1>2, <2>3, PcPart DEF Inside, AcceptBallot, PutTicket, PutBallot
    <3>2. next[r] = 1
      BY <3>1 DEF CardInv
    <3>3. next'[r] = 1
      BY <3>1, <3>2, NextPart DEF PutBallot
    <3> QED
      BY <1>2, <3>3
  <2> QED
    BY <2>2, <2>3
<1>3. ASSUME NEW r \in Request, pc'[r] \in Through
      PROVE  Settled(r)'
  <2>1. CASE pc[r] \in Through
    BY <2>1, SettledKept DEF StoredInv, Through
  <2>2. CASE AcceptEmpty(r)
    <3>1. OneTicket(r) /\ req[r].ballot = <<>> /\ TicketOf(r) \in empties'
      BY <2>2 DEF AcceptEmpty, CardInv, Ends
    <3>2. /\ req'[r] = req[r] /\ TicketOf(r)' = TicketOf(r)
          /\ OneTicket(r)' = OneTicket(r) /\ WholeBallot(r)' = WholeBallot(r)
      BY <2>2, CardsStay DEF AcceptEmpty
    <3>3. WholeBallot(r) = {}
      BY <3>1 DEF WholeBallot
    <3> QED
      BY <3>1, <3>2, <3>3 DEF Settled
  <2>3. CASE pc[r] \notin Through /\ ~AcceptEmpty(r)
    <3>1. PutBallot(r) /\ pc'[r] = "cast"
      BY <1>3, <2>3, PcPart DEF Through
    <3>2. ~(next[r] < Len(req[r].ballot))
      BY <3>1 DEF PutBallot, TypeOK, CastTypeOK
    <3>3. /\ next[r] \in Nat /\ Len(req[r].ballot) \in Nat
          /\ DOMAIN req[r].ballot = 1..Len(req[r].ballot)
      BY <3>1, VotingAssumption DEF PutBallot, CardInv, Card, TypeOK, CastTypeOK
    <3>4. ASSUME NEW k \in DOMAIN req[r].ballot
          PROVE  Entry(r, k) \in box'
      <4>1. CASE k = next[r]
        BY <4>1, <3>1, <1>1
      <4>2. CASE k # next[r]
        <5>1. k \in 1..(next[r] - 1)
          BY <4>2, <3>2, <3>3
        <5> QED
          BY <5>1, <3>1, EntryKept DEF StoredInv, PutBallot, Inside
      <4> QED
        BY <4>1, <4>2
    <3>5. WholeBallot(r)' = WholeBallot(r) /\ req'[r] = req[r]
      BY <3>1, CardsStay DEF PutBallot
    <3>6. req'[r].ballot # <<>>
      BY <3>1, <3>5, WritersHaveBallots DEF PutBallot
    <3>7. WholeBallot(r)' \subseteq box'
      BY <3>4, <3>5 DEF WholeBallot
    <3> QED
      BY <3>6, <3>7 DEF Settled
  <2> QED
    BY <2>1, <2>2, <2>3
<1> QED
  BY <1>2, <1>3 DEF StoredInv

LEMMA StoredInvariant == Spec => []StoredInv
<1>1. Init => StoredInv
  BY DEF Init, StoredInv, Inside, Through
<1>2. TypeOK /\ CardInv /\ StoredInv /\ [Next]_vars => StoredInv'
  BY StoredStep
<1> QED
  BY <1>1, <1>2, TypeCorrect, PTL DEF Spec

(* A voter told "Vote casted" has the ticket spent and the whole ballot in *)
(* the box, for lists of any length but the empty one, whatever other      *)
(* requests, tallies and crashes do.                                       *)
THEOREM AcceptedIsStoredHolds == Spec => []AcceptedIsStored
<1>1. BallotInv /\ StoredInv => AcceptedIsStored
  BY DEF BallotInv, SpentInv, StoredInv, Settled, AcceptedIsStored, SpentAndStored, Through
<1> QED
  BY <1>1, BallotInvariant, StoredInvariant, PTL

-----------------------------------------------------------------------------
(* What the election system records.                                       *)

(* Requests past the last Put, with the ballot they wrote.                 *)
PastCast == {"notify", "accepted", "failed", "died"}

Noticed == {r \in Request : pc[r] \in PastCast /\ Settled(r)}

NoticeInv == OnlyOf(Noticed \union {Null})

(* A request that has its whole ballot stored, which is not empty, is the  *)
(* one that stored it.                                                     *)
LEMMA WholeIsThere ==
  ASSUME TypeOK, CardInv, SpentInv, NEW r \in Request, pc[r] # "idle",
         req[r].ballot # <<>>, WholeBallot(r) \subseteq box
  PROVE  /\ OneTicket(r) /\ TicketOf(r) \in used
         /\ req[r].hashes = {TicketOf(r)} /\ TicketOf(r) \in Hash
<1>1. req[r].ballot \in Seq(Name) \ {<<>>}
  BY VotingAssumption DEF CardInv, Card
<1>2. 1 \in DOMAIN req[r].ballot
  BY <1>1
<1>3. Entry(r, 1) \in box /\ Entry(r, 1).id[1] = r
  BY <1>2 DEF WholeBallot, Entry
<1>4. OneTicket(r) /\ TicketOf(r) \in used
  BY <1>3 DEF SpentInv
<1> QED
  BY <1>4, TicketIsOne

LEMMA NoticedStay ==
  ASSUME TypeOK, [Next]_vars
  PROVE  Noticed \subseteq Noticed'
<1> SUFFICES ASSUME NEW r \in Noticed
             PROVE  r \in Noticed'
  OBVIOUS
<1>1. r \in Request /\ pc[r] \in PastCast
  BY DEF Noticed
<1>2. pc'[r] \in PastCast
  BY <1>1, PcPart DEF AcceptBallot, AcceptEmpty, PutTicket, PutBallot, PastCast
<1>3. Settled(r)'
  BY <1>1, SettledKept DEF Noticed, PastCast
<1> QED
  BY <1>1, <1>2, <1>3 DEF Noticed

LEMMA NoticeStep ==
  ASSUME TypeOK, StoredInv, NoticeInv, [Next]_vars
  PROVE  NoticeInv'
<1> DEFINE S == Noticed \union {Null}
<1>1. \A r \in Request : pc[r] = "notify" => r \in S
  BY DEF StoredInv, Through, Noticed, PastCast
<1>2. \/ \E r \in Request : AddBegin(r)
      \/ \E r \in Request \intersect S : AddEnd(r)
      \/ \E c \in Caller : NotifyStep(c) \/ NotifyThrows(c)
      \/ QCrash
      \/ UNCHANGED qvars
  BY <1>1 DEF Next, vars, RequestStep, Receive, RefuseTickets, Enter, AcceptBallot,
              AcceptEmpty, RefuseBallot, PutTicket, PutBallot, StartNotify, Notify, Answer, FailToNotify,
              SendHangingTickets, CloseElections, SealAndCount, Crash, Caller
<1>3. queue' \in Seq(S) /\ batch' \in [Caller -> Seq(S)] /\ recorded' \subseteq S
  BY <1>2, NothingComesIn DEF NoticeInv, OnlyOf, TypeOK
<1>4. S \subseteq Noticed' \union {Null}
  BY NoticedStay
<1>5. PICK T : T = Noticed' \union {Null}
  OBVIOUS
<1>6. Seq(S) \subseteq Seq(T)
  BY <1>4, <1>5
<1>7. queue' \in Seq(T) /\ batch' \in [Caller -> Seq(T)] /\ recorded' \subseteq T
  <2>1. S \subseteq T
    BY <1>4, <1>5
  <2> HIDE DEF S
  <2> QED
    BY <1>3, <1>6, <2>1
<1> QED
  BY <1>5, <1>7 DEF NoticeInv, OnlyOf, ListsOf

LEMMA NoticeInvariant == Spec => []NoticeInv
<1>1. Init => NoticeInv
  BY DEF Init, QInit, NoticeInv, OnlyOf, ListsOf
<1>2. TypeOK /\ StoredInv /\ NoticeInv /\ [Next]_vars => NoticeInv'
  BY NoticeStep
<1> QED
  BY <1>1, <1>2, TypeCorrect, StoredInvariant, PTL DEF Spec

(* A voter is recorded as having voted only with the ticket spent and the  *)
(* whole ballot in the box, or for an empty list that was accepted,        *)
(* whatever the racing writes make of the list of notices and however      *)
(* often a notice is sent, lost or repeated.                               *)
THEOREM RecordedIsStoredHolds == Spec => []RecordedIsStored
<1>1. TypeOK /\ CardInv /\ BallotInv /\ NoticeInv => RecordedIsStored
  <2> SUFFICES ASSUME TypeOK, CardInv, BallotInv, NoticeInv, NEW r \in recorded
               PROVE  IF req[r].ballot = <<>> THEN TicketOf(r) \in empties
                                              ELSE SpentAndStored(r)
    BY DEF RecordedIsStored
  <2>1. r \in Noticed
    BY QueueAssumption DEF NoticeInv, OnlyOf, TypeOK, QTypeOK
  <2>2. CASE req[r].ballot = <<>>
    BY <2>1, <2>2 DEF Noticed, Settled
  <2>3. CASE req[r].ballot # <<>>
    BY <2>1, <2>3, WholeIsThere DEF Noticed, Settled, PastCast, SpentAndStored, BallotInv
  <2> QED
    BY <2>2, <2>3
<1> QED
  BY <1>1, TypeCorrect, BallotInvariant, NoticeInvariant, PTL

-----------------------------------------------------------------------------
(* The seal.                                                               *)

(* Who gets past the check of the seal after it was put: nobody.           *)
SealInv ==
  /\ \A o \in Operator : tpc[o] = "closed" => esClosed
  /\ sealed => /\ esClosed
               /\ InFlight \subseteq admitted
               /\ \A x \in box : x \in counted \/ x.id[1] \in admitted
               /\ \A r \in Request : pc[r] = "accepted" /\ r \notin admitted
                                     => WholeBallot(r) \subseteq counted

(* What a step that does not put the seal does to what SealInv is about.   *)
LEMMA SealPart ==
  ASSUME [Next]_vars
  PROVE  \/ UNCHANGED <<sealed, counted, admitted>>
         \/ \E o \in Operator : SealAndCount(o)
BY DEF Next, vars, tvars, RequestStep, Receive, RefuseTickets, Enter, AcceptBallot,
       AcceptEmpty, RefuseBallot, PutTicket, PutBallot, StartNotify, Notify, Answer, FailToNotify,
       SendHangingTickets, CloseElections, SealAndCount, Crash

LEMMA ClosedPart ==
  ASSUME TypeOK, SealInv, [Next]_vars
  PROVE  /\ \A o \in Operator : tpc'[o] = "closed" => esClosed'
         /\ esClosed => esClosed'
<1> USE DEF TypeOK, TallyTypeOK, SealInv
<1>1. CASE UNCHANGED <<tpc, esClosed>>
  BY <1>1
<1>2. ASSUME NEW o \in Operator, CloseElections(o)
      PROVE  /\ \A p \in Operator : tpc'[p] = "closed" => esClosed'
             /\ esClosed => esClosed'
  BY <1>2 DEF CloseElections
<1>3. ASSUME NEW o \in Operator, SealAndCount(o)
      PROVE  /\ \A p \in Operator : tpc'[p] = "closed" => esClosed'
             /\ esClosed => esClosed'
  BY <1>3 DEF SealAndCount
<1>4. CASE Crash
  BY <1>4 DEF Crash
<1> QED
  BY <1>1, <1>2, <1>3, <1>4
     DEF Next, vars, tvars, RequestStep, Receive, RefuseTickets, Enter, AcceptBallot,
         AcceptEmpty, RefuseBallot, PutTicket, PutBallot, StartNotify, Notify, Answer, FailToNotify, SendHangingTickets

LEMMA SealStep ==
  ASSUME TypeOK, StoredInv, SealInv, [Next]_vars
  PROVE  SealInv'
<1>1. CASE UNCHANGED <<sealed, counted, admitted>>
  <2> SUFFICES ASSUME sealed
               PROVE  /\ InFlight' \subseteq admitted
                      /\ \A x \in box' : x \in counted \/ x.id[1] \in admitted
                      /\ \A r \in Request : pc'[r] = "accepted" /\ r \notin admitted
                                            => WholeBallot(r)' \subseteq counted
    BY <1>1, ClosedPart DEF SealInv
  <2>1. ASSUME NEW r \in Request, pc[r] = "idle"
        PROVE  pc'[r] \in {"idle", "refused"}
    <3>1. CASE Receive(r)
      BY <3>1 DEF Receive, TypeOK, CastTypeOK
    <3>2. CASE ~Receive(r)
      <4>1. ASSUME NEW s \in Request, Receive(s), s # r
            PROVE  pc'[r] = pc[r]
        BY <4>1 DEF Receive, TypeOK, CastTypeOK
      <4>2. ASSUME NEW s \in Request, RequestStep(s)
            PROVE  pc'[r] = pc[r]
        BY <4>2, <2>1 DEF RequestStep, RefuseTickets, Enter, AcceptBallot, AcceptEmpty, RefuseBallot,
              PutTicket, PutBallot, StartNotify, Notify, Answer, FailToNotify, svars, TypeOK, CastTypeOK
      <4>3. CASE Crash
        BY <4>3, <2>1 DEF Crash, InFlight
      <4> QED
        BY <2>1, <3>2, <4>1, <4>2, <4>3
           DEF Next, vars, svars, SendHangingTickets, CloseElections, SealAndCount
    <3> QED
      BY <3>1, <3>2
  <2>2. InFlight' \subseteq InFlight
    BY <2>1, PcPart DEF InFlight, Ends, AcceptBallot, AcceptEmpty, PutTicket, PutBallot
  <2>3. ASSUME NEW x \in box'
        PROVE  x \in counted \/ x.id[1] \in admitted
    <3>1. CASE x \in box
      BY <3>1 DEF SealInv
    <3>2. ASSUME NEW r \in Request, PutBallot(r), x.id[1] = r
          PROVE  x.id[1] \in admitted
      BY <3>2 DEF PutBallot, InFlight, Ends, SealInv
    <3> QED
      BY <3>1, <3>2, NewEntry
  <2>4. ASSUME NEW r \in Request, pc'[r] = "accepted", r \notin admitted
        PROVE  WholeBallot(r)' \subseteq counted
    <3>1. pc[r] = "accepted"
      BY <2>4, PcPart DEF InFlight, Ends, SealInv
    <3> QED
      BY <2>4, <3>1, CardsStay DEF SealInv
  <2> QED
    BY <2>2, <2>3, <2>4 DEF SealInv
<1>2. ASSUME NEW o \in Operator, SealAndCount(o)
      PROVE  SealInv'
  <2>1. counted' = box /\ box' = box /\ pc' = pc /\ req' = req
    BY <1>2 DEF SealAndCount, svars, Iterate
  <2>2. InFlight' = InFlight
    BY <2>1 DEF InFlight
  <2>3. InFlight' \subseteq admitted'
    BY <1>2, <2>2 DEF SealAndCount, SealInv
  <2>4. ASSUME NEW r \in Request, pc'[r] = "accepted"
        PROVE  WholeBallot(r)' \subseteq counted'
    BY <2>4, <2>1, CardsStay DEF StoredInv, Settled, Through
  <2>5. esClosed'
    BY <1>2 DEF SealAndCount, SealInv
  <2> QED
    BY <2>1, <2>3, <2>4, <2>5, ClosedPart DEF SealInv
<1> QED
  BY <1>1, <1>2, SealPart

LEMMA SealInvariant == Spec => []SealInv
<1>1. Init => SealInv
  BY DEF Init, SealInv
<1>2. TypeOK /\ StoredInv /\ SealInv /\ [Next]_vars => SealInv'
  BY SealStep
<1> QED
  BY <1>1, <1>2, TypeCorrect, StoredInvariant, PTL DEF Spec

(* No results before the election system has closed the elections, though  *)
(* its answers are lost and the process restarts between the two steps.    *)
THEOREM SealedAfterCloseHolds == Spec => []SealedAfterClose
<1>1. SealInv => SealedAfterClose
  BY DEF SealInv, SealedAfterClose
<1> QED
  BY <1>1, SealInvariant, PTL

(* A ballot the tally misses was on its way when the seal was put.         *)
THEOREM UncountedWasInFlightHolds == Spec => []UncountedWasInFlight
<1>1. SealInv => UncountedWasInFlight
  BY DEF SealInv, UncountedWasInFlight
<1> QED
  BY <1>1, SealInvariant, PTL

(* What was acknowledged before the seal is in every count.                *)
THEOREM AcceptedIsCountedHolds == Spec => []AcceptedIsCounted
<1>1. SealInv => AcceptedIsCounted
  BY DEF SealInv, AcceptedIsCounted
<1> QED
  BY <1>1, SealInvariant, PTL

-----------------------------------------------------------------------------
(* Crashes tear ballots one at a time.                                     *)

(* The tickets whose ballots are being written.  BeingWritten also has the *)
(* ticket of a request that is inside the lock and may still be refused.   *)
Writing == {h \in Hash : \E r \in Request : /\ pc[r] \in {"ticket", "ballot"}
                                            /\ req[r].hashes = {h}}

Torn == {h \in used \ Writing : ~Stored(h)}

TornInv == /\ IsFiniteSet(Torn) /\ Cardinality(Torn) =< crashes
           /\ \A r \in Request : pc[r] = "idle" => req[r].hashes = {}

LEMMA StoredStays ==
  ASSUME TypeOK, TornInv, [Next]_vars, NEW h, Stored(h)
  PROVE  Stored(h)'
<1>1. PICK r \in Request : /\ req[r].hashes = {h} /\ req[r].ballot # <<>>
                           /\ WholeBallot(r) \subseteq box
  BY DEF Stored
<1>2. pc[r] # "idle"
  BY <1>1 DEF TornInv
<1>3. WholeBallot(r)' \subseteq box' /\ req'[r] = req[r]
  BY <1>1, <1>2, WholeKept, CardsStay
<1> QED
  BY <1>1, <1>3 DEF Stored

(* Without a crash no ballot is left torn ...                              *)
LEMMA NoneTorn ==
  ASSUME TypeOK, CardInv, StoredInv', TornInv, [Next]_vars, ~Crash
  PROVE  Torn' \subseteq Torn
<1> SUFFICES ASSUME NEW h \in Torn'
             PROVE  h \in Torn
  OBVIOUS
<1>1. h \in used' /\ h \notin Writing' /\ ~Stored(h)
  BY StoredStays DEF Torn
<1>2. ASSUME NEW r \in Request, PutTicket(r), h = TicketOf(r)
      PROVE  FALSE
  <2>1. req'[r].hashes = {h} /\ h \in Hash
    BY <1>2, TicketIsOne DEF PutTicket, CardInv, Ends
  <2>2. pc'[r] = "ballot"
    BY <1>2 DEF PutTicket, TypeOK, CastTypeOK
  <2> QED
    BY <1>1, <2>1, <2>2 DEF Writing
<1>3. UNCHANGED used \/ \E r \in Request : PutTicket(r)
  BY DEF Next, vars, svars, RequestStep, Receive, RefuseTickets, Enter, AcceptBallot,
         AcceptEmpty, RefuseBallot, PutTicket, PutBallot, StartNotify, Notify, Answer, FailToNotify,
         SendHangingTickets, CloseElections, SealAndCount
<1>4. h \in used
  BY <1>1, <1>2, <1>3 DEF PutTicket
<1>5. ASSUME h \in Writing
      PROVE  FALSE
  <2>1. PICK r \in Request : pc[r] \in {"ticket", "ballot"} /\ req[r].hashes = {h}
    BY <1>5 DEF Writing
  <2>2. req'[r].hashes = {h} /\ req'[r].ballot # <<>>
    BY <2>1, CardsStay, WritersHaveBallots
  <2>3. pc'[r] \notin {"ticket", "ballot"}
    BY <1>1, <1>5, <2>2 DEF Writing
  <2>4. pc'[r] = "cast"
    BY <2>1, <2>3, PcPart DEF AcceptBallot, AcceptEmpty
  <2>5. WholeBallot(r)' \subseteq box'
    BY <2>4 DEF StoredInv, Settled, Through
  <2>6. Stored(h)'
    BY <2>2, <2>5 DEF Stored
  <2> QED
    BY <2>6 DEF Torn
<1> QED
  BY <1>1, <1>4, <1>5 DEF Torn

(* ... and a crash tears the one whose writer holds the lock.              *)
LEMMA OneTorn ==
  ASSUME TypeOK, CardInv, LockInv, TornInv, Crash
  PROVE  \E h : Torn' \subseteq Torn \union {h}
<1>1. used' = used /\ req' = req /\ box' = box
  BY DEF Crash
<1>2. \A h : Stored(h)' = Stored(h)
  BY <1>1 DEF Stored, WholeBallot, Entry
<1>3. Torn' \subseteq Torn \union Writing
  BY <1>1, <1>2 DEF Torn
<1>4. ASSUME NEW h \in Writing, NEW g \in Writing
      PROVE  h = g
  BY <1>4 DEF Writing, LockInv, Inside
<1> QED
  BY <1>3, <1>4

LEMMA TornStep ==
  ASSUME TypeOK, CardInv, LockInv, StoredInv', TornInv, [Next]_vars
  PROVE  TornInv'
<1>1. ASSUME NEW r \in Request, pc'[r] = "idle"
      PROVE  req'[r].hashes = {}
  <2>1. pc[r] = "idle"
    BY <1>1, PcPart DEF AcceptBallot, AcceptEmpty, PutTicket, PutBallot
  <2>2. req'[r] = req[r]
    <3>1. CASE UNCHANGED req
      BY <3>1
    <3>2. ASSUME NEW s \in Request, Receive(s)
          PROVE  req'[r] = req[r]
      BY <3>2, <1>1 DEF Receive, TypeOK, CastTypeOK
    <3> QED
      BY <3>1, <3>2
         DEF Next, vars, svars, RequestStep, RefuseTickets, Enter, AcceptBallot,
             AcceptEmpty, RefuseBallot, PutTicket, PutBallot, StartNotify, Notify, Answer, FailToNotify,
             SendHangingTickets, CloseElections, SealAndCount, Crash
  <2> QED
    BY <2>1, <2>2 DEF TornInv
<1>2. crashes \in Nat
  BY VotingAssumption DEF TypeOK
<1>3. CASE ~Crash
  <2>1. crashes' = crashes
    BY <1>3, TallyPart DEF AcceptEmpty, CloseElections, SealAndCount
  <2>2. Torn' \subseteq Torn
    BY <1>3, NoneTorn
  <2>3. IsFiniteSet(Torn') /\ Cardinality(Torn') =< Cardinality(Torn)
    BY <2>2, FS_Subset DEF TornInv
  <2>4. Cardinality(Torn) \in Nat /\ Cardinality(Torn') \in Nat
    BY <2>3, FS_CardinalityType DEF TornInv
  <2>5. Cardinality(Torn') =< crashes'
    BY <1>2, <2>1, <2>3, <2>4 DEF TornInv
  <2> QED
    BY <1>1, <2>3, <2>5 DEF TornInv
<1>4. CASE Crash
  <2>1. crashes' = crashes + 1
    BY <1>4 DEF Crash
  <2>2. PICK h : Torn' \subseteq Torn \union {h}
    BY <1>4, OneTorn
  <2>3. /\ IsFiniteSet(Torn \union {h})
        /\ Cardinality(Torn \union {h}) =< Cardinality(Torn) + 1
    <3>1. Cardinality(Torn) \in Nat
      BY FS_CardinalityType DEF TornInv
    <3> QED
      BY <3>1, FS_AddElement DEF TornInv
  <2>4. IsFiniteSet(Torn') /\ Cardinality(Torn') =< Cardinality(Torn \union {h})
    BY <2>2, <2>3, FS_Subset
  <2>5. /\ Cardinality(Torn) \in Nat /\ Cardinality(Torn') \in Nat
        /\ Cardinality(Torn \union {h}) \in Nat
    BY <2>3, <2>4, FS_CardinalityType DEF TornInv
  <2>6. Cardinality(Torn') =< crashes'
    BY <1>2, <2>1, <2>3, <2>4, <2>5 DEF TornInv
  <2> QED
    BY <1>1, <2>4, <2>6 DEF TornInv
<1> QED
  BY <1>3, <1>4

LEMMA TornInvariant == Spec => []TornInv
<1>1. Init => TornInv
  <2> SUFFICES ASSUME Init
               PROVE  TornInv
    OBVIOUS
  <2>1. Torn = {}
    BY DEF Init, Torn
  <2>2. IsFiniteSet(Torn) /\ Cardinality(Torn) = 0
    BY <2>1, FS_EmptySet
  <2> QED
    BY <2>2 DEF Init, TornInv, NoCard
<1>2. TypeOK /\ CardInv /\ BallotInv /\ StoredInv' /\ TornInv /\ [Next]_vars => TornInv'
  BY TornStep DEF BallotInv
<1> QED
  BY <1>1, <1>2, TypeCorrect, BallotInvariant, StoredInvariant, PTL DEF Spec

(* Outside the lock a spent ticket has its whole ballot stored, but for    *)
(* one ticket per crash.                                                   *)
THEOREM OneTornBallotPerCrashHolds == Spec => []OneTornBallotPerCrash
<1>1. TypeOK /\ CardInv /\ BallotInv /\ TornInv => OneTornBallotPerCrash
  <2> SUFFICES ASSUME TypeOK, CardInv, BallotInv, TornInv
               PROVE  OneTornBallotPerCrash
    OBVIOUS
  <2>1. ASSUME NEW h \in Writing
        PROVE  h \in BeingWritten
    <3>1. PICK r \in Request : pc[r] \in {"ticket", "ballot"} /\ req[r].hashes = {h}
      BY <2>1 DEF Writing
    <3>2. ticketsLock = r /\ ticketsLock # NoOne
      BY <3>1, VotingAssumption DEF BallotInv, LockInv, Inside
    <3> QED
      BY <3>1, <3>2 DEF BeingWritten
  <2>2. TornBallots \subseteq Torn
    BY <2>1 DEF TornBallots, Torn
  <2>3. /\ Cardinality(TornBallots) =< Cardinality(Torn)
        /\ IsFiniteSet(TornBallots)
    BY <2>2, FS_Subset DEF TornInv
  <2>4. crashes \in Nat /\ Cardinality(Torn) \in Nat /\ Cardinality(TornBallots) \in Nat
    BY <2>3, FS_CardinalityType, VotingAssumption DEF TypeOK, TornInv
  <2> QED
    BY <2>3, <2>4 DEF TornInv, OneTornBallotPerCrash
<1> QED
  BY <1>1, TypeCorrect, BallotInvariant, TornInvariant, PTL

-----------------------------------------------------------------------------
(* The limits of an election.                                              *)

(* A ballot the limits allow, in an election that was loaded, of a ticket  *)
(* for that election.                                                      *)
Allowed(r) == /\ req[r].election \in Contest
              /\ Acceptable(req[r].election, req[r].ballot)

LimitInv ==
  /\ \A r \in Request : \A h \in req[r].hashes : ElectionOf[h] = req[r].election
  /\ \A r \in Request : pc[r] \in {"ticket", "ballot"} => Allowed(r)
  /\ \A x \in box : Allowed(x.id[1]) /\ x \in WholeBallot(x.id[1])

LEMMA AllowedStays ==
  ASSUME [Next]_vars, NEW r \in Request, pc[r] # "idle"
  PROVE  Allowed(r)' = Allowed(r)
BY CardsStay DEF Allowed, Acceptable, PartyCount

LEMMA LimitStep ==
  ASSUME TypeOK, CardInv, SpentInv, LimitInv, [Next]_vars
  PROVE  LimitInv'
<1>1. ASSUME NEW r \in Request, NEW h \in req'[r].hashes
      PROVE  ElectionOf[h] = req'[r].election
  <2>1. CASE UNCHANGED req
    BY <2>1, <1>1 DEF LimitInv
  <2>2. ASSUME NEW s \in Request, Receive(s)
        PROVE  ElectionOf[h] = req'[r].election
    <3>1. CASE r # s
      BY <3>1, <2>2, <1>1 DEF Receive, TypeOK, CastTypeOK, LimitInv
    <3>2. CASE r = s
      <4>1. PICK b \in Bundle, e \in Election, p \in Ballots :
              req'[r] = [hashes |-> TicketsFor(b, e), election |-> e, ballot |-> p]
        BY <3>2, <2>2 DEF Receive, TypeOK, CastTypeOK
      <4> QED
        BY <4>1, <1>1 DEF TicketsFor
    <3> QED
      BY <3>1, <3>2
  <2> QED
    BY <2>1, <2>2
       DEF Next, vars, svars, RequestStep, RefuseTickets, Enter, AcceptBallot,
           AcceptEmpty, RefuseBallot, PutTicket, PutBallot, StartNotify, Notify, Answer, FailToNotify,
           SendHangingTickets, CloseElections, SealAndCount, Crash
<1>2. ASSUME NEW r \in Request, pc'[r] \in {"ticket", "ballot"}
      PROVE  Allowed(r)'
  <2>1. pc[r] # "idle" /\ (pc[r] \in {"ticket", "ballot"} \/ AcceptBallot(r))
    BY <1>2, PcPart DEF AcceptBallot, AcceptEmpty, PutTicket, PutBallot
  <2>2. Allowed(r)
    BY <2>1 DEF LimitInv, AcceptBallot, MayCast, Allowed
  <2> QED
    BY <2>1, <2>2, AllowedStays
<1>3. ASSUME NEW x \in box'
      PROVE  Allowed(x.id[1])' /\ x \in WholeBallot(x.id[1])'
  <2>1. CASE x \in box /\ x.id[1] \in Request
    <3>1. pc[x.id[1]] # "idle" /\ Allowed(x.id[1]) /\ x \in WholeBallot(x.id[1])
      BY <2>1 DEF LimitInv, SpentInv, Through
    <3> QED
      BY <2>1, <3>1, AllowedStays, CardsStay
  <2>2. ASSUME NEW r \in Request, PutBallot(r), x = Entry(r, next[r]), x.id[1] = r
        PROVE  Allowed(x.id[1])' /\ x \in WholeBallot(x.id[1])'
    <3>1. pc[r] = "ballot" /\ Allowed(r)
      BY <2>2 DEF PutBallot, LimitInv
    <3>2. next[r] \in DOMAIN req[r].ballot
      BY <3>1, VotingAssumption DEF TypeOK, CastTypeOK, CardInv, Card
    <3>3. x \in WholeBallot(r)
      BY <2>2, <3>2 DEF WholeBallot
    <3> QED
      BY <2>2, <3>1, <3>3, AllowedStays, CardsStay
  <2> QED
    BY <2>1, <2>2, NewEntry
<1> QED
  BY <1>1, <1>2, <1>3 DEF LimitInv

LEMMA LimitInvariant == Spec => []LimitInv
<1>1. Init => LimitInv
  BY DEF Init, LimitInv, NoCard
<1>2. TypeOK /\ CardInv /\ BallotInv /\ LimitInv /\ [Next]_vars => LimitInv'
  BY LimitStep DEF BallotInv
<1> QED
  BY <1>1, <1>2, TypeCorrect, BallotInvariant, PTL DEF Spec

(* The entries of one ballot are at most as many as the positions they are *)
(* at: two of them differ in their position.                               *)
LEMMA EntriesAtPositions ==
  ASSUME NEW r, NEW V \in SUBSET WholeBallot(r),
         NEW D \in SUBSET DOMAIN req[r].ballot, IsFiniteSet(D),
         \A x \in V : x.id[2] \in D
  PROVE  /\ IsFiniteSet(V)
         /\ Cardinality(V) =< Cardinality(D)
<1> DEFINE f == [x \in V |-> x.id[2]]
<1>1. f \in Injection(V, D)
  <2>1. f \in [V -> D]
    OBVIOUS
  <2>2. ASSUME NEW x \in V, NEW y \in V, x.id[2] = y.id[2]
        PROVE  x = y
    BY <2>2 DEF WholeBallot, Entry
  <2> QED
    BY <2>1, <2>2 DEF Injection, IsInjective
<1> HIDE DEF f
<1> QED
  BY <1>1, FS_Injection

(* Whatever is stored for a ticket keeps to the limits of its election,    *)
(* but for the name that a ticket without a party may have too many; in    *)
(* elections that allow at least one name, so that a blank ballot does.    *)
THEOREM TicketWithinLimitsHolds ==
  ASSUME \A e \in Contest : VotesAllowed[e] \in Nat \ {0}
  PROVE  Spec => []TicketWithinLimits
<1>1. TypeOK /\ CardInv /\ BallotInv /\ LimitInv => TicketWithinLimits
  <2> SUFFICES ASSUME TypeOK, CardInv, BallotInv, LimitInv,
                      NEW h \in used, VotesOn(h) # {}
               PROVE  LET e == ElectionOf[h]
                          votes == {x.vote : x \in VotesOn(h)}
                          candidates == Cardinality(VotesOn(h) \ PartyVotes(h))
                      IN /\ e \in Contest
                         /\ \/ votes \subseteq Selections[e]
                            \/ /\ votes \in {{Blank}, {Spoil}}
                               /\ Cardinality(VotesOn(h)) = 1
                         /\ Cardinality(PartyVotes(h)) =< 1
                         /\ \/ candidates =< VotesAllowed[e]
                            \/ /\ e \in PartyElections /\ PartyVotes(h) = {}
                               /\ candidates = VotesAllowed[e] + 1
    BY DEF TicketWithinLimits
  <2> DEFINE V == VotesOn(h)
             P == PartyVotes(h)
             C == VotesOn(h) \ PartyVotes(h)
             e == ElectionOf[h]
  <2>1. PICK z : z \in V
    OBVIOUS
  <2>2. PICK r : r = z.id[1]
    OBVIOUS
  <2>3. r \in Request /\ req[r].hashes = {h} /\ pc[r] # "idle"
    BY <2>1, <2>2 DEF VotesOn, BallotInv, SpentInv, Through, TypeOK, CastTypeOK, Entries
  <2>4. PICK p : p = req[r].ballot
    OBVIOUS
  <2>5. e = req[r].election /\ p \in Seq(Name)
    BY <2>3, <2>4, VotingAssumption DEF LimitInv, CardInv, Card
  <2>6. e \in Contest /\ Acceptable(e, p)
    BY <2>1, <2>2, <2>4, <2>5 DEF LimitInv, Allowed, VotesOn
  <2>7. V \subseteq WholeBallot(r)
    <3>1. ASSUME NEW x \in V
          PROVE  x.id[1] = r
      BY <2>1, <2>2, <2>3 DEF VotesOn, BallotInv, OwnerInv, TicketOf
    <3> QED
      BY <3>1 DEF LimitInv, VotesOn
  <2>8. \A x \in V : x.id[2] \in DOMAIN p /\ x.vote = p[x.id[2]]
    BY <2>4, <2>7 DEF WholeBallot, Entry
  <2>9. /\ IsFiniteSet(DOMAIN p) /\ Cardinality(DOMAIN p) = Len(p)
        /\ Len(p) \in Nat /\ DOMAIN p = 1..Len(p)
    BY <2>5, FS_Interval
  <2>10. IsFiniteSet(V) /\ Cardinality(V) =< Len(p)
    BY <2>4, <2>7, <2>8, <2>9, EntriesAtPositions
  <2>11. P \subseteq V /\ C \subseteq V
    BY DEF PartyVotes
  <2>12. /\ IsFiniteSet(P) /\ Cardinality(P) =< Cardinality(V)
         /\ IsFiniteSet(C) /\ Cardinality(C) =< Cardinality(V)
    BY <2>10, <2>11, FS_Subset
  <2>13. Cardinality(V) \in Nat /\ Cardinality(P) \in Nat /\ Cardinality(C) \in Nat
    BY <2>10, <2>12, FS_CardinalityType
  <2>14. VotesAllowed[e] \in Nat \ {0}
    BY <2>6
  <2>15. CASE p = <<Blank>> \/ p = <<Spoil>>
    <3>1. Len(p) = 1 /\ p[1] \in {Blank, Spoil} /\ \A x \in V : x.vote = p[1]
      BY <2>15, <2>8, <2>9
    <3>2. Cardinality(V) # 0
      BY <2>1, <2>10, FS_EmptySet
    <3>3. Cardinality(V) = 1
      BY <3>1, <3>2, <2>10, <2>13
    <3>4. {x.vote : x \in V} = {p[1]}
      BY <2>1, <3>1
    <3>5. Cardinality(P) =< 1 /\ Cardinality(C) =< VotesAllowed[e]
      BY <3>3, <2>12, <2>13, <2>14
    <3> QED
      BY <2>6, <3>1, <3>3, <3>4, <3>5
  <2>16. CASE p # <<Blank>> /\ p # <<Spoil>>
    <3>1. /\ e \in PartyElections => PartyCount(p) =< 1
          /\ e \notin PartyElections => Len(p) =< VotesAllowed[e]
          /\ Len(p) =< VotesAllowed[e] + 1
          /\ \A i \in DOMAIN p : p[i] \in Selections[e]
      BY <2>6, <2>9, <2>14, <2>16 DEF Acceptable
    <3>2. {x.vote : x \in V} \subseteq Selections[e]
      BY <3>1, <2>8
    <3>3. CASE e \notin PartyElections
      <4>1. P = {}
        BY <3>3 DEF PartyVotes
      <4>2. Cardinality(P) =< 1
        BY <4>1, FS_EmptySet
      <4>3. Cardinality(C) =< VotesAllowed[e]
        BY <3>1, <3>3, <2>9, <2>10, <2>12, <2>13, <2>14
      <4> QED
        BY <2>6, <3>2, <4>2, <4>3
    <3>4. CASE e \in PartyElections
      <4>1. PICK D : D = {i \in DOMAIN p : p[i] \in Parties}
        OBVIOUS
      <4>2. D \in SUBSET DOMAIN p /\ IsFiniteSet(D) /\ Cardinality(D) =< 1
        <5>1. D \subseteq DOMAIN p
          BY <4>1
        <5>2. IsFiniteSet(D)
          BY <5>1, <2>9, FS_Subset
        <5> QED
          BY <5>1, <5>2, <3>1, <3>4, <4>1 DEF PartyCount
      <4>3. \A x \in V : x \in P <=> x.id[2] \in D
        BY <3>4, <4>1, <2>8 DEF PartyVotes
      <4>4. P \in SUBSET WholeBallot(r) /\ C \in SUBSET WholeBallot(r)
        BY <2>7, <2>11
      <4>5. Cardinality(P) =< Cardinality(D)
        BY <4>2, <4>3, <4>4, <2>4, <2>11, EntriesAtPositions
      <4>6. Cardinality(D) \in Nat
        BY <4>2, FS_CardinalityType
      <4>7. Cardinality(P) =< 1
        BY <4>2, <4>5, <4>6, <2>13
      <4>8. CASE P = {}
        <5>1. Cardinality(C) =< VotesAllowed[e] + 1
          BY <3>1, <2>9, <2>10, <2>12, <2>13, <2>14
        <5>2. \/ Cardinality(C) =< VotesAllowed[e]
              \/ Cardinality(C) = VotesAllowed[e] + 1
          BY <5>1, <2>13, <2>14
        <5> QED
          BY <2>6, <3>2, <3>4, <4>7, <4>8, <5>2
      <4>9. CASE P # {}
        <5>1. PICK y : y \in P
          BY <4>9
        <5>2. PICK E : E = DOMAIN p \ {y.id[2]}
          OBVIOUS
        <5>3. y.id[2] \in D /\ y.id[2] \in DOMAIN p
          BY <5>1, <4>2, <4>3, <2>11
        <5>4. /\ E \in SUBSET DOMAIN p /\ IsFiniteSet(E)
              /\ Cardinality(E) = Cardinality(DOMAIN p) - 1
          <6>1. PICK i : i = y.id[2]
            OBVIOUS
          <6>2. PICK G : G = DOMAIN p
            OBVIOUS
          <6>3. i \in G /\ IsFiniteSet(G)
            BY <6>1, <6>2, <5>3, <2>9
          <6>4. /\ IsFiniteSet(G \ {i})
                /\ Cardinality(G \ {i}) = IF i \in G THEN Cardinality(G) - 1
                                                      ELSE Cardinality(G)
            BY ONLY <6>3, FS_RemoveElement
          <6>5. Cardinality(G \ {i}) = Cardinality(G) - 1
            BY <6>3, <6>4
          <6> QED
            BY <5>2, <6>1, <6>2, <6>4, <6>5
        <5>5. \A x \in C : x.id[2] \in E
          BY <5>2, <5>3, <4>3, <2>8, <2>11
        <5>6. Cardinality(C) =< Cardinality(E)
          BY <5>4, <5>5, <4>4, <2>4, EntriesAtPositions
        <5>7. Cardinality(C) =< VotesAllowed[e]
          BY <5>4, <5>6, <3>1, <2>9, <2>13, <2>14
        <5> QED
          BY <2>6, <3>2, <4>7, <5>7
      <4> QED
        BY <4>8, <4>9
    <3> QED
      BY <3>3, <3>4
  <2> QED
    BY <2>15, <2>16
<1> QED
  BY <1>1, TypeCorrect, BallotInvariant, LimitInvariant, PTL

-----------------------------------------------------------------------------
(* Seen from the election system.                                          *)

(* A ticket is spent with the first Put and not before, and whoever adds   *)
(* a notice is past the last one.                                          *)
SpendInv ==
  /\ \A r \in Request : pc[r] = "locked" => next[r] = 1
  /\ \A r \in Request : pc[r] = "ticket" => (TicketOf(r) \in used <=> next[r] > 1)
  /\ \A r \in Request : at[r] = "adding" => pc[r] = "notify"

LEMMA UsedPart ==
  ASSUME [Next]_vars
  PROVE  UNCHANGED used \/ \E r \in Request : PutTicket(r)
BY DEF Next, vars, svars, RequestStep, Receive, RefuseTickets, Enter, AcceptBallot,
       AcceptEmpty, RefuseBallot, PutTicket, PutBallot, StartNotify, Notify, Answer, FailToNotify,
       SendHangingTickets, CloseElections, SealAndCount, Crash

LEMMA AddingPart ==
  ASSUME TypeOK, [Next]_vars, NEW r \in Request, at'[r] = "adding"
  PROVE  at[r] = "adding" \/ StartNotify(r)
<1> USE DEF TypeOK, QTypeOK, Caller
<1>1. \/ \E s \in Request : StartNotify(s) \/ AddEnd(s)
      \/ \E c \in Caller : NotifyStep(c) \/ NotifyThrows(c)
      \/ QCrash
      \/ UNCHANGED qvars
  BY DEF Next, vars, RequestStep, Receive, RefuseTickets, Enter, AcceptBallot, AcceptEmpty, RefuseBallot,
         PutTicket, PutBallot, Notify, Answer, FailToNotify, SendHangingTickets, CloseElections,
         SealAndCount, Crash
<1>2. ASSUME NEW s \in Request, StartNotify(s)
      PROVE  at[r] = "adding" \/ StartNotify(r)
  BY <1>2 DEF StartNotify, AddBegin
<1>3. ASSUME NEW s \in Request, AddEnd(s)
      PROVE  at[r] = "adding"
  BY <1>3 DEF AddEnd
<1>4. ASSUME NEW c \in Caller, NotifyStep(c)
      PROVE  at[r] = "adding"
  BY <1>4 DEF NotifyStep, CopyQueue, SendAcknowledged, SendFailed, RemoveSent, NotifyReturn
<1>5. CASE QCrash \/ UNCHANGED qvars
  BY <1>5 DEF QCrash, qvars
<1>6. ASSUME NEW c \in Caller, NotifyThrows(c)
      PROVE  at[r] = "adding"
  BY <1>6 DEF NotifyThrows
<1> QED
  BY <1>1, <1>2, <1>3, <1>4, <1>5, <1>6

LEMMA SpendStep ==
  ASSUME TypeOK, CardInv, BallotInv, SpendInv, [Next]_vars
  PROVE  SpendInv'
<1> USE DEF SpendInv, TypeOK, CastTypeOK
<1>1. ASSUME NEW r \in Request, pc'[r] = "locked"
      PROVE  next'[r] = 1
  <2>1. pc[r] \in {"open", "locked"}
    BY <1>1, PcPart DEF AcceptBallot, AcceptEmpty, PutTicket, PutBallot
  <2>2. next[r] = 1
    BY <2>1 DEF CardInv
  <2> QED
    BY <2>1, <2>2, NextPart DEF PutBallot
<1>2. ASSUME NEW r \in Request, pc'[r] = "ticket"
      PROVE  (TicketOf(r) \in used <=> next[r] > 1)'
  <2>1. CASE pc[r] = "ticket"
    <3>1. TicketOf(r)' = TicketOf(r) /\ next'[r] = next[r]
      BY <2>1, CardsStay, NextPart DEF PutBallot
    <3>2. UNCHANGED used
      <4>1. ASSUME NEW s \in Request, PutTicket(s)
            PROVE  FALSE
        <5>1. s = r
          BY <2>1, <4>1 DEF PutTicket, BallotInv, LockInv, Inside
        <5> QED
          BY <1>2, <4>1, <5>1 DEF PutTicket
      <4> QED
        BY <4>1, UsedPart
    <3> QED
      BY <2>1, <3>1, <3>2
  <2>2. CASE pc[r] # "ticket"
    <3>1. AcceptBallot(r) \/ PutBallot(r)
      BY <1>2, <2>2, PcPart
    <3>2. TicketOf(r)' = TicketOf(r) /\ UNCHANGED used
      BY <3>1, CardsStay DEF AcceptBallot, PutBallot
    <3>3. CASE AcceptBallot(r)
      <4>1. TicketOf(r) \notin used /\ next[r] = 1 /\ next' = next
        BY <3>3 DEF AcceptBallot, MayCast
      <4> QED
        BY <3>2, <4>1
    <3>4. CASE PutBallot(r)
      <4>1. TicketOf(r) \in used
        BY <3>4, WritersHaveBallots DEF PutBallot, BallotInv, SpentInv
      <4>2. next' = [next EXCEPT ![r] = @ + 1]
        BY <1>2, <3>4 DEF PutBallot
      <4>3. next'[r] > 1
        BY <4>2
      <4> QED
        BY <3>2, <4>1, <4>3
    <3> QED
      BY <3>1, <3>3, <3>4
  <2> QED
    BY <2>1, <2>2
<1>3. ASSUME NEW r \in Request, at'[r] = "adding"
      PROVE  pc'[r] = "notify"
  <2> USE DEF QTypeOK, Caller
  <2>1. CASE at[r] = "adding"
    <3>1. pc[r] = "notify"
      BY <2>1
    <3>2. ~Crash /\ ~Answer(r) /\ ~FailToNotify(r)
      BY <1>3, <2>1 DEF Crash, QCrash, Answer, FailToNotify, NotifyThrows
    <3>3. pc'[r] = "notify" \/ Answer(r) \/ FailToNotify(r)
      BY <3>1, <3>2, PcPart DEF AcceptBallot, AcceptEmpty, PutTicket, PutBallot
    <3> QED
      BY <3>2, <3>3
  <2>2. CASE at[r] # "adding"
    <3>1. StartNotify(r)
      BY <1>3, <2>2, AddingPart
    <3> QED
      BY <3>1 DEF StartNotify
  <2> QED
    BY <2>1, <2>2
<1> QED
  BY <1>1, <1>2, <1>3

LEMMA SpendInvariant == Spec => []SpendInv
<1>1. Init => SpendInv
  BY DEF Init, QInit, SpendInv, Caller
<1>2. TypeOK /\ CardInv /\ BallotInv /\ SpendInv /\ [Next]_vars => SpendInv'
  BY SpendStep
<1> QED
  BY <1>1, <1>2, TypeCorrect, BallotInvariant, PTL DEF Spec

(* What the election system sees of a state.                               *)
StoredTickets == {h \in Hash : Stored(h)}

PendingRequests == {r \in Request : Pending(r)}

TicketsOf(R) == {TicketOf(r) : r \in R}

(* A ticket has a whole ballot from the last Put for it.                   *)
LEMMA StoredByPut ==
  ASSUME TypeOK, CardInv, SpentInv, [Next]_vars, NEW h \in Hash, Stored(h)'
  PROVE  Stored(h) \/ \E r \in Request : PutBallot(r) /\ TicketOf(r) = h
<1>1. PICK r \in Request : /\ req'[r].hashes = {h} /\ req'[r].ballot # <<>>
                           /\ WholeBallot(r)' \subseteq box'
  BY DEF Stored
<1>2. CASE pc[r] = "idle" /\ req'[r] = req[r]
  <2>1. UNCHANGED box \/ \E s \in Request : PutBallot(s) /\ s # r
    BY <1>2, BoxPart DEF PutBallot
  <2>2. WholeBallot(r)' = WholeBallot(r)
    BY <1>2 DEF WholeBallot, Entry
  <2>3. \A k : Entry(r, k) \in box' => Entry(r, k) \in box
    BY <2>1 DEF PutBallot, Put, Entry
  <2> QED
    BY <1>1, <1>2, <2>2, <2>3 DEF WholeBallot, Stored
<1>3. CASE pc[r] = "idle" /\ req'[r] # req[r]
  <2>1. Receive(r)
    BY <1>3 DEF TypeOK, CastTypeOK, Next, vars, svars, RequestStep, Receive, RefuseTickets,
                Enter, AcceptBallot, AcceptEmpty, RefuseBallot, PutTicket, PutBallot, StartNotify, Notify,
                Answer, FailToNotify, SendHangingTickets, CloseElections, SealAndCount, Crash
  <2>2. box' = box /\ req'[r].ballot \in Ballots
    BY <2>1 DEF Receive, TypeOK, CastTypeOK
  <2>3. req'[r].ballot \in Seq(Name) \ {<<>>}
    BY <1>1, <2>2, VotingAssumption
  <2>4. 1 \in DOMAIN req'[r].ballot
    BY <2>3
  <2>5. Entry(r, 1)' \in box /\ Entry(r, 1)'.id[1] = r
    BY <1>1, <2>2, <2>4 DEF WholeBallot, Entry
  <2> QED
    BY <1>3, <2>5 DEF SpentInv, Through
<1>4. CASE pc[r] # "idle"
  <2>1. req'[r] = req[r] /\ WholeBallot(r)' = WholeBallot(r)
    BY <1>4, CardsStay
  <2>2. CASE UNCHANGED box
    BY <1>1, <2>1, <2>2 DEF Stored
  <2>3. ASSUME NEW s \in Request, PutBallot(s), s # r
        PROVE  Stored(h)
    <3>1. \A k : Entry(r, k) \in box' => Entry(r, k) \in box
      BY <2>3 DEF PutBallot, Put, Entry
    <3> QED
      BY <1>1, <2>1, <3>1 DEF WholeBallot, Stored
  <2>4. CASE PutBallot(r)
    <3>1. TicketOf(r) = h
      BY <1>1, <2>1 DEF TicketOf
    <3> QED
      BY <2>4, <3>1
  <2> QED
    BY <2>2, <2>3, <2>4, BoxPart
<1> QED
  BY <1>2, <1>3, <1>4

LEMMA StoredPart ==
  ASSUME TypeOK, CardInv, SpentInv, TornInv, [Next]_vars
  PROVE  \/ StoredTickets' = StoredTickets
         \/ \E r \in Request : /\ PutBallot(r)
                               /\ StoredTickets' = StoredTickets \union {TicketOf(r)}
<1>1. StoredTickets \subseteq StoredTickets'
  BY StoredStays DEF StoredTickets
<1>2. CASE StoredTickets' \subseteq StoredTickets
  BY <1>1, <1>2
<1>3. CASE ~(StoredTickets' \subseteq StoredTickets)
  <2>1. PICK h \in StoredTickets' : h \notin StoredTickets
    BY <1>3
  <2>2. PICK r \in Request : PutBallot(r) /\ TicketOf(r) = h
    BY <2>1, StoredByPut DEF StoredTickets
  <2>3. ASSUME NEW g \in StoredTickets', g \notin StoredTickets
        PROVE  g = h
    <3>1. PICK s \in Request : PutBallot(s) /\ TicketOf(s) = g
      BY <2>3, StoredByPut DEF StoredTickets
    <3>2. s = r
      BY <2>2, <3>1 DEF PutBallot, TypeOK, CastTypeOK
    <3> QED
      BY <2>2, <3>1, <3>2
  <2> QED
    BY <1>1, <2>1, <2>2, <2>3
<1> QED
  BY <1>2, <1>3

(* Who has a notice to come has one ticket that the notice is about.       *)
LEMMA PendingHasTicket ==
  ASSUME TypeOK, CardInv, SpentInv, SpendInv, NoticeInv, NEW r \in Request, Pending(r)
  PROVE  pc[r] # "idle" /\ OneTicket(r)
<1>1. CASE pc[r] = "ticket" /\ next[r] > 1
  BY <1>1 DEF CardInv, Ends
<1>2. CASE pc[r] \in {"ballot", "cast", "notify"}
  BY <1>2 DEF CardInv, Ends
<1>3. CASE at[r] = "adding"
  BY <1>2, <1>3 DEF SpendInv
<1>4. CASE r \in Range(queue) \/ \E c \in Caller : r \in Range(batch[c])
  <2>1. r \in Noticed
    BY <1>4, QueueAssumption DEF NoticeInv, OnlyOf, ListsOf, Range
  <2>2. pc[r] # "idle" /\ Settled(r)
    BY <2>1 DEF Noticed, PastCast
  <2> QED
    BY <2>2, WholeIsThere DEF Settled
<1> QED
  BY <1>1, <1>2, <1>3, <1>4 DEF Pending

(* Only the first Put, or the acceptance of an empty list, adds a notice   *)
(* to come, and it is never added again.                                   *)
LEMMA PendingPart ==
  ASSUME TypeOK, SpendInv, [Next]_vars, NEW r \in Request, Pending(r)'
  PROVE  Pending(r) \/ PutTicket(r) \/ AcceptEmpty(r)
<1> USE DEF TypeOK
<1>1. CASE pc'[r] = "ticket" /\ next'[r] > 1
  <2>1. pc[r] \in {"ticket", "ballot"} \/ AcceptBallot(r)
    BY <1>1, PcPart DEF PutBallot
  <2>2. CASE pc[r] = "ballot"
    BY <2>2 DEF Pending
  <2>3. CASE AcceptBallot(r)
    BY <1>1, <2>3 DEF AcceptBallot, SpendInv
  <2>4. CASE pc[r] = "ticket"
    <3>1. next'[r] = next[r]
      BY <2>4, NextPart DEF PutBallot
    <3> QED
      BY <1>1, <2>4, <3>1 DEF Pending
  <2> QED
    BY <2>1, <2>2, <2>3, <2>4
<1>2. CASE pc'[r] \in {"ballot", "cast"}
  BY <1>2, PcPart DEF Pending, PutBallot
<1>3. CASE at'[r] = "adding"
  <2>1. at[r] = "adding" \/ StartNotify(r)
    BY <1>3, AddingPart
  <2> QED
    BY <2>1 DEF Pending, StartNotify
<1>4. CASE r \in Range(queue') \/ \E c \in Caller : r \in Range(batch'[c])
  <2> DEFINE S == PendingRequests \union {Null}
  <2>1. ListsOf(S)
    <3>1. queue \in Seq(Slot) /\ \A i \in DOMAIN queue : queue[i] \in S
      BY DEF QTypeOK, Slot, PendingRequests, Pending, Range
    <3>2. ASSUME NEW c \in Caller
          PROVE  batch[c] \in Seq(Slot) /\ \A i \in DOMAIN batch[c] : batch[c][i] \in S
      BY DEF QTypeOK, Slot, PendingRequests, Pending, Range
    <3>3. ASSUME NEW q \in Seq(Slot), \A i \in DOMAIN q : q[i] \in S
          PROVE  q \in Seq(S)
      <4> HIDE DEF S
      <4> QED
        BY <3>3
    <3> HIDE DEF S
    <3>4. batch = [c \in Caller |-> batch[c]]
      BY DEF QTypeOK
    <3> QED
      BY <3>1, <3>2, <3>3, <3>4 DEF ListsOf
  <2>2. \/ \E s \in Request : AddBegin(s)
        \/ \E s \in Request \intersect S : AddEnd(s)
        \/ \E c \in Caller : NotifyStep(c) \/ NotifyThrows(c)
        \/ QCrash
        \/ UNCHANGED qvars
    <3>1. \A s \in Request : AddEnd(s) => s \in S
      BY DEF AddEnd, PendingRequests, Pending
    <3> HIDE DEF S
    <3> QED
      BY <3>1, QueuePart
  <2>3. Null \in S
    OBVIOUS
  <2> HIDE DEF S
  <2>4. queue' \in Seq(S) /\ batch' \in [Caller -> Seq(S)]
    BY <2>1, <2>2, <2>3, NothingComesIn
  <2>5. r \in S
    BY <1>4, <2>4 DEF Range
  <2> QED
    BY <2>5, QueueAssumption DEF S, PendingRequests
<1> QED
  BY <1>1, <1>2, <1>3, <1>4 DEF Pending

(* What the steps of the service are, for what the election system sees.   *)
LEMMA SpendIsService ==
  ASSUME NEW t \in Hash, t \notin used, used' = used \union {t}, empties' = empties,
         StoredTickets' = StoredTickets,
         TicketsOf(recorded)' = TicketsOf(recorded),
         TicketsOf(PendingRequests)' = TicketsOf(PendingRequests) \union {t}
  PROVE  Service!SNext
BY DEF Service!SNext, Service!Spend, StoredTickets, PendingRequests, TicketsOf

LEMMA StoreIsService ==
  ASSUME NEW t \in TicketsOf(PendingRequests), t \in Hash, used' = used, empties' = empties,
         StoredTickets' = StoredTickets \union {t},
         TicketsOf(recorded)' = TicketsOf(recorded),
         TicketsOf(PendingRequests)' = TicketsOf(PendingRequests)
  PROVE  Service!SNext
BY DEF Service!SNext, Service!Store, StoredTickets, PendingRequests, TicketsOf

LEMMA AnnounceIsService ==
  ASSUME NEW t \in Hash, t \notin used, used' = used, empties' = empties \union {t},
         StoredTickets' = StoredTickets,
         TicketsOf(recorded)' = TicketsOf(recorded),
         TicketsOf(PendingRequests)' = TicketsOf(PendingRequests) \union {t}
  PROVE  Service!SNext
BY DEF Service!SNext, Service!Announce, StoredTickets, PendingRequests, TicketsOf

LEMMA UseIsService ==
  ASSUME NEW t \in TicketsOf(PendingRequests), t \in Hash, t \in StoredTickets \union empties,
         used' = used, empties' = empties, StoredTickets' = StoredTickets,
         TicketsOf(recorded)' = TicketsOf(recorded) \union {t},
         TicketsOf(PendingRequests)' \subseteq TicketsOf(PendingRequests)
  PROVE  Service!SNext
BY DEF Service!SNext, Service!TicketUsed, StoredTickets, PendingRequests, TicketsOf

LEMMA LoseIsService ==
  ASSUME used' = used, empties' = empties, StoredTickets' = StoredTickets,
         TicketsOf(recorded)' = TicketsOf(recorded),
         TicketsOf(PendingRequests)' \subseteq TicketsOf(PendingRequests)
  PROVE  Service!SNext
BY DEF Service!SNext, Service!Lose, StoredTickets, PendingRequests, TicketsOf

ServiceInv == BallotInv /\ StoredInv /\ NoticeInv /\ TornInv /\ SpendInv

(* The tickets of requests that are past Receive stay what they are.       *)
LEMMA TicketsStay ==
  ASSUME [Next]_vars, NEW R \in SUBSET Request, \A r \in R : pc[r] # "idle"
  PROVE  TicketsOf(R)' = TicketsOf(R)
<1>1. \A r \in R : TicketOf(r)' = TicketOf(r)
  BY CardsStay
<1> QED
  BY <1>1 DEF TicketsOf

LEMMA RecordedStay ==
  ASSUME TypeOK, NoticeInv, [Next]_vars
  PROVE  /\ \A r \in recorded : r \in Noticed
         /\ \A R : recorded' = recorded \union R /\ R \subseteq Noticed
                   => TicketsOf(recorded)' = TicketsOf(recorded) \union TicketsOf(R)
<1>1. \A r \in recorded : r \in Noticed
  BY QueueAssumption DEF NoticeInv, OnlyOf, TypeOK, QTypeOK
<1>2. ASSUME NEW R, recorded' = recorded \union R, R \subseteq Noticed
      PROVE  TicketsOf(recorded)' = TicketsOf(recorded) \union TicketsOf(R)
  <2>1. \A r \in recorded \union R : r \in Request /\ pc[r] # "idle"
    BY <1>1, <1>2 DEF Noticed, PastCast
  <2>2. \A r \in recorded' : TicketOf(r)' = TicketOf(r)
    BY <1>2, <2>1, CardsStay
  <2> QED
    BY <1>2, <2>2 DEF TicketsOf
<1> QED
  BY <1>1, <1>2

LEMMA PendingStay ==
  ASSUME TypeOK, CardInv, ServiceInv, [Next]_vars
  PROVE  /\ TicketsOf(PendingRequests) \subseteq Hash
         /\ \A R \in SUBSET Request :
              PendingRequests' = R /\ (\A r \in R : pc[r] # "idle")
              => TicketsOf(PendingRequests)' = TicketsOf(R)
<1>1. \A r \in PendingRequests : TicketOf(r) \in Hash
  BY PendingHasTicket, TicketIsOne DEF PendingRequests, ServiceInv, BallotInv
<1>2. ASSUME NEW R \in SUBSET Request, PendingRequests' = R, \A r \in R : pc[r] # "idle"
      PROVE  TicketsOf(PendingRequests)' = TicketsOf(R)
  <2>1. \A r \in R : TicketOf(r)' = TicketOf(r)
    BY <1>2, CardsStay
  <2> QED
    BY <1>2, <2>1 DEF TicketsOf
<1> QED
  BY <1>1, <1>2 DEF TicketsOf

(* What is recorded grows by what was sent, and by nothing else.           *)
LEMMA RecordedPart ==
  ASSUME [Next]_vars
  PROVE  \/ recorded' = recorded
         \/ \E c \in Caller : /\ SendAcknowledged(c) \/ SendFailed(c) \/ NotifyThrows(c)
                              /\ UNCHANGED <<req, used, box, empties>>
<1>1. \/ recorded' = recorded
      \/ \E c \in Caller : /\ NotifyStep(c) \/ NotifyThrows(c)
                           /\ UNCHANGED <<req, used, box, empties>>
  BY DEF Next, vars, svars, tvars, qvars, RequestStep, Receive, RefuseTickets, Enter, AcceptBallot,
         AcceptEmpty, RefuseBallot, PutTicket, PutBallot, StartNotify, Notify, Answer, FailToNotify,
         SendHangingTickets, CloseElections, SealAndCount, Crash, QCrash, AddBegin, AddEnd,
         Caller
<1> QED
  BY <1>1 DEF NotifyStep, CopyQueue, RemoveSent, NotifyReturn

LEMMA LoseStep ==
  ASSUME TypeOK, CardInv, ServiceInv, [Next]_vars,
         used' = used, empties' = empties, StoredTickets' = StoredTickets,
         recorded' = recorded, PendingRequests' \subseteq PendingRequests
  PROVE  Service!SNext
<1>1. PICK R : R = PendingRequests'
  OBVIOUS
<1>2. R \in SUBSET Request /\ \A r \in R : pc[r] # "idle"
  BY <1>1, PendingHasTicket DEF PendingRequests, ServiceInv, BallotInv
<1>3. /\ TicketsOf(PendingRequests) \subseteq Hash
      /\ TicketsOf(PendingRequests)' = TicketsOf(R)
  BY <1>1, <1>2, PendingStay
<1>4. TicketsOf(PendingRequests)' \subseteq TicketsOf(PendingRequests)
  BY <1>1, <1>3 DEF TicketsOf
<1>5. TicketsOf(recorded)' = TicketsOf(recorded)
  <2>1. recorded' = recorded \union {} /\ {} \subseteq Noticed
    OBVIOUS
  <2>2. TicketsOf(recorded)' = TicketsOf(recorded) \union TicketsOf({})
    BY <2>1, RecordedStay DEF ServiceInv
  <2> QED
    BY <2>2 DEF TicketsOf
<1> QED
  BY <1>3, <1>4, <1>5, LoseIsService

LEMMA PutTicketStep ==
  ASSUME TypeOK, CardInv, ServiceInv, [Next]_vars, NEW r \in Request, PutTicket(r)
  PROVE  Service!SNext
<1> USE DEF ServiceInv, BallotInv
<1>1. /\ pc[r] = "ticket" /\ used' = used \union {TicketOf(r)}
      /\ empties' = empties
  BY DEF PutTicket, tvars
<1>2. StoredTickets' = StoredTickets /\ recorded' = recorded
  BY DEF PutTicket, StoredTickets, Stored, WholeBallot, Entry, qvars
<1>3. PendingRequests' = PendingRequests \union {r}
  <2>1. ASSUME NEW s \in Request, Pending(s)'
        PROVE  Pending(s) \/ s = r
    <3>1. CASE PutTicket(s)
      BY <1>1, <3>1 DEF PutTicket, LockInv, Inside
    <3>2. ~AcceptEmpty(s)
      BY <1>1 DEF PutTicket, AcceptEmpty, LockInv, Inside
    <3> QED
      BY <2>1, <3>1, <3>2, PendingPart
  <2>2. ASSUME NEW s \in Request, Pending(s) \/ s = r
        PROVE  Pending(s)'
    BY <2>2 DEF PutTicket, Pending, qvars, TypeOK, CastTypeOK
  <2> QED
    BY <2>1, <2>2 DEF PendingRequests
<1>4. CASE next[r] > 1
  <2>1. TicketOf(r) \in used /\ Pending(r)
    BY <1>1, <1>4 DEF SpendInv, Pending
  <2>2. used' = used /\ PendingRequests' \subseteq PendingRequests
    BY <1>1, <1>3, <2>1 DEF PendingRequests
  <2> QED
    BY <1>1, <1>2, <2>2, LoseStep
<1>5. CASE ~(next[r] > 1)
  <2>1. TicketOf(r) \notin used /\ TicketOf(r) \in Hash
    BY <1>1, <1>5, TicketIsOne DEF SpendInv, CardInv, Ends
  <2>2. PICK R : R = PendingRequests \union {r}
    OBVIOUS
  <2>3. R \in SUBSET Request /\ \A s \in R : pc[s] # "idle"
    BY <1>1, <2>2, PendingHasTicket DEF PendingRequests
  <2>4. TicketsOf(PendingRequests)' = TicketsOf(R)
    BY <1>3, <2>2, <2>3, PendingStay
  <2>5. TicketsOf(R) = TicketsOf(PendingRequests) \union {TicketOf(r)}
    BY <2>2 DEF TicketsOf
  <2>6. TicketsOf(recorded)' = TicketsOf(recorded)
    <3>1. recorded' = recorded \union {} /\ {} \subseteq Noticed
      BY <1>2
    <3>2. TicketsOf(recorded)' = TicketsOf(recorded) \union TicketsOf({})
      BY <3>1, RecordedStay
    <3> QED
      BY <3>2 DEF TicketsOf
  <2>7. PICK t : t = TicketOf(r)
    OBVIOUS
  <2>8. TicketsOf(PendingRequests)' = TicketsOf(PendingRequests) \union {t}
    BY <2>4, <2>5, <2>7
  <2> QED
    BY <1>1, <1>2, <2>1, <2>6, <2>7, <2>8, SpendIsService
<1> QED
  BY <1>4, <1>5

LEMMA PutBallotStep ==
  ASSUME TypeOK, CardInv, ServiceInv, [Next]_vars, NEW r \in Request, PutBallot(r)
  PROVE  Service!SNext
<1> USE DEF ServiceInv, BallotInv
<1>1. /\ pc[r] = "ballot" /\ used' = used /\ recorded' = recorded
      /\ empties' = empties
  BY DEF PutBallot, qvars, tvars
<1>2. PendingRequests' = PendingRequests
  <2>1. ASSUME NEW s \in Request, Pending(s)'
        PROVE  Pending(s)
    <3>1. ~PutTicket(s)
      <4>1. s # r /\ pc[s] = "ticket" => pc'[s] = "ticket"
        BY DEF PutBallot, TypeOK, CastTypeOK
      <4>2. PutTicket(s) => pc[s] = "ticket" /\ pc'[s] = "ballot"
        BY DEF PutTicket, TypeOK, CastTypeOK
      <4> QED
        BY <1>1, <4>1, <4>2
    <3>2. ~AcceptEmpty(s)
      BY <1>1 DEF AcceptEmpty, LockInv, Inside
    <3> QED
      BY <2>1, <3>1, <3>2, PendingPart
  <2>2. ASSUME NEW s \in Request, Pending(s), s # r
        PROVE  Pending(s)'
    BY <2>2 DEF PutBallot, Pending, qvars, TypeOK, CastTypeOK
  <2>3. Pending(r)'
    <3>1. CASE next[r] < Len(req[r].ballot)
      <4>1. pc'[r] = "ticket" /\ next'[r] = next[r] + 1 /\ next[r] \in Nat \ {0}
        BY <3>1 DEF PutBallot, TypeOK, CastTypeOK
      <4>2. next'[r] > 1
        BY <4>1
      <4> QED
        BY <4>1, <4>2 DEF Pending
    <3>2. CASE ~(next[r] < Len(req[r].ballot))
      BY <3>2 DEF PutBallot, Pending, TypeOK, CastTypeOK
    <3> QED
      BY <3>1, <3>2
  <2> QED
    BY <2>1, <2>2, <2>3 DEF PendingRequests
<1>3. CASE StoredTickets' = StoredTickets
  BY <1>1, <1>2, <1>3, LoseStep
<1>4. CASE StoredTickets' # StoredTickets
  <2>1. PICK s \in Request : /\ PutBallot(s)
                             /\ StoredTickets' = StoredTickets \union {TicketOf(s)}
    BY <1>4, StoredPart
  <2>2. Pending(s) /\ OneTicket(s) /\ TicketOf(s) \in Hash
    <3>1. Pending(s)
      BY <2>1 DEF PutBallot, Pending
    <3> QED
      BY <3>1, PendingHasTicket, TicketIsOne
  <2>3. PICK R : R = PendingRequests
    OBVIOUS
  <2>4. R \in SUBSET Request /\ \A q \in R : pc[q] # "idle"
    BY <2>3, PendingHasTicket DEF PendingRequests
  <2>5. TicketsOf(PendingRequests)' = TicketsOf(PendingRequests)
    BY <1>2, <2>3, <2>4, PendingStay
  <2>6. TicketsOf(recorded)' = TicketsOf(recorded)
    <3>1. recorded' = recorded \union {} /\ {} \subseteq Noticed
      BY <1>1
    <3>2. TicketsOf(recorded)' = TicketsOf(recorded) \union TicketsOf({})
      BY <3>1, RecordedStay
    <3> QED
      BY <3>2 DEF TicketsOf
  <2>7. PICK t : t = TicketOf(s)
    OBVIOUS
  <2>8. t \in TicketsOf(PendingRequests) /\ t \in Hash
    BY <2>2, <2>7 DEF TicketsOf, PendingRequests
  <2> QED
    BY <1>1, <2>1, <2>5, <2>6, <2>7, <2>8, StoreIsService
<1> QED
  BY <1>3, <1>4

LEMMA SendStep ==
  ASSUME TypeOK, CardInv, ServiceInv, [Next]_vars, NEW c \in Caller,
         SendAcknowledged(c) \/ SendFailed(c) \/ NotifyThrows(c),
         UNCHANGED <<req, used, box, empties>>, recorded' # recorded
  PROVE  Service!SNext
<1> USE DEF ServiceInv, BallotInv
<1> DEFINE x == Head(batch[c])
<1>1. used' = used /\ StoredTickets' = StoredTickets
  BY DEF StoredTickets, Stored, WholeBallot, Entry
<1>2. PendingRequests' \subseteq PendingRequests
  <2>1. \A s \in Request : ~PutTicket(s) /\ ~AcceptEmpty(s)
    BY DEF PutTicket, AcceptEmpty, qvars
  <2> QED
    BY <2>1, PendingPart DEF PendingRequests
<1>3. recorded' = recorded \union {x} /\ x # Null /\ batch[c] # <<>>
  BY DEF SendAcknowledged, SendFailed, NotifyThrows, CallFails, Answered
<1>4. x \in Noticed /\ x \in Range(batch[c])
  <2>1. batch[c] \in Seq(Noticed \union {Null})
    BY DEF NoticeInv, OnlyOf, ListsOf
  <2>2. PICK b \in Seq(Noticed \union {Null}) : b = batch[c]
    BY <2>1
  <2>3. 1 \in DOMAIN b /\ Head(b) = b[1] /\ b[1] \in Noticed \union {Null}
    BY <1>3, <2>2
  <2> QED
    BY <1>3, <2>2, <2>3 DEF Range
<1>5. x \in PendingRequests
  BY <1>4 DEF PendingRequests, Pending, Noticed
<1>6. x \in Request /\ pc[x] # "idle" /\ Settled(x)
  BY <1>4 DEF Noticed, PastCast
<1>7. TicketOf(x) \in Hash
  BY <1>5, PendingHasTicket, TicketIsOne DEF PendingRequests
<1>8. TicketOf(x) \in StoredTickets \union empties
  <2>1. CASE req[x].ballot = <<>>
    BY <1>6, <2>1 DEF Settled
  <2>2. CASE req[x].ballot # <<>>
    <3>1. req[x].hashes = {TicketOf(x)} /\ WholeBallot(x) \subseteq box
      BY <1>6, <2>2, WholeIsThere DEF Settled
    <3>2. Stored(TicketOf(x))
      BY <1>6, <2>2, <3>1 DEF Stored
    <3> QED
      BY <1>7, <3>2 DEF StoredTickets
  <2> QED
    BY <2>1, <2>2
<1>9. TicketsOf(recorded)' = TicketsOf(recorded) \union {TicketOf(x)}
  <2>1. {x} \subseteq Noticed
    BY <1>4
  <2>2. TicketsOf(recorded)' = TicketsOf(recorded) \union TicketsOf({x})
    BY <1>3, <2>1, RecordedStay
  <2> QED
    BY <2>2 DEF TicketsOf
<1>10. PICK R : R = PendingRequests'
  OBVIOUS
<1>11. R \in SUBSET Request /\ \A q \in R : pc[q] # "idle"
  BY <1>2, <1>10, PendingHasTicket DEF PendingRequests
<1>12. TicketsOf(PendingRequests)' = TicketsOf(R)
  BY <1>10, <1>11, PendingStay
<1>13. TicketsOf(R) \subseteq TicketsOf(PendingRequests)
  BY <1>2, <1>10 DEF TicketsOf
<1>14. PICK t : t = TicketOf(x)
  OBVIOUS
<1>15. t \in TicketsOf(PendingRequests)
  BY <1>5, <1>14 DEF TicketsOf
<1> QED
  BY <1>1, <1>7, <1>8, <1>9, <1>12, <1>13, <1>14, <1>15, UseIsService
LEMMA AcceptEmptyStep ==
  ASSUME TypeOK, CardInv, ServiceInv, [Next]_vars, NEW r \in Request, AcceptEmpty(r)
  PROVE  Service!SNext
<1> USE DEF ServiceInv, BallotInv
<1>1. /\ pc[r] = "locked" /\ used' = used /\ recorded' = recorded
      /\ TicketOf(r) \notin used /\ empties' = empties \union {TicketOf(r)}
  BY DEF AcceptEmpty, MayCast, qvars
<1>2. TicketOf(r) \in Hash
  BY <1>1, TicketIsOne DEF CardInv, Ends
<1>3. StoredTickets' = StoredTickets
  BY DEF AcceptEmpty, StoredTickets, Stored, WholeBallot, Entry
<1>4. PendingRequests' = PendingRequests \union {r}
  <2>1. ASSUME NEW s \in Request, Pending(s)'
        PROVE  Pending(s) \/ s = r
    <3>1. CASE PutTicket(s)
      BY <1>1, <3>1 DEF PutTicket, LockInv, Inside
    <3>2. CASE AcceptEmpty(s)
      BY <1>1, <3>2 DEF AcceptEmpty, LockInv, Inside
    <3> QED
      BY <2>1, <3>1, <3>2, PendingPart
  <2>2. ASSUME NEW s \in Request, Pending(s) \/ s = r
        PROVE  Pending(s)'
    BY <2>2 DEF AcceptEmpty, Pending, qvars, TypeOK, CastTypeOK
  <2> QED
    BY <2>1, <2>2 DEF PendingRequests
<1>5. PICK R : R = PendingRequests \union {r}
  OBVIOUS
<1>6. R \in SUBSET Request /\ \A s \in R : pc[s] # "idle"
  BY <1>1, <1>5, PendingHasTicket DEF PendingRequests
<1>7. TicketsOf(PendingRequests)' = TicketsOf(R)
  BY <1>4, <1>5, <1>6, PendingStay
<1>8. TicketsOf(R) = TicketsOf(PendingRequests) \union {TicketOf(r)}
  BY <1>5 DEF TicketsOf
<1>9. TicketsOf(recorded)' = TicketsOf(recorded)
  <2>1. recorded' = recorded \union {} /\ {} \subseteq Noticed
    BY <1>1
  <2>2. TicketsOf(recorded)' = TicketsOf(recorded) \union TicketsOf({})
    BY <2>1, RecordedStay
  <2> QED
    BY <2>2 DEF TicketsOf
<1>10. PICK t : t = TicketOf(r)
  OBVIOUS
<1> QED
  BY <1>1, <1>2, <1>3, <1>7, <1>8, <1>9, <1>10, AnnounceIsService

LEMMA ServiceStep ==
  ASSUME TypeOK, CardInv, ServiceInv, [Next]_vars
  PROVE  Service!SNext
<1>1. CASE \E r \in Request : PutTicket(r)
  BY <1>1, PutTicketStep
<1>2. CASE \E r \in Request : PutBallot(r)
  BY <1>2, PutBallotStep
<1>3. CASE recorded' # recorded
  BY <1>3, RecordedPart, SendStep
<1>4. CASE /\ recorded' = recorded
           /\ \A r \in Request : ~PutTicket(r) /\ ~PutBallot(r) /\ ~AcceptEmpty(r)
  <2>1. used' = used /\ empties' = empties
    BY <1>4, UsedPart, EmptiesPart
  <2>2. StoredTickets' = StoredTickets
    BY <1>4, StoredPart DEF ServiceInv, BallotInv
  <2>3. PendingRequests' \subseteq PendingRequests
    BY <1>4, PendingPart DEF PendingRequests, ServiceInv
  <2> QED
    BY <1>4, <2>1, <2>2, <2>3, LoseStep
<1>5. CASE \E r \in Request : AcceptEmpty(r)
  BY <1>5, AcceptEmptyStep
<1> QED
  BY <1>1, <1>2, <1>3, <1>4, <1>5

(* Whatever requests, restarts, retries and the races on the queue do, the *)
(* voting system is a voting service: it spends a ticket once and reports  *)
(* it only for a ballot that is stored whole or for an empty list that it  *)
(* accepted (VoteController.cs:92-263, TicketsQueue.cs).                   *)
THEOREM Refinement == Spec => ServiceHolds
<1>1. Init => Service!SInit
  <2> SUFFICES ASSUME Init
               PROVE  Service!SInit
    OBVIOUS
  <2>1. used = {} /\ recorded = {} /\ queue = <<>> /\ box = {} /\ empties = {}
    BY DEF Init, QInit
  <2>2. \A h \in Hash : ~Stored(h)
    BY DEF Init, Stored, NoCard
  <2>3. \A r \in Request : ~Pending(r)
    BY DEF Init, QInit, Pending, Caller, Range
  <2> QED
    BY <2>1, <2>2, <2>3 DEF Service!SInit
<1>2. TypeOK /\ CardInv /\ ServiceInv /\ [Next]_vars => [Service!SNext]_(Service!svcvars)
  BY ServiceStep
<1>3. Spec => []ServiceInv
  BY BallotInvariant, StoredInvariant, NoticeInvariant, TornInvariant, SpendInvariant, PTL
     DEF ServiceInv
<1> QED
  BY <1>1, <1>2, <1>3, TypeCorrect, PTL DEF Spec, ServiceHolds, Service!SSpec

=============================================================================
