----------------------------- MODULE VoteCasting -----------------------------
(***************************************************************************)
(* The voting system (src/EligereVS): VoteController.CastBallot with       *)
(* CastVote, HomeController.Tally and SendHangingTickets, over the two     *)
(* RocksDB stores ticketsDb and secureBallot and the in-memory             *)
(* TicketsQueue.                                                           *)
(*                                                                         *)
(* The stores are separate databases: nothing makes a Put into both one    *)
(* step.  lock(secureBallot) is held for the read of the seal, for one     *)
(* Put, or for one whole tally, so each of these is one action;            *)
(* lock(ticketsDb) is held from the check of the ticket to the last Put of *)
(* the ballot and is the variable ticketsLock.                             *)
(***************************************************************************)
EXTENDS TicketsQueue, FiniteSets

CONSTANTS
  Operator,       \* threads that run Tally for the operator
  Hash,           \* the HashIds of the tickets the election system issued
  Election,       \* the elections that exist
  ElectionOf,     \* ElectionOf[h]: the election a ticket is for
  Bundle,         \* the ticket lists voters hold: sets of hashes
  Contest,        \* the elections in the configuration the system loaded
  Name,           \* candidate names a page can send, and the two below
  Blank, Spoil,   \* the contents "$blank$" and "$spoil$"
  Selections,     \* Selections[e]: the candidate names on the ballot of e
  Parties,        \* the candidate names that stand for a party
  PartyElections, \* the elections with CandidatesType "Party"
  VotesAllowed,   \* VotesAllowed[e]
  Ballots,        \* what pages submit: <<Blank>>, <<Spoil>> or names, or none
  NoOne,          \* nobody holds the lock
  MaxCrashes      \* bound on the restarts of the process

ASSUME VotingAssumption ==
  /\ ElectionOf \in [Hash -> Election]
  /\ Bundle \subseteq SUBSET Hash
  /\ Ballots \subseteq Seq(Name)
  /\ NoOne \notin Request
  /\ MaxCrashes \in Nat

VARIABLES
  pc,           \* where each CastBallot request is
  req,          \* what it was sent: [hashes, election, ballot]
  next,         \* the preference it stores next
  ticketsLock,  \* who is inside lock(ticketsDb)
  used,         \* the keys of ticketsDb
  box,          \* the ballots in secureBallot
  sealed,       \* VotingForTallyClosedKey is in secureBallot
  tpc,          \* where each Tally request is
  counted,      \* the ballots the last tally counted
  esClosed,     \* the election system has set Closed on the elections
  crashes,      \* restarts so far
  admitted,     \* history: the requests past the check of the seal when it was put
  empties       \* history: the tickets an empty list of preferences came with

svars == <<pc, req, next, ticketsLock, used, box>>
tvars == <<sealed, tpc, counted, esClosed, admitted, empties>>
vars == <<svars, tvars, qvars, crashes>>

-----------------------------------------------------------------------------
(* What a request carries.                                                 *)

(* The tickets of the list that are for the chosen election.               *)
TicketsFor(b, e) == {h \in b : ElectionOf[h] = e}

Card == [hashes: SUBSET Hash, election: Election, ballot: Ballots]

NoCard == [hashes |-> {}, election |-> NoOne, ballot |-> <<>>]

OneTicket(r) == \E h \in Hash : req[r].hashes = {h}

TicketOf(r) == CHOOSE h \in req[r].hashes : TRUE

(* One store entry per preference.  CastVote draws a new Guid for each:    *)
(* the pair of the request and the position is unique in the same way.     *)
SharedEntry(r, k) == [id |-> <<r, 1>>, election |-> req[r].election,
                      vote |-> req[r].ballot[k]]
                     \* mutant: one voteId for the whole ballot

Entry(r, k) == [id |-> <<r, k>>, election |-> req[r].election,
                vote |-> req[r].ballot[k]]

(* Put replaces what the key held.                                         *)
Put(store, x) == {y \in store : y.id # x.id} \union {x}

WholeBallot(r) == {Entry(r, k) : k \in DOMAIN req[r].ballot}

(* The checks on the preferences of a ballot that is neither blank nor     *)
(* spoiled.  A name that is not on the ballot fails the last one; in a     *)
(* party election it already fails with an exception at the first.  A list *)
(* without a name passes them all.                                         *)
PartyCount(p) == Cardinality({i \in DOMAIN p : p[i] \in Parties})

AcceptableLength(e, p) ==  \* mutant: any names, as long as they are few
  \/ p \in {<<Blank>>, <<Spoil>>}
  \/ Len(p) =< VotesAllowed[e] + (IF e \in PartyElections THEN 1 ELSE 0)

Acceptable(e, p) ==
  \/ p = <<Blank>>
  \/ p = <<Spoil>>
  \/ /\ e \in PartyElections => PartyCount(p) =< 1
     /\ Len(p) =< VotesAllowed[e] + (IF e \in PartyElections THEN 1 ELSE 0)
     /\ \A i \in DOMAIN p : p[i] \in Selections[e]

-----------------------------------------------------------------------------
(* How a request ends: "Vote casted", an answer that refuses the ballot,   *)
(* an exception after the ballot was stored, or the end of the process.    *)
Ends == {"accepted", "refused", "failed", "died"}

PC == {"idle", "open", "locked", "ticket", "ballot", "cast", "notify"} \union Ends

(* Past the check of the seal and not yet answered.                        *)
InFlight == {r \in Request : pc[r] \notin {"idle"} \union Ends}

Entries == [id: Request \X (Nat \ {0}), election: Election, vote: Name]

CastTypeOK ==
  /\ pc \in [Request -> PC]
  /\ req \in [Request -> Card \union {NoCard}]
  /\ next \in [Request -> Nat \ {0}]
  /\ ticketsLock \in Request \union {NoOne}
  /\ used \subseteq Hash
  /\ box \subseteq Entries

TallyTypeOK ==
  /\ sealed \in BOOLEAN
  /\ tpc \in [Operator -> {"idle", "closed"}]
  /\ counted \subseteq Entries
  /\ esClosed \in BOOLEAN
  /\ admitted \subseteq Request
  /\ empties \subseteq Hash

TypeOK == QTypeOK /\ CastTypeOK /\ TallyTypeOK /\ crashes \in 0..MaxCrashes

Init ==
  /\ QInit
  /\ pc = [r \in Request |-> "idle"]
  /\ req = [r \in Request |-> NoCard]
  /\ next = [r \in Request |-> 1]
  /\ ticketsLock = NoOne
  /\ used = {}
  /\ box = {}
  /\ sealed = FALSE
  /\ tpc = [o \in Operator |-> "idle"]
  /\ counted = {}
  /\ esClosed = FALSE
  /\ crashes = 0
  /\ admitted = {}
  /\ empties = {}

(* The iteration over secureBallot, the seal left out.                     *)
IterateFromSecond(b) ==  \* mutant: the first record is skipped
  IF b = {} THEN b ELSE b \ {CHOOSE x \in b : TRUE}

Iterate(b) == b

-----------------------------------------------------------------------------
(* Casting a ballot.                                                       *)

(* CastBallot decodes its form and reads the seal under lock(secureBallot).*)
ReceiveAlways(r) ==  \* mutant: the seal is not looked at
  /\ pc[r] = "idle"
  /\ \E b \in Bundle, e \in Election, p \in Ballots :
       req' = [req EXCEPT ![r] = [hashes |-> TicketsFor(b, e), election |-> e,
                                  ballot |-> p]]
  /\ pc' = [pc EXCEPT ![r] = "open"]
  /\ UNCHANGED <<next, ticketsLock, used, box, tvars, qvars, crashes>>

Receive(r) ==
  /\ pc[r] = "idle"
  /\ \E b \in Bundle, e \in Election, p \in Ballots :
       req' = [req EXCEPT ![r] = [hashes |-> TicketsFor(b, e), election |-> e,
                                  ballot |-> p]]
  /\ pc' = [pc EXCEPT ![r] = IF sealed THEN "refused" ELSE "open"]
  /\ UNCHANGED <<next, ticketsLock, used, box, tvars, qvars, crashes>>

(* No ticket, or more than one, for the chosen election.                   *)
RefuseTickets(r) ==
  /\ pc[r] = "open"
  /\ ~OneTicket(r)
  /\ pc' = [pc EXCEPT ![r] = "refused"]
  /\ UNCHANGED <<req, next, ticketsLock, used, box, tvars, qvars, crashes>>

EnterUnlocked(r) ==  \* mutant: lock(ticketsDb) is not taken
  /\ pc[r] = "open"
  /\ OneTicket(r)
  /\ pc' = [pc EXCEPT ![r] = "locked"]
  /\ UNCHANGED <<req, next, ticketsLock, used, box, tvars, qvars, crashes>>

Enter(r) ==
  /\ pc[r] = "open"
  /\ OneTicket(r)
  /\ ticketsLock = NoOne
  /\ ticketsLock' = r
  /\ pc' = [pc EXCEPT ![r] = "locked"]
  /\ UNCHANGED <<req, next, used, box, tvars, qvars, crashes>>

(* Inside lock(ticketsDb), before anything is written.                     *)
MayCast(r) == /\ TicketOf(r) \notin used
              /\ req[r].election \in Contest
              /\ Acceptable(req[r].election, req[r].ballot)

AcceptBallot(r) ==
  /\ pc[r] = "locked"
  /\ MayCast(r)
  /\ req[r].ballot # <<>>
  /\ pc' = [pc EXCEPT ![r] = "ticket"]
  /\ UNCHANGED <<req, next, ticketsLock, used, box, tvars, qvars, crashes>>

(* The Puts of the ticket and of the ballot are both inside the loop over  *)
(* the preferences.  With none the lock is released with nothing put, and  *)
(* the request goes on to notify as if it had cast a ballot.               *)
AcceptEmpty(r) ==
  /\ pc[r] = "locked"
  /\ MayCast(r)
  /\ req[r].ballot = <<>>
  /\ pc' = [pc EXCEPT ![r] = "cast"]
  /\ ticketsLock' = NoOne
  /\ empties' = empties \union {TicketOf(r)}
  /\ UNCHANGED <<req, next, used, box, sealed, tpc, counted, esClosed, admitted,
                 qvars, crashes>>

(* Every return from inside the lock statement releases the lock.          *)
RefuseAndSpend(r) ==  \* mutant: the ticket is put before the ballot is checked
  /\ pc[r] = "locked"
  /\ ~MayCast(r)
  /\ pc' = [pc EXCEPT ![r] = "refused"]
  /\ ticketsLock' = NoOne
  /\ used' = used \union {TicketOf(r)}
  /\ UNCHANGED <<req, next, box, tvars, qvars, crashes>>

RefuseAndNotify(r) ==  \* mutant: a spent ticket falls through to the notification
  /\ pc[r] = "locked"
  /\ ~MayCast(r)
  /\ pc' = [pc EXCEPT ![r] = "cast"]
  /\ ticketsLock' = NoOne
  /\ UNCHANGED <<req, next, used, box, tvars, qvars, crashes>>

RefuseHoldingLock(r) ==  \* mutant: the early return keeps the lock
  /\ pc[r] = "locked"
  /\ ~MayCast(r)
  /\ pc' = [pc EXCEPT ![r] = "refused"]
  /\ UNCHANGED <<req, next, ticketsLock, used, box, tvars, qvars, crashes>>

RefuseBallot(r) ==
  /\ pc[r] = "locked"
  /\ ~MayCast(r)
  /\ pc' = [pc EXCEPT ![r] = "refused"]
  /\ ticketsLock' = NoOne
  /\ UNCHANGED <<req, next, used, box, tvars, qvars, crashes>>

(* CastVote, once per preference: ticketsDb.Put ...                        *)
PutTicket(r) ==
  /\ pc[r] = "ticket"
  /\ used' = used \union {TicketOf(r)}
  /\ pc' = [pc EXCEPT ![r] = "ballot"]
  /\ UNCHANGED <<req, next, ticketsLock, box, tvars, qvars, crashes>>

(* ... and secureBallot.Put under its own lock.  After the last preference *)
(* the lock on the tickets is released.                                    *)
PutBallot(r) ==
  /\ pc[r] = "ballot"
  /\ box' = Put(box, Entry(r, next[r]))
  /\ IF next[r] < Len(req[r].ballot)
     THEN /\ pc' = [pc EXCEPT ![r] = "ticket"]
          /\ next' = [next EXCEPT ![r] = @ + 1]
          /\ UNCHANGED ticketsLock
     ELSE /\ pc' = [pc EXCEPT ![r] = "cast"]
          /\ ticketsLock' = NoOne
          /\ UNCHANGED next
  /\ UNCHANGED <<req, used, tvars, qvars, crashes>>

(* AddTicket, then NotifyTickets, then "Vote casted".                      *)
StartNotify(r) ==
  /\ pc[r] = "cast"
  /\ AddBegin(r)
  /\ pc' = [pc EXCEPT ![r] = "notify"]
  /\ UNCHANGED <<req, next, ticketsLock, used, box, tvars, crashes>>

Notify(r) ==
  /\ pc[r] = "notify"
  /\ AddEnd(r) \/ NotifyStep(r)
  /\ UNCHANGED <<svars, tvars, crashes>>

Answer(r) ==
  /\ pc[r] = "notify"
  /\ at[r] = "out"
  /\ pc' = [pc EXCEPT ![r] = "accepted"]
  /\ UNCHANGED <<req, next, ticketsLock, used, box, tvars, qvars, crashes>>

(* An exception out of NotifyTickets is the end of the request, and the    *)
(* answer is an error although the ballot is stored.                       *)
FailToNotify(r) ==
  /\ pc[r] = "notify"
  /\ NotifyThrows(r)
  /\ pc' = [pc EXCEPT ![r] = "failed"]
  /\ UNCHANGED <<req, next, ticketsLock, used, box, tvars, crashes>>

(* SendHangingTickets: the operator's button.                              *)
SendHangingTickets(d) ==
  /\ NotifyStep(d) \/ NotifyThrows(d)
  /\ UNCHANGED <<svars, tvars, crashes>>

-----------------------------------------------------------------------------
(* The tally.                                                              *)

(* With the key joined, Tally tells the election system to close and waits *)
(* for the answer; any status but OK, or no answer, ends the request.  The *)
(* election system may have closed although its answer was lost.           *)
CloseUnchecked(o) ==  \* mutant: the status of the answer is not looked at
  /\ tpc[o] = "idle"
  /\ esClosed' \in {esClosed, TRUE}
  /\ tpc' = [tpc EXCEPT ![o] = "closed"]
  /\ UNCHANGED <<svars, sealed, counted, admitted, empties, qvars, crashes>>

CloseElections(o) ==
  /\ tpc[o] = "idle"
  /\ \/ /\ esClosed' = TRUE
        /\ tpc' = [tpc EXCEPT ![o] = "closed"]
     \/ /\ esClosed' \in {esClosed, TRUE}
        /\ UNCHANGED tpc
  /\ UNCHANGED <<svars, sealed, counted, admitted, empties, qvars, crashes>>

(* lock(secureBallot): put the seal unless it is there, read every record  *)
(* but the seal, and count what was read.                                  *)
SealAndCount(o) ==
  /\ tpc[o] = "closed"
  /\ sealed' = TRUE
  /\ counted' = Iterate(box)
  /\ admitted' = IF sealed THEN admitted ELSE InFlight
  /\ tpc' = [tpc EXCEPT ![o] = "idle"]
  /\ UNCHANGED <<svars, esClosed, empties, qvars, crashes>>

(* The process is restarted: both stores and what the election system      *)
(* holds survive, requests in flight, locks and the queue do not.          *)
Crash ==
  /\ crashes < MaxCrashes
  /\ crashes' = crashes + 1
  /\ pc' = [r \in Request |-> IF r \in InFlight THEN "died" ELSE pc[r]]
  /\ ticketsLock' = NoOne
  /\ tpc' = [o \in Operator |-> "idle"]
  /\ QCrash
  /\ UNCHANGED <<req, next, used, box, sealed, counted, esClosed, admitted, empties>>

-----------------------------------------------------------------------------
(* What a request thread does once the request is received.                *)
RequestStep(r) ==
  \/ RefuseTickets(r) \/ Enter(r) \/ AcceptBallot(r) \/ AcceptEmpty(r)
  \/ RefuseBallot(r) \/ PutTicket(r) \/ PutBallot(r) \/ StartNotify(r)
  \/ Notify(r) \/ Answer(r) \/ FailToNotify(r)

Next == \/ \E r \in Request : Receive(r) \/ RequestStep(r)
        \/ \E d \in Dashboard : SendHangingTickets(d)
        \/ \E o \in Operator : CloseElections(o) \/ SealAndCount(o)
        \/ Crash

Spec == Init /\ [][Next]_vars

(* A thread the server has started runs on.  Nothing obliges a voter or an *)
(* operator to start one.                                                  *)
FairSpec == Spec /\ \A r \in Request : WF_vars(RequestStep(r))

-----------------------------------------------------------------------------
(* Safety.                                                                 *)

(* No ticket is worth two ballots, however often and however concurrently  *)
(* it is presented, and whatever a crash interrupted: all the entries cast *)
(* on a ticket come from one request (CastBallot's check inside            *)
(* lock(ticketsDb)).                                                       *)
OneBallotPerTicket ==
  \A r, s \in Request :
    /\ \E x \in box : x.id[1] = r
    /\ \E x \in box : x.id[1] = s
    /\ TicketOf(r) = TicketOf(s)
    => r = s

(* The ticket of the request is spent and every preference is in the box.  *)
SpentAndStored(r) == TicketOf(r) \in used /\ WholeBallot(r) \subseteq box

(* A voter who was told "Vote casted", or whose notification failed, has   *)
(* the ticket spent and every preference of the ballot in the box.  The    *)
(* one exception is an empty list of preferences: CastBallot answers it    *)
(* alike and stores neither ticket nor ballot (VoteController.cs:185-254). *)
AcceptedIsStored ==
  \A r \in Request :
    pc[r] \in {"accepted", "failed"} /\ req[r].ballot # <<>> => SpentAndStored(r)

(* The election system marks a voter as having voted only when the ticket  *)
(* is spent and the whole ballot is in the box: nobody loses the vote to a *)
(* notification that overtakes the ballot, or that belongs to a refused    *)
(* request.  It also marks the voter of an empty list that was accepted,   *)
(* with nothing in the box, and of no other.                               *)
RecordedIsStored ==
  \A r \in recorded :
    IF req[r].ballot = <<>> THEN TicketOf(r) \in empties ELSE SpentAndStored(r)

(* Outside lock(ticketsDb) a spent ticket has its whole ballot in the box, *)
(* except that each crash may tear the one ballot that was being written.  *)
Stored(h) == \E r \in Request : /\ req[r].hashes = {h}
                                /\ req[r].ballot # <<>>
                                /\ WholeBallot(r) \subseteq box

BeingWritten == IF ticketsLock = NoOne THEN {} ELSE req[ticketsLock].hashes

TornBallots == {h \in used \ BeingWritten : ~Stored(h)}

OneTornBallotPerCrash == Cardinality(TornBallots) =< crashes

(* A ballot that a tally did not count was on its way when the box was     *)
(* sealed: no request that starts after the seal stores anything.          *)
UncountedWasInFlight ==
  sealed => \A x \in box \ counted : x.id[1] \in admitted

(* What was acknowledged before the seal is counted by every tally.  An    *)
(* empty list is acknowledged too and has nothing to count.                *)
AcceptedIsCounted ==
  \A r \in Request : sealed /\ pc[r] = "accepted" /\ r \notin admitted
                     => WholeBallot(r) \subseteq counted

(* The box is sealed, and results are shown, only after the election       *)
(* system has closed the elections.                                        *)
SealedAfterClose == sealed => esClosed

(* All the box holds for one ticket together is on the ballot of its       *)
(* election, or is one blank or spoiled ballot, and keeps to the limits:   *)
(* no more candidates than allowed, and in a party election one party at   *)
(* most.  In a party election the code allows one name more, "for the      *)
(* party" (VoteController.cs:209), and does not look whether it is one:    *)
(* only a ticket without a party can have a candidate too many.            *)
VotesOn(h) == {x \in box : req[x.id[1]].hashes = {h}}

PartyVotes(h) == {x \in VotesOn(h) : /\ ElectionOf[h] \in PartyElections
                                     /\ x.vote \in Parties}

TicketWithinLimits ==
  \A h \in used : VotesOn(h) # {} =>
    LET e == ElectionOf[h]
        votes == {x.vote : x \in VotesOn(h)}
        candidates == Cardinality(VotesOn(h) \ PartyVotes(h))
    IN /\ e \in Contest
       /\ \/ votes \subseteq Selections[e]
          \/ votes \in {{Blank}, {Spoil}} /\ Cardinality(VotesOn(h)) = 1
       /\ Cardinality(PartyVotes(h)) =< 1
       /\ \/ candidates =< VotesAllowed[e]
          \/ /\ e \in PartyElections /\ PartyVotes(h) = {}
             /\ candidates = VotesAllowed[e] + 1

-----------------------------------------------------------------------------
(* Seen from the election system, requests, locks, positions and the queue *)
(* are a voting service.  A ticket is spent with the first Put; from then  *)
(* on, or once an empty list was accepted, its notice is to come, until    *)
(* every copy of it is gone.                                               *)
Pending(r) ==
  \/ pc[r] = "ticket" /\ next[r] > 1
  \/ pc[r] \in {"ballot", "cast"}
  \/ at[r] = "adding"
  \/ r \in Range(queue)
  \/ \E c \in Caller : r \in Range(batch[c])

Service ==
  INSTANCE VotingService
    WITH Ticket <- Hash,
         spent <- used,
         stored <- {h \in Hash : Stored(h)},
         empty <- empties,
         notices <- {TicketOf(r) : r \in {s \in Request : Pending(s)}},
         recorded <- {TicketOf(r) : r \in recorded}

(* Whatever requests, restarts and retries interleave, a ticket is spent   *)
(* once and its voter recorded only for a ballot that is stored whole, or  *)
(* for an empty list: the system does what TicketIssue takes it to do      *)
(* (VoteController.cs:92-263, TicketsQueue.cs).                            *)
ServiceHolds == Service!SSpec

-----------------------------------------------------------------------------
(* Every request that gets past the seal is answered, or dies with the     *)
(* process: no return path keeps the lock and no notification loop hangs.  *)
EveryRequestEnds ==
  \A r \in Request :
    pc[r] = "open" ~> pc[r] \in Ends

-----------------------------------------------------------------------------
(* Statements of the interface and of comments that the code does not      *)
(* keep; each is checked by a run that shows how.                          *)

(* "Tally (ends the ballot casting)": nothing enters a sealed box.         *)
TallyEndsCasting == [][sealed => box' = box]_vars

(* "Notification may fail, so we bookkeep failed notifications in a queue  *)
(* and retry over time": an accepted ballot is recorded by the election    *)
(* system, or its notice is still in the queue.                            *)
FailedNotificationsAreKept ==
  \A r \in Request : pc[r] = "accepted" =>
    \/ r \in recorded
    \/ \E i \in DOMAIN queue : queue[i] = r
=============================================================================
