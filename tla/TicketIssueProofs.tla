-------------------------- MODULE TicketIssueProofs --------------------------
(***************************************************************************)
(* What holds of TicketIssue for every number of requests, people,         *)
(* elections, commissioners and uploads.                                   *)
(***************************************************************************)
EXTENDS TicketIssue, FiniteSetTheorems, TLAPS

-----------------------------------------------------------------------------
(* Types.                                                                  *)

LEMMA AnswerTypes ==
  ASSUME LocalTypeOK, NEW q \in Request, NEW s \in Step, Answer(q, s)
  PROVE  LocalTypeOK'
BY DEF LocalTypeOK, Answer, Go

LEMMA ReadTypes ==
  ASSUME DbTypeOK, LocalTypeOK, NEW q \in Request, NEW S \in SUBSET Row, ReadRows(q, S)
  PROVE  /\ rows' \in [Request -> SUBSET Row]
         /\ seen' \in [Request -> [Row -> Request \union {None}]]
<1>1. rows' \in [Request -> SUBSET Row]
  BY DEF LocalTypeOK, ReadRows
<1>2. [r \in Row |-> IF r \in S THEN rec[r] ELSE None] \in [Row -> Request \union {None}]
  BY DEF DbTypeOK
<1> QED
  BY <1>1, <1>2 DEF LocalTypeOK, ReadRows

LEMMA RecogniseTypes ==
  ASSUME DbTypeOK, LocalTypeOK, NEW q \in Request, NEW o \in Otp \union {None},
         Recognise(q, o), UNCHANGED overlapped
  PROVE  DbTypeOK'
<1>1. NewFor(q) \subseteq Row /\ Reached(q) \subseteq Row
  BY DEF NewFor, Reached, LocalTypeOK
<1> QED
  BY <1>1 DEF DbTypeOK, Recognise

LEMMA AllowedAreRows ==
  ASSUME DbTypeOK
  PROVE  /\ \A c, p : AllowedVotes(c, p) \subseteq Row
         /\ \A p : AvailableVotes(p) \subseteq Row
BY DEF DbTypeOK, AllowedVotes, AvailableVotes

LEMMA IdentificationTypes ==
  ASSUME TypeOK, NEW q \in Request, Identification(q)
  PROVE  TypeOK'
<1> USE DEF TypeOK
<1>1. CASE \E c \in Officer, p \in Person : OpenForm(q, c, p)
  BY <1>1 DEF OpenForm, Go, DbTypeOK, LocalTypeOK, VsTypeOK, Step, db, vs
<1>2. ASSUME step' = [step EXCEPT ![q] = "identify"], NEW S \in SUBSET Row,
             ReadRows(q, S), UNCHANGED <<db, officer, voter, given, vs, overlapped>>
      PROVE  TypeOK'
  <2>1. LocalTypeOK'
    BY <1>2, ReadTypes DEF LocalTypeOK, Step
  <2> QED
    BY <2>1, <1>2 DEF DbTypeOK, VsTypeOK, db, vs
<1>3. CASE SubmitForm(q)
  BY <1>2, <1>3, AllowedAreRows DEF SubmitForm, Go
<1>4. CASE \E c \in Officer : PublicIdentificationElection(q, c)
  <2> PICK c \in Officer : PublicIdentificationElection(q, c)
    BY <1>4
  <2> DEFINE S == {r \in roll : ElectionOf[r] \in
                     Commission[c] \intersect active \intersect PublicElection}
  <2>1. S \in SUBSET Row
    BY DEF DbTypeOK
  <2>2. ReadRows(q, S)
    BY DEF PublicIdentificationElection
  <2> HIDE DEF S
  <2> QED
    BY <1>2, <2>1, <2>2 DEF PublicIdentificationElection, Go
<1>5. CASE \E p \in Person : SampledIdentification(q, p)
  BY <1>2, <1>5, AllowedAreRows DEF SampledIdentification, Go
<1>6. CASE SaveIdentification(q)
  <2>1. LocalTypeOK'
    BY <1>6, AnswerTypes DEF SaveIdentification, Step
  <2>2. DbTypeOK'
    BY <1>6, RecogniseTypes DEF SaveIdentification
  <2> QED
    BY <2>1, <2>2, <1>6 DEF SaveIdentification, VsTypeOK, vs
<1>7. CASE SaveFails(q)
  <2>1. LocalTypeOK'
    BY <1>7, AnswerTypes DEF SaveFails, Step
  <2> QED
    BY <2>1, <1>7 DEF SaveFails, DbTypeOK, VsTypeOK, db, vs
<1> QED
  BY <1>1, <1>3, <1>4, <1>5, <1>6, <1>7 DEF Identification

LEMMA HashIsRow ==
  ASSUME NEW q, NEW S \in SUBSET Row
  PROVE  TicketsFor(q, S) \in SUBSET Ticket
BY IssueAssumption DEF TicketsFor, Hash, Ticket

LEMMA GiveTypes ==
  ASSUME TypeOK, NEW q \in Request, voter[q] \in Person, GiveTickets(q)
  PROVE  TypeOK'
<1> USE DEF TypeOK
<1>1. LocalTypeOK'
  BY AnswerTypes DEF GiveTickets, Step
<1>2. rows[q] \in SUBSET Row
  BY DEF LocalTypeOK
<1>3. DbTypeOK'
  BY <1>2 DEF GiveTickets, DbTypeOK, Hash
<1>4. TicketsFor(q, rows[q]) \in SUBSET Ticket
  BY <1>2, HashIsRow
<1>5. VsTypeOK'
  BY <1>4 DEF GiveTickets, VsTypeOK
<1> QED
  BY <1>1, <1>3, <1>5

(* The rows a request read, or is about to insert, have been drawn; one    *)
(* that generates tickets does it for one person, for rows of that person  *)
(* (GiveTickets relies on it).                                             *)
GeneratesFor(q) ==
  /\ voter[q] \in Person
  /\ given[q] \in Otp
  /\ \A r \in rows[q] : PersonOf[r] = voter[q]

RowsInv ==
  \A q \in Request : /\ rows[q] \subseteq drawn
                     /\ step[q] \in {"auto", "check", "issue"} => GeneratesFor(q)

LEMMA GenerateTypes ==
  ASSUME TypeOK, RowsInv, NEW q \in Request, GenerateTicket(q)
  PROVE  TypeOK'
<1> USE DEF TypeOK
<1>1. CASE \E p \in Person, o \in Otp : AskTicket(q, p, o)
  <2> PICK p \in Person, o \in Otp : AskTicket(q, p, o)
    BY <1>1
  <2>1. AvailableVotes(p) \in SUBSET Row
    BY AllowedAreRows
  <2>2. /\ rows' \in [Request -> SUBSET Row]
        /\ seen' \in [Request -> [Row -> Request \union {None}]]
        /\ step' \in [Request -> Step]
    <3>1. CASE StrongLogin(p)
      BY <2>1, <3>1, ReadTypes DEF AskTicket, Go, LocalTypeOK, Step
    <3>2. CASE ~StrongLogin(p)
      BY <2>1, <3>2 DEF AskTicket, Go, LocalTypeOK, Step
    <3> QED
      BY <3>1, <3>2
  <2> QED
    BY <2>2 DEF AskTicket, DbTypeOK, LocalTypeOK, VsTypeOK, db, vs
<1>2. CASE AutoRecognise(q)
  <2>1. given[q] \in Otp
    BY <1>2 DEF RowsInv, GeneratesFor, AutoRecognise
  <2>2. DbTypeOK'
    BY <1>2, <2>1, RecogniseTypes DEF AutoRecognise
  <2>3. [r \in Row |-> IF r \in NewFor(q) THEN q ELSE seen[q][r]]
          \in [Row -> Request \union {None}]
    BY DEF LocalTypeOK
  <2>4. LocalTypeOK'
    BY <1>2, <2>3 DEF AutoRecognise, Go, LocalTypeOK, Step
  <2> QED
    BY <1>2, <2>2, <2>4 DEF AutoRecognise, VsTypeOK, vs
<1>3. CASE CheckOtp(q)
  <2>1. CkVotes(q) \in SUBSET Row
    BY DEF CkVotes, LocalTypeOK
  <2>2. LocalTypeOK'
    <3>1. CASE Otps(q) = {given[q]}
      BY <1>3, <2>1, <3>1 DEF CheckOtp, Go, LocalTypeOK, Step
    <3>2. CASE Otps(q) # {given[q]}
      BY <1>3, <3>2, AnswerTypes DEF CheckOtp, Step
    <3> QED
      BY <3>1, <3>2
  <2> QED
    BY <1>3, <2>2 DEF CheckOtp, DbTypeOK, VsTypeOK, db, vs
<1>4. CASE GiveTickets(q)
  BY <1>4, GiveTypes DEF RowsInv, GeneratesFor, GiveTickets
<1> QED
  BY <1>1, <1>2, <1>3, <1>4 DEF GenerateTicket

LEMMA RollTypes ==
  ASSUME TypeOK, RowsInv, NEW q \in Request, RollChange(q)
  PROVE  TypeOK'
<1> USE DEF TypeOK
<1>1. CASE \E e \in Election, file \in UploadFile, S \in SUBSET Row :
             VotersBulkUpload(q, e, file, S)
  <2> PICK e \in Election, file \in UploadFile, S \in SUBSET Row :
             VotersBulkUpload(q, e, file, S)
    BY <1>1
  <2>1. LocalTypeOK'
    BY DEF VotersBulkUpload, Go, LocalTypeOK, Step
  <2>2. DbTypeOK'
    BY DEF VotersBulkUpload, DbTypeOK
  <2> QED
    BY <2>1, <2>2 DEF VotersBulkUpload, VsTypeOK, vs
<1>2. CASE SaveUpload(q)
  <2>1. LocalTypeOK'
    BY <1>2, AnswerTypes DEF SaveUpload, Step
  <2>2. rows[q] \subseteq drawn
    BY DEF RowsInv
  <2> QED
    BY <2>1, <2>2, <1>2 DEF SaveUpload, DbTypeOK, VsTypeOK, vs
<1> QED
  BY <1>1, <1>2 DEF RollChange

LEMMA EnvironmentTypes ==
  ASSUME TypeOK, IsFiniteSet(ballots), Environment
  PROVE  TypeOK' /\ IsFiniteSet(ballots)'
<1> USE DEF TypeOK
<1>1. ASSUME NEW p \in Person, NEW b \in wallet[p], NEW t \in b, CastBallot(p, b, t)
      PROVE  TypeOK' /\ IsFiniteSet(ballots)'
  <2>1. t \in Ticket
    BY <1>1 DEF VsTypeOK
  <2>2. Cardinality(ballots) \in Nat
    BY FS_CardinalityType
  <2>3. VsTypeOK'
    BY <1>1, <2>1, <2>2 DEF CastBallot, VsTypeOK, Ticket
  <2>4. IsFiniteSet(ballots)'
    BY <1>1, FS_AddElement DEF CastBallot
  <2> QED
    BY <1>1, <2>3, <2>4 DEF CastBallot, DbTypeOK, LocalTypeOK, db, locals
<1>6. ASSUME NEW p \in Person, NEW b \in wallet[p], NEW t \in b, CastNothing(p, b, t)
      PROVE  TypeOK' /\ IsFiniteSet(ballots)'
  <2>1. t.hash \in Row
    BY <1>6 DEF VsTypeOK, Ticket
  <2>2. VsTypeOK' /\ IsFiniteSet(ballots)'
    BY <1>6, <2>1 DEF CastNothing, VsTypeOK
  <2> QED
    BY <1>6, <2>2 DEF CastNothing, DbTypeOK, LocalTypeOK, db, locals
<1>2. ASSUME NEW h \in notices, TicketUsed(h) \/ LoseNotice(h)
      PROVE  TypeOK' /\ IsFiniteSet(ballots)'
  <2>1. VotesOf(h) \subseteq Row
    BY DEF DbTypeOK, VotesOf
  <2>2. DbTypeOK' /\ UNCHANGED <<step, locals>>
    BY <1>2, <2>1 DEF TicketUsed, LoseNotice, DbTypeOK, db
  <2>3. VsTypeOK' /\ IsFiniteSet(ballots)'
    BY <1>2 DEF TicketUsed, LoseNotice, VsTypeOK
  <2> QED
    BY <2>2, <2>3 DEF LocalTypeOK, locals
<1>3. ASSUME NEW r \in Row, Expire(r) \/ RemoveVoter(r) \/ CloseElections
      PROVE  TypeOK' /\ IsFiniteSet(ballots)'
  <2>1. DbTypeOK' /\ UNCHANGED <<step, locals, vs>>
    BY <1>3 DEF Expire, RemoveVoter, CloseElections, DbTypeOK
  <2> QED
    BY <2>1 DEF LocalTypeOK, VsTypeOK, locals, vs
<1>4. CASE CloseElections
  <2>1. DbTypeOK' /\ UNCHANGED <<step, locals, vs>>
    BY <1>4 DEF CloseElections, DbTypeOK
  <2> QED
    BY <2>1 DEF LocalTypeOK, VsTypeOK, locals, vs
<1>5. valid \subseteq Row /\ roll \subseteq Row
  BY DEF DbTypeOK
<1> QED
  BY <1>1, <1>2, <1>3, <1>4, <1>5, <1>6 DEF Environment

-----------------------------------------------------------------------------
(* The rows of the requests.                                               *)

(* A step that ends q, or leaves its rows alone and takes it nowhere near  *)
(* the tickets, keeps RowsInv.                                             *)
LEMMA RowsKept ==
  ASSUME TypeOK, RowsInv, drawn \subseteq drawn',
         NEW q \in Request, NEW s, NEW S \in SUBSET drawn',
         s \notin {"auto", "check", "issue"},
         step' = [step EXCEPT ![q] = s], rows' = [rows EXCEPT ![q] = S],
         \A x \in Request \ {q} : voter'[x] = voter[x] /\ given'[x] = given[x]
  PROVE  RowsInv'
<1> SUFFICES ASSUME NEW x \in Request
             PROVE  /\ rows'[x] \subseteq drawn'
                    /\ step'[x] \in {"auto", "check", "issue"} => GeneratesFor(x)'
  BY DEF RowsInv
<1>1. CASE x = q
  BY <1>1 DEF TypeOK, LocalTypeOK
<1>2. CASE x # q
  BY <1>2 DEF TypeOK, LocalTypeOK, RowsInv, GeneratesFor
<1> QED
  BY <1>1, <1>2

LEMMA RowsAnswered ==
  ASSUME TypeOK, RowsInv, drawn' = drawn, NEW q \in Request,
         NEW s \in {"answered", "tooManyOtps"}, Answer(q, s)
  PROVE  RowsInv'
<1>1. \A x \in Request \ {q} : voter'[x] = voter[x] /\ given'[x] = given[x]
  BY DEF Answer, TypeOK, LocalTypeOK
<1>2. {} \in SUBSET drawn' /\ drawn \subseteq drawn'
  OBVIOUS
<1>3. step' = [step EXCEPT ![q] = s] /\ rows' = [rows EXCEPT ![q] = {}]
  BY DEF Answer, Go
<1> QED
  BY <1>1, <1>2, <1>3, RowsKept

LEMMA IdentificationRows ==
  ASSUME TypeOK, RowsInv, NEW q \in Request, Identification(q)
  PROVE  RowsInv'
<1>1. CASE \E c \in Officer, p \in Person : OpenForm(q, c, p)
  <2>1. rows' = rows /\ given' = given /\ drawn' = drawn /\ step' = [step EXCEPT ![q] = "form"]
    BY <1>1 DEF OpenForm, Go, db
  <2>2. \A x \in Request \ {q} : voter'[x] = voter[x]
    BY <1>1 DEF OpenForm, TypeOK, LocalTypeOK
  <2> QED
    BY <2>1, <2>2 DEF RowsInv, GeneratesFor, TypeOK, LocalTypeOK
<1>2. ASSUME NEW S \in SUBSET roll, ReadRows(q, S), Go(q, "identify"),
             UNCHANGED <<drawn, voter, given>>
      PROVE  RowsInv'
  <2>1. S \in SUBSET drawn' /\ drawn \subseteq drawn'
    BY <1>2 DEF TypeOK, DbTypeOK
  <2>2. step' = [step EXCEPT ![q] = "identify"] /\ rows' = [rows EXCEPT ![q] = S]
    BY <1>2 DEF ReadRows, Go
  <2> QED
    BY <1>2, <2>1, <2>2, RowsKept
<1>3. CASE SubmitForm(q)
  BY <1>2, <1>3 DEF SubmitForm, AllowedVotes, db
<1>4. CASE \E c \in Officer : PublicIdentificationElection(q, c)
  BY <1>2, <1>4 DEF PublicIdentificationElection, db
<1>5. CASE \E p \in Person : SampledIdentification(q, p)
  BY <1>2, <1>5 DEF SampledIdentification, AvailableVotes, db
<1>6. CASE SaveIdentification(q)
  BY <1>6, RowsAnswered DEF SaveIdentification, Recognise
<1>7. CASE SaveFails(q)
  BY <1>7, RowsAnswered DEF SaveFails, db
<1> QED
  BY <1>1, <1>3, <1>4, <1>5, <1>6, <1>7 DEF Identification

LEMMA GenerateRows ==
  ASSUME TypeOK, RowsInv, NEW q \in Request, GenerateTicket(q)
  PROVE  RowsInv'
<1>1. CASE \E p \in Person, o \in Otp : AskTicket(q, p, o)
  <2> PICK p \in Person, o \in Otp : AskTicket(q, p, o)
    BY <1>1
  <2>1. rows' = [rows EXCEPT ![q] = AvailableVotes(p)] /\ drawn' = drawn
    BY DEF AskTicket, ReadRows, db
  <2>2. \A x \in Request \ {q} : step'[x] = step[x]
    BY DEF AskTicket, Go, TypeOK, LocalTypeOK
  <2>3. /\ voter' = [voter EXCEPT ![q] = p]
        /\ given' = [given EXCEPT ![q] = o]
    BY DEF AskTicket
  <2>4. AvailableVotes(p) \subseteq drawn /\ \A r \in AvailableVotes(p) : PersonOf[r] = p
    BY DEF AvailableVotes, TypeOK, DbTypeOK
  <2> QED
    BY <2>1, <2>2, <2>3, <2>4 DEF RowsInv, GeneratesFor, TypeOK, LocalTypeOK
<1>2. CASE AutoRecognise(q)
  <2>1. UNCHANGED <<drawn, voter, given, rows>> /\ step[q] = "auto"
    BY <1>2 DEF AutoRecognise, Recognise
  <2>2. \A x \in Request \ {q} : step'[x] = step[x]
    BY <1>2 DEF AutoRecognise, Go, TypeOK, LocalTypeOK
  <2> QED
    BY <2>1, <2>2 DEF RowsInv, GeneratesFor
<1>3. CASE CheckOtp(q)
  <2>1. CASE Otps(q) = {given[q]}
    <3>1. rows' = [rows EXCEPT ![q] = CkVotes(q)] /\ UNCHANGED <<drawn, voter, given>>
      BY <1>3, <2>1 DEF CheckOtp, db
    <3>2. \A x \in Request \ {q} : step'[x] = step[x]
      BY <1>3, <2>1 DEF CheckOtp, Go, TypeOK, LocalTypeOK
    <3>3. CkVotes(q) \subseteq rows[q] /\ step[q] = "check"
      BY <1>3 DEF CkVotes, CheckOtp
    <3> QED
      BY <3>1, <3>2, <3>3 DEF RowsInv, GeneratesFor, TypeOK, LocalTypeOK
  <2>2. CASE Otps(q) # {given[q]}
    BY <1>3, <2>2, RowsAnswered DEF CheckOtp, db
  <2> QED
    BY <2>1, <2>2
<1>4. CASE GiveTickets(q)
  BY <1>4, RowsAnswered DEF GiveTickets
<1> QED
  BY <1>1, <1>2, <1>3, <1>4 DEF GenerateTicket

LEMMA RollRows ==
  ASSUME TypeOK, RowsInv, NEW q \in Request, RollChange(q)
  PROVE  RowsInv'
<1>1. CASE \E e \in Election, file \in UploadFile, S \in SUBSET Row :
             VotersBulkUpload(q, e, file, S)
  <2> PICK e \in Election, file \in UploadFile, S \in SUBSET Row :
             VotersBulkUpload(q, e, file, S)
    BY <1>1
  <2>1. drawn' = drawn \union S /\ UNCHANGED <<voter, given>>
    BY DEF VotersBulkUpload
  <2>2. step' = [step EXCEPT ![q] = "upload"] /\ rows' = [rows EXCEPT ![q] = S]
    BY DEF VotersBulkUpload, Go
  <2> QED
    BY <2>1, <2>2, RowsKept
<1>2. CASE SaveUpload(q)
  BY <1>2, RowsAnswered DEF SaveUpload
<1> QED
  BY <1>1, <1>2 DEF RollChange

LEMMA InitRows == Init => TypeOK /\ RowsInv /\ IsFiniteSet(ballots)
<1> SUFFICES ASSUME Init PROVE TypeOK /\ RowsInv /\ IsFiniteSet(ballots)
  OBVIOUS
<1>1. DbTypeOK
  BY IssueAssumption DEF Init, DbTypeOK
<1>2. LocalTypeOK
  BY DEF Init, LocalTypeOK, Step
<1>3. VsTypeOK /\ IsFiniteSet(ballots)
  BY FS_EmptySet DEF Init, VsTypeOK
<1>4. RowsInv
  BY DEF Init, RowsInv
<1> QED
  BY <1>1, <1>2, <1>3, <1>4 DEF TypeOK

LEMMA NextRows ==
  TypeOK /\ RowsInv /\ IsFiniteSet(ballots) /\ [Next]_vars
    => (TypeOK /\ RowsInv /\ IsFiniteSet(ballots))'
<1> SUFFICES ASSUME TypeOK, RowsInv, IsFiniteSet(ballots), [Next]_vars
             PROVE  (TypeOK /\ RowsInv /\ IsFiniteSet(ballots))'
  OBVIOUS
<1>1. ASSUME NEW q \in Request, Identification(q) \/ GenerateTicket(q) \/ RollChange(q)
      PROVE  (TypeOK /\ RowsInv /\ IsFiniteSet(ballots))'
  <2>1. ballots' = ballots
    BY <1>1 DEF Identification, OpenForm, SubmitForm, PublicIdentificationElection,
                SampledIdentification, SaveIdentification, SaveFails,
                GenerateTicket, AskTicket, AutoRecognise, CheckOtp, GiveTickets,
                RollChange, VotersBulkUpload, SaveUpload, vs
  <2> QED
    BY <1>1, <2>1, IdentificationTypes, GenerateTypes, RollTypes,
       IdentificationRows, GenerateRows, RollRows
<1>2. CASE Environment
  <2>1. UNCHANGED <<step, voter, given, rows, drawn>>
    BY <1>2 DEF Environment, CastBallot, CastNothing, TicketUsed, LoseNotice, Expire,
                RemoveVoter, CloseElections, db, locals
  <2>2. RowsInv'
    BY <2>1 DEF RowsInv, GeneratesFor
  <2> QED
    BY <1>2, <2>2, EnvironmentTypes
<1>3. CASE UNCHANGED vars
  BY <1>3 DEF vars, db, locals, vs, TypeOK, DbTypeOK, LocalTypeOK, VsTypeOK,
              RowsInv, GeneratesFor
<1> QED
  BY <1>1, <1>2, <1>3 DEF Next

(* Rows, requests, tickets and ballots stay what they are: in particular   *)
(* GiveTickets always has a voter to give them to (VoterController.cs:378).*)
THEOREM TypeCorrect == Spec => []TypeOK
<1>1. Spec => [](TypeOK /\ RowsInv /\ IsFiniteSet(ballots))
  BY InitRows, NextRows, PTL DEF Spec
<1> QED
  BY <1>1, PTL

-----------------------------------------------------------------------------
(* Tickets, ballots, notices and votes.                                    *)

(* What a ticket that is out says is true of its row, and stays so: the    *)
(* hash of the row is the only one the row is ever issued.                 *)
TicketOf(p, t) ==
  /\ PersonOf[t.hash] = p
  /\ ElectionOf[t.hash] = t.election
  /\ issued[t.hash] = t.hash
  /\ t.hash \in drawn

IssuedInv == \A r \in Row : issued[r] \in {None, r}

WalletInv == \A p \in Person : \A b \in wallet[p] : \A t \in b : TicketOf(p, t)

(* A ballot was cast with a ticket of its voter, a hash is spent once, and *)
(* only a hash that a ballot or an empty list came with is notified, and   *)
(* recorded in the row it was issued for.                                  *)
BallotsInv ==
  /\ \A b \in ballots : /\ PersonOf[b.hash] = b.voter
                         /\ ElectionOf[b.hash] = b.election
                         /\ b.hash \in drawn
  /\ \A b1, b2 \in ballots : b1.hash = b2.hash => b1 = b2

VoteInv ==
  /\ notices \subseteq Spent \union empty
  /\ vote \subseteq Spent \union empty
  /\ \A r \in vote : issued[r] = r

TicketInv == IssuedInv /\ WalletInv /\ BallotsInv /\ VoteInv

(* The tickets out, the ballots and the votes are those of before.         *)
TicketsUnchanged == UNCHANGED <<issued, vote, wallet, ballots, empty, notices>>

LEMMA TicketInvKept ==
  ASSUME TicketInv, TicketsUnchanged, drawn \subseteq drawn'
  PROVE  TicketInv'
<1> USE DEF TicketsUnchanged, TicketInv
<1>1. IssuedInv' /\ VoteInv'
  BY DEF IssuedInv, VoteInv, Spent
<1>2. WalletInv'
  BY DEF WalletInv, TicketOf
<1>3. BallotsInv'
  BY DEF BallotsInv
<1> QED
  BY <1>1, <1>2, <1>3

LEMMA GiveKeepsTickets ==
  ASSUME TypeOK, RowsInv, TicketInv, NEW q \in Request, GiveTickets(q)
  PROVE  TicketInv'
<1> USE DEF TicketInv
<1>1. UNCHANGED <<drawn, vote, ballots, empty, notices>>
  BY DEF GiveTickets
<1>2. BallotsInv'
  BY <1>1 DEF BallotsInv
<1>3. CASE rows[q] \subseteq roll
  <2>1. issued' = [r \in Row |-> IF r \in rows[q] THEN r ELSE issued[r]]
    BY <1>3 DEF GiveTickets, Hash
  <2>2. wallet' = [wallet EXCEPT ![voter[q]] = @ \union {TicketsFor(q, rows[q])}]
    BY <1>3 DEF GiveTickets
  <2>3. rows[q] \subseteq drawn /\ rows[q] \subseteq Row /\ GeneratesFor(q)
    BY DEF RowsInv, GiveTickets, TypeOK, LocalTypeOK
  <2>4. IssuedInv'
    BY <2>1 DEF IssuedInv
  <2>9. VoteInv'
    <3>1. vote \subseteq Row
      BY DEF TypeOK, DbTypeOK
    <3>2. \A r \in vote : issued'[r] = r
      BY <2>1, <3>1 DEF VoteInv
    <3> QED
      BY <1>1, <3>2 DEF VoteInv, Spent
  <2> DEFINE T == TicketsFor(q, rows[q])
  <2> PICK v \in Person : v = voter[q]
    BY <2>3 DEF GeneratesFor
  <2>5. ASSUME NEW t \in T
        PROVE  TicketOf(v, t)'
    <3> PICK r \in rows[q] : t = [hash |-> r, election |-> ElectionOf[r]]
      BY DEF TicketsFor, Hash
    <3>1. issued'[r] = r /\ r \in drawn' /\ PersonOf[r] = v
      BY <2>1, <2>3, <1>1 DEF GeneratesFor
    <3>2. t.hash = r /\ t.election = ElectionOf[r]
      OBVIOUS
    <3> QED
      BY <3>1, <3>2 DEF TicketOf
  <2>6. \A p \in Person : \A b \in wallet[p] : \A t \in b : TicketOf(p, t)'
    <3> SUFFICES ASSUME NEW p \in Person, NEW b \in wallet[p], NEW t \in b
                 PROVE  TicketOf(p, t)'
      OBVIOUS
    <3>1. TicketOf(p, t) /\ t.hash \in Row
      BY DEF WalletInv, TypeOK, VsTypeOK, Ticket
    <3> QED
      BY <3>1, <2>1, <1>1 DEF TicketOf
  <2>7. \A p \in Person : \A b \in wallet'[p] : b \in wallet[p] \/ (p = v /\ b = T)
    <3>1. wallet \in [Person -> SUBSET SUBSET Ticket]
      BY DEF TypeOK, VsTypeOK
    <3>2. wallet' = [wallet EXCEPT ![v] = @ \union {T}]
      BY <2>2
    <3> HIDE DEF T
    <3> QED
      BY <3>1, <3>2
  <2>8. WalletInv'
    <3> HIDE DEF T
    <3> QED
      BY <2>5, <2>6, <2>7 DEF WalletInv
  <2> QED
    BY <1>2, <2>4, <2>8, <2>9
<1>4. CASE ~(rows[q] \subseteq roll)
  BY <1>1, <1>4, TicketInvKept DEF GiveTickets, TicketsUnchanged
<1> QED
  BY <1>3, <1>4

LEMMA CastKeepsTickets ==
  ASSUME TypeOK, TicketInv,
         NEW p \in Person, NEW b \in wallet[p], NEW t \in b, CastBallot(p, b, t)
  PROVE  TicketInv'
<1> USE DEF TicketInv
<1> DEFINE new == [voter |-> p, hash |-> t.hash, election |-> t.election,
                   nr |-> Cardinality(ballots)]
<1>1. UNCHANGED <<issued, drawn, vote, wallet, empty>>
  BY DEF CastBallot, db
<1>2. IssuedInv' /\ WalletInv'
  BY <1>1 DEF IssuedInv, WalletInv, TicketOf
<1>3. TicketOf(p, t) /\ t.hash \notin Spent
  BY DEF WalletInv, CastBallot
<1>4. ballots' = ballots \union {new} /\ notices' = notices \union {t.hash}
  BY DEF CastBallot
<1>5. /\ PersonOf[new.hash] = new.voter /\ ElectionOf[new.hash] = new.election
      /\ new.hash \in drawn
  BY <1>3 DEF TicketOf
<1>6. \A x \in ballots : x.hash # new.hash
  BY <1>3 DEF Spent
<1>7. Spent' = Spent \union {t.hash}
  <2>1. new.hash = t.hash
    OBVIOUS
  <2> HIDE DEF new
  <2> QED
    BY <1>4, <2>1 DEF Spent
<1>8. VoteInv'
  BY <1>1, <1>4, <1>7 DEF VoteInv
<1>9. BallotsInv'
  <2> HIDE DEF new
  <2> QED
    BY <1>1, <1>4, <1>5, <1>6 DEF BallotsInv
<1> QED
  BY <1>2, <1>8, <1>9

LEMMA NothingKeepsTickets ==
  ASSUME TicketInv, NEW p, NEW b, NEW t, CastNothing(p, b, t)
  PROVE  TicketInv'
<1> USE DEF TicketInv
<1>1. /\ UNCHANGED <<issued, drawn, vote, wallet, ballots>>
      /\ empty' = empty \union {t.hash} /\ notices' = notices \union {t.hash}
  BY DEF CastNothing, db
<1>2. IssuedInv' /\ WalletInv' /\ BallotsInv'
  BY <1>1 DEF IssuedInv, WalletInv, TicketOf, BallotsInv
<1>3. VoteInv'
  BY <1>1 DEF VoteInv, Spent
<1> QED
  BY <1>2, <1>3

LEMMA UsedKeepsTickets ==
  ASSUME TypeOK, TicketInv, NEW h \in notices, TicketUsed(h) \/ LoseNotice(h)
  PROVE  TicketInv'
<1> USE DEF TicketInv
<1>1. UNCHANGED <<issued, drawn, wallet, ballots, empty>> /\ notices' \subseteq notices
  BY DEF TicketUsed, LoseNotice, db
<1>2. IssuedInv' /\ WalletInv' /\ BallotsInv'
  BY <1>1 DEF IssuedInv, WalletInv, TicketOf, BallotsInv
<1>3. VotesOf(h) \subseteq {h} /\ \A r \in VotesOf(h) : issued[r] = h
  <2>1. h \in Row /\ h # None /\ roll \subseteq Row
    BY IssueAssumption DEF TypeOK, VsTypeOK, DbTypeOK
  <2> QED
    BY <2>1 DEF VotesOf, IssuedInv
<1>4. vote' \subseteq vote \union VotesOf(h) /\ Spent' = Spent
  BY <1>1 DEF TicketUsed, LoseNotice, db, Spent
<1>5. VoteInv'
  BY <1>1, <1>3, <1>4 DEF VoteInv
<1> QED
  BY <1>2, <1>5

LEMMA NextTickets ==
  TypeOK /\ RowsInv /\ TicketInv /\ [Next]_vars => TicketInv'
<1> SUFFICES ASSUME TypeOK, RowsInv, TicketInv, [Next]_vars PROVE TicketInv'
  OBVIOUS
<1>1. CASE \E q \in Request : GiveTickets(q)
  BY <1>1, GiveKeepsTickets
<1>2. CASE \E p \in Person : \E b \in wallet[p] : \E t \in b :
             CastBallot(p, b, t) \/ CastNothing(p, b, t)
  BY <1>2, CastKeepsTickets, NothingKeepsTickets
<1>3. CASE \E h \in notices : TicketUsed(h) \/ LoseNotice(h)
  BY <1>3, UsedKeepsTickets
<1>4. ASSUME TicketsUnchanged, drawn \subseteq drawn' PROVE TicketInv'
  BY <1>4, TicketInvKept
<1>5. ASSUME NEW q \in Request, Identification(q)
      PROVE  TicketsUnchanged /\ drawn \subseteq drawn'
  BY <1>5 DEF TicketsUnchanged, Identification, OpenForm, SubmitForm,
              PublicIdentificationElection, SampledIdentification,
              SaveIdentification, SaveFails, Recognise, db, vs
<1>6. ASSUME NEW q \in Request, GenerateTicket(q), ~GiveTickets(q)
      PROVE  TicketsUnchanged /\ drawn \subseteq drawn'
  BY <1>6 DEF TicketsUnchanged, GenerateTicket, AskTicket, AutoRecognise, CheckOtp,
              Recognise, db, vs
<1>7. ASSUME NEW q \in Request, RollChange(q)
      PROVE  TicketsUnchanged /\ drawn \subseteq drawn'
  BY <1>7 DEF TicketsUnchanged, RollChange, VotersBulkUpload, SaveUpload, vs
<1>8. CASE \/ \E r \in valid : Expire(r)
           \/ \E r \in roll : RemoveVoter(r)
           \/ CloseElections
           \/ UNCHANGED vars
  BY <1>4, <1>8 DEF TicketsUnchanged, Expire, RemoveVoter, CloseElections, vars, db, vs
<1> QED
  BY <1>1, <1>2, <1>3, <1>4, <1>5, <1>6, <1>7, <1>8 DEF Next, Environment

LEMMA TicketsHold == Spec => [](TypeOK /\ TicketInv)
<1>1. Init => TicketInv
  BY IssueAssumption DEF Init, TicketInv, IssuedInv, WalletInv, BallotsInv, VoteInv
<1>2. Spec => [](TypeOK /\ RowsInv /\ IsFiniteSet(ballots) /\ TicketInv)
  BY <1>1, InitRows, NextRows, NextTickets, PTL DEF Spec
<1> QED
  BY <1>2, PTL

(* Whatever is generated again and whatever fails to be saved, TicketUsed  *)
(* has a row for every ticket that is out (EligereESAPI.cs:525-532).       *)
THEOREM NoticesFindTheirTicketHolds == Spec => []NoticesFindTheirTicket
<1>1. TypeOK /\ TicketInv => NoticesFindTheirTicket
  <2> SUFFICES ASSUME TypeOK, TicketInv, NEW p \in Person,
                      NEW b \in wallet[p], NEW t \in b
               PROVE  t.hash \in Row /\ TicketOf(p, t)
    BY DEF NoticesFindTheirTicket, TicketOf
  <2> QED
    BY DEF TypeOK, VsTypeOK, Ticket, TicketInv, WalletInv
<1> QED
  BY <1>1, TicketsHold, PTL

(* A voter is recorded as having voted only where the ticket issued for    *)
(* the row brought a ballot of that voter, in that election, into the box  *)
(* (EligereESAPI.cs:539) or came with an empty list of preferences         *)
(* (VoteController.cs:185-254).                                            *)
THEOREM RecordedVoteWasCastHolds == Spec => []RecordedVoteWasCast
<1>1. TicketInv => RecordedVoteWasCast
  BY DEF TicketInv, VoteInv, BallotsInv, Spent, RecordedVoteWasCast
<1> QED
  BY <1>1, TicketsHold, PTL

-----------------------------------------------------------------------------
(* The roll.                                                               *)

(* No person twice for one election.                                       *)
OncePerRoll(R) ==
  \A r1, r2 \in R :
    PersonOf[r1] = PersonOf[r2] /\ ElectionOf[r1] = ElectionOf[r2] => r1 = r2

(* As long as no two uploads overlapped there is at most one under way,    *)
(* and the rows it will insert fit the roll it will find.                  *)
RollInv ==
  overlapped \/
  /\ OncePerRoll(roll)
  /\ \A q \in Request : step[q] = "upload" =>
       /\ OncePerRoll(roll \union rows[q])
       /\ \A x \in Request : step[x] = "upload" => x = q

(* A step that is not the saving of an upload or the start of one.         *)
LEMMA RollInvKept ==
  ASSUME RollInv, roll' \subseteq roll, overlapped' = overlapped,
         \A x \in Request : step'[x] = "upload" => step[x] = "upload" /\ rows'[x] = rows[x]
  PROVE  RollInv'
BY DEF RollInv, OncePerRoll

LEMMA UploadKeepsRoll ==
  ASSUME TypeOK, RollInv, NEW q \in Request, NEW e \in Election, NEW file,
         NEW S \in SUBSET Row, VotersBulkUpload(q, e, file, S)
  PROVE  RollInv'
<1> SUFFICES ASSUME ~overlapped'
             PROVE  /\ OncePerRoll(roll')
                    /\ \A x \in Request : step'[x] = "upload" =>
                         /\ OncePerRoll(roll' \union rows'[x])
                         /\ \A y \in Request : step'[y] = "upload" => y = x
  BY DEF RollInv, OncePerRoll
<1>1. roll' = roll /\ ~overlapped /\ \A x \in Request : step[x] # "upload"
  BY DEF VotersBulkUpload
<1>2. \A x \in Request : step'[x] = "upload" => x = q
  BY <1>1 DEF VotersBulkUpload, Go, TypeOK, LocalTypeOK
<1>3. rows'[q] = S
  BY DEF VotersBulkUpload, TypeOK, LocalTypeOK
<1>4. OncePerRoll(roll)
  BY <1>1 DEF RollInv
<1>5. \A r1 \in roll, r2 \in S :
        ElectionOf[r1] = ElectionOf[r2] => PersonOf[r1] # PersonOf[r2]
  BY DEF VotersBulkUpload, OnRoll
<1>6. \A r1, r2 \in S : PersonOf[r1] = PersonOf[r2] => r1 = r2
  BY DEF VotersBulkUpload
<1>7. OncePerRoll(roll \union S)
  BY <1>4, <1>5, <1>6 DEF OncePerRoll
<1> QED
  BY <1>1, <1>2, <1>3, <1>4, <1>7

LEMMA SaveKeepsRoll ==
  ASSUME TypeOK, RollInv, NEW q \in Request, SaveUpload(q)
  PROVE  RollInv'
<1>1. roll' = roll \union rows[q] /\ overlapped' = overlapped /\ step[q] = "upload"
  BY DEF SaveUpload
<1>2. \A x \in Request : x # q => step'[x] = step[x]
  BY DEF SaveUpload, Answer, Go, TypeOK, LocalTypeOK
<1>3. step'[q] = "answered"
  BY DEF SaveUpload, Answer, Go, TypeOK, LocalTypeOK
<1>4. CASE overlapped
  BY <1>1, <1>4 DEF RollInv
<1>5. CASE ~overlapped
  <2>1. OncePerRoll(roll \union rows[q]) /\ \A x \in Request : step[x] = "upload" => x = q
    BY <1>1, <1>5 DEF RollInv
  <2>2. \A x \in Request : step'[x] # "upload"
    BY <1>2, <1>3, <2>1
  <2> QED
    BY <1>1, <2>1, <2>2 DEF RollInv
<1> QED
  BY <1>4, <1>5

LEMMA NextRoll ==
  TypeOK /\ RollInv /\ [Next]_vars => RollInv'
<1> SUFFICES ASSUME TypeOK, RollInv, [Next]_vars PROVE RollInv'
  OBVIOUS
<1>1. ASSUME NEW q \in Request, NEW s \in Step \ {"upload"}, Go(q, s), roll' = roll,
             overlapped' = overlapped,
             \A x \in Request \ {q} : rows'[x] = rows[x]
      PROVE  RollInv'
  <2>1. \A x \in Request : step'[x] = IF x = q THEN s ELSE step[x]
    BY <1>1 DEF Go, TypeOK, LocalTypeOK
  <2> QED
    BY <1>1, <2>1, RollInvKept
<1>2. ASSUME NEW q \in Request, NEW s \in {"answered", "tooManyOtps"}, Answer(q, s),
             roll' = roll, overlapped' = overlapped
      PROVE  RollInv'
  <2>1. \A x \in Request \ {q} : rows'[x] = rows[x]
    BY <1>2 DEF Answer, TypeOK, LocalTypeOK
  <2> QED
    BY <1>1, <1>2, <2>1 DEF Answer, Step
<1>3. ASSUME NEW q \in Request, Identification(q) PROVE RollInv'
  <2>1. CASE SaveIdentification(q) \/ SaveFails(q)
    BY <1>2, <2>1 DEF SaveIdentification, SaveFails, Recognise, db
  <2>2. ASSUME NEW S, ReadRows(q, S), Go(q, "identify"), UNCHANGED <<roll, overlapped>>
        PROVE  RollInv'
    <3>1. \A x \in Request \ {q} : rows'[x] = rows[x]
      BY <2>2 DEF ReadRows, TypeOK, LocalTypeOK
    <3> QED
      BY <1>1, <2>2, <3>1 DEF Step
  <2>3. CASE \/ SubmitForm(q)
             \/ \E c \in Officer : PublicIdentificationElection(q, c)
             \/ \E p \in Person : SampledIdentification(q, p)
    BY <2>2, <2>3 DEF SubmitForm, PublicIdentificationElection, SampledIdentification, db
  <2>4. CASE \E c \in Officer, p \in Person : OpenForm(q, c, p)
    BY <1>1, <2>4 DEF OpenForm, Step, db
  <2> QED
    BY <1>3, <2>1, <2>3, <2>4 DEF Identification
<1>4. ASSUME NEW q \in Request, GenerateTicket(q) PROVE RollInv'
  <2>1. CASE \E p \in Person, o \in Otp : AskTicket(q, p, o)
    <3> PICK p \in Person, o \in Otp : AskTicket(q, p, o)
      BY <2>1
    <3>1. rows' = [rows EXCEPT ![q] = AvailableVotes(p)]
      BY DEF AskTicket, ReadRows
    <3>2. \A x \in Request \ {q} : rows'[x] = rows[x]
      BY <3>1 DEF TypeOK, LocalTypeOK
    <3> QED
      BY <1>1, <3>2 DEF AskTicket, Step, db
  <2>2. CASE AutoRecognise(q)
    BY <1>1, <2>2 DEF AutoRecognise, Recognise, Step
  <2>3. CASE CheckOtp(q) /\ Otps(q) = {given[q]}
    <3>1. \A x \in Request \ {q} : rows'[x] = rows[x]
      BY <2>3 DEF CheckOtp, TypeOK, LocalTypeOK
    <3> QED
      BY <1>1, <2>3, <3>1 DEF CheckOtp, Step, db
  <2>4. CASE CheckOtp(q) /\ Otps(q) # {given[q]}
    BY <1>2, <2>4 DEF CheckOtp, db
  <2>5. CASE GiveTickets(q)
    BY <1>2, <2>5 DEF GiveTickets
  <2> QED
    BY <1>4, <2>1, <2>2, <2>3, <2>4, <2>5 DEF GenerateTicket
<1>5. ASSUME NEW q \in Request, RollChange(q) PROVE RollInv'
  BY <1>5, UploadKeepsRoll, SaveKeepsRoll DEF RollChange
<1>6. ASSUME roll' \subseteq roll, UNCHANGED <<step, rows, overlapped>> PROVE RollInv'
  BY <1>6, RollInvKept
<1>7. CASE Environment \/ UNCHANGED vars
  BY <1>6, <1>7 DEF Environment, CastBallot, CastNothing, TicketUsed, LoseNotice, Expire, RemoveVoter,
                    CloseElections, vars, db, locals
<1> QED
  BY <1>3, <1>4, <1>5, <1>7 DEF Next

LEMMA RollHolds == Spec => [](TypeOK /\ RollInv)
<1>1. Init => RollInv
  BY IssueAssumption DEF Init, RollInv, OncePerRoll
<1>2. Spec => [](TypeOK /\ RowsInv /\ IsFiniteSet(ballots) /\ RollInv)
  BY <1>1, InitRows, NextRows, NextRoll, PTL DEF Spec
<1> QED
  BY <1>2, PTL

(* Uploads that follow one another put nobody on a roll twice, so two      *)
(* ballots of one person in one election need a voter who was taken off    *)
(* the roll and put on it again (ElectionsController.cs:496-514).          *)
THEOREM SecondBallotNeedsRemovalHolds == Spec => []SecondBallotNeedsRemoval
<1>1. TicketInv /\ RollInv => SecondBallotNeedsRemoval
  BY DEF TicketInv, BallotsInv, RollInv, OncePerRoll, SecondBallotNeedsRemoval
<1> QED
  BY <1>1, TicketsHold, RollHolds, PTL

-----------------------------------------------------------------------------
(* The property of the day itself: with nothing uploaded, the rows drawn   *)
(* are those of the initial roll.                                          *)
LEMMA NextDrawn ==
  ASSUME UploadFile = {}
  PROVE  drawn = InitialRoll /\ [Next]_vars => (drawn = InitialRoll)'
<1> SUFFICES ASSUME drawn = InitialRoll, [Next]_vars PROVE drawn' = InitialRoll
  OBVIOUS
<1>1. ASSUME NEW q \in Request, Identification(q) \/ GenerateTicket(q) \/ RollChange(q)
      PROVE  drawn' = drawn
  BY <1>1 DEF Identification, OpenForm, SubmitForm, PublicIdentificationElection,
              SampledIdentification, SaveIdentification, SaveFails, Recognise,
              GenerateTicket, AskTicket, AutoRecognise, CheckOtp, GiveTickets,
              RollChange, SaveUpload, db
<1>2. CASE Environment \/ UNCHANGED vars
  BY <1>2 DEF Environment, CastBallot, CastNothing, TicketUsed, LoseNotice, Expire, RemoveVoter,
              CloseElections, vars, db
<1> QED
  BY <1>1, <1>2 DEF Next

(* Nobody casts two ballots in one election while nothing is uploaded,     *)
(* whoever is removed meanwhile (VoterController.cs:353).                  *)
THEOREM OneBallotPerVoterHolds ==
  ASSUME UploadFile = {}
  PROVE  Spec => []OneBallotPerVoter
<1>1. Init => drawn = InitialRoll
  BY DEF Init
<1>2. drawn = InitialRoll /\ [Next]_vars => (drawn = InitialRoll)'
  BY NextDrawn
<1>3. drawn = InitialRoll /\ TicketInv => OneBallotPerVoter
  BY IssueAssumption DEF TicketInv, BallotsInv, OneBallotPerVoter
<1> QED
  BY <1>1, <1>2, <1>3, TicketsHold, PTL DEF Spec

-----------------------------------------------------------------------------
(* One OTP per voter.                                                      *)

(* Two rows of one person that a ticket would still join, and that are     *)
(* identified together.                                                    *)
Joined(r1, r2) == {r1, r2} \subseteq roll \ vote /\ IdentifiedTogether(r1, r2)

(* A request read both of them or none, and in the same state, whatever    *)
(* was removed or voted for since.                                         *)
ReadsBoth(q) ==
  step[q] \in {"identify", "auto", "check"} =>
    \A r1, r2 \in Row : Joined(r1, r2) =>
      /\ r1 \in rows[q] => r2 \in rows[q]
      /\ r1 \in rows[q] => seen[q][r1] = seen[q][r2]

(* What is uploaded is new: no row comes to the roll that was on it from   *)
(* the start.                                                              *)
UploadsAreNew ==
  /\ InitialRoll \subseteq drawn
  /\ \A q \in Request : step[q] = "upload" => rows[q] \intersect InitialRoll = {}

JointInv ==
  /\ active \in {{}, Election}
  /\ UploadsAreNew
  /\ \A q \in Request : step[q] = "new" => \A r \in Row : seen[q][r] = None
  /\ \A q \in Request : ReadsBoth(q)
  /\ \A r1, r2 \in Row : Joined(r1, r2) => rec[r1] = rec[r2] /\ otp[r1] = otp[r2]

LEMMA TogetherIsSymmetric ==
  ASSUME NEW r1, NEW r2, Joined(r1, r2)
  PROVE  Joined(r2, r1)
BY DEF Joined, IdentifiedTogether

(* Steps that neither recognise nor read rows: no pairs are joined that    *)
(* were not before.                                                        *)
LEMMA JointKept ==
  ASSUME JointInv, UNCHANGED <<rec, otp>>, drawn \subseteq drawn',
         \A r \in InitialRoll : r \in roll' \ vote' => r \in roll \ vote,
         active' \in {{}, Election},
         \A x \in Request :
           /\ step'[x] \in {"new", "identify", "auto", "check"} =>
                step'[x] = step[x] /\ rows'[x] = rows[x] /\ seen'[x] = seen[x]
           /\ step'[x] = "upload" => rows'[x] \intersect InitialRoll = {}
  PROVE  JointInv'
<1>1. \A r1, r2 \in Row : Joined(r1, r2)' => Joined(r1, r2)
  BY DEF Joined, IdentifiedTogether
<1>2. UploadsAreNew'
  BY DEF JointInv, UploadsAreNew
<1>3. \A x \in Request : ReadsBoth(x)'
  BY <1>1 DEF JointInv, ReadsBoth
<1> QED
  BY <1>1, <1>2, <1>3 DEF JointInv

(* The request q reads the rows S: if S has all rows of a person that are  *)
(* joined or none, so has the request.                                     *)
LEMMA JointRead ==
  ASSUME TypeOK, JointInv, NEW q \in Request, NEW s \in {"identify", "auto", "check"},
         Go(q, s), NEW S \in SUBSET Row, rows' = [rows EXCEPT ![q] = S],
         \/ ReadRows(q, S)
         \/ step[q] = "new" /\ UNCHANGED seen,
         UNCHANGED db,
         \A r1, r2 \in Row : Joined(r1, r2) /\ r1 \in S => r2 \in S
  PROVE  JointInv'
<1> USE DEF TypeOK, LocalTypeOK, DbTypeOK
<1>1. /\ step'[q] = s /\ rows'[q] = S
      /\ \/ \A r \in S : seen'[q][r] = rec[r]
         \/ \A r \in S : seen'[q][r] = None
      /\ \A x \in Request \ {q} :
           step'[x] = step[x] /\ rows'[x] = rows[x] /\ seen'[x] = seen[x]
  BY DEF Go, ReadRows, JointInv
<1>2. \A r1, r2 \in Row : Joined(r1, r2)' <=> Joined(r1, r2)
  BY DEF Joined, db
<1>3. ReadsBoth(q)'
  BY <1>1, <1>2 DEF ReadsBoth, JointInv
<1>4. \A x \in Request \ {q} : ReadsBoth(x)'
  BY <1>1, <1>2 DEF ReadsBoth, JointInv
<1>5. UploadsAreNew'
  BY <1>1 DEF UploadsAreNew, JointInv, db
<1> QED
  BY <1>1, <1>2, <1>3, <1>4, <1>5 DEF JointInv, db

(* A save gives the rows of a person that are joined the same OTP, or none *)
(* of them.                                                                *)
LEMMA JointRecognise ==
  ASSUME TypeOK, JointInv, NEW q \in Request, step[q] \in {"identify", "auto"},
         NEW o, Recognise(q, o),
         \A x \in Request \ {q} :
           step'[x] = step[x] /\ rows'[x] = rows[x] /\ seen'[x] = seen[x],
         \/ step'[q] = "answered"
         \/ /\ step'[q] = "check" /\ rows'[q] = rows[q]
            /\ \A r \in Row : seen'[q][r] = IF r \in NewFor(q) THEN q ELSE seen[q][r]
  PROVE  JointInv'
<1> USE DEF TypeOK, LocalTypeOK, DbTypeOK
<1>1. \A r1, r2 \in Row : Joined(r1, r2)' <=> Joined(r1, r2)
  BY DEF Joined, Recognise
<1>2. ASSUME NEW r1 \in Row, NEW r2 \in Row, Joined(r1, r2)
      PROVE  /\ r1 \in NewFor(q) <=> r2 \in NewFor(q)
             /\ r1 \in Reached(q) <=> r2 \in Reached(q)
             /\ r1 \in rows[q] => r2 \in rows[q] /\ seen[q][r1] = seen[q][r2]
  <2>1. Joined(r2, r1)
    BY <1>2, TogetherIsSymmetric
  <2>2. rec[r1] = rec[r2]
    BY <1>2 DEF JointInv
  <2>3. /\ r1 \in rows[q] <=> r2 \in rows[q]
        /\ r1 \in rows[q] => seen[q][r1] = seen[q][r2]
    BY <1>2, <2>1 DEF JointInv, ReadsBoth
  <2> QED
    BY <2>2, <2>3 DEF NewFor, Reached
<1>3. ASSUME NEW r1 \in Row, NEW r2 \in Row, Joined(r1, r2)
      PROVE  rec'[r1] = rec'[r2] /\ otp'[r1] = otp'[r2]
  BY <1>2, <1>3 DEF Recognise, JointInv
<1>4. \A x \in Request \ {q} : ReadsBoth(x)'
  BY <1>1 DEF ReadsBoth, JointInv
<1>5. ReadsBoth(q)'
  BY <1>1, <1>2 DEF ReadsBoth
<1>6. active' = active /\ \A r1, r2 \in Row : Joined(r1, r2)' => rec'[r1] = rec'[r2] /\ otp'[r1] = otp'[r2]
  BY <1>1, <1>3 DEF Recognise
<1>7. UploadsAreNew'
  BY DEF UploadsAreNew, JointInv, Recognise
<1>8. \A x \in Request : step'[x] = "new" => \A r \in Row : seen'[x][r] = None
  BY DEF JointInv
<1> QED
  BY <1>4, <1>5, <1>6, <1>7, <1>8 DEF JointInv

(* What the handlers read.                                                 *)
LEMMA AvailableIsJoint ==
  ASSUME TypeOK, JointInv, NEW p, AvailableVotes(p) # {},
         NEW r1 \in Row, NEW r2 \in Row, Joined(r1, r2), r1 \in AvailableVotes(p)
  PROVE  r2 \in AvailableVotes(p)
BY IssueAssumption DEF AvailableVotes, Joined, IdentifiedTogether, JointInv

LEMMA AllowedIsJoint ==
  ASSUME TypeOK, JointInv, NEW c \in Officer, NEW p,
         NEW r1 \in Row, NEW r2 \in Row, Joined(r1, r2), r1 \in AllowedVotes(c, p)
  PROVE  r2 \in AllowedVotes(c, p)
<1>1. ElectionOf[r1] \in Election /\ ElectionOf[r2] \in Election
  BY IssueAssumption
<1>2. PersonOf[r2] = PersonOf[r1] /\ r2 \in roll
  BY DEF Joined, IdentifiedTogether
<1>3. ElectionOf[r2] \in ElectionsFor(c) <=> ElectionOf[r1] \in ElectionsFor(c)
  BY <1>1 DEF ElectionsFor, Joined, IdentifiedTogether, JointInv
<1> QED
  BY <1>2, <1>3 DEF AllowedVotes

LEMMA PublicIsJoint ==
  ASSUME TypeOK, JointInv, NEW c \in Officer,
         NEW r1 \in Row, NEW r2 \in Row, Joined(r1, r2),
         ElectionOf[r1] \in Commission[c] \intersect active \intersect PublicElection
  PROVE  ElectionOf[r2] \in Commission[c] \intersect active \intersect PublicElection
<1>1. ElectionOf[r1] \in Election /\ ElectionOf[r2] \in Election
  BY IssueAssumption
<1> QED
  BY <1>1 DEF JointInv, Joined, IdentifiedTogether

(* A form was opened by an officer, who submits it.                        *)
OfficerInv == \A q \in Request : step[q] = "form" => officer[q] \in Officer

LEMMA NextOfficer == TypeOK /\ OfficerInv /\ [Next]_vars => OfficerInv'
<1> SUFFICES ASSUME TypeOK, OfficerInv, [Next]_vars PROVE OfficerInv'
  OBVIOUS
<1> USE DEF TypeOK, LocalTypeOK, OfficerInv, Go
<1>1. ASSUME NEW q \in Request, Identification(q) PROVE OfficerInv'
  BY <1>1 DEF Identification, OpenForm, SubmitForm, PublicIdentificationElection,
              SampledIdentification, SaveIdentification, SaveFails, Answer
<1>2. ASSUME NEW q \in Request, GenerateTicket(q) PROVE OfficerInv'
  BY <1>2 DEF GenerateTicket, AskTicket, AutoRecognise, CheckOtp, GiveTickets, Answer
<1>3. ASSUME NEW q \in Request, RollChange(q) PROVE OfficerInv'
  BY <1>3 DEF RollChange, VotersBulkUpload, SaveUpload, Answer
<1>4. CASE Environment \/ UNCHANGED vars
  BY <1>4 DEF Environment, CastBallot, CastNothing, TicketUsed, LoseNotice, Expire, RemoveVoter,
              CloseElections, vars, locals
<1> QED
  BY <1>1, <1>2, <1>3, <1>4 DEF Next

LEMMA NextJoint ==
  TypeOK /\ RowsInv /\ OfficerInv /\ JointInv /\ [Next]_vars => JointInv'
<1> SUFFICES ASSUME TypeOK, RowsInv, OfficerInv, JointInv, [Next]_vars PROVE JointInv'
  OBVIOUS
<1>1. ASSUME NEW q \in Request, NEW s \in {"form", "issue", "answered", "tooManyOtps"},
             Go(q, s), UNCHANGED <<roll, drawn, vote, rec, otp, active>>,
             \A x \in Request \ {q} : rows'[x] = rows[x] /\ seen'[x] = seen[x]
      PROVE  JointInv'
  <2>1. \A x \in Request : step'[x] = IF x = q THEN s ELSE step[x]
    BY <1>1 DEF Go, TypeOK, LocalTypeOK
  <2>2. /\ active' \in {{}, Election}
        /\ \A x \in Request : step[x] = "upload" => rows[x] \intersect InitialRoll = {}
    BY <1>1 DEF JointInv, UploadsAreNew
  <2> QED
    BY <1>1, <2>1, <2>2, JointKept
<1>2. ASSUME NEW q \in Request, NEW s \in Step, Answer(q, s)
      PROVE  /\ step'[q] = s
             /\ \A x \in Request \ {q} :
                  step'[x] = step[x] /\ rows'[x] = rows[x] /\ seen'[x] = seen[x]
  BY <1>2 DEF Answer, Go, TypeOK, LocalTypeOK
<1>3. ASSUME NEW q \in Request, NEW s \in {"answered", "tooManyOtps"}, Answer(q, s),
             UNCHANGED <<roll, drawn, vote, rec, otp, active>>
      PROVE  JointInv'
  <2>1. s \in Step
    BY DEF Step
  <2> QED
    BY <1>1, <1>2, <1>3, <2>1 DEF Answer
<1>4. ASSUME NEW q \in Request, Identification(q) PROVE JointInv'
  <2>1. CASE \E c \in Officer, p \in Person : OpenForm(q, c, p)
    BY <1>1, <2>1 DEF OpenForm, Step, db
  <2>2. CASE SubmitForm(q)
    <3>1. officer[q] \in Officer /\ AllowedVotes(officer[q], voter[q]) \in SUBSET Row
      BY <2>2, AllowedAreRows DEF SubmitForm, OfficerInv, TypeOK
    <3> QED
      BY <2>2, <3>1, JointRead, AllowedIsJoint DEF SubmitForm, ReadRows
  <2>3. ASSUME NEW c \in Officer, PublicIdentificationElection(q, c) PROVE JointInv'
    <3> DEFINE S == {r \in roll : ElectionOf[r] \in
                       Commission[c] \intersect active \intersect PublicElection}
    <3>1. S \in SUBSET Row
      BY DEF TypeOK, DbTypeOK
    <3>2. \A r1, r2 \in Row : Joined(r1, r2) /\ r1 \in S => r2 \in S
      BY PublicIsJoint DEF Joined
    <3>3. ReadRows(q, S) /\ Go(q, "identify") /\ UNCHANGED db
      BY <2>3 DEF PublicIdentificationElection
    <3>4. rows' = [rows EXCEPT ![q] = S]
      BY <3>3 DEF ReadRows
    <3> HIDE DEF S
    <3> QED
      BY <3>1, <3>2, <3>3, <3>4, JointRead
  <2>4. ASSUME NEW p \in Person, SampledIdentification(q, p) PROVE JointInv'
    <3>1. AvailableVotes(p) \in SUBSET Row
      BY AllowedAreRows DEF TypeOK
    <3> QED
      BY <2>4, <3>1, JointRead, AvailableIsJoint DEF SampledIdentification, ReadRows
  <2>5. CASE SaveIdentification(q)
    <3>1. "answered" \in Step
      BY DEF Step
    <3> QED
      BY <2>5, <1>2, <3>1, JointRecognise DEF SaveIdentification
  <2>6. CASE SaveFails(q)
    BY <1>3, <2>6 DEF SaveFails, db
  <2> QED
    BY <1>4, <2>1, <2>2, <2>3, <2>4, <2>5, <2>6 DEF Identification
<1>5. ASSUME NEW q \in Request, GenerateTicket(q) PROVE JointInv'
  <2>1. ASSUME NEW p \in Person, NEW o \in Otp, AskTicket(q, p, o) PROVE JointInv'
    <3>1. AvailableVotes(p) \in SUBSET Row
      BY AllowedAreRows DEF TypeOK
    <3>2. \E s \in {"auto", "check"} : Go(q, s)
      BY <2>1 DEF AskTicket
    <3>3. rows' = [rows EXCEPT ![q] = AvailableVotes(p)]
      BY <2>1 DEF AskTicket, ReadRows
    <3> QED
      BY <2>1, <3>1, <3>2, <3>3, JointRead, AvailableIsJoint DEF AskTicket
  <2>2. CASE AutoRecognise(q)
    <3>1. /\ step'[q] = "check" /\ rows'[q] = rows[q]
          /\ \A r \in Row : seen'[q][r] = IF r \in NewFor(q) THEN q ELSE seen[q][r]
          /\ \A x \in Request \ {q} :
               step'[x] = step[x] /\ rows'[x] = rows[x] /\ seen'[x] = seen[x]
      BY <2>2 DEF AutoRecognise, Go, TypeOK, LocalTypeOK
    <3> QED
      BY <2>2, <3>1, JointRecognise DEF AutoRecognise
  <2>3. CASE CheckOtp(q) /\ Otps(q) = {given[q]}
    <3>1. \A x \in Request \ {q} : rows'[x] = rows[x] /\ seen'[x] = seen[x]
      BY <2>3 DEF CheckOtp, TypeOK, LocalTypeOK
    <3> QED
      BY <1>1, <2>3, <3>1 DEF CheckOtp, Step, db
  <2>4. CASE CheckOtp(q) /\ Otps(q) # {given[q]}
    BY <1>3, <2>4 DEF CheckOtp, db
  <2>5. CASE GiveTickets(q)
    BY <1>3, <2>5 DEF GiveTickets
  <2> QED
    BY <1>5, <2>1, <2>2, <2>3, <2>4, <2>5 DEF GenerateTicket
<1>6. ASSUME NEW q \in Request, RollChange(q) PROVE JointInv'
  <2>1. ASSUME NEW e \in Election, NEW file \in UploadFile, NEW S \in SUBSET Row,
               VotersBulkUpload(q, e, file, S)
        PROVE  JointInv'
    <3>1. /\ \A x \in Request : step'[x] = IF x = q THEN "upload" ELSE step[x]
          /\ \A x \in Request : rows'[x] = IF x = q THEN S ELSE rows[x]
      BY <2>1 DEF VotersBulkUpload, Go, TypeOK, LocalTypeOK
    <3>2. S \intersect InitialRoll = {} /\ active' \in {{}, Election}
      BY <2>1 DEF VotersBulkUpload, JointInv, UploadsAreNew
    <3>3. \A x \in Request : step'[x] = "upload" => rows'[x] \intersect InitialRoll = {}
      BY <3>1, <3>2 DEF JointInv, UploadsAreNew
    <3>4. UNCHANGED <<roll, vote, rec, otp, seen>> /\ drawn \subseteq drawn'
      BY <2>1 DEF VotersBulkUpload
    <3> QED
      BY <3>1, <3>2, <3>3, <3>4, JointKept
  <2>2. CASE SaveUpload(q)
    <3>1. /\ \A x \in Request : step'[x] = IF x = q THEN "answered" ELSE step[x]
          /\ \A x \in Request \ {q} : rows'[x] = rows[x] /\ seen'[x] = seen[x]
      BY <2>2 DEF SaveUpload, Answer, Go, TypeOK, LocalTypeOK
    <3>2. rows[q] \intersect InitialRoll = {} /\ active' \in {{}, Election}
      BY <2>2 DEF SaveUpload, JointInv, UploadsAreNew
    <3>3. \A r \in InitialRoll : r \in roll' \ vote' => r \in roll \ vote
      BY <2>2, <3>2 DEF SaveUpload
    <3>4. \A x \in Request : step'[x] = "upload" => rows'[x] \intersect InitialRoll = {}
      BY <3>1 DEF JointInv, UploadsAreNew
    <3>5. UNCHANGED <<drawn, rec, otp>>
      BY <2>2 DEF SaveUpload
    <3> QED
      BY <3>1, <3>2, <3>3, <3>4, <3>5, JointKept
  <2> QED
    BY <1>6, <2>1, <2>2 DEF RollChange
<1>7. ASSUME roll' \subseteq roll, vote \subseteq vote', active' \in {active, {}},
             UNCHANGED <<drawn, rec, otp, step, locals>>
      PROVE  JointInv'
  <2>1. /\ active' \in {{}, Election}
        /\ \A x \in Request : step[x] = "upload" => rows[x] \intersect InitialRoll = {}
    BY <1>7 DEF JointInv, UploadsAreNew
  <2> QED
    BY <1>7, <2>1, JointKept DEF locals
<1>8. CASE Environment \/ UNCHANGED vars
  <2>1. /\ roll' \subseteq roll /\ vote \subseteq vote' /\ active' \in {active, {}}
        /\ UNCHANGED <<drawn, rec, otp, step, locals>>
    BY <1>8 DEF Environment, CastBallot, CastNothing, TicketUsed, LoseNotice, Expire, RemoveVoter,
                CloseElections, vars, db
  <2> QED
    BY <1>7, <2>1
<1> QED
  BY <1>4, <1>5, <1>6, <1>8 DEF Next

LEMMA JointHolds == Spec => [](TypeOK /\ RowsInv /\ JointInv)
<1>1. Init => JointInv /\ OfficerInv
  BY DEF Init, JointInv, OfficerInv, ReadsBoth, UploadsAreNew
<1>2. TypeOK /\ RowsInv /\ OfficerInv /\ JointInv /\ [Next]_vars => JointInv'
  BY NextJoint
<1>3. Spec => [](TypeOK /\ RowsInv /\ IsFiniteSet(ballots))
  BY InitRows, NextRows, PTL DEF Spec
<1> QED
  BY <1>1, <1>2, <1>3, NextOfficer, PTL DEF Spec

(* Rows that are identified together always carry one OTP, however         *)
(* identifications by officers, by mail and by login overlap, whatever     *)
(* other elections there are and whatever is uploaded meanwhile            *)
(* (PSCommissionController.cs:304).                                        *)
THEOREM OneOtpPerVoterHolds == Spec => []OneOtpPerVoter
<1>1. TypeOK /\ JointInv => OneOtpPerVoter
  BY DEF TypeOK, DbTypeOK, JointInv, Joined, OneOtpPerVoter
<1> QED
  BY <1>1, JointHolds, PTL

(* A generation that is about to compare the OTPs of rows all of which are *)
(* identified together finds at most one.                                  *)
LEMMA OneOtpRead ==
  ASSUME TypeOK, RowsInv, JointInv, NEW q \in Request, step[q] = "check",
         \A r1, r2 \in CkVotes(q) : IdentifiedTogether(r1, r2)
  PROVE  Cardinality(Otps(q)) \in Nat /\ Cardinality(Otps(q)) =< 1
<1>1. ASSUME NEW r1 \in CkVotes(q), NEW r2 \in CkVotes(q)
      PROVE  OtpRead(q, r1) = OtpRead(q, r2)
  <2>1. r1 \in Row /\ r2 \in Row /\ r1 \in rows[q] /\ r2 \in rows[q]
    BY DEF CkVotes, TypeOK, DbTypeOK
  <2>2. Joined(r1, r2)
    BY DEF Joined, CkVotes
  <2>3. rec[r1] = rec[r2] /\ otp[r1] = otp[r2] /\ seen[q][r1] = seen[q][r2]
    BY <2>1, <2>2 DEF JointInv, ReadsBoth
  <2> QED
    BY <2>3 DEF OtpRead
<1>2. CASE CkVotes(q) = {}
  <2>1. Otps(q) = {}
    BY <1>2 DEF Otps
  <2> QED
    BY <2>1, FS_EmptySet
<1>3. ASSUME NEW r \in CkVotes(q)
      PROVE  Cardinality(Otps(q)) = 1
  <2>1. Otps(q) = {OtpRead(q, r)}
    BY <1>1, <1>3 DEF Otps
  <2> QED
    BY <2>1, FS_Singleton
<1> QED
  BY <1>2, <1>3

(* Nothing but the check of the OTPs answers that there are too many.      *)
LEMMA TooManyIsFound ==
  ASSUME TypeOK, Next, NEW q \in Request,
         step[q] # "tooManyOtps", step'[q] = "tooManyOtps"
  PROVE  CheckOtp(q) /\ Cardinality(Otps(q)) > 1
<1> USE DEF TypeOK, LocalTypeOK
<1>1. ASSUME NEW x \in Request, NEW s, Go(x, s)
      PROVE  x = q /\ s = "tooManyOtps"
  BY <1>1 DEF Go
<1>2. \A x \in Request : ~Identification(x)
  <2> SUFFICES ASSUME NEW x \in Request, Identification(x) PROVE FALSE
    OBVIOUS
  <2>1. \/ Go(x, "form") \/ Go(x, "identify")
        \/ SaveIdentification(x) \/ SaveFails(x)
    BY DEF Identification, OpenForm, SubmitForm, PublicIdentificationElection,
           SampledIdentification
  <2>2. Go(x, "form") \/ Go(x, "identify") \/ Go(x, "answered")
    BY <2>1 DEF SaveIdentification, SaveFails, Answer
  <2> QED
    BY <1>1, <2>2
<1>3. \A x \in Request : ~RollChange(x)
  BY <1>1 DEF RollChange, VotersBulkUpload, SaveUpload, Answer
<1>4. ~Environment
  BY DEF Environment, CastBallot, CastNothing, TicketUsed, LoseNotice, Expire,
         RemoveVoter, CloseElections
<1>5. PICK x \in Request : GenerateTicket(x)
  BY <1>2, <1>3, <1>4 DEF Next
<1>6. CheckOtp(x)
  BY <1>1, <1>5 DEF GenerateTicket, AskTicket, AutoRecognise, GiveTickets, Answer
<1>7. CASE Otps(x) = {given[x]}
  <2>1. Go(x, "issue")
    BY <1>6, <1>7 DEF CheckOtp
  <2> QED
    BY <1>1, <2>1
<1>8. CASE Otps(x) # {given[x]}
  <2>1. CASE Cardinality(Otps(x)) > 1
    <3>1. Go(x, "tooManyOtps")
      BY <1>6, <1>8, <2>1 DEF CheckOtp, Answer
    <3> QED
      BY <1>1, <1>6, <2>1, <3>1
  <2>2. CASE ~(Cardinality(Otps(x)) > 1)
    <3>1. Go(x, "answered")
      BY <1>6, <1>8, <2>2 DEF CheckOtp, Answer
    <3> QED
      BY <1>1, <3>1
  <2> QED
    BY <2>1, <2>2
<1> QED
  BY <1>7, <1>8

(* "Too many Otps for ticket generation" (VoterController.cs:343-345) is   *)
(* answered only when the request joins two rows that are not identified   *)
(* together, though it reads the votes some time before it looks at their  *)
(* OTPs, and may have sent one itself.                                     *)
THEOREM TooManyOtpsHasCause ==
  Spec => [][\A q \in Request :
               step[q] # "tooManyOtps" /\ step'[q] = "tooManyOtps" =>
                 \E r1, r2 \in CkVotes(q) : ~IdentifiedTogether(r1, r2)]_vars
<1>1. ASSUME TypeOK, RowsInv, JointInv, Next, NEW q \in Request,
             step[q] # "tooManyOtps", step'[q] = "tooManyOtps"
      PROVE  \E r1, r2 \in CkVotes(q) : ~IdentifiedTogether(r1, r2)
  <2>1. CheckOtp(q) /\ Cardinality(Otps(q)) > 1
    BY <1>1, TooManyIsFound
  <2>2. step[q] = "check"
    BY <2>1 DEF CheckOtp
  <2>3. SUFFICES ASSUME \A r1, r2 \in CkVotes(q) : IdentifiedTogether(r1, r2)
                 PROVE  FALSE
    OBVIOUS
  <2>4. Cardinality(Otps(q)) \in Nat /\ Cardinality(Otps(q)) =< 1
    BY <1>1, <2>2, <2>3, OneOtpRead
  <2> QED
    BY <2>1, <2>4
<1>2. TypeOK /\ RowsInv /\ JointInv /\ [Next]_vars =>
        [\A q \in Request :
           step[q] # "tooManyOtps" /\ step'[q] = "tooManyOtps" =>
             \E r1, r2 \in CkVotes(q) : ~IdentifiedTogether(r1, r2)]_vars
  BY <1>1
<1> QED
  BY <1>2, JointHolds, PTL DEF Spec
-----------------------------------------------------------------------------
(* The voting system as this module has it.                                *)

(* A ballot is in the box in one step, and the roll shows the votes.       *)
Service ==
  INSTANCE VotingService
    WITH Ticket <- Row, spent <- Spent, stored <- Spent, empty <- empty,
         notices <- notices, recorded <- vote

(* All the voting system does here, and all TicketUsed records, is what a  *)
(* voting service does, which is all that the election system sees of      *)
(* VoteCasting too.                                                        *)
ServiceHolds == Service!SSpec

LEMMA CastIsService ==
  ASSUME TypeOK, NEW p \in Person, NEW b \in wallet[p], NEW t \in b, CastBallot(p, b, t)
  PROVE  Service!SNext
<1> DEFINE new == [voter |-> p, hash |-> t.hash, election |-> t.election,
                   nr |-> Cardinality(ballots)]
<1>1. PICK h : h = t.hash
  OBVIOUS
<1>2. h \in Row /\ h \notin Spent
  BY <1>1 DEF TypeOK, VsTypeOK, Ticket, CastBallot
<1>3. /\ ballots' = ballots \union {new} /\ notices' = notices \union {h}
      /\ vote' = vote /\ empty' = empty
  BY <1>1 DEF CastBallot, db
<1>4. Spent' = Spent \union {h}
  <2>1. new.hash = h
    BY <1>1
  <2> HIDE DEF new
  <2> QED
    BY <1>3, <2>1 DEF Spent
<1>5. Service!Spend(h)
  BY <1>2, <1>3, <1>4 DEF Service!Spend, Spent
<1> QED
  BY <1>2, <1>5 DEF Service!SNext

LEMMA NothingIsService ==
  ASSUME TypeOK, NEW p \in Person, NEW b \in wallet[p], NEW t \in b, CastNothing(p, b, t)
  PROVE  Service!SNext
<1>1. PICK h : h = t.hash
  OBVIOUS
<1>2. h \in Row /\ h \notin Spent
  BY <1>1 DEF TypeOK, VsTypeOK, Ticket, CastNothing
<1>3. /\ empty' = empty \union {h} /\ notices' = notices \union {h}
      /\ UNCHANGED <<Spent, vote>>
  BY <1>1 DEF CastNothing, db, Spent
<1>4. Service!Announce(h)
  BY <1>2, <1>3 DEF Service!Announce
<1> QED
  BY <1>2, <1>4 DEF Service!SNext

LEMMA NoticeIsService ==
  ASSUME TypeOK, TicketInv, NEW h \in notices, TicketUsed(h) \/ LoseNotice(h)
  PROVE  Service!SNext
<1>1. h \in Row /\ h \in Spent \union empty
  BY DEF TypeOK, VsTypeOK, TicketInv, VoteInv
<1>2. Spent' = Spent /\ empty' = empty
  BY DEF TicketUsed, LoseNotice, Spent
<1>3. CASE TicketUsed(h)
  <2>1. VotesOf(h) = {h}
    BY <1>1, <1>3, IssueAssumption
       DEF VotesOf, TicketUsed, TicketInv, IssuedInv, TypeOK, DbTypeOK
  <2>2. vote' = vote \union {h} /\ notices' \subseteq notices
    BY <1>3, <2>1 DEF TicketUsed
  <2>3. Service!TicketUsed(h)
    BY <1>1, <1>2, <2>2 DEF Service!TicketUsed
  <2> QED
    BY <1>1, <2>3 DEF Service!SNext
<1>4. CASE LoseNotice(h)
  <2>1. notices' \subseteq notices /\ vote' = vote
    BY <1>4 DEF LoseNotice, db
  <2>2. Service!Lose
    BY <1>2, <2>1 DEF Service!Lose
  <2> QED
    BY <2>1, <2>2 DEF Service!SNext
<1> QED
  BY <1>3, <1>4

LEMMA ServiceStep ==
  TypeOK /\ TicketInv /\ [Next]_vars => [Service!SNext]_(Service!svcvars)
<1> SUFFICES ASSUME TypeOK, TicketInv, [Next]_vars
             PROVE  Service!SNext \/ UNCHANGED Service!svcvars
  OBVIOUS
<1>1. CASE \E p \in Person : \E b \in wallet[p] : \E t \in b :
             CastBallot(p, b, t) \/ CastNothing(p, b, t)
  BY <1>1, CastIsService, NothingIsService
<1>2. CASE \E h \in notices : TicketUsed(h) \/ LoseNotice(h)
  BY <1>2, NoticeIsService
<1>3. ASSUME UNCHANGED <<vote, ballots, empty, notices>>
      PROVE  UNCHANGED Service!svcvars
  BY <1>3 DEF Service!svcvars, Spent
<1>4. ASSUME NEW q \in Request, Identification(q)
      PROVE  UNCHANGED <<vote, ballots, empty, notices>>
  BY <1>4 DEF Identification, OpenForm, SubmitForm, PublicIdentificationElection,
              SampledIdentification, SaveIdentification, SaveFails, Recognise, db, vs
<1>5. ASSUME NEW q \in Request, GenerateTicket(q)
      PROVE  UNCHANGED <<vote, ballots, empty, notices>>
  BY <1>5 DEF GenerateTicket, AskTicket, AutoRecognise, CheckOtp, GiveTickets,
              Recognise, db, vs
<1>6. ASSUME NEW q \in Request, RollChange(q)
      PROVE  UNCHANGED <<vote, ballots, empty, notices>>
  BY <1>6 DEF RollChange, VotersBulkUpload, SaveUpload, vs
<1>7. CASE \/ \E r \in valid : Expire(r)
           \/ \E r \in roll : RemoveVoter(r)
           \/ CloseElections
           \/ UNCHANGED vars
  BY <1>3, <1>7 DEF Expire, RemoveVoter, CloseElections, vars, db, vs
<1> QED
  BY <1>1, <1>2, <1>3, <1>4, <1>5, <1>6, <1>7 DEF Next, Environment

(* The voting system that issue and identification live with is a voting   *)
(* service, like the one of VoteCasting (VoteController.cs:185-254,        *)
(* EligereESAPI.cs:525-545).                                               *)
THEOREM ServiceRefined == Spec => ServiceHolds
<1>1. Init => Service!SInit
  BY DEF Init, Service!SInit, Spent
<1> QED
  BY <1>1, ServiceStep, TicketsHold, PTL DEF Spec, ServiceHolds, Service!SSpec
=============================================================================
