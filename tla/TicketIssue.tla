----------------------------- MODULE TicketIssue -----------------------------
(***************************************************************************)
(* The voter's path through the election system (src/EligereES): the roll  *)
(* of an election, the identification of a voter by a commissioner         *)
(* (PSCommissionController), by mail or by the login itself                *)
(* (VoterController), the voting tickets, and the notice of a used ticket  *)
(* that comes back from the voting system (EligereESAPI.TicketUsed).       *)
(*                                                                         *)
(* Every handler reads rows of the database, computes, and saves them in   *)
(* one transaction; nothing locks the rows in between and no column is a   *)
(* concurrency token, so a handler is a reading step and a saving step and *)
(* other handlers come between.  A save that updates a voter row deleted   *)
(* meanwhile raises an exception and saves nothing.                        *)
(*                                                                         *)
(* A row of the table Voter puts a person on the roll of an election; its  *)
(* id is a new Guid, so Row is the set of ids that may be drawn, each with *)
(* the person and the election it is drawn for.  The elections belong to   *)
(* one group (GetElections and GetElectionData refuse anything else) and   *)
(* are already active: ElectionControl activates all of a commission's     *)
(* elections in one save.                                                  *)
(***************************************************************************)
EXTENDS Naturals, FiniteSets

CONSTANTS
  Request,         \* the HTTP requests, each answered once
  Person,          \* the people known to the system
  Election,        \* the elections of the day
  Row,             \* ids of Voter rows
  PersonOf,        \* PersonOf[r]: the person of row r (Person_FK)
  ElectionOf,      \* ElectionOf[r]: the election of row r (Election_FK)
  InitialRoll,     \* the rows uploaded before the elections started
  Officer,         \* the commissioners
  Commission,      \* Commission[c]: the elections whose commissions c sits on
  RemoteOfficer,   \* those with the role RemoteIdentificationOfficer
  PublicElection,  \* elections with IdentificationType Public
  SampledElection, \* with type Sampling, or Individual and SamplingRate > 0
  AutoElection,    \* with type Individual(AndSPID) and SamplingRate 2
  SpidElection,    \* with type IndividualAndSPID
  SpidUser,        \* the people who log in with SPID
  BlankRow,        \* the rows whose voter may send an empty list of preferences
  UploadFile,      \* the lists of people an officer may upload
  Otp,             \* what GenerateOTP returns
  None             \* the null of a column or of a local variable

ASSUME IssueAssumption ==
  /\ PersonOf \in [Row -> Person]
  /\ ElectionOf \in [Row -> Election]
  /\ InitialRoll \subseteq Row
  /\ \A r1, r2 \in InitialRoll :
       PersonOf[r1] = PersonOf[r2] /\ ElectionOf[r1] = ElectionOf[r2] => r1 = r2
  /\ Commission \in [Officer -> SUBSET Election]
  /\ None \notin Request \union Person \union Officer \union Row \union Otp

VARIABLES
  roll,       \* the Voter rows in the database
  drawn,      \* the row ids ever drawn
  rec,        \* rec[r]: RecognitionFk, named after the request that created it
  otp,        \* otp[r]: the Otp of that recognition
  valid,      \* the rows whose recognition is not past its Validity
  issued,     \* issued[r]: the Hash of the VotingTicket r refers to
  vote,       \* the rows with a value in the column Vote
  active,     \* the elections that are active
  step,       \* where each request is
  officer,    \* the commissioner who makes the request
  voter,      \* the person the request is about
  given,      \* the OTP a voter sent
  rows,       \* the rows a request read
  seen,       \* seen[q][r]: the RecognitionFk it read in row r
  wallet,     \* wallet[p]: the ticket lists p received
  ballots,    \* the ballots in the voting system, with who cast them (history)
  empty,      \* the hashes an empty list was accepted with (history)
  notices,    \* the hashes the voting system has to notify
  overlapped  \* history: two uploads of a roll overlapped in time

db == <<roll, drawn, rec, otp, valid, issued, vote, active>>
locals == <<officer, voter, given, rows, seen>>
vs == <<wallet, ballots, empty, notices>>
vars == <<db, step, locals, vs, overlapped>>

-----------------------------------------------------------------------------
(* ComputeSha256Hash(Voter.Id + ":" + PersonFk): one hash per row.         *)
HashPerTicket(q, r) == <<q, r>>  \* mutant: a new hash for every ticket

Hash(q, r) == r

(* The entries of the ticket list that is encrypted for the voting system. *)
TicketsFor(q, S) == {[hash |-> Hash(q, r), election |-> ElectionOf[r]] : r \in S}

(* The rows of p an officer identifies p for; a remote identification      *)
(* officer is not limited to the active elections.                         *)
ElectionsFor(c) == IF c \in RemoteOfficer THEN Commission[c]
                   ELSE Commission[c] \intersect active

AllowedVotes(c, p) ==
  {r \in roll : PersonOf[r] = p /\ ElectionOf[r] \in ElectionsFor(c)}

(* availableVotes of GenerateTicket.                                       *)
AvailableVotes(p) ==
  {r \in roll : PersonOf[r] = p /\ ElectionOf[r] \in active /\ r \notin vote}

(* The login of p identifies p.                                            *)
StrongLogin(p) ==
  \E r \in roll : /\ PersonOf[r] = p
                  /\ \/ ElectionOf[r] \in AutoElection
                     \/ p \in SpidUser /\ ElectionOf[r] \in SpidElection

Ticket == [hash: Row, election: Election]

Step == {"new", "form", "identify", "auto", "check", "issue", "upload",
         "answered", "tooManyOtps"}

DbTypeOK ==
  /\ roll \subseteq drawn /\ drawn \subseteq Row
  /\ rec \in [Row -> Request \union {None}]
  /\ otp \in [Row -> Otp \union {None}]
  /\ valid \subseteq Row
  /\ issued \in [Row -> Row \union {None}]
  /\ vote \subseteq Row
  /\ active \subseteq Election
  /\ overlapped \in BOOLEAN

LocalTypeOK ==
  /\ step \in [Request -> Step]
  /\ officer \in [Request -> Officer \union {None}]
  /\ voter \in [Request -> Person \union {None}]
  /\ given \in [Request -> Otp \union {None}]
  /\ rows \in [Request -> SUBSET Row]
  /\ seen \in [Request -> [Row -> Request \union {None}]]

VsTypeOK ==
  /\ wallet \in [Person -> SUBSET SUBSET Ticket]
  /\ ballots \subseteq [voter: Person, hash: Row, election: Election, nr: Nat]
  /\ empty \subseteq Row
  /\ notices \subseteq Row

(* Type invariant: rows, requests and what crosses between the two systems.*)
TypeOK == DbTypeOK /\ LocalTypeOK /\ VsTypeOK

Init ==
  /\ roll = InitialRoll
  /\ drawn = InitialRoll
  /\ rec = [r \in Row |-> None]
  /\ otp = [r \in Row |-> None]
  /\ valid = {}
  /\ issued = [r \in Row |-> None]
  /\ vote = {}
  /\ active = Election
  /\ step = [q \in Request |-> "new"]
  /\ officer = [q \in Request |-> None]
  /\ voter = [q \in Request |-> None]
  /\ given = [q \in Request |-> None]
  /\ rows = [q \in Request |-> {}]
  /\ seen = [q \in Request |-> [r \in Row |-> None]]
  /\ wallet = [p \in Person |-> {}]
  /\ ballots = {}
  /\ empty = {}
  /\ notices = {}
  /\ overlapped = FALSE

-----------------------------------------------------------------------------
(* How a request reads and ends.                                           *)

Go(q, s) == step' = [step EXCEPT ![q] = s]

(* It loads the rows S with their recognitions, which it will save.        *)
ReadRows(q, S) ==
  /\ rows' = [rows EXCEPT ![q] = S]
  /\ seen' = [seen EXCEPT ![q] = [r \in Row |-> IF r \in S THEN rec[r] ELSE None]]

(* It ends with the answer s, and its local state with it.                 *)
Answer(q, s) ==
  /\ Go(q, s)
  /\ officer' = [officer EXCEPT ![q] = None]
  /\ voter' = [voter EXCEPT ![q] = None]
  /\ given' = [given EXCEPT ![q] = None]
  /\ rows' = [rows EXCEPT ![q] = {}]
  /\ seen' = [seen EXCEPT ![q] = [r \in Row |-> None]]

(* The one transaction that gives the rows it read the OTP o: a row read   *)
(* without a recognition gets a new one, which fails when the row is gone; *)
(* otherwise the recognition it read changes, which may no longer be the   *)
(* one the row refers to.                                                  *)
NewFor(q) == {r \in rows[q] : seen[q][r] = None}

MaySave(q) == NewFor(q) \subseteq roll

ReachedExpired(q) ==  \* mutant: an OTP that is still valid is kept
  NewFor(q) \union {r \in rows[q] \ valid : seen[q][r] = rec[r]}

Reached(q) == NewFor(q) \union {r \in rows[q] : seen[q][r] = rec[r]}

Recognise(q, o) ==
  /\ MaySave(q)
  /\ rec' = [r \in Row |-> IF r \in NewFor(q) THEN q ELSE rec[r]]
  /\ otp' = [r \in Row |-> IF r \in Reached(q) THEN o ELSE otp[r]]
  /\ valid' = valid \union Reached(q)
  /\ UNCHANGED <<roll, drawn, issued, vote, active>>

-----------------------------------------------------------------------------
(* Identification.                                                         *)

(* GET Identify: the form is on the page unless the first of the votes has *)
(* a valid recognition, whose OTP is shown instead.  The rows come in no   *)
(* specified order.                                                        *)
OpenForm(q, c, p) ==
  /\ step[q] = "new"
  /\ \E first \in AllowedVotes(c, p) : rec[first] = None \/ first \notin valid
  /\ officer' = [officer EXCEPT ![q] = c]
  /\ voter' = [voter EXCEPT ![q] = p]
  /\ Go(q, "form")
  /\ UNCHANGED <<db, given, rows, seen, vs, overlapped>>

(* POST Identify, up to the save.                                          *)
SubmitForm(q) ==
  /\ step[q] = "form"
  /\ ReadRows(q, AllowedVotes(officer[q], voter[q]))
  /\ Go(q, "identify")
  /\ UNCHANGED <<db, officer, voter, given, vs, overlapped>>

(* POST Identify/Public: one OTP for everybody on the rolls of the         *)
(* officer's elections with public identification.                         *)
PublicIdentificationElection(q, c) ==
  LET public == Commission[c] \intersect active \intersect PublicElection
  IN /\ step[q] = "new"
     /\ public # {}
     /\ ReadRows(q, {r \in roll : ElectionOf[r] \in public})
     /\ Go(q, "identify")
     /\ UNCHANGED <<db, officer, voter, given, vs, overlapped>>

(* IdentificationLink when no commissioner is free: an OTP by mail.        *)
SampledIdentification(q, p) ==
  LET mine == AvailableVotes(p)
  IN /\ step[q] = "new"
     /\ mine # {}
     /\ \A r \in mine : ElectionOf[r] \in SampledElection
     /\ ReadRows(q, mine)
     /\ Go(q, "identify")
     /\ UNCHANGED <<db, officer, voter, given, vs, overlapped>>

SaveIdentification(q) ==
  /\ step[q] = "identify"
  /\ \E o \in Otp : Recognise(q, o)
  /\ Answer(q, "answered")
  /\ UNCHANGED <<vs, overlapped>>

SaveFails(q) ==
  /\ step[q] \in {"identify", "auto"}
  /\ ~MaySave(q)
  /\ Answer(q, "answered")
  /\ UNCHANGED <<db, vs, overlapped>>

(* The Validity of a recognition passes.                                   *)
Expire(r) ==
  /\ r \in valid
  /\ valid' = valid \ {r}
  /\ UNCHANGED <<roll, drawn, rec, otp, issued, vote, active, step, locals, vs, overlapped>>

-----------------------------------------------------------------------------
(* GenerateTicket.                                                         *)

AskTicket(q, p, o) ==
  /\ step[q] = "new"
  /\ AvailableVotes(p) # {}
  /\ IF StrongLogin(p)
       THEN ReadRows(q, AvailableVotes(p)) /\ Go(q, "auto")
       ELSE /\ rows' = [rows EXCEPT ![q] = AvailableVotes(p)]
            /\ Go(q, "check")
            /\ UNCHANGED seen
  /\ voter' = [voter EXCEPT ![q] = p]
  /\ given' = [given EXCEPT ![q] = o]
  /\ UNCHANGED <<db, officer, vs, overlapped>>

(* The first save: the login identifies the voter with the OTP it sent.    *)
(* The context keeps the recognitions it saved, also when it reads again.  *)
AutoRecognise(q) ==
  /\ step[q] = "auto"
  /\ Recognise(q, given[q])
  /\ seen' = [seen EXCEPT ![q] =
                [r \in Row |-> IF r \in NewFor(q) THEN q ELSE seen[q][r]]]
  /\ Go(q, "check")
  /\ UNCHANGED <<officer, voter, given, rows, vs, overlapped>>

(* ckvotes, and the OTPs of their recognitions.                            *)
CkVotes(q) == {r \in rows[q] \intersect roll : rec[r] # None /\ r \notin vote}

OtpRead(q, r) == IF seen[q][r] = rec[r] THEN given[q] ELSE otp[r]

Otps(q) == {OtpRead(q, r) : r \in CkVotes(q)}

CheckOtp(q) ==
  /\ step[q] = "check"
  /\ IF Otps(q) = {given[q]}
       THEN /\ rows' = [rows EXCEPT ![q] = CkVotes(q)]
            /\ Go(q, "issue")
            /\ UNCHANGED <<officer, voter, given, seen>>
       ELSE Answer(q, IF Cardinality(Otps(q)) > 1 THEN "tooManyOtps" ELSE "answered")
  /\ UNCHANGED <<db, vs, overlapped>>

(* The second save, and the answer with the encrypted tickets: the         *)
(* VotingTicket is a new row, and the voter row refers to it instead of    *)
(* the one before.  It fails as a whole when a row is gone.                *)
GiveUnsaved(q) ==  \* mutant: the tickets go out even when the save fails
  /\ step[q] = "issue"
  /\ issued' = IF rows[q] \subseteq roll
                 THEN [r \in Row |-> IF r \in rows[q] THEN Hash(q, r) ELSE issued[r]]
                 ELSE issued
  /\ wallet' = [wallet EXCEPT ![voter[q]] = @ \union {TicketsFor(q, rows[q])}]
  /\ Answer(q, "answered")
  /\ UNCHANGED <<roll, drawn, rec, otp, valid, vote, active, ballots, empty, notices, overlapped>>

GiveTickets(q) ==
  /\ step[q] = "issue"
  /\ IF rows[q] \subseteq roll
       THEN /\ issued' = [r \in Row |-> IF r \in rows[q] THEN Hash(q, r) ELSE issued[r]]
            /\ wallet' = [wallet EXCEPT ![voter[q]] = @ \union {TicketsFor(q, rows[q])}]
       ELSE UNCHANGED <<issued, wallet>>
  /\ Answer(q, "answered")
  /\ UNCHANGED <<roll, drawn, rec, otp, valid, vote, active, ballots, empty, notices, overlapped>>

-----------------------------------------------------------------------------
(* The voting system, as far as tickets go (VoteCasting has the detail):   *)
(* it refuses a list with two tickets for the election, and a used hash.   *)
(* The number nr keeps two ballots apart that agree in the rest.           *)
Spent == {b.hash : b \in ballots}

CastBallot(p, b, t) ==
  /\ b \in wallet[p]
  /\ {u \in b : u.election = t.election} = {t}
  /\ t.hash \notin Spent
  /\ ballots' = ballots \union {[voter |-> p, hash |-> t.hash, election |-> t.election,
                                 nr |-> Cardinality(ballots)]}
  /\ notices' = notices \union {t.hash}
  /\ UNCHANGED <<db, step, locals, wallet, empty, overlapped>>

(* It accepts a list of preferences that is empty as it accepts a ballot,  *)
(* and queues the notice: the ticket is not spent, and nothing is stored.  *)
CastNothing(p, b, t) ==
  /\ b \in wallet[p]
  /\ {u \in b : u.election = t.election} = {t}
  /\ t.hash \in BlankRow \ Spent
  /\ empty' = empty \union {t.hash}
  /\ notices' = notices \union {t.hash}
  /\ UNCHANGED <<db, step, locals, wallet, ballots, overlapped>>

(* A notice is forgotten: a restart, or the race on the list of notices.   *)
LoseNotice(h) ==
  /\ h \in notices
  /\ notices' = notices \ {h}
  /\ UNCHANGED <<db, step, locals, wallet, ballots, empty, overlapped>>

(* TicketUsed: the row whose present ticket has the hash.  The answer may  *)
(* be lost, and the voting system sends the notice again.  Without such a  *)
(* row it throws, and the notice stays in the queue.                       *)
VotesOfPerson(h) == {r \in roll : PersonOf[r] = PersonOf[h]}
                    \* mutant: the rows of the person, not of the ticket

VotesOf(h) == {r \in roll : issued[r] = h}

TicketUsed(h) ==
  /\ h \in notices
  /\ VotesOf(h) # {}
  /\ vote' = vote \union VotesOf(h)
  /\ notices' \in {notices, notices \ {h}}
  /\ UNCHANGED <<roll, drawn, rec, otp, valid, issued, active, step, locals,
                 wallet, ballots, empty, overlapped>>

CloseElections ==
  /\ active # {}
  /\ active' = {}
  /\ UNCHANGED <<roll, drawn, rec, otp, valid, issued, vote, step, locals, vs, overlapped>>

-----------------------------------------------------------------------------
(* The roll.                                                               *)

RemoveVoter(r) ==
  /\ r \in roll
  /\ roll' = roll \ {r}
  /\ UNCHANGED <<drawn, rec, otp, valid, issued, vote, active, step, locals, vs, overlapped>>

(* VotersBulkUpload: it reads who is on the roll and draws an id for each  *)
(* of the others in the file ...                                           *)
OnRollOfAny(e) == {PersonOf[r] : r \in {x \in roll : ElectionOf[x] # e}}
                  \* mutant: looks at the rolls of the other elections

OnRoll(e) == {PersonOf[r] : r \in {x \in roll : ElectionOf[x] = e}}

VotersBulkUpload(q, e, file, S) ==
  /\ step[q] = "new"
  /\ S \intersect drawn = {}
  /\ \A r \in S : ElectionOf[r] = e
  /\ {PersonOf[r] : r \in S} = file \ OnRoll(e)
  /\ \A r1, r2 \in S : PersonOf[r1] = PersonOf[r2] => r1 = r2
  /\ drawn' = drawn \union S
  /\ rows' = [rows EXCEPT ![q] = S]
  /\ Go(q, "upload")
  /\ overlapped' = (overlapped \/ \E x \in Request : step[x] = "upload")
  /\ UNCHANGED <<roll, rec, otp, valid, issued, vote, active,
                 officer, voter, given, seen, vs>>

(* ... and saves the new rows.                                             *)
SaveUpload(q) ==
  /\ step[q] = "upload"
  /\ roll' = roll \union rows[q]
  /\ Answer(q, "answered")
  /\ UNCHANGED <<drawn, rec, otp, valid, issued, vote, active, vs, overlapped>>

-----------------------------------------------------------------------------
Identification(q) ==
  \/ \E c \in Officer, p \in Person : OpenForm(q, c, p)
  \/ SubmitForm(q)
  \/ \E c \in Officer : PublicIdentificationElection(q, c)
  \/ \E p \in Person : SampledIdentification(q, p)
  \/ SaveIdentification(q)
  \/ SaveFails(q)

GenerateTicket(q) ==
  \/ \E p \in Person, o \in Otp : AskTicket(q, p, o)
  \/ AutoRecognise(q)
  \/ CheckOtp(q)
  \/ GiveTickets(q)

RollChange(q) ==
  \/ \E e \in Election, file \in UploadFile, S \in SUBSET Row :
       VotersBulkUpload(q, e, file, S)
  \/ SaveUpload(q)

Environment ==
  \/ \E p \in Person : \E b \in wallet[p] : \E t \in b :
       CastBallot(p, b, t) \/ CastNothing(p, b, t)
  \/ \E h \in notices : TicketUsed(h) \/ LoseNotice(h)
  \/ \E r \in valid : Expire(r)
  \/ \E r \in roll : RemoveVoter(r)
  \/ CloseElections

Next ==
  \/ \E q \in Request : Identification(q) \/ GenerateTicket(q) \/ RollChange(q)
  \/ Environment

Spec == Init /\ [][Next]_vars

-----------------------------------------------------------------------------
(* Nobody casts two ballots in one election, however often tickets are     *)
(* generated and however late the notices arrive, as long as the roll does *)
(* not change: the hash of a ticket (VoterController.cs:353) depends on    *)
(* nothing but the voter row.                                              *)
OneBallotPerVoter ==
  \A b1, b2 \in ballots :
    b1.voter = b2.voter /\ b1.election = b2.election => b1 = b2

(* A used ticket leads back to its voter: whatever is generated again, and *)
(* whatever fails to be saved, TicketUsed finds a row for every hash that  *)
(* is out, unless the voter was taken off the roll                         *)
(* (EligereESAPI.cs:525-532, VoterController.cs:357-378).                  *)
NoticesFindTheirTicket ==
  \A p \in Person : \A b \in wallet[p] : \A t \in b :
    \E r \in Row : /\ issued[r] = t.hash
                   /\ PersonOf[r] = p /\ ElectionOf[r] = t.election

(* A voter is recorded as having voted (Voter.Vote) only where that voter  *)
(* used the ticket issued for the row (EligereESAPI.cs:539): the ballot is *)
(* in the box, or an empty list of preferences came with the ticket        *)
(* (VoteController.cs:185-254).  Nothing else records a voter without a    *)
(* ballot, however late or often the notices come, and whoever was taken   *)
(* off the roll and put on it again meanwhile.                             *)
RecordedVoteWasCast ==
  \A r \in vote :
    \/ issued[r] \in empty
    \/ \E b \in ballots :
         b.hash = issued[r] /\ b.voter = PersonOf[r] /\ b.election = ElectionOf[r]

(* Two rows of one person that are always identified together: they were   *)
(* on the roll from the start, the commissioners of the one election are   *)
(* those of the other, and public identification is for both or neither.   *)
IdentifiedTogether(r1, r2) ==
  /\ {r1, r2} \subseteq InitialRoll
  /\ PersonOf[r1] = PersonOf[r2]
  /\ \A c \in Officer : ElectionOf[r1] \in Commission[c] <=> ElectionOf[r2] \in Commission[c]
  /\ ElectionOf[r1] \in PublicElection <=> ElectionOf[r2] \in PublicElection

(* Two rows of one person that GenerateTicket would join carry one OTP     *)
(* ("too many Otps for ticket generation", VoterController.cs:343-345) if  *)
(* they are identified together: identifications that overlap write both,  *)
(* in either order.  It does not hold of other pairs: commissioners of one *)
(* of the two elections give one of the rows an OTP of its own             *)
(* (PSCommissionController.cs:304).                                        *)
OneOtpPerVoter ==
  \A r1, r2 \in {r \in roll : rec[r] # None /\ r \notin vote} :
    IdentifiedTogether(r1, r2) => otp[r1] = otp[r2]

(* Two ballots of one person in one election take a removal from the roll: *)
(* uploads that follow one another never put a person on it twice          *)
(* (ElectionsController.cs:496-514).                                       *)
SecondBallotNeedsRemoval ==
  overlapped \/
  \A b1, b2 \in ballots :
    b1.voter = b2.voter /\ b1.election = b2.election /\ b1 # b2
      => ~({b1.hash, b2.hash} \subseteq roll)
=============================================================================
