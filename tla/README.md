# Verification models of Eligere

Eligere is the electronic voting system in `src/src`: an election system
(**EligereES**, ASP.NET over a SQL database) that identifies voters and issues
encrypted voting tickets, and a voting system (**EligereVS**, ASP.NET over
RocksDB stores) that takes a ticket, stores an anonymous ballot and counts.
This directory holds TLA+ models of both, the TLC configurations that check
them, and TLAPS proofs of their main safety properties.

`PROJECT.json` gives, for every definition that models code, the lines it
stands for, and lists runs, mutants, findings, hazards and theorems. Paths
below are relative to `src/src` unless they start with `src/`.

1. [Inventory](#1-inventory)
2. [Plan](#2-plan)
3. [Modules and their correspondence to the code](#3-modules-and-their-correspondence-to-the-code)
4. [Runs](#4-runs)
5. [Fairness and deadlock](#5-fairness-and-deadlock)
6. [Proofs](#6-proofs)
7. [Where code and statements about it disagree](#7-where-code-and-statements-about-it-disagree)
8. [What is not modelled, and why](#8-what-is-not-modelled-and-why)

To repeat a check, in this directory:

    tlc -config VoteCasting.cfg MCVoteCasting.tla      (model checking)
    tlapm VoteCastingProofs.tla                        (proofs)

## 1. Inventory

### 1.1 How the parts talk to each other

    voter's browser ──GenerateTicket──▶ EligereES ──tickets (encrypted)──▶ voter
          │                                 ▲   ▲
          │ ElectionCard, CastBallot        │   │ RunningElections, StartElections,
          ▼                                 │   │ CloseElections, GetEncryptionKey
      EligereVS ──TicketUsed (notice)───────┘   │
          └─────────── operator's actions ──────┘

The two services share no database. What passes between them is a ticket list
(hash of the voter row, election, expiration), encrypted with a key that the
voting system downloads once; and five HTTP calls from the voting system to
the election system. Each call may not arrive, may fail, or may succeed with
its answer lost. Inside a service, requests run on concurrent threads and share
the database or stores, singletons (`TicketsQueue`,
`PersistentCommissionManager`, `DownloadOTPManager`) and nothing else.

### 1.2 Components

| Component | State | Operations | What makes it correct | Hard part | Module |
|---|---|---|---|---|---|
| Ballot casting (`EligereVS/Controllers/VoteController.cs`) | `ticketsDb`, `secureBallot` | `ElectionCard`, `CastBallot`, `CastVote` | one ballot per ticket; a ballot that was accepted is whole; what is stored respects the election's limits | two locks, two databases, one Put per preference (and none for an empty list), a seal read early | VoteCasting, VotingService |
| Notification queue (`EligereVS/Models/TicketsQueue.cs`) | `_queue`, in memory | `AddTicket`, `NotifyTickets` | a vote is recorded only when its ballot is stored; failed notices are kept | an unlocked `List<string>` shared by all requests; lost answers; restart | TicketsQueue, in VoteCasting |
| Operations of the voting system (`EligereVS/Controllers/HomeController.cs`) | configuration file, stores | `Tally`, `SendHangingTickets`, `LoadESElectionConfiguration`, `GuardianKeyGen`, `ClearKeys`, `JoinKeys`, `SaveAPI`, master password | sealed only after the elections are closed; every acknowledged ballot is counted; the loaded elections are those voters get tickets for | several calls to the other service, each of which may half succeed | VoteCasting, ElectionDay, KeySetup (partly) |
| Stores (`EligereVS/PersistentStores.cs`) | two RocksDB handles, configuration | lazy opening, `Put`, `Get` | one handle per database | unsynchronised lazy creation | as sets in VoteCasting, as flags in KeySetup |
| Ballot box library (`BallotBox/`) | metadata, votes and tickets stores | `CreateSecureBallotBox`, `GetGuardianKeys`, `CastVote`, `Tally`, `Close` | a ticket brings one vote at the most; tallies agree; all guardians are needed, and suffice | one Put per preference, under one key; `Close` without the lock | BallotBoxContract, SecureBallotBox |
| Identification and tickets (`VoterController.cs`, `PSCommissionController.cs`, `EligereESAPI.TicketUsed`) | `Voter`, `Recognition`, `VotingTicket` rows | `Identify`, `Identify/Public`, `IdentificationLink`, `GenerateTicket`, `TicketUsed` | nobody votes twice; a ticket leads back to its voter; one OTP opens all of a voter's votes | read-compute-save handlers that interleave, with no concurrency token | TicketIssue |
| Voter roll (`ElectionsController.cs`, `PeopleController.cs`) | `Voter`, `Person` rows | `VotersBulkUpload`, `RemoveVoter`, editing | a person is on a roll once | overlapping uploads; removal under a running ticket | TicketIssue, Commissions (partly) |
| Election lifecycle (`PSCommissionController.ElectionControl`, `SetupController`, `EligereESAPI`) | `Configuring`, `Active`, `Started`, `Closed` | `ElectionControl`, `UpdateElection`, `StartDailyElections`, `RunningElections`, `StartElections`, `CloseElections` | tickets only for elections the voting system knows; a whole group or nothing; nothing reopens after the seal | stale saves, two services, lost answers | ElectionDay |
| Call dispatch (`PersistentCommissionManager.cs`, `IdentificationLink`, `StaffAvailability`, `RemoteIdAvailability`) | list of busy commissioners, availability | choose, mark busy, expire | a call that is set up is kept; nobody is passed over for a call that is over; every voter is answered | the busy list is replaced while it is used as lock | CallDispatch |
| Key download (`DownloadOTPManager.cs`, `GetEncryptionKey`, `DownloadEVSKey`, `UploadEVSKey`) | one OTP, in memory; key files | generate, check, reset, download, upload | a download OTP opens one download; the key of the loaded elections is kept | check and reset are separate; files are replaced while they are in use | KeySetup |
| Guardian keys (`HomeController.GuardianKeyGen`, `JoinKeys`) | flag, files of slices | generate, clear, join | what the guardians hold opens the tally | flag checked and set under two locks | KeySetup |
| Login association (`HomeController.RequestUserLoginAssociation`, `EligereRoles.cs`, approval in `EligereESAPI`) | `UserLoginRequest`, `UserLogin` rows | request, approve, approve all, reject, claims | one login per user, or the user has no person | approvals race; no unique constraint | UserLogin, in Staff |
| Commissions (`ElectionsController.cs`, `EligereESAPI.cs`, `site.js`) | `PollingStationCommission`, `PollingStationCommissioner`, the groups of the elections | add, edit, delete, clone, set president | a commission has its president; commissions are of the group of their election; a president keeps the role | two saves per operation, stale reads, foreign keys in both directions | Commissions, in Staff |
| Database schema (`EligereES/Models/DB`) | - | generated mappings | - | - | used by the modules above |
| Authentication, pages, ElectionGuard client, utilities | none of their own | - | - | - | not modelled, see 8 |

## 2. Plan

Order of work, most important behaviour first. A tick marks what is here.

1. ✔ `TicketsQueue`, `VoteCasting` (EXTENDS `TicketsQueue`), with
   `TicketsQueueProofs`, `VoteCastingProofs`: casting, notification, tally and
   restart. Theorems: all the safety properties of the runs, and the refinement
   of step 9.
2. ✔ `BallotBoxContract`, `SecureBallotBox`, `SecureBallotBoxProofs`: an
   abstract ballot box and the library that implements it, by refinement
   mapping. Theorems: types, tallies agree, all the guardians are needed, the
   refinement.
3. ✔ `TicketIssue`, `TicketIssueProofs`: identification, tickets, notices and
   the roll. Theorems: all its properties.
4. ✔ `ElectionDay`, `ElectionDayProofs`: the elections across both services.
   Theorems: all its properties, and when loads cross.
5. ✔ `CallDispatch`, `CallDispatchProofs`: the dispatch of voters to
   commissioners, the swap of the locked list, and the expiry of a call; with
   liveness. Theorems: types, and both safety properties.
6. ✔ `KeySetup`, `KeySetupProofs`: the one-time password of the key download
   ("One Time is One Time :)", `EligereESAPI.cs:287`), the guardians' keys,
   restarts of both services. Theorems: all its properties.
7. ✔ `UserLogin` and `Commissions`, composed in `Staff`, with `StaffProofs`:
   who may act as what. Theorems: all its properties.
8. ✔ The properties that the code breaks in some circumstance, which they name
   instead of excluding it by a condition on the constants: `OneOtpPerVoter` of
   `TicketIssue` is about rows that are identified together, `TicketedIsLoaded`
   and `SealedMeansOver` of `ElectionDay` except loads that crossed. Further
   theorems say that nothing else has the effect (`TooManyOtpsHasCause`), or
   what the circumstance takes (`CrossedTakesTwoGroups`).
9. ✔ Composition: `VotingService` is what the election system sees of the voting
   system. `VoteCasting`, with requests, locks, restarts and the queue,
   implements it; so does the coarse voting system of `TicketIssue`.
10. Open: `VotingService` leaves out who holds a ticket, so that "nobody votes
    twice" is a theorem of `TicketIssue` and not of one module that contains
    `TicketIssue` and `VoteCasting`. That module would be the conjunction of the
    two with the tickets, the notices and `Vote` in common.

## 3. Modules and their correspondence to the code

### 3.1 TicketsQueue

`queue` is `_queue`; `at`, `pos` and `batch` are a thread's position inside
`AddTicket` or `NotifyTickets`, the length or index it read, and its copy of
the list. `recorded` is the set of notices whose `Voter.Vote` the election
system has set. `List<T>` is not thread safe, so `Add` is two steps (read the
length, write the element and the new length) and `Remove` is two (find the
index, shift the tail): `ListAdd` and `ListRemoveAt` say what these leave
behind when another thread came in between. An element can be overwritten, an
empty slot can appear, and an index out of range throws (which
`NotifyTickets` catches). A finer interleaving inside the array copy is not
modelled; growth of the array is not either.

A notice is named by the request that adds it, because the protected hash is
encrypted with a fresh nonce. `SendAcknowledged` and `SendFailed` are the HTTP
call: delivered and answered, not delivered, or delivered with the answer lost
(`CallFails`). Two exceptions leave `NotifyTickets` (`NotifyThrows`):
`LogFailedNotification` is called inside the handler of a failed call (lines
55-59) and writes a file, and `ToArray` (line 37) reads the size of the list
twice, so that it may throw while another thread adds. The notices of the copy
then stay in the list.

### 3.2 VoteCasting

One action per step that another thread can see: `Receive` (decode the form,
read the seal), `RefuseTickets`, `Enter` (take `lock(ticketsDb)`),
`AcceptBallot`/`RefuseBallot` (all the checks inside the lock), then per
preference `PutTicket` and `PutBallot`, then `StartNotify`, `Notify`, `Answer`.
A list without a preference passes all the checks, since they are loops over it;
the Puts are in a loop over it too, so `AcceptEmpty` goes on to the notice with
nothing put. An exception out of `NotifyTickets` ends the request
(`FailToNotify`): its end is "failed", and the ballot stored.
`lock(secureBallot)` is held for one read, one Put or one tally, so it needs no
variable. `CloseElections` and `SealAndCount` are `Tally`; between them other
requests run. `Crash` loses the requests, the locks and the queue, and keeps
the stores. Ballots have one entry per preference, keyed by request and
position, which is how unique Guids behave.

`admitted`, `empties` and `crashes` are history: who was past the check of the
seal when the seal was put, the tickets an empty list was accepted with, and how
many restarts there were.

Notes on the code that the model keeps: in a party election one more name is
allowed, whether a party is among the names or not (`TicketWithinLimits` says
which tickets this concerns); the server does not look for duplicate
preferences; the expiration of a ticket is
never checked; a crash may leave a ticket spent with only part of its ballot,
and the election system without a notice. The Guids, the padding of records
and the log files are left out.

`VotingService` is the abstract specification of this module, as the election
system sees it: `Spend` a ticket, `Store` its ballot, report it (`TicketUsed`),
or `Lose` reports; or `Announce` a voter whose list is empty, with the ticket
left as it was. The order is what it promises: a ticket is spent once, a
ballot that is not stored when its report is lost never is, and only a ticket
with a whole ballot, or with an empty list, is recorded. In the refinement mapping (`Service`) the spent
tickets are `used`, the stored ones those of which all preferences are in the
box, `empty` is `empties`, and a report is to come (`Pending`) from the first Put
of its request, or from the acceptance of an empty list, until
no copy of it is left: in the hands of the request, in the list, or in the copy
that a loop of `NotifyTickets` works through. An element that the unlocked list
overwrites, and a restart, are `Lose`.

### 3.3 BallotBoxContract and SecureBallotBox

`BallotBoxContract` is the abstract specification: a box with spent tickets,
a count per election and name, and the answers of its tallies. `IBallotBox`
takes a ballot of several preferences, but the library draws one `voteId` for
the call and each Put of the loop replaces the one before
(`EncryptedBallotBox.cs:161,181`). So the contract is what a user gets: `Cast`
counts the last preference of a ballot, `CutShort` one before it, when the call
failed in between, and `Void` is a failure that costs the ticket and counts
nothing. A ballot of one preference is counted whole or not at all.

`SecureBallotBox` is `BallotBox/EncryptedBallotBox.cs`: every public operation
except `Close` runs inside `lock(this)`. `CastVote` is one step for its checks
and the Put of the ticket and one (`PutVote`) per preference; `Close`, which
takes no lock, or the end of the process, may come between. The keys of the
guardians are modelled by what they do: slices of the secret with an index,
joined and compared (`Slice`, `KeysOpen`). The refinement mapping (`Contract`)
hides the call in progress: it takes place with its last Put or, when it is
interrupted, with what it has put until then.

The library is part of the repository, and EligereVS does not use it yet.

### 3.4 TicketIssue

A row of table `Voter` puts a person on the roll of an election. The row id is a
new Guid, and the ticket hash is computed from it and from the person
(`VoterController.cs:353`), so the hash is identified with the row (`Hash`).
`rec` and `otp` are the foreign key to `Recognition` and the OTP in it, `issued`
the hash of the `VotingTicket` the row refers to, `vote` the column `Vote`.

Every handler is a reading step and a saving step: `OpenForm`/`SubmitForm`/
`SaveIdentification` for `Identify`, `AskTicket`/`AutoRecognise`/`CheckOtp`/
`GiveTickets` for `GenerateTicket`, `VotersBulkUpload`/`SaveUpload` for the
upload. Entity Framework writes the columns that differ from what was read, in
one transaction, and throws when a row to update is gone: hence `Reached`,
`MaySave`, `SaveFails`. A row read without a recognition gets a new one; a
recognition that was read is updated even when the row refers to another one by
then, and then the update reaches no row.

The voting system appears as `CastBallot` and `LoseNotice`; `VoteCasting` has
its detail. Both implement `VotingService`: here a ticket is spent and its
ballot stored in one step, and the votes are the column `Vote`
(`TicketIssueProofs`, `ServiceHolds`). `CastNothing` is the empty list, after
which a notice comes with the ticket unspent and nothing stored; `empty` keeps
such hashes (history). `TicketUsed` is one step: its read and its write concern one row
and set one column to a value nothing resets.

Left out: the elections are active and belong to one group from the start
(`ElectionControl` activates them together; `ElectionDay` has that part);
`Recognition.State` is written and never read; the alternative of the
availability filter that lets a SPID voter in by date; two random OTPs that
happen to be equal to the previous one, for which Entity Framework would write
nothing.

### 3.5 ElectionDay

`configuring`, `active`, `started`, `closed` are the columns of `Election`,
`conf` the configuration the voting system loaded. `ElectionControl` reads and
`SaveElectionControl` saves the columns that changed (`Save`). The PATCH of an
election (`UpdateElection`, `SaveUpdateElection`) writes `Active` at any time,
without a look at the other columns.
`LoadESElectionConfiguration` is `CheckLoaded` (nothing may be loaded),
`AskRunningElections`, `StartElections` (or
`StartElectionsFails`, whose answer is not looked at) and `PutConfiguration`,
and ends at any point when a call throws (`LoadDies`). Nothing is checked again
after `CheckLoaded`, so loads may overlap; `crossed` is history and is set when
one of them is answered other elections than another load carries, than have
started or than are loaded. `Tally` is `BeginTally`,
`CloseElections`, `Seal`, or `TallyDies`. Time is the day of the poll; the
minutes around it and the creation and deletion of elections are not modelled.
`RunningElections` and `StartElections` on the server side are one step each,
as is `StartDailyElections`: each is one query and one save.

### 3.6 CallDispatch

The manager is a singleton whose field `BusyRemoteCommissioners` is both the
list of marks and the lock. `CollectExpiredItems` evaluates the field, locks the
list it found (`IdentificationLink`, the model's first step, evaluates it;
`CollectExpiredItems` waits for the lock), filters whatever list is in the field
by then, and puts a new list there (`SwapList`). So lists are objects: `list[l]`
is the array and size of the list made by request `l`, `holder[l]` its lock,
`current` the field. `AddBusyCommissioner` likewise locks what it found
(`AddBegin`) and adds to what is there now; `Add` reads the size and writes it
later (`AddEnd`). `GetBusyCommissioners` takes no lock: `ConvertAll` throws when
the list grows under it (`GetBusyFails`). What the filter keeps is stated
by positions (`Kept`: the marks of the list that have not lapsed, in their
order), which `CallDispatchProofs` can reason about where it could not unfold a
recursive filter.

A mark carries the time of its expiry. The model names it by the request and has
one action, `Lapse`, for the time to pass; a mark that was not added yet may
already lapse, because its time is fixed before. `start[q]` is history: who had
been answered, and what had lapsed, when `q` came.

### 3.7 KeySetup

`esFiles` and `vsFiles` are the directories `Data/EVSKey` of the two services,
`esKey` and `vsKeys` the keys they have loaded: ASP.NET loads them when it
starts, so a file that is replaced has no effect until a restart, and makes one
when the directory is empty (`RestartES`, `RestartVS`). `ResetKeys` empties the directory of the election
system; `UploadEVSKey` does too, and then writes a key that one of the services
has drawn (`WriteUploadedKey`). `DownloadOTPManager` is
`otp`, `expired` and `drawing` (`GenerateOTP` sets the expiration before the
password). `DownloadEVSKey` is seven steps across both services.
`GetEncryptionKey` asks `HasOTP` and then compares with `OTP`, which forgets a
password that has expired: should it be forgotten between the two, an empty
field of the form (`None`, null in the code) is equal to it. A restart of the
voting system ends its half of a download; the election system's half goes on,
up to the reset of the password, and its answer finds nobody (`orphans`).
`GuardianKeyGen`
looks at the flag, reads and cuts the key file, writes a file per guardian and
sets the flag. A guardian takes a file from the page at any time after
(`TakeKey`). A slice is modelled by the file it was cut from and the key that
protects it; how the text is cut is in `SecureBallotBox` (`Slice`), whose code is
the same. `given`, `beside`, `recut` and `racing` are history.

`LoadESElectionConfiguration` is one step here; its calls are in `ElectionDay`.

### 3.8 UserLogin, Commissions and Staff

Each handler is a reading step and one saving step per `SaveChangesAsync`; what
it read travels in `deciding[q]` or `editing[q]`, and a save writes only what
the handler changed. A save that would break a foreign key, or that changes a
row that is gone, is not enabled; then only `Fail` is, which ends the request
and leaves its earlier saves. `Fail` is also a request cut off anywhere. The
PATCH of a commission (`UpdatePSCommissions`, `SaveUpdatePSCommissions`, and PUT,
which is the same) may name a president: it writes the id of a person where that
of a commissioner belongs, which the foreign key refuses, and so its save is not
enabled.

`UserLogin`: `asked[i]` is the row that request `i` inserted and `logins` the
`UserLogin` rows. `PersonFK` is the claims transformation: a user is a person
only with exactly one login.

`Commissions`: rows have numbers, so that the copies a clone makes can be
named. A group is named after the election or the request it was drawn for.
`ElectionControl` and `RecordVote` stand for the parts of `ElectionDay` and
`TicketIssue` that the guards of the deletions look at. `headless`, `unsettled`,
`lost` and `during` are history, and say which commissions lost their president
on purpose, which elections had commissions added from another group or none,
and which votes were deleted or came while a deletion was under way.

`Staff` puts the two together: a request is of one kind or the other, and the
role of a president (`IsPresident`) needs the rows of both.

## 4. Runs

Passing runs (TLC explores every reachable state of the instance):

| Run (cfg) | Module | What is asked | Instance and why it is enough |
|---|---|---|---|
| VoteCasting | MCVoteCasting | types; one ballot per ticket; accepted is stored; recorded is stored; at most one torn ballot per restart; what a tally misses was on its way at the seal; what was acknowledged is counted; sealed after closing | two voters of one election, ballots of two preferences (the shortest that can be torn), one with a name that is not on the ballot, and the empty list; both voters may present either ticket, so the same ticket also arrives twice; one operator, the dashboard, one restart. Two threads are enough for each race of the code, which is always between two holders of one lock, or two users of one list. About 1.4 million states |
| BallotRules | MCVoteCasting | all that is stored on a ticket respects the limits of its election; every request is answered; all of it together is a voting service (refinement) | seven lists: within and over the limit, unknown names, blank, spoiled, a party and a name, two parties, none; in the election with parties, which allows one name, the list of two candidates is the one the check lets through without a party. Three elections, one with parties and one not loaded; a voter with two tickets for one election; one restart. Liveness, so without symmetry. About 310 000 states |
| BallotBox | MCSecureBallotBox | types; the library implements its contract (refinement); tallies agree; all the guardians are needed | three tickets of two elections, four calls, ballots of one preference, of two different and of the same one twice, both protection providers, a secret of five characters cut for 1, 2, 3 and 5 guardians, so that the cut is exact for two of them and not for the others; closing and reopening anywhere. About 62 000 states |
| TicketIssue | MCTicketIssue | types; nobody votes twice; notices find their ticket; one OTP per voter | one person on the roll of two elections (the interplay of people is none: every query is by person), three requests in any mix of handlers, two OTPs, a login that counts as identification for one election, sampling, commissioners of both elections; expiry, lost notices, removal and closing at any time. About 1.5 million states |
| VoterRoll | MCTicketIssue | recorded votes were cast; a second ballot needs a removal | one election, two people, of whom one may be removed and uploaded again under a new row, four requests: two uploads and two others, the least for an upload, a ticket, a removal, an upload and a ticket; the voter of the first row may also send an empty list. About 750 000 states |
| ElectionDay | MCElectionDay | types; tickets only for loaded elections; whole groups; nothing reopens after the seal | a group of two elections, of which one polls on both days and one on the second only, and a second group of one election that polls on the second: the least for a group that can be torn and for loads that cross. A president for each group, with one ElectionControl request at a time; one PATCH at a time, of the election that polls on both days; two loads at once and one tally; all can be repeated. About 1.9 million states |
| CallDispatch | MCCallDispatch | types of the shared lists; an undisturbed call is kept; nobody is passed over for a call that was over; every voter is answered | three requests for one commissioner: two that race for the list and one before or after them, which is what the properties tell apart. One commissioner makes every choice collide; the safety properties were also explored once with two (3.1 million states). Liveness, so without symmetry. About 240 000 states |
| KeySetup | MCKeySetup | types; a password opens two downloads only when they overlapped; the guardians' slices open the tally; the key of the loaded elections stays | two requests (two downloads, two generations, or one of each), which is what each property relates; three keys, so that a restart with an empty directory can draw one, and one of them can be uploaded; two passwords, two slices (a mixture needs two), three restarts. About 1.3 million states |
| Staff | MCStaff | types; presidents sit on their commission; a commission without president became so on purpose; groups agree; elections are deleted without votes; a second login has a cause; a president keeps the role | two requests at once, of any kind, from three starts: nothing, one commission and a user who asked twice, and its clone. The starts are states that earlier requests lead to, and save the states in between; three requests from nothing were also explored once (1.8 million states). Four commissions and five commissioners are room for a clone of a clone. About 400 000 states |

Runs that end in a counterexample, each for a statement of the repository that
the code does not keep (section 7): `AfterSeal`, `NotificationRace`,
`LoginTwice`.

Each property of a passing run has a mutant in `PROJECT.json`: an operator in
the same module, marked `mutant:` in a comment, with which TLC finds the
property violated. The mutants are plausible slips: a lock not taken, an early
return that keeps it, a status not looked at, a hash drawn per ticket.

Bounds: `MaxCrashes` and `MaxRestarts` (restarts), `MaxCalls` (calls of
`CastVote`), `MaxCommissions` and `MaxMembers` (rows ever made), `Days`, `BlankRow` (the rows
whose voter may send an empty list), `Edited` (the elections a PATCH is about),
`Upload` (the keys that can be uploaded, one upload at a time);
requests are model values, one-shot ones in `Request`, so that this set bounds
the requests, and those of `Control`, `Patch`, `Load` and `Tallying` one after
another, so that these bound how many are under way at once. Symmetry is over
requests, OTPs, in `VoteCasting` the two tickets, and in `Staff` persons and
elections, which are compared for equality only, and never in a run with a
liveness property.

## 5. Fairness and deadlock

`BallotRules` and `CallDispatch` use fairness: weak fairness of every request's
next step, `WF_vars(RequestStep(r))`. A thread that ASP.NET has started is
scheduled until it returns; it blocks only on a lock and on an HTTP call, which
ends with an answer or an exception. Nothing obliges a voter to send a request,
an operator to tally, a commissioner to be available, a mark to lapse or the
dashboard to retry, so none of these is fair. Since waiting for a lock is not
strongly fair, the properties would fail if a thread could be overtaken without
end; the one-shot requests of the instances exclude that, as `Monitor` does by
its waiting queue. What `CallDispatch` shows on top is that a lock is given back
though the list it belongs to is not in the field any more.

Deadlock is checked except where the cfg says otherwise: `BallotRules` and
`NotificationRace`, which have no operator, and the runs of `TicketIssue`,
`CallDispatch` and `Staff`. In these every request has been answered at the end
and nothing remains to be done.

## 6. Proofs

Proved with TLAPS for every value of the constants that satisfies the named
assumptions (`QueueAssumption`, `VotingAssumption`, `BoxAssumption`,
`IssueAssumption`, `DayAssumption`, `DispatchAssumption`, `SetupAssumption`,
`StaffAssumption`: the ranges of the constants, that the nulls are not values,
and that the initial roll has a person once per election).

| Theorem | Statement | Argument |
|---|---|---|
| `VoteCastingProofs!TypeCorrect` | `[](TypeOK /\ CardInv)` | The types are not inductive alone: a Put needs a preference that exists, so `CardInv` says that a request that was received has a card, that one inside the lock has a preference left to store, and that one past `RefuseTickets` has one ticket. The queue's part is `TicketsQueueProofs`: whatever positions the racing calls write at, the list stays a sequence of slots |
| `OneBallotPerTicketHolds` | `[]OneBallotPerTicket` | `LockInv` (the requests inside `lock(ticketsDb)` are its holder), `SpentInv` (a ticket is spent before anything is stored for it), `OwnerInv` (the request that may store for a ticket is the only one that has). A second request for the ticket would have found it spent inside the lock |
| `AcceptedIsStoredHolds` | `[]AcceptedIsStored` | Whoever is told "Vote casted", or gets an error after the notice was queued, has a spent ticket and the whole ballot stored, if the list was not empty. `StoredInv`: the preferences below `next` are in the box, and all are when the request is past the loop; entries of different requests have different keys, so no Put replaces one of another |
| `RecordedIsStoredHolds` | `[]RecordedIsStored` | `NoticeInv`: what is in the list, in the copies of it, in the hands of a thread and in `recorded` names a request past its last Put, or one with an empty list that was accepted, whatever the unlocked list did to the order (`OnlyOf`). The property tells the two apart |
| `SealedAfterCloseHolds`, `UncountedWasInFlightHolds`, `AcceptedIsCountedHolds` | `[]SealedAfterClose`, `[]UncountedWasInFlight`, `[]AcceptedIsCounted` | `SealInv`: nobody gets past the check of the seal once it is put, so a ballot that the count misses belongs to `admitted`, and one that was answered before is in the box when it is counted |
| `OneTornBallotPerCrashHolds` | `[]OneTornBallotPerCrash` | `TornInv`: the spent tickets that nobody is storing for and whose ballot is not whole are at most `crashes`. A restart adds at most the one request inside the lock; a request adds its ticket only together with becoming the writer. The rest is the cardinality of sets that differ in one element |
| `TicketWithinLimitsHolds` | if every election allows a name, `[]TicketWithinLimits` | `LimitInv`: a request in the loop has an acceptable ballot for the election of its ticket; with `BallotInv`, all that is stored on a ticket is part of one ballot. So the candidates without the party keep to the number allowed; one more needs a party election and a ticket without a party, and the property says so |
| `VoteCastingProofs!Refinement` | `Spec => ServiceHolds` | Every step is a step of `VotingService` or none: the first Put is `Spend`, the last `Store`, the acceptance of an empty list `Announce`, an answer or a failure of the call `TicketUsed`, everything that drops a notice `Lose`. It rests on the invariants above and on `SpendInv`: a ticket is spent with the first Put of its request and not before, and who adds a notice is past the last. So a report that is to come is always of a ticket that is spent or that came with an empty list (`PendingIsSpent`), and what is sent has its ballot whole or empty (`NoticeInv`). `ListsOf` of `TicketsQueueProofs` says that the racing list brings no notice back |
| `SecureBallotBoxProofs!TypeCorrect` | `[](TypeOK /\ BoxInv)` | `BoxInv`: ids are drawn upwards, the votes are finite, a call is open only while the box is not sealed |
| `TalliesAgreeHolds` | `[]TalliesAgree` | `AnswersInv`: before the seal there is no answer, and after it the votes do not change, so there is one count to answer with |
| `SecureBallotBoxProofs!Refinement` | `Spec => ContractHolds` | A step of the library is a step of the contract or none: the last Put of a call is `Cast`, an interruption before the first is `Void` and after another `CutShort`. `LastPut`: what a call that is open has in the box is its previous preference, and no more, because each Put replaces the one before; it is left out of the mapped count, which so jumps by one vote when the call ends |
| `AllGuardiansNeededHolds` | if the secret has a character for each guardian (`CutsWhole`), `[]AllGuardiansNeeded` | The slices are side by side and none is empty. So what the first `i` places join to is the first `Cut(n, i)` characters of the secret when none of them is missing, and shorter otherwise (`Joined`), by induction on `i`. The library's induction theorems take an operator, which the provers cannot instantiate; `NatSet` gets induction for a set from the well-foundedness of `<`, since a least number outside the set cannot exist |
| `TicketIssueProofs!TypeCorrect` | `[]TypeOK` | `RowsInv`: a request that generates tickets has a voter, an OTP, and rows of that voter only; all rows it holds were drawn. `IsFiniteSet(ballots)` for the number of a ballot |
| `NoticesFindTheirTicketHolds` | `[]NoticesFindTheirTicket` | `TicketInv`: a row is issued its own hash or none (`IssuedInv`), every ticket that is out is still the one its row refers to (`WalletInv`) - it stays so because a repeated generation writes the same hash, and because nothing is handed out unless the save succeeded |
| `RecordedVoteWasCastHolds` | `[]RecordedVoteWasCast` | The same invariant, with `VoteInv` (only hashes that are spent, or that came with an empty list, are notified and recorded) and `BallotsInv` (a ballot's hash belongs to its voter and election) |
| `SecondBallotNeedsRemovalHolds` | `[]SecondBallotNeedsRemoval` | `RollInv`: unless two uploads overlapped, there is at most one under way and its rows, together with the roll it will find, have nobody twice. A removal only makes the roll smaller |
| `OneBallotPerVoterHolds` | with `UploadFile = {}`, `[]OneBallotPerVoter` | The drawn rows are those of the initial roll, one per person and election, and a hash is spent once |
| `OneOtpPerVoterHolds` | `[]OneOtpPerVoter`: two rows that are identified together, and that a ticket would still join, have one OTP | `JointInv`: such rows are read together or not at all, in the same state, and so they are saved together, in whatever order the saves come. A row that has been removed or voted for since is out of the comparison. Other elections, commissioners and uploads do not matter |
| `TooManyOtpsHasCause` | A request ends with "too many Otps" only when two of the rows it joins are not identified together | The same invariant, carried over the time between the reading of the votes and that of their OTPs, in which one may be voted for, and through the OTP the request sends itself |
| `ServiceRefined` | `Spec => ServiceHolds` | `TicketInv` again: a hash that comes back is that of one row (`VotesOf(h) = {h}`), and only hashes that are spent or came with an empty list come back |
| `ElectionDayProofs!TypeCorrect` | `[]TypeOK` | by action; `Controls` carries that a request never asks for configuring and active at once |
| `WholeGroupLoadedHolds` | `[]WholeGroupLoaded` | `GroupInv`: the answer of `RunningElections` is whole, wherever it travels until it is stored, whatever the elections become meanwhile |
| `TicketedIsLoadedHolds` | `[]TicketedIsLoaded` | `SameInv`: until loads cross, what each load carries, what is loaded and what another load carries are the same elections, and nothing else has started; so it does not matter whose answer is stored last |
| `SealedMeansOverHolds` | `[]SealedMeansOver` | `SameInv`: a load that has an answer to store has the one that is stored, so `conf` does not change under a tally; `OverInv`: what a tally closed is what is loaded, and nothing opens it again, also not an `ElectionControl` or a PATCH that read before, because a closed election gives no tickets |
| `CrossedTakesTwoGroups` | `[](crossed => ~(\E g : PollsOnly(g)))`: loads do not cross while all the elections that poll within the days are of one group | Every load is then answered with all of that group (`RunningElections` takes the group whole), and that is also what is started and loaded |
| `CallDispatchProofs!TypeCorrect` | `[](TypeOK /\ ListInv /\ MarkInv)` | Lists are shared without a common lock, so `ListInv` says who may still write where: a list is nobody else's until its maker is done with it, and a position read earlier is within the array |
| `BusyOnlyWhileCalledHolds` | `[]BusyOnlyWhileCalled` | `SinceInv`: the list in the field was made by a request that is the reader or overlapped it, and its marks had not lapsed when its maker came; `HistInv` carries this to the time the reader came; `BusyInv` adds that a mark is put only after a call |
| `UndisturbedCallIsKeptHolds` | `[]UndisturbedCallIsKept` | `HeldInv`: an undisturbed mark is in the list in the field and in each list that a request inside `CollectExpiredItems` is about to put there, below every position at which somebody will write; so `PassedInv`, whoever comes after it finds it |
| `KeySetupProofs!TypeCorrect` | `[](TypeOK /\ JobInv)` | `JobInv`: what a request got over the wire or from a file some steps before was once made |
| `LoadedKeyStaysHolds` | `[]LoadedKeyStays` | `KeepInv`: once the elections are loaded no download begins, and each that is under way was noted at the load |
| `SecondDownloadOverlappedHolds` | `[]SecondDownloadOverlapped` | `OnceInv`: the password of a download that was given the key is gone for good, so whoever still passes with it was inside at the same time, also in the half that a restart of the voting system leaves behind. A key that was given for an empty field is no use of a password |
| `GuardianKeysOpenHolds` | `[]GuardianKeysOpen` | `CutInv`: unless a key file changed after a cut, the slices that are held, that can be taken and that a generation still has to write all come from the one key file, and what protects them can be opened |
| `StaffProofs!TypeCorrect` | `[]TypeOK` | `StaffInv`, the conjunction of `LoginInv` and `CommissionInv`, is inductive and gives all the next rows |
| `SecondLoginHasCauseHolds` | `[]SecondLoginHasCause` | `RowsAreOver`, `OpenUntilSaved` (a row that one request alone has answered is open until that one saves) and `ApprovedIsClosed` |
| `PresidentSitsOnItHolds`, `HeadlessOnPurposeHolds`, `GroupsAgreeHolds`, `VotesAreKeptHolds` | `[]PresidentSitsOnIt`, ... | `Jobs`: what each request read before is still so where it matters, though others saved since. It is, because ids are not used again and a commissioner stays on its commission (`Forward`); one lemma carries `Jobs` across every step that goes forward. For a clone, `CopyOK` says what was read and `CopiesAreNew` that the numbers of the copies are new and different |
| `PresidentKeepsRoleHolds` | `PresidentKeepsRole` (of every step) | A step that neither removes a president, a commissioner nor a login leaves the role. The erasure of an election needs `PresidentSitsOnIt`: the commissions it deletes have no president, and the commissioners it deletes are on them |

A proof looks further than an instance. `GroupsAgree` held in every run before
the proof of it asked what becomes of a clone whose source was edited between
its reading and its saving; `PresidentKeepsRole` before the proof asked whether
the second save of a clone can replace a president set since the first. Both are
behaviours of the code (`ElectionsController.cs:703-763`) and are now named in
the properties.

Every property that is proved is also checked by a run, with TLC, on the small
instance of its module.

Only model-checked: liveness (`EveryRequestEnds`, `EveryVoterIsAnswered`), which
is outside what TLAPS proves.

Three theorems have a condition on the constants: `TicketWithinLimitsHolds` (every
election allows a name), `AllGuardiansNeededHolds` (the secret has a character
for each guardian) and `OneBallotPerVoterHolds` (nothing is uploaded; with
uploads, `SecondBallotNeedsRemovalHolds`). Where the code has an effect that a
property would forbid, the property names the circumstance: section 7 lists
them.

## 7. Where code and statements about it disagree

1. `AfterSeal`: a ballot whose request read the seal before a tally put it is
   stored after the tally, and not counted; the operator's button says "Tally
   (ends the ballot casting)". `UncountedWasInFlight` and `AcceptedIsCounted`
   bound the damage: only requests on their way at the seal are concerned.
2. `NotificationRace`: two requests that add their notice to the list at once
   can leave one out of it, neither sent nor kept.
3. `LoginTwice`: a user who asks twice before the first approval gets two
   logins when both are approved, because `HomeController.cs:114` looks for the
   fiscal code in the column of user ids; the claims transformation then finds
   no person for the user. `SecondLoginHasCause` bounds the rest.

Seen while modelling and not in a run:

- An empty list of preferences is a ballot for `CastBallot` and for nothing else
  (`VoteController.cs:185-254`). Every check and both Puts are inside loops over
  the list; so the voter is told "Vote casted" and the election system records
  the vote, while the ticket is unspent and the box has nothing. The same ticket
  is good for a ballot later. `AcceptedIsStored`, `RecordedIsStored`,
  `RecordedVoteWasCast` and `VotingService` say what holds for these voters and
  what for all others.
- In a party election one name more is allowed, with the comment "for the party"
  (`VoteController.cs:209`), but nobody looks whether one of the names is a party:
  `votes_allowed + 1` candidates without a party pass. `TicketWithinLimits` lets
  a ticket without a party have one too many, and no other.
- When a notice cannot be sent and its failure not be logged, or the list grows
  while it is copied, the exception leaves `NotifyTickets`
  (`TicketsQueue.cs:37,55-59`) and the voter gets an error for a ballot that is
  stored (`VoteController.cs:253-263`; "failed" in `AcceptedIsStored`). A second
  attempt finds the ticket spent.
- The ballot box library draws one key per ballot, so of several preferences the
  last replaces the others (`BallotBox/EncryptedBallotBox.cs:161,181`), though
  `IBallotBox` takes a list of them. The contract says what a user gets;
  EligereVS does not use the library.
- A vote stored with another data protection provider makes every later tally
  of the library fail, after the box was sealed (the contract permits it: a
  tally "answers with the count or fails").
- Commissioners who sit on different commissions of one day can leave different
  OTPs on the votes of one voter, who then gets "too many Otps"
  (`PSCommissionController.cs:304`). So can public identification for some of
  the elections only (it writes the rows of these alone), and an upload between
  two identifications (the new row gets the later OTP only). `OneOtpPerVoter` is
  about rows that are identified together, and `TooManyOtpsHasCause` says that
  only others lead to that answer.
- Tickets are generated for a vote that has been cast while its notice is late
  or lost (`VoterController.cs:337`). It does no harm (`OneBallotPerVoter`): the
  hash is the same and spent.
- Each election gets a group of its own when it is created
  (`ElectionsController.cs:102`). With two groups, or none, two loads at once can
  be answered different elections and start both; the voters of the one that is
  not stored get tickets that lead nowhere (`HomeController.cs:396`). Nothing is
  checked again when the answer is stored (`HomeController.cs:429`), so the slower
  of the two can also replace what was loaded when a tally has already closed and
  sealed it. `TicketedIsLoaded` and `SealedMeansOver` except loads that crossed,
  and `CrossedTakesTwoGroups` says what that takes.
- The password of the key download "can be used only once"
  (`EligereES/Views/Setup/Index.cshtml:43`; "One Time is One Time :)",
  `EligereESAPI.cs:287`), but it is compared and reset in separate steps: two
  downloads that are both between them get the key with the one password.
  `SecondDownloadOverlapped` says that it takes this. And when the password is
  forgotten between `HasOTP` and `OTP` (`EligereESAPI.cs:278-280`), a request that
  left the field empty is equal to it.
- The library cuts the secret by integer division
  (`BallotBox/EncryptedBallotBox.cs:109`): with more guardians than characters
  all but the last get an empty slice, which `TestKeys` rejects (line 143), so
  that the keys of all of them together do not open the box.
  `AllGuardiansNeeded` is for a secret with a character for each.
- `Recognition.Validity` and the expiration in a ticket are written and never
  checked when a vote is cast.
- PUT and PATCH of a commission through the web API throw in the answer of a
  commission that has no president loaded, after they saved; a PATCH that names
  a president stores the id of a person where that of a commissioner is
  expected, which the foreign key refuses. `site.js` reads `psc.ElectionFK`
  where its own constructor has `ElectionFk`; no page calls it.
- The deletion of an election that has two commissions with members fails at its
  second save and leaves the first without president: only one is emptied
  (`ElectionsController.cs:161-168`).

## 8. What is not modelled, and why

- Cryptography. The key derivation, AES, data protection and the hash are taken
  as what they are for: a fresh nonce gives a fresh string, a hash does not
  collide, and who has no key cannot read.
- Pages, authentication and roles (`Startup.cs`, `Views`, SAML2, `Program.cs`):
  framework configuration and rendering. What a page relies on is modelled with
  the handler (the OTP shown by `Identify.cshtml`, for example).
- The ElectionGuard client (`ElectionGuard*`): stateless calls, and data types.
- Database schema: generated. Its missing constraints matter (no unique key on
  person and election in `Voter`, no concurrency token) and are in
  `TicketIssue`.
- `CsvUtils`, `PaginatedList`, `SecureLogger`, `tktdump`: formatting, paging,
  logs and a dump tool.
- Scripts: `wwwroot/lib` is third-party (jQuery validation, Bootstrap), and of
  the repository's own `site.js` the one function that changes state is in
  `Commissions` (`AddPollingStationComission`). The program is the C# code.
- Records of people, candidates, parties, polling stations and rooms: edited
  one row at a time, in one read and one save. Remote identification
  commissioners and polling station systems appear in `Commissions` only
  through the saves they can make fail.
- `SaveAPI`, the master password and `Signin`: one Put each, which enables the
  other requests of an operator; the models start when this was done.
- The renewal of protection keys by ASP.NET after 90 days, which would add a key
  file to a directory; `JoinKeys` and `GetEncryptionKey` are written for one
  file.
- The lazy opening of the stores (`PersistentStores.cs`): RocksDB refuses to open
  a database twice in one process, so of two first requests the slower gets an
  error page before it has done anything.
- The dates, the name and the configuration of an election, which its PATCH can
  also change: they are constants of `ElectionDay`.
- A `List.Add` that throws because the array of the busy commissioners grows in
  another thread at that moment (`CallDispatch`).
- A second upload of a key while one is between its deletion and its file
  (`KeySetup`).
