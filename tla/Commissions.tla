---------------------------- MODULE Commissions -----------------------------
(***************************************************************************)
(* The polling station commissions of the elections, as officers edit them *)
(* (ElectionsController and EligereESAPI): commissions of commissioners,   *)
(* one of whom may be the president.  The commissions of elections that    *)
(* are held together share a PollingStationGroupId with them, which        *)
(* PSCommissionController and VoterController expect and do not repair.    *)
(*                                                                         *)
(* A handler reads rows and saves later, some twice, because a commission  *)
(* and its president refer to each other.  A save is atomic; it fails when *)
(* a row it changes is gone or a foreign key would dangle (esdb.sql has no *)
(* cascades), and a request may end before any save.  Ids are numbers, in  *)
(* the order in which rows are made; a group is named after the election   *)
(* or the request for which it was drawn.                                  *)
(***************************************************************************)
EXTENDS Naturals, FiniteSets, Functions

CONSTANTS
  Request,         \* the requests to the election system, each answered once
  Election,
  Person,
  MaxCommissions,  \* bound: commissions ever made
  MaxMembers,      \* bound: commissioners ever made
  None

VARIABLES
  groupId,      \* groupId[e] of the elections that exist
  active,       \* the elections that are active
  cast,         \* the elections with votes cast
  commission,   \* the PollingStationCommission rows, by id
  member,       \* the PollingStationCommissioner rows, by id
  lastC, lastM, \* the last ids
  editing,      \* editing[q]: what q has read and not saved yet
  headless,     \* commissions whose president was removed, or was being
                \* seated when the request failed (history)
  unsettled,    \* elections whose commissions may be of another group (history)
  lost, during  \* elections deleted with votes; that got votes while a
                \* request was deleting them (history)

commissions == <<commission, member, lastC, lastM>>
marks == <<headless, unsettled, lost, during>>
cvars == <<groupId, active, cast, commissions, editing, marks>>

-----------------------------------------------------------------------------
Group == Election \union Request \union {None}

CommissionsOf(e) == {c \in DOMAIN commission : commission[c].election = e}

MembersOf(C) == {m \in DOMAIN member : member[m].commission \in C}

PresidentsOf(C) == {commission[c].president : c \in C} \ {None}

NewCommission(e, g) == [election |-> e, group |-> g, president |-> None]

Without(f, S) == Restrict(f, DOMAIN f \ S)

New == [at |-> "new"]
Done == [at |-> "done"]

In(q, at) == editing[q].at = at

To(q, job) == editing' = [editing EXCEPT ![q] = job]

(* The commissions that q has made and not given their presidents yet.     *)
Seating(q) ==
  IF In(q, "seat") THEN {editing[q].commission}
  ELSE IF In(q, "seatAll") THEN DOMAIN editing[q].presidents ELSE {}

CommissionTypeOK ==
  /\ DOMAIN groupId \subseteq Election
  /\ \A e \in DOMAIN groupId : groupId[e] \in Group
  /\ active \subseteq Election /\ cast \subseteq Election
  /\ lastC \in 0 .. MaxCommissions /\ lastM \in 0 .. MaxMembers
  /\ DOMAIN commission \subseteq 1 .. lastC
  /\ \A c \in DOMAIN commission :
       commission[c] \in [election: DOMAIN groupId, group: Group,
                          president: DOMAIN member \union {None}]
  /\ DOMAIN member \subseteq 1 .. lastM
  /\ \A m \in DOMAIN member :
       member[m] \in [commission: DOMAIN commission, person: Person]
  /\ headless \subseteq 1 .. lastC
  /\ unsettled \subseteq Election /\ lost \subseteq Election /\ during \subseteq Election

(* An election that Create made has a group of its own; older ones none.   *)
CommissionInit ==
  /\ groupId \in {g \in [Election -> Election \union {None}] :
                    \A e \in Election : g[e] \in {e, None}}
  /\ active = {} /\ cast = {}
  /\ commission = <<>> /\ member = <<>> /\ lastC = 0 /\ lastM = 0
  /\ editing = [q \in Request |-> New]
  /\ headless = {} /\ unsettled = {} /\ lost = {} /\ during = {}

-----------------------------------------------------------------------------
(* A save fails, or the request is cut off: the saves it made stay.        *)
Fail(q) ==
  /\ editing[q] \notin {New, Done}
  /\ headless' = headless \union (Seating(q) \intersect DOMAIN commission)
  /\ To(q, Done)
  /\ UNCHANGED <<groupId, active, cast, commissions, unsettled, lost, during>>

(* The elections go on: a president turns one on or off (ElectionDay), and *)
(* votes are recorded (TicketIssue).                                       *)
ElectionControl(e) ==
  /\ e \in DOMAIN groupId
  /\ active' = IF e \in active THEN active \ {e} ELSE active \union {e}
  /\ UNCHANGED <<groupId, cast, commissions, editing, marks>>

RecordVote(e) ==
  /\ e \in active \ cast
  /\ cast' = cast \union {e}
  /\ during' = during \union
       {f \in {e} : \E q \in Request : editing[q].at \in {"strip", "gather", "erase"}
                                       /\ editing[q].election = e}
  /\ UNCHANGED <<groupId, active, commissions, editing, headless, unsettled, lost>>

-----------------------------------------------------------------------------
(* New commissions.                                                        *)

(* AddPSCommission: "PSCommission inherits PSGroupId from Election", as it *)
(* read it.                                                                *)
AddPSCommission(q, e, p) ==
  /\ editing[q] = New
  /\ e \in DOMAIN groupId
  /\ To(q, [at |-> "add", election |-> e, group |-> groupId[e], person |-> p])
  /\ UNCHANGED <<groupId, active, cast, commissions, marks>>

Insert(e, g) ==
  /\ lastC < MaxCommissions
  /\ e \in DOMAIN groupId
  /\ lastC' = lastC + 1
  /\ commission' = [c \in DOMAIN commission \union {lastC'} |->
                      IF c = lastC' THEN NewCommission(e, g) ELSE commission[c]]
  /\ UNCHANGED <<groupId, active, cast, member, lastM, lost, during>>

SaveCommission(q) ==
  /\ In(q, "add")
  /\ Insert(editing[q].election, editing[q].group)
  /\ unsettled' = unsettled \union
       {e \in {editing[q].election} : groupId[e] # editing[q].group}
  /\ IF editing[q].person = None
       THEN To(q, Done) /\ headless' = headless \union {lastC'}
       ELSE /\ To(q, [at |-> "seat", commission |-> lastC', person |-> editing[q].person])
            /\ UNCHANGED headless

(* The second save: the president and the reference to it.                 *)
SavePresident(q) ==
  /\ In(q, "seat")
  /\ lastM < MaxMembers
  /\ editing[q].commission \in DOMAIN commission
  /\ lastM' = lastM + 1
  /\ member' = [m \in DOMAIN member \union {lastM'} |->
                  IF m = lastM' THEN [commission |-> editing[q].commission,
                                      person |-> editing[q].person]
                                ELSE member[m]]
  /\ commission' = [commission EXCEPT ![editing[q].commission].president = lastM']
  /\ headless' = headless \ {editing[q].commission}
  /\ To(q, Done)
  /\ UNCHANGED <<groupId, active, cast, lastC, unsettled, lost, during>>

(* site.js puts a commission; the service adds it without a group.  The    *)
(* president that it may name is the id of a person, and the foreign key   *)
(* of PresidentFk, which wants a commissioner's, refuses the save.         *)
AddPollingStationComission(q, e, president) ==
  /\ editing[q] = New
  /\ e \in DOMAIN groupId
  /\ To(q, [at |-> "put", election |-> e, president |-> president])
  /\ UNCHANGED <<groupId, active, cast, commissions, marks>>

NewPSCommissions(q) ==
  /\ In(q, "put") /\ ~editing[q].president
  /\ Insert(editing[q].election, None)
  /\ unsettled' = unsettled \union {editing[q].election}
  /\ headless' = headless \union {lastC'}
  /\ To(q, Done)

(* A PATCH moves a commission when it names another election than the one  *)
(* that was read; when it names a president it fails like the PUT.         *)
UpdatePSCommissions(q, c, e, president) ==
  /\ editing[q] = New
  /\ c \in DOMAIN commission
  /\ To(q, [at |-> "update", commission |-> c, president |-> president,
            from |-> commission[c].election, to |-> e])
  /\ UNCHANGED <<groupId, active, cast, commissions, marks>>

SaveUpdatePSCommissions(q) ==
  LET job == editing[q]
      moved == {job.to} \ {job.from}
  IN /\ In(q, "update") /\ ~job.president
     /\ job.commission \in DOMAIN commission
     /\ moved \subseteq DOMAIN groupId
     /\ commission' = IF moved = {} THEN commission
                      ELSE [commission EXCEPT ![job.commission].election = job.to]
     /\ unsettled' = unsettled \union moved
     /\ To(q, Done)
     /\ UNCHANGED <<groupId, active, cast, member, lastC, lastM, headless, lost, during>>

-----------------------------------------------------------------------------
(* Commissioners.                                                          *)

(* AddPSCommissioner looks whether the person is one already ...           *)
AddPSCommissioner(q, c, p) ==
  /\ editing[q] = New
  /\ c \in DOMAIN commission
  /\ \A m \in MembersOf({c}) : member[m].person # p
  /\ To(q, [at |-> "join", commission |-> c, person |-> p])
  /\ UNCHANGED <<groupId, active, cast, commissions, marks>>

(* ... and AddPSCommissionStaff does not.                                  *)
AddPSCommissionStaff(q, c, p) ==
  /\ editing[q] = New
  /\ c \in DOMAIN commission
  /\ To(q, [at |-> "join", commission |-> c, person |-> p])
  /\ UNCHANGED <<groupId, active, cast, commissions, marks>>

SaveCommissioner(q) ==
  /\ In(q, "join")
  /\ lastM < MaxMembers
  /\ editing[q].commission \in DOMAIN commission
  /\ lastM' = lastM + 1
  /\ member' = [m \in DOMAIN member \union {lastM'} |->
                  IF m = lastM' THEN [commission |-> editing[q].commission,
                                      person |-> editing[q].person]
                                ELSE member[m]]
  /\ To(q, Done)
  /\ UNCHANGED <<groupId, active, cast, commission, lastC, marks>>

(* RemovePSCommissioner clears a president that it read to be m;           *)
(* DeletePSCommissionStaff clears none.                                    *)
RemovePSCommissioner(q, m) ==
  /\ editing[q] = New
  /\ m \in DOMAIN member
  /\ To(q, [at |-> "remove", member |-> m, commission |-> member[m].commission,
            clear |-> commission[member[m].commission].president = m])
  /\ UNCHANGED <<groupId, active, cast, commissions, marks>>

DeletePSCommissionStaff(q, m) ==
  /\ editing[q] = New
  /\ m \in DOMAIN member
  /\ To(q, [at |-> "remove", member |-> m, commission |-> member[m].commission,
            clear |-> FALSE])
  /\ UNCHANGED <<groupId, active, cast, commissions, marks>>

SaveRemovalClearing(q) ==  \* mutant: whoever is president is cleared
  /\ In(q, "remove")
  /\ editing[q].member \in DOMAIN member
  /\ commission' = [commission EXCEPT ![editing[q].commission].president = None]
  /\ member' = Without(member, {editing[q].member})
  /\ headless' = headless \union {c \in {editing[q].commission} : editing[q].clear}
  /\ To(q, Done)
  /\ UNCHANGED <<groupId, active, cast, lastC, lastM, unsettled, lost, during>>

(* Nobody may refer to m afterwards.  A president set meanwhile is cleared *)
(* with the one that was read.                                             *)
SaveRemoval(q) ==
  /\ In(q, "remove")
  /\ editing[q].member \in DOMAIN member
  /\ commission' = IF editing[q].clear
                     THEN [commission EXCEPT ![editing[q].commission].president = None]
                     ELSE commission
  /\ editing[q].member \notin {commission'[c].president : c \in DOMAIN commission}
  /\ member' = Without(member, {editing[q].member})
  /\ headless' = headless \union {c \in {editing[q].commission} : editing[q].clear}
  /\ To(q, Done)
  /\ UNCHANGED <<groupId, active, cast, lastC, lastM, unsettled, lost, during>>

SetAsPresident(q, m) ==
  /\ editing[q] = New
  /\ m \in DOMAIN member
  /\ commission[member[m].commission].president # m
  /\ To(q, [at |-> "preside", member |-> m, commission |-> member[m].commission])
  /\ UNCHANGED <<groupId, active, cast, commissions, marks>>

SaveSetAsPresident(q) ==
  /\ In(q, "preside")
  /\ editing[q].member \in DOMAIN member
  /\ commission' = [commission EXCEPT ![editing[q].commission].president =
                                        editing[q].member]
  /\ headless' = headless \ {editing[q].commission}
  /\ To(q, Done)
  /\ UNCHANGED <<groupId, active, cast, member, lastC, lastM, unsettled, lost, during>>

-----------------------------------------------------------------------------
(* Deletions.                                                              *)

DeleteUnchecked(q, e) ==  \* mutant: whatever votes were cast
  /\ editing[q] = New
  /\ e \in DOMAIN groupId
  /\ \/ /\ CommissionsOf(e) = {}
        /\ To(q, [at |-> "gather", election |-> e, all |-> TRUE, stripped |-> {}])
     \/ \E c \in CommissionsOf(e) :
          To(q, [at |-> IF PresidentsOf({c}) = {} THEN "gather" ELSE "strip",
                 election |-> e, all |-> TRUE, stripped |-> {c}])
  /\ UNCHANGED <<groupId, active, cast, commissions, marks>>

(* Delete, of an election without votes, strips its first commission; the  *)
(* others it only removes at the end, with the election.                   *)
Delete(q, e) ==
  /\ editing[q] = New
  /\ e \in DOMAIN groupId \ cast
  /\ \/ /\ CommissionsOf(e) = {}
        /\ To(q, [at |-> "gather", election |-> e, all |-> TRUE, stripped |-> {}])
     \/ \E c \in CommissionsOf(e) :
          To(q, [at |-> IF PresidentsOf({c}) = {} THEN "gather" ELSE "strip",
                 election |-> e, all |-> TRUE, stripped |-> {c}])
  /\ UNCHANGED <<groupId, active, cast, commissions, marks>>

DeletePSCommission(q, c) ==
  /\ editing[q] = New
  /\ c \in DOMAIN commission
  /\ commission[c].election \notin active
  /\ To(q, [at |-> IF PresidentsOf({c}) = {} THEN "gather" ELSE "strip",
            election |-> commission[c].election, all |-> FALSE, stripped |-> {c}])
  /\ UNCHANGED <<groupId, active, cast, commissions, marks>>

(* The first save: the commission has no president any more.               *)
Strip(q) ==
  /\ In(q, "strip")
  /\ editing[q].stripped \subseteq DOMAIN commission
  /\ commission' = [c \in DOMAIN commission |->
                      IF c \in editing[q].stripped
                        THEN [commission[c] EXCEPT !.president = None] ELSE commission[c]]
  /\ headless' = headless \union editing[q].stripped
  /\ To(q, [editing[q] EXCEPT !.at = "gather"])
  /\ UNCHANGED <<groupId, active, cast, member, lastC, lastM, unsettled, lost, during>>

(* The queries for what is to be removed, ...                              *)
Gather(q) ==
  /\ In(q, "gather")
  /\ To(q, [at |-> "erase", election |-> editing[q].election, all |-> editing[q].all,
            commissions |-> IF editing[q].all THEN CommissionsOf(editing[q].election)
                                              ELSE editing[q].stripped,
            members |-> MembersOf(editing[q].stripped)])
  /\ UNCHANGED <<groupId, active, cast, commissions, marks>>

(* ... and the second save, which leaves no reference to it.               *)
Erase(q) ==
  LET job == editing[q]
      gone == {e \in {job.election} : job.all}
  IN /\ In(q, "erase")
     /\ job.commissions \subseteq DOMAIN commission
     /\ gone \subseteq DOMAIN groupId
     /\ \A e \in gone : CommissionsOf(e) \subseteq job.commissions
     /\ MembersOf(job.commissions) = job.members
     /\ job.members \subseteq DOMAIN member
     /\ PresidentsOf(DOMAIN commission) \intersect job.members = {}
     /\ commission' = Without(commission, job.commissions)
     /\ member' = Without(member, job.members)
     /\ groupId' = Without(groupId, gone)
     /\ active' = active \ gone
     /\ cast' = cast \ gone
     /\ lost' = lost \union (cast \intersect gone)
     /\ To(q, Done)
     /\ UNCHANGED <<lastC, lastM, headless, unsettled, during>>

-----------------------------------------------------------------------------
(* ClonePSCommissions.                                                     *)

(* While the poll of the source has not begun (upcoming), the destination  *)
(* takes its group; a source without one gets a new one, and its           *)
(* commissions too.                                                        *)
ClonePSCommissions(q, s, d, upcoming) ==
  /\ editing[q] = New
  /\ s \in DOMAIN groupId /\ d \in DOMAIN groupId /\ s # d
  /\ To(q, [at |-> "clone", from |-> s, to |-> d, upcoming |-> upcoming,
            fresh |-> upcoming /\ groupId[s] = None,
            sgroup |-> groupId[s], dgroup |-> groupId[d]])
  /\ UNCHANGED <<groupId, active, cast, commissions, marks>>

(* The commissions of the source and their members, here read at once.     *)
ReadCommissions(q) ==
  /\ In(q, "clone")
  /\ LET C == CommissionsOf(editing[q].from)
     IN To(q, [at |-> "copy", from |-> editing[q].from, to |-> editing[q].to,
               upcoming |-> editing[q].upcoming, fresh |-> editing[q].fresh,
               sgroup |-> editing[q].sgroup, dgroup |-> editing[q].dgroup,
               commissions |-> Restrict(commission, C),
               members |-> Restrict(member, MembersOf(C))])
  /\ UNCHANGED <<groupId, active, cast, commissions, marks>>

(* The id of the copy of x: the copies are made in the order of the ids.   *)
CopyOf(x, S, last) == last + Cardinality({y \in S : y =< x})

Original(n, S, last) == CHOOSE x \in S : CopyOf(x, S, last) = n

(* What the first save of a clone makes of the groups, of the commissions  *)
(* and of their members, and the presidents that the second one will seat. *)
LinkedGroup(q) == IF editing[q].fresh THEN q ELSE editing[q].sgroup

ClonedGroups(q) ==
  [e \in DOMAIN groupId |->
     IF e = editing[q].from /\ editing[q].fresh THEN q
     ELSE IF e = editing[q].to /\ editing[q].upcoming /\ LinkedGroup(q) # editing[q].dgroup
            THEN LinkedGroup(q) ELSE groupId[e]]

ClonesOnly(q) ==  \* mutant: the source's commissions do not get the new group
  LET old == editing[q].commissions
      C == DOMAIN old
  IN [c \in DOMAIN commission \union {CopyOf(x, C, lastC) : x \in C} |->
        IF c \in DOMAIN commission THEN commission[c]
          ELSE NewCommission(editing[q].to,
                 IF editing[q].fresh THEN q ELSE old[Original(c, C, lastC)].group)]

ClonedCommissions(q) ==
  LET old == editing[q].commissions
      C == DOMAIN old
  IN [c \in DOMAIN commission \union {CopyOf(x, C, lastC) : x \in C} |->
        IF c \notin DOMAIN commission
          THEN NewCommission(editing[q].to,
                 IF editing[q].fresh THEN q ELSE old[Original(c, C, lastC)].group)
        ELSE IF c \in C /\ editing[q].fresh THEN [commission[c] EXCEPT !.group = q]
        ELSE commission[c]]

ClonedMembers(q) ==
  LET C == DOMAIN editing[q].commissions
      M == DOMAIN editing[q].members
  IN [m \in DOMAIN member \union {CopyOf(x, M, lastM) : x \in M} |->
        IF m \in DOMAIN member THEN member[m]
        ELSE LET x == editing[q].members[Original(m, M, lastM)]
             IN [x EXCEPT !.commission = CopyOf(x.commission, C, lastC)]]

OldPresidents(q) ==  \* mutant: the president is not the copy
  LET old == editing[q].commissions
      C == DOMAIN old
      led == {x \in C : old[x].president \in DOMAIN editing[q].members}
  IN [c \in {CopyOf(x, C, lastC) : x \in led} |->
        old[Original(c, C, lastC)].president]

ClonedPresidents(q) ==
  LET old == editing[q].commissions
      C == DOMAIN old
      M == DOMAIN editing[q].members
      led == {x \in C : old[x].president \in M}
  IN [c \in {CopyOf(x, C, lastC) : x \in led} |->
        CopyOf(old[Original(c, C, lastC)].president, M, lastM)]

Copies(q) == {CopyOf(x, DOMAIN editing[q].commissions, lastC) :
                x \in DOMAIN editing[q].commissions}

(* The destination's commissions may be of another group than it when it   *)
(* had some, when the source's are or its poll had begun, and when what    *)
(* was read is no longer so; the source's when one was added meanwhile.    *)
Mixed(q) ==
  LET s == editing[q].from
      d == editing[q].to
      old == editing[q].commissions
  IN {e \in {d} : \/ CommissionsOf(d) # {} \/ ~editing[q].upcoming
                  \/ s \in unsettled \/ s \notin DOMAIN groupId
                  \/ s \in DOMAIN groupId /\ groupId[s] # editing[q].sgroup
                  \/ groupId[d] # editing[q].dgroup
                  \/ \E c \in DOMAIN old : \/ c \notin CommissionsOf(s)
                                          \/ commission[c].group # old[c].group}
     \union {e \in {s} : editing[q].fresh /\ CommissionsOf(s) # DOMAIN old}

SaveClone(q) ==
  /\ In(q, "copy")
  /\ lastC + Cardinality(DOMAIN editing[q].commissions) =< MaxCommissions
  /\ lastM + Cardinality(DOMAIN editing[q].members) =< MaxMembers
  /\ editing[q].to \in DOMAIN groupId
  /\ editing[q].fresh => /\ editing[q].from \in DOMAIN groupId
                         /\ DOMAIN editing[q].commissions \subseteq DOMAIN commission
  /\ groupId' = ClonedGroups(q)
  /\ commission' = ClonedCommissions(q)
  /\ member' = ClonedMembers(q)
  /\ lastC' = lastC + Cardinality(DOMAIN editing[q].commissions)
  /\ lastM' = lastM + Cardinality(DOMAIN editing[q].members)
  /\ headless' = headless \union (Copies(q) \ DOMAIN ClonedPresidents(q))
  /\ unsettled' = unsettled \union Mixed(q)
  /\ To(q, [at |-> "seatAll", presidents |-> ClonedPresidents(q)])
  /\ UNCHANGED <<active, cast, lost, during>>

(* "Needed to avoid circular dependencies."                                *)
SavePresidents(q) ==
  /\ In(q, "seatAll")
  /\ DOMAIN editing[q].presidents \subseteq DOMAIN commission
  /\ \A c \in DOMAIN editing[q].presidents : editing[q].presidents[c] \in DOMAIN member
  /\ commission' = [c \in DOMAIN commission |->
                      IF c \in DOMAIN editing[q].presidents
                        THEN [commission[c] EXCEPT !.president = editing[q].presidents[c]]
                        ELSE commission[c]]
  /\ headless' = headless \ DOMAIN editing[q].presidents
  /\ To(q, Done)
  /\ UNCHANGED <<groupId, active, cast, member, lastC, lastM, unsettled, lost, during>>

-----------------------------------------------------------------------------
CommissionStep(q) ==
  \/ \E e \in Election : \/ \E p \in Person \union {None} : AddPSCommission(q, e, p)
                         \/ \E b \in BOOLEAN : AddPollingStationComission(q, e, b)
                         \/ Delete(q, e)
  \/ \E c \in DOMAIN commission :
       \/ \E e \in Election, b \in BOOLEAN : UpdatePSCommissions(q, c, e, b)
       \/ \E p \in Person : AddPSCommissioner(q, c, p) \/ AddPSCommissionStaff(q, c, p)
       \/ DeletePSCommission(q, c)
  \/ \E m \in DOMAIN member :
       RemovePSCommissioner(q, m) \/ DeletePSCommissionStaff(q, m) \/ SetAsPresident(q, m)
  \/ \E s, d \in Election, upcoming \in BOOLEAN : ClonePSCommissions(q, s, d, upcoming)
  \/ SaveCommission(q) \/ SavePresident(q) \/ NewPSCommissions(q)
  \/ SaveUpdatePSCommissions(q)
  \/ SaveCommissioner(q) \/ SaveRemoval(q) \/ SaveSetAsPresident(q)
  \/ Strip(q) \/ Gather(q) \/ Erase(q)
  \/ ReadCommissions(q) \/ SaveClone(q) \/ SavePresidents(q)
  \/ Fail(q)

ElectionStep == \E e \in Election : ElectionControl(e) \/ RecordVote(e)

-----------------------------------------------------------------------------
(* The president of a commission is one of its commissioners, also of a    *)
(* copy (ElectionsController.cs:728, 758-762): the foreign key only says   *)
(* that the president is a commissioner of some commission.                *)
PresidentSitsOnIt ==
  \A c \in DOMAIN commission :
    commission[c].president # None => member[commission[c].president].commission = c

(* A commission is without president only when it was made so, when the    *)
(* president was removed or a deletion began, or when the request that was *)
(* to seat one failed between its two saves (ElectionsController.cs:305,   *)
(* 349, 391, 755): another commissioner's removal, a clone or a late       *)
(* SetAsPresident does not take it away.                                   *)
HeadlessOnPurpose ==
  \A c \in DOMAIN commission :
    commission[c].president = None =>
      c \in headless \/ \E q \in Request : c \in Seating(q)

(* The commissions of an election are of its group, as the checks of       *)
(* PSCommissionController.cs:65-73 and VoterController.cs:82-92 require,   *)
(* unless one came without a group or from another election, the clone met *)
(* commissions or a poll that had begun, or it met another edit.           *)
GroupsAgree ==
  \A c \in DOMAIN commission :
    commission[c].group = groupId[commission[c].election]
      \/ commission[c].election \in unsettled

(* An election is deleted with votes only when these came while it was     *)
(* being deleted (ElectionsController.cs:154 looks for votes, 174 deletes  *)
(* the voters).                                                            *)
VotesAreKept == lost \subseteq during
=============================================================================
