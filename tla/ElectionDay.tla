----------------------------- MODULE ElectionDay -----------------------------
(***************************************************************************)
(* The life of the elections across the two services.  The election system *)
(* keeps Configuring, Active, Started and Closed of every election         *)
(* (PSCommissionController.ElectionControl for the presidents of the       *)
(* commissions, SetupController.StartDailyElections, and the calls of      *)
(* EligereESAPI); the voting system asks it once which elections run       *)
(* (HomeController.LoadESElectionConfiguration), tells it that they        *)
(* started, and tells it that they are closed when the operator tallies    *)
(* (HomeController.Tally).                                                 *)
(*                                                                         *)
(* A handler of the election system reads rows and saves them later, with  *)
(* the columns it changed and no others.  A call between the services may  *)
(* not arrive, may fail there, and its answer may be lost.  Time is the    *)
(* day of the polls: the minutes before and after are not modelled.        *)
(***************************************************************************)
EXTENDS Naturals, FiniteSets

CONSTANTS
  Election,
  GroupOf,    \* GroupOf[e]: PollingStationGroupId, or NoGroup
  NoGroup,
  FirstDay,   \* FirstDay[e] .. LastDay[e]: the days of the poll
  LastDay,
  Days,       \* bound: the days that pass
  Presides,   \* the sets of elections a president presides over
  Control,    \* POST ElectionControl requests
  Patch,      \* PATCH Election requests of officers
  Edited,     \* bound: the elections they are about
  Load,       \* LoadESElectionConfiguration requests
  Tallying,   \* Tally requests
  None        \* nothing loaded, nothing read

ASSUME DayAssumption ==
  /\ FirstDay \in [Election -> Nat]
  /\ LastDay \in [Election -> Nat]
  /\ Days \in Nat \ {0}
  /\ Presides \subseteq SUBSET Election
  /\ Edited \subseteq Election
  /\ \A S \in SUBSET Election : S # None

VARIABLES
  day,
  configuring, active, started, closed,  \* the elections that are so
  conf,     \* the contests the voting system has loaded, or None
  sealed,   \* a tally has sealed the ballot box
  control,  \* control[q]: what an ElectionControl request read
  patch,    \* patch[q]: what a PATCH is about to save
  load,     \* load[q]: where it is and what RunningElections answered
  tally,    \* tally[q]: where it is and what it closes
  crossed   \* history: a load was answered other elections than those before

es == <<configuring, active, started, closed>>
vs == <<conf, sealed>>
requests == <<control, patch, load, tally, crossed>>
vars == <<day, es, vs, requests>>

-----------------------------------------------------------------------------
InPoll(e) == FirstDay[e] =< day /\ day =< LastDay[e]

Groups(S) == {GroupOf[e] : e \in S}

(* The elections a president controls: those of the own commissions that   *)
(* poll today and are not closed; when these are several, all of their     *)
(* group, or without a group the first that polls, of any commission.      *)
Own(mine) == {e \in mine \ closed : InPoll(e)}

Earliest == {e \in Election \ closed :
               /\ InPoll(e)
               /\ \A f \in Election \ closed : InPoll(f) => FirstDay[e] =< FirstDay[f]}

Controlled(mine) ==
  IF Cardinality(Own(mine)) =< 1 THEN {Own(mine)}
  ELSE IF Groups(Own(mine)) = {NoGroup} THEN {{e} : e \in Earliest}
       ELSE {{e \in Election \ closed : GroupOf[e] \in Groups(Own(mine))}}

(* What RunningElections answers: the elections being configured, and the  *)
(* others of their group; a missing group is taken for a new one.          *)
Configured == {e \in configuring : InPoll(e)}

ConfiguredOnly == Configured  \* mutant: without the elections of later days

RunningElections ==
  Configured \union {e \in Election : /\ GroupOf[e] # NoGroup
                                      /\ GroupOf[e] \in Groups(Configured)}

(* GenerateTicket makes tickets for these.                                 *)
Ticketed == (active \intersect started) \ closed

(* What a save changes: the columns that differ from what was read.        *)
Save(column, wasIn, S, value) ==
  IF value THEN column \union (S \ wasIn) ELSE column \ (S \intersect wasIn)

Idle == [at |-> "idle", elections |-> {}]

Steps == [at: {"idle", "checked", "asked", "told"}, elections: SUBSET Election]

(* What a POST ElectionControl is about to save; it never turns both on.   *)
Controls ==
  {c \in [elections: SUBSET Election, configuring: SUBSET Election,
          active: SUBSET Election, confstate: BOOLEAN, state: BOOLEAN] :
     ~(c.confstate /\ c.state)}

Patches == [election: Edited, active: BOOLEAN, state: BOOLEAN]

(* Type invariant; no ElectionControl request asks for both columns        *)
(* (PSCommissionController.cs:555).                                        *)
TypeOK ==
  /\ day \in 1 .. Days
  /\ configuring \subseteq Election /\ active \subseteq Election
  /\ started \subseteq Election /\ closed \subseteq Election
  /\ conf \in {None} \union SUBSET Election
  /\ sealed \in BOOLEAN
  /\ control \in [Control -> {None} \union Controls]
  /\ patch \in [Patch -> {None} \union Patches]
  /\ load \in [Load -> Steps]
  /\ tally \in [Tallying -> Steps]
  /\ crossed \in BOOLEAN

Init ==
  /\ day = 1
  /\ configuring = {} /\ active = {} /\ started = {} /\ closed = {}
  /\ conf = None
  /\ sealed = FALSE
  /\ control = [q \in Control |-> None]
  /\ patch = [q \in Patch |-> None]
  /\ load = [q \in Load |-> Idle]
  /\ tally = [q \in Tallying |-> Idle]
  /\ crossed = FALSE

-----------------------------------------------------------------------------
(* The presidents.                                                         *)

(* POST ElectionControl reads the elections; several groups at once make   *)
(* it throw.  Activating ends configuring.                                 *)
ControlBoth(q, mine, confstate, state) ==  \* mutant: activating leaves configuring on
  /\ control[q] = None
  /\ Cardinality(Own(mine)) > 1 => Cardinality(Groups(Own(mine))) = 1
  /\ \E elist \in Controlled(mine) :
       LET today == {e \in elist : InPoll(e)}
       IN control' = [control EXCEPT ![q] =
            [elections |-> today,
             configuring |-> configuring \intersect today,
             active |-> active \intersect today,
             confstate |-> confstate, state |-> state]]
  /\ UNCHANGED <<day, es, vs, patch, load, tally, crossed>>

ElectionControl(q, mine, confstate, state) ==
  /\ control[q] = None
  /\ Cardinality(Own(mine)) > 1 => Cardinality(Groups(Own(mine))) = 1
  /\ \E elist \in Controlled(mine) :
       LET today == {e \in elist : InPoll(e)}
       IN control' = [control EXCEPT ![q] =
            [elections |-> today,
             configuring |-> configuring \intersect today,
             active |-> active \intersect today,
             confstate |-> confstate /\ ~state, state |-> state]]
  /\ UNCHANGED <<day, es, vs, patch, load, tally, crossed>>

SaveElectionControl(q) ==
  /\ control[q] # None
  /\ configuring' = Save(configuring, control[q].configuring,
                         control[q].elections, control[q].confstate)
  /\ active' = Save(active, control[q].active,
                    control[q].elections, control[q].state)
  /\ control' = [control EXCEPT ![q] = None]
  /\ UNCHANGED <<day, started, closed, vs, patch, load, tally, crossed>>

(* PATCH Election/{id}: an officer writes the columns of the election's    *)
(* form, of which Active concerns the day (name, dates and configuration   *)
(* are constants here), whatever Started, Closed and Configuring say.      *)
UpdateElection(q, e, state) ==
  /\ patch[q] = None
  /\ patch' = [patch EXCEPT ![q] =
       [election |-> e, active |-> e \in active, state |-> state]]
  /\ UNCHANGED <<day, es, vs, control, load, tally, crossed>>

SaveUpdateElection(q) ==
  /\ patch[q] # None
  /\ LET e == patch[q].election
     IN active' = Save(active, IF patch[q].active THEN {e} ELSE {}, {e}, patch[q].state)
  /\ patch' = [patch EXCEPT ![q] = None]
  /\ UNCHANGED <<day, configuring, started, closed, vs, control, load, tally, crossed>>

(* SetupController: the administrator activates by date alone, from the    *)
(* day before the poll.                                                    *)
StartDailyElections ==
  /\ active' = active \union {e \in Election : FirstDay[e] =< day + 1 /\ day =< LastDay[e]}
  /\ UNCHANGED <<day, configuring, started, closed, vs, requests>>

NextDay ==
  /\ day < Days
  /\ day' = day + 1
  /\ UNCHANGED <<es, vs, requests>>

-----------------------------------------------------------------------------
(* LoadESElectionConfiguration.                                            *)

LoadTo(q, at, S) == load' = [load EXCEPT ![q] = [at |-> at, elections |-> S]]

(* It goes on when nothing is loaded ...                                   *)
CheckLoaded(q) ==
  /\ load[q].at = "idle"
  /\ conf = None
  /\ LoadTo(q, "checked", {})
  /\ UNCHANGED <<day, es, vs, control, patch, tally, crossed>>

(* The elections that another load carries, that have started or that are  *)
(* loaded are no others than S.                                            *)
Carries(q) == load[q].at \in {"asked", "told"}

AsBefore(q, S) ==
  /\ \A x \in Load \ {q} : Carries(x) => load[x].elections = S
  /\ started \subseteq S
  /\ conf \in {None, S}

(* ... and asks for the running elections; the election system throws when *)
(* there are none, or of two groups.                                       *)
AskRunningElections(q) ==
  /\ load[q].at = "checked"
  /\ Cardinality(Groups(Configured)) = 1
  /\ LoadTo(q, "asked", RunningElections)
  /\ crossed' = (crossed \/ ~AsBefore(q, RunningElections))
  /\ UNCHANGED <<day, es, vs, control, patch, tally>>

StartElectionsReopening(q) ==  \* mutant: an election that starts is not closed
  /\ load[q].at = "asked"
  /\ started' = started \union load[q].elections
  /\ closed' = closed \ load[q].elections
  /\ LoadTo(q, "told", load[q].elections)
  /\ UNCHANGED <<day, configuring, active, vs, control, patch, tally, crossed>>

StartElectionsRunning(q) ==  \* mutant: looks again for the elections that run
  /\ load[q].at = "asked"
  /\ started' = started \union RunningElections
  /\ LoadTo(q, "told", load[q].elections)
  /\ UNCHANGED <<day, configuring, active, closed, vs, control, patch, tally, crossed>>

(* StartElections sets Started on them ...                                 *)
StartElections(q) ==
  /\ load[q].at = "asked"
  /\ started' = started \union load[q].elections
  /\ LoadTo(q, "told", load[q].elections)
  /\ UNCHANGED <<day, configuring, active, closed, vs, control, patch, tally, crossed>>

(* ... or fails there, which the voting system does not look at;           *)
StartElectionsFails(q) ==
  /\ load[q].at = "asked"
  /\ LoadTo(q, "told", load[q].elections)
  /\ UNCHANGED <<day, es, vs, control, patch, tally, crossed>>

(* a call that is not answered ends the request, whatever it did.          *)
LoadDies(q) ==
  /\ load[q].at \in {"checked", "asked", "told"}
  /\ load' = [load EXCEPT ![q] = Idle]
  /\ UNCHANGED <<day, es, vs, control, patch, tally, crossed>>

PutConfiguration(q) ==
  /\ load[q].at = "told"
  /\ conf' = load[q].elections
  /\ load' = [load EXCEPT ![q] = Idle]
  /\ UNCHANGED <<day, es, sealed, control, patch, tally, crossed>>

-----------------------------------------------------------------------------
(* Tally: the operator has the five keys.                                  *)

BeginTally(q) ==
  /\ tally[q].at = "idle"
  /\ conf # None
  /\ tally' = [tally EXCEPT ![q] = [at |-> "asked", elections |-> conf]]
  /\ UNCHANGED <<day, es, vs, control, patch, load, crossed>>

CloseElections(q) ==
  /\ tally[q].at = "asked"
  /\ closed' = closed \union tally[q].elections
  /\ configuring' = configuring \ tally[q].elections
  /\ active' = active \ tally[q].elections
  /\ tally' = [tally EXCEPT ![q].at = "told"]
  /\ UNCHANGED <<day, started, vs, control, patch, load, crossed>>

TallyDies(q) ==
  /\ tally[q].at \in {"asked", "told"}
  /\ tally' = [tally EXCEPT ![q] = Idle]
  /\ UNCHANGED <<day, es, vs, control, patch, load, crossed>>

Seal(q) ==
  /\ tally[q].at = "told"
  /\ sealed' = TRUE
  /\ tally' = [tally EXCEPT ![q] = Idle]
  /\ UNCHANGED <<day, es, conf, control, patch, load, crossed>>

-----------------------------------------------------------------------------
Presidents ==
  \E q \in Control :
    \/ \E mine \in Presides, confstate, state \in BOOLEAN :
         ElectionControl(q, mine, confstate, state)
    \/ SaveElectionControl(q)

Officers ==
  \E q \in Patch :
    \/ \E e \in Edited, state \in BOOLEAN : UpdateElection(q, e, state)
    \/ SaveUpdateElection(q)

Loading ==
  \E q \in Load :
    \/ CheckLoaded(q)
    \/ AskRunningElections(q)
    \/ StartElections(q)
    \/ StartElectionsFails(q)
    \/ LoadDies(q)
    \/ PutConfiguration(q)

Closing ==
  \E q \in Tallying :
    BeginTally(q) \/ CloseElections(q) \/ TallyDies(q) \/ Seal(q)

Next == Presidents \/ Officers \/ StartDailyElections \/ NextDay \/ Loading \/ Closing

Spec == Init /\ [][Next]_vars

-----------------------------------------------------------------------------
(* Once elections are loaded, tickets are made only for elections the      *)
(* voting system can show a ballot for;                                    *)
(* VoteController.ElectionCard (VoteController.cs:68) calls anything       *)
(* else an "Invalid state in ElectionCard generation (ticket referring to  *)
(* non-existing election)".  Loads that cross are the exception: each      *)
(* election has a group of its own when it is created                      *)
(* (ElectionsController.cs:102), and of two loads that are answered        *)
(* different groups both start their elections, and the later one stores   *)
(* its own (HomeController.cs:396-429).                                    *)
TicketedIsLoaded ==
  conf # None /\ ~crossed => Ticketed \subseteq conf

(* EligereESAPI.cs:377-379: "we must ensure that all the elections in the  *)
(* same group are present in the voting system", also those that poll on a *)
(* later day.                                                              *)
WholeGroupLoaded ==
  conf # None =>
    \A e \in conf, f \in Election :
      GroupOf[e] # NoGroup /\ GroupOf[f] = GroupOf[e] => f \in conf

(* Once the box is sealed no election that is loaded gives tickets,        *)
(* whatever an ElectionControl, a PATCH, a StartElections or a             *)
(* StartDailyElections still under way writes (EligereESAPI.cs:306-340,    *)
(* HomeController.cs:346).  Again the exception are loads that cross: one  *)
(* that found nothing loaded may store its answer over the elections that  *)
(* were tallied meanwhile (HomeController.cs:396-429).                     *)
SealedMeansOver == sealed /\ ~crossed => Ticketed \intersect conf = {}
=============================================================================
