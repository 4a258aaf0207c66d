--------------------------- MODULE ElectionDayProofs ---------------------------
(***************************************************************************)
(* What holds of ElectionDay for every set of elections, groups, days and  *)
(* requests.                                                               *)
(***************************************************************************)
EXTENDS ElectionDay, FiniteSetTheorems, TLAPS

(* S has all of a group or nothing of it.                                  *)
WholeGroups(S) ==
  \A e \in S, f \in Election : GroupOf[e] # NoGroup /\ GroupOf[f] = GroupOf[e] => f \in S

(* WholeGroupLoaded is not inductive: what is loaded was computed by an    *)
(* earlier step, and travels in a request until it is stored.              *)
GroupInv ==
  /\ \A q \in Load : Carries(q) => WholeGroups(load[q].elections)
  /\ conf # None => WholeGroups(conf)

(* What RunningElections answers: the two cases of its union, an election  *)
(* that is configured and one that is there for its group, lead to the     *)
(* same group.                                                             *)
LEMMA AnswerIsWhole == WholeGroups(RunningElections)
<1> SUFFICES ASSUME NEW e \in RunningElections, NEW f \in Election,
                    GroupOf[e] # NoGroup, GroupOf[f] = GroupOf[e]
             PROVE  f \in RunningElections
  BY DEF WholeGroups
<1>1. GroupOf[e] \in Groups(Configured)
  BY DEF RunningElections, Groups
<1> QED
  BY <1>1 DEF RunningElections

(* Steps that concern no load.                                             *)
LEMMA OthersLeaveLoads ==
  ASSUME Presidents \/ Officers \/ StartDailyElections \/ NextDay \/ Closing \/ UNCHANGED vars
  PROVE  UNCHANGED <<load, conf, started, crossed>>
BY DEF Presidents, ElectionControl, SaveElectionControl, Officers, UpdateElection,
       SaveUpdateElection, StartDailyElections, NextDay, Closing, BeginTally,
       CloseElections, TallyDies, Seal, vars, es, vs, requests

(* A request moves on with the elections it has, or is dropped.            *)
LEMMA LoadMoves ==
  ASSUME TypeOK, GroupInv, NEW q \in Load, NEW at,
         NEW S, load' = [load EXCEPT ![q] = [at |-> at, elections |-> S]],
         WholeGroups(S) \/ at \in {"idle", "checked"},
         conf' = conf \/ WholeGroups(conf')
  PROVE  GroupInv'
<1>1. \A x \in Load : load'[x] = IF x = q THEN [at |-> at, elections |-> S] ELSE load[x]
  BY DEF TypeOK
<1>2. \A x \in Load : Carries(x)' => WholeGroups(load'[x].elections)
  BY <1>1 DEF GroupInv, Carries
<1>3. conf' # None => WholeGroups(conf')
  BY DEF GroupInv
<1> QED
  BY <1>2, <1>3 DEF GroupInv, WholeGroups

-----------------------------------------------------------------------------
(* Types.                                                                  *)

LEMMA PresidentsTypes ==
  ASSUME TypeOK, Presidents
  PROVE  TypeOK'
<1>1. ASSUME NEW q \in Control, NEW mine \in Presides,
             NEW confstate \in BOOLEAN, NEW state \in BOOLEAN,
             ElectionControl(q, mine, confstate, state)
      PROVE  TypeOK'
  <2> PICK elist \in Controlled(mine) :
             control' = [control EXCEPT ![q] =
               [elections |-> {e \in elist : InPoll(e)},
                configuring |-> configuring \intersect {e \in elist : InPoll(e)},
                active |-> active \intersect {e \in elist : InPoll(e)},
                confstate |-> confstate /\ ~state, state |-> state]]
    BY <1>1 DEF ElectionControl
  <2>1. elist \subseteq Election
    <3>1. Own(mine) \subseteq Election /\ Earliest \subseteq Election
      BY <1>1, DayAssumption DEF Own, Earliest
    <3> QED
      BY <3>1 DEF Controlled
  <2> DEFINE c == [elections |-> {e \in elist : InPoll(e)},
                   configuring |-> configuring \intersect {e \in elist : InPoll(e)},
                   active |-> active \intersect {e \in elist : InPoll(e)},
                   confstate |-> confstate /\ ~state, state |-> state]
  <2>2. c \in Controls
    <3>1. (confstate /\ ~state) \in BOOLEAN /\ ~((confstate /\ ~state) /\ state)
      OBVIOUS
    <3>2. c.confstate = (confstate /\ ~state) /\ c.state = state
      OBVIOUS
    <3>3. c \in [elections: SUBSET Election, configuring: SUBSET Election,
                 active: SUBSET Election, confstate: BOOLEAN, state: BOOLEAN]
      BY <2>1, <3>1
    <3> HIDE DEF c
    <3> QED
      BY <3>1, <3>2, <3>3 DEF Controls
  <2>3. control' \in [Control -> {None} \union Controls]
    <3> HIDE DEF c
    <3>1. control' = [control EXCEPT ![q] = c]
      BY DEF c
    <3> QED
      BY <3>1, <2>2 DEF TypeOK
  <2> QED
    BY <1>1, <2>3 DEF ElectionControl, TypeOK, es, vs
<1>2. ASSUME NEW q \in Control, SaveElectionControl(q)
      PROVE  TypeOK'
  <2>1. control[q] \in Controls
    BY <1>2 DEF SaveElectionControl, TypeOK
  <2>2. control[q].elections \subseteq Election
    BY <2>1 DEF Controls
  <2>3. control' \in [Control -> {None} \union Controls]
    BY <1>2 DEF SaveElectionControl, TypeOK
  <2>4. configuring' \subseteq Election /\ active' \subseteq Election
    BY <1>2, <2>2 DEF SaveElectionControl, Save, TypeOK
  <2> QED
    BY <1>2, <2>3, <2>4 DEF SaveElectionControl, TypeOK, vs
<1> QED
  BY <1>1, <1>2 DEF Presidents

LEMMA OfficersTypes ==
  ASSUME TypeOK, Officers
  PROVE  TypeOK'
<1>1. ASSUME NEW q \in Patch, NEW e \in Edited, NEW state \in BOOLEAN,
             UpdateElection(q, e, state)
      PROVE  TypeOK'
  <2> DEFINE c == [election |-> e, active |-> e \in active, state |-> state]
  <2>1. (e \in active) \in BOOLEAN
    OBVIOUS
  <2>2. c \in Patches
    BY <2>1 DEF Patches
  <2>3. patch' \in [Patch -> {None} \union Patches]
    <3> HIDE DEF c
    <3>1. patch' = [patch EXCEPT ![q] = c]
      BY <1>1 DEF UpdateElection, c
    <3> QED
      BY <3>1, <2>2 DEF TypeOK
  <2> QED
    BY <1>1, <2>3 DEF UpdateElection, TypeOK, es, vs
<1>2. ASSUME NEW q \in Patch, SaveUpdateElection(q)
      PROVE  TypeOK'
  <2>1. patch[q] \in Patches
    BY <1>2 DEF SaveUpdateElection, TypeOK
  <2>2. patch[q].election \in Election
    BY <2>1, DayAssumption DEF Patches
  <2>3. active' \subseteq active \union {patch[q].election}
    BY <1>2 DEF SaveUpdateElection, Save
  <2>4. patch' \in [Patch -> {None} \union Patches]
    BY <1>2 DEF SaveUpdateElection, TypeOK
  <2> QED
    BY <1>2, <2>2, <2>3, <2>4 DEF SaveUpdateElection, TypeOK, vs
<1> QED
  BY <1>1, <1>2 DEF Officers

LEMMA LoadingTypes ==
  ASSUME TypeOK, Loading
  PROVE  TypeOK'
<1>1. ASSUME NEW q \in Load, NEW at \in {"idle", "checked", "asked", "told"},
             NEW S \in SUBSET Election, load' = [load EXCEPT ![q] = [at |-> at, elections |-> S]]
      PROVE  load' \in [Load -> Steps]
  BY <1>1 DEF TypeOK, Steps
<1>2. \A q \in Load : load[q].elections \in SUBSET Election
  BY DEF TypeOK, Steps
<1>3. RunningElections \in SUBSET Election
  BY DEF RunningElections, Configured, TypeOK
<1>9. PICK none \in SUBSET Election : none = {}
  OBVIOUS
<1>10. ASSUME NEW q \in Load, CheckLoaded(q) PROVE TypeOK'
  <2>1. load' = [load EXCEPT ![q] = [at |-> "checked", elections |-> none]]
    BY <1>9, <1>10 DEF CheckLoaded, LoadTo
  <2>2. load' \in [Load -> Steps]
    BY <1>1, <2>1
  <2> QED
    BY <1>10, <2>2 DEF CheckLoaded, TypeOK, es, vs
<1>4. ASSUME NEW q \in Load, AskRunningElections(q) PROVE TypeOK'
  <2>1. crossed' \in BOOLEAN
    BY <1>4 DEF AskRunningElections, TypeOK
  <2> QED
    BY <1>1, <1>3, <1>4, <2>1 DEF AskRunningElections, LoadTo, TypeOK, es, vs
<1>5. ASSUME NEW q \in Load, StartElections(q) PROVE TypeOK'
  BY <1>1, <1>2, <1>5 DEF StartElections, LoadTo, TypeOK, vs
<1>6. ASSUME NEW q \in Load, StartElectionsFails(q) PROVE TypeOK'
  BY <1>1, <1>2, <1>6 DEF StartElectionsFails, LoadTo, TypeOK, es, vs
<1>7. ASSUME NEW q \in Load, LoadDies(q) PROVE TypeOK'
  <2>1. load' = [load EXCEPT ![q] = [at |-> "idle", elections |-> none]]
    BY <1>7, <1>9 DEF LoadDies, Idle
  <2>2. load' \in [Load -> Steps]
    BY <1>1, <2>1
  <2> QED
    BY <1>7, <2>2 DEF LoadDies, TypeOK, es, vs
<1>8. ASSUME NEW q \in Load, PutConfiguration(q) PROVE TypeOK'
  <2>1. load' = [load EXCEPT ![q] = [at |-> "idle", elections |-> none]]
    BY <1>8, <1>9 DEF PutConfiguration, Idle
  <2>2. load' \in [Load -> Steps]
    BY <1>1, <2>1
  <2> QED
    BY <1>2, <1>8, <2>2 DEF PutConfiguration, TypeOK, es
<1> QED
  BY <1>4, <1>5, <1>6, <1>7, <1>8, <1>10 DEF Loading

LEMMA ClosingTypes ==
  ASSUME TypeOK, Closing
  PROVE  TypeOK'
<1>1. ASSUME NEW q \in Tallying, NEW at \in {"idle", "checked", "asked", "told"},
             NEW S \in SUBSET Election, tally' = [tally EXCEPT ![q] = [at |-> at, elections |-> S]]
      PROVE  tally' \in [Tallying -> Steps]
  BY <1>1 DEF TypeOK, Steps
<1>2. ASSUME NEW q \in Tallying, BeginTally(q) PROVE TypeOK'
  <2>1. conf \in SUBSET Election
    BY <1>2 DEF BeginTally, TypeOK
  <2>2. tally' \in [Tallying -> Steps]
    BY <1>1, <1>2, <2>1 DEF BeginTally
  <2> QED
    BY <1>2, <2>2 DEF BeginTally, TypeOK, es, vs
<1>3. ASSUME NEW q \in Tallying, CloseElections(q) PROVE TypeOK'
  <2>1. tally[q].elections \in SUBSET Election
    BY DEF TypeOK, Steps
  <2>2. tally' \in [Tallying -> Steps]
    BY <1>3 DEF CloseElections, TypeOK, Steps
  <2>3. closed' \subseteq Election /\ configuring' \subseteq Election /\ active' \subseteq Election
    BY <1>3, <2>1 DEF CloseElections, TypeOK
  <2> QED
    BY <1>3, <2>2, <2>3 DEF CloseElections, TypeOK, vs
<1>4. ASSUME NEW q \in Tallying, TallyDies(q) PROVE TypeOK'
  <2> PICK S \in SUBSET Election : S = {}
    OBVIOUS
  <2>1. tally' = [tally EXCEPT ![q] = [at |-> "idle", elections |-> S]]
    BY <1>4 DEF TallyDies, Idle
  <2>2. tally' \in [Tallying -> Steps]
    BY <1>1, <2>1
  <2> QED
    BY <1>4, <2>2 DEF TallyDies, TypeOK, es, vs
<1>5. ASSUME NEW q \in Tallying, Seal(q) PROVE TypeOK'
  <2> PICK S \in SUBSET Election : S = {}
    OBVIOUS
  <2>1. tally' = [tally EXCEPT ![q] = [at |-> "idle", elections |-> S]]
    BY <1>5 DEF Seal, Idle
  <2>2. tally' \in [Tallying -> Steps]
    BY <1>1, <2>1
  <2> QED
    BY <1>5, <2>2 DEF Seal, TypeOK, es
<1> QED
  BY <1>2, <1>3, <1>4, <1>5 DEF Closing

LEMMA NextTypes == TypeOK /\ [Next]_vars => TypeOK'
<1> SUFFICES ASSUME TypeOK, [Next]_vars PROVE TypeOK'
  OBVIOUS
<1>1. CASE StartDailyElections
  BY <1>1 DEF StartDailyElections, TypeOK, vs, requests
<1>2. CASE NextDay
  BY <1>2, DayAssumption DEF NextDay, TypeOK, es, vs, requests
<1>3. CASE UNCHANGED vars
  BY <1>3 DEF TypeOK, vars, es, vs, requests
<1> QED
  BY <1>1, <1>2, <1>3, PresidentsTypes, OfficersTypes, LoadingTypes, ClosingTypes DEF Next

LEMMA InitTypes == Init => TypeOK /\ GroupInv
<1> SUFFICES ASSUME Init PROVE TypeOK /\ GroupInv
  OBVIOUS
<1>1. PICK S \in SUBSET Election : S = {}
  OBVIOUS
<1>2. Idle = [at |-> "idle", elections |-> S]
  BY <1>1 DEF Idle
<1>3. Idle \in Steps /\ Idle.at = "idle"
  BY <1>2 DEF Steps
<1>4. load \in [Load -> Steps] /\ tally \in [Tallying -> Steps]
  BY <1>3 DEF Init
<1>5. control \in [Control -> {None} \union Controls]
  BY DEF Init
<1>6. day \in 1 .. Days
  BY DayAssumption DEF Init
<1>7. GroupInv
  BY <1>3 DEF Init, GroupInv, Carries
<1> QED
  BY <1>4, <1>5, <1>6, <1>7 DEF Init, TypeOK

(* The states of the elections and of the requests stay what they are; in  *)
(* particular no ElectionControl saves an election as both being           *)
(* configured and active (PSCommissionController.cs:555).                  *)
THEOREM TypeCorrect == Spec => []TypeOK
BY InitTypes, NextTypes, PTL DEF Spec

-----------------------------------------------------------------------------
(* Groups.                                                                 *)

LEMMA NextGroups == TypeOK /\ GroupInv /\ [Next]_vars => GroupInv'
<1> SUFFICES ASSUME TypeOK, GroupInv, [Next]_vars PROVE GroupInv'
  OBVIOUS
<1>1. ASSUME NEW q \in Load, AskRunningElections(q) PROVE GroupInv'
  BY <1>1, LoadMoves, AnswerIsWhole DEF AskRunningElections, LoadTo, vs
<1>2. ASSUME NEW q \in Load, StartElections(q) \/ StartElectionsFails(q) PROVE GroupInv'
  <2>1. WholeGroups(load[q].elections) /\ conf' = conf
    BY <1>2 DEF GroupInv, Carries, StartElections, StartElectionsFails, vs
  <2> QED
    BY <1>2, <2>1, LoadMoves DEF StartElections, StartElectionsFails, LoadTo
<1>3. ASSUME NEW q \in Load, CheckLoaded(q) \/ LoadDies(q) PROVE GroupInv'
  BY <1>3, LoadMoves DEF CheckLoaded, LoadDies, LoadTo, Idle, vs
<1>4. ASSUME NEW q \in Load, PutConfiguration(q) PROVE GroupInv'
  <2>1. WholeGroups(conf')
    BY <1>4 DEF GroupInv, Carries, PutConfiguration
  <2> QED
    BY <1>4, <2>1, LoadMoves DEF PutConfiguration, Idle
<1>5. CASE UNCHANGED <<load, conf>>
  BY <1>5 DEF GroupInv, Carries, WholeGroups
<1>6. CASE Presidents \/ Officers \/ StartDailyElections \/ NextDay \/ Closing \/ UNCHANGED vars
  BY <1>5, <1>6, OthersLeaveLoads
<1> QED
  BY <1>1, <1>2, <1>3, <1>4, <1>6 DEF Next, Loading

(* All the elections of a group are in the voting system when one of them  *)
(* is, whichever were being configured when it asked and whatever changed  *)
(* before it stored the answer (EligereESAPI.cs:377-379).                  *)
THEOREM WholeGroupLoadedHolds == Spec => []WholeGroupLoaded
<1>1. GroupInv => WholeGroupLoaded
  BY DEF GroupInv, WholeGroups, WholeGroupLoaded
<1> QED
  BY <1>1, InitTypes, NextTypes, NextGroups, PTL DEF Spec

-----------------------------------------------------------------------------
(* Loads that do not cross.                                                *)

(* Where a request stands, and with what, after a step of it.              *)
LEMMA LoadAt ==
  ASSUME TypeOK, NEW q \in Load, NEW at, NEW S,
         load' = [load EXCEPT ![q] = [at |-> at, elections |-> S]]
  PROVE  /\ load'[q].at = at /\ load'[q].elections = S
         /\ \A r \in Load \ {q} : load'[r] = load[r]
BY DEF TypeOK

(* What the loads carry is one and the same, nothing else has started, and *)
(* what is loaded is that.                                                 *)
SameInv ==
  ~crossed =>
    /\ \A q, r \in Load : Carries(q) /\ Carries(r) => load[q].elections = load[r].elections
    /\ \A q \in Load : Carries(q) =>
         started \subseteq load[q].elections /\ conf \in {None, load[q].elections}
    /\ conf # None => started \subseteq conf

LEMMA NextSame == TypeOK /\ SameInv /\ [Next]_vars => SameInv'
<1> SUFFICES ASSUME TypeOK, SameInv, [Next]_vars, ~crossed' PROVE SameInv'
  BY DEF SameInv
<1>0. ~crossed
  <2>1. CASE \E q \in Load : AskRunningElections(q)
    BY <2>1 DEF AskRunningElections
  <2>2. CASE crossed' = crossed
    BY <2>2
  <2>3. CASE Loading /\ ~(\E q \in Load : AskRunningElections(q))
    BY <2>3 DEF Loading, CheckLoaded, StartElections, StartElectionsFails, LoadDies,
                PutConfiguration
  <2> QED
    BY <2>1, <2>2, <2>3, OthersLeaveLoads DEF Next
<1> USE DEF Carries
<1>1. ASSUME NEW q \in Load, AskRunningElections(q) PROVE SameInv'
  <2> PICK S : S = RunningElections
    OBVIOUS
  <2>1. load'[q].elections = S /\ \A r \in Load \ {q} : load'[r] = load[r]
    <3>1. load' = [load EXCEPT ![q] = [at |-> "asked", elections |-> S]]
      BY <1>1 DEF AskRunningElections, LoadTo
    <3> QED
      BY <3>1 DEF TypeOK
  <2>2. AsBefore(q, S) /\ started' = started /\ conf' = conf
    BY <1>1 DEF AskRunningElections, es, vs
  <2> QED
    BY <1>0, <2>1, <2>2 DEF SameInv, AsBefore
<1>2. ASSUME NEW q \in Load, StartElections(q) PROVE SameInv'
  <2> PICK S : S = load[q].elections
    OBVIOUS
  <2>1. load'[q].elections = S /\ \A r \in Load \ {q} : load'[r] = load[r]
    BY <1>2, LoadAt DEF StartElections, LoadTo
  <2>2. started' = started \union S /\ conf' = conf /\ Carries(q)
    BY <1>2 DEF StartElections, vs
  <2> QED
    BY <1>0, <2>1, <2>2 DEF SameInv
<1>3. ASSUME NEW q \in Load, StartElectionsFails(q) PROVE SameInv'
  <2>1. load'[q].elections = load[q].elections /\ \A r \in Load \ {q} : load'[r] = load[r]
    BY <1>3, LoadAt DEF StartElectionsFails, LoadTo
  <2>2. started' = started /\ conf' = conf /\ Carries(q)
    BY <1>3 DEF StartElectionsFails, es, vs
  <2> QED
    BY <1>0, <2>1, <2>2 DEF SameInv
<1>4. ASSUME NEW q \in Load, CheckLoaded(q) \/ LoadDies(q) PROVE SameInv'
  <2>1. load'[q].at \in {"idle", "checked"} /\ \A r \in Load \ {q} : load'[r] = load[r]
    BY <1>4, LoadAt DEF CheckLoaded, LoadDies, LoadTo, Idle
  <2>2. started' = started /\ conf' = conf
    BY <1>4 DEF CheckLoaded, LoadDies, es, vs
  <2> QED
    BY <1>0, <2>1, <2>2 DEF SameInv
<1>5. ASSUME NEW q \in Load, PutConfiguration(q) PROVE SameInv'
  <2>1. load'[q].at = "idle" /\ \A r \in Load \ {q} : load'[r] = load[r]
    BY <1>5, LoadAt DEF PutConfiguration, Idle
  <2>2. started' = started /\ conf' = load[q].elections /\ Carries(q)
    BY <1>5 DEF PutConfiguration, es
  <2> QED
    BY <1>0, <2>1, <2>2 DEF SameInv
<1>6. CASE UNCHANGED <<load, conf, started>>
  BY <1>0, <1>6 DEF SameInv
<1> QED
  BY <1>1, <1>2, <1>3, <1>4, <1>5, <1>6, OthersLeaveLoads DEF Next, Loading

LEMMA SameHolds == Spec => [](TypeOK /\ SameInv)
<1>1. Init => TypeOK /\ SameInv
  BY InitTypes DEF Init, SameInv, Carries, Idle
<1> QED
  BY <1>1, NextTypes, NextSame, PTL DEF Spec

(* Unless loads cross, tickets are made only for elections whose ballot    *)
(* the voting system can show, however many groups poll and whatever       *)
(* presidents, officers and loads do at the same time (VoteController.cs:  *)
(* 68, VoterController.cs:294).                                            *)
THEOREM TicketedIsLoadedHolds == Spec => []TicketedIsLoaded
<1>1. SameInv => TicketedIsLoaded
  BY DEF SameInv, TicketedIsLoaded, Ticketed
<1> QED
  BY <1>1, SameHolds, PTL

-----------------------------------------------------------------------------
(* The seal.                                                               *)

(* What a tally closes is what is loaded, and it stays closed.             *)
OverInv ==
  ~crossed =>
    /\ \A q \in Tallying : tally[q].at \in {"asked", "told"} =>
         conf # None /\ tally[q].elections = conf
    /\ \A q \in Tallying : tally[q].at = "told" => conf \subseteq closed
    /\ sealed => conf # None /\ conf \subseteq closed

LEMMA TallyAt ==
  ASSUME TypeOK, NEW q \in Tallying, NEW at, NEW S,
         tally' = [tally EXCEPT ![q] = [at |-> at, elections |-> S]]
  PROVE  /\ tally'[q].at = at /\ tally'[q].elections = S
         /\ \A r \in Tallying \ {q} : tally'[r] = tally[r]
BY DEF TypeOK

LEMMA NextOver ==
  ASSUME TypeOK, SameInv, OverInv, [Next]_vars
  PROVE  OverInv'
<1>1. ASSUME NEW q \in Tallying, BeginTally(q) PROVE OverInv'
  BY <1>1, TallyAt DEF BeginTally, OverInv, es, vs
<1>2. ASSUME NEW q \in Tallying, CloseElections(q) PROVE OverInv'
  <2>1. tally'[q].at = "told" /\ tally'[q].elections = tally[q].elections
    BY <1>2 DEF CloseElections, TypeOK, Steps
  <2>2. \A r \in Tallying \ {q} : tally'[r] = tally[r]
    BY <1>2 DEF CloseElections, TypeOK
  <2> QED
    BY <1>2, <2>1, <2>2 DEF CloseElections, OverInv, vs
<1>3. ASSUME NEW q \in Tallying, TallyDies(q) PROVE OverInv'
  BY <1>3, TallyAt DEF TallyDies, OverInv, Idle, es, vs
<1>4. ASSUME NEW q \in Tallying, Seal(q) PROVE OverInv'
  BY <1>4, TallyAt DEF Seal, OverInv, Idle, es, vs
<1>5. ASSUME NEW q \in Load, PutConfiguration(q) PROVE OverInv'
  <2>1. ~crossed => conf = None \/ conf' = conf
    BY <1>5 DEF PutConfiguration, SameInv, Carries
  <2>2. conf' # None
    BY <1>5, DayAssumption DEF PutConfiguration, TypeOK, Steps
  <2> QED
    BY <1>5, <2>1, <2>2 DEF PutConfiguration, OverInv, es
<1>6. CASE UNCHANGED <<closed, vs, tally>> /\ (crossed => crossed')
  BY <1>6 DEF OverInv, vs
<1>7. ASSUME NEW q \in Load,
             \/ CheckLoaded(q) \/ AskRunningElections(q) \/ StartElections(q)
             \/ StartElectionsFails(q) \/ LoadDies(q)
      PROVE  OverInv'
  BY <1>6, <1>7 DEF CheckLoaded, AskRunningElections, StartElections,
                    StartElectionsFails, LoadDies, es
<1>8. CASE Presidents \/ Officers \/ StartDailyElections \/ NextDay \/ UNCHANGED vars
  <2>1. UNCHANGED <<closed, vs, tally>>
    BY <1>8 DEF Presidents, ElectionControl, SaveElectionControl, Officers,
         UpdateElection, SaveUpdateElection, StartDailyElections, NextDay, vars, es, requests
  <2> QED
    BY <1>6, <1>8, <2>1, OthersLeaveLoads
<1> QED
  BY <1>1, <1>2, <1>3, <1>4, <1>5, <1>7, <1>8 DEF Next, Loading, Closing

(* After the seal the elections that are loaded give no tickets, unless    *)
(* loads crossed (HomeController.cs:346, 396-429).                         *)
THEOREM SealedMeansOverHolds == Spec => []SealedMeansOver
<1>1. Init => OverInv
  BY DEF Init, OverInv, Idle
<1>2. TypeOK /\ SameInv /\ OverInv /\ [Next]_vars => OverInv'
  BY NextOver
<1>3. OverInv => SealedMeansOver
  BY DEF OverInv, SealedMeansOver, Ticketed
<1> QED
  BY <1>1, <1>2, <1>3, SameHolds, PTL DEF Spec

-----------------------------------------------------------------------------
(* What it takes for loads to cross.                                       *)

(* All the elections that poll within the days belong to one group; the    *)
(* database may hold others, of earlier and later polls.                   *)
PollsOnly(g) ==
  /\ g # NoGroup
  /\ \A e \in Election, d \in 1 .. Days :
       FirstDay[e] =< d /\ d =< LastDay[e] => GroupOf[e] = g

Members(g) == {e \in Election : GroupOf[e] = g}

(* What all the loads are answered and what is stored is that group, and   *)
(* no other election starts.                                               *)
AnswersInv(g) ==
  /\ \A q \in Load : Carries(q) => load[q].elections = Members(g)
  /\ conf \in {None, Members(g)}
  /\ started \subseteq Members(g)
  /\ ~crossed

LEMMA AnswerIsGroup ==
  ASSUME TypeOK, NEW g, PollsOnly(g), Cardinality(Groups(Configured)) = 1
  PROVE  RunningElections = Members(g)
<1>1. \A e \in Configured : e \in Election /\ GroupOf[e] = g
  BY DEF Configured, InPoll, TypeOK, PollsOnly
<1>2. Configured # {}
  <2> SUFFICES ASSUME Configured = {} PROVE FALSE
    OBVIOUS
  <2>1. Groups(Configured) = {}
    BY DEF Groups
  <2> QED
    BY <2>1, FS_EmptySet
<1>3. Groups(Configured) = {g}
  BY <1>1, <1>2 DEF Groups
<1> QED
  BY <1>1, <1>3 DEF RunningElections, Members, PollsOnly

LEMMA NextAnswers ==
  ASSUME TypeOK, [Next]_vars, NEW g, AnswersInv(g), PollsOnly(g)
  PROVE  AnswersInv(g)'
<1> USE DEF AnswersInv, Carries
<1>1. ASSUME NEW q \in Load, AskRunningElections(q) PROVE AnswersInv(g)'
  <2>1. RunningElections = Members(g)
    BY <1>1, AnswerIsGroup DEF AskRunningElections
  <2>2. AsBefore(q, Members(g))
    BY DEF AsBefore
  <2>3. ~crossed'
    BY <1>1, <2>1, <2>2 DEF AskRunningElections
  <2> QED
    BY <1>1, <2>1, <2>3, LoadAt DEF AskRunningElections, LoadTo, es, vs, Members
<1>2. ASSUME NEW q \in Load, StartElections(q) PROVE AnswersInv(g)'
  BY <1>2, LoadAt DEF StartElections, LoadTo, vs, Members
<1>3. ASSUME NEW q \in Load, StartElectionsFails(q) PROVE AnswersInv(g)'
  BY <1>3, LoadAt DEF StartElectionsFails, LoadTo, es, vs, Members
<1>4. ASSUME NEW q \in Load, CheckLoaded(q) \/ LoadDies(q) PROVE AnswersInv(g)'
  BY <1>4, LoadAt DEF CheckLoaded, LoadDies, LoadTo, Idle, es, vs, Members
<1>5. ASSUME NEW q \in Load, PutConfiguration(q) PROVE AnswersInv(g)'
  BY <1>5, LoadAt DEF PutConfiguration, Idle, es, Members
<1>6. CASE UNCHANGED <<load, conf, started, crossed>>
  BY <1>6 DEF Members
<1> QED
  BY <1>1, <1>2, <1>3, <1>4, <1>5, <1>6, OthersLeaveLoads DEF Next, Loading

(* Loads never cross while one group polls, however many there are and     *)
(* whichever answers are lost: the exception that TicketedIsLoaded and     *)
(* SealedMeansOver make takes elections of two groups, or of none, that    *)
(* poll within the days (ElectionsController.cs:102).                      *)
THEOREM CrossedTakesTwoGroups == Spec => [](crossed => ~(\E g : PollsOnly(g)))
<1>1. CASE \E g : PollsOnly(g)
  <2> PICK g : PollsOnly(g)
    BY <1>1
  <2>1. Init => AnswersInv(g)
    BY DEF Init, AnswersInv, Carries, Idle
  <2>2. TypeOK /\ AnswersInv(g) /\ [Next]_vars => AnswersInv(g)'
    BY NextAnswers
  <2>3. AnswersInv(g) => ~crossed
    BY DEF AnswersInv
  <2> QED
    BY <2>1, <2>2, <2>3, TypeCorrect, PTL DEF Spec
<1>2. CASE ~(\E g : PollsOnly(g))
  BY <1>2, PTL
<1> QED
  BY <1>1, <1>2
=============================================================================
