---------------------------- MODULE CallDispatch ----------------------------
(***************************************************************************)
(* How the election system (src/EligereES) sends voters to commissioners   *)
(* who identify them in a call: VoterController.IdentificationLink picks   *)
(* at random one who is available and not busy, and marks the choice busy  *)
(* for a fixed time in PersistentCommissionManager, a singleton that all   *)
(* requests share.                                                         *)
(*                                                                         *)
(* The manager holds its marks in a List.  CollectExpiredItems and         *)
(* AddBusyCommissioner lock the list they find in the field, and the first *)
(* then puts another list into the field: who waits for the lock of the    *)
(* old list works on the new one without its lock.  GetBusyCommissioners   *)
(* takes no lock.  Lists are therefore objects here, each with its lock,   *)
(* and named by the request that makes them (First is the one the manager  *)
(* is made with); inside, a list is an array and a size, and Add reads the *)
(* size and writes later.                                                  *)
(*                                                                         *)
(* A mark is named by the request that adds it, and whether its time is    *)
(* over is the variable lapsed: the clock itself is not needed.            *)
(***************************************************************************)
EXTENDS Naturals, Sequences, FiniteSets

CONSTANTS
  Request,       \* IdentificationLink requests, each answered once
  Commissioner,  \* the people who identify voters
  Staff,         \* those among them who sit on a polling station commission;
                 \* the others are remote identification commissioners
  Reach,         \* the sets of commissioners on the commissions of a voter
  First,         \* the list the manager starts with
  None           \* no request, no commissioner

ASSUME DispatchAssumption ==
  /\ Staff \subseteq Commissioner
  /\ Reach \subseteq SUBSET Commissioner
  /\ First \notin Request
  /\ None \notin Request \union Commissioner

ListId == Request \union {First}

VARIABLES
  available,  \* the commissioners with AvailableForRemoteRecognition
  current,    \* the list in the field BusyRemoteCommissioners
  list,       \* list[l]: the array and the size of list l
  holder,     \* holder[l]: the request inside lock(l)
  step,       \* where each request is
  reach,      \* reach[q]: the commissioners of the voter
  locked,     \* locked[q]: the list whose lock it waits for or holds
  into,       \* into[q]: the list it adds its mark to
  pos,        \* pos[q]: the size of that list it read
  avoid,      \* avoid[q]: busycomm, the commissioners it takes for busy
  chosen,     \* chosen[q]: the commissioner it sends the voter to
  lapsed,     \* the requests whose mark has run out
  start       \* start[q]: what was answered and lapsed when q came (history)

manager == <<current, list, holder>>
locals == <<reach, locked, into, pos, avoid, chosen>>
vars == <<available, manager, step, locals, lapsed, start>>

-----------------------------------------------------------------------------
Marks(l) == {list[l].items[i] : i \in 1 .. list[l].size}

Live(q) == q \notin lapsed

(* The array and the size that List.Add leaves behind when n was the size  *)
(* it read.                                                                *)
AddedSizeOnly(l, n, q) ==  \* mutant: the array does not grow
  [items |-> [i \in 1 .. Len(l.items) |-> IF i = n + 1 THEN q ELSE l.items[i]],
   size |-> n + 1]

Added(l, n, q) ==
  [items |-> [i \in 1 .. (IF n < Len(l.items) THEN Len(l.items) ELSE n + 1) |->
                IF i = n + 1 THEN q ELSE l.items[i]],
   size |-> n + 1]

(* Where(p => p.Item2 >= DateTime.Now).ToList(): the marks that have not   *)
(* run out, in their order; the k-th is at the position that has k of them *)
(* up to it.                                                               *)
LivePositions(l) == {i \in 1 .. l.size : Live(l.items[i])}

UpTo(P, i) == Cardinality({j \in P : j =< i})

KeptAll(l) ==  \* mutant: nothing is collected
  [items |-> SubSeq(l.items, 1, l.size), size |-> l.size]

Kept(l) ==
  LET P == LivePositions(l)
  IN [items |-> [k \in 1 .. Cardinality(P) |->
                   l.items[CHOOSE i \in P : UpTo(P, i) = k]],
      size |-> Cardinality(P)]

Step == {"new", "collect", "collecting", "read", "choose", "mark", "add",
         "adding", "called", "waits", "failed"}

Done == {"called", "waits", "failed"}

Lists == [items: Seq(Request), size: Nat]

(* Type invariant; the size of a list never exceeds its array.             *)
TypeOK ==
  /\ available \subseteq Commissioner
  /\ current \in ListId
  /\ list \in [ListId -> Lists]
  /\ \A l \in ListId : list[l].size =< Len(list[l].items)
  /\ holder \in [ListId -> Request \union {None}]
  /\ step \in [Request -> Step]
  /\ reach \in [Request -> SUBSET Commissioner]
  /\ locked \in [Request -> ListId]
  /\ into \in [Request -> ListId]
  /\ pos \in [Request -> Nat]
  /\ avoid \in [Request -> SUBSET Commissioner]
  /\ chosen \in [Request -> Commissioner \union {None}]
  /\ lapsed \subseteq Request
  /\ start \in [Request -> [answered: SUBSET Request, lapsed: SUBSET Request]]

EmptyList == [items |-> <<>>, size |-> 0]

Init ==
  /\ available = {}
  /\ current = First
  /\ list = [l \in ListId |-> EmptyList]
  /\ holder = [l \in ListId |-> None]
  /\ step = [q \in Request |-> "new"]
  /\ reach = [q \in Request |-> {}]
  /\ locked = [q \in Request |-> First]
  /\ into = [q \in Request |-> First]
  /\ pos = [q \in Request |-> 0]
  /\ avoid = [q \in Request |-> {}]
  /\ chosen = [q \in Request |-> None]
  /\ lapsed = {}
  /\ start = [q \in Request |-> [answered |-> {}, lapsed |-> {}]]

-----------------------------------------------------------------------------
(* The commissioners.                                                      *)

(* PUT StaffAvailability and RemoteIdAvailability.                         *)
SetAvailability(c, value) ==
  /\ available' = IF value THEN available \union {c} ELSE available \ {c}
  /\ UNCHANGED <<manager, step, locals, lapsed, start>>

(* ElectionControl makes the staff of the polling stations unavailable.    *)
ResetAvailability ==
  /\ available' = available \ Staff
  /\ UNCHANGED <<manager, step, locals, lapsed, start>>

-----------------------------------------------------------------------------
(* IdentificationLink.                                                     *)

Go(q, s) == step' = [step EXCEPT ![q] = s]

Acquire(q) ==
  /\ holder[locked[q]] = None
  /\ holder' = [holder EXCEPT ![locked[q]] = q]

ReleaseCurrent(q) ==  \* mutant: gives back the lock of the list in the field
  holder' = [holder EXCEPT ![current] = None]

Release(q) == holder' = [holder EXCEPT ![locked[q]] = None]

(* It is answered, and its local state with it; avoid and chosen are kept  *)
(* for the properties.                                                     *)
Answer(q, s) ==
  /\ Go(q, s)
  /\ reach' = [reach EXCEPT ![q] = {}]
  /\ locked' = [locked EXCEPT ![q] = First]
  /\ into' = [into EXCEPT ![q] = First]
  /\ pos' = [pos EXCEPT ![q] = 0]
  /\ UNCHANGED <<avoid, chosen>>

(* The voter's elections and commissions are read, and                     *)
(* CollectExpiredItems evaluates the list it will lock.                    *)
IdentificationLink(q, S) ==
  /\ step[q] = "new"
  /\ reach' = [reach EXCEPT ![q] = S]
  /\ locked' = [locked EXCEPT ![q] = current]
  /\ start' = [start EXCEPT ![q] =
       [answered |-> {r \in Request : step[r] \in Done}, lapsed |-> lapsed]]
  /\ Go(q, "collect")
  /\ UNCHANGED <<available, manager, into, pos, avoid, chosen, lapsed>>

(* Inside the lock it filters the list that is in the field now into a new *)
(* one ...                                                                 *)
CollectExpiredItems(q) ==
  /\ step[q] = "collect"
  /\ Acquire(q)
  /\ list' = [list EXCEPT ![q] = Kept(list[current])]
  /\ Go(q, "collecting")
  /\ UNCHANGED <<available, current, locals, lapsed, start>>

(* ... which it puts into the field.                                       *)
SwapList(q) ==
  /\ step[q] = "collecting"
  /\ current' = q
  /\ Release(q)
  /\ Go(q, "read")
  /\ UNCHANGED <<available, list, locals, lapsed, start>>

GetBusyCommissioners(q) ==
  /\ step[q] = "read"
  /\ avoid' = [avoid EXCEPT ![q] = {chosen[r] : r \in Marks(current)}]
  /\ Go(q, "choose")
  /\ UNCHANGED <<available, manager, reach, locked, into, pos, chosen, lapsed, start>>

(* ConvertAll makes its result for the size it finds and throws when the   *)
(* list grows under it.                                                    *)
GetBusyFails(q) ==
  /\ step[q] = "read"
  /\ \E r \in Request : step[r] = "adding" /\ into[r] = current
  /\ Answer(q, "failed")
  /\ UNCHANGED <<available, manager, lapsed, start>>

(* The two queries and the random choice among what they found.            *)
FreeIgnoringBusy(q) == reach[q] \intersect available  \* mutant: busy ones too

Free(q) == (reach[q] \intersect available) \ avoid[q]

Choose(q) ==
  /\ step[q] = "choose"
  /\ \E c \in Free(q) : chosen' = [chosen EXCEPT ![q] = c]
  /\ Go(q, "mark")
  /\ UNCHANGED <<available, manager, reach, locked, into, pos, avoid, lapsed, start>>

(* Nobody is free: the voter is told to wait, or gets an OTP by mail,      *)
(* which is SampledIdentification in TicketIssue.                          *)
NobodyFree(q) ==
  /\ step[q] = "choose"
  /\ Free(q) = {}
  /\ Answer(q, "waits")
  /\ UNCHANGED <<available, manager, lapsed, start>>

(* AddBusyCommissioner evaluates the list it will lock, takes the lock,    *)
(* and calls Add of the list that is in the field by then.                 *)
AddBusyCommissioner(q) ==
  /\ step[q] = "mark"
  /\ locked' = [locked EXCEPT ![q] = current]
  /\ Go(q, "add")
  /\ UNCHANGED <<available, manager, reach, into, pos, avoid, chosen, lapsed, start>>

AddBegin(q) ==
  /\ step[q] = "add"
  /\ Acquire(q)
  /\ into' = [into EXCEPT ![q] = current]
  /\ pos' = [pos EXCEPT ![q] = list[current].size]
  /\ Go(q, "adding")
  /\ UNCHANGED <<available, current, list, reach, locked, avoid, chosen, lapsed, start>>

(* The voter is redirected to the virtual room of the commissioner.        *)
AddEnd(q) ==
  /\ step[q] = "adding"
  /\ list' = [list EXCEPT ![into[q]] = Added(@, pos[q], q)]
  /\ Release(q)
  /\ Answer(q, "called")
  /\ UNCHANGED <<available, current, lapsed, start>>

(* The time of a mark runs out; it was fixed before the mark was added.    *)
Lapse(q) ==
  /\ step[q] \in {"adding", "called"}
  /\ lapsed' = lapsed \union {q}
  /\ UNCHANGED <<available, manager, step, locals, start>>

-----------------------------------------------------------------------------
RequestStep(q) ==
  \/ CollectExpiredItems(q)
  \/ SwapList(q)
  \/ GetBusyCommissioners(q)
  \/ GetBusyFails(q)
  \/ Choose(q)
  \/ NobodyFree(q)
  \/ AddBusyCommissioner(q)
  \/ AddBegin(q)
  \/ AddEnd(q)

Commissioners ==
  \/ \E c \in Commissioner, value \in BOOLEAN : SetAvailability(c, value)
  \/ ResetAvailability

Next ==
  \/ Commissioners
  \/ \E q \in Request :
       \/ \E S \in Reach : IdentificationLink(q, S)
       \/ RequestStep(q)
       \/ Lapse(q)

Spec == Init /\ [][Next]_vars

(* A request that was received goes on until it is answered.               *)
FairSpec == Spec /\ \A q \in Request : WF_vars(RequestStep(q))

-----------------------------------------------------------------------------
(* Two requests overlapped: neither was answered when the other came.      *)
Overlapped(q, r) ==
  /\ q # r /\ step[q] # "new" /\ step[r] # "new"
  /\ q \notin start[r].answered /\ r \notin start[q].answered

Disturbed(q) == \E r \in Request : Overlapped(q, r)

(* While a call that was set up with no other request under way has not    *)
(* run out, nobody else is sent to its commissioner, however many requests *)
(* come later and race for the list (VoterController.cs:184-201,           *)
(* PersistentCommissionManager.cs:18-35).  A call whose request overlapped *)
(* another may lose its mark.                                              *)
UndisturbedCallIsKept ==
  \A q, r \in Request :
    /\ step[q] = "called" /\ step[r] = "called" /\ q # r
    /\ chosen[q] = chosen[r]
    /\ Live(q) /\ Live(r)
    /\ q \in start[r].answered
    => Disturbed(q)

(* A commissioner is passed over as busy only for a call that had not run  *)
(* out when this request came, or when one that overlapped it came         *)
(* (PersistentCommissionManager.cs:21: a slower collection may put a list  *)
(* back that still has marks another one has dropped).                     *)
BusyOnlyWhileCalled ==
  \A q \in Request, c \in Commissioner :
    c \in avoid[q] =>
      \E r, s \in Request :
        /\ chosen[r] = c
        /\ s = q \/ Overlapped(s, q)
        /\ r \notin start[s].lapsed

(* Every voter who asks is answered: with a call, with "wait", or with an  *)
(* error (VoterController.cs:143-250); the locks are always given back,    *)
(* whatever list is in the field by then.                                  *)
EveryVoterIsAnswered ==
  \A q \in Request : step[q] = "collect" ~> step[q] \in Done
=============================================================================
