------------------------- MODULE CallDispatchProofs -------------------------
(***************************************************************************)
(* What holds of CallDispatch for every number of requests, commissioners  *)
(* and commissions.                                                        *)
(***************************************************************************)
EXTENDS CallDispatch, FiniteSetTheorems, TLAPS

-----------------------------------------------------------------------------
(* Collecting.                                                             *)

(* Counting up to them numbers the members of a finite set of positions.   *)
LEMMA EveryNumberIsTaken ==
  ASSUME NEW n \in Nat, NEW P \in SUBSET (1..n)
  PROVE  /\ IsFiniteSet(P) /\ Cardinality(P) \in Nat
         /\ \A k \in 1..Cardinality(P) : \E i \in P : UpTo(P, i) = k
         /\ \A i \in P : UpTo(P, i) \in 1..Cardinality(P)
         /\ \A i, j \in P : UpTo(P, i) = UpTo(P, j) => i = j
<1> DEFINE To(i) == {j \in P : j =< i}
           N == 1..Cardinality(P)
           f == [i \in P |-> UpTo(P, i)]
<1>1. IsFiniteSet(P) /\ Cardinality(P) \in Nat
  <2>1. 1 \in Int /\ n \in Int
    OBVIOUS
  <2>2. IsFiniteSet(1..n)
    BY <2>1, FS_Interval
  <2>3. IsFiniteSet(P)
    BY <2>2, FS_Subset
  <2> QED
    BY <2>3, FS_CardinalityType
<1>2. ASSUME NEW i \in P
      PROVE  IsFiniteSet(To(i)) /\ UpTo(P, i) \in N
  <2>1. IsFiniteSet(To(i)) /\ Cardinality(To(i)) =< Cardinality(P)
    BY <1>1, FS_Subset
  <2>2. i \in To(i)
    OBVIOUS
  <2>3. Cardinality(To(i)) \in Nat /\ Cardinality(To(i)) # 0
    BY <2>1, <2>2, FS_CardinalityType, FS_EmptySet
  <2> QED
    BY <1>1, <2>1, <2>3 DEF UpTo
<1>3. ASSUME NEW i \in P, NEW j \in P, UpTo(P, i) = UpTo(P, j)
      PROVE  i = j
  <2>1. ASSUME NEW x \in P, NEW y \in P, x < y, UpTo(P, x) = UpTo(P, y)
        PROVE  FALSE
    <3>1. To(x) \in SUBSET To(y) /\ y \in To(y) /\ y \notin To(x)
      <4>1. x \in Nat /\ y \in Nat /\ \A z \in P : z \in Nat
        OBVIOUS
      <4>2. \A z \in P : z =< x => z =< y
        BY <2>1, <4>1
      <4>3. y =< y /\ ~(y =< x)
        BY <2>1, <4>1
      <4> QED
        BY <4>2, <4>3
    <3>2. IsFiniteSet(To(y))
      BY <1>2
    <3>3. Cardinality(To(y)) = Cardinality(To(x))
      BY <2>1 DEF UpTo
    <3> HIDE DEF To
    <3>4. To(y) = To(x)
      BY <3>1, <3>2, <3>3, FS_Subset
    <3> QED
      BY <3>1, <3>4
  <2>2. i \in Nat /\ j \in Nat
    OBVIOUS
  <2> QED
    BY <1>3, <2>1, <2>2
<1>4. f \in Injection(P, N)
  BY <1>2, <1>3 DEF Injection, IsInjective
<1>5. IsFiniteSet(N) /\ Cardinality(N) = Cardinality(P)
  BY <1>1, FS_Interval
<1>6. f \in Surjection(P, N)
  <2> HIDE DEF f, N
  <2> QED
    BY <1>4, <1>5, FS_Injection
<1>7. ASSUME NEW k \in N
      PROVE  \E i \in P : UpTo(P, i) = k
  BY <1>6 DEF Surjection
<1> QED
  BY <1>1, <1>2, <1>3, <1>7

Good(l) == l \in Lists /\ l.size =< Len(l.items)

(* What is kept is what is live, all of it, and the array is full.         *)
LEMMA KeptIsLive ==
  ASSUME NEW l, Good(l)
  PROVE  /\ Kept(l) \in Lists
         /\ Kept(l).size = Len(Kept(l).items)
         /\ \A k \in 1..Kept(l).size : \E i \in 1..l.size :
              Kept(l).items[k] = l.items[i] /\ Live(l.items[i])
         /\ \A i \in 1..l.size : Live(l.items[i]) =>
              \E k \in 1..Kept(l).size : Kept(l).items[k] = l.items[i]
<1> DEFINE P == LivePositions(l)
           n == Cardinality(P)
           At(k) == CHOOSE i \in P : UpTo(P, i) = k
<1>1. l.size \in Nat /\ l.items \in Seq(Request) /\ l.size =< Len(l.items)
  BY DEF Good, Lists
<1>2. P \in SUBSET (1..l.size)
  BY DEF LivePositions
<1>3. /\ n \in Nat
      /\ \A k \in 1..n : \E i \in P : UpTo(P, i) = k
      /\ \A i \in P : UpTo(P, i) \in 1..n
      /\ \A i, j \in P : UpTo(P, i) = UpTo(P, j) => i = j
  <2> HIDE DEF P
  <2> QED
    BY <1>1, <1>2, EveryNumberIsTaken
<1>4. Kept(l) = [items |-> [k \in 1..n |-> l.items[At(k)]], size |-> n]
  BY DEF Kept
<1>5. \A k \in 1..n : At(k) \in P /\ UpTo(P, At(k)) = k
  <2> HIDE DEF P
  <2> QED
    BY <1>3
<1>6. \A i \in P : i \in 1..l.size /\ Live(l.items[i]) /\ l.items[i] \in Request
  BY <1>1 DEF LivePositions
<1>7. \A i \in 1..l.size : Live(l.items[i]) => i \in P
  BY DEF LivePositions
<1> HIDE DEF P, n, At
<1>8. [k \in 1..n |-> l.items[At(k)]] \in Seq(Request)
  BY <1>3, <1>5, <1>6
<1>9. Kept(l).size = n /\ Kept(l).items = [k \in 1..n |-> l.items[At(k)]]
  BY <1>4
<1>10. Kept(l) \in Lists /\ Len(Kept(l).items) = n
  BY <1>3, <1>4, <1>8 DEF Lists
<1>11. \A k \in 1..n : \E i \in 1..l.size :
         Kept(l).items[k] = l.items[i] /\ Live(l.items[i])
  BY <1>5, <1>6, <1>9
<1>12. ASSUME NEW i \in 1..l.size, Live(l.items[i])
       PROVE  \E k \in 1..n : Kept(l).items[k] = l.items[i]
  <2>1. i \in P /\ UpTo(P, i) \in 1..n
    BY <1>3, <1>7, <1>12
  <2>2. At(UpTo(P, i)) = i
    BY <1>3, <1>5, <2>1
  <2> QED
    BY <1>9, <2>1, <2>2
<1> QED
  BY <1>9, <1>10, <1>11, <1>12

(* What Add does to a list when the position it read is inside the array.  *)
LEMMA AddedIsGood ==
  ASSUME NEW l, Good(l), NEW n \in Nat, n =< Len(l.items), NEW q \in Request
  PROVE  /\ Good(Added(l, n, q))
         /\ Len(l.items) =< Len(Added(l, n, q).items)
         /\ Added(l, n, q).size = n + 1
         /\ Added(l, n, q).items[n + 1] = q
         /\ \A i \in 1..Len(l.items) : i # n + 1 => Added(l, n, q).items[i] = l.items[i]
         /\ \A i \in 1..Len(Added(l, n, q).items) :
              i = n + 1 \/ i \in 1..Len(l.items)
<1> DEFINE m == IF n < Len(l.items) THEN Len(l.items) ELSE n + 1
           s == [i \in 1..m |-> IF i = n + 1 THEN q ELSE l.items[i]]
<1>1. l.items \in Seq(Request) /\ Len(l.items) \in Nat /\ m \in Nat
  BY DEF Good, Lists
<1>2. n + 1 =< m /\ Len(l.items) =< m
  BY <1>1
<1>3. \A i \in 1..m : i = n + 1 \/ i \in 1..Len(l.items)
  BY <1>1
<1>4. Added(l, n, q) = [items |-> s, size |-> n + 1]
  BY DEF Added
<1>5. s \in Seq(Request) /\ Len(s) = m
  <2>1. \A i \in 1..m : (IF i = n + 1 THEN q ELSE l.items[i]) \in Request
    BY <1>1, <1>3
  <2> HIDE DEF m
  <2> QED
    BY <1>1, <2>1
<1>6. s[n + 1] = q /\ \A i \in 1..Len(l.items) : i # n + 1 => s[i] = l.items[i]
  BY <1>1, <1>2
<1> HIDE DEF s, m
<1>7. Added(l, n, q).size = n + 1 /\ Added(l, n, q).items = s
  BY <1>4
<1>8. Good(Added(l, n, q))
  BY <1>1, <1>2, <1>4, <1>5 DEF Good, Lists
<1> QED
  BY <1>1, <1>2, <1>3, <1>5, <1>6, <1>7, <1>8
-----------------------------------------------------------------------------
(* Types.                                                                  *)

(* A list is nobody's until its maker is done with it, and who adds to a   *)
(* list does so inside its array.                                          *)
ListInv ==
  /\ \A q \in Request : step[q] \in {"new", "collect", "collecting"} =>
       current # q /\ \A r \in Request : into[r] # q
  /\ \A q \in Request : step[q] \in {"new", "collect"} => list[q] = EmptyList
  /\ \A q \in Request : step[q] = "adding" => pos[q] =< Len(list[into[q]].items)

(* Marks are of calls that were set up, to somebody.                       *)
MarkInv ==
  /\ \A l \in ListId : \A i \in 1..Len(list[l].items) :
       step[list[l].items[i]] = "called"
  /\ \A q \in Request : step[q] \in {"mark", "add", "adding", "called"} =>
       chosen[q] \in Commissioner

LEMMA ListsAreGood ==
  ASSUME TypeOK, NEW l \in ListId
  PROVE  Good(list[l]) /\ list[l].size \in Nat /\ Len(list[l].items) \in Nat
BY DEF TypeOK, Good, Lists

(* The steps that leave the lists alone.                                   *)
LEMMA TypesOfOthers ==
  ASSUME TypeOK, MarkInv, Next, UNCHANGED list
  PROVE  TypeOK'
<1> USE DispatchAssumption DEF TypeOK, ListId, Step, manager, locals, Go
<1>1. CASE Commissioners
  BY <1>1 DEF Commissioners, SetAvailability, ResetAvailability
<1>2. ASSUME NEW q \in Request, NEW S \in Reach, IdentificationLink(q, S)
      PROVE  TypeOK'
  <2>1. start' \in [Request -> [answered: SUBSET Request, lapsed: SUBSET Request]]
    BY <1>2 DEF IdentificationLink
  <2> QED
    BY <1>2, <2>1 DEF IdentificationLink
<1>3. ASSUME NEW q \in Request, CollectExpiredItems(q)
      PROVE  TypeOK'
  BY <1>3 DEF CollectExpiredItems, Acquire
<1>4. ASSUME NEW q \in Request, SwapList(q)
      PROVE  TypeOK'
  BY <1>4 DEF SwapList, Release
<1>5. ASSUME NEW q \in Request, GetBusyFails(q) \/ NobodyFree(q)
      PROVE  TypeOK'
  <2>1. PICK none \in SUBSET Commissioner : none = {}
    OBVIOUS
  <2>2. /\ reach' = [reach EXCEPT ![q] = none]
        /\ step' = [step EXCEPT ![q] = "failed"] \/ step' = [step EXCEPT ![q] = "waits"]
        /\ locked' = [locked EXCEPT ![q] = First]
        /\ into' = [into EXCEPT ![q] = First]
        /\ pos' = [pos EXCEPT ![q] = 0]
        /\ UNCHANGED <<available, manager, avoid, chosen, lapsed, start>>
    BY <1>5, <2>1 DEF GetBusyFails, NobodyFree, Answer
  <2>3. reach' \in [Request -> SUBSET Commissioner]
    BY <2>2
  <2> QED
    BY <2>2, <2>3
<1>6. ASSUME NEW q \in Request, Choose(q)
      PROVE  TypeOK'
  BY <1>6 DEF Choose, Free
<1>7. ASSUME NEW q \in Request, AddBusyCommissioner(q)
      PROVE  TypeOK'
  BY <1>7 DEF AddBusyCommissioner
<1>8. ASSUME NEW q \in Request, AddBegin(q)
      PROVE  TypeOK'
  <2>1. list[current].size \in Nat
    BY ListsAreGood
  <2> QED
    BY <1>8, <2>1 DEF AddBegin, Acquire
<1>9. ASSUME NEW q \in Request, Lapse(q)
      PROVE  TypeOK'
  BY <1>9 DEF Lapse
<1>10. ASSUME NEW q \in Request, GetBusyCommissioners(q)
       PROVE  TypeOK'
  <2>1. \A r \in Marks(current) : chosen[r] \in Commissioner
    <3>1. list[current].size =< Len(list[current].items)
          /\ list[current].size \in Nat /\ Len(list[current].items) \in Nat
          /\ list[current].items \in Seq(Request)
      BY ListsAreGood DEF Good, Lists
    <3>2. \A i \in 1..list[current].size :
            list[current].items[i] \in Request /\ step[list[current].items[i]] = "called"
      BY <3>1 DEF MarkInv
    <3> QED
      BY <3>2 DEF MarkInv, Marks
  <2>2. {chosen[r] : r \in Marks(current)} \in SUBSET Commissioner
    BY <2>1
  <2> QED
    BY <1>10, <2>2 DEF GetBusyCommissioners
<1>11. ASSUME NEW q \in Request, AddEnd(q)
       PROVE  TypeOK'
  <2>1. PICK none \in SUBSET Commissioner : none = {}
    OBVIOUS
  <2>2. /\ reach' = [reach EXCEPT ![q] = none]
        /\ step' = [step EXCEPT ![q] = "called"]
        /\ locked' = [locked EXCEPT ![q] = First]
        /\ into' = [into EXCEPT ![q] = First]
        /\ pos' = [pos EXCEPT ![q] = 0]
        /\ holder' = [holder EXCEPT ![locked[q]] = None]
        /\ UNCHANGED <<available, current, list, avoid, chosen, lapsed, start>>
    BY <1>11, <2>1 DEF AddEnd, Answer, Release
  <2>3. reach' \in [Request -> SUBSET Commissioner]
    BY <2>2
  <2> QED
    BY <2>2, <2>3
<1> QED
  BY <1>1, <1>2, <1>3, <1>4, <1>5, <1>6, <1>7, <1>8, <1>9, <1>10, <1>11
     DEF Next, RequestStep

(* The two that write one.                                                 *)
LEMMA TypesOfCollect ==
  ASSUME TypeOK, NEW q \in Request, CollectExpiredItems(q)
  PROVE  TypeOK' /\ list' = [list EXCEPT ![q] = Kept(list[current])]
<1>1. Good(Kept(list[current]))
  <2>1. Good(list[current])
    BY ListsAreGood DEF TypeOK
  <2> QED
    BY <2>1, KeptIsLive DEF Good, Lists
<1>2. /\ list' = [list EXCEPT ![q] = Kept(list[current])]
      /\ step' = [step EXCEPT ![q] = "collecting"]
      /\ holder' = [holder EXCEPT ![locked[q]] = q]
      /\ UNCHANGED <<available, current, locals, lapsed, start>>
  BY DEF CollectExpiredItems, Acquire, Go
<1>3. PICK k : k = Kept(list[current])
  OBVIOUS
<1>4. list' \in [ListId -> Lists] /\ \A l \in ListId : list'[l].size =< Len(list'[l].items)
  BY <1>1, <1>2, <1>3 DEF TypeOK, Good, ListId
<1> QED
  BY <1>2, <1>4, DispatchAssumption DEF TypeOK, Step, locals, ListId

LEMMA TypesOfAddEnd ==
  ASSUME TypeOK, ListInv, NEW q \in Request, AddEnd(q)
  PROVE  TypeOK'
<1> DEFINE l == into[q]
           k == Added(list[l], pos[q], q)
<1>1. l \in ListId /\ pos[q] \in Nat /\ pos[q] =< Len(list[l].items)
  BY DEF TypeOK, ListInv, AddEnd
<1>2. Good(k)
  BY <1>1, ListsAreGood, AddedIsGood
<1>3. PICK none \in SUBSET Commissioner : none = {}
  OBVIOUS
<1>4. /\ list' = [list EXCEPT ![l] = k]
      /\ reach' = [reach EXCEPT ![q] = none]
      /\ step' = [step EXCEPT ![q] = "called"]
      /\ locked' = [locked EXCEPT ![q] = First]
      /\ into' = [into EXCEPT ![q] = First]
      /\ pos' = [pos EXCEPT ![q] = 0]
      /\ holder' = [holder EXCEPT ![locked[q]] = None]
      /\ UNCHANGED <<available, current, avoid, chosen, lapsed, start>>
  BY <1>3 DEF AddEnd, Answer, Release, Go, TypeOK
<1> HIDE DEF k, l
<1>5. list' \in [ListId -> Lists] /\ \A m \in ListId : list'[m].size =< Len(list'[m].items)
  BY <1>1, <1>2, <1>4 DEF TypeOK, Good
<1>6. reach' \in [Request -> SUBSET Commissioner]
  BY <1>3, <1>4 DEF TypeOK
<1> QED
  BY <1>4, <1>5, <1>6, DispatchAssumption DEF TypeOK, Step, ListId

LEMMA TypesKept ==
  ASSUME TypeOK, ListInv, MarkInv, [Next]_vars
  PROVE  TypeOK'
<1>1. CASE UNCHANGED vars
  BY <1>1 DEF vars, manager, locals, TypeOK
<1>2. CASE Next /\ UNCHANGED list
  BY <1>2, TypesOfOthers
<1>3. ASSUME NEW q \in Request, CollectExpiredItems(q) \/ AddEnd(q)
      PROVE  TypeOK'
  BY <1>3, TypesOfCollect, TypesOfAddEnd
<1> QED
  BY <1>1, <1>2, <1>3
     DEF Next, Commissioners, SetAvailability, ResetAvailability, IdentificationLink,
         RequestStep, SwapList, GetBusyCommissioners, GetBusyFails, Choose, NobodyFree,
         AddBusyCommissioner, AddBegin, Lapse, manager
(* The requests that leave the lists, and whose turn it is, alone.         *)
LEMMA ListInvOfOthers ==
  ASSUME TypeOK, ListInv, NEW q \in Request,
         \/ GetBusyCommissioners(q) \/ GetBusyFails(q) \/ Choose(q) \/ NobodyFree(q)
         \/ AddBusyCommissioner(q) \/ Lapse(q) \/ \E S \in Reach : IdentificationLink(q, S)
  PROVE  ListInv'
<1> USE DEF TypeOK, ListInv, Go
<1>1. UNCHANGED <<current, list>>
  BY DEF GetBusyCommissioners, GetBusyFails, Choose, NobodyFree, AddBusyCommissioner,
         Lapse, IdentificationLink, manager
<1>2. /\ \A r \in Request : step'[r] \in {"new", "collect"} => step[r] \in {"new", "collect"}
      /\ \A r \in Request : step'[r] = "collecting" => step[r] = "collecting"
      /\ \A r \in Request : step'[r] = "adding" =>
           step[r] = "adding" /\ pos'[r] = pos[r] /\ into'[r] = into[r]
      /\ \A r \in Request : into'[r] \in {into[r], First}
  BY DEF GetBusyCommissioners, GetBusyFails, Choose, NobodyFree, AddBusyCommissioner,
         Lapse, IdentificationLink, locals, Answer
<1>3. First \notin Request
  BY DispatchAssumption
<1> QED
  BY <1>1, <1>2, <1>3

LEMMA ListInvKept ==
  ASSUME TypeOK, ListInv, [Next]_vars
  PROVE  ListInv'
<1> USE DEF TypeOK, ListInv, Go
<1>1. CASE UNCHANGED <<current, list, step, into, pos>>
  BY <1>1
<1>2. ASSUME NEW q \in Request, CollectExpiredItems(q)
      PROVE  ListInv'
  <2>1. /\ list' = [list EXCEPT ![q] = Kept(list[current])]
        /\ step' = [step EXCEPT ![q] = "collecting"] /\ step[q] = "collect"
        /\ UNCHANGED <<current, into, pos>>
    BY <1>2 DEF CollectExpiredItems, locals
  <2>2. \A r \in Request : into[r] # q
    BY <2>1
  <2>3. \A l \in ListId : l # q => list'[l] = list[l]
    BY <2>1
  <2>4. \A r \in Request : step'[r] \in {"new", "collect"} => r # q /\ r \in ListId
    BY <2>1 DEF ListId
  <2> QED
    BY <2>1, <2>2, <2>3, <2>4
<1>3. ASSUME NEW q \in Request, SwapList(q)
      PROVE  ListInv'
  <2>1. /\ current' = q /\ step' = [step EXCEPT ![q] = "read"] /\ step[q] = "collecting"
        /\ UNCHANGED <<list, into, pos>>
    BY <1>3 DEF SwapList, locals
  <2> QED
    BY <2>1
<1>4. ASSUME NEW q \in Request, AddBegin(q)
      PROVE  ListInv'
  <2>1. /\ into' = [into EXCEPT ![q] = current]
        /\ pos' = [pos EXCEPT ![q] = list[current].size]
        /\ step' = [step EXCEPT ![q] = "adding"] /\ step[q] = "add"
        /\ UNCHANGED <<current, list>>
    BY <1>4 DEF AddBegin
  <2>2. list[current].size =< Len(list[current].items)
    OBVIOUS
  <2> QED
    BY <2>1, <2>2
<1>5. ASSUME NEW q \in Request, AddEnd(q)
      PROVE  ListInv'
  <2> DEFINE k == Added(list[into[q]], pos[q], q)
  <2>1. /\ list' = [list EXCEPT ![into[q]] = k]
        /\ step' = [step EXCEPT ![q] = "called"] /\ step[q] = "adding"
        /\ into' = [into EXCEPT ![q] = First]
        /\ pos' = [pos EXCEPT ![q] = 0]
        /\ UNCHANGED current
    BY <1>5 DEF AddEnd, Answer
  <2>2. Len(list[into[q]].items) =< Len(k.items) /\ Len(k.items) \in Nat
    <3>1. into[q] \in ListId /\ pos[q] \in Nat /\ pos[q] =< Len(list[into[q]].items)
      BY <2>1
    <3>2. Good(list[into[q]])
      BY <3>1, ListsAreGood DEF TypeOK
    <3>3. Good(k) /\ Len(list[into[q]].items) =< Len(k.items)
      BY <3>1, <3>2, AddedIsGood
    <3> HIDE DEF k
    <3> QED
      BY <3>3 DEF Good, Lists
  <2>3. \A r \in Request : step[r] \in {"new", "collect"} => into[q] # r
    OBVIOUS
  <2>4. First \notin Request
    BY DispatchAssumption
  <2> HIDE DEF k
  <2>5. \A r \in Request : step'[r] \in {"new", "collect"} => list'[r] = list[r]
    BY <2>1, <2>3 DEF ListId
  <2>6. \A l \in ListId : Len(list[l].items) =< Len(list'[l].items)
    <3>1. \A l \in ListId : Len(list[l].items) \in Nat
      BY ListsAreGood
    <3> QED
      BY <2>1, <2>2, <3>1
  <2>7. ASSUME NEW r \in Request, step'[r] = "adding"
        PROVE  pos'[r] =< Len(list'[into'[r]].items)
    <3>1. r # q /\ step[r] = "adding" /\ pos'[r] = pos[r] /\ into'[r] = into[r]
      BY <2>1, <2>7
    <3>2. pos[r] \in Nat /\ into[r] \in ListId
      OBVIOUS
    <3>3. Len(list[into[r]].items) \in Nat /\ Len(list'[into[r]].items) \in Nat
      BY <2>1, <2>2, <3>2, ListsAreGood
    <3> QED
      BY <2>6, <3>1, <3>2, <3>3
  <2> QED
    BY <2>1, <2>4, <2>5, <2>7
<1> QED
  BY <1>1, <1>2, <1>3, <1>4, <1>5, ListInvOfOthers
     DEF Next, vars, manager, locals, Commissioners, SetAvailability, ResetAvailability,
         RequestStep

(* How far a request gets in one step.                                     *)
LEMMA StepPart ==
  ASSUME TypeOK, [Next]_vars, NEW q \in Request
  PROVE  \/ step'[q] = step[q]
         \/ step[q] = "new" /\ step'[q] = "collect"
            /\ \E S \in Reach : IdentificationLink(q, S)
         \/ step[q] = "collect" /\ step'[q] = "collecting" /\ CollectExpiredItems(q)
         \/ step[q] = "collecting" /\ step'[q] = "read" /\ SwapList(q)
         \/ step[q] = "read" /\ step'[q] = "choose" /\ GetBusyCommissioners(q)
         \/ step[q] = "read" /\ step'[q] = "failed" /\ GetBusyFails(q)
         \/ step[q] = "choose" /\ step'[q] = "mark" /\ Choose(q)
         \/ step[q] = "choose" /\ step'[q] = "waits" /\ NobodyFree(q)
         \/ step[q] = "mark" /\ step'[q] = "add" /\ AddBusyCommissioner(q)
         \/ step[q] = "add" /\ step'[q] = "adding" /\ AddBegin(q)
         \/ step[q] = "adding" /\ step'[q] = "called" /\ AddEnd(q)
<1> USE DEF TypeOK, Go
<1>1. CASE UNCHANGED step
  BY <1>1
<1>2. ASSUME NEW r \in Request, RequestStep(r) \/ \E S \in Reach : IdentificationLink(r, S), r # q
      PROVE  step'[q] = step[q]
  BY <1>2 DEF RequestStep, CollectExpiredItems, SwapList, GetBusyCommissioners, GetBusyFails,
       Choose, NobodyFree, AddBusyCommissioner, AddBegin, AddEnd, Answer, IdentificationLink
<1>3. CASE CollectExpiredItems(q) \/ SwapList(q) \/ GetBusyCommissioners(q) \/ GetBusyFails(q)
  BY <1>3 DEF CollectExpiredItems, SwapList, GetBusyCommissioners, GetBusyFails, Answer
<1>4. CASE Choose(q) \/ NobodyFree(q) \/ AddBusyCommissioner(q) \/ AddBegin(q) \/ AddEnd(q)
  BY <1>4 DEF Choose, NobodyFree, AddBusyCommissioner, AddBegin, AddEnd, Answer
<1>5. ASSUME NEW S \in Reach, IdentificationLink(q, S)
      PROVE  step[q] = "new" /\ step'[q] = "collect"
  BY <1>5 DEF IdentificationLink
<1> QED
  BY <1>1, <1>2, <1>3, <1>4, <1>5
     DEF Next, vars, Commissioners, SetAvailability, ResetAvailability, Lapse, RequestStep

(* A choice is made once, before the mark is added.                        *)
LEMMA ChosenPart ==
  ASSUME TypeOK, [Next]_vars, NEW q \in Request, ~(step[q] = "choose" /\ step'[q] = "mark")
  PROVE  chosen'[q] = chosen[q]
<1>1. CASE UNCHANGED chosen
  BY <1>1
<1>2. ASSUME NEW r \in Request, Choose(r)
      PROVE  chosen'[q] = chosen[q]
  BY <1>2 DEF Choose, Go, TypeOK
<1> QED
  BY <1>1, <1>2
     DEF Next, vars, locals, Commissioners, SetAvailability, ResetAvailability, Lapse,
         RequestStep, CollectExpiredItems, SwapList, GetBusyCommissioners, GetBusyFails,
         NobodyFree, AddBusyCommissioner, AddBegin, AddEnd, Answer, IdentificationLink

(* What a list holds after a step: what it held, or what the current one   *)
(* held of live marks, and the mark of the call just set up.               *)
LEMMA ItemPart ==
  ASSUME TypeOK, ListInv, [Next]_vars, NEW l \in ListId,
         NEW i \in 1..Len(list'[l].items)
  PROVE  \/ \E j \in 1..Len(list[l].items) : list'[l].items[i] = list[l].items[j]
         \/ /\ CollectExpiredItems(l) /\ l \in Request
            /\ Live(list'[l].items[i])
            /\ \E j \in 1..list[current].size :
                 list'[l].items[i] = list[current].items[j]
         \/ \E q \in Request : AddEnd(q) /\ into[q] = l /\ list'[l].items[i] = q
<1>1. CASE UNCHANGED list
  BY <1>1
<1>2. ASSUME NEW q \in Request, CollectExpiredItems(q), l = q
      PROVE  /\ Live(list'[l].items[i])
             /\ \E j \in 1..list[current].size :
                  list'[l].items[i] = list[current].items[j]
  <2>1. list'[l] = Kept(list[current])
    BY <1>2, TypesOfCollect DEF TypeOK
  <2>2. Good(list[current])
    BY ListsAreGood DEF TypeOK
  <2>3. PICK c : c = list[current]
    OBVIOUS
  <2>4. i \in 1..Kept(c).size
    BY <2>1, <2>2, <2>3, KeptIsLive
  <2>5. \E j \in 1..c.size : Kept(c).items[i] = c.items[j] /\ Live(c.items[j])
    BY <2>2, <2>3, <2>4, KeptIsLive
  <2> QED
    BY <2>1, <2>3, <2>5
<1>3. ASSUME NEW q \in Request, CollectExpiredItems(q), l # q
      PROVE  list'[l] = list[l]
  BY <1>3 DEF CollectExpiredItems, TypeOK
<1>4. ASSUME NEW q \in Request, AddEnd(q), into[q] # l
      PROVE  list'[l] = list[l]
  BY <1>4 DEF AddEnd, TypeOK
<1>5. ASSUME NEW q \in Request, AddEnd(q), into[q] = l
      PROVE  \/ list'[l].items[i] = q
             \/ \E j \in 1..Len(list[l].items) : list'[l].items[i] = list[l].items[j]
  <2>1. list'[l] = Added(list[l], pos[q], q)
    BY <1>5 DEF AddEnd, TypeOK
  <2>2. Good(list[l]) /\ pos[q] \in Nat /\ pos[q] =< Len(list[l].items)
    BY <1>5, ListsAreGood DEF TypeOK, ListInv, AddEnd
  <2>3. PICK x, n : x = list[l] /\ n = pos[q]
    OBVIOUS
  <2>4. i \in 1..Len(Added(x, n, q).items)
    BY <2>1, <2>3
  <2>5. /\ Added(x, n, q).items[n + 1] = q
        /\ \A j \in 1..Len(x.items) : j # n + 1 => Added(x, n, q).items[j] = x.items[j]
        /\ i = n + 1 \/ i \in 1..Len(x.items)
    <3>1. Good(x) /\ n \in Nat /\ n =< Len(x.items)
      BY <2>2, <2>3
    <3> QED
      BY <2>4, <3>1, AddedIsGood
  <2>6. list'[l].items[i] = Added(x, n, q).items[i]
    BY <2>1, <2>3
  <2>7. CASE i = n + 1
    BY <2>5, <2>6, <2>7
  <2>8. CASE i # n + 1
    BY <2>3, <2>5, <2>6, <2>8
  <2> QED
    BY <2>5, <2>7, <2>8
<1> QED
  BY <1>1, <1>2, <1>3, <1>4, <1>5
     DEF Next, vars, manager, Commissioners, SetAvailability, ResetAvailability, Lapse,
         RequestStep, SwapList, GetBusyCommissioners, GetBusyFails, Choose,
         NobodyFree, AddBusyCommissioner, AddBegin, IdentificationLink

LEMMA MarkInvKept ==
  ASSUME TypeOK, ListInv, MarkInv, [Next]_vars
  PROVE  MarkInv'
<1>1. ASSUME NEW l \in ListId, NEW i \in 1..Len(list'[l].items)
      PROVE  step'[list'[l].items[i]] = "called"
  <2>1. ASSUME NEW r \in Request, step[r] = "called"
        PROVE  step'[r] = "called"
    BY <2>1, StepPart
  <2>2. ASSUME NEW m \in ListId, NEW j \in 1..Len(list[m].items)
        PROVE  list[m].items[j] \in Request /\ step[list[m].items[j]] = "called"
    <3>1. list[m].items \in Seq(Request)
      BY ListsAreGood DEF Good, Lists
    <3> QED
      BY <3>1 DEF MarkInv
  <2>3. \A j \in 1..list[current].size : j \in 1..Len(list[current].items)
    BY ListsAreGood DEF TypeOK, Good
  <2>4. ASSUME NEW q \in Request, AddEnd(q)
        PROVE  step'[q] = "called"
    BY <2>4 DEF AddEnd, Answer, Go, TypeOK
  <2>5. CASE \E j \in 1..Len(list[l].items) : list'[l].items[i] = list[l].items[j]
    BY <2>1, <2>2, <2>5
  <2>6. CASE \E j \in 1..list[current].size : list'[l].items[i] = list[current].items[j]
    <3>1. current \in ListId
      BY DEF TypeOK
    <3> QED
      BY <2>1, <2>2, <2>3, <2>6, <3>1
  <2>7. CASE \E q \in Request : AddEnd(q) /\ list'[l].items[i] = q
    BY <2>4, <2>7
  <2> QED
    BY <2>5, <2>6, <2>7, ItemPart
<1>2. ASSUME NEW q \in Request, step'[q] \in {"mark", "add", "adding", "called"}
      PROVE  chosen'[q] \in Commissioner
  <2>1. CASE step[q] = "choose" /\ step'[q] = "mark"
    <3>1. Choose(q)
      BY <2>1, StepPart
    <3> QED
      BY <3>1 DEF Choose, Free, TypeOK
  <2>2. CASE ~(step[q] = "choose" /\ step'[q] = "mark")
    <3>1. step[q] \in {"mark", "add", "adding", "called"}
      BY <1>2, <2>2, StepPart
    <3> QED
      BY <2>2, <3>1, ChosenPart DEF MarkInv
  <2> QED
    BY <2>1, <2>2
<1> QED
  BY <1>1, <1>2 DEF MarkInv

(* The manager, its lists and the requests are well typed; the size of a   *)
(* list is never beyond its array, whoever adds to it without its lock.    *)
THEOREM TypeCorrect == Spec => [](TypeOK /\ ListInv /\ MarkInv)
<1>1. Init => TypeOK /\ ListInv /\ MarkInv
  <2> SUFFICES ASSUME Init
               PROVE  TypeOK /\ ListInv /\ MarkInv
    OBVIOUS
  <2>1. EmptyList \in Lists /\ EmptyList.size =< Len(EmptyList.items)
    BY DEF EmptyList, Lists
  <2>2. PICK none \in SUBSET Commissioner : none = {}
    OBVIOUS
  <2>3. reach \in [Request -> SUBSET Commissioner] /\ avoid \in [Request -> SUBSET Commissioner]
    BY <2>2 DEF Init
  <2>4. start \in [Request -> [answered: SUBSET Request, lapsed: SUBSET Request]]
    <3>1. PICK e \in SUBSET Request : e = {}
      OBVIOUS
    <3>2. start = [q \in Request |-> [answered |-> e, lapsed |-> e]]
      BY <3>1 DEF Init
    <3> QED
      BY <3>2
  <2>5. list \in [ListId -> Lists] /\ \A l \in ListId : list[l].size =< Len(list[l].items)
    BY <2>1 DEF Init
  <2>6. TypeOK
    BY <2>3, <2>4, <2>5 DEF Init, TypeOK, ListId, Step
  <2>7. ListInv
    BY DispatchAssumption DEF Init, ListInv, ListId
  <2>8. MarkInv
    BY DEF Init, MarkInv, EmptyList
  <2> QED
    BY <2>6, <2>7, <2>8
<1>2. TypeOK /\ ListInv /\ MarkInv /\ [Next]_vars => (TypeOK /\ ListInv /\ MarkInv)'
  BY TypesKept, ListInvKept, MarkInvKept
<1> QED
  BY <1>1, <1>2, PTL DEF Spec
-----------------------------------------------------------------------------
(* Steps and what they leave behind.                                       *)

LEMMA StartPart ==
  ASSUME TypeOK, [Next]_vars, NEW q \in Request
  PROVE  /\ step[q] # "new" => start'[q] = start[q]
         /\ \/ start'[q] = start[q]
            \/ start'[q] = [answered |-> {r \in Request : step[r] \in Done},
                            lapsed |-> lapsed]
         /\ lapsed \subseteq lapsed'
<1> USE DEF TypeOK
<1>1. CASE UNCHANGED <<start, lapsed>>
  BY <1>1
<1>2. ASSUME NEW r \in Request, NEW S \in Reach, IdentificationLink(r, S)
      PROVE  /\ step[q] # "new" => start'[q] = start[q]
             /\ \/ start'[q] = start[q]
                \/ start'[q] = [answered |-> {s \in Request : step[s] \in Done},
                                lapsed |-> lapsed]
             /\ lapsed \subseteq lapsed'
  <2>1. step[r] = "new" /\ lapsed' = lapsed
    BY <1>2 DEF IdentificationLink
  <2>2. PICK v : v = [answered |-> {s \in Request : step[s] \in Done}, lapsed |-> lapsed]
    OBVIOUS
  <2>3. start' = [start EXCEPT ![r] = v]
    BY <1>2, <2>2 DEF IdentificationLink
  <2>4. start'[q] = start[q] \/ (q = r /\ start'[q] = v)
    BY <2>3
  <2> QED
    BY <2>1, <2>2, <2>4
<1>3. ASSUME NEW r \in Request, Lapse(r)
      PROVE  UNCHANGED start /\ lapsed \subseteq lapsed'
  BY <1>3 DEF Lapse
<1> QED
  BY <1>1, <1>2, <1>3
     DEF Next, vars, Commissioners, SetAvailability, ResetAvailability, RequestStep,
         CollectExpiredItems, SwapList, GetBusyCommissioners, GetBusyFails, Choose,
         NobodyFree, AddBusyCommissioner, AddBegin, AddEnd

LEMMA OverlapStays ==
  ASSUME TypeOK, [Next]_vars, NEW q \in Request, NEW r \in Request, Overlapped(q, r)
  PROVE  Overlapped(q, r)'
<1>1. step[q] # "new" /\ step[r] # "new"
  BY DEF Overlapped
<1>2. step'[q] # "new" /\ step'[r] # "new"
  BY <1>1, StepPart
<1>3. start'[q] = start[q] /\ start'[r] = start[r]
  BY <1>1, StartPart
<1> QED
  BY <1>2, <1>3 DEF Overlapped

LEMMA CurrentPart ==
  ASSUME [Next]_vars
  PROVE  UNCHANGED current \/ \E q \in Request : SwapList(q) /\ current' = q
BY DEF Next, vars, manager, Commissioners, SetAvailability, ResetAvailability, RequestStep,
       Lapse, IdentificationLink, CollectExpiredItems, SwapList, GetBusyCommissioners,
       GetBusyFails, Choose, NobodyFree, AddBusyCommissioner, AddBegin, AddEnd

LEMMA AddingPart ==
  ASSUME TypeOK, [Next]_vars, NEW r \in Request, step'[r] = "adding"
  PROVE  \/ step[r] = "adding" /\ into'[r] = into[r] /\ pos'[r] = pos[r]
         \/ /\ AddBegin(r) /\ step[r] = "add"
            /\ into'[r] = current /\ pos'[r] = list[current].size
<1> USE DEF TypeOK, Go
<1>1. CASE UNCHANGED <<step, into, pos>>
  BY <1>1
<1>2. ASSUME NEW s \in Request, GetBusyFails(s) \/ NobodyFree(s) \/ AddEnd(s)
      PROVE  step[r] = "adding" /\ into'[r] = into[r] /\ pos'[r] = pos[r]
  BY <1>2 DEF GetBusyFails, NobodyFree, AddEnd, Answer
<1>3. ASSUME NEW s \in Request, AddBegin(s)
      PROVE  \/ step[r] = "adding" /\ into'[r] = into[r] /\ pos'[r] = pos[r]
             \/ /\ AddBegin(r) /\ step[r] = "add"
                /\ into'[r] = current /\ pos'[r] = list[current].size
  BY <1>3 DEF AddBegin
<1>4. ASSUME NEW s \in Request,
             \/ CollectExpiredItems(s) \/ SwapList(s) \/ GetBusyCommissioners(s)
             \/ Choose(s) \/ AddBusyCommissioner(s)
             \/ \E S \in Reach : IdentificationLink(s, S)
      PROVE  step[r] = "adding" /\ into'[r] = into[r] /\ pos'[r] = pos[r]
  BY <1>4 DEF CollectExpiredItems, SwapList, GetBusyCommissioners, Choose,
              AddBusyCommissioner, IdentificationLink, locals
<1> QED
  BY <1>1, <1>2, <1>3, <1>4
     DEF Next, vars, locals, Commissioners, SetAvailability, ResetAvailability, Lapse,
         RequestStep

LEMMA AvoidPart ==
  ASSUME TypeOK, [Next]_vars, NEW q \in Request
  PROVE  \/ avoid'[q] = avoid[q]
         \/ /\ GetBusyCommissioners(q) /\ step[q] = "read"
            /\ avoid'[q] = {chosen[r] : r \in Marks(current)}
<1>1. CASE UNCHANGED avoid
  BY <1>1
<1>2. ASSUME NEW r \in Request, GetBusyCommissioners(r)
      PROVE  \/ avoid'[q] = avoid[q]
             \/ /\ GetBusyCommissioners(q) /\ step[q] = "read"
                /\ avoid'[q] = {chosen[s] : s \in Marks(current)}
  <2>1. PICK b : b = {chosen[s] : s \in Marks(current)}
    OBVIOUS
  <2>2. avoid' = [avoid EXCEPT ![r] = b] /\ step[r] = "read"
    BY <1>2, <2>1 DEF GetBusyCommissioners
  <2>3. avoid'[q] = avoid[q] \/ (q = r /\ avoid'[q] = b)
    BY <2>2 DEF TypeOK
  <2> QED
    BY <1>2, <2>1, <2>2, <2>3
<1> QED
  BY <1>1, <1>2
     DEF Next, vars, locals, Commissioners, SetAvailability, ResetAvailability, Lapse,
         RequestStep, CollectExpiredItems, SwapList, GetBusyFails, Choose, NobodyFree,
         AddBusyCommissioner, AddBegin, AddEnd, Answer, IdentificationLink

(* What had been answered or had run out when a request came still has.    *)
HistInv ==
  /\ \A q \in Request : \A s \in start[q].answered : step[s] \in Done
  /\ \A r \in lapsed : step[r] \in {"adding", "called"}
  /\ \A q \in Request : start[q].lapsed \subseteq lapsed

LEMMA HistInvKept ==
  ASSUME TypeOK, HistInv, [Next]_vars
  PROVE  HistInv'
<1>1. ASSUME NEW s \in Request, step[s] \in Done
      PROVE  step'[s] \in Done
  BY <1>1, StepPart DEF Done
<1>2. ASSUME NEW q \in Request, NEW s \in start'[q].answered
      PROVE  step'[s] \in Done
  <2>1. start[q].answered \subseteq Request
    BY DEF TypeOK
  <2>2. PICK A : A = {r \in Request : step[r] \in Done}
    OBVIOUS
  <2>3. start'[q] = start[q] \/ start'[q] = [answered |-> A, lapsed |-> lapsed]
    BY <2>2, StartPart
  <2>4. start'[q].answered = start[q].answered \/ start'[q].answered = A
    BY <2>3
  <2>5. s \in Request /\ step[s] \in Done
    BY <1>2, <2>1, <2>2, <2>4 DEF HistInv
  <2> QED
    BY <1>1, <2>5
<1>3. ASSUME NEW r \in lapsed'
      PROVE  step'[r] \in {"adding", "called"}
  <2>1. r \in Request
    BY <1>3, TypesKept DEF TypeOK, Next, Lapse, vars, Commissioners, SetAvailability,
       ResetAvailability, RequestStep, CollectExpiredItems, SwapList, GetBusyCommissioners,
       GetBusyFails, Choose, NobodyFree, AddBusyCommissioner, AddBegin, AddEnd,
       IdentificationLink
  <2>2. CASE r \in lapsed
    BY <2>1, <2>2, StepPart DEF HistInv
  <2>3. CASE r \notin lapsed
    <3>1. Lapse(r)
      BY <2>3 DEF Next, Lapse, vars, Commissioners, SetAvailability,
       ResetAvailability, RequestStep, CollectExpiredItems, SwapList, GetBusyCommissioners,
       GetBusyFails, Choose, NobodyFree, AddBusyCommissioner, AddBegin, AddEnd,
       IdentificationLink
    <3> QED
      BY <3>1 DEF Lapse
  <2> QED
    BY <2>2, <2>3
<1>4. ASSUME NEW q \in Request
      PROVE  start'[q].lapsed \subseteq lapsed'
  <2>1. start'[q].lapsed = start[q].lapsed \/ start'[q].lapsed = lapsed
    <3>1. PICK A : A = {r \in Request : step[r] \in Done}
      OBVIOUS
    <3>2. start'[q] = start[q] \/ start'[q] = [answered |-> A, lapsed |-> lapsed]
      BY <3>1, StartPart
    <3> QED
      BY <3>2
  <2>2. lapsed \subseteq lapsed'
    BY StartPart
  <2> QED
    BY <2>1, <2>2 DEF HistInv
<1> QED
  BY <1>2, <1>3, <1>4 DEF HistInv

LEMMA HistInvariant == Spec => []HistInv
<1>1. Init => HistInv
  BY DEF Init, HistInv
<1>2. TypeOK /\ HistInv /\ [Next]_vars => HistInv'
  BY HistInvKept
<1> QED
  BY <1>1, <1>2, TypeCorrect, PTL DEF Spec
-----------------------------------------------------------------------------
(* Who is passed over.                                                     *)

(* The marks of a list that a request made had not run out when it came,   *)
(* and the list in the field is its own, or of one that overlapped it.     *)
SinceInv ==
  /\ \A l \in Request : \A i \in 1..Len(list[l].items) :
       list[l].items[i] \notin start[l].lapsed
  /\ \A r \in Request : step[r] = "adding" /\ into[r] \in Request =>
       r \notin start[into[r]].lapsed
  /\ \A q \in Request : step[q] = "read" =>
       current \in Request /\ (current = q \/ Overlapped(current, q))

LEMMA MadeLists ==
  ASSUME TypeOK, ListInv, NEW l \in Request, step[l] = "new"
  PROVE  Len(list[l].items) = 0
BY DEF ListInv, EmptyList

LEMMA SinceInvKept ==
  ASSUME TypeOK, ListInv, MarkInv, HistInv, SinceInv, [Next]_vars
  PROVE  SinceInv'
<1>1. ASSUME NEW l \in Request, NEW i \in 1..Len(list'[l].items)
      PROVE  list'[l].items[i] \notin start'[l].lapsed
  <2>1. l \in ListId
    BY DEF ListId
  <2>2. CASE \E j \in 1..Len(list[l].items) : list'[l].items[i] = list[l].items[j]
    <3>1. step[l] # "new"
      BY <2>2, MadeLists
    <3>2. start'[l] = start[l]
      BY <3>1, StartPart
    <3> QED
      BY <2>2, <3>2 DEF SinceInv
  <2>3. CASE CollectExpiredItems(l) /\ Live(list'[l].items[i])
    <3>1. start'[l] = start[l]
      BY <2>3, StartPart DEF CollectExpiredItems
    <3> QED
      BY <2>3, <3>1 DEF Live, HistInv
  <2>4. ASSUME NEW q \in Request, AddEnd(q), into[q] = l, list'[l].items[i] = q
        PROVE  list'[l].items[i] \notin start'[l].lapsed
    <3>1. start' = start /\ step[q] = "adding"
      BY <2>4 DEF AddEnd
    <3> QED
      BY <2>4, <3>1 DEF SinceInv
  <2> QED
    BY <2>1, <2>2, <2>3, <2>4, ItemPart
<1>2. ASSUME NEW r \in Request, step'[r] = "adding", into'[r] \in Request
      PROVE  r \notin start'[into'[r]].lapsed
  <2>1. CASE step[r] = "adding" /\ into'[r] = into[r]
    <3>1. step[into[r]] # "new"
      BY <1>2, <2>1 DEF ListInv
    <3>2. start'[into[r]] = start[into[r]]
      BY <1>2, <2>1, <3>1, StartPart
    <3> QED
      BY <1>2, <2>1, <3>2 DEF SinceInv
  <2>2. CASE AddBegin(r) /\ step[r] = "add" /\ into'[r] = current
    <3>1. start' = start
      BY <2>2 DEF AddBegin
    <3> QED
      BY <1>2, <2>2, <3>1 DEF HistInv
  <2> QED
    BY <1>2, <2>1, <2>2, AddingPart
<1>3. ASSUME NEW q \in Request, step'[q] = "read"
      PROVE  current' \in Request /\ (current' = q \/ Overlapped(current, q)')
  <2>1. CASE SwapList(q)
    BY <2>1 DEF SwapList
  <2>2. CASE ~SwapList(q)
    <3>1. step[q] = "read"
      BY <1>3, <2>2, StepPart
    <3>2. CASE UNCHANGED current
      BY <3>1, <3>2, OverlapStays DEF SinceInv, Overlapped
    <3>3. ASSUME NEW s \in Request, SwapList(s), current' = s
          PROVE  Overlapped(s, q)'
      <4>1. s # q /\ step[s] = "collecting"
        BY <2>2, <3>3 DEF SwapList
      <4>2. Overlapped(s, q)
        BY <3>1, <4>1 DEF Overlapped, HistInv, Done
      <4> QED
        BY <4>2, OverlapStays
    <3>4. ASSUME NEW s \in Request, SwapList(s), current' = s
          PROVE  current' \in Request /\ Overlapped(current, q)'
      <4>1. Overlapped(s, q)'
        BY <3>3, <3>4
      <4> QED
        BY <3>4, <4>1 DEF Overlapped
    <3> QED
      BY <3>2, <3>4, CurrentPart
  <2> QED
    BY <2>1, <2>2
<1> QED
  BY <1>1, <1>2, <1>3 DEF SinceInv, Overlapped

(* BusyOnlyWhileCalled, with the call set up and the other request there.  *)
BusyInv ==
  \A q \in Request : \A c \in avoid[q] :
    \E r, s \in Request :
      /\ step[r] = "called" /\ chosen[r] = c
      /\ step[s] # "new"
      /\ s = q \/ Overlapped(s, q)
      /\ r \notin start[s].lapsed

LEMMA BusyInvKept ==
  ASSUME TypeOK, ListInv, MarkInv, HistInv, SinceInv, BusyInv, [Next]_vars
  PROVE  BusyInv'
<1> SUFFICES ASSUME NEW q \in Request, NEW c \in avoid'[q]
             PROVE  \E r, s \in Request :
                      /\ step'[r] = "called" /\ chosen'[r] = c
                      /\ step'[s] # "new"
                      /\ s = q \/ Overlapped(s, q)'
                      /\ r \notin start'[s].lapsed
  BY DEF BusyInv
<1>1. SUFFICES \E r, s \in Request :
                 /\ step[r] = "called" /\ chosen[r] = c
                 /\ step[s] # "new"
                 /\ s = q \/ Overlapped(s, q)
                 /\ r \notin start[s].lapsed
  <2>1. PICK r \in Request, s \in Request :
          /\ step[r] = "called" /\ chosen[r] = c
          /\ step[s] # "new"
          /\ s = q \/ Overlapped(s, q)
          /\ r \notin start[s].lapsed
    BY <1>1
  <2>2. step'[r] = "called" /\ step'[s] # "new"
    BY <2>1, StepPart
  <2>3. chosen'[r] = c /\ start'[s] = start[s]
    BY <2>1, ChosenPart, StartPart
  <2>4. s = q \/ Overlapped(s, q)'
    BY <2>1, OverlapStays
  <2> QED
    BY <2>1, <2>2, <2>3, <2>4
<1>2. CASE avoid'[q] = avoid[q]
  BY <1>2 DEF BusyInv
<1>3. CASE step[q] = "read" /\ avoid'[q] = {chosen[r] : r \in Marks(current)}
  <2>1. current \in Request /\ (current = q \/ Overlapped(current, q))
    BY <1>3 DEF SinceInv
  <2>2. step[current] # "new"
    BY <2>1 DEF ListInv
  <2>3. PICK i \in 1..list[current].size : c = chosen[list[current].items[i]]
    BY <1>3 DEF Marks
  <2>4. i \in 1..Len(list[current].items) /\ list[current].items[i] \in Request
    BY <2>1, ListsAreGood DEF Good, Lists, ListId
  <2>5. /\ step[list[current].items[i]] = "called"
        /\ list[current].items[i] \notin start[current].lapsed
    BY <2>1, <2>4 DEF MarkInv, SinceInv, ListId
  <2> QED
    BY <2>1, <2>2, <2>3, <2>4, <2>5
<1> QED
  BY <1>2, <1>3, AvoidPart

LEMMA SinceInvariant == Spec => [](SinceInv /\ BusyInv)
<1>1. Init => SinceInv /\ BusyInv
  BY DEF Init, SinceInv, BusyInv, EmptyList, ListId
<1>2. /\ TypeOK /\ ListInv /\ MarkInv /\ HistInv
      /\ SinceInv /\ BusyInv /\ [Next]_vars
      => (SinceInv /\ BusyInv)'
  BY SinceInvKept, BusyInvKept
<1> QED
  BY <1>1, <1>2, TypeCorrect, HistInvariant, PTL DEF Spec

(* Nobody is passed over for a call that had run out before this request,  *)
(* or one that overlapped it, came: for any number of requests that        *)
(* collect, swap and add at the same time.                                 *)
THEOREM BusyOnlyWhileCalledHolds == Spec => []BusyOnlyWhileCalled
<1>1. BusyInv => BusyOnlyWhileCalled
  BY DEF BusyInv, BusyOnlyWhileCalled
<1> QED
  BY <1>1, SinceInvariant, PTL
-----------------------------------------------------------------------------
(* Calls that are kept.                                                    *)

Active(q) == step[q] \notin {"new"} \union Done

(* The mark of q is in the list, below where anybody is about to write.    *)
Held(q, l) ==
  \E i \in 1..list[l].size :
    /\ list[l].items[i] = q
    /\ \A r \in Request : step[r] = "adding" /\ into[r] = l => i =< pos[r]

(* A call that nothing disturbed is in the list in the field and in every  *)
(* list that may come into it, so whoever came after it passes over its    *)
(* commissioner.                                                           *)
HeldInv ==
  \A q \in Request : ~Disturbed(q) =>
    /\ step[q] = "adding" => into[q] = current
    /\ step[q] = "called" /\ Live(q) =>
         /\ Held(q, current)
         /\ \A r \in Request : step[r] = "collecting" => Held(q, r)

PassedInv ==
  /\ \A q, r \in Request :
       /\ ~Disturbed(q) /\ step[q] = "called" /\ Live(q)
       /\ q \in start[r].answered
       /\ step[r] \in {"choose", "mark", "add", "adding", "called"}
       => chosen[q] \in avoid[r]
  /\ \A r \in Request : step[r] \in {"mark", "add", "adding", "called"} =>
       chosen[r] \notin avoid[r]

LEMMA DisturbedStays ==
  ASSUME TypeOK, [Next]_vars, NEW q \in Request, Disturbed(q)
  PROVE  Disturbed(q)'
<1>1. PICK r \in Request : Overlapped(q, r)
  BY DEF Disturbed
<1>2. Overlapped(q, r)'
  BY <1>1, OverlapStays
<1> QED
  BY <1>2 DEF Disturbed

(* While an undisturbed request is under way it is alone.                  *)
LEMMA AloneWhileUndisturbed ==
  ASSUME HistInv, NEW q \in Request, NEW r \in Request, q # r,
         ~Disturbed(q), Active(q)
  PROVE  ~Active(r)
<1> SUFFICES ASSUME Active(r)
             PROVE  FALSE
  OBVIOUS
<1>1. Overlapped(q, r)
  BY DEF Overlapped, HistInv, Active
<1> QED
  BY <1>1 DEF Disturbed

LEMMA HeldKept ==
  ASSUME TypeOK, ListInv, [Next]_vars, NEW q \in Request, NEW l \in ListId,
         Held(q, l), ~(l \in Request /\ CollectExpiredItems(l))
  PROVE  Held(q, l)'
<1>1. PICK i \in 1..list[l].size :
        /\ list[l].items[i] = q
        /\ \A r \in Request : step[r] = "adding" /\ into[r] = l => i =< pos[r]
  BY DEF Held
<1>2. /\ list[l].size \in Nat /\ Len(list[l].items) \in Nat
      /\ list[l].size =< Len(list[l].items)
  BY ListsAreGood DEF Good
<1>3. i \in Nat /\ i \in 1..Len(list[l].items)
  BY <1>2
<1>4. CASE list'[l] = list[l]
  <2>1. ASSUME NEW r \in Request, step'[r] = "adding", into'[r] = l
        PROVE  i =< pos'[r]
    <3>1. CASE step[r] = "adding" /\ into'[r] = into[r] /\ pos'[r] = pos[r]
      BY <2>1, <3>1, <1>1
    <3>2. CASE into'[r] = current /\ pos'[r] = list[current].size
      BY <2>1, <3>2, <1>2
    <3> QED
      BY <2>1, <3>1, <3>2, AddingPart
  <2> QED
    BY <1>1, <1>4, <2>1 DEF Held
<1>5. ASSUME NEW s \in Request, AddEnd(s), into[s] = l
      PROVE  Held(q, l)'
  <2>1. list'[l] = Added(list[l], pos[s], s) /\ step[s] = "adding"
    BY <1>5 DEF AddEnd, TypeOK
  <2>2. i =< pos[s] /\ pos[s] \in Nat /\ pos[s] =< Len(list[l].items) /\ Good(list[l])
    BY <1>1, <1>5, <2>1, ListsAreGood DEF TypeOK, ListInv
  <2>3. list'[l].size = pos[s] + 1 /\ list'[l].items[i] = q
    BY <1>1, <1>3, <2>1, <2>2, AddedIsGood
  <2>4. i \in 1..list'[l].size
    BY <1>3, <2>2, <2>3
  <2>5. ASSUME NEW r \in Request, step'[r] = "adding", into'[r] = l
        PROVE  i =< pos'[r]
    <3>1. ~AddBegin(r)
      BY <1>5 DEF AddBegin, AddEnd, Answer, Go, TypeOK
    <3>2. step[r] = "adding" /\ into'[r] = into[r] /\ pos'[r] = pos[r]
      BY <2>5, <3>1, AddingPart
    <3> QED
      BY <1>1, <2>5, <3>2
  <2> QED
    BY <2>3, <2>4, <2>5 DEF Held
<1>6. ASSUME NEW s \in Request, AddEnd(s), into[s] # l
      PROVE  list'[l] = list[l]
  BY <1>6 DEF AddEnd, TypeOK
<1>7. ASSUME NEW s \in Request, CollectExpiredItems(s), s # l
      PROVE  list'[l] = list[l]
  BY <1>7 DEF CollectExpiredItems, TypeOK
<1> QED
  BY <1>4, <1>5, <1>6, <1>7
     DEF Next, vars, manager, Commissioners, SetAvailability, ResetAvailability, Lapse,
         RequestStep, SwapList, GetBusyCommissioners, GetBusyFails, Choose,
         NobodyFree, AddBusyCommissioner, AddBegin, IdentificationLink

(* The new list has the mark, if its time is not over.                     *)
LEMMA HeldCollected ==
  ASSUME TypeOK, ListInv, NEW q \in Request, NEW r \in Request, CollectExpiredItems(r),
         Held(q, current), Live(q)
  PROVE  Held(q, r)'
<1>1. PICK c : c = list[current]
  OBVIOUS
<1>2. Good(c) /\ list'[r] = Kept(c)
  BY <1>1, ListsAreGood, TypesOfCollect DEF TypeOK, ListId
<1>3. PICK i \in 1..c.size : c.items[i] = q
  BY <1>1 DEF Held
<1>4. \E k \in 1..Kept(c).size : Kept(c).items[k] = q
  BY <1>2, <1>3, KeptIsLive
<1>5. \A s \in Request : into'[s] # r
  BY DEF CollectExpiredItems, ListInv, locals
<1> QED
  BY <1>2, <1>4, <1>5 DEF Held

(* The mark that an undisturbed request adds is the last of the list in    *)
(* the field, where nobody else adds.                                      *)
LEMMA HeldAdded ==
  ASSUME TypeOK, ListInv, HistInv, HeldInv, NEW q \in Request, AddEnd(q), ~Disturbed(q)
  PROVE  Held(q, current)' /\ \A r \in Request : step'[r] # "collecting"
<1>1. step[q] = "adding" /\ into[q] = current /\ current' = current
  BY DEF AddEnd, HeldInv
<1>2. Active(q)
  BY <1>1 DEF Active, Done
<1>3. \A r \in Request : r # q => ~Active(r)
  BY <1>2, AloneWhileUndisturbed
<1>4. step' = [step EXCEPT ![q] = "called"]
  BY DEF AddEnd, Answer, Go
<1>5. \A r \in Request : step'[r] \notin {"adding", "collecting"}
  BY <1>3, <1>4 DEF Active, Done, TypeOK
<1>6. list'[current] = Added(list[current], pos[q], q)
  BY <1>1 DEF AddEnd, TypeOK
<1>7. Good(list[current]) /\ pos[q] \in Nat /\ pos[q] =< Len(list[current].items)
  BY <1>1, ListsAreGood DEF TypeOK, ListInv
<1>8. list'[current].size = pos[q] + 1 /\ list'[current].items[pos[q] + 1] = q
  BY <1>6, <1>7, AddedIsGood
<1>9. pos[q] + 1 \in 1..list'[current].size
  BY <1>7, <1>8
<1> QED
  BY <1>1, <1>5, <1>8, <1>9 DEF Held

LEMMA HeldInvKept ==
  ASSUME TypeOK, ListInv, MarkInv, HistInv, HeldInv, [Next]_vars
  PROVE  HeldInv'
<1> SUFFICES ASSUME NEW q \in Request, ~Disturbed(q)'
             PROVE  /\ step'[q] = "adding" => into'[q] = current'
                    /\ step'[q] = "called" /\ Live(q)' =>
                         /\ Held(q, current)'
                         /\ \A r \in Request : step'[r] = "collecting" => Held(q, r)'
  BY DEF HeldInv
<1>1. ~Disturbed(q)
  BY DisturbedStays
<1>2. ASSUME step'[q] = "adding"
      PROVE  into'[q] = current'
  <2>1. CASE AddBegin(q)
    BY <1>2, <2>1 DEF AddBegin, TypeOK
  <2>2. CASE step[q] = "adding" /\ into'[q] = into[q]
    <3>1. into[q] = current
      BY <1>1, <2>2 DEF HeldInv
    <3>2. ASSUME NEW r \in Request, SwapList(r)
          PROVE  FALSE
      <4>1. Active(q) /\ Active(r) /\ r # q
        BY <2>2, <3>2 DEF Active, Done, SwapList
      <4> QED
        BY <1>1, <4>1, AloneWhileUndisturbed
    <3> QED
      BY <2>2, <3>1, <3>2, CurrentPart
  <2> QED
    BY <1>2, <2>1, <2>2, AddingPart
<1>3. ASSUME step'[q] = "called", Live(q)'
      PROVE  /\ Held(q, current)'
             /\ \A r \in Request : step'[r] = "collecting" => Held(q, r)'
  <2>1. CASE step[q] = "adding"
    <3>1. AddEnd(q)
      BY <1>3, <2>1, StepPart
    <3> QED
      BY <1>1, <3>1, HeldAdded
  <2>2. CASE step[q] = "called"
    <3>1. Live(q)
      BY <1>3, StartPart DEF Live
    <3>2. Held(q, current) /\ \A r \in Request : step[r] = "collecting" => Held(q, r)
      BY <1>1, <2>2, <3>1 DEF HeldInv
    <3>3. ~(current \in Request /\ CollectExpiredItems(current))
      BY DEF CollectExpiredItems, ListInv
    <3>4. ASSUME NEW r \in Request, step'[r] = "collecting"
          PROVE  Held(q, r)'
      <4>1. CASE CollectExpiredItems(r)
        BY <3>1, <3>2, <4>1, HeldCollected
      <4>2. CASE ~CollectExpiredItems(r)
        <5>1. step[r] = "collecting"
          BY <3>4, <4>2, StepPart
        <5> QED
          BY <3>2, <4>2, <5>1, HeldKept DEF ListId
      <4> QED
        BY <4>1, <4>2
    <3>5. Held(q, current)'
      <4>1. CASE UNCHANGED current
        <5>1. current \in ListId
          BY DEF TypeOK
        <5>2. PICK l \in ListId : l = current
          BY <5>1
        <5>3. Held(q, l)'
          BY <3>2, <3>3, <5>2, HeldKept
        <5> QED
          BY <4>1, <5>2, <5>3 DEF Held
      <4>2. ASSUME NEW r \in Request, SwapList(r), current' = r
            PROVE  Held(q, current)'
        <5>1. step[r] = "collecting" /\ ~CollectExpiredItems(r)
          BY <4>2 DEF SwapList, CollectExpiredItems
        <5>2. Held(q, r)'
          BY <3>2, <5>1, HeldKept DEF ListId
        <5> QED
          BY <4>2, <5>2 DEF Held
      <4> QED
        BY <4>1, <4>2, CurrentPart
    <3> QED
      BY <3>4, <3>5
  <2> QED
    BY <1>3, <2>1, <2>2, StepPart
<1> QED
  BY <1>2, <1>3

LEMMA PassedInvKept ==
  ASSUME TypeOK, ListInv, MarkInv, HistInv, HeldInv, PassedInv, [Next]_vars
  PROVE  PassedInv'
<1>1. ASSUME NEW q \in Request, NEW r \in Request,
             ~Disturbed(q)', step'[q] = "called", Live(q)',
             q \in start'[r].answered,
             step'[r] \in {"choose", "mark", "add", "adding", "called"}
      PROVE  chosen'[q] \in avoid'[r]
  <2>1. ~Disturbed(q) /\ Live(q)
    BY <1>1, DisturbedStays, StartPart DEF Live
  <2>2. step[r] # "new"
    BY <1>1, StepPart
  <2>3. start'[r] = start[r]
    BY <2>2, StartPart
  <2>4. step[q] = "called" /\ chosen'[q] = chosen[q]
    <3>1. step[q] \in Done
      BY <1>1, <2>3 DEF HistInv
    <3> QED
      BY <1>1, <3>1, StepPart, ChosenPart DEF Done
  <2>5. CASE step[r] = "read"
    <3>1. GetBusyCommissioners(r)
      BY <1>1, <2>5, StepPart
    <3>2. avoid'[r] = {chosen[s] : s \in Marks(current)}
      <4>1. PICK b : b = {chosen[s] : s \in Marks(current)}
        OBVIOUS
      <4> QED
        BY <3>1, <4>1 DEF GetBusyCommissioners, TypeOK
    <3>3. q \in Marks(current)
      BY <2>1, <2>4 DEF HeldInv, Held, Marks
    <3> QED
      BY <2>4, <3>2, <3>3
  <2>6. CASE step[r] # "read"
    <3>1. step[r] \in {"choose", "mark", "add", "adding", "called"}
      BY <1>1, <2>6, StepPart
    <3>2. avoid'[r] = avoid[r]
      BY <2>6, AvoidPart
    <3> QED
      BY <1>1, <2>1, <2>3, <2>4, <3>1, <3>2 DEF PassedInv
  <2> QED
    BY <2>5, <2>6
<1>2. ASSUME NEW r \in Request, step'[r] \in {"mark", "add", "adding", "called"}
      PROVE  chosen'[r] \notin avoid'[r]
  <2>1. avoid'[r] = avoid[r]
    <3>1. step[r] # "read"
      BY <1>2, StepPart
    <3> QED
      BY <3>1, AvoidPart
  <2>2. CASE step[r] = "choose"
    <3>1. Choose(r)
      BY <1>2, <2>2, StepPart
    <3>2. chosen'[r] \in Free(r)
      BY <3>1 DEF Choose, TypeOK
    <3> QED
      BY <2>1, <3>2 DEF Free
  <2>3. CASE step[r] # "choose"
    <3>1. step[r] \in {"mark", "add", "adding", "called"} /\ chosen'[r] = chosen[r]
      BY <1>2, <2>3, StepPart, ChosenPart
    <3> QED
      BY <2>1, <3>1 DEF PassedInv
  <2> QED
    BY <2>2, <2>3
<1> QED
  BY <1>1, <1>2 DEF PassedInv

LEMMA KeepInvariant == Spec => [](HeldInv /\ PassedInv)
<1>1. Init => HeldInv /\ PassedInv
  BY DEF Init, HeldInv, PassedInv
<1>2. /\ TypeOK /\ ListInv /\ MarkInv /\ HistInv
      /\ HeldInv /\ PassedInv /\ [Next]_vars
      => (HeldInv /\ PassedInv)'
  BY HeldInvKept, PassedInvKept
<1> QED
  BY <1>1, <1>2, TypeCorrect, HistInvariant, PTL DEF Spec

(* Nobody is sent to the commissioner of a call that was set up with no    *)
(* other request under way and has not run out, however many requests come *)
(* later, swap the list under the lock of others and add to it side by     *)
(* side.                                                                   *)
THEOREM UndisturbedCallIsKeptHolds == Spec => []UndisturbedCallIsKept
<1>1. PassedInv => UndisturbedCallIsKept
  BY DEF PassedInv, UndisturbedCallIsKept
<1> QED
  BY <1>1, KeepInvariant, PTL
=============================================================================
