------------------------- MODULE TicketsQueueProofs -------------------------
(***************************************************************************)
(* What the racy list operations of TicketsQueue preserve: lemmas for the  *)
(* modules that build on the queue.                                        *)
(***************************************************************************)
EXTENDS TicketsQueue, TLAPS

(* A list that a stale Add wrote holds only what it held, the new element  *)
(* and empty slots.                                                        *)
LEMMA ListAddSlots ==
  ASSUME NEW S, Null \in S, NEW q \in Seq(S), NEW n \in Nat, NEW x \in S
  PROVE  ListAdd(q, n, x) \in Seq(S)
<1>1. n + 1 \in Nat
  OBVIOUS
<1>2. ASSUME NEW i \in 1..(n + 1)
      PROVE  (IF i = n + 1 THEN x ELSE IF i <= Len(q) THEN q[i] ELSE Null) \in S
  OBVIOUS
<1> QED
  BY <1>1, <1>2 DEF ListAdd

(* A removal at any position, stale or not, brings nothing new.            *)
LEMMA ListRemoveSlots ==
  ASSUME NEW S, NEW q \in Seq(S), NEW n \in Nat
  PROVE  ListRemoveAt(q, n) \in Seq(S)
<1>1. CASE n \in 1..Len(q)
  <2>1. SubSeq(q, 1, n - 1) \in Seq(S) /\ SubSeq(q, n + 1, Len(q)) \in Seq(S)
    BY <1>1
  <2> QED
    BY <1>1, <2>1 DEF ListRemoveAt, RemoveAt
<1>2. CASE n \notin 1..Len(q)
  BY <1>2 DEF ListRemoveAt
<1> QED
  BY <1>1, <1>2

LEMMA IndexInNat ==
  ASSUME NEW S, NEW q \in Seq(S), NEW x
  PROVE  IndexIn(q, x) \in Nat
  BY DEF IndexIn

(* Every step inside the queue, and its loss in a crash, keep the types.   *)
LEMMA QueueStepTypes ==
  ASSUME QTypeOK,
         \/ \E r \in Request : AddBegin(r) \/ AddEnd(r)
         \/ \E c \in Caller : NotifyStep(c) \/ NotifyThrows(c)
         \/ QCrash
         \/ UNCHANGED qvars
  PROVE  QTypeOK'
<1> USE DEF QTypeOK, Doing, Slot, Caller
<1>1. ASSUME NEW r \in Request, AddBegin(r)
      PROVE  QTypeOK'
  BY <1>1 DEF AddBegin
<1>2. ASSUME NEW r \in Request, AddEnd(r)
      PROVE  QTypeOK'
  BY <1>2, ListAddSlots DEF AddEnd
<1>3. ASSUME NEW c \in Caller, CopyQueue(c)
      PROVE  QTypeOK'
  BY <1>3 DEF CopyQueue
<1>4. ASSUME NEW c \in Caller, SendAcknowledged(c)
      PROVE  QTypeOK'
  <2>1. IndexIn(queue, Head(batch[c])) \in Nat
    BY IndexInNat
  <2>2. Head(batch[c]) \in Slot
    BY <1>4 DEF SendAcknowledged
  <2> QED
    BY <1>4, <2>1, <2>2 DEF SendAcknowledged, Answered
<1>5. ASSUME NEW c \in Caller, SendFailed(c)
      PROVE  QTypeOK'
  <2>1. Head(batch[c]) \in Slot /\ Tail(batch[c]) \in Seq(Slot)
    BY <1>5 DEF SendFailed, CallFails
  <2>2. recorded' \subseteq Request
    BY <1>5, <2>1 DEF SendFailed, CallFails, Answered
  <2>3. batch' \in [Caller -> Seq(Slot)]
    BY <1>5, <2>1 DEF SendFailed
  <2> QED
    BY <1>5, <2>2, <2>3 DEF SendFailed, CallFails
<1>6. ASSUME NEW c \in Caller, RemoveSent(c)
      PROVE  QTypeOK'
  <2>1. Tail(batch[c]) \in Seq(Slot)
    BY <1>6 DEF RemoveSent
  <2> QED
    BY <1>6, <2>1, ListRemoveSlots DEF RemoveSent
<1>7. ASSUME NEW c \in Caller, NotifyReturn(c)
      PROVE  QTypeOK'
  BY <1>7 DEF NotifyReturn
<1>8. CASE QCrash
  BY <1>8 DEF QCrash
<1>9. CASE UNCHANGED qvars
  BY <1>9 DEF qvars
<1>10. ASSUME NEW c \in Caller, NotifyThrows(c)
       PROVE  QTypeOK'
  <2>1. recorded' \subseteq Request
    <3>1. CASE CallFails(c)
      <4>1. Head(batch[c]) \in Slot
        BY <3>1 DEF CallFails
      <4> QED
        BY <3>1, <4>1 DEF CallFails, Answered
    <3>2. CASE ~CallFails(c)
      BY <1>10, <3>2 DEF NotifyThrows
    <3> QED
      BY <3>1, <3>2
  <2> QED
    BY <1>10, <2>1 DEF NotifyThrows
<1> QED
  BY <1>1, <1>2, <1>3, <1>4, <1>5, <1>6, <1>7, <1>8, <1>9, <1>10 DEF NotifyStep

(* Nothing comes into the list, into a copy of it or to the election system *)
(* that was not added: whatever set S the elements are in, they stay in S   *)
(* as long as only members of S are added.                                  *)
ListsOf(S) == queue \in Seq(S) /\ batch \in [Caller -> Seq(S)]

OnlyOf(S) == ListsOf(S) /\ recorded \subseteq S

LEMMA NothingComesIn ==
  ASSUME QTypeOK, NEW S, Null \in S, ListsOf(S),
         \/ \E r \in Request : AddBegin(r)
         \/ \E r \in Request \intersect S : AddEnd(r)
         \/ \E c \in Caller : NotifyStep(c) \/ NotifyThrows(c)
         \/ QCrash
         \/ UNCHANGED qvars
  PROVE  queue' \in Seq(S) /\ batch' \in [Caller -> Seq(S)] /\ recorded' \subseteq recorded \union S
<1> USE DEF ListsOf
<1>1. ASSUME NEW r \in Request, AddBegin(r)
      PROVE  UNCHANGED <<queue, batch, recorded>>
  BY <1>1 DEF AddBegin
<1>2. ASSUME NEW r \in Request \intersect S, AddEnd(r)
      PROVE  queue' \in Seq(S) /\ UNCHANGED <<batch, recorded>>
  <2>1. pos[r] \in Nat
    BY DEF QTypeOK, Caller
  <2>2. ListAdd(queue, pos[r], r) \in Seq(S)
    BY <2>1, ListAddSlots
  <2> QED
    BY <1>2, <2>2 DEF AddEnd
<1>3. ASSUME NEW c \in Caller, CopyQueue(c)
      PROVE  queue' \in Seq(S) /\ batch' \in [Caller -> Seq(S)] /\ recorded' \subseteq recorded \union S
  BY <1>3 DEF CopyQueue
<1>4. ASSUME NEW c \in Caller, SendAcknowledged(c)
      PROVE  recorded' \subseteq recorded \union S /\ UNCHANGED <<queue, batch>>
  <2>1. Head(batch[c]) \in S
    BY <1>4 DEF SendAcknowledged
  <2> QED
    BY <1>4, <2>1 DEF SendAcknowledged
<1>5. ASSUME NEW c \in Caller, SendFailed(c)
      PROVE  batch' \in [Caller -> Seq(S)] /\ recorded' \subseteq recorded \union S /\ UNCHANGED queue
  <2>1. Head(batch[c]) \in S /\ Tail(batch[c]) \in Seq(S)
    BY <1>5 DEF SendFailed, CallFails
  <2> QED
    BY <1>5, <2>1 DEF SendFailed, CallFails
<1>6. ASSUME NEW c \in Caller, RemoveSent(c)
      PROVE  queue' \in Seq(S) /\ batch' \in [Caller -> Seq(S)] /\ UNCHANGED recorded
  <2>1. pos[c] \in Nat /\ batch[c] # <<>>
    BY <1>6 DEF RemoveSent, QTypeOK
  <2>2. Tail(batch[c]) \in Seq(S)
    BY <2>1
  <2>3. ListRemoveAt(queue, pos[c]) \in Seq(S)
    BY <2>1, ListRemoveSlots
  <2> QED
    BY <1>6, <2>2, <2>3 DEF RemoveSent
<1>7. ASSUME NEW c \in Caller, NotifyReturn(c)
      PROVE  UNCHANGED <<queue, batch, recorded>>
  BY <1>7 DEF NotifyReturn
<1>8. CASE QCrash
  BY <1>8 DEF QCrash
<1>9. CASE UNCHANGED qvars
  BY <1>9 DEF qvars
<1>10. ASSUME NEW c \in Caller, NotifyThrows(c)
       PROVE  batch' \in [Caller -> Seq(S)] /\ recorded' \subseteq recorded \union S /\ UNCHANGED queue
  <2>1. recorded' \subseteq recorded \union S
    <3>1. CASE CallFails(c)
      <4>1. Head(batch[c]) \in S
        BY <3>1 DEF CallFails
      <4> QED
        BY <3>1, <4>1 DEF CallFails
    <3>2. CASE ~CallFails(c)
      BY <1>10, <3>2 DEF NotifyThrows
    <3> QED
      BY <3>1, <3>2
  <2> QED
    BY <1>10, <2>1 DEF NotifyThrows
<1> QED
  BY <1>1, <1>2, <1>3, <1>4, <1>5, <1>6, <1>7, <1>8, <1>9, <1>10 DEF NotifyStep
=============================================================================
