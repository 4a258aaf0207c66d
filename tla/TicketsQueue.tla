---------------------------- MODULE TicketsQueue ----------------------------
(***************************************************************************)
(* The queue of notifications that the voting system owes to the election  *)
(* system (src/EligereVS/Models/TicketsQueue.cs): after a ballot is cast   *)
(* the protected hash of its ticket is added to an in-memory List<string>, *)
(* and NotifyTickets sends every element to the TicketUsed endpoint and    *)
(* removes those that were acknowledged.                                   *)
(*                                                                         *)
(* The list is one singleton shared by every request thread and nothing    *)
(* guards it.  A call of List.Add and a call of List.Remove are therefore  *)
(* two steps each: one that reads the length, or finds the index, and one  *)
(* that writes with what was read.  Between the two another thread may     *)
(* have changed the list.                                                  *)
(*                                                                         *)
(* A notice is named by the request that adds it: Protect is randomised,   *)
(* so every request adds a string of its own.                              *)
(***************************************************************************)
EXTENDS Naturals, Sequences, SequencesExt

CONSTANTS Request,    \* requests (threads) that cast a ballot and then notify
          Dashboard,  \* threads of the operator's "Try sending notifications"
          Null        \* an empty slot of the list

Caller == Request \union Dashboard

ASSUME QueueAssumption == /\ Null \notin Request
                          /\ Request \intersect Dashboard = {}

VARIABLES queue,     \* _queue, elements 0 .. _size-1
          at,        \* what each thread is doing inside TicketsQueue
          pos,       \* the length or the index it read for its next write
          batch,     \* what is left of its copy of the list
          recorded   \* notices whose Voter.Vote the election system has set

qvars == <<queue, at, pos, batch, recorded>>

Slot == Request \union {Null}

Doing == {"out", "adding", "added", "scanning", "removing"}

-----------------------------------------------------------------------------
(* The list: what Add and RemoveAt leave behind, given a position that was *)
(* read earlier.  With no other thread in between, n = Len(q) and the      *)
(* first is Append; after a race it overwrites an element that was added   *)
(* meanwhile, or leaves an empty slot behind one that was removed.         *)

ListAdd(q, n, x) ==
  [i \in 1..(n + 1) |-> IF i = n + 1 THEN x
                        ELSE IF i <= Len(q) THEN q[i] ELSE Null]

(* RemoveAt(index) shifts the tail down; an index that is no longer inside *)
(* throws ArgumentOutOfRangeException, which NotifyTickets catches.        *)
ListRemoveAt(q, n) == IF n \in 1..Len(q) THEN RemoveAt(q, n) ELSE q

(* IndexOf, with 0 for "not found".  A notice is in the list at most once. *)
IndexIn(q, x) == IF \E i \in 1..Len(q) : q[i] = x
                 THEN CHOOSE i \in 1..Len(q) : q[i] = x
                 ELSE 0

-----------------------------------------------------------------------------
QTypeOK == /\ queue \in Seq(Slot)
           /\ at \in [Caller -> Doing]
           /\ pos \in [Caller -> Nat]
           /\ batch \in [Caller -> Seq(Slot)]
           /\ recorded \subseteq Request
           /\ \A c \in Caller : at[c] = "removing" => batch[c] # <<>>

QInit == /\ queue = <<>>
         /\ at = [c \in Caller |-> "out"]
         /\ pos = [c \in Caller |-> 0]
         /\ batch = [c \in Caller |-> <<>>]
         /\ recorded = {}

(* AddTicket: List.Add reads the length ...                                *)
AddBegin(r) ==
  /\ at[r] = "out"
  /\ at' = [at EXCEPT ![r] = "adding"]
  /\ pos' = [pos EXCEPT ![r] = Len(queue)]
  /\ UNCHANGED <<queue, batch, recorded>>

(* ... and stores the element and the new length.                          *)
AddEnd(r) ==
  /\ at[r] = "adding"
  /\ at' = [at EXCEPT ![r] = "added"]
  /\ queue' = ListAdd(queue, pos[r], r)
  /\ pos' = [pos EXCEPT ![r] = 0]
  /\ UNCHANGED <<batch, recorded>>

(* NotifyTickets iterates over _queue.ToArray().  A request comes here     *)
(* after its AddTicket, the dashboard at any time.                         *)
CopyQueue(c) ==
  /\ at[c] = IF c \in Dashboard THEN "out" ELSE "added"
  /\ at' = [at EXCEPT ![c] = "scanning"]
  /\ batch' = [batch EXCEPT ![c] = queue]
  /\ UNCHANGED <<queue, pos, recorded>>

(* A call without a hash finds no endpoint and fails.                      *)
AnyAnswered(t) == TRUE  \* mutant: an empty slot is taken for a ticket

Answered(t) == t # Null

(* GET /TicketUsed/{t} answered OK: the election system has set            *)
(* Voter.Vote, and List.Remove looks the element up.                       *)
SendAcknowledged(c) ==
  /\ at[c] = "scanning"
  /\ batch[c] # <<>>
  /\ LET t == Head(batch[c])
     IN /\ Answered(t)
        /\ recorded' = recorded \union {t}
        /\ pos' = [pos EXCEPT ![c] = IndexIn(queue, t)]
  /\ at' = [at EXCEPT ![c] = "removing"]
  /\ UNCHANGED <<queue, batch>>

(* GET /TicketUsed/{t} failed: the call never arrived or was refused, or   *)
(* it was executed and its answer was lost.  The exception is caught, is   *)
(* written to a file, and the ticket stays in the queue.                   *)
CallFails(c) ==
  /\ at[c] = "scanning"
  /\ batch[c] # <<>>
  /\ \/ UNCHANGED recorded
     \/ /\ Answered(Head(batch[c]))
        /\ recorded' = recorded \union {Head(batch[c])}

SendFailed(c) ==
  /\ CallFails(c)
  /\ batch' = [batch EXCEPT ![c] = Tail(@)]
  /\ UNCHANGED <<queue, at, pos>>

(* The second half of List.Remove(t), and on to the next ticket.           *)
RemoveSent(c) ==
  /\ at[c] = "removing"
  /\ queue' = ListRemoveAt(queue, pos[c])
  /\ at' = [at EXCEPT ![c] = "scanning"]
  /\ pos' = [pos EXCEPT ![c] = 0]
  /\ batch' = [batch EXCEPT ![c] = Tail(@)]
  /\ UNCHANGED recorded

(* The loop is over and NotifyTickets returns.                             *)
NotifyReturn(c) ==
  /\ at[c] = "scanning"
  /\ batch[c] = <<>>
  /\ at' = [at EXCEPT ![c] = "out"]
  /\ UNCHANGED <<queue, pos, batch, recorded>>

(* An exception leaves NotifyTickets with the rest of the copy unsent: the *)
(* file cannot be written, which is tried inside the catch block, or       *)
(* ToArray finds the list longer than the array it has just allocated.     *)
NotifyThrows(c) ==
  /\ \/ CallFails(c)
     \/ /\ at[c] = IF c \in Dashboard THEN "out" ELSE "added"
        /\ \E r \in Request : at[r] = "adding"
        /\ UNCHANGED recorded
  /\ at' = [at EXCEPT ![c] = "out"]
  /\ batch' = [batch EXCEPT ![c] = <<>>]
  /\ UNCHANGED <<queue, pos>>

(* The process ends: the list and the threads are gone, what the election  *)
(* system recorded is in its database.                                     *)
QCrash ==
  /\ queue' = <<>>
  /\ at' = [c \in Caller |-> "out"]
  /\ pos' = [c \in Caller |-> 0]
  /\ batch' = [c \in Caller |-> <<>>]
  /\ UNCHANGED recorded

(* The steps a thread takes inside NotifyTickets.                          *)
NotifyStep(c) == \/ CopyQueue(c)
                 \/ SendAcknowledged(c)
                 \/ SendFailed(c)
                 \/ RemoveSent(c)
                 \/ NotifyReturn(c)
=============================================================================
