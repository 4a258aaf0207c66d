-------------------------- MODULE BallotBoxContract --------------------------
(***************************************************************************)
(* What the user of an IBallotBox (src/BallotBox) gets, whatever is        *)
(* inside: a ticket is good for one ballot, a ballot brings one vote or    *)
(* none, the first tally ends the casting, and every answer a tally gives  *)
(* is the count of the votes.                                              *)
(*                                                                         *)
(* The interface takes a ballot of several preferences, and the box keeps  *)
(* one of them.  Only a ballot of one preference is counted whole or not   *)
(* at all.                                                                 *)
(***************************************************************************)
EXTENDS Integers, Sequences

CONSTANTS Ticket,      \* ticket hashes
          ElectionOf,  \* ElectionOf[t]: the election written in the ticket
          Name,        \* what a preference can say
          Ballots      \* the sequences of names a caller can cast

VARIABLES spent,    \* the tickets that were used
          count,    \* count[e][v]: the votes for v in election e
          tallied,  \* the first tally took place
          answers   \* the counts the tallies have answered

bvars == <<spent, count, tallied, answers>>

Elections == {ElectionOf[t] : t \in Ticket}

Counts == [Elections -> [Name -> Nat]]

BInit == /\ spent = {}
         /\ count = [e \in Elections |-> [v \in Name |-> 0]]
         /\ tallied = FALSE
         /\ answers = {}

(* The ticket is spent on a vote for v.                                    *)
Spend(t, v) ==
  /\ ~tallied
  /\ t \notin spent
  /\ spent' = spent \union {t}
  /\ count' = [count EXCEPT ![ElectionOf[t]][v] = @ + 1]
  /\ UNCHANGED <<tallied, answers>>

(* Of a ballot the last preference counts: with one preference, all of it. *)
Cast(t, b) == Spend(t, b[Len(b)])

(* A failure in the midst of a ballot: one of the preferences before the   *)
(* last counts in its stead.  A ballot of one preference has no such step. *)
CutShort(t, b) == \E i \in 1..(Len(b) - 1) : Spend(t, b[i])

(* A failure during the call costs the ticket, and no ballot is cast.      *)
Void(t) ==
  /\ ~tallied
  /\ t \notin spent
  /\ spent' = spent \union {t}
  /\ UNCHANGED <<count, tallied, answers>>

(* A tally ends the casting.  It answers with the count or fails.          *)
Tally ==
  /\ tallied' = TRUE
  /\ answers' \in {answers, answers \union {count}}
  /\ UNCHANGED <<spent, count>>

BNext == \/ \E t \in Ticket : \/ \E b \in Ballots : Cast(t, b) \/ CutShort(t, b)
                              \/ Void(t)
         \/ Tally

BSpec == BInit /\ [][BNext]_bvars
=============================================================================
