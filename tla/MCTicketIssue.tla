---------------------------- MODULE MCTicketIssue ----------------------------
(***************************************************************************)
(* Instances of TicketIssue for TLC.                                       *)
(***************************************************************************)
EXTENDS TicketIssue, TLC

CONSTANTS anna, luca, e1, e2, a1, a2, l1, again, c1, c2

-----------------------------------------------------------------------------
(* anna is on the roll of e1 (row a1) and e2 (row a2).                     *)
DayPersonOf == [r \in {a1, a2} |-> anna]
DayElectionOf == [r \in {a1, a2} |-> IF r = a1 THEN e1 ELSE e2]

(* The commissioners sit on both commissions: officers who do so read  *)
(* the same rows, so one name stands for all.                              *)
JointCommission == [c \in {c2} |-> {e1, e2}]

(* One election; anna is on its roll, luca is not, and anna may be put on  *)
(* it again (row "again") once she is removed.                             *)
RollPersonOf == [r \in {a1, again, l1} |-> IF r = l1 THEN luca ELSE anna]
RollElectionOf == [r \in {a1, again, l1} |-> e1]
RollCommission == [c \in {c1} |-> {e1}]
RollFiles == {{anna, luca}}

DaySymmetry == Permutations(Request) \union Permutations(Otp)
RollSymmetry == Permutations(Request)
=============================================================================
