---------------------------- MODULE VotingService ----------------------------
(***************************************************************************)
(* What the voting system is to the election system, as far as tickets go: *)
(* a ticket is spent once, with a ballot that is stored whole or, when the *)
(* process ends, is not; a ticket is reported to TicketUsed only when its  *)
(* ballot is stored or when an empty list of preferences came with it,     *)
(* which spends nothing and stores nothing; and a report may be lost, or   *)
(* be made again.                                                          *)
(* VoteCasting implements it with its requests, locks and queue, and       *)
(* TicketIssue, which stands for the election system, has it in one step   *)
(* per ballot.                                                             *)
(***************************************************************************)
CONSTANT Ticket  \* the hashes of the tickets

VARIABLES spent,    \* the tickets that were used
          stored,   \* those whose whole ballot is in the box
          empty,    \* those an empty list of preferences came with
          notices,  \* those the voting system has still to report
          recorded  \* those whose voter the election system recorded

svcvars == <<spent, stored, empty, notices, recorded>>

SInit == /\ spent = {}
         /\ stored = {}
         /\ empty = {}
         /\ notices = {}
         /\ recorded = {}

(* A ticket is spent, and its ballot is stored with it or follows.         *)
Spend(t) ==
  /\ t \notin spent
  /\ spent' = spent \union {t}
  /\ stored' \in {stored, stored \union {t}}
  /\ notices' = notices \union {t}
  /\ UNCHANGED <<empty, recorded>>

(* The ballot follows only while its report is still to come: what a       *)
(* restart interrupted is not taken up again.                              *)
Store(t) ==
  /\ t \in notices
  /\ stored' = stored \union {t}
  /\ UNCHANGED <<spent, empty, notices, recorded>>

(* An empty list of preferences is reported as if it were a ballot.  The   *)
(* ticket is still good for one.                                           *)
Announce(t) ==
  /\ t \notin spent
  /\ empty' = empty \union {t}
  /\ notices' = notices \union {t}
  /\ UNCHANGED <<spent, stored, recorded>>

(* TicketUsed sets the vote; the answer may not come back, and when that   *)
(* ends the request the reports it had still to make are lost with it.     *)
TicketUsed(t) ==
  /\ t \in notices
  /\ t \in stored \union empty
  /\ recorded' = recorded \union {t}
  /\ notices' \subseteq notices
  /\ UNCHANGED <<spent, stored, empty>>

(* A restart forgets all the reports at once, the race on the queue one.   *)
Lose ==
  /\ notices' \subseteq notices
  /\ UNCHANGED <<spent, stored, empty, recorded>>

SNext == \/ Lose
         \/ \E t \in Ticket : Spend(t) \/ Store(t) \/ Announce(t) \/ TicketUsed(t)

SSpec == SInit /\ [][SNext]_svcvars
=============================================================================
