------------------------------ MODULE MCStaff -------------------------------
(***************************************************************************)
(* Instance of Staff for TLC: two requests at once, from nothing, or after *)
(* anna has asked twice to be p1, one of the two was approved, and p1      *)
(* presides over a commission of e1, or also over its clone.               *)
(***************************************************************************)
EXTENDS Staff, TLC

CONSTANTS
  ask, askAgain, approve, add, clone,  \* the requests answered before
  q1, q2,
  anna, p1, e1, e2                     \* a user, a person and two elections

Earlier ==
  /\ deciding = [q \in Request |-> IF q \in {q1, q2} THEN Idle ELSE Ended]
  /\ editing = [q \in Request |-> New]
  /\ overlap = {}
  /\ active = {} /\ cast = {}
  /\ headless = {} /\ unsettled = {} /\ lost = {} /\ during = {}

FromNothing ==
  /\ groupId \in {g \in [Election -> Election \union {None}] :
                    \A e \in Election : g[e] \in {e, None}}
  /\ asked = [i \in Request |-> NoRow] /\ logins = {}
  /\ commission = <<>> /\ member = <<>> /\ lastC = 0 /\ lastM = 0

AskedTwice ==
  /\ asked = [i \in Request |->
                IF i = ask THEN [NewRow(anna, p1) EXCEPT !.approved = TRUE, !.approval = TRUE]
                ELSE IF i = askAgain THEN NewRow(anna, p1) ELSE NoRow]
  /\ logins = {<<ask, approve>>}

Presided(c) == [NewCommission(<<e1, e2>>[c], groupId[e1]) EXCEPT !.president = c]

Seat(c) == [commission |-> c, person |-> p1]

Settled ==
  /\ AskedTwice
  /\ groupId \in {g \in [Election -> Election \union {None}] :
                    \A e \in Election : g[e] \in {e, None}}
  /\ commission = <<Presided(1)>> /\ member = <<Seat(1)>> /\ lastC = 1 /\ lastM = 1

Cloned ==
  /\ AskedTwice
  /\ groupId \in {[e \in Election |-> g] : g \in {e1, clone}}
  /\ commission = <<Presided(1), Presided(2)>>
  /\ member = <<Seat(1), Seat(2)>> /\ lastC = 2 /\ lastM = 2

MCInit == Earlier /\ (FromNothing \/ Settled \/ Cloned)

MCSpec == MCInit /\ [][Next]_vars

StaffSymmetry ==
  Permutations({q1, q2}) \union Permutations(Person) \union Permutations(Election)
=============================================================================
