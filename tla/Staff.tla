-------------------------------- MODULE Staff -------------------------------
(***************************************************************************)
(* The people who run the elections: users who have become persons         *)
(* (UserLogin) and who sit on commissions (Commissions).  A user's roles   *)
(* are computed from both at every page (EligereRoles.ComputeRoles); the   *)
(* requests of both kinds interleave.                                      *)
(***************************************************************************)
EXTENDS Naturals, FiniteSets

CONSTANTS
  Request, User, Person, Election,
  MaxCommissions, MaxMembers,  \* bounds: rows ever made
  None

ASSUME StaffAssumption ==
  /\ MaxCommissions \in Nat /\ MaxMembers \in Nat
  /\ Election \intersect Request = {}
  /\ None \notin Person \union User \union Election \union Request \union Nat

VARIABLES
  asked, logins, deciding, overlap,
  groupId, active, cast, commission, member, lastC, lastM, editing,
  headless, unsettled, lost, during

INSTANCE UserLogin
INSTANCE Commissions

users == <<asked, logins, deciding, overlap>>
offices == <<groupId, active, cast, commission, member, lastC, lastM, editing,
             headless, unsettled, lost, during>>
vars == <<users, offices>>

-----------------------------------------------------------------------------
(* Type invariant.                                                         *)
TypeOK == LoginTypeOK /\ CommissionTypeOK

Init == LoginInit /\ CommissionInit

Next ==
  \/ \E q \in Request :
       \/ editing[q] = New /\ LoginStep(q) /\ UNCHANGED offices
       \/ deciding[q] = Idle /\ CommissionStep(q) /\ UNCHANGED users
  \/ ElectionStep /\ UNCHANGED users

Spec == Init /\ [][Next]_vars

-----------------------------------------------------------------------------
(* ComputeRoles, while the polls have not ended.                           *)
IsPresident(u) ==
  \E c \in DOMAIN commission :
    /\ commission[c].president # None
    /\ member[commission[c].president].person = PersonFK(u)

(* A user who presides over a commission stops doing so only when the      *)
(* officers remove or replace the president (the second save of a clone    *)
(* replaces one that was set since the first), delete the commission or    *)
(* approve a second login of the user (EligereRoles.cs:25-54), and not     *)
(* when a commission is merely edited, moved or copied from.               *)
PresidentKeepsRole ==
  [][\A u \in User :
       IsPresident(u) /\ ~IsPresident(u)' =>
         \E q \in Request : \/ SaveRemoval(q) \/ SaveSetAsPresident(q)
                            \/ SavePresident(q) \/ SavePresidents(q)
                            \/ Strip(q) \/ SaveApproval(q)]_vars
=============================================================================
