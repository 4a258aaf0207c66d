--------------------------- MODULE MCCallDispatch ---------------------------
(***************************************************************************)
(* Instance of CallDispatch for TLC: anna sits on the commissions of every *)
(* voter, and there is nobody else to identify them.                       *)
(***************************************************************************)
EXTENDS CallDispatch

CONSTANTS anna

Voters == {{anna}}
=============================================================================
