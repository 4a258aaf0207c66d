---------------------------- MODULE MCElectionDay ----------------------------
(***************************************************************************)
(* Instance of ElectionDay for TLC.                                        *)
(***************************************************************************)
EXTENDS ElectionDay, TLC

CONSTANTS e1, e2, e3, g, h

-----------------------------------------------------------------------------
(* A group of two elections, of which e1 polls on both days and e2 on the  *)
(* second, and another of e3 alone, which polls on the second.             *)
GroupGroupOf == [e \in {e1, e2, e3} |-> IF e = e3 THEN h ELSE g]
GroupFirstDay == [e \in {e1, e2, e3} |-> IF e = e1 THEN 1 ELSE 2]
GroupLastDay == [e \in {e1, e2, e3} |-> 2]
GroupPresides == {{e1, e2}, {e3}}

RequestSymmetry == Permutations(Load)
=============================================================================
