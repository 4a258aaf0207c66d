-------------------------- MODULE MCSecureBallotBox --------------------------
(***************************************************************************)
(* Instance of SecureBallotBox for TLC.                                    *)
(***************************************************************************)
EXTENDS SecureBallotBox

CONSTANTS t1, t2, t3, e1, e2, ada, bob, own, other

(* Two voters of one election and one of another.                          *)
BoxElectionOf == [t \in {t1, t2, t3} |-> IF t = t3 THEN e2 ELSE e1]

(* One preference, two different ones, and the same one twice.             *)
BoxBallots == {<<ada>>, <<bob>>, <<ada, bob>>, <<bob, bob>>}

(* Five characters, not a multiple of two, three or four guardians.        *)
FiveCharacters == <<"V", "b", "V", "x", "b">>
=============================================================================
