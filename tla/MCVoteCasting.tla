---------------------------- MODULE MCVoteCasting ----------------------------
(***************************************************************************)
(* Instances of VoteCasting for TLC.                                       *)
(***************************************************************************)
EXTENDS VoteCasting

CONSTANTS h1, h2, h3, h4, e1, e2, e3, ada, bob, eve, north, south, blank, spoil

-----------------------------------------------------------------------------
(* Two voters, each with a ticket for the same election of two preferences:*)
(* the instance for interleavings, crashes and the tally.  <<eve>> is a    *)
(* name typed into the page that is not on the ballot, <<>> a list without *)
(* a name.                                                                 *)
VotersElectionOf == [h \in {h1, h2} |-> e1]
VotersBundle == {{h1}, {h2}}
VotersSelections == [e \in {e1} |-> {ada, bob}]
VotersAllowed == [e \in {e1} |-> 2]
VotersBallots == {<<ada, bob>>, <<eve>>, <<>>}

(* One voter with tickets for three elections: e1 with two preferences, e2 *)
(* a party election with one, and e3, which the system did not load; and a *)
(* voter whose name is twice on the roll of e1, with two tickets for it.   *)
(* <<ada, bob>> is a candidate too many in e2, and has no party; the       *)
(* parties are names that e1 does not know.                                *)
RollElectionOf == [h \in {h1, h2, h3, h4} |->
                     CASE h = h2 -> e2 [] h = h3 -> e3 [] OTHER -> e1]
RollBundle == {{h1, h2, h3}, {h1, h4}}
RollSelections == [e \in {e1, e2} |-> IF e = e1 THEN {ada, bob}
                                      ELSE {north, south, ada, bob}]
RollAllowed == [e \in {e1, e2} |-> IF e = e1 THEN 2 ELSE 1]
RollBallots == {<<ada, bob>>, <<ada, bob, ada>>, <<blank>>, <<spoil>>,
                <<north, ada>>, <<north, south>>, <<>>}

VoterSymmetry == Permutations(Request) \union Permutations({h1, h2})
=============================================================================
