----------------------------- MODULE MCKeySetup -----------------------------
(***************************************************************************)
(* Instance of KeySetup for TLC.                                           *)
(***************************************************************************)
EXTENDS KeySetup, TLC

CONSTANTS k1, k2  \* two of the keys

RequestSymmetry == Permutations(Request) \union Permutations(Otp)
=============================================================================
