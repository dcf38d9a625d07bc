-------------------------- MODULE MCCredentialVault --------------------------
(* A small instance of CredentialVault for TLC.                            *)
EXTENDS CredentialRefinement, TLC

CONSTANTS r1, r2, r3, a1, a2, p1, p2

(* Two keys of one account and one of another.                             *)
ThreeRefs  == {r1, r2, r3}
TwoOwners  == [r \in Refs |-> IF r = r3 THEN a2 ELSE a1]

(* The processes are alike, and so are the keys of the first account.      *)
Alike == Permutations(Procs) \cup Permutations({r1, r2})
=============================================================================
