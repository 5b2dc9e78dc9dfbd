-------------------------- MODULE MCAccountSession --------------------------
(* Instances of AccountSession for TLC.                                    *)
EXTENDS AccountSession, TLC
CONSTANTS t1, t2, u1, u2

TwoAccounts == [x \in Sessions |-> IF x = 2 THEN u2 ELSE u1]
Symmetric   == Permutations(Tabs)
=============================================================================
