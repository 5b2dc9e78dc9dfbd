---------------------------- MODULE MCRecordRefresh ----------------------------
(* Instances of RecordRefresh for TLC. *)
EXTENDS MoneyCompletion, TLC

CONSTANTS money, rechecks, campaign

\* Two jobs of one lane
OneLane == [j \in Jobs |-> campaign]

\* Only the official source of one of them changes, twice
MoneyChanges == [j \in Jobs |-> IF j = money THEN 2 ELSE 0]

\* Runners differ in nothing but their names.
AnyRunner == Permutations(Runners)

================================================================================
