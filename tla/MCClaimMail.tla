------------------------------ MODULE MCClaimMail ------------------------------
(* Instances of ClaimMail for TLC. *)
EXTENDS ClaimMail, TLC

\* Workers differ in nothing but their names.
AnyWorker == Permutations(Workers)

================================================================================
