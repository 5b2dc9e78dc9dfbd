----------------------------- MODULE MCCommentMail -----------------------------
(* Instances of CommentMail for TLC. *)
EXTENDS CommentMail, TLC

\* Workers differ in nothing but their names.
AnyWorker == Permutations(Workers)

================================================================================
