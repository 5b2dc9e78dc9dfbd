---------------------------- MODULE MCDiscussion ----------------------------
(* Instances of Discussion for TLC.                                        *)
EXTENDS Discussion
CONSTANTS t1, t2, a1

OneAccount == [t \in Tabs |-> a1]

(* The first tab posts, replies and edits; the second deletes, and its     *)
(* reader signs out and in.                                                *)
PostingBoxes == [t \in Tabs |-> IF t = t1 THEN {<<"comment", 0>>, <<"reply", 1>>, <<"edit", 1>>}
                                ELSE {}]
=============================================================================
