------------------------- MODULE MCSummaryRequests -------------------------
(* Small instances of SummaryRequests *)
EXTENDS SummaryRequests, TLC

CONSTANTS hf1, hf2, A, B, v1, v2, r1, r2, r3, r4, j1, j2, j3, e1, e2, w1

OneBill == {hf1}
TwoBills == {hf1, hf2}
TwoTexts == {A, B}
OneText == {A}
OneContext == {v1}
TwoContexts == {v1, v2}
TwoRequests == {r1, r2}
TwoJobs == {j1, j2}
OneEnqueuer == {e1}
TwoEnqueuers == {e1, e2}
NoIndexer == {}
OneIndexer == {w1}
CheapCall == {1}
UnknownCosts == {}
Always == {TRUE}
Never == {FALSE}
Sometimes == BOOLEAN

\* Row and job ids are interchangeable names
Interchangeable == Permutations(Requests) \cup Permutations(Jobs) \cup Permutations(Enqueuers)
=============================================================================
