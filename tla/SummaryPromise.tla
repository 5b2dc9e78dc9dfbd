---------------------------- MODULE SummaryPromise ----------------------------
(***************************************************************************)
(* What the automatic summaries promise, with no rows, jobs, months or     *)
(* search: one explanation is bought at most once for an exact text under  *)
(* an exact prompt, only while that text is saved and that prompt is the   *)
(* released one; and saving a text displays the usable explanation of      *)
(* exactly that text under that prompt, or none.                           *)
(***************************************************************************)
CONSTANTS Bills, Texts, Contexts, None

VARIABLES
    saved,      \* the official text of each bill, None while incomplete
    prompt,     \* the released prompt
    purchase,   \* what became of the one purchase of each exact identity
    shown       \* <<text, prompt>> of the displayed explanation of each bill

vars == <<saved, prompt, purchase, shown>>

Identities == Bills \X Texts \X Contexts

Init ==
    /\ saved = [b \in Bills |-> None]
    /\ prompt \in Contexts
    /\ purchase = [k \in Identities |-> "none"]
    /\ shown = [b \in Bills |-> None]

\* What the purchases p offer for text t of bill b under the released prompt
Offer(p, b, t) ==
    IF t # None /\ p[<<b, t, prompt>>] = "usable" THEN <<t, prompt>> ELSE None

Displayed(p, b, t) == [shown EXCEPT ![b] = Offer(p, b, t)]

\* Text t is saved for bill b, or found saved again
Save(b, t) ==
    /\ saved' = [saved EXCEPT ![b] = t]
    /\ shown' = Displayed(purchase, b, t)
    /\ UNCHANGED <<prompt, purchase>>

Release(c) ==
    /\ prompt' = c
    /\ UNCHANGED <<saved, purchase, shown>>

\* The provider is asked to explain the saved text under the released prompt
Buy(b) ==
    /\ saved[b] # None
    /\ purchase[<<b, saved[b], prompt>>] = "none"
    /\ purchase' = [purchase EXCEPT ![<<b, saved[b], prompt>>] = "out"]
    /\ UNCHANGED <<saved, prompt, shown>>

\* A usable answer comes, in time or too late to be displayed
Answer(b, t, c) ==
    /\ purchase[<<b, t, c>>] = "out"
    /\ purchase' = [purchase EXCEPT ![<<b, t, c>>] = "usable"]
    /\ shown' = Displayed(purchase', b, saved[b])
    /\ UNCHANGED <<saved, prompt>>

\* The call fails, its answer is lost or cannot be used
Waste(b, t, c) ==
    /\ purchase[<<b, t, c>>] = "out"
    /\ purchase' = [purchase EXCEPT ![<<b, t, c>>] = "wasted"]
    /\ shown' \in {shown, Displayed(purchase', b, saved[b])}
    /\ UNCHANGED <<saved, prompt>>

Next ==
    \/ \E b \in Bills :
        \/ \E t \in Texts \cup {None} : Save(b, t)
        \/ Buy(b)
        \/ \E t \in Texts, c \in Contexts : Answer(b, t, c) \/ Waste(b, t, c)
    \/ \E c \in Contexts : Release(c)

Spec == Init /\ [][Next]_vars

================================================================================
