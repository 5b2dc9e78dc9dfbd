-------------------------- MODULE SummaryRequests --------------------------
(***************************************************************************)
(* Automatic paid bill summaries (alethical/pipeline/                      *)
(* bill_summary_requests.py): the durable ledger of requests for one exact *)
(* official text under one exact prompt, the ingestion that registers and  *)
(* supersedes them, the search indexer that makes them ready, the queue    *)
(* that runs them and the paid provider call.                              *)
(*                                                                         *)
(* Every transaction that holds the Bill row lock (ingest, claim, finish)  *)
(* is one action; the search indexer and the enqueuers hold no such lock,  *)
(* so what they read and what they write are separate actions.             *)
(***************************************************************************)
EXTENDS Integers, FiniteSets, FiniteSetsExt

CONSTANTS
    Bills,
    Texts,          \* complete official texts (source text fingerprints)
    Contexts,       \* deployed prompt context versions
    Requests,       \* row ids of bill_summary_request
    Jobs,           \* Oban job ids
    Enqueuers,      \* processes that turn ready requests into jobs
    Indexers,       \* RAG backfill workers
    Reservation,    \* worst cost of one request: max_attempts * cost per attempt
    ActualCosts,    \* costs a complete usage report can add up to
    MonthlyBudget,
    BillBudget,
    FailureCap,
    LastMonth,      \* bound on the calendar
    SearchInline,   \* whether a text save rebuilds search in its transaction
    GateOpen,       \* what SummaryAutomationLimits.can_spend may be when a job runs
    PromptRefused,  \* verdicts of the prompt measurement
    None            \* no value

\* SummaryAutomationLimits.can_spend, and the reserve set above any list-price cost
ASSUME LimitsAssumption ==
    /\ Reservation \in Nat \ {0}
    /\ ActualCosts \subseteq 0 .. Reservation
    /\ MonthlyBudget \in Nat /\ BillBudget \in Nat /\ FailureCap \in Nat \ {0}
    /\ BillBudget >= Reservation /\ MonthlyBudget >= BillBudget

ASSUME DomainAssumption ==
    /\ LastMonth \in Nat \ {0}
    /\ SearchInline \subseteq BOOLEAN /\ GateOpen \subseteq BOOLEAN
    /\ PromptRefused \subseteq BOOLEAN
    /\ None \notin Bills \cup Texts \cup Contexts \cup Requests \cup Jobs
    /\ None \notin Nat /\ None \notin Texts \X Contexts

\* A table holds finitely many rows
ASSUME RowsAssumption == IsFiniteSet(Requests)

VARIABLES
    text,       \* saved official text of each bill, None while incomplete
    search,     \* the text each bill's search rows describe
    context,    \* the prompt context version of the running release
    summary,    \* <<text, context>> of the displayed full summary
    requests,   \* the ledger
    jobs,       \* the ai_summary queue
    enqueuers,  \* progress of each enqueuer
    indexers,   \* what each backfill worker has read
    month,      \* the current calendar month
    calls,      \* history: provider calls made for each exact identity
    exposure    \* history: the most each request may have been charged

record == <<text, search, context, summary, requests>>
queue == <<jobs, enqueuers>>
history == <<calls, exposure>>
vars == <<text, search, context, summary, requests, jobs, enqueuers, indexers,
          month, calls, exposure>>

----------------------------------------------------------------------------
(* The ledger row *)

Active == {"waiting_for_search", "ready", "processing"}

Statuses == Active \cup {"absent", "completed", "failed", "ambiguous", "superseded"}

\* The paid answer: none stored, one that can be cited, one that cites an appendix
Responses == {"none", "citable", "noncitable"}

Row == [bill : Bills \cup {None}, text : Texts \cup {None},
        context : Contexts \cup {None}, status : Statuses,
        startedIn : 0 .. LastMonth, claimJob : Jobs \cup {None},
        reserved : {0, Reservation}, actual : ActualCosts \cup {None},
        gated : BOOLEAN, response : Responses]

\* A row no transaction has inserted
NoRow == [bill |-> None, text |-> None, context |-> None, status |-> "absent",
          startedIn |-> 0, claimJob |-> None, reserved |-> 0, actual |-> None,
          gated |-> FALSE, response |-> "none"]

\* A newly registered request for text t of bill b
WaitingRow(b, t) ==
    [NoRow EXCEPT !.bill = b, !.text = t, !.context = context,
                  !.status = "waiting_for_search"]

Identity(r) == <<r.bill, r.text, r.context>>

Started(r) == r.startedIn # 0

----------------------------------------------------------------------------
(* Registering the saved text: register_official_text_change *)

\* Variant: a claimed request survives a text change
SupersedeUnclaimed(R, b, t) ==
    [i \in Requests |->
        IF R[i].bill = b /\ R[i].status \in Active \ {"processing"}
           /\ <<R[i].text, R[i].context>> # <<t, context>>
        THEN [R[i] EXCEPT !.status = "superseded", !.gated = FALSE]
        ELSE R[i]]

\* Live requests for anything but the exact saved context become superseded
SupersedeOthers(R, b, t) ==
    [i \in Requests |->
        IF R[i].bill = b /\ R[i].status \in Active
           /\ <<R[i].text, R[i].context>> # <<t, context>>
        THEN [R[i] EXCEPT !.status = "superseded", !.gated = FALSE]
        ELSE R[i]]

\* The row the exact-prompt unique constraint finds, or a new one
SlotFor(R, b, t) ==
    LET found == {i \in Requests : Identity(R[i]) = <<b, t, context>>}
    IN  IF found # {} THEN found ELSE {i \in Requests : R[i].status = "absent"}

\* Variant: only a completed request's answer is used again
ReusableWhenCompleted(r) ==
    Started(r) /\ r.status = "completed" /\ r.response = "citable"

\* A paid answer that the exact saved context can use again at no charge
Reusable(r) ==
    Started(r) /\ r.status \in {"completed", "superseded"} /\ r.response = "citable"

\* Variant: a superseded request waits again even after its paid call
ReopenableThoughSpent(r) == r.status = "superseded" \/ (r.status = "failed" /\ r.gated)

\* A request that never spent anything and may wait again
Reopenable(r) ==
    ~Started(r) /\ (r.status = "superseded" \/ (r.status = "failed" /\ r.gated))

\* Variant: promotion without looking at the search rows
PromotedUnchecked(r, s) ==
    IF r.status = "waiting_for_search"
    THEN [r EXCEPT !.status = "ready", !.gated = FALSE] ELSE r

\* Promotion of a waiting request whose search rows describe the same text
Promoted(r, s) ==
    IF r.status = "waiting_for_search" /\ r.text = s
    THEN [r EXCEPT !.status = "ready", !.gated = FALSE] ELSE r

\* What registration leaves in the row of the exact saved context
Revived(r, b, t) ==
    CASE r.status = "absent" -> WaitingRow(b, t)
      [] Reopenable(r) -> [r EXCEPT !.status = "waiting_for_search", !.gated = FALSE]
      [] Reusable(r) -> [r EXCEPT !.status = "completed", !.gated = FALSE]
      [] OTHER -> r

\* Variant: the summary of the earlier text stays displayed
RegisterKeepingSummary(R, b, t, s) ==
    LET rows == SupersedeOthers(R, b, t)
    IN  IF t = None
        THEN requests' = rows /\ UNCHANGED summary
        ELSE \E i \in SlotFor(rows, b, t) :
                /\ requests' = [rows EXCEPT ![i] = Promoted(Revived(rows[i], b, t), s)]
                /\ summary' = IF Reusable(rows[i])
                              THEN [summary EXCEPT ![b] = <<t, context>>] ELSE summary

\* Register text t of bill b over the rows R, with search rows for s
Register(R, b, t, s) ==
    LET rows == SupersedeOthers(R, b, t)
        kept == IF t # None /\ summary[b] = <<t, context>> THEN summary[b] ELSE None
    IN  IF t = None
        THEN /\ requests' = rows
             /\ summary' = [summary EXCEPT ![b] = None]
        ELSE \E i \in SlotFor(rows, b, t) :
                /\ requests' = [rows EXCEPT ![i] = Promoted(Revived(rows[i], b, t), s)]
                /\ summary' = [summary EXCEPT ![b] =
                                  IF Reusable(rows[i]) THEN <<t, context>> ELSE kept]

----------------------------------------------------------------------------
(* Ingestion, repair and the search indexer *)

\* An accepted refresh changes the official text, registers it, and normally
\* rebuilds search in the same transaction. A text stands for all a summary is
\* made from; the appendix and change roles that a refresh reads for the first
\* time on a bill without a baseline are no change, and not registered
Ingest(b, t, inline) ==
    /\ t # text[b]
    /\ text' = [text EXCEPT ![b] = t]
    /\ search' = IF inline THEN [search EXCEPT ![b] = t] ELSE search
    /\ Register(requests, b, t, IF inline THEN t ELSE search[b])
    /\ UNCHANGED <<context, jobs, enqueuers, indexers, month, history>>

\* The section repair script completes the stored text, or finds it complete by
\* then, registers it again and rebuilds search
Repair(b, t) ==
    /\ text[b] \in {None, t}
    /\ text' = [text EXCEPT ![b] = t]
    /\ search' = [search EXCEPT ![b] = t]
    /\ Register(requests, b, t, t)
    /\ UNCHANGED <<context, jobs, enqueuers, indexers, month, history>>

\* A backfill worker reads a bill's sections without any lock
IndexerRead(w, b) ==
    /\ indexers[w] = None
    /\ text[b] # None
    /\ indexers' = [indexers EXCEPT ![w] = [bill |-> b, text |-> text[b], building |-> FALSE]]
    /\ UNCHANGED <<record, queue, month, history>>

\* mark_summary_requests_ready: the request waiting for exactly this text
MarkReady(b, t) ==
    requests' = [i \in Requests |-> IF Identity(requests[i]) = <<b, t, context>>
                                    THEN Promoted(requests[i], t) ELSE requests[i]]

\* It compares them with the search rows; complete rows are only marked ready
IndexerCompare(w) ==
    /\ indexers[w] # None
    /\ ~indexers[w].building
    /\ LET b == indexers[w].bill
           t == indexers[w].text
       IN  IF search[b] = t
           THEN MarkReady(b, t) /\ indexers' = [indexers EXCEPT ![w] = None]
           ELSE /\ indexers' = [indexers EXCEPT ![w].building = TRUE]
                /\ UNCHANGED requests
    /\ UNCHANGED <<text, search, context, summary, queue, month, history>>

\* Others are upserted from what it read, marked ready and committed
IndexerCommit(w) ==
    /\ indexers[w] # None
    /\ indexers[w].building
    /\ search' = [search EXCEPT ![indexers[w].bill] = indexers[w].text]
    /\ MarkReady(indexers[w].bill, indexers[w].text)
    /\ indexers' = [indexers EXCEPT ![w] = None]
    /\ UNCHANGED <<text, context, summary, queue, month, history>>

\* The worker dies, or an embedding call fails, before its commit
IndexerFail(w) ==
    /\ indexers[w] # None
    /\ indexers' = [indexers EXCEPT ![w] = None]
    /\ UNCHANGED <<record, queue, month, history>>

\* A release with another prompt context version
Deploy(c) ==
    /\ c # context
    /\ context' = c
    /\ UNCHANGED <<text, search, summary, requests, queue, indexers, month, history>>

\* The UTC month turns
NewMonth ==
    /\ month < LastMonth
    /\ month' = month + 1
    /\ UNCHANGED <<record, queue, indexers, history>>

----------------------------------------------------------------------------
(* From ready requests to jobs: reading, deduplicating and inserting are      *)
(* three statements on separate connections                                   *)

FreeJob == [request |-> None, state |-> "free"]

InFlight(i) ==
    \E j \in Jobs : jobs[j].request = i
                    /\ jobs[j].state \in {"available", "calling", "orphaned"}


\* Read a committed ready request (after a commit, or when the queue is drained)
EnqueueRead(e, i) ==
    /\ enqueuers[e].stage = "idle"
    /\ requests[i].status = "ready"
    /\ enqueuers' = [enqueuers EXCEPT ![e] = [stage |-> "read", request |-> i]]
    /\ UNCHANGED <<record, jobs, indexers, month, history>>

\* existing_job_id: an in-flight job for the same request ends the attempt
EnqueueCheck(e) ==
    /\ enqueuers[e].stage = "read"
    /\ enqueuers' = [enqueuers EXCEPT ![e] =
                        IF InFlight(@.request) THEN [stage |-> "idle", request |-> None]
                        ELSE [@ EXCEPT !.stage = "checked"]]
    /\ UNCHANGED <<record, jobs, indexers, month, history>>

\* Insert the job
EnqueueInsert(e) ==
    /\ enqueuers[e].stage = "checked"
    /\ \E j \in Jobs :
        /\ jobs[j] = FreeJob
        /\ jobs' = [jobs EXCEPT ![j] = [request |-> enqueuers[e].request,
                                        state |-> "available"]]
    /\ enqueuers' = [enqueuers EXCEPT ![e] = [stage |-> "idle", request |-> None]]
    /\ UNCHANGED <<record, indexers, month, history>>

\* The process dies between its commit and its insert
EnqueueLost(e) ==
    /\ enqueuers[e].stage # "idle"
    /\ enqueuers' = [enqueuers EXCEPT ![e] = [stage |-> "idle", request |-> None]]
    /\ UNCHANGED <<record, jobs, indexers, month, history>>

----------------------------------------------------------------------------
(* The claim transaction of run_summary_request *)

\* Variant: a call whose cost was never learned counts as free
BudgetCostWhenKnown(r) == IF r.actual # None THEN r.actual ELSE 0

BudgetCost(r) == IF r.actual # None THEN r.actual ELSE r.reserved

Spent(S) == MapThenSumSet(LAMBDA i : BudgetCost(requests[i]), S)

StartedThisMonth == {i \in Requests : requests[i].startedIn = month}

\* Variant: the per-bill budget forgets earlier months
OfBillThisMonth(b) == {i \in StartedThisMonth : requests[i].bill = b}

OfBill(b) == {i \in Requests : requests[i].bill = b}

FailureSlots ==
    Cardinality({i \in StartedThisMonth :
                    requests[i].status \in {"failed", "ambiguous", "processing"}})

\* Variant: the last free slot is counted twice
CapReachedLate(b) ==
    \/ FailureSlots > FailureCap
    \/ Spent(StartedThisMonth) + Reservation > MonthlyBudget
    \/ Spent(OfBill(b)) + Reservation > BillBudget

\* Why the claim must leave the request ready for a later run, in the order tested
CapReached(b) ==
    \/ FailureSlots >= FailureCap
    \/ Spent(StartedThisMonth) + Reservation > MonthlyBudget
    \/ Spent(OfBill(b)) + Reservation > BillBudget

\* A completed job no longer counts for deduplication: its place is free again
JobDone(j) == jobs' = [jobs EXCEPT ![j] = FreeJob]

\* Job j starts while the spending gate is open, for request i
Runs(j, i) == TRUE \in GateOpen /\ jobs[j] = [request |-> i, state |-> "available"]

\* The gate is off or the key is missing: the job completes and changes nothing
ClaimGateClosed(j) ==
    /\ FALSE \in GateOpen
    /\ jobs[j].state = "available"
    /\ JobDone(j)
    /\ UNCHANGED <<record, enqueuers, indexers, month, history>>

\* The saved text is no longer the one requested, whatever the request's status
ClaimOutdatedText(j, i) ==
    /\ Runs(j, i)
    /\ LET r == requests[i] IN
        /\ text[r.bill] # r.text
        /\ Register([requests EXCEPT ![i].status = "superseded", ![i].gated = FALSE],
                    r.bill, text[r.bill], search[r.bill])
    /\ JobDone(j)
    /\ UNCHANGED <<text, search, context, enqueuers, indexers, month, history>>

SameText(i) == text[requests[i].bill] = requests[i].text

Claimed(i) == Started(requests[i]) /\ requests[i].status \in Active

\* A claimed request whose prompt context is no longer deployed
ClaimOutdatedPrompt(j, i) ==
    /\ Runs(j, i) /\ SameText(i) /\ Claimed(i)
    /\ LET r == requests[i] IN
        /\ r.context # context
        /\ Register([requests EXCEPT ![i].status = "superseded", ![i].gated = FALSE],
                    r.bill, text[r.bill], search[r.bill])
    /\ JobDone(j)
    /\ UNCHANGED <<text, search, context, enqueuers, indexers, month, history>>

\* Another job owns the live paid call: leave it alone
ClaimForeign(j, i) ==
    /\ Runs(j, i) /\ SameText(i) /\ Claimed(i) /\ requests[i].context = context
    /\ requests[i].claimJob # j
    /\ JobDone(j)
    /\ UNCHANGED <<record, enqueuers, indexers, month, history>>

\* The same job runs again after its call was abandoned
ClaimAbandoned(j, i) ==
    /\ Runs(j, i) /\ SameText(i) /\ Claimed(i) /\ requests[i].context = context
    /\ requests[i].claimJob = j
    /\ requests' = [requests EXCEPT ![i].status = "ambiguous", ![i].gated = FALSE]
    /\ JobDone(j)
    /\ UNCHANGED <<text, search, context, summary, enqueuers, indexers, month, history>>

\* Finished, or still waiting for search
ClaimNotReady(j, i) ==
    /\ Runs(j, i) /\ SameText(i) /\ ~Claimed(i) /\ requests[i].status # "ready"
    /\ JobDone(j)
    /\ UNCHANGED <<record, enqueuers, indexers, month, history>>

\* A ready request takes the deployed context; another row may already hold it
Rekeyed(i) == <<requests[i].bill, requests[i].text, context>>

\* Variant: the exact-prompt unique constraint is missing
RekeyUnconstrained(i) == FALSE

RekeyConflict(i) == \E k \in Requests \ {i} : Identity(requests[k]) = Rekeyed(i)

Claimable(j, i) == Runs(j, i) /\ SameText(i) /\ requests[i].status = "ready"

\* The unique constraint refuses the new identity: rolled back, the job is discarded
ClaimRaises(j, i) ==
    /\ Claimable(j, i) /\ RekeyConflict(i)
    /\ jobs' = [jobs EXCEPT ![j].state = "discarded"]
    /\ UNCHANGED <<record, enqueuers, indexers, month, history>>

\* The measured prompt may not be sent
ClaimRefused(j, i) ==
    /\ Claimable(j, i) /\ ~RekeyConflict(i)
    /\ TRUE \in PromptRefused
    /\ requests' = [requests EXCEPT ![i].context = context, ![i].status = "failed",
                                    ![i].gated = TRUE]
    /\ JobDone(j)
    /\ UNCHANGED <<text, search, context, summary, enqueuers, indexers, month, history>>

\* A monthly or per-bill limit is reached: the request stays ready
ClaimCapped(j, i) ==
    /\ Claimable(j, i) /\ ~RekeyConflict(i)
    /\ FALSE \in PromptRefused
    /\ CapReached(requests[i].bill)
    /\ requests' = [requests EXCEPT ![i].context = context]
    /\ JobDone(j)
    /\ UNCHANGED <<text, search, context, summary, enqueuers, indexers, month, history>>

\* The claim commits its reservation and the paid call goes out
ClaimPaid(j, i) ==
    /\ Claimable(j, i) /\ ~RekeyConflict(i)
    /\ FALSE \in PromptRefused
    /\ ~CapReached(requests[i].bill)
    /\ requests' = [requests EXCEPT ![i] =
                       [@ EXCEPT !.context = context, !.status = "processing",
                                 !.startedIn = month, !.claimJob = j,
                                 !.reserved = Reservation, !.actual = None,
                                 !.gated = FALSE]]
    /\ jobs' = [jobs EXCEPT ![j].state = "calling"]
    /\ calls' = [calls EXCEPT ![Rekeyed(i)] = @ + 1]
    /\ exposure' = [exposure EXCEPT ![i] = Reservation]
    /\ UNCHANGED <<text, search, context, summary, enqueuers, indexers, month>>

Claim(j) ==
    \/ ClaimGateClosed(j)
    \/ \E i \in Requests :
        \/ ClaimOutdatedText(j, i)
        \/ ClaimOutdatedPrompt(j, i)
        \/ ClaimForeign(j, i)
        \/ ClaimAbandoned(j, i)
        \/ ClaimNotReady(j, i)
        \/ ClaimRaises(j, i)
        \/ ClaimRefused(j, i)
        \/ ClaimCapped(j, i)
        \/ ClaimPaid(j, i)

----------------------------------------------------------------------------
(* The provider's answer and the finishing transaction *)

Calls(j, i) == jobs[j] = [request |-> i, state |-> "calling"]

\* request_is_current
StillCurrent(i) ==
    /\ requests[i].status = "processing"
    /\ requests[i].context = context
    /\ SameText(i)

\* The row after a paid answer: what is kept of it and what it costs
Answered(r, status, response, cost) ==
    [r EXCEPT !.status = status, !.response = response, !.actual = cost, !.gated = FALSE]

\* The most the provider may have charged, given the usage it reported
Charged(cost) == IF cost = None THEN Reservation ELSE cost

\* The answer arrives in time: applied, or refused for citing an appendix
FinishCurrent(j, i, response, cost) ==
    /\ Calls(j, i) /\ StillCurrent(i)
    /\ requests' = [requests EXCEPT ![i] =
                       Answered(@, IF response = "citable" THEN "completed" ELSE "failed",
                                response, cost)]
    /\ summary' = IF response = "citable"
                  THEN [summary EXCEPT ![requests[i].bill] =
                           <<requests[i].text, requests[i].context>>]
                  ELSE summary
    /\ exposure' = [exposure EXCEPT ![i] = Charged(cost)]
    /\ JobDone(j)
    /\ UNCHANGED <<text, search, context, enqueuers, indexers, month, calls>>

\* The answer arrives too late: it is stored, and the saved text registered again
FinishOutdated(j, i, response, cost) ==
    /\ Calls(j, i) /\ ~StillCurrent(i)
    /\ LET r == requests[i]
           status == IF r.status = "processing" THEN "superseded" ELSE r.status
           rows == [requests EXCEPT ![i] = Answered(@, status, response, cost)]
       IN  IF text[r.bill] = None
           THEN requests' = rows /\ summary' = summary
           ELSE Register(rows, r.bill, text[r.bill], search[r.bill])
    /\ exposure' = [exposure EXCEPT ![i] = Charged(cost)]
    /\ JobDone(j)
    /\ UNCHANGED <<text, search, context, enqueuers, indexers, month, calls>>

\* The call raises: terminal, ambiguous when the transport was lost
FinishError(j, i, ambiguous) ==
    /\ Calls(j, i)
    /\ requests' = [requests EXCEPT ![i].status =
                       IF @ # "processing" THEN @
                       ELSE IF ambiguous THEN "ambiguous" ELSE "failed"]
    /\ JobDone(j)
    /\ UNCHANGED <<text, search, context, summary, enqueuers, indexers, month, calls,
                   exposure>>

Finish(j) ==
    \E i \in Requests :
        \/ \E response \in Responses \ {"none"}, cost \in ActualCosts \cup {None} :
            \/ FinishCurrent(j, i, response, cost)
            \/ FinishOutdated(j, i, response, cost)
        \/ \E ambiguous \in BOOLEAN : FinishError(j, i, ambiguous)

\* The worker process dies while the call is out: its answer is lost
Crash(j) ==
    /\ jobs[j].state = "calling"
    /\ jobs' = [jobs EXCEPT ![j].state = "orphaned"]
    /\ UNCHANGED <<record, enqueuers, indexers, month, history>>

\* Oban finds the orphan; with max_attempts=1 its only attempt is used up
Rescue(j) ==
    /\ jobs[j].state = "orphaned"
    /\ jobs' = [jobs EXCEPT ![j].state = "discarded"]
    /\ UNCHANGED <<record, enqueuers, indexers, month, history>>

\* A person retries a discarded job under its own id
RecoveredRetry(j) ==
    /\ jobs[j].state = "discarded"
    /\ jobs' = [jobs EXCEPT ![j].state = "available"]
    /\ UNCHANGED <<record, enqueuers, indexers, month, history>>

----------------------------------------------------------------------------
(* The specification *)

Identities == Bills \X Texts \X Contexts

Init ==
    /\ text = [b \in Bills |-> None]
    /\ search = [b \in Bills |-> None]
    /\ context \in Contexts
    /\ summary = [b \in Bills |-> None]
    /\ requests = [i \in Requests |-> NoRow]
    /\ jobs = [j \in Jobs |-> FreeJob]
    /\ enqueuers = [e \in Enqueuers |-> [stage |-> "idle", request |-> None]]
    /\ indexers = [w \in Indexers |-> None]
    /\ month = 1
    /\ calls = [k \in Identities |-> 0]
    /\ exposure = [i \in Requests |-> 0]

Records ==
    \/ \E b \in Bills, t \in Texts \cup {None}, inline \in SearchInline : Ingest(b, t, inline)
    \/ \E b \in Bills, t \in Texts : Repair(b, t)
    \/ \E w \in Indexers :
        \/ \E b \in Bills : IndexerRead(w, b)
        \/ IndexerCompare(w) \/ IndexerCommit(w) \/ IndexerFail(w)
    \/ \E c \in Contexts : Deploy(c)
    \/ NewMonth

Enqueue(e) ==
    (\E i \in Requests : EnqueueRead(e, i)) \/ EnqueueCheck(e) \/ EnqueueInsert(e)

Runner(j) == Claim(j) \/ Finish(j) \/ Rescue(j)

Next ==
    \/ Records
    \/ \E e \in Enqueuers : Enqueue(e) \/ EnqueueLost(e)
    \/ \E j \in Jobs : Runner(j) \/ Crash(j) \/ RecoveredRetry(j)

Spec == Init /\ [][Next]_vars

\* The queue keeps being drained: enqueuers, runners and the orphan rescue make
\* progress, and an enqueuer that keeps being restarted does not die every time;
\* nothing obliges ingestion, indexing, crashes or a person's retry
Fairness ==
    /\ \A e \in Enqueuers :
        /\ WF_vars(Enqueue(e))
        /\ SF_vars(EnqueueCheck(e)) /\ SF_vars(EnqueueInsert(e))
    /\ \A j \in Jobs : WF_vars(Claim(j)) /\ WF_vars(Finish(j)) /\ WF_vars(Rescue(j))

FairSpec == Spec /\ Fairness
----------------------------------------------------------------------------
(* Properties *)

\* Every variable has its type
TypeOK ==
    /\ text \in [Bills -> Texts \cup {None}]
    /\ search \in [Bills -> Texts \cup {None}]
    /\ context \in Contexts
    /\ summary \in [Bills -> (Texts \X Contexts) \cup {None}]
    /\ requests \in [Requests -> Row]
    /\ jobs \in [Jobs -> [request : Requests \cup {None},
                          state : {"free", "available", "calling",
                                   "orphaned", "discarded"}]]
    /\ enqueuers \in [Enqueuers -> [stage : {"idle", "read", "checked"},
                                    request : Requests \cup {None}]]
    /\ indexers \in [Indexers -> [bill : Bills, text : Texts, building : BOOLEAN] \cup {None}]
    /\ month \in 1 .. LastMonth
    /\ calls \in [Identities -> Nat]
    /\ exposure \in [Requests -> 0 .. Reservation]

\* The provider is called at most once for one exact text under one exact prompt,
\* whatever duplicate jobs, text changes and releases come between
OnePaidCallPerContext == \A k \in Identities : calls[k] <= 1

StartedIn(m) == {i \in Requests : requests[i].startedIn = m}

Exposed(S) == MapThenSumSet(LAMBDA i : exposure[i], S)

\* What the provider may really have charged, for calls whose cost was never
\* learned too, stays within the monthly and the lifetime per-bill budget
SpendWithinBudgets ==
    /\ \A m \in 1 .. LastMonth : Exposed(StartedIn(m)) <= MonthlyBudget
    /\ \A b \in Bills : Exposed({i \in Requests : requests[i].bill = b}) <= BillBudget

\* Requests of one month that failed, are ambiguous or may still fail never exceed
\* the failure cap, so concurrent claims cannot overshoot it
FailureSlotsWithinCap ==
    \A m \in 1 .. LastMonth :
        Cardinality({i \in StartedIn(m) :
                        requests[i].status \in {"failed", "ambiguous", "processing"}})
            <= FailureCap

\* A displayed summary describes the saved text and comes from the completed,
\* paid request for exactly that text and prompt
SummaryIsPaidAndCurrent ==
    \A b \in Bills : summary[b] # None =>
        /\ summary[b][1] = text[b]
        /\ \E i \in Requests :
            /\ Identity(requests[i]) = <<b, summary[b][1], summary[b][2]>>
            /\ requests[i].status = "completed"
            /\ requests[i].response = "citable"

\* A bill has at most one live request, and it is for the saved text
LiveRequestTracksText ==
    \A i, k \in Requests :
        requests[i].status \in Active =>
            /\ requests[i].text = text[requests[i].bill]
            /\ requests[k].status \in Active /\ requests[k].bill = requests[i].bill => k = i

\* Once a request has been paid for, no step makes it runnable again, starts it
\* again, or changes which text and prompt it stands for
SpentRequestIsFinal ==
    [][\A i \in Requests : Started(requests[i]) =>
        /\ Identity(requests'[i]) = Identity(requests[i])
        /\ requests'[i].startedIn = requests[i].startedIn
        /\ requests'[i].status \notin {"waiting_for_search", "ready"}
        /\ requests'[i].status = "processing" => requests[i].status = "processing"]_vars

\* A usable paid answer for the saved text is displayed as soon as it is stored,
\* or the text it was paid for is saved again
PaidAnswerIsUsed ==
    [][\A i \in Requests :
        LET b == requests[i].bill IN
        (/\ b # None
         /\ requests'[i].response = "citable"
         /\ requests'[i].text = text'[b] /\ requests'[i].context = context'
         /\ text'[b] # text[b] \/ requests[i].response = "none")
        => summary'[b] = <<requests'[i].text, requests'[i].context>>]_vars

\* A request becomes ready only when its bill's search rows describe its text, however
\* saving the text and indexing it interleave
ReadyMeansSearchable ==
    [][\A i \in Requests :
        requests'[i].status = "ready" /\ requests[i].status # "ready"
            => search'[requests'[i].bill] = requests'[i].text]_vars


\* Changed bill text and its search rows are published together
SearchPublishesWithText ==
    \A b \in Bills : search[b] = text[b]
----------------------------------------------------------------------------
(* The accounting invariant *)

\* What one row of the ledger always satisfies
RowOK(r) ==
    /\ r \in Row
    /\ r.status = "absent" => r = NoRow
    /\ r.status # "absent" => Identity(r) \in Identities
    /\ r.status \in {"absent", "waiting_for_search", "ready"} => ~Started(r)
    /\ r.status = "completed" => r.response = "citable"
    /\ ~Started(r) => r.response = "none"

\* The exact-prompt unique constraint
UniqueIdentity(R) ==
    \A i, k \in Requests :
        R[i].status # "absent" /\ Identity(R[i]) = Identity(R[k]) => i = k

LedgerOK(R) ==
    /\ R \in [Requests -> Row]
    /\ \A i \in Requests : RowOK(R[i])
    /\ UniqueIdentity(R)

\* A read, queued or running request is a row of the ledger, and a running call
\* is the one its row's claim started, still without an answer
Referenced ==
    /\ \A e \in Enqueuers :
        enqueuers[e].stage # "idle" =>
            /\ enqueuers[e].request \in Requests
            /\ requests[enqueuers[e].request].status # "absent"
    /\ \A j \in Jobs :
        /\ jobs[j].state # "free" =>
            /\ jobs[j].request \in Requests
            /\ requests[jobs[j].request].status # "absent"
        /\ jobs[j].state = "calling" =>
            /\ Started(requests[jobs[j].request])
            /\ requests[jobs[j].request].claimJob = j
            /\ requests[jobs[j].request].response = "none"

\* Exactly the started rows stand for provider calls, one call each
CallsRecorded ==
    \A k \in Identities :
        calls[k] = IF \E i \in Requests : Started(requests[i]) /\ Identity(requests[i]) = k
                   THEN 1 ELSE 0

\* The ledger accounts for every provider call, whatever is queued or running
SpendLedger == TypeOK /\ LedgerOK(requests) /\ Referenced /\ CallsRecorded

\* A usable answer is shown or was overtaken, never in a row that failed, and a call
\* that is out belongs to a row that still runs or was overtaken
AnswersSettled ==
    /\ \A i \in Requests :
        requests[i].response = "citable" => requests[i].status \in {"completed", "superseded"}
    /\ \A j \in Jobs :
        jobs[j].state = "calling" =>
            requests[jobs[j].request].status \in {"processing", "superseded"}

\* The cost the ledger counts for a row is the most its call may have been charged;
\* before the call it is nothing, and until an answer it is the whole reservation
CostsRecorded ==
    \A i \in Requests :
        /\ exposure[i] = BudgetCost(requests[i])
        /\ requests[i].reserved = IF Started(requests[i]) THEN Reservation ELSE 0
        /\ requests[i].response = "none" => requests[i].actual = None
----------------------------------------------------------------------------
(* The abstract purchases that the ledger implements *)

\* The started rows of one exact identity; the unique constraint leaves at most one
PaidRows(k) == {i \in Requests : Started(requests[i]) /\ Identity(requests[i]) = k}

\* A row's call is out only while its job is calling: a crashed job never answers
PurchaseOf(k) ==
    IF PaidRows(k) = {} THEN "none"
    ELSE IF \E i \in PaidRows(k) : requests[i].response = "citable" THEN "usable"
    ELSE IF \E i \in PaidRows(k), j \in Jobs : Calls(j, i) THEN "out"
    ELSE "wasted"

Purchases == [k \in Identities |-> PurchaseOf(k)]

Promise == INSTANCE SummaryPromise WITH
    saved <- text, prompt <- context, purchase <- Purchases, shown <- summary

\* The ledger, its queue and its workers implement SummaryPromise: whatever is queued
\* twice, overtaken, lost or answered late, an exact text under an exact prompt is bought
\* at most once, only while it is the saved text and the released prompt, and saving a
\* text displays its usable paid answer or nothing
KeepsPromise == Promise!Spec
=============================================================================
