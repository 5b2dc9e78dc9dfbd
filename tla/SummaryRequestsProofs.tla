----------------------- MODULE SummaryRequestsProofs -----------------------
(***************************************************************************)
(* Theorems about SummaryRequests for every set of bills, texts, prompt    *)
(* contexts, rows, jobs and workers. The inductive invariant SpendLedger   *)
(* ties the history of provider calls to the rows of the ledger. Tracked   *)
(* and AnswersSettled tie the live rows, the displayed summary and the     *)
(* answers to the saved text. The lemmas about Register are stated once    *)
(* and cited by every action that registers a text. The last part shows    *)
(* that the ledger implements SummaryPromise.                              *)
(***************************************************************************)
EXTENDS SummaryRequests, TLAPS

----------------------------------------------------------------------------
(* Rows *)

\* A step that starts no call leaves r as q: the row stays, what it was paid for does
\* not change, and a paid row only ever leaves the live statuses
RowKept(r, q) ==
    /\ r.status # "absent" => q.status # "absent"
    /\ q.startedIn = r.startedIn /\ q.claimJob = r.claimJob
    /\ Started(r) => Identity(q) = Identity(r)
    /\ Started(r) => q.status \notin {"waiting_for_search", "ready"}
    /\ q.status = "processing" => r.status = "processing"

\* A step leaves every row that was paid for
PaidRowsKept ==
    \A i \in Requests : Started(requests[i]) => RowKept(requests[i], requests'[i])

\* Superseding keeps each row well formed
LEMMA SupersedeRow ==
    ASSUME NEW r \in Row, RowOK(r), r.status # "absent"
    PROVE  LET q == [r EXCEPT !.status = "superseded", !.gated = FALSE]
           IN  RowOK(q) /\ RowKept(r, q) /\ q.response = r.response /\ Identity(q) = Identity(r)
  BY DEF RowOK, RowKept, Row, Identity, Started, Active, Statuses, Identities, NoRow

\* So it keeps the ledger well formed
LEMMA SupersedeLedger ==
    ASSUME NEW R, LedgerOK(R), NEW b \in Bills, NEW t \in Texts \cup {None}
    PROVE  LET Q == SupersedeOthers(R, b, t)
           IN  /\ LedgerOK(Q)
               /\ \A i \in Requests : RowKept(R[i], Q[i]) /\ Q[i].response = R[i].response
               /\ \A i \in Requests :
                    Q[i].status \in Active => Q[i] = R[i]
               /\ \A i \in Requests :
                    Q[i].status \in Active /\ Q[i].bill = b =>
                        <<Q[i].text, Q[i].context>> = <<t, context>>
               /\ \A i \in Requests : R[i].status \notin Active \/ R[i].bill # b
                                        => Q[i] = R[i]
<1> DEFINE Q == SupersedeOthers(R, b, t)
<1>1. ASSUME NEW i \in Requests
      PROVE  /\ RowOK(Q[i]) /\ RowKept(R[i], Q[i]) /\ Q[i].response = R[i].response
             /\ (R[i].status = "absent") <=> (Q[i].status = "absent")
             /\ Identity(Q[i]) = Identity(R[i])
             /\ Q[i].status \in Active => Q[i] = R[i]
             /\ Q[i].status \in Active /\ Q[i].bill = b =>
                        <<Q[i].text, Q[i].context>> = <<t, context>>
             /\ R[i].status \notin Active \/ R[i].bill # b => Q[i] = R[i]
  <2>1. R[i] \in Row /\ RowOK(R[i])
    BY DEF LedgerOK
  <2>2. CASE Q[i] = R[i] /\ ~(R[i].bill = b /\ R[i].status \in Active
                              /\ <<R[i].text, R[i].context>> # <<t, context>>)
    BY <2>1, <2>2 DEF RowKept, RowOK, Row, Started, Active
  <2>3. CASE Q[i] = [R[i] EXCEPT !.status = "superseded", !.gated = FALSE]
             /\ R[i].status \in Active /\ R[i].bill = b
    <3>1. RowOK(Q[i]) /\ RowKept(R[i], Q[i]) /\ Q[i].response = R[i].response
      BY <2>1, <2>3, SupersedeRow DEF Active
    <3>2. QED
      BY <2>1, <2>3, <3>1 DEF Row, Active, Identity
  <2>4. QED
    BY <2>2, <2>3 DEF SupersedeOthers
<1>2. Q \in [Requests -> Row]
  BY <1>1 DEF RowOK, SupersedeOthers
<1>3. UniqueIdentity(Q)
  BY <1>1 DEF LedgerOK, UniqueIdentity
<1>4. QED
  BY <1>1, <1>2, <1>3 DEF LedgerOK

\* What registration does to the row of the exact context: a row that waits or is
\* ready was never started, a finished one is completed only for a usable answer
LEMMA RevivedRow ==
    ASSUME NEW r \in Row, RowOK(r), NEW b \in Bills, NEW t \in Texts, NEW s,
           context \in Contexts,
           r.status = "absent" \/ Identity(r) = <<b, t, context>>
    PROVE  LET q == Promoted(Revived(r, b, t), s)
           IN  /\ RowOK(q) /\ RowKept(r, q) /\ q.response = r.response
               /\ q.status # "absent" /\ Identity(q) = <<b, t, context>>
               /\ Revived(r, b, t) \in Row
<1> USE LimitsAssumption, DomainAssumption
<1> DEFINE p == Revived(r, b, t)
           q == Promoted(p, s)
<1>1. /\ RowOK(p) /\ RowKept(r, p) /\ p.response = r.response
      /\ p.status # "absent" /\ Identity(p) = <<b, t, context>>
  <2>1. CASE r.status = "absent"
    <3>1. p = WaitingRow(b, t)
      BY <2>1 DEF Revived, Reopenable, Reusable
    <3>2. p = [bill |-> b, text |-> t, context |-> context,
               status |-> "waiting_for_search", startedIn |-> 0, claimJob |-> None,
               reserved |-> 0, actual |-> None, gated |-> FALSE, response |-> "none"]
      BY <3>1 DEF WaitingRow, NoRow
    <3>3. p \in Row
      BY <3>2 DEF Row, Statuses, Active, Responses
    <3>4. r = NoRow
      BY <2>1 DEF RowOK
    <3>5. Identity(p) = <<b, t, context>> /\ ~Started(p)
      BY <3>2 DEF Identity, Started
    <3>6. RowOK(p)
      BY <3>2, <3>3, <3>5 DEF RowOK, Identities
    <3>7. RowKept(r, p) /\ p.response = r.response
      BY <3>2, <3>4, <3>5 DEF RowKept, NoRow, Started
    <3>8. QED
      BY <3>2, <3>5, <3>6, <3>7
  <2>2. CASE r.status # "absent" /\ Reopenable(r)
    <3>1. p = [r EXCEPT !.status = "waiting_for_search", !.gated = FALSE]
      BY <2>2 DEF Revived, Reopenable, Reusable
    <3>2. QED
      BY <2>2, <3>1, ZenonT(60) DEF Reopenable, RowOK, RowKept, Row, Identity, Started, Statuses,
                       Active, Identities
  <2>3. CASE r.status # "absent" /\ ~Reopenable(r) /\ Reusable(r)
    <3>1. p = [r EXCEPT !.status = "completed", !.gated = FALSE]
      BY <2>3 DEF Revived
    <3>2. QED
      BY <2>3, <3>1 DEF Reusable, RowOK, RowKept, Row, Identity, Started, Statuses,
                       Active, Identities
  <2>4. CASE r.status # "absent" /\ ~Reopenable(r) /\ ~Reusable(r)
    <3>1. p = r
      BY <2>4 DEF Revived
    <3>2. QED
      BY <2>4, <3>1 DEF RowKept, RowOK
  <2>5. QED
    BY <2>1, <2>2, <2>3, <2>4
<1>2. CASE q = p
  BY <1>1, <1>2 DEF RowOK
<1>3. CASE p.status = "waiting_for_search" /\ q = [p EXCEPT !.status = "ready", !.gated = FALSE]
  BY <1>1, <1>3 DEF RowOK, RowKept, Row, Identity, Started, Statuses, Active, Identities
<1>4. QED
  BY <1>2, <1>3 DEF Promoted

\* Registering a text leaves a well-formed ledger in which the only live request of
\* the bill is the one for that text
LEMMA RegisterLedger ==
    ASSUME NEW R, LedgerOK(R), NEW b \in Bills, NEW t \in Texts \cup {None}, NEW s,
           context \in Contexts, summary \in [Bills -> (Texts \X Contexts) \cup {None}],
           Register(R, b, t, s)
    PROVE  /\ LedgerOK(requests')
           /\ \A i \in Requests :
                RowKept(R[i], requests'[i]) /\ requests'[i].response = R[i].response
           /\ \A i \in Requests : R[i].status = "absent" /\ requests'[i].status # "absent"
                                    => requests'[i].bill = b
           /\ \A i \in Requests :
                requests'[i].status \in Active /\ requests'[i].bill = b
                    => requests'[i].text = t /\ requests'[i].context = context
           /\ \A i \in Requests : R[i].bill # b /\ R[i].status # "absent"
                                    => requests'[i] = R[i]
           /\ summary' \in [Bills -> (Texts \X Contexts) \cup {None}]
<1> DEFINE Q == SupersedeOthers(R, b, t)
<1>1. /\ LedgerOK(Q)
      /\ \A i \in Requests : RowKept(R[i], Q[i]) /\ Q[i].response = R[i].response
      /\ \A i \in Requests : Q[i].status \in Active => Q[i] = R[i]
      /\ \A i \in Requests : Q[i].status \in Active /\ Q[i].bill = b =>
                        <<Q[i].text, Q[i].context>> = <<t, context>>
      /\ \A i \in Requests : R[i].status \notin Active \/ R[i].bill # b => Q[i] = R[i]
  BY SupersedeLedger
<1>2. CASE t = None
  <2>1. requests' = Q /\ summary' = [summary EXCEPT ![b] = None]
    BY <1>2 DEF Register
  <2>2. \A i \in Requests : R[i].status = "absent" => Q[i] = R[i]
    BY <1>1 DEF Active
  <2>3. summary' \in [Bills -> (Texts \X Contexts) \cup {None}]
    BY <2>1
  <2>4. QED
    BY <1>1, <2>1, <2>2, <2>3
<1>3. CASE t # None
  <2>1. PICK i \in SlotFor(Q, b, t) :
            /\ requests' = [Q EXCEPT ![i] = Promoted(Revived(Q[i], b, t), s)]
            /\ summary' = [summary EXCEPT ![b] =
                              IF Reusable(Q[i]) THEN <<t, context>>
                              ELSE IF summary[b] = <<t, context>> THEN summary[b] ELSE None]
    BY <1>3 DEF Register
  <2>2. t \in Texts
    BY <1>3
  <2>3. i \in Requests /\ Q[i] \in Row /\ RowOK(Q[i])
    BY <1>1, <2>1 DEF SlotFor, LedgerOK
  <2>4. Q[i].status = "absent" \/ Identity(Q[i]) = <<b, t, context>>
    BY <2>1 DEF SlotFor
  <2> DEFINE q == Promoted(Revived(Q[i], b, t), s)
  <2>5. /\ RowOK(q) /\ RowKept(Q[i], q) /\ q.response = Q[i].response
        /\ q.status # "absent" /\ Identity(q) = <<b, t, context>>
    BY <2>2, <2>3, <2>4, RevivedRow
  <2>6. \A k \in Requests \ {i} : requests'[k] = Q[k]
    BY <1>1, <2>1 DEF LedgerOK
  <2>7. requests'[i] = q
    BY <1>1, <2>1, <2>3 DEF LedgerOK
  <2>8. \A k \in Requests \ {i} : Q[k].status # "absent" => Identity(Q[k]) # <<b, t, context>>
    <3>1. CASE Q[i].status = "absent"
      <4>1. ~\E k \in Requests : Identity(Q[k]) = <<b, t, context>>
        <5>1. Q[i].bill = None
          BY <2>3, <3>1 DEF RowOK, NoRow
        <5>2. Identity(Q[i]) # <<b, t, context>>
          BY <5>1, DomainAssumption DEF Identity
        <5>3. QED
          BY <2>1, <5>2 DEF SlotFor
      <4>2. QED
        BY <4>1
    <3>2. CASE Q[i].status # "absent"
      BY <1>1, <2>3, <2>4, <3>2 DEF LedgerOK, UniqueIdentity
    <3>3. QED
      BY <3>1, <3>2
  <2>9. LedgerOK(requests')
    <3>1. requests' \in [Requests -> Row]
      BY <1>1, <2>1, <2>5 DEF LedgerOK, RowOK
    <3>2. \A k \in Requests : RowOK(requests'[k])
      BY <1>1, <2>5, <2>6, <2>7 DEF LedgerOK
    <3>3. \A k \in Requests : Q[k].status = "absent" => Identity(Q[k]) \notin Identities
      BY <1>1, DomainAssumption DEF LedgerOK, RowOK, NoRow, Identity, Identities
    <3>4. UniqueIdentity(requests')
      <4> SUFFICES ASSUME NEW k \in Requests, NEW n \in Requests,
                          requests'[k].status # "absent",
                          Identity(requests'[k]) = Identity(requests'[n])
                   PROVE  k = n
        BY DEF UniqueIdentity
      <4>1. requests'[n].status # "absent"
        <5>1. Identity(requests'[n]) \in Identities
          BY <3>2 DEF RowOK
        <5>2. CASE n = i
          BY <2>5, <2>7, <5>2
        <5>3. CASE n # i
          BY <2>6, <3>3, <5>1, <5>3
        <5>4. QED
          BY <5>2, <5>3
      <4>2. CASE k # i /\ n # i
        BY <1>1, <2>6, <4>2 DEF LedgerOK, UniqueIdentity
      <4>3. CASE k = i /\ n # i
        BY <2>5, <2>6, <2>7, <2>8, <4>1, <4>3
      <4>4. CASE k # i /\ n = i
        BY <2>5, <2>6, <2>7, <2>8, <4>4
      <4>5. QED
        BY <4>2, <4>3, <4>4
    <3>5. QED
      BY <3>1, <3>2, <3>4 DEF LedgerOK
  <2>10. \A k \in Requests :
            RowKept(R[k], requests'[k]) /\ requests'[k].response = R[k].response
    <3>1. ASSUME NEW k \in Requests
          PROVE  RowKept(R[k], requests'[k]) /\ requests'[k].response = R[k].response
      BY <1>1, <2>5, <2>6, <2>7 DEF RowKept, Started
    <3>2. QED
      BY <3>1
  <2>11. QED
    <3>1. \A k \in Requests : R[k].status = "absent" => Q[k] = R[k]
      BY <1>1 DEF Active
    <3>2. requests'[i].bill = b /\ requests'[i].text = t /\ requests'[i].context = context
      BY <2>5, <2>7 DEF Identity
    <3>3. \A k \in Requests : R[k].bill # b /\ R[k].status # "absent" => requests'[k] = R[k]
      <4>1. R[i].bill # b => R[i].status = "absent"
        BY <1>1, <2>3, <2>4 DEF Identity
      <4>2. QED
        BY <1>1, <2>6, <4>1
    <3>4. summary' \in [Bills -> (Texts \X Contexts) \cup {None}]
      BY <2>1, <2>2
    <3>5. \A k \in Requests : R[k].status = "absent" /\ requests'[k].status # "absent"
                                    => requests'[k].bill = b
      BY <2>6, <3>1, <3>2
    <3>6. \A k \in Requests : requests'[k].status \in Active /\ requests'[k].bill = b
                    => requests'[k].text = t /\ requests'[k].context = context
      BY <1>1, <2>6, <3>2
    <3>7. QED
      BY <2>9, <2>10, <3>3, <3>4, <3>5, <3>6
<1>4. QED
  BY <1>2, <1>3

----------------------------------------------------------------------------
(* The invariant is inductive *)

\* Rows that keep what they were paid for keep the account of provider calls
LEMMA CallsKept ==
    ASSUME SpendLedger, LedgerOK(requests'), calls' = calls,
           \A i \in Requests : RowKept(requests[i], requests'[i])
    PROVE  CallsRecorded'
<1>1. ASSUME NEW i \in Requests
      PROVE  /\ Started(requests'[i]) <=> Started(requests[i])
             /\ Started(requests[i]) => Identity(requests'[i]) = Identity(requests[i])
  BY <1>1 DEF SpendLedger, LedgerOK, RowOK, RowKept, Started
<1>2. QED
  BY <1>1 DEF SpendLedger, CallsRecorded

\* A registration within a larger step
LEMMA RegisterStep ==
    ASSUME SpendLedger, NEW R, LedgerOK(R),
           \A i \in Requests : RowKept(requests[i], R[i]),
           NEW b \in Bills, NEW t \in Texts \cup {None}, NEW s,
           Register(R, b, t, s), calls' = calls
    PROVE  /\ LedgerOK(requests') /\ CallsRecorded'
           /\ \A i \in Requests :
                RowKept(requests[i], requests'[i]) /\ requests'[i].response = R[i].response
           /\ summary' \in [Bills -> (Texts \X Contexts) \cup {None}]
<1>1. /\ LedgerOK(requests')
      /\ \A i \in Requests : RowKept(R[i], requests'[i]) /\ requests'[i].response = R[i].response
      /\ summary' \in [Bills -> (Texts \X Contexts) \cup {None}]
  BY RegisterLedger DEF SpendLedger, TypeOK
<1>2. \A i \in Requests : RowKept(requests[i], requests'[i])
  BY <1>1 DEF RowKept, Started
<1>3. QED
  BY <1>1, <1>2, CallsKept

\* The queue and the enqueuers keep naming rows while rows are kept, jobs are freed
\* or leave the call, and enqueuers go idle or move on with the same request
LEMMA ReferencedKept ==
    ASSUME SpendLedger,
           \A i \in Requests : RowKept(requests[i], requests'[i]),
           \A e \in Enqueuers :
                \/ enqueuers'[e].stage = "idle"
                \/ enqueuers[e].stage # "idle" /\ enqueuers'[e].request = enqueuers[e].request,
           \A j \in Jobs :
                \/ jobs'[j].state = "free"
                \/ /\ jobs[j].state # "free" /\ jobs'[j].request = jobs[j].request
                   /\ jobs'[j].state = "calling" =>
                        /\ jobs[j].state = "calling"
                        /\ requests'[jobs[j].request].response
                             = requests[jobs[j].request].response
    PROVE  Referenced'
<1>1. ASSUME NEW e \in Enqueuers, enqueuers'[e].stage # "idle"
      PROVE  /\ enqueuers'[e].request \in Requests
             /\ requests'[enqueuers'[e].request].status # "absent"
  BY <1>1 DEF SpendLedger, Referenced, RowKept
<1>2. ASSUME NEW j \in Jobs, jobs'[j].state # "free"
      PROVE  /\ jobs'[j].request \in Requests
             /\ requests'[jobs'[j].request].status # "absent"
             /\ jobs'[j].state = "calling" =>
                  /\ Started(requests'[jobs'[j].request])
                  /\ requests'[jobs'[j].request].claimJob = j
                  /\ requests'[jobs'[j].request].response = "none"
  BY <1>2 DEF SpendLedger, Referenced, RowKept, Started
<1>3. QED
  BY <1>1, <1>2 DEF Referenced

\* In particular while the queue stands still
LEMMA QueueUnchanged ==
    ASSUME SpendLedger, enqueuers' = enqueuers, jobs' = jobs,
           \A i \in Requests :
             RowKept(requests[i], requests'[i]) /\ requests'[i].response = requests[i].response
    PROVE  Referenced'
<1>1. \A j \in Jobs : jobs[j].state # "free" => jobs[j].request \in Requests
  BY DEF SpendLedger, Referenced
<1>2. QED
  BY <1>1, ReferencedKept

\* Steps that leave the ledger alone
LEMMA LedgerUnchanged ==
    ASSUME SpendLedger, requests' = requests, calls' = calls
    PROVE  /\ LedgerOK(requests') /\ CallsRecorded'
           /\ \A i \in Requests : RowKept(requests[i], requests'[i])
<1>1. \A i \in Requests : RowKept(requests[i], requests'[i])
  BY DEF SpendLedger, LedgerOK, RowOK, RowKept
<1>2. QED
  BY <1>1, CallsKept DEF SpendLedger

LEMMA LedgerInit == Init => SpendLedger
<1> SUFFICES ASSUME Init PROVE SpendLedger
  OBVIOUS
<1> USE LimitsAssumption, DomainAssumption
<1>1. NoRow \in Row
  BY DEF NoRow, Row, Statuses, Responses
<1>2. TypeOK
  BY <1>1 DEF Init, TypeOK, FreeJob
<1>3. RowOK(NoRow)
  BY <1>1 DEF RowOK, NoRow, Started
<1>4. LedgerOK(requests)
  BY <1>1, <1>3 DEF Init, LedgerOK, UniqueIdentity, NoRow
<1>5. Referenced
  BY DEF Init, Referenced, FreeJob
<1>6. CallsRecorded
  BY DEF Init, CallsRecorded, NoRow, Started
<1>7. QED
  BY <1>2, <1>4, <1>5, <1>6 DEF SpendLedger

\* Ingestion, repair, the indexer, releases and the calendar
LEMMA RecordsInductive == SpendLedger /\ Records => SpendLedger' /\ PaidRowsKept
<1> SUFFICES ASSUME SpendLedger, Records PROVE SpendLedger' /\ PaidRowsKept
  OBVIOUS
<1> USE LimitsAssumption, DomainAssumption
<1>1. ASSUME NEW b \in Bills, NEW t \in Texts \cup {None}, NEW inline \in SearchInline,
             Ingest(b, t, inline)
      PROVE  SpendLedger' /\ PaidRowsKept
  <2>1. /\ LedgerOK(requests') /\ CallsRecorded'
        /\ \A i \in Requests :
             RowKept(requests[i], requests'[i]) /\ requests'[i].response = requests[i].response
        /\ summary' \in [Bills -> (Texts \X Contexts) \cup {None}]
    <3>1. Register(requests, b, t, IF inline THEN t ELSE search[b]) /\ calls' = calls
      BY <1>1 DEF Ingest, history
    <3>2. LedgerOK(requests) /\ \A i \in Requests : RowKept(requests[i], requests[i])
      BY DEF SpendLedger, LedgerOK, RowOK, RowKept
    <3>3. QED
      BY <3>1, <3>2, RegisterStep
  <2>2. Referenced'
    BY <1>1, <2>1, QueueUnchanged DEF Ingest
  <2>3. TypeOK'
    BY <1>1, <2>1 DEF Ingest, SpendLedger, TypeOK, LedgerOK, history
  <2>4. QED
    BY <2>1, <2>2, <2>3 DEF SpendLedger, PaidRowsKept
<1>2. ASSUME NEW b \in Bills, NEW t \in Texts, Repair(b, t) PROVE SpendLedger' /\ PaidRowsKept
  <2>1. /\ LedgerOK(requests') /\ CallsRecorded'
        /\ \A i \in Requests :
             RowKept(requests[i], requests'[i]) /\ requests'[i].response = requests[i].response
        /\ summary' \in [Bills -> (Texts \X Contexts) \cup {None}]
    <3>1. Register(requests, b, t, t) /\ calls' = calls
      BY <1>2 DEF Repair, history
    <3>2. LedgerOK(requests) /\ \A i \in Requests : RowKept(requests[i], requests[i])
      BY DEF SpendLedger, LedgerOK, RowOK, RowKept
    <3>3. QED
      BY <3>1, <3>2, RegisterStep
  <2>2. Referenced'
    BY <1>2, <2>1, QueueUnchanged DEF Repair
  <2>3. TypeOK'
    BY <1>2, <2>1 DEF Repair, SpendLedger, TypeOK, LedgerOK, history
  <2>4. QED
    BY <2>1, <2>2, <2>3 DEF SpendLedger, PaidRowsKept
<1>3. ASSUME NEW w \in Indexers, NEW b \in Bills, IndexerRead(w, b) PROVE SpendLedger' /\ PaidRowsKept
  <2>1. Referenced' /\ LedgerOK(requests') /\ CallsRecorded' /\ PaidRowsKept
    BY <1>3, LedgerUnchanged, ReferencedKept DEF PaidRowsKept, IndexerRead, record, queue, history
  <2>2. TypeOK'
    BY <1>3 DEF IndexerRead, SpendLedger, TypeOK, record, queue, history
  <2>3. QED
    BY <2>1, <2>2 DEF SpendLedger, PaidRowsKept
<1>4. ASSUME NEW b \in Bills, NEW t \in Texts, MarkReady(b, t), calls' = calls
      PROVE  /\ LedgerOK(requests') /\ CallsRecorded'
             /\ \A i \in Requests :
                  RowKept(requests[i], requests'[i]) /\ requests'[i].response = requests[i].response
  <2>1. ASSUME NEW i \in Requests
        PROVE  /\ RowOK(requests'[i]) /\ RowKept(requests[i], requests'[i])
               /\ requests'[i].response = requests[i].response
               /\ (requests'[i].status = "absent") <=> (requests[i].status = "absent")
               /\ Identity(requests'[i]) = Identity(requests[i])
    <3>1. requests[i] \in Row /\ RowOK(requests[i])
      BY DEF SpendLedger, LedgerOK
    <3>2. CASE requests'[i] = requests[i]
      BY <3>1, <3>2 DEF RowKept, RowOK
    <3>3. CASE /\ requests[i].status = "waiting_for_search"
               /\ requests'[i] = [requests[i] EXCEPT !.status = "ready", !.gated = FALSE]
      BY <3>1, <3>3 DEF RowOK, RowKept, Row, Identity, Started, Statuses, Active, Identities
    <3>4. QED
      BY <1>4, <3>2, <3>3 DEF MarkReady, Promoted
  <2>2. requests' \in [Requests -> Row]
    BY <1>4, <2>1 DEF MarkReady, RowOK
  <2>3. LedgerOK(requests')
    BY <2>1, <2>2 DEF SpendLedger, LedgerOK, UniqueIdentity
  <2>4. QED
    BY <1>4, <2>1, <2>3, CallsKept
<1>5. ASSUME NEW w \in Indexers, IndexerCompare(w) PROVE SpendLedger' /\ PaidRowsKept
  <2>1. indexers[w].bill \in Bills /\ indexers[w].text \in Texts /\ indexers[w] # None
        /\ indexers[w] \in [bill : Bills, text : Texts, building : BOOLEAN]
    BY <1>5 DEF IndexerCompare, SpendLedger, TypeOK
  <2>2. /\ LedgerOK(requests') /\ CallsRecorded'
        /\ \A i \in Requests :
             RowKept(requests[i], requests'[i]) /\ requests'[i].response = requests[i].response
    <3>1. CASE requests' = requests
      BY <1>5, <3>1, LedgerUnchanged DEF IndexerCompare, history
    <3>2. CASE MarkReady(indexers[w].bill, indexers[w].text)
      BY <1>4, <1>5, <2>1, <3>2 DEF IndexerCompare, history
    <3>3. QED
      BY <1>5, <3>1, <3>2 DEF IndexerCompare
  <2>3. Referenced'
    BY <1>5, <2>2, QueueUnchanged DEF IndexerCompare, queue
  <2>4. indexers' \in [Indexers -> [bill : Bills, text : Texts, building : BOOLEAN] \cup {None}]
    <3>1. [indexers[w] EXCEPT !.building = TRUE] \in
             [bill : Bills, text : Texts, building : BOOLEAN]
      BY <2>1
    <3>2. \/ indexers' = [indexers EXCEPT ![w] = None]
          \/ indexers' = [indexers EXCEPT ![w] = [indexers[w] EXCEPT !.building = TRUE]]
      BY <1>5 DEF IndexerCompare
    <3>3. QED
      BY <3>1, <3>2 DEF SpendLedger, TypeOK
  <2>5. TypeOK'
    BY <1>5, <2>2, <2>4 DEF IndexerCompare, SpendLedger, TypeOK, LedgerOK, queue, history
  <2>6. QED
    BY <2>2, <2>3, <2>5 DEF SpendLedger, PaidRowsKept
<1>6. ASSUME NEW w \in Indexers, IndexerCommit(w) PROVE SpendLedger' /\ PaidRowsKept
  <2>1. indexers[w].bill \in Bills /\ indexers[w].text \in Texts
    BY <1>6 DEF IndexerCommit, SpendLedger, TypeOK
  <2>2. /\ LedgerOK(requests') /\ CallsRecorded'
        /\ \A i \in Requests :
             RowKept(requests[i], requests'[i]) /\ requests'[i].response = requests[i].response
    BY <1>4, <1>6, <2>1 DEF IndexerCommit, history
  <2>3. Referenced'
    BY <1>6, <2>2, QueueUnchanged DEF IndexerCommit, queue
  <2>4. TypeOK'
    BY <1>6, <2>1, <2>2 DEF IndexerCommit, SpendLedger, TypeOK, LedgerOK, queue, history
  <2>5. QED
    BY <2>2, <2>3, <2>4 DEF SpendLedger, PaidRowsKept
<1>7. ASSUME NEW w \in Indexers, IndexerFail(w) PROVE SpendLedger' /\ PaidRowsKept
  <2>1. Referenced' /\ LedgerOK(requests') /\ CallsRecorded' /\ PaidRowsKept
    BY <1>7, LedgerUnchanged, ReferencedKept DEF PaidRowsKept, IndexerFail, record, queue, history
  <2>2. TypeOK'
    BY <1>7 DEF IndexerFail, SpendLedger, TypeOK, record, queue, history
  <2>3. QED
    BY <2>1, <2>2 DEF SpendLedger, PaidRowsKept
<1>8. ASSUME NEW c \in Contexts, Deploy(c) PROVE SpendLedger' /\ PaidRowsKept
  <2>1. Referenced' /\ LedgerOK(requests') /\ CallsRecorded' /\ PaidRowsKept
    BY <1>8, LedgerUnchanged, ReferencedKept DEF PaidRowsKept, Deploy, queue, history
  <2>2. TypeOK'
    BY <1>8 DEF Deploy, SpendLedger, TypeOK, queue, history
  <2>3. QED
    BY <2>1, <2>2 DEF SpendLedger, PaidRowsKept
<1>9. CASE NewMonth
  <2>1. Referenced' /\ LedgerOK(requests') /\ CallsRecorded' /\ PaidRowsKept
    BY <1>9, LedgerUnchanged, ReferencedKept DEF PaidRowsKept, NewMonth, record, queue, history
  <2>2. TypeOK'
    BY <1>9 DEF NewMonth, SpendLedger, TypeOK, record, queue, history
  <2>3. QED
    BY <2>1, <2>2 DEF SpendLedger, PaidRowsKept
<1>10. QED
  BY <1>1, <1>2, <1>3, <1>5, <1>6, <1>7, <1>8, <1>9 DEF Records

\* Reading, deduplicating and inserting a ready request, or dying on the way
LEMMA EnqueueInductive ==
    ASSUME SpendLedger, NEW e \in Enqueuers, Enqueue(e) \/ EnqueueLost(e)
    PROVE  SpendLedger' /\ PaidRowsKept
<1> USE DomainAssumption
<1>1. requests' = requests /\ calls' = calls
  BY DEF Enqueue, EnqueueRead, EnqueueCheck, EnqueueInsert, EnqueueLost, record, history
<1>2. LedgerOK(requests') /\ CallsRecorded' /\ \A i \in Requests : RowKept(requests[i], requests'[i])
  BY <1>1, LedgerUnchanged
<1>3. CASE \E i \in Requests : EnqueueRead(e, i)
  <2>1. PICK i \in Requests : EnqueueRead(e, i)
    BY <1>3
  <2>2. enqueuers' = [enqueuers EXCEPT ![e] = [stage |-> "read", request |-> i]] /\ jobs' = jobs
        /\ requests[i].status = "ready"
    BY <2>1 DEF EnqueueRead
  <2>3. Referenced'
    BY <1>1, <2>2 DEF SpendLedger, TypeOK, Referenced
  <2>4. TypeOK'
    BY <2>1, <2>2 DEF EnqueueRead, SpendLedger, TypeOK, record, history
  <2>5. QED
    BY <1>2, <2>3, <2>4 DEF SpendLedger, PaidRowsKept
<1>4. CASE EnqueueCheck(e) \/ EnqueueLost(e)
  <2> DEFINE idle == [stage |-> "idle", request |-> None]
             checked == [enqueuers[e] EXCEPT !.stage = "checked"]
  <2>1. enqueuers[e] \in [stage : {"idle", "read", "checked"}, request : Requests \cup {None}]
    BY DEF SpendLedger, TypeOK
  <2>2. /\ jobs' = jobs /\ enqueuers[e].stage # "idle"
        /\ \/ enqueuers' = [enqueuers EXCEPT ![e] = idle]
           \/ enqueuers' = [enqueuers EXCEPT ![e] = checked]
    BY <1>4 DEF EnqueueCheck, EnqueueLost
  <2>3. /\ checked \in [stage : {"idle", "read", "checked"}, request : Requests \cup {None}]
        /\ checked.request = enqueuers[e].request
    BY <2>1
  <2>4. idle \in [stage : {"idle", "read", "checked"}, request : Requests \cup {None}]
    OBVIOUS
  <2>5. Referenced'
    BY <1>1, <2>2, <2>3 DEF SpendLedger, TypeOK, Referenced
  <2>6. enqueuers' \in [Enqueuers -> [stage : {"idle", "read", "checked"},
                                      request : Requests \cup {None}]]
    BY <2>2, <2>3, <2>4 DEF SpendLedger, TypeOK
  <2>7. TypeOK'
    BY <1>4, <2>6 DEF EnqueueCheck, EnqueueLost, SpendLedger, TypeOK, record, history
  <2>8. QED
    BY <1>2, <2>5, <2>7 DEF SpendLedger, PaidRowsKept
<1>5. CASE EnqueueInsert(e)
  <2>1. PICK j \in Jobs :
            jobs' = [jobs EXCEPT ![j] = [request |-> enqueuers[e].request, state |-> "available"]]
    BY <1>5 DEF EnqueueInsert
  <2>2. /\ enqueuers[e].request \in Requests
        /\ requests[enqueuers[e].request].status # "absent"
        /\ enqueuers' = [enqueuers EXCEPT ![e] = [stage |-> "idle", request |-> None]]
    BY <1>5 DEF EnqueueInsert, SpendLedger, Referenced
  <2>3. Referenced'
    BY <1>1, <2>1, <2>2 DEF SpendLedger, TypeOK, Referenced
  <2>4. TypeOK'
    BY <1>5, <2>1, <2>2 DEF EnqueueInsert, SpendLedger, TypeOK, record, history
  <2>5. QED
    BY <1>2, <2>3, <2>4 DEF SpendLedger, PaidRowsKept
<1>6. QED
  BY <1>3, <1>4, <1>5 DEF Enqueue

\* One row of the ledger changes
LEMMA OneRow ==
    ASSUME SpendLedger, NEW i \in Requests, NEW q, RowOK(q), requests[i].status # "absent",
           q.status # "absent",
           \A k \in Requests \ {i} : Identity(requests[k]) # Identity(q)
    PROVE  LedgerOK([requests EXCEPT ![i] = q])
<1> DEFINE R == [requests EXCEPT ![i] = q]
<1>1. R[i] = q /\ \A k \in Requests \ {i} : R[k] = requests[k]
  BY DEF SpendLedger, LedgerOK
<1>2. R \in [Requests -> Row] /\ \A k \in Requests : RowOK(R[k])
  BY <1>1 DEF SpendLedger, LedgerOK, RowOK
<1>3. UniqueIdentity(R)
  BY <1>1 DEF SpendLedger, LedgerOK, UniqueIdentity
<1>4. QED
  BY <1>2, <1>3 DEF LedgerOK

\* The row of a queued request keeps its place in the ledger
LEMMA SameIdentity ==
    ASSUME SpendLedger, NEW i \in Requests, requests[i].status # "absent",
           NEW q, Identity(q) = Identity(requests[i])
    PROVE  \A k \in Requests \ {i} : Identity(requests[k]) # Identity(q)
  BY DEF SpendLedger, LedgerOK, UniqueIdentity

\* Freeing a job while its request, if its answer changed, was claimed by that job
LEMMA JobFreed ==
    ASSUME SpendLedger, NEW j \in Jobs, JobDone(j), enqueuers' = enqueuers,
           \A i \in Requests :
              /\ RowKept(requests[i], requests'[i])
              /\ requests'[i].response = requests[i].response \/ requests[i].claimJob = j
    PROVE  /\ Referenced'
           /\ jobs' \in [Jobs -> [request : Requests \cup {None},
                                  state : {"free", "available", "calling",
                                           "orphaned", "discarded"}]]
<1>1. jobs' = [jobs EXCEPT ![j] = FreeJob]
  BY DEF JobDone
<1>2. jobs'[j].state = "free" /\ \A n \in Jobs \ {j} : jobs'[n] = jobs[n]
  BY <1>1 DEF SpendLedger, TypeOK, FreeJob
<1>3. ASSUME NEW n \in Jobs \ {j}, jobs[n].state = "calling"
      PROVE  requests'[jobs[n].request].response = requests[jobs[n].request].response
  BY <1>3 DEF SpendLedger, Referenced
<1>4. \A n \in Jobs : \/ jobs'[n].state = "free"
                      \/ jobs[n].state # "free" /\ jobs'[n] = jobs[n]
  BY <1>2
<1>5. Referenced'
  BY <1>2, <1>3, <1>4, ReferencedKept
<1>6. QED
  BY <1>1, <1>5 DEF SpendLedger, TypeOK, FreeJob

\* The outdated request of a claim is superseded and the saved text registered
LEMMA OutdatedInductive ==
    ASSUME SpendLedger, NEW j \in Jobs, NEW i \in Requests,
           ClaimOutdatedText(j, i) \/ ClaimOutdatedPrompt(j, i)
    PROVE  SpendLedger' /\ PaidRowsKept
<1> DEFINE q == [requests[i] EXCEPT !.status = "superseded", !.gated = FALSE]
           R == [requests EXCEPT ![i] = q]
           b == requests[i].bill
<1>1. requests[i].status # "absent" /\ requests[i] \in Row /\ RowOK(requests[i])
  <2>1. Runs(j, i)
    BY DEF ClaimOutdatedText, ClaimOutdatedPrompt
  <2>2. jobs[j].request = i /\ jobs[j].state = "available"
    BY <2>1 DEF Runs
  <2>3. QED
    BY <2>2 DEF SpendLedger, Referenced, LedgerOK
<1>2. b \in Bills /\ text[b] \in Texts \cup {None}
  BY <1>1 DEF SpendLedger, TypeOK, RowOK, Identity, Identities
<1>3. [requests EXCEPT ![i].status = "superseded", ![i].gated = FALSE] = R
  BY DEF SpendLedger, LedgerOK
<1>4. /\ Register(R, b, text[b], search[b]) /\ calls' = calls /\ JobDone(j)
      /\ enqueuers' = enqueuers
  BY <1>3 DEF ClaimOutdatedText, ClaimOutdatedPrompt, history
<1>5. /\ RowOK(q) /\ RowKept(requests[i], q) /\ q.response = requests[i].response
      /\ Identity(q) = Identity(requests[i]) /\ q.status # "absent"
  <2>1. q.status = "superseded"
    BY <1>1 DEF Row
  <2>2. QED
    BY <1>1, <2>1, SupersedeRow
<1>6. LedgerOK(R)
  BY <1>1, <1>5, OneRow, SameIdentity
<1>7. \A k \in Requests : RowKept(requests[k], R[k]) /\ R[k].response = requests[k].response
  BY <1>5 DEF SpendLedger, LedgerOK, RowOK, RowKept
<1>8. /\ LedgerOK(requests') /\ CallsRecorded'
      /\ \A k \in Requests :
           RowKept(requests[k], requests'[k]) /\ requests'[k].response = requests[k].response
      /\ summary' \in [Bills -> (Texts \X Contexts) \cup {None}]
  BY <1>2, <1>4, <1>6, <1>7, RegisterStep
<1>9. /\ Referenced'
      /\ jobs' \in [Jobs -> [request : Requests \cup {None},
                             state : {"free", "available", "calling",
                                      "orphaned", "discarded"}]]
  BY <1>4, <1>8, JobFreed
<1>10. TypeOK'
  BY <1>8, <1>9 DEF ClaimOutdatedText, ClaimOutdatedPrompt, SpendLedger, TypeOK, LedgerOK,
                    history
<1>11. QED
  BY <1>8, <1>9, <1>10 DEF SpendLedger, PaidRowsKept

\* Claims that leave the ledger alone
LEMMA IdleClaimInductive ==
    ASSUME SpendLedger, NEW j \in Jobs,
           \/ ClaimGateClosed(j)
           \/ \E i \in Requests : ClaimForeign(j, i) \/ ClaimNotReady(j, i) \/ ClaimRaises(j, i)
    PROVE  SpendLedger' /\ PaidRowsKept
<1>1. requests' = requests /\ calls' = calls /\ enqueuers' = enqueuers
  BY DEF ClaimGateClosed, ClaimForeign, ClaimNotReady, ClaimRaises, record, history
<1>2. LedgerOK(requests') /\ CallsRecorded' /\ \A k \in Requests : RowKept(requests[k], requests'[k])
  BY <1>1, LedgerUnchanged
<1>3. CASE JobDone(j)
  <2>1. /\ Referenced'
        /\ jobs' \in [Jobs -> [request : Requests \cup {None},
                               state : {"free", "available", "calling",
                                        "orphaned", "discarded"}]]
    BY <1>1, <1>2, <1>3, JobFreed
  <2>2. TypeOK'
    BY <2>1 DEF ClaimGateClosed, ClaimForeign, ClaimNotReady, ClaimRaises, SpendLedger,
                TypeOK, record, history
  <2>3. QED
    BY <1>2, <2>1, <2>2 DEF SpendLedger, PaidRowsKept
<1>4. ASSUME NEW i \in Requests, ClaimRaises(j, i) PROVE SpendLedger' /\ PaidRowsKept
  <2>1. jobs' = [jobs EXCEPT ![j] = [jobs[j] EXCEPT !.state = "discarded"]]
    BY <1>4 DEF ClaimRaises, SpendLedger, TypeOK
  <2>2. /\ jobs[j].state # "free" /\ jobs'[j].request = jobs[j].request
        /\ jobs'[j].state = "discarded"
    BY <1>4, <2>1 DEF ClaimRaises, Claimable, Runs, SpendLedger, TypeOK
  <2>3. \A n \in Jobs \ {j} : jobs'[n] = jobs[n]
    BY <2>1 DEF SpendLedger, TypeOK
  <2>4. Referenced'
    BY <1>1, <1>2, <2>2, <2>3, ReferencedKept
  <2>5. TypeOK'
    BY <1>4, <2>1 DEF ClaimRaises, SpendLedger, TypeOK, record, history
  <2>6. QED
    BY <1>2, <2>4, <2>5 DEF SpendLedger, PaidRowsKept
<1>5. QED
  BY <1>3, <1>4 DEF ClaimGateClosed, ClaimForeign, ClaimNotReady

\* A step of job j that changes only its own row, starts no call and frees the job
LEMMA OwnRowStep ==
    ASSUME SpendLedger, NEW j \in Jobs, NEW i \in Requests, NEW q,
           requests[i].status # "absent", RowOK(q), RowKept(requests[i], q),
           \A k \in Requests \ {i} : Identity(requests[k]) # Identity(q),
           q.response = requests[i].response \/ requests[i].claimJob = j,
           requests' = [requests EXCEPT ![i] = q], calls' = calls, JobDone(j),
           enqueuers' = enqueuers
    PROVE  /\ LedgerOK(requests') /\ CallsRecorded' /\ Referenced' /\ PaidRowsKept
           /\ jobs' \in [Jobs -> [request : Requests \cup {None},
                                  state : {"free", "available", "calling",
                                           "orphaned", "discarded"}]]
<1>1. LedgerOK(requests')
  BY OneRow DEF RowKept
<1>2. \A k \in Requests :
         /\ RowKept(requests[k], requests'[k])
         /\ requests'[k].response = requests[k].response \/ requests[k].claimJob = j
  <2>1. requests'[i] = q /\ \A k \in Requests \ {i} : requests'[k] = requests[k]
    BY DEF SpendLedger, LedgerOK
  <2>2. \A k \in Requests : RowKept(requests[k], requests[k])
    BY DEF SpendLedger, LedgerOK, RowOK, RowKept
  <2>3. QED
    BY <2>1, <2>2
<1>3. QED
  BY <1>1, <1>2, CallsKept, JobFreed DEF PaidRowsKept

\* The queued request of a claim is a row of the ledger
LEMMA RunsRow ==
    ASSUME SpendLedger, NEW j \in Jobs, NEW i \in Requests, Runs(j, i)
    PROVE  requests[i].status # "absent" /\ requests[i] \in Row /\ RowOK(requests[i])
<1>1. jobs[j].request = i /\ jobs[j].state = "available"
  BY DEF Runs
<1>2. QED
  BY <1>1 DEF SpendLedger, Referenced, LedgerOK

\* The same job finds its own abandoned call
LEMMA AbandonedInductive ==
    ASSUME SpendLedger, NEW j \in Jobs, NEW i \in Requests, ClaimAbandoned(j, i)
    PROVE  SpendLedger' /\ PaidRowsKept
<1> DEFINE q == [requests[i] EXCEPT !.status = "ambiguous", !.gated = FALSE]
<1>1. /\ Runs(j, i) /\ Claimed(i) /\ calls' = calls /\ JobDone(j) /\ enqueuers' = enqueuers
      /\ requests' = [requests EXCEPT ![i].status = "ambiguous", ![i].gated = FALSE]
  BY DEF ClaimAbandoned, history
<1>2. requests[i].status # "absent" /\ requests[i] \in Row /\ RowOK(requests[i])
  BY <1>1, RunsRow
<1>3. requests' = [requests EXCEPT ![i] = q]
  BY <1>1 DEF SpendLedger, LedgerOK
<1>4. /\ RowOK(q) /\ RowKept(requests[i], q) /\ q.response = requests[i].response
      /\ Identity(q) = Identity(requests[i])
  BY <1>1, <1>2 DEF Claimed, RowOK, RowKept, Row, Identity, Started, Statuses, Active,
                    Identities
<1>5. /\ LedgerOK(requests') /\ CallsRecorded' /\ Referenced' /\ PaidRowsKept
      /\ jobs' \in [Jobs -> [request : Requests \cup {None},
                             state : {"free", "available", "calling",
                                      "orphaned", "discarded"}]]
  BY <1>1, <1>2, <1>3, <1>4, SameIdentity, OwnRowStep
<1>6. TypeOK'
  BY <1>5 DEF ClaimAbandoned, SpendLedger, TypeOK, LedgerOK, history
<1>7. QED
  BY <1>5, <1>6 DEF SpendLedger, PaidRowsKept

\* A ready request takes the deployed context without being paid for
LEMMA UnpaidInductive ==
    ASSUME SpendLedger, NEW j \in Jobs, NEW i \in Requests,
           ClaimRefused(j, i) \/ ClaimCapped(j, i)
    PROVE  SpendLedger' /\ PaidRowsKept
<1> DEFINE q == IF ClaimRefused(j, i)
                THEN [requests[i] EXCEPT !.context = context, !.status = "failed", !.gated = TRUE]
                ELSE [requests[i] EXCEPT !.context = context]
<1>1. /\ Runs(j, i) /\ requests[i].status = "ready" /\ ~RekeyConflict(i)
      /\ calls' = calls /\ JobDone(j) /\ enqueuers' = enqueuers
  BY DEF ClaimRefused, ClaimCapped, Claimable, history
<1>2. requests[i].status # "absent" /\ requests[i] \in Row /\ RowOK(requests[i])
  BY <1>1, RunsRow
<1>3. requests' = [requests EXCEPT ![i] = q]
  BY DEF ClaimRefused, ClaimCapped, SpendLedger, LedgerOK
<1>4. context \in Contexts
  BY DEF SpendLedger, TypeOK
<1>5. /\ RowOK(q) /\ RowKept(requests[i], q) /\ q.response = requests[i].response
      /\ Identity(q) = Rekeyed(i)
  <2>1. CASE ClaimRefused(j, i)
    <3>1. q = [requests[i] EXCEPT !.context = context, !.status = "failed", !.gated = TRUE]
      BY <2>1
    <3>2. QED
      BY <1>1, <1>2, <1>4, <3>1 DEF RowOK, RowKept, Row, Identity, Rekeyed, Started,
                                   Statuses, Active, Identities
  <2>2. CASE ~ClaimRefused(j, i)
    <3>1. q = [requests[i] EXCEPT !.context = context]
      BY <2>2
    <3>2. QED
      BY <1>1, <1>2, <1>4, <3>1 DEF RowOK, RowKept, Row, Identity, Rekeyed, Started,
                                   Statuses, Active, Identities
  <2>3. QED
    BY <2>1, <2>2
<1>6. \A k \in Requests \ {i} : Identity(requests[k]) # Identity(q)
  BY <1>1, <1>5 DEF RekeyConflict
<1>7. /\ LedgerOK(requests') /\ CallsRecorded' /\ Referenced' /\ PaidRowsKept
      /\ jobs' \in [Jobs -> [request : Requests \cup {None},
                             state : {"free", "available", "calling",
                                      "orphaned", "discarded"}]]
  BY <1>1, <1>2, <1>3, <1>5, <1>6, OwnRowStep
<1>8. TypeOK'
  BY <1>7 DEF ClaimRefused, ClaimCapped, SpendLedger, TypeOK, LedgerOK, history
<1>9. QED
  BY <1>7, <1>8 DEF SpendLedger, PaidRowsKept

\* The paid claim: no started row holds the identity the call is made for
LEMMA PaidInductive ==
    ASSUME SpendLedger, NEW j \in Jobs, NEW i \in Requests, ClaimPaid(j, i)
    PROVE  SpendLedger' /\ PaidRowsKept
<1> USE LimitsAssumption, DomainAssumption
<1> DEFINE r == requests[i]
           q == [r EXCEPT !.context = context, !.status = "processing", !.startedIn = month,
                          !.claimJob = j, !.reserved = Reservation, !.actual = None,
                          !.gated = FALSE]
<1>1. /\ Runs(j, i) /\ r.status = "ready" /\ ~RekeyConflict(i)
      /\ calls' = [calls EXCEPT ![Rekeyed(i)] = @ + 1] /\ enqueuers' = enqueuers
      /\ jobs' = [jobs EXCEPT ![j].state = "calling"]
      /\ requests' = [requests EXCEPT ![i] = q]
  BY DEF ClaimPaid, Claimable
<1>2. r.status # "absent" /\ r \in Row /\ RowOK(r)
  BY <1>1, RunsRow
<1>3. context \in Contexts /\ month \in 1 .. LastMonth
  BY DEF SpendLedger, TypeOK
<1>4. /\ q.bill = r.bill /\ q.text = r.text /\ q.context = context
      /\ q.status = "processing" /\ q.startedIn = month /\ q.claimJob = j
      /\ q.response = r.response /\ q \in Row
  <2>1. /\ q.bill = r.bill /\ q.text = r.text /\ q.context = context
        /\ q.status = "processing" /\ q.startedIn = month /\ q.claimJob = j
        /\ q.response = r.response
    BY <1>2 DEF Row
  <2>2. /\ month \in 0 .. LastMonth /\ "processing" \in Statuses
        /\ context \in Contexts \cup {None} /\ j \in Jobs \cup {None}
        /\ Reservation \in {0, Reservation} /\ None \in ActualCosts \cup {None}
    BY <1>3 DEF Statuses, Active
  <2>3. q \in Row
    <3> HIDE LimitsAssumption, DomainAssumption
    <3>1. QED
      BY <1>2, <2>2 DEF Row
  <2>4. QED
    BY <2>1, <2>3
<1>5. Identity(q) = Rekeyed(i) /\ Started(q) /\ ~Started(r) /\ r.response = "none"
  BY <1>1, <1>2, <1>3, <1>4 DEF Identity, Rekeyed, Started, RowOK
<1>6. Rekeyed(i) \in Identities
  BY <1>2, <1>3 DEF RowOK, Identity, Identities, Rekeyed
<1>7. RowOK(q)
  BY <1>4, <1>5, <1>6 DEF RowOK
<1>8. \A k \in Requests \ {i} : Identity(requests[k]) # Rekeyed(i)
  BY <1>1 DEF RekeyConflict
<1>9. LedgerOK(requests')
  BY <1>1, <1>2, <1>4, <1>5, <1>7, <1>8, OneRow
<1>10. requests'[i] = q /\ \A k \in Requests \ {i} : requests'[k] = requests[k]
  BY <1>1 DEF SpendLedger, LedgerOK
<1>11. CallsRecorded'
  <2> SUFFICES ASSUME NEW k \in Identities
               PROVE  calls'[k] = IF \E n \in Requests :
                                        Started(requests'[n]) /\ Identity(requests'[n]) = k
                                  THEN 1 ELSE 0
    BY DEF CallsRecorded
  <2>1. CASE k = Rekeyed(i)
    <3>1. ~\E n \in Requests : Started(requests[n]) /\ Identity(requests[n]) = k
      BY <1>5, <1>8, <2>1
    <3>2. calls[k] = 0
      BY <3>1 DEF SpendLedger, CallsRecorded
    <3>3. calls'[k] = 1
      BY <1>1, <1>6, <2>1, <3>2 DEF SpendLedger, TypeOK
    <3>4. QED
      BY <1>5, <1>10, <2>1, <3>3
  <2>2. CASE k # Rekeyed(i)
    <3>1. calls'[k] = calls[k]
      BY <1>1, <2>2 DEF SpendLedger, TypeOK
    <3>2. \A n \in Requests :
             (Started(requests'[n]) /\ Identity(requests'[n]) = k)
               <=> (Started(requests[n]) /\ Identity(requests[n]) = k)
      BY <1>5, <1>10, <2>2
    <3>3. QED
      BY <3>1, <3>2 DEF SpendLedger, CallsRecorded
  <2>3. QED
    BY <2>1, <2>2
<1>12. Referenced'
  <2>1. jobs[j] = [request |-> i, state |-> "available"]
    BY <1>1 DEF Runs
  <2>2. jobs'[j].request = i /\ jobs'[j].state = "calling"
        /\ \A n \in Jobs \ {j} : jobs'[n] = jobs[n]
    BY <1>1, <2>1 DEF SpendLedger, TypeOK
  <2>3. \A k \in Requests : requests[k].status # "absent" => requests'[k].status # "absent"
    BY <1>4, <1>10
  <2>4. \A n \in Jobs \ {j} : jobs[n].state = "calling" => jobs[n].request # i
    BY <1>5 DEF SpendLedger, Referenced
  <2>5. ASSUME NEW n \in Jobs, jobs'[n].state # "free"
        PROVE  /\ jobs'[n].request \in Requests
               /\ requests'[jobs'[n].request].status # "absent"
               /\ jobs'[n].state = "calling" =>
                    /\ Started(requests'[jobs'[n].request])
                    /\ requests'[jobs'[n].request].claimJob = n
                    /\ requests'[jobs'[n].request].response = "none"
    <3>1. CASE n = j
      BY <1>4, <1>5, <1>10, <2>2, <3>1
    <3>2. CASE n # j
      BY <1>10, <2>2, <2>3, <2>4, <2>5, <3>2 DEF SpendLedger, Referenced
    <3>3. QED
      BY <3>1, <3>2
  <2>6. QED
    BY <1>1, <2>3, <2>5 DEF SpendLedger, Referenced
<1>13. TypeOK'
  <2>1. jobs' \in [Jobs -> [request : Requests \cup {None},
                            state : {"free", "available", "calling",
                                     "orphaned", "discarded"}]]
    BY <1>1 DEF SpendLedger, TypeOK
  <2>2. calls' \in [Identities -> Nat]
    BY <1>1, <1>6 DEF SpendLedger, TypeOK
  <2>3. requests' \in [Requests -> Row]
    BY <1>9 DEF LedgerOK
  <2>4. exposure' \in [Requests -> 0 .. Reservation]
    BY DEF ClaimPaid, SpendLedger, TypeOK
  <2>5. QED
    BY <2>1, <2>2, <2>3, <2>4 DEF ClaimPaid, SpendLedger, TypeOK
<1>14. PaidRowsKept
  BY <1>5, <1>10 DEF SpendLedger, LedgerOK, RowOK, RowKept, PaidRowsKept
<1>15. QED
  BY <1>9, <1>11, <1>12, <1>13, <1>14 DEF SpendLedger

\* Every way a job can start
LEMMA ClaimInductive ==
    ASSUME SpendLedger, NEW j \in Jobs, Claim(j) PROVE SpendLedger' /\ PaidRowsKept
<1>1. CASE ClaimGateClosed(j)
  BY <1>1, IdleClaimInductive
<1>2. CASE ~ClaimGateClosed(j)
  <2>1. PICK i \in Requests :
            \/ ClaimOutdatedText(j, i) \/ ClaimOutdatedPrompt(j, i) \/ ClaimForeign(j, i)
            \/ ClaimAbandoned(j, i) \/ ClaimNotReady(j, i) \/ ClaimRaises(j, i)
            \/ ClaimRefused(j, i) \/ ClaimCapped(j, i) \/ ClaimPaid(j, i)
    BY <1>2 DEF Claim
  <2>2. QED
    BY <2>1, OutdatedInductive, IdleClaimInductive, AbandonedInductive, UnpaidInductive,
       PaidInductive
<1>3. QED
  BY <1>1, <1>2

\* The request of a running call: paid for by this job and still without an answer
LEMMA CallingRow ==
    ASSUME SpendLedger, NEW j \in Jobs, NEW i \in Requests, Calls(j, i)
    PROVE  /\ requests[i].status # "absent" /\ requests[i] \in Row /\ RowOK(requests[i])
           /\ Started(requests[i]) /\ requests[i].claimJob = j
           /\ requests[i].response = "none" /\ requests[i].status # "completed"
           /\ requests[i].status \notin {"waiting_for_search", "ready"}
           /\ requests[i].bill \in Bills /\ requests[i].text \in Texts
           /\ requests[i].context \in Contexts
<1>1. jobs[j].request = i /\ jobs[j].state = "calling"
  BY DEF Calls
<1>2. /\ requests[i].status # "absent" /\ requests[i] \in Row /\ RowOK(requests[i])
      /\ Started(requests[i]) /\ requests[i].claimJob = j /\ requests[i].response = "none"
  BY <1>1 DEF SpendLedger, Referenced, LedgerOK
<1>3. QED
  BY <1>2 DEF RowOK, Identity, Identities

\* Storing an answer in the row keeps what the row was paid for
LEMMA AnsweredRow ==
    ASSUME NEW r \in Row, RowOK(r), Started(r), r.status # "absent",
           NEW status \in {"completed", "failed", "ambiguous", "superseded"},
           NEW response \in Responses \ {"none"}, NEW cost \in ActualCosts \cup {None},
           status = "completed" => response = "citable"
    PROVE  LET q == Answered(r, status, response, cost)
           IN  /\ RowOK(q) /\ RowKept(r, q) /\ Identity(q) = Identity(r)
               /\ q.status = status /\ q.response = response
  BY ZenonT(60) DEF Answered, RowOK, RowKept, Row, Identity, Started, Statuses, Active, Identities,
         Responses

\* What the provider may have charged never exceeds the reservation
LEMMA ChargedBounded ==
    ASSUME NEW cost \in ActualCosts \cup {None}
    PROVE  Charged(cost) \in 0 .. Reservation
  BY LimitsAssumption DEF Charged

\* The answer arrives while its request is current
LEMMA CurrentInductive ==
    ASSUME SpendLedger, NEW j \in Jobs, NEW i \in Requests,
           NEW response \in Responses \ {"none"}, NEW cost \in ActualCosts \cup {None},
           FinishCurrent(j, i, response, cost)
    PROVE  SpendLedger' /\ PaidRowsKept
<1> USE LimitsAssumption, DomainAssumption
<1> DEFINE status == IF response = "citable" THEN "completed" ELSE "failed"
           q == Answered(requests[i], status, response, cost)
<1>1. /\ requests' = [requests EXCEPT ![i] = q] /\ calls' = calls /\ JobDone(j)
      /\ enqueuers' = enqueuers /\ Calls(j, i)
  BY DEF FinishCurrent
<1>2. /\ requests[i].status # "absent" /\ requests[i] \in Row /\ RowOK(requests[i])
      /\ Started(requests[i]) /\ requests[i].claimJob = j
      /\ requests[i].text \in Texts /\ requests[i].context \in Contexts
  BY <1>1, CallingRow
<1>3. RowOK(q) /\ RowKept(requests[i], q) /\ Identity(q) = Identity(requests[i])
  BY <1>2, AnsweredRow
<1>4. /\ LedgerOK(requests') /\ CallsRecorded' /\ Referenced' /\ PaidRowsKept
      /\ jobs' \in [Jobs -> [request : Requests \cup {None},
                             state : {"free", "available", "calling",
                                      "orphaned", "discarded"}]]
  BY <1>1, <1>2, <1>3, SameIdentity, OwnRowStep
<1>5. TypeOK'
  <2>1. summary' \in [Bills -> (Texts \X Contexts) \cup {None}]
    BY <1>2 DEF FinishCurrent, SpendLedger, TypeOK
  <2>2. exposure' \in [Requests -> 0 .. Reservation]
    BY ChargedBounded DEF FinishCurrent, SpendLedger, TypeOK
  <2>3. QED
    BY <1>4, <2>1, <2>2 DEF FinishCurrent, SpendLedger, TypeOK, LedgerOK
<1>6. QED
  BY <1>4, <1>5 DEF SpendLedger, PaidRowsKept

\* The answer arrives too late
LEMMA OutdatedAnswerInductive ==
    ASSUME SpendLedger, NEW j \in Jobs, NEW i \in Requests,
           NEW response \in Responses \ {"none"}, NEW cost \in ActualCosts \cup {None},
           FinishOutdated(j, i, response, cost)
    PROVE  SpendLedger' /\ PaidRowsKept
<1> USE LimitsAssumption, DomainAssumption
<1> DEFINE r == requests[i]
           status == IF r.status = "processing" THEN "superseded" ELSE r.status
           q == Answered(r, status, response, cost)
           R == [requests EXCEPT ![i] = q]
<1>1. /\ calls' = calls /\ JobDone(j) /\ enqueuers' = enqueuers /\ Calls(j, i)
      /\ \/ requests' = R /\ summary' = summary
         \/ Register(R, r.bill, text[r.bill], search[r.bill])
  BY DEF FinishOutdated
<1>2. /\ r.status # "absent" /\ r \in Row /\ RowOK(r) /\ Started(r) /\ r.claimJob = j
      /\ r.status # "completed" /\ r.status \notin {"waiting_for_search", "ready"}
      /\ r.bill \in Bills
  BY <1>1, CallingRow
<1>3. status \in {"completed", "failed", "ambiguous", "superseded"} /\ status # "completed"
  BY <1>2 DEF Row, Statuses, Active
<1>4. /\ RowOK(q) /\ RowKept(r, q) /\ Identity(q) = Identity(r)
      /\ q.status # "absent"
  <2> HIDE DEF r, status
  <2>1. status = "completed" => response = "citable"
    BY <1>3
  <2>2. /\ RowOK(q) /\ RowKept(r, q) /\ Identity(q) = Identity(r)
        /\ q.status = status
    BY <1>2, <1>3, <2>1, AnsweredRow, SMTT(20)
  <2>3. QED
    BY <1>3, <2>2
<1>5. LedgerOK(R)
  BY <1>2, <1>4, OneRow, SameIdentity
<1>6. R[i] = q /\ \A k \in Requests \ {i} : R[k] = requests[k]
  BY DEF SpendLedger, LedgerOK
<1>7. \A k \in Requests : RowKept(requests[k], R[k])
  <2>1. \A k \in Requests : RowKept(requests[k], requests[k])
    BY DEF SpendLedger, LedgerOK, RowOK, RowKept
  <2>2. QED
    BY <1>4, <1>6, <2>1
<1>8. /\ LedgerOK(requests') /\ CallsRecorded'
      /\ \A k \in Requests :
           RowKept(requests[k], requests'[k]) /\ requests'[k].response = R[k].response
      /\ summary' \in [Bills -> (Texts \X Contexts) \cup {None}]
  <2>1. CASE requests' = R /\ summary' = summary
    BY <1>1, <1>5, <1>7, <2>1, CallsKept DEF SpendLedger, TypeOK
  <2>2. CASE Register(R, r.bill, text[r.bill], search[r.bill])
    <3>1. text[r.bill] \in Texts \cup {None}
      BY <1>2 DEF SpendLedger, TypeOK
    <3>2. QED
      BY <1>1, <1>2, <1>5, <1>7, <2>2, <3>1, RegisterStep
  <2>3. QED
    BY <1>1, <2>1, <2>2
<1>9. /\ Referenced'
      /\ jobs' \in [Jobs -> [request : Requests \cup {None},
                             state : {"free", "available", "calling",
                                      "orphaned", "discarded"}]]
  BY <1>1, <1>2, <1>6, <1>8, JobFreed
<1>10. TypeOK'
  <2>1. exposure' \in [Requests -> 0 .. Reservation]
    BY ChargedBounded DEF FinishOutdated, SpendLedger, TypeOK
  <2>2. QED
    BY <1>8, <1>9, <2>1 DEF FinishOutdated, SpendLedger, TypeOK, LedgerOK
<1>11. QED
  BY <1>8, <1>9, <1>10 DEF SpendLedger, PaidRowsKept

\* The call raises
LEMMA ErrorInductive ==
    ASSUME SpendLedger, NEW j \in Jobs, NEW i \in Requests, NEW ambiguous \in BOOLEAN,
           FinishError(j, i, ambiguous)
    PROVE  SpendLedger' /\ PaidRowsKept
<1> DEFINE r == requests[i]
           status == IF r.status # "processing" THEN r.status
                     ELSE IF ambiguous THEN "ambiguous" ELSE "failed"
           q == [r EXCEPT !.status = status]
<1>1. /\ calls' = calls /\ JobDone(j) /\ enqueuers' = enqueuers /\ Calls(j, i)
      /\ requests' = [requests EXCEPT ![i] = q]
  BY DEF FinishError, SpendLedger, LedgerOK
<1>2. /\ r.status # "absent" /\ r \in Row /\ RowOK(r) /\ Started(r) /\ r.claimJob = j
      /\ r.status # "completed" /\ r.status \notin {"waiting_for_search", "ready"}
  BY <1>1, CallingRow
<1>3. status \in {"failed", "ambiguous", "superseded"}
  BY <1>2 DEF Row, Statuses, Active
<1>4. /\ RowOK(q) /\ RowKept(r, q) /\ Identity(q) = Identity(r) /\ q.response = r.response
  BY <1>2, <1>3 DEF RowOK, RowKept, Row, Identity, Started, Statuses, Active, Identities
<1>5. /\ LedgerOK(requests') /\ CallsRecorded' /\ Referenced' /\ PaidRowsKept
      /\ jobs' \in [Jobs -> [request : Requests \cup {None},
                             state : {"free", "available", "calling",
                                      "orphaned", "discarded"}]]
  BY <1>1, <1>2, <1>4, SameIdentity, OwnRowStep
<1>6. TypeOK'
  BY <1>5 DEF FinishError, SpendLedger, TypeOK, LedgerOK
<1>7. QED
  BY <1>5, <1>6 DEF SpendLedger, PaidRowsKept

\* Deaths, rescues and retries of a job
LEMMA RestartInductive ==
    ASSUME SpendLedger, NEW j \in Jobs, Crash(j) \/ Rescue(j) \/ RecoveredRetry(j)
    PROVE  SpendLedger' /\ PaidRowsKept
<1>1. /\ requests' = requests /\ calls' = calls /\ enqueuers' = enqueuers
      /\ jobs[j].state \in {"calling", "orphaned", "discarded"}
  BY DEF Crash, Rescue, RecoveredRetry, record, history
<1>2. PICK state \in {"orphaned", "discarded", "available"} :
            jobs' = [jobs EXCEPT ![j].state = state]
  BY DEF Crash, Rescue, RecoveredRetry
<1>3. /\ jobs' \in [Jobs -> [request : Requests \cup {None},
                             state : {"free", "available", "calling",
                                      "orphaned", "discarded"}]]
      /\ jobs'[j].request = jobs[j].request /\ jobs'[j].state = state
      /\ \A n \in Jobs \ {j} : jobs'[n] = jobs[n]
  BY <1>2 DEF SpendLedger, TypeOK
<1>4. LedgerOK(requests') /\ CallsRecorded' /\ \A k \in Requests : RowKept(requests[k], requests'[k])
  BY <1>1, LedgerUnchanged
<1>5. Referenced'
  BY <1>1, <1>3, <1>4, ReferencedKept
<1>6. TypeOK'
  BY <1>3 DEF Crash, Rescue, RecoveredRetry, SpendLedger, TypeOK, record, history
<1>7. QED
  BY <1>4, <1>5, <1>6 DEF SpendLedger, PaidRowsKept

\* Every step keeps the ledger, and leaves the rows that were paid for
LEMMA LedgerInductive == SpendLedger /\ [Next]_vars => SpendLedger' /\ PaidRowsKept
<1> SUFFICES ASSUME SpendLedger, [Next]_vars PROVE SpendLedger' /\ PaidRowsKept
  OBVIOUS
<1>1. CASE Records
  BY <1>1, RecordsInductive
<1>2. ASSUME NEW e \in Enqueuers, Enqueue(e) \/ EnqueueLost(e)
      PROVE  SpendLedger' /\ PaidRowsKept
  BY <1>2, EnqueueInductive
<1>3. ASSUME NEW j \in Jobs, Claim(j) PROVE SpendLedger' /\ PaidRowsKept
  BY <1>3, ClaimInductive
<1>4. ASSUME NEW j \in Jobs, Finish(j) PROVE SpendLedger' /\ PaidRowsKept
  BY <1>4, CurrentInductive, OutdatedAnswerInductive, ErrorInductive DEF Finish
<1>5. ASSUME NEW j \in Jobs, Crash(j) \/ Rescue(j) \/ RecoveredRetry(j)
      PROVE  SpendLedger' /\ PaidRowsKept
  BY <1>5, RestartInductive
<1>6. CASE UNCHANGED vars
  <2>1. PaidRowsKept
    BY <1>6, LedgerUnchanged DEF vars, PaidRowsKept
  <2>2. SpendLedger'
    BY <1>6 DEF vars, SpendLedger, TypeOK, LedgerOK, UniqueIdentity, Referenced, CallsRecorded
  <2>3. QED
    BY <2>1, <2>2
<1>7. QED
  BY <1>1, <1>2, <1>3, <1>4, <1>5, <1>6 DEF Next, Runner

----------------------------------------------------------------------------
(* Theorems *)

\* The ledger accounts for every provider call in every reachable state
THEOREM LedgerInvariant == Spec => []SpendLedger
<1>1. QED
  BY LedgerInit, LedgerInductive, PTL DEF Spec

\* Every variable always has its type
THEOREM TypeCorrect == Spec => []TypeOK
<1>1. SpendLedger => TypeOK
  BY DEF SpendLedger
<1>2. QED
  BY <1>1, LedgerInvariant, PTL

\* The provider is never called twice for the same text under the same prompt
THEOREM PaidOncePerContext == Spec => []OnePaidCallPerContext
<1>1. SpendLedger => OnePaidCallPerContext
  BY DEF SpendLedger, CallsRecorded, OnePaidCallPerContext
<1>2. QED
  BY <1>1, LedgerInvariant, PTL

\* A request that was paid for never runs again and never stands for anything else
THEOREM SpentIsFinal == Spec => SpentRequestIsFinal
<1>1. SpendLedger /\ [Next]_vars =>
        [\A i \in Requests : Started(requests[i]) =>
            /\ Identity(requests'[i]) = Identity(requests[i])
            /\ requests'[i].startedIn = requests[i].startedIn
            /\ requests'[i].status \notin {"waiting_for_search", "ready"}
            /\ requests'[i].status = "processing" => requests[i].status = "processing"]_vars
  BY LedgerInductive DEF PaidRowsKept, RowKept
<1>2. QED
  BY <1>1, LedgerInvariant, PTL DEF Spec, SpentRequestIsFinal

----------------------------------------------------------------------------
(* What registration does to each row and to the displayed summary *)

\* Statuses that take up a failure slot
Failing == {"failed", "ambiguous", "processing"}

\* A row is r before a registration for text t of bill b, with search rows for s, and q
\* after it: costs and answers stay, no row starts to fail, a completed one stays so
Registered(r, q, b, t, s) ==
    /\ q.reserved = r.reserved /\ q.actual = r.actual /\ q.response = r.response
    /\ q.startedIn = r.startedIn
    /\ r.status # "absent" => q.status # "absent" /\ Identity(q) = Identity(r)
    /\ q.status \in Failing => q.status = r.status
    /\ r.status = "completed" => q.status = "completed"
    /\ r.status = "superseded" /\ Started(r) => q.status \in {"completed", "superseded"}
    /\ Started(r) /\ r.response = "none" /\ r.status \in {"processing", "superseded"}
            => q.status \in {"processing", "superseded"}
    /\ q.status = "ready" => r.status = "ready" \/ (q.bill = b /\ q.text = s)
    /\ q.status \in Active /\ r.status \notin Active => q.bill = b

\* Superseding is the first part of that
LEMMA SupersededRow ==
    ASSUME NEW R, LedgerOK(R), NEW b \in Bills, NEW t \in Texts \cup {None}, NEW s,
           NEW i \in Requests
    PROVE  Registered(R[i], SupersedeOthers(R, b, t)[i], b, t, s)
<1> DEFINE r == R[i]
           q == SupersedeOthers(R, b, t)[i]
<1>1. r \in Row
  BY DEF LedgerOK
<1>2. CASE q = r
  BY <1>2 DEF Registered, Failing
<1>3. CASE q = [r EXCEPT !.status = "superseded", !.gated = FALSE] /\ r.status \in Active
  BY <1>1, <1>3 DEF Registered, Failing, Active, Row, Identity
<1> QED
  BY <1>2, <1>3 DEF SupersedeOthers

\* Reviving and promoting the row of the exact saved context is the second
LEMMA RevivedRowRegistered ==
    ASSUME NEW r \in Row, RowOK(r), NEW b \in Bills, NEW t \in Texts, NEW s,
           context \in Contexts,
           r.status = "absent" \/ Identity(r) = <<b, t, context>>
    PROVE  Registered(r, Promoted(Revived(r, b, t), s), b, t, s)
<1> DEFINE p == Revived(r, b, t)
           q == Promoted(p, s)
<1>1. Identity(q) = <<b, t, context>> /\ q.response = r.response /\ q.startedIn = r.startedIn
  BY RevivedRow DEF RowKept
<1>2. /\ p.reserved = r.reserved /\ p.actual = r.actual
      /\ \/ p.status = "waiting_for_search" /\ r.status # "completed"
            /\ ~Started(r) /\ r.status # "processing"
         \/ p = r
         \/ /\ p.status = "completed" /\ r.status \in {"completed", "superseded"}
            /\ r.response = "citable"
  <2>1. CASE r.status = "absent"
    <3>1. p = WaitingRow(b, t) /\ r = NoRow
      BY <2>1 DEF Revived, Reopenable, Reusable, RowOK
    <3> QED
      BY <3>1 DEF WaitingRow, NoRow, Started
  <2>2. CASE r.status # "absent" /\ Reopenable(r)
    <3>1. p = [r EXCEPT !.status = "waiting_for_search", !.gated = FALSE]
      BY <2>2 DEF Revived, Reopenable, Reusable
    <3> QED
      BY <2>2, <3>1 DEF Reopenable, Row
  <2>3. CASE r.status # "absent" /\ ~Reopenable(r) /\ Reusable(r)
    <3>1. p = [r EXCEPT !.status = "completed", !.gated = FALSE]
      BY <2>3 DEF Revived
    <3> QED
      BY <2>3, <3>1 DEF Reusable, Row
  <2>4. CASE r.status # "absent" /\ ~Reopenable(r) /\ ~Reusable(r)
    BY <2>4 DEF Revived
  <2> QED
    BY <2>1, <2>2, <2>3, <2>4
<1>3. \/ q = p
      \/ /\ p.status = "waiting_for_search" /\ p.text = s
         /\ q = [p EXCEPT !.status = "ready", !.gated = FALSE]
  BY DEF Promoted
<1>4. p \in Row
  BY RevivedRow
<1>5. q.reserved = r.reserved /\ q.actual = r.actual
  BY <1>2, <1>3, <1>4 DEF Row
<1>6. /\ q.bill = b
      /\ r.status # "absent" => q.status # "absent" /\ Identity(q) = Identity(r)
  BY <1>1, RevivedRow DEF Identity
<1>7. CASE q = p
  BY <1>1, <1>2, <1>5, <1>6, <1>7 DEF Registered, Failing, Active
<1>8. CASE /\ p.status = "waiting_for_search" /\ p.text = s
           /\ q = [p EXCEPT !.status = "ready", !.gated = FALSE]
  <2>1. q.status = "ready" /\ q.text = s
    BY <1>4, <1>8 DEF Row
  <2>2. r.status # "completed" /\ (r.status = "superseded" => ~Started(r))
        /\ r.status # "processing"
    BY <1>2, <1>8 DEF Started
  <2> QED
    BY <1>1, <1>5, <1>6, <2>1, <2>2 DEF Registered, Failing, Active
<1> QED
  BY <1>3, <1>7, <1>8

\* One after the other they are a registration again
LEMMA RegisteredTwice ==
    ASSUME NEW r, NEW p, NEW q, NEW b, NEW t, NEW s, p.startedIn = r.startedIn,
           Registered(r, p, b, t, s), Registered(p, q, b, t, s), q.bill = b
    PROVE  Registered(r, q, b, t, s)
<1>1. p.status = "ready" => p.status # "absent" /\ Identity(q) = Identity(p)
  BY DEF Registered
<1>2. q.status = "ready" => r.status = "ready" \/ (q.bill = b /\ q.text = s)
  <2>1. CASE p.status = "ready"
    <3>1. q.text = p.text
      BY <1>1, <2>1 DEF Identity
    <3> QED
      BY <2>1, <3>1 DEF Registered
  <2> QED
    BY <2>1 DEF Registered
<1>3. /\ q.reserved = r.reserved /\ q.actual = r.actual /\ q.response = r.response
      /\ q.startedIn = r.startedIn
      /\ r.status # "absent" => q.status # "absent" /\ Identity(q) = Identity(r)
  BY DEF Registered
<1>4. Started(r) => Started(p)
  BY DEF Started
<1>5. r.status = "superseded" /\ Started(r) => q.status \in {"completed", "superseded"}
  BY <1>4 DEF Registered
<1>6. Started(r) /\ r.response = "none" /\ r.status \in {"processing", "superseded"}
        => q.status \in {"processing", "superseded"}
  BY <1>4 DEF Registered
<1>7. /\ q.status \in Failing => q.status = r.status
      /\ r.status = "completed" => q.status = "completed"
  BY DEF Registered
<1> QED
  BY <1>2, <1>3, <1>5, <1>6, <1>7 DEF Registered

\* The lemma cited by every action that registers a text: each row, the rows of the
\* saved text that hold a usable answer, and the displayed summary
LEMMA RegisterRows ==
    ASSUME NEW R, LedgerOK(R), NEW b \in Bills, NEW t \in Texts \cup {None}, NEW s,
           context \in Contexts, summary \in [Bills -> (Texts \X Contexts) \cup {None}],
           Register(R, b, t, s)
    PROVE  /\ \A i \in Requests : Registered(R[i], requests'[i], b, t, s)
           /\ \A c \in Bills \ {b} : summary'[c] = summary[c]
           /\ summary'[b] # None =>
                /\ t # None /\ summary'[b] = <<t, context>>
                /\ \/ summary[b] = <<t, context>>
                   \/ \E i \in Requests :
                        /\ Identity(requests'[i]) = <<b, t, context>>
                        /\ requests'[i].status = "completed"
           /\ \A i \in Requests :
                /\ t # None /\ R[i].response = "citable"
                /\ R[i].status \in {"completed", "superseded"}
                /\ Identity(requests'[i]) = <<b, t, context>>
                => summary'[b] = <<t, context>>
<1> DEFINE Q == SupersedeOthers(R, b, t)
<1>1. LedgerOK(Q) /\ \A i \in Requests : Registered(R[i], Q[i], b, t, s)
  BY SupersedeLedger, SupersededRow
<1>2. CASE t = None
  BY <1>1, <1>2, DomainAssumption DEF Register
<1>3. CASE t # None
  <2>1. PICK i \in SlotFor(Q, b, t) :
            /\ requests' = [Q EXCEPT ![i] = Promoted(Revived(Q[i], b, t), s)]
            /\ summary' = [summary EXCEPT ![b] =
                              IF Reusable(Q[i]) THEN <<t, context>>
                              ELSE IF summary[b] = <<t, context>> THEN summary[b] ELSE None]
    BY <1>3 DEF Register
  <2> DEFINE q == Promoted(Revived(Q[i], b, t), s)
  <2>2. t \in Texts /\ i \in Requests /\ Q[i] \in Row /\ RowOK(Q[i])
    BY <1>1, <1>3, <2>1 DEF SlotFor, LedgerOK
  <2>3. Q[i].status = "absent" \/ Identity(Q[i]) = <<b, t, context>>
    BY <2>1 DEF SlotFor
  <2>4. /\ RowOK(q) /\ q.response = Q[i].response /\ q.status # "absent"
        /\ Identity(q) = <<b, t, context>> /\ Registered(Q[i], q, b, t, s)
    BY <2>2, <2>3, RevivedRow, RevivedRowRegistered
  <2>5. requests'[i] = q /\ \A k \in Requests \ {i} : requests'[k] = Q[k]
    BY <1>1, <2>1, <2>2 DEF LedgerOK
  <2>6. LedgerOK(requests')
    BY RegisterLedger
  <2>7. \A k \in Requests : Registered(R[k], requests'[k], b, t, s)
    <3>1. Registered(R[i], q, b, t, s)
      <4>1. Registered(R[i], Q[i], b, t, s)
        BY <1>1, <2>2
      <4>2. Q[i].startedIn = R[i].startedIn
        BY SupersedeLedger, <2>2 DEF RowKept
      <4>3. q.bill = b
        BY <2>4 DEF Identity
      <4> QED
        BY <2>4, <4>1, <4>2, <4>3, RegisteredTwice
    <3> QED
      BY <1>1, <2>5, <3>1
  <2>8. \A c \in Bills \ {b} : summary'[c] = summary[c]
    BY <2>1
  <2>9. summary'[b] = IF Reusable(Q[i]) THEN <<t, context>>
                      ELSE IF summary[b] = <<t, context>> THEN summary[b] ELSE None
    BY <2>1
  <2>10. Reusable(Q[i]) => Q[i].status # "absent" /\ q.status = "completed"
    <3>1. Reusable(Q[i]) => Revived(Q[i], b, t) = [Q[i] EXCEPT !.status = "completed",
                                                               !.gated = FALSE]
      BY <2>2 DEF Reusable, Reopenable, Revived
    <3> QED
      BY <2>2, <3>1 DEF Promoted, Reusable, Row
  <2>11. ASSUME NEW k \in Requests, R[k].response = "citable",
                R[k].status \in {"completed", "superseded"},
                Identity(requests'[k]) = <<b, t, context>>
         PROVE  summary'[b] = <<t, context>>
    <3>1. k = i
      BY <2>2, <2>4, <2>5, <2>6, <2>11 DEF LedgerOK, UniqueIdentity
    <3>2. RowOK(R[i]) /\ Q[i].response = "citable"
          /\ Q[i].status \in {"completed", "superseded"}
      <4>1. RowOK(R[i]) /\ R[i].response = "citable"
        BY <2>2, <2>11, <3>1 DEF LedgerOK
      <4>2. Started(R[i]) /\ Registered(R[i], Q[i], b, t, s)
        BY <1>1, <2>2, <4>1 DEF RowOK
      <4> QED
        BY <2>11, <3>1, <4>1, <4>2 DEF Registered
    <3>3. Started(Q[i])
      BY <2>2, <3>2 DEF RowOK
    <3> QED
      BY <2>9, <3>2, <3>3 DEF Reusable
  <2>12. summary'[b] # None =>
                /\ t # None /\ summary'[b] = <<t, context>>
                /\ \/ summary[b] = <<t, context>>
                   \/ \E k \in Requests :
                        /\ Identity(requests'[k]) = <<b, t, context>>
                        /\ requests'[k].status = "completed"
    BY <1>3, <2>2, <2>4, <2>5, <2>9, <2>10
  <2> QED
    BY <2>7, <2>8, <2>11, <2>12
<1> QED
  BY <1>2, <1>3

----------------------------------------------------------------------------
(* The shapes a step can have, as far as rows and summaries go *)

\* No job begins a call
NoCallBegins ==
    \A j \in Jobs : jobs'[j].state = "calling" =>
        jobs[j].state = "calling" /\ jobs'[j].request = jobs[j].request

\* Nothing of the ledger changes
QuietStep == NoCallBegins /\ UNCHANGED <<text, summary, requests, exposure>>

\* The request that waits for text t of bill b becomes ready
MarkStep(b, t) ==
    MarkReady(b, t) /\ search'[b] = t /\ UNCHANGED <<text, context, summary, jobs, exposure>>

\* Text t is saved for bill b and registered
SaveStep(b, t) ==
    /\ text' = [text EXCEPT ![b] = t]
    /\ Register(requests, b, t, search'[b])
    /\ UNCHANGED <<context, jobs, exposure>>

\* A queued request that is for another text, or whose call was overtaken by a release,
\* is superseded and the saved text registered
OvertakenStep(i) ==
    LET r == requests[i] IN
    /\ r.status # "absent" /\ (text[r.bill] # r.text \/ Claimed(i))
    /\ Register([requests EXCEPT ![i].status = "superseded", ![i].gated = FALSE],
                r.bill, text[r.bill], search[r.bill])
    /\ NoCallBegins /\ UNCHANGED <<text, search, context, exposure>>

\* A job changes the row of its own request
OwnStep(j, i) ==
    \/ ClaimAbandoned(j, i) \/ ClaimRefused(j, i) \/ ClaimCapped(j, i) \/ ClaimPaid(j, i)
    \/ \E response \in Responses \ {"none"}, cost \in ActualCosts \cup {None} :
        FinishCurrent(j, i, response, cost) \/ FinishOutdated(j, i, response, cost)
    \/ \E ambiguous \in BOOLEAN : FinishError(j, i, ambiguous)

\* A finished job is no longer calling
LEMMA DoneEndsCall ==
    ASSUME SpendLedger, NEW j \in Jobs, JobDone(j)
    PROVE  NoCallBegins
  BY DEF SpendLedger, TypeOK, JobDone, FreeJob, NoCallBegins

\* Saving or repairing a text is a registration
LEMMA SavingShape ==
    ASSUME SpendLedger, NEW b \in Bills, NEW t \in Texts \cup {None},
           \/ \E inline \in SearchInline : Ingest(b, t, inline)
           \/ t \in Texts /\ Repair(b, t)
    PROVE  SaveStep(b, t)
<1>1. ASSUME NEW inline \in SearchInline, Ingest(b, t, inline)
      PROVE  SaveStep(b, t)
  <2>1. search'[b] = IF inline THEN t ELSE search[b]
    BY <1>1 DEF Ingest, SpendLedger, TypeOK
  <2> QED
    BY <1>1, <2>1 DEF Ingest, SaveStep, history
<1>2. ASSUME Repair(b, t)
      PROVE  SaveStep(b, t)
  <2>1. search'[b] = t
    BY <1>2 DEF Repair, SpendLedger, TypeOK
  <2> QED
    BY <1>2, <2>1 DEF Repair, SaveStep, history
<1> QED
  BY <1>1, <1>2

\* What an indexer does to the rows is to mark one ready
LEMMA IndexerShape ==
    ASSUME SpendLedger, NEW w \in Indexers, IndexerCompare(w) \/ IndexerCommit(w)
    PROVE  \/ UNCHANGED <<text, context, summary, requests, jobs, exposure>>
           \/ \E b \in Bills, t \in Texts : MarkStep(b, t)
<1>1. indexers[w].bill \in Bills /\ indexers[w].text \in Texts
  BY DEF IndexerCompare, IndexerCommit, SpendLedger, TypeOK
<1>2. CASE IndexerCommit(w)
  <2>1. search'[indexers[w].bill] = indexers[w].text
    BY <1>1, <1>2 DEF IndexerCommit, SpendLedger, TypeOK
  <2>2. MarkStep(indexers[w].bill, indexers[w].text)
    BY <1>2, <2>1 DEF IndexerCommit, MarkStep, queue, history
  <2> QED
    BY <1>1, <2>2
<1>3. CASE IndexerCompare(w) /\ search[indexers[w].bill] = indexers[w].text
  <2>1. MarkStep(indexers[w].bill, indexers[w].text)
    BY <1>3 DEF IndexerCompare, MarkStep, queue, history
  <2> QED
    BY <1>1, <2>1
<1>4. CASE IndexerCompare(w) /\ search[indexers[w].bill] # indexers[w].text
  BY <1>4 DEF IndexerCompare, queue, history
<1> QED
  BY <1>2, <1>3, <1>4

\* A job that finds its request overtaken registers the saved text
LEMMA OvertakenShape ==
    ASSUME SpendLedger, NEW j \in Jobs, NEW i \in Requests,
           ClaimOutdatedText(j, i) \/ ClaimOutdatedPrompt(j, i)
    PROVE  OvertakenStep(i)
<1>1. jobs[j] = [request |-> i, state |-> "available"]
  BY DEF ClaimOutdatedText, ClaimOutdatedPrompt, Runs
<1>2. requests[i].status # "absent"
  BY <1>1 DEF SpendLedger, Referenced
<1>3. NoCallBegins
  BY DoneEndsCall DEF ClaimOutdatedText, ClaimOutdatedPrompt
<1> QED
  BY <1>2, <1>3 DEF ClaimOutdatedText, ClaimOutdatedPrompt, OvertakenStep, history

\* Every step has one of these shapes
LEMMA StepShapes ==
    ASSUME SpendLedger, [Next]_vars
    PROVE  \/ QuietStep
           \/ \E b \in Bills, t \in Texts : MarkStep(b, t)
           \/ \E b \in Bills, t \in Texts \cup {None} : SaveStep(b, t)
           \/ \E i \in Requests : OvertakenStep(i)
           \/ \E j \in Jobs, i \in Requests : OwnStep(j, i)
<1>1. ASSUME NEW b \in Bills, NEW t \in Texts \cup {None}, NEW inline \in SearchInline,
             Ingest(b, t, inline)
      PROVE  SaveStep(b, t)
  BY <1>1, SavingShape
<1>2. ASSUME NEW b \in Bills, NEW t \in Texts, Repair(b, t)
      PROVE  SaveStep(b, t)
  BY <1>2, SavingShape
<1>3. ASSUME NEW w \in Indexers, IndexerCompare(w) \/ IndexerCommit(w)
      PROVE  QuietStep \/ \E b \in Bills, t \in Texts : MarkStep(b, t)
  BY <1>3, IndexerShape DEF QuietStep, NoCallBegins
<1>4. ASSUME Records
      PROVE  \/ QuietStep
             \/ \E b \in Bills, t \in Texts : MarkStep(b, t)
             \/ \E b \in Bills, t \in Texts \cup {None} : SaveStep(b, t)
  <2>1. ASSUME \/ \E w \in Indexers : IndexerFail(w) \/ \E b \in Bills : IndexerRead(w, b)
               \/ \E c \in Contexts : Deploy(c)
               \/ NewMonth
        PROVE  QuietStep
    BY <2>1 DEF IndexerFail, IndexerRead, Deploy, NewMonth, QuietStep, NoCallBegins, record,
                queue, history
  <2> QED
    BY <1>1, <1>2, <1>3, <1>4, <2>1 DEF Records
<1>5. ASSUME NEW e \in Enqueuers, Enqueue(e) \/ EnqueueLost(e)
      PROVE  QuietStep
  <2>1. CASE EnqueueInsert(e)
    <3>1. PICK j \in Jobs :
              jobs' = [jobs EXCEPT ![j] = [request |-> enqueuers[e].request,
                                           state |-> "available"]]
      BY <2>1 DEF EnqueueInsert
    <3>2. NoCallBegins
      BY <3>1 DEF SpendLedger, TypeOK, NoCallBegins
    <3> QED
      BY <2>1, <3>2 DEF EnqueueInsert, QuietStep, record, history
  <2>2. CASE (\E i \in Requests : EnqueueRead(e, i)) \/ EnqueueCheck(e) \/ EnqueueLost(e)
    BY <2>2 DEF EnqueueRead, EnqueueCheck, EnqueueLost, QuietStep, NoCallBegins, record, history
  <2> QED
    BY <1>5, <2>1, <2>2 DEF Enqueue
<1>6. ASSUME NEW j \in Jobs, NEW i \in Requests,
             ClaimOutdatedText(j, i) \/ ClaimOutdatedPrompt(j, i)
      PROVE  OvertakenStep(i)
  BY <1>6, OvertakenShape
<1>7. ASSUME NEW j \in Jobs, NEW i \in Requests,
             ClaimForeign(j, i) \/ ClaimNotReady(j, i) \/ ClaimRaises(j, i)
      PROVE  QuietStep
  <2>1. NoCallBegins
    <3>1. CASE ClaimRaises(j, i)
      BY <3>1 DEF ClaimRaises, SpendLedger, TypeOK, NoCallBegins
    <3> QED
      BY <1>7, <3>1, DoneEndsCall DEF ClaimForeign, ClaimNotReady
  <2> QED
    BY <1>7, <2>1 DEF ClaimForeign, ClaimNotReady, ClaimRaises, QuietStep, record, history
<1>8. ASSUME NEW j \in Jobs,
             ClaimGateClosed(j) \/ Crash(j) \/ Rescue(j) \/ RecoveredRetry(j)
      PROVE  QuietStep
  <2>1. NoCallBegins
    <3>1. CASE Crash(j) \/ Rescue(j) \/ RecoveredRetry(j)
      BY <3>1 DEF Crash, Rescue, RecoveredRetry, SpendLedger, TypeOK, NoCallBegins
    <3> QED
      BY <1>8, <3>1, DoneEndsCall DEF ClaimGateClosed
  <2> QED
    BY <1>8, <2>1 DEF ClaimGateClosed, Crash, Rescue, RecoveredRetry, QuietStep, record, history
<1>9. ASSUME NEW j \in Jobs, Claim(j) \/ Finish(j)
      PROVE  \/ QuietStep
             \/ \E i \in Requests : OvertakenStep(i)
             \/ \E i \in Requests : OwnStep(j, i)
  BY <1>6, <1>7, <1>8, <1>9 DEF Claim, Finish, OwnStep
<1>10. CASE UNCHANGED vars
  BY <1>10 DEF vars, QuietStep, NoCallBegins
<1> QED
  BY <1>4, <1>5, <1>8, <1>9, <1>10 DEF Next, Runner

\* What a job may make of row r of its own request: it stays for the same text, is never
\* made ready, and does not come to hold a usable answer while it fails
OwnChange(r, q) ==
    /\ r.status \notin {"absent", "completed"} /\ q.status # "absent"
    /\ q.bill = r.bill /\ q.text = r.text
    /\ q.status \in Active => r.status \in Active
    /\ q.status = "ready" => r.status = "ready"
    /\ q.response = "citable" => q.status \in {"completed", "superseded"}
    /\ Started(r) => q.startedIn = r.startedIn
    /\ Started(r) /\ q.status \in Failing => r.status \in Failing

\* The row is left as q; its answer is not for the saved text, is displayed, or is
\* registered again with the saved text
OwnResult(i, q) ==
    LET r == requests[i]
        rows == [requests EXCEPT ![i] = q]
    IN  \/ /\ requests' = rows /\ summary' = summary
           /\ q.response = r.response \/ q.response # "citable" \/ text[r.bill] # r.text
        \/ /\ requests' = rows
           /\ q.status = "completed" /\ q.response = "citable"
           /\ q.context = r.context /\ text[r.bill] = r.text
           /\ summary' = [summary EXCEPT ![r.bill] = <<r.text, r.context>>]
        \/ /\ LedgerOK(rows) /\ q.status = "superseded" /\ text[r.bill] # None
           /\ Started(r) /\ q.startedIn = r.startedIn
           /\ Register(rows, r.bill, text[r.bill], search[r.bill])

\* The row of a running call still runs or was overtaken
LEMMA CallingStatus ==
    ASSUME SpendLedger, AnswersSettled, NEW j \in Jobs, NEW i \in Requests, Calls(j, i)
    PROVE  requests[i].status \in {"processing", "superseded"}
  BY DEF Calls, AnswersSettled

\* An answer that is too late is stored in a superseded row, and the saved text is
\* registered over a well-formed ledger
LEMMA LateAnswer ==
    ASSUME SpendLedger, AnswersSettled, NEW j \in Jobs, NEW i \in Requests,
           NEW response \in Responses \ {"none"}, NEW cost \in ActualCosts \cup {None},
           FinishOutdated(j, i, response, cost)
    PROVE  LET r == requests[i]
               rows == [requests EXCEPT ![i] = Answered(r, "superseded", response, cost)]
           IN  /\ r.status \in {"processing", "superseded"} /\ Started(r)
               /\ r.bill \in Bills /\ r.text \in Texts
               /\ LedgerOK(rows)
               /\ IF text[r.bill] = None
                  THEN requests' = rows /\ summary' = summary
                  ELSE Register(rows, r.bill, text[r.bill], search[r.bill])
<1> DEFINE r == requests[i]
           q == Answered(r, "superseded", response, cost)
           rows == [requests EXCEPT ![i] = q]
<1>1. requests \in [Requests -> Row] /\ r \in Row /\ RowOK(r)
  BY DEF SpendLedger, LedgerOK
<1>2. /\ r.status \in {"processing", "superseded"} /\ Started(r) /\ r.status # "absent"
      /\ r.bill \in Bills /\ r.text \in Texts
  BY CallingRow, CallingStatus DEF FinishOutdated
<1>3. RowOK(q) /\ Identity(q) = Identity(r) /\ q.status = "superseded"
  BY <1>1, <1>2, AnsweredRow
<1>4. LedgerOK(rows)
  <2>1. \A k \in Requests \ {i} : Identity(requests[k]) # Identity(q)
    BY <1>2, <1>3, SameIdentity
  <2> HIDE DEF q
  <2> QED
    BY <1>2, <1>3, <2>1, OneRow
<1>5. (IF r.status = "processing" THEN "superseded" ELSE r.status) = "superseded"
  BY <1>2
<1>6. IF text[r.bill] = None
      THEN requests' = rows /\ summary' = summary
      ELSE Register(rows, r.bill, text[r.bill], search[r.bill])
  BY <1>1, <1>5 DEF FinishOutdated
<1> QED
  BY <1>2, <1>4, <1>6

\* Every step of a job on its own row is such a change
LEMMA OwnShape ==
    ASSUME SpendLedger, AnswersSettled, NEW j \in Jobs, NEW i \in Requests, OwnStep(j, i)
    PROVE  /\ UNCHANGED <<text, search, context>>
           /\ \E q \in Row : OwnChange(requests[i], q) /\ OwnResult(i, q)
<1> DEFINE r == requests[i]
<1>1. requests \in [Requests -> Row] /\ r \in Row /\ RowOK(r)
  BY DEF SpendLedger, LedgerOK
<1>2. CASE ClaimAbandoned(j, i)
  <2> DEFINE q == [r EXCEPT !.status = "ambiguous", !.gated = FALSE]
  <2>1. Started(r) /\ r.status = "processing"
    BY <1>1, <1>2 DEF ClaimAbandoned, Claimed, RowOK, Active
  <2>2. r.response # "citable"
    BY <2>1 DEF AnswersSettled
  <2>3. q \in Row /\ OwnChange(r, q)
    BY <1>1, <2>1, <2>2 DEF OwnChange, Row, Statuses, Active, Failing, Started
  <2>4. requests' = [requests EXCEPT ![i] = q] /\ UNCHANGED <<text, search, context, summary>>
    BY <1>1, <1>2 DEF ClaimAbandoned
  <2>5. q.response = r.response
    BY <1>1 DEF Row
  <2> QED
    BY <2>3, <2>4, <2>5 DEF OwnResult
<1>3. CASE ClaimRefused(j, i) \/ ClaimCapped(j, i) \/ ClaimPaid(j, i)
  <2>1. r.status = "ready" /\ ~Started(r) /\ r.response = "none" /\ context \in Contexts
        /\ month \in 1 .. LastMonth
    BY <1>1, <1>3 DEF ClaimRefused, ClaimCapped, ClaimPaid, Claimable, RowOK, SpendLedger,
                      TypeOK
  <2>2. UNCHANGED <<text, search, context, summary>>
    BY <1>3 DEF ClaimRefused, ClaimCapped, ClaimPaid
  <2>3. ASSUME NEW q \in Row, q.bill = r.bill, q.text = r.text, q.response = r.response,
               q.status \in {"ready", "failed", "processing"},
               requests' = [requests EXCEPT ![i] = q]
        PROVE  OwnChange(r, q) /\ OwnResult(i, q)
    <3>1. OwnChange(r, q)
      BY <2>1, <2>3 DEF OwnChange, Active
    <3> QED
      BY <2>2, <2>3, <3>1 DEF OwnResult
  <2>4. CASE ClaimRefused(j, i)
    <3> DEFINE q == [r EXCEPT !.context = context, !.status = "failed", !.gated = TRUE]
    <3>1. requests' = [requests EXCEPT ![i] = q]
      BY <1>1, <2>4 DEF ClaimRefused
    <3>2. /\ q \in Row /\ q.bill = r.bill /\ q.text = r.text /\ q.status = "failed"
          /\ q.response = r.response
      BY <1>1, <2>1 DEF Row, Statuses
    <3> HIDE DEF q
    <3> QED
      BY <2>2, <2>3, <3>1, <3>2
  <2>5. CASE ClaimCapped(j, i)
    <3> DEFINE q == [r EXCEPT !.context = context]
    <3>1. requests' = [requests EXCEPT ![i] = q]
      BY <1>1, <2>5 DEF ClaimCapped
    <3>2. /\ q \in Row /\ q.bill = r.bill /\ q.text = r.text /\ q.status = "ready"
          /\ q.response = r.response
      BY <1>1, <2>1 DEF Row
    <3> HIDE DEF q
    <3> QED
      BY <2>2, <2>3, <3>1, <3>2
  <2>6. CASE ClaimPaid(j, i)
    <3> DEFINE q == [r EXCEPT !.context = context, !.status = "processing",
                              !.startedIn = month, !.claimJob = j,
                              !.reserved = Reservation, !.actual = None, !.gated = FALSE]
    <3>1. requests' = [requests EXCEPT ![i] = q]
      BY <1>1, <2>6 DEF ClaimPaid
    <3>2. month \in 0 .. LastMonth
      BY <2>1, DomainAssumption
    <3>3. /\ q \in Row /\ q.bill = r.bill /\ q.text = r.text /\ q.status = "processing"
          /\ q.response = r.response
      BY <1>1, <2>1, <3>2 DEF Row, Statuses, Active
    <3> HIDE DEF q
    <3> QED
      BY <2>2, <2>3, <3>1, <3>3
  <2> QED
    BY <1>3, <2>4, <2>5, <2>6
<1>4. ASSUME NEW response \in Responses \ {"none"}, NEW cost \in ActualCosts \cup {None},
             FinishCurrent(j, i, response, cost)
      PROVE  /\ UNCHANGED <<text, search, context>>
             /\ \E q \in Row : OwnChange(r, q) /\ OwnResult(i, q)
  <2> DEFINE status == IF response = "citable" THEN "completed" ELSE "failed"
             q == Answered(r, status, response, cost)
  <2>1. Calls(j, i) /\ StillCurrent(i)
    BY <1>4 DEF FinishCurrent
  <2>2. /\ r.status = "processing" /\ text[r.bill] = r.text /\ Started(r)
    BY <2>1, CallingRow DEF StillCurrent, SameText
  <2>3. q \in Row /\ q.bill = r.bill /\ q.text = r.text /\ q.context = r.context
        /\ q.status = status /\ q.response = response /\ q.startedIn = r.startedIn
    <3>1. status \in Statuses /\ response \in Responses
      BY DEF Statuses
    <3> HIDE DEF status
    <3> QED
      BY <1>1, <3>1 DEF Answered, Row
  <2>4. OwnChange(r, q)
    BY <2>2, <2>3 DEF OwnChange, Active, Failing
  <2>5. /\ requests' = [requests EXCEPT ![i] = q] /\ UNCHANGED <<text, search, context>>
        /\ summary' = IF response = "citable"
                      THEN [summary EXCEPT ![r.bill] = <<r.text, r.context>>] ELSE summary
    BY <1>1, <1>4 DEF FinishCurrent
  <2> QED
    BY <2>2, <2>3, <2>4, <2>5 DEF OwnResult
<1>5. ASSUME NEW response \in Responses \ {"none"}, NEW cost \in ActualCosts \cup {None},
             FinishOutdated(j, i, response, cost)
      PROVE  /\ UNCHANGED <<text, search, context>>
             /\ \E q \in Row : OwnChange(r, q) /\ OwnResult(i, q)
  <2> DEFINE q == Answered(r, "superseded", response, cost)
             rows == [requests EXCEPT ![i] = q]
  <2>1. /\ r.status \in {"processing", "superseded"} /\ Started(r)
        /\ r.bill \in Bills /\ r.text \in Texts
        /\ LedgerOK(rows)
        /\ IF text[r.bill] = None
           THEN requests' = rows /\ summary' = summary
           ELSE Register(rows, r.bill, text[r.bill], search[r.bill])
    BY <1>5, LateAnswer
  <2>2. q \in Row /\ q.bill = r.bill /\ q.text = r.text /\ q.status = "superseded"
        /\ q.response = response /\ q.startedIn = r.startedIn
    BY <1>1 DEF Answered, Row, Statuses, Responses
  <2>3. OwnChange(r, q)
    BY <2>1, <2>2 DEF OwnChange, Active, Failing
  <2>4. text[r.bill] = None => text[r.bill] # r.text
    BY <2>1, DomainAssumption
  <2>5. OwnResult(i, q)
    <3> HIDE DEF q
    <3> QED
      BY <2>1, <2>2, <2>4 DEF OwnResult
  <2>6. UNCHANGED <<text, search, context>>
    BY <1>5 DEF FinishOutdated
  <2> QED
    BY <2>2, <2>3, <2>5, <2>6
<1>6. ASSUME NEW ambiguous \in BOOLEAN, FinishError(j, i, ambiguous)
      PROVE  /\ UNCHANGED <<text, search, context>>
             /\ \E q \in Row : OwnChange(r, q) /\ OwnResult(i, q)
  <2>1. r.status \in {"processing", "superseded"} /\ Started(r) /\ r.response = "none"
    BY <1>6, CallingRow, CallingStatus DEF FinishError
  <2> DEFINE status == IF r.status # "processing" THEN r.status
                       ELSE IF ambiguous THEN "ambiguous" ELSE "failed"
             q == [r EXCEPT !.status = status]
  <2>2. q \in Row /\ q.bill = r.bill /\ q.text = r.text /\ q.status = status
        /\ q.response = r.response /\ q.startedIn = r.startedIn
    BY <1>1 DEF Row, Statuses, Active
  <2>3. OwnChange(r, q)
    BY <2>1, <2>2 DEF OwnChange, Active, Failing
  <2>4. requests' = [requests EXCEPT ![i] = q] /\ UNCHANGED <<text, search, context, summary>>
    BY <1>1, <1>6 DEF FinishError
  <2> QED
    BY <2>2, <2>3, <2>4 DEF OwnResult
<1> QED
  BY <1>2, <1>3, <1>4, <1>5, <1>6 DEF OwnStep

----------------------------------------------------------------------------
(* Answers, live requests and displayed summaries *)

\* A queued request that was overtaken leaves a well-formed ledger to register in
LEMMA OvertakenRows ==
    ASSUME SpendLedger, NEW i \in Requests, OvertakenStep(i)
    PROVE  LET r == requests[i]
               R == [requests EXCEPT ![i].status = "superseded", ![i].gated = FALSE]
           IN  /\ LedgerOK(R) /\ r.bill \in Bills /\ text[r.bill] \in Texts \cup {None}
               /\ R[i].status = "superseded" /\ R[i].response = r.response
               /\ Identity(R[i]) = Identity(r) /\ R[i].startedIn = r.startedIn
               /\ R[i].reserved = r.reserved /\ R[i].actual = r.actual
               /\ \A k \in Requests \ {i} : R[k] = requests[k]
<1> DEFINE r == requests[i]
           q == [r EXCEPT !.status = "superseded", !.gated = FALSE]
           R == [requests EXCEPT ![i].status = "superseded", ![i].gated = FALSE]
<1>1. requests \in [Requests -> Row] /\ r \in Row /\ RowOK(r) /\ r.status # "absent"
  BY DEF SpendLedger, LedgerOK, OvertakenStep
<1>2. R = [requests EXCEPT ![i] = q]
  BY <1>1
<1>3. RowOK(q) /\ RowKept(r, q) /\ q.response = r.response /\ Identity(q) = Identity(r)
  BY <1>1, SupersedeRow
<1>4. q.status = "superseded" /\ q.reserved = r.reserved /\ q.actual = r.actual
      /\ q.startedIn = r.startedIn
  BY <1>1 DEF Row
<1>5. LedgerOK([requests EXCEPT ![i] = q])
  <2> HIDE DEF q
  <2> QED
    BY <1>1, <1>3, <1>4, SameIdentity, OneRow
<1>6. R[i] = q /\ \A k \in Requests \ {i} : R[k] = requests[k]
  <2> HIDE DEF q
  <2> QED
    BY <1>1, <1>2
<1>7. r.bill \in Bills
  BY <1>1 DEF RowOK, Identity, Identities
<1>8. text[r.bill] \in Texts \cup {None}
  BY <1>7 DEF SpendLedger, TypeOK
<1> QED
  <2> HIDE DEF q, R
  <2> QED
    BY <1>2, <1>3, <1>4, <1>5, <1>6, <1>7, <1>8 DEF R

\* A job that is calling after a step on its own row began that call, or went on with
\* another one
LEMMA OwnJob ==
    ASSUME SpendLedger, NEW j \in Jobs, NEW i \in Requests, OwnStep(j, i),
           NEW n \in Jobs, jobs'[n].state = "calling"
    PROVE  \/ n = j /\ jobs'[n].request = i /\ requests'[i].status = "processing"
           \/ /\ jobs[n].state = "calling" /\ jobs'[n].request = jobs[n].request
              /\ jobs[n].request # i
<1>1. jobs \in [Jobs -> [request : Requests \cup {None},
                         state : {"free", "available", "calling", "orphaned", "discarded"}]]
      /\ requests \in [Requests -> Row]
  BY DEF SpendLedger, TypeOK
<1>2. jobs[n].state = "calling" /\ jobs[n].request = i =>
            Started(requests[i]) /\ requests[i].claimJob = n
  BY DEF SpendLedger, Referenced
<1>3. CASE ClaimPaid(j, i)
  <2>1. jobs' = [jobs EXCEPT ![j].state = "calling"] /\ jobs[j].request = i
    BY <1>3 DEF ClaimPaid, Claimable, Runs
  <2>2. requests'[i].status = "processing"
    BY <1>1, <1>3 DEF ClaimPaid, Row
  <2>3. ~Started(requests[i])
    BY <1>3 DEF ClaimPaid, Claimable, SpendLedger, LedgerOK, RowOK
  <2> QED
    BY <1>1, <1>2, <2>1, <2>2, <2>3
<1>4. ASSUME JobDone(j), ~Started(requests[i]) \/ requests[i].claimJob = j
      PROVE  /\ jobs[n].state = "calling" /\ jobs'[n].request = jobs[n].request
             /\ jobs[n].request # i
  BY <1>1, <1>2, <1>4 DEF JobDone, FreeJob
<1>5. CASE ClaimRefused(j, i) \/ ClaimCapped(j, i)
  <2>1. JobDone(j) /\ requests[i].status = "ready"
    BY <1>5 DEF ClaimRefused, ClaimCapped, Claimable
  <2>2. ~Started(requests[i])
    BY <2>1 DEF SpendLedger, LedgerOK, RowOK
  <2> QED
    BY <1>4, <2>1, <2>2
<1>6. CASE ClaimAbandoned(j, i)
  BY <1>4, <1>6 DEF ClaimAbandoned
<1>7. ASSUME Calls(j, i), JobDone(j)
      PROVE  /\ jobs[n].state = "calling" /\ jobs'[n].request = jobs[n].request
             /\ jobs[n].request # i
  BY <1>4, <1>7, CallingRow
<1> QED
  BY <1>3, <1>5, <1>6, <1>7 DEF OwnStep, FinishCurrent, FinishOutdated, FinishError

\* Usable answers stay out of failed rows, and calls that are out keep their rows
LEMMA SettledInductive ==
    ASSUME SpendLedger, AnswersSettled, [Next]_vars
    PROVE  AnswersSettled'
<1> DEFINE Held(r) == r.response = "citable" => r.status \in {"completed", "superseded"}
           Out(r) == r.status \in {"processing", "superseded"}
<1>1. /\ \A k \in Requests : Held(requests[k])
      /\ \A n \in Jobs : jobs[n].state = "calling" =>
            /\ jobs[n].request \in Requests /\ Out(requests[jobs[n].request])
            /\ Started(requests[jobs[n].request])
            /\ requests[jobs[n].request].response = "none"
  BY DEF AnswersSettled, SpendLedger, Referenced
<1>2. context \in Contexts /\ summary \in [Bills -> (Texts \X Contexts) \cup {None}]
      /\ LedgerOK(requests)
  BY DEF SpendLedger, TypeOK
<1>3. ASSUME NEW r, NEW q, NEW b, NEW t, NEW s, Registered(r, q, b, t, s),
             RowOK(r), Held(r)
      PROVE  /\ Held(q)
             /\ Out(r) /\ Started(r) /\ r.response = "none" => Out(q)
  BY <1>3 DEF Registered, RowOK
<1>4. CASE QuietStep
  BY <1>1, <1>4 DEF QuietStep, NoCallBegins, AnswersSettled
<1>5. ASSUME NEW b \in Bills, NEW t \in Texts, MarkStep(b, t)
      PROVE  AnswersSettled'
  <2>1. ASSUME NEW k \in Requests
        PROVE  /\ Held(requests'[k])
               /\ Out(requests[k]) => Out(requests'[k])
    <3>1. requests[k] \in Row /\ RowOK(requests[k]) /\ Held(requests[k])
      BY <1>1, <1>2 DEF LedgerOK
    <3>2. CASE requests'[k] = requests[k]
      BY <3>1, <3>2
    <3>3. CASE /\ requests[k].status = "waiting_for_search"
               /\ requests'[k] = [requests[k] EXCEPT !.status = "ready", !.gated = FALSE]
      BY <3>1, <3>3 DEF RowOK, Row
    <3> QED
      BY <1>5, <3>2, <3>3 DEF MarkStep, MarkReady, Promoted
  <2> QED
    BY <1>1, <1>5, <2>1 DEF MarkStep, AnswersSettled
<1>6. ASSUME NEW b \in Bills, NEW t \in Texts \cup {None}, SaveStep(b, t)
      PROVE  AnswersSettled'
  <2>1. \A k \in Requests : Registered(requests[k], requests'[k], b, t, search'[b])
    BY <1>2, <1>6, RegisterRows DEF SaveStep
  <2>2. \A k \in Requests : RowOK(requests[k])
    BY <1>2 DEF LedgerOK
  <2> QED
    BY <1>1, <1>3, <1>6, <2>1, <2>2 DEF SaveStep, AnswersSettled
<1>7. ASSUME NEW i \in Requests, OvertakenStep(i)
      PROVE  AnswersSettled'
  <2> DEFINE b == requests[i].bill
             R == [requests EXCEPT ![i].status = "superseded", ![i].gated = FALSE]
  <2>1. /\ LedgerOK(R) /\ b \in Bills /\ text[b] \in Texts \cup {None}
        /\ R[i].status = "superseded" /\ R[i].response = requests[i].response
        /\ R[i].startedIn = requests[i].startedIn
        /\ \A k \in Requests \ {i} : R[k] = requests[k]
    BY <1>7, OvertakenRows
  <2>2. Register(R, b, text[b], search[b]) /\ NoCallBegins
    BY <1>7 DEF OvertakenStep
  <2> HIDE DEF R
  <2>3. \A k \in Requests : Registered(R[k], requests'[k], b, text[b], search[b])
    BY <1>2, <2>1, <2>2, RegisterRows
  <2>4. \A k \in Requests : /\ RowOK(R[k]) /\ Held(R[k])
                            /\ Out(requests[k]) => Out(R[k])
                            /\ Started(requests[k]) => Started(R[k])
                            /\ R[k].response = requests[k].response
    BY <1>1, <2>1 DEF LedgerOK, Started
  <2> QED
    BY <1>1, <1>3, <2>2, <2>3, <2>4 DEF NoCallBegins, AnswersSettled
<1>8. ASSUME NEW j \in Jobs, NEW i \in Requests, OwnStep(j, i)
      PROVE  AnswersSettled'
  <2>1. PICK q \in Row : OwnChange(requests[i], q) /\ OwnResult(i, q)
    BY <1>8, OwnShape
  <2> DEFINE b == requests[i].bill
             rows == [requests EXCEPT ![i] = q]
  <2>2. Held(q)
    BY <2>1 DEF OwnChange
  <2>3. rows[i] = q /\ \A k \in Requests \ {i} : rows[k] = requests[k]
    BY <1>2 DEF LedgerOK
  <2>4. \A k \in Requests : Held(rows[k])
    BY <1>1, <2>2, <2>3
  <2>5. /\ \A k \in Requests : Held(requests'[k])
        /\ \A k \in Requests \ {i} :
              Out(requests[k]) /\ Started(requests[k]) /\ requests[k].response = "none"
                => Out(requests'[k])
    <3>1. CASE requests' = rows
      BY <1>1, <2>3, <2>4, <3>1
    <3>2. CASE LedgerOK(rows) /\ Register(rows, b, text[b], search[b])
      <4>1. b \in Bills /\ text[b] \in Texts \cup {None}
        <5>1. RowOK(requests[i]) /\ requests[i].status # "absent"
          BY <1>2, <2>1 DEF LedgerOK, OwnChange
        <5> QED
          BY <5>1 DEF RowOK, Identity, Identities, SpendLedger, TypeOK
      <4>2. \A k \in Requests : Registered(rows[k], requests'[k], b, text[b], search[b])
        <5> HIDE DEF rows, b
        <5> QED
          BY <1>2, <3>2, <4>1, RegisterRows
      <4>3. \A k \in Requests : RowOK(rows[k])
        BY <3>2 DEF LedgerOK
      <4> QED
        <5> HIDE DEF rows, b
        <5> QED
          BY <1>3, <2>3, <2>4, <4>2, <4>3
    <3> QED
      BY <2>1, <3>1, <3>2 DEF OwnResult
  <2>6. ASSUME NEW n \in Jobs, jobs'[n].state = "calling"
        PROVE  Out(requests'[jobs'[n].request])
    BY <1>1, <1>8, <2>5, <2>6, OwnJob
  <2> QED
    BY <2>5, <2>6 DEF AnswersSettled
<1> QED
  BY <1>4, <1>5, <1>6, <1>7, <1>8, StepShapes

\* Text t is what bill b has saved after the step, and other bills keep theirs
Saved(b, t) == text'[b] = t /\ \A c \in Bills \ {b} : text'[c] = text[c]

\* What holds of the live rows of every bill but b
LiveBut(R, b) ==
    \A i, k \in Requests :
        R[i].status \in Active /\ R[i].bill # b =>
            /\ R[i].text = text[R[i].bill]
            /\ R[k].status \in Active /\ R[k].bill = R[i].bill => k = i

\* After a registration the bill has at most one live request, for the saved text
LEMMA RegisterLive ==
    ASSUME NEW R, LedgerOK(R), NEW b \in Bills, NEW t \in Texts \cup {None}, NEW s,
           context \in Contexts, summary \in [Bills -> (Texts \X Contexts) \cup {None}],
           Register(R, b, t, s), Saved(b, t), LiveBut(R, b)
    PROVE  LiveRequestTracksText'
<1>1. /\ LedgerOK(requests')
      /\ \A i \in Requests : R[i].status = "absent" /\ requests'[i].status # "absent"
                                    => requests'[i].bill = b
      /\ \A i \in Requests :
                requests'[i].status \in Active /\ requests'[i].bill = b
                    => requests'[i].text = t /\ requests'[i].context = context
      /\ \A i \in Requests : R[i].bill # b /\ R[i].status # "absent"
                                    => requests'[i] = R[i]
  <2>1. LedgerOK(requests')
    BY RegisterLedger
  <2>2. \A i \in Requests : R[i].status = "absent" /\ requests'[i].status # "absent"
                                    => requests'[i].bill = b
    BY RegisterLedger
  <2>3. \A i \in Requests :
                requests'[i].status \in Active /\ requests'[i].bill = b
                    => requests'[i].text = t /\ requests'[i].context = context
    BY RegisterLedger
  <2>4. \A i \in Requests : R[i].bill # b /\ R[i].status # "absent"
                                    => requests'[i] = R[i]
    BY RegisterLedger
  <2> QED
    BY <2>1, <2>2, <2>3, <2>4
<1>2. \A i \in Requests : Registered(R[i], requests'[i], b, t, s)
  BY RegisterRows
<1>3. ASSUME NEW i \in Requests, requests'[i].status \in Active, requests'[i].bill # b
      PROVE  requests'[i] = R[i] /\ requests'[i].bill \in Bills
  <2>1. requests'[i].status # "absent" /\ RowOK(requests'[i])
    BY <1>1, <1>3 DEF Active, LedgerOK
  <2>2. R[i].status # "absent"
    BY <1>1, <1>3, <2>1
  <2>3. R[i].bill = requests'[i].bill
    BY <1>2, <2>2 DEF Registered, Identity
  <2> QED
    BY <1>1, <1>3, <2>1, <2>2, <2>3 DEF RowOK, Identity, Identities
<1>4. ASSUME NEW i \in Requests, NEW k \in Requests, requests'[i].status \in Active
      PROVE  /\ requests'[i].text = text'[requests'[i].bill]
             /\ requests'[k].status \in Active /\ requests'[k].bill = requests'[i].bill => k = i
  <2>1. CASE requests'[i].bill = b
    <3>1. requests'[i].text = text'[b]
      BY <1>1, <1>4, <2>1 DEF Saved
    <3>2. ASSUME requests'[k].status \in Active, requests'[k].bill = b
          PROVE  k = i
      <4>1. Identity(requests'[k]) = Identity(requests'[i]) /\ requests'[k].status # "absent"
        BY <1>1, <1>4, <2>1, <3>2 DEF Identity, Active
      <4> QED
        BY <1>1, <4>1 DEF LedgerOK, UniqueIdentity
    <3> QED
      BY <2>1, <3>1, <3>2
  <2>2. CASE requests'[i].bill # b
    <3>1. requests'[i] = R[i] /\ requests'[i].bill \in Bills
      BY <1>3, <1>4, <2>2
    <3>2. ASSUME requests'[k].status \in Active, requests'[k].bill = requests'[i].bill
          PROVE  requests'[k] = R[k]
      BY <1>3, <2>2, <3>2
    <3> QED
      BY <1>4, <2>2, <3>1, <3>2 DEF LiveBut, Saved
  <2> QED
    BY <2>1, <2>2
<1> QED
  BY <1>4 DEF LiveRequestTracksText

\* The displayed summaries as they stand when the rows are R
DisplayedFrom(R, b) ==
    \A c \in Bills : summary[c] # None =>
        /\ c # b => summary[c][1] = text[c]
        /\ \E k \in Requests :
            /\ Identity(R[k]) = <<c, summary[c][1], summary[c][2]>>
            /\ R[k].status = "completed"

\* After a registration what is displayed is paid for and current
LEMMA RegisterSummary ==
    ASSUME NEW R, LedgerOK(R), NEW b \in Bills, NEW t \in Texts \cup {None}, NEW s,
           context \in Contexts, summary \in [Bills -> (Texts \X Contexts) \cup {None}],
           Register(R, b, t, s), Saved(b, t), DisplayedFrom(R, b)
    PROVE  SummaryIsPaidAndCurrent'
<1>1. /\ \A i \in Requests : Registered(R[i], requests'[i], b, t, s)
      /\ \A c \in Bills \ {b} : summary'[c] = summary[c]
      /\ summary'[b] # None =>
                /\ t # None /\ summary'[b] = <<t, context>>
                /\ \/ summary[b] = <<t, context>>
                   \/ \E i \in Requests :
                        /\ Identity(requests'[i]) = <<b, t, context>>
                        /\ requests'[i].status = "completed"
  BY RegisterRows
<1>2. ASSUME NEW c \in Bills, summary[c] # None, summary'[c] = summary[c]
      PROVE  \E i \in Requests :
                /\ Identity(requests'[i]) = <<c, summary'[c][1], summary'[c][2]>>
                /\ requests'[i].status = "completed"
  <2>1. PICK k \in Requests : /\ Identity(R[k]) = <<c, summary[c][1], summary[c][2]>>
                              /\ R[k].status = "completed"
    BY <1>2 DEF DisplayedFrom
  <2>2. requests'[k].status = "completed" /\ Identity(requests'[k]) = Identity(R[k])
    BY <1>1, <2>1 DEF Registered
  <2> QED
    BY <1>2, <2>1, <2>2
<1>3. \A i \in Requests : requests'[i].status = "completed" => requests'[i].response = "citable"
  BY RegisterLedger DEF LedgerOK, RowOK
<1>4. ASSUME NEW c \in Bills, summary'[c] # None
      PROVE  /\ summary'[c][1] = text'[c]
             /\ \E i \in Requests :
                  /\ Identity(requests'[i]) = <<c, summary'[c][1], summary'[c][2]>>
                  /\ requests'[i].status = "completed"
  <2>1. CASE c = b
    <3>1. summary'[b] = <<t, context>>
      BY <1>1, <1>4, <2>1
    <3>2. summary'[b][1] = t /\ summary'[b][2] = context
      BY <3>1
    <3>3. CASE summary[b] = <<t, context>>
      <4>1. summary[b] # None /\ summary'[b] = summary[b]
        BY <1>4, <2>1, <3>1, <3>3
      <4> QED
        BY <1>2, <2>1, <3>2, <4>1 DEF Saved
    <3>4. CASE \E i \in Requests : /\ Identity(requests'[i]) = <<b, t, context>>
                                   /\ requests'[i].status = "completed"
      BY <2>1, <3>2, <3>4 DEF Saved
    <3> QED
      BY <1>1, <1>4, <2>1, <3>3, <3>4
  <2>2. CASE c # b
    <3>1. summary'[c] = summary[c] /\ summary[c] # None
      BY <1>1, <1>4, <2>2
    <3>2. summary[c][1] = text'[c]
      BY <2>2, <3>1 DEF DisplayedFrom, Saved
    <3> QED
      BY <1>2, <3>1, <3>2
  <2> QED
    BY <2>1, <2>2
<1> QED
  BY <1>3, <1>4 DEF SummaryIsPaidAndCurrent

\* Live requests and displayed summaries are about the saved text
Tracked == LiveRequestTracksText /\ SummaryIsPaidAndCurrent

\* Bill and text of the row a job changes
LEMMA OwnBill ==
    ASSUME SpendLedger, NEW i \in Requests, requests[i].status # "absent"
    PROVE  /\ requests[i].bill \in Bills /\ requests[i].text \in Texts
           /\ text[requests[i].bill] \in Texts \cup {None}
<1>1. RowOK(requests[i])
  BY DEF SpendLedger, LedgerOK
<1> QED
  BY <1>1 DEF RowOK, Identity, Identities, SpendLedger, TypeOK

\* Both stay true when a text is saved
LEMMA TrackedSave ==
    ASSUME SpendLedger, Tracked, NEW b \in Bills, NEW t \in Texts \cup {None}, SaveStep(b, t)
    PROVE  Tracked'
<1>1. /\ LedgerOK(requests) /\ context \in Contexts
      /\ summary \in [Bills -> (Texts \X Contexts) \cup {None}]
      /\ text \in [Bills -> Texts \cup {None}]
  BY DEF SpendLedger, TypeOK
<1>2. Saved(b, t) /\ Register(requests, b, t, search'[b])
  BY <1>1 DEF SaveStep, Saved
<1>3. LiveBut(requests, b)
  BY DEF Tracked, LiveRequestTracksText, LiveBut
<1>4. DisplayedFrom(requests, b)
  BY DEF Tracked, SummaryIsPaidAndCurrent, DisplayedFrom
<1> QED
  BY <1>1, <1>2, <1>3, <1>4, RegisterLive, RegisterSummary DEF Tracked

\* And when a queued request is found overtaken: it is not the one displayed
LEMMA TrackedOvertaken ==
    ASSUME SpendLedger, Tracked, NEW i \in Requests, OvertakenStep(i)
    PROVE  Tracked'
<1> DEFINE b == requests[i].bill
           R == [requests EXCEPT ![i].status = "superseded", ![i].gated = FALSE]
<1>1. /\ context \in Contexts
      /\ summary \in [Bills -> (Texts \X Contexts) \cup {None}]
  BY DEF SpendLedger, TypeOK
<1>2. /\ LedgerOK(R) /\ b \in Bills /\ text[b] \in Texts \cup {None}
      /\ R[i].status = "superseded"
      /\ \A k \in Requests \ {i} : R[k] = requests[k]
  BY OvertakenRows
<1>3. /\ Register(R, b, text[b], search[b]) /\ text' = text
      /\ text[b] # requests[i].text \/ requests[i].status \in Active
  BY DEF OvertakenStep, Claimed
<1> HIDE DEF R
<1>4. Saved(b, text[b])
  BY <1>3 DEF Saved
<1>5. LiveBut(R, b)
  <2>1. \A k \in Requests : R[k].status \in Active => R[k] = requests[k]
    BY <1>2 DEF Active
  <2> QED
    BY <2>1 DEF Tracked, LiveRequestTracksText, LiveBut
<1>6. DisplayedFrom(R, b)
  <2> SUFFICES ASSUME NEW c \in Bills, summary[c] # None
               PROVE  /\ summary[c][1] = text[c]
                      /\ \E k \in Requests :
                            /\ Identity(R[k]) = <<c, summary[c][1], summary[c][2]>>
                            /\ R[k].status = "completed"
    BY DEF DisplayedFrom
  <2>1. PICK k \in Requests : /\ Identity(requests[k]) = <<c, summary[c][1], summary[c][2]>>
                              /\ requests[k].status = "completed"
    BY DEF Tracked, SummaryIsPaidAndCurrent
  <2>2. summary[c][1] = text[c]
    BY DEF Tracked, SummaryIsPaidAndCurrent
  <2>3. k # i
    <3>1. ASSUME k = i PROVE FALSE
      <4>1. requests[i].bill = c /\ requests[i].text = text[c]
        BY <2>1, <2>2, <3>1 DEF Identity
      <4> QED
        BY <1>3, <2>1, <3>1, <4>1 DEF Active
    <3> QED
      BY <3>1
  <2> QED
    BY <1>2, <2>1, <2>2, <2>3
<1> QED
  BY <1>1, <1>2, <1>3, <1>4, <1>5, <1>6, RegisterLive, RegisterSummary DEF Tracked

\* And when a job changes its own row, which is not a displayed one before the step
LEMMA TrackedOwn ==
    ASSUME SpendLedger, AnswersSettled, Tracked, NEW j \in Jobs, NEW i \in Requests,
           OwnStep(j, i)
    PROVE  Tracked'
<1> DEFINE r == requests[i]
           b == r.bill
<1>1. /\ context \in Contexts /\ LedgerOK(requests)
      /\ summary \in [Bills -> (Texts \X Contexts) \cup {None}]
  BY DEF SpendLedger, TypeOK
<1>2. PICK q \in Row : OwnChange(requests[i], q) /\ OwnResult(i, q)
  BY OwnShape
<1> DEFINE rows == [requests EXCEPT ![i] = q]
<1>3. text' = text /\ search' = search /\ context' = context
  BY OwnShape
<1>4. b \in Bills /\ r.text \in Texts /\ text[b] \in Texts \cup {None}
  BY <1>2, OwnBill DEF OwnChange
<1>5. rows[i] = q /\ \A k \in Requests \ {i} : rows[k] = requests[k]
  BY <1>1 DEF LedgerOK
<1>6. \A k \in Requests : rows[k].status \in Active =>
            /\ requests[k].status \in Active
            /\ rows[k].bill = requests[k].bill /\ rows[k].text = requests[k].text
  BY <1>2, <1>5 DEF OwnChange
<1>7. ASSUME NEW c \in Bills, summary[c] # None
      PROVE  /\ summary[c][1] = text[c]
             /\ \E k \in Requests : /\ Identity(rows[k]) = <<c, summary[c][1], summary[c][2]>>
                                    /\ rows[k].status = "completed"
                                    /\ rows[k].response = "citable"
  <2>1. PICK k \in Requests : /\ Identity(requests[k]) = <<c, summary[c][1], summary[c][2]>>
                              /\ requests[k].status = "completed"
                              /\ requests[k].response = "citable"
    BY <1>7 DEF Tracked, SummaryIsPaidAndCurrent
  <2>2. k # i
    BY <1>2, <2>1 DEF OwnChange
  <2>3. summary[c][1] = text[c]
    BY <1>7 DEF Tracked, SummaryIsPaidAndCurrent
  <2> HIDE DEF rows
  <2> QED
    BY <1>5, <2>1, <2>2, <2>3
<1>8. \A m, k \in Requests :
        rows[m].status \in Active =>
            /\ rows[m].text = text[rows[m].bill]
            /\ rows[k].status \in Active /\ rows[k].bill = rows[m].bill => k = m
  <2> HIDE DEF rows
  <2> QED
    BY <1>6 DEF Tracked, LiveRequestTracksText
<1> HIDE DEF rows
<1>9. CASE requests' = rows /\ summary' = summary
  BY <1>3, <1>7, <1>8, <1>9 DEF Tracked, LiveRequestTracksText, SummaryIsPaidAndCurrent
<1>10. CASE /\ requests' = rows
            /\ q.status = "completed" /\ q.response = "citable"
            /\ q.context = r.context /\ text[r.bill] = r.text
            /\ summary' = [summary EXCEPT ![r.bill] = <<r.text, r.context>>]
  <2>1. summary'[b] = <<r.text, r.context>> /\ \A c \in Bills \ {b} : summary'[c] = summary[c]
    BY <1>1, <1>4, <1>10
  <2>2. Identity(rows[i]) = <<b, r.text, r.context>>
    BY <1>2, <1>5, <1>10 DEF OwnChange, Identity
  <2>3. /\ summary'[b][1] = text'[b]
        /\ Identity(requests'[i]) = <<b, summary'[b][1], summary'[b][2]>>
        /\ requests'[i].status = "completed" /\ requests'[i].response = "citable"
    BY <1>3, <1>5, <1>10, <2>1, <2>2
  <2>4. SummaryIsPaidAndCurrent'
    BY <1>3, <1>7, <1>10, <2>1, <2>3 DEF SummaryIsPaidAndCurrent
  <2> QED
    BY <1>3, <1>8, <1>10, <2>4 DEF Tracked, LiveRequestTracksText
<1>11. CASE LedgerOK(rows) /\ Register(rows, b, text[b], search[b])
  <2>1. Saved(b, text[b])
    BY <1>3 DEF Saved
  <2>2. LiveBut(rows, b)
    BY <1>8 DEF LiveBut
  <2>3. DisplayedFrom(rows, b)
    BY <1>7 DEF DisplayedFrom
  <2> QED
    BY <1>1, <1>4, <1>11, <2>1, <2>2, <2>3, RegisterLive, RegisterSummary DEF Tracked
<1> QED
  BY <1>2, <1>9, <1>10, <1>11 DEF OwnResult, rows

\* Every step keeps both
LEMMA TrackedInductive ==
    ASSUME SpendLedger, AnswersSettled, Tracked, [Next]_vars
    PROVE  Tracked'
<1>1. CASE QuietStep
  BY <1>1 DEF QuietStep, Tracked, LiveRequestTracksText, SummaryIsPaidAndCurrent
<1>2. ASSUME NEW b \in Bills, NEW t \in Texts, MarkStep(b, t)
      PROVE  Tracked'
  <2>1. ASSUME NEW k \in Requests
        PROVE  /\ requests'[k].bill = requests[k].bill /\ requests'[k].text = requests[k].text
               /\ requests'[k].status \in Active => requests[k].status \in Active
               /\ requests[k].status = "completed" => requests'[k] = requests[k]
    <3>1. requests[k] \in Row
      BY DEF SpendLedger, LedgerOK
    <3>2. CASE requests'[k] = requests[k]
      BY <3>2
    <3>3. CASE /\ requests[k].status = "waiting_for_search"
               /\ requests'[k] = [requests[k] EXCEPT !.status = "ready", !.gated = FALSE]
      BY <3>1, <3>3 DEF Row, Active
    <3> QED
      BY <1>2, <3>2, <3>3 DEF MarkStep, MarkReady, Promoted
  <2>2. text' = text /\ summary' = summary
    BY <1>2 DEF MarkStep
  <2>3. LiveRequestTracksText'
    BY <2>1, <2>2 DEF Tracked, LiveRequestTracksText
  <2>4. SummaryIsPaidAndCurrent'
    BY <2>1, <2>2 DEF Tracked, SummaryIsPaidAndCurrent
  <2> QED
    BY <2>3, <2>4 DEF Tracked
<1> QED
  BY <1>1, <1>2, TrackedSave, TrackedOvertaken, TrackedOwn, StepShapes

\* A request becomes ready only next to search rows for its text
LEMMA ReadyStep ==
    ASSUME SpendLedger, AnswersSettled, [Next]_vars, NEW i \in Requests,
           requests'[i].status = "ready", requests[i].status # "ready"
    PROVE  search'[requests'[i].bill] = requests'[i].text
<1>1. /\ LedgerOK(requests) /\ context \in Contexts
      /\ summary \in [Bills -> (Texts \X Contexts) \cup {None}]
  BY DEF SpendLedger, TypeOK
<1>2. CASE QuietStep
  BY <1>2 DEF QuietStep
<1>3. ASSUME NEW b \in Bills, NEW t \in Texts, MarkStep(b, t)
      PROVE  search'[requests'[i].bill] = requests'[i].text
  <2>1. requests[i] \in Row
    BY <1>1 DEF LedgerOK
  <2>2. /\ Identity(requests[i]) = <<b, t, context>>
        /\ requests'[i] = [requests[i] EXCEPT !.status = "ready", !.gated = FALSE]
    BY <1>3 DEF MarkStep, MarkReady, Promoted
  <2>3. requests'[i].bill = b /\ requests'[i].text = t
    BY <2>1, <2>2 DEF Identity, Row
  <2> QED
    BY <1>3, <2>3 DEF MarkStep
<1>4. ASSUME NEW b \in Bills, NEW t \in Texts \cup {None}, SaveStep(b, t)
      PROVE  search'[requests'[i].bill] = requests'[i].text
  <2>1. Registered(requests[i], requests'[i], b, t, search'[b])
    BY <1>1, <1>4, RegisterRows DEF SaveStep
  <2> QED
    BY <2>1 DEF Registered
<1>5. ASSUME NEW n \in Requests, OvertakenStep(n)
      PROVE  search'[requests'[i].bill] = requests'[i].text
  <2> DEFINE b == requests[n].bill
             R == [requests EXCEPT ![n].status = "superseded", ![n].gated = FALSE]
  <2>1. /\ LedgerOK(R) /\ b \in Bills /\ text[b] \in Texts \cup {None}
        /\ R[n].status = "superseded" /\ \A k \in Requests \ {n} : R[k] = requests[k]
    BY <1>5, OvertakenRows
  <2>2. Register(R, b, text[b], search[b]) /\ search' = search
    BY <1>5 DEF OvertakenStep
  <2> HIDE DEF R
  <2>3. Registered(R[i], requests'[i], b, text[b], search[b])
    BY <1>1, <2>1, <2>2, RegisterRows
  <2> QED
    BY <2>1, <2>2, <2>3 DEF Registered
<1>6. ASSUME NEW j \in Jobs, NEW n \in Requests, OwnStep(j, n)
      PROVE  search'[requests'[i].bill] = requests'[i].text
  <2>1. PICK q \in Row : OwnChange(requests[n], q) /\ OwnResult(n, q)
    BY <1>6, OwnShape
  <2> DEFINE b == requests[n].bill
             rows == [requests EXCEPT ![n] = q]
  <2>2. rows[n] = q /\ \A k \in Requests \ {n} : rows[k] = requests[k]
    BY <1>1 DEF LedgerOK
  <2>3. rows[i].status # "ready"
    BY <2>1, <2>2 DEF OwnChange
  <2>4. search' = search
    BY <1>6, OwnShape
  <2>5. CASE requests' = rows
    BY <2>3, <2>5
  <2>6. CASE LedgerOK(rows) /\ Register(rows, b, text[b], search[b])
    <3>1. b \in Bills /\ text[b] \in Texts \cup {None}
      BY <2>1, OwnBill DEF OwnChange
    <3> HIDE DEF rows
    <3>2. Registered(rows[i], requests'[i], b, text[b], search[b])
      BY <1>1, <2>6, <3>1, RegisterRows
    <3> QED
      BY <2>3, <2>4, <3>2 DEF Registered
  <2> QED
    BY <2>1, <2>5, <2>6 DEF OwnResult
<1> QED
  BY <1>2, <1>3, <1>4, <1>5, <1>6, StepShapes

\* A usable answer that has just been stored, or whose text has just been saved again,
\* is displayed
LEMMA AnswerStep ==
    ASSUME SpendLedger, AnswersSettled, [Next]_vars, NEW i \in Requests,
           requests[i].bill # None, requests'[i].response = "citable",
           requests'[i].text = text'[requests[i].bill], requests'[i].context = context',
           text'[requests[i].bill] # text[requests[i].bill] \/ requests[i].response = "none"
    PROVE  summary'[requests[i].bill] = <<requests'[i].text, requests'[i].context>>
<1> DEFINE b == requests[i].bill
           Goal == summary'[b] = <<requests'[i].text, requests'[i].context>>
<1>1. /\ LedgerOK(requests) /\ context \in Contexts /\ text \in [Bills -> Texts \cup {None}]
      /\ summary \in [Bills -> (Texts \X Contexts) \cup {None}]
  BY DEF SpendLedger, TypeOK
<1>2. /\ requests[i] \in Row /\ RowOK(requests[i]) /\ requests[i].status # "absent"
      /\ b \in Bills /\ requests[i].text \in Texts
  <2>1. requests[i] \in Row /\ RowOK(requests[i])
    BY <1>1 DEF LedgerOK
  <2>2. requests[i].status # "absent"
    BY <2>1 DEF RowOK, NoRow
  <2> QED
    BY <2>1, <2>2, OwnBill
<1>3. ASSUME text' = text, requests'[i].response = requests[i].response PROVE FALSE
  BY <1>3
<1>4. CASE QuietStep
  BY <1>3, <1>4 DEF QuietStep
<1>5. ASSUME NEW c \in Bills, NEW t \in Texts, MarkStep(c, t) PROVE Goal
  <2>1. requests'[i].response = requests[i].response
    BY <1>2, <1>5 DEF MarkStep, MarkReady, Promoted, Row
  <2> QED
    BY <1>3, <1>5, <2>1 DEF MarkStep
<1>6. ASSUME NEW c \in Bills, NEW t \in Texts \cup {None}, SaveStep(c, t) PROVE Goal
  <2>1. Registered(requests[i], requests'[i], c, t, search'[c])
    BY <1>1, <1>6, RegisterRows DEF SaveStep
  <2>2. requests[i].response = "citable" /\ Identity(requests'[i]) = Identity(requests[i])
    BY <1>2, <2>1 DEF Registered
  <2>3. c = b /\ text'[b] = t
    BY <1>1, <1>2, <1>6, <2>2 DEF SaveStep
  <2>4. requests[i].status \in {"completed", "superseded"}
    BY <2>2 DEF AnswersSettled
  <2>5. Identity(requests'[i]) = <<b, t, context>> /\ t # None
    <3>1. requests'[i].bill = b /\ requests'[i].text = t /\ requests'[i].text \in Texts
      BY <1>2, <2>2, <2>3 DEF Identity
    <3>2. requests'[i].context = context
      BY <1>6 DEF SaveStep
    <3> QED
      BY <3>1, <3>2, DomainAssumption DEF Identity
  <2>6. summary'[b] = <<t, context>>
    BY <1>1, <1>6, <2>2, <2>3, <2>4, <2>5, RegisterRows DEF SaveStep
  <2> QED
    BY <2>5, <2>6 DEF Identity
<1>7. ASSUME NEW n \in Requests, OvertakenStep(n) PROVE Goal
  <2> DEFINE c == requests[n].bill
             R == [requests EXCEPT ![n].status = "superseded", ![n].gated = FALSE]
  <2>1. /\ LedgerOK(R) /\ c \in Bills /\ text[c] \in Texts \cup {None}
        /\ R[n].response = requests[n].response
        /\ \A k \in Requests \ {n} : R[k] = requests[k]
    BY <1>7, OvertakenRows
  <2>2. Register(R, c, text[c], search[c]) /\ text' = text
    BY <1>7 DEF OvertakenStep
  <2> HIDE DEF R
  <2>3. Registered(R[i], requests'[i], c, text[c], search[c])
    BY <1>1, <2>1, <2>2, RegisterRows
  <2> QED
    BY <1>3, <2>1, <2>2, <2>3 DEF Registered
<1>8. ASSUME NEW j \in Jobs, NEW n \in Requests, OwnStep(j, n) PROVE Goal
  <2>1. PICK q \in Row : OwnChange(requests[n], q) /\ OwnResult(n, q)
    BY <1>8, OwnShape
  <2> DEFINE c == requests[n].bill
             rows == [requests EXCEPT ![n] = q]
  <2>2. rows[n] = q /\ \A k \in Requests \ {n} : rows[k] = requests[k]
    BY <1>1 DEF LedgerOK
  <2>3. text' = text /\ context' = context
    BY <1>8, OwnShape
  <2>4. CASE requests' = rows
    <3>1. n = i
      BY <1>3, <2>2, <2>3, <2>4
    <3>2. /\ q.text = requests[i].text /\ q.response = "citable"
          /\ requests'[i] = q /\ text[b] = requests[i].text
      BY <2>1, <2>2, <2>3, <2>4, <3>1 DEF OwnChange
    <3>3. q.response # requests[i].response
      BY <1>3, <2>3, <3>2
    <3>4. CASE summary' = [summary EXCEPT ![b] = <<requests[i].text, requests[i].context>>]
               /\ q.context = requests[i].context
      BY <1>1, <1>2, <3>2, <3>4
    <3>5. CASE Register(rows, b, text[b], search[b]) /\ LedgerOK(rows)
               /\ q.status = "superseded" /\ text[b] # None
      <4>1. /\ rows[i].response = "citable" /\ rows[i].status = "superseded"
            /\ Identity(requests'[i]) = <<b, text[b], context>>
        BY <2>1, <2>2, <2>3, <3>1, <3>2, <3>5 DEF OwnChange, Identity
      <4>2. text[b] \in Texts \cup {None}
        BY <1>1, <1>2
      <4> HIDE DEF rows
      <4>3. summary'[b] = <<text[b], context>>
        BY <1>1, <1>2, <3>5, <4>1, <4>2, RegisterRows
      <4> QED
        BY <4>1, <4>3 DEF Identity
    <3> QED
      BY <2>1, <3>1, <3>2, <3>3, <3>4, <3>5 DEF OwnResult
  <2>5. CASE /\ LedgerOK(rows) /\ q.status = "superseded" /\ text[c] # None
             /\ Register(rows, c, text[c], search[c])
    <3>1. c \in Bills /\ text[c] \in Texts \cup {None}
      BY <2>1, OwnBill DEF OwnChange
    <3>2. Registered(rows[i], requests'[i], c, text[c], search[c])
      <4> HIDE DEF rows
      <4> QED
        BY <1>1, <2>5, <3>1, RegisterRows
    <3>3. rows[i].response = "citable"
      BY <3>2 DEF Registered
    <3>4. n = i
      BY <1>3, <2>2, <2>3, <3>2 DEF Registered
    <3>5. rows[i].status = "superseded" /\ c = b
          /\ rows[i].bill = b /\ rows[i].text = requests[i].text
      BY <2>1, <2>2, <2>5, <3>4 DEF OwnChange
    <3>6. Identity(requests'[i]) = Identity(rows[i])
      BY <3>2, <3>5 DEF Registered
    <3>7. requests'[i].bill = b
      BY <3>5, <3>6 DEF Identity
    <3>8. Identity(requests'[i]) = <<b, text[b], context>>
      BY <2>3, <3>7 DEF Identity
    <3>9. summary'[b] = <<text[b], context>>
      <4> HIDE DEF rows
      <4> QED
        BY <1>1, <2>5, <3>1, <3>3, <3>5, <3>8, RegisterRows
    <3> QED
      BY <3>8, <3>9 DEF Identity
  <2> QED
    BY <2>1, <2>4, <2>5 DEF OwnResult
<1> QED
  BY <1>4, <1>5, <1>6, <1>7, <1>8, StepShapes

\* The ledger with its answers settled, its live requests and summaries tracked
LEMMA TrackedInit == Init => AnswersSettled /\ Tracked
<1> SUFFICES ASSUME Init PROVE AnswersSettled /\ Tracked
  OBVIOUS
<1>1. /\ \A i \in Requests : requests[i].status = "absent" /\ requests[i].response = "none"
      /\ \A j \in Jobs : jobs[j].state = "free"
      /\ \A b \in Bills : summary[b] = None
  BY DEF Init, NoRow, FreeJob
<1> QED
  BY <1>1 DEF AnswersSettled, Tracked, LiveRequestTracksText, SummaryIsPaidAndCurrent, Active

\* In every reachable state usable answers are out of failed rows, and every live request
\* and displayed summary is for the saved text
THEOREM TrackedInvariant == Spec => [](SpendLedger /\ AnswersSettled /\ Tracked)
<1>1. Init => SpendLedger /\ AnswersSettled /\ Tracked
  BY LedgerInit, TrackedInit
<1>2. SpendLedger /\ AnswersSettled /\ Tracked /\ [Next]_vars
        => (SpendLedger /\ AnswersSettled /\ Tracked)'
  BY LedgerInductive, SettledInductive, TrackedInductive
<1> QED
  BY <1>1, <1>2, PTL DEF Spec

\* A bill never has two live requests, or one for a text that is no longer saved
THEOREM LiveRequestsTrack == Spec => []LiveRequestTracksText
<1>1. Tracked => LiveRequestTracksText
  BY DEF Tracked
<1> QED
  BY <1>1, TrackedInvariant, PTL

\* No summary of an earlier text, and none that was not paid for, is ever displayed
THEOREM SummariesPaidAndCurrent == Spec => []SummaryIsPaidAndCurrent
<1>1. Tracked => SummaryIsPaidAndCurrent
  BY DEF Tracked
<1> QED
  BY <1>1, TrackedInvariant, PTL

\* No interleaving of saving and indexing makes a request ready before its text is indexed
THEOREM ReadyIsSearchable == Spec => ReadyMeansSearchable
<1>1. SpendLedger /\ AnswersSettled /\ [Next]_vars =>
        [\A i \in Requests :
            requests'[i].status = "ready" /\ requests[i].status # "ready"
                => search'[requests'[i].bill] = requests'[i].text]_vars
  BY ReadyStep
<1> QED
  BY <1>1, TrackedInvariant, PTL DEF Spec, ReadyMeansSearchable

\* No paid, usable answer for the saved text is left undisplayed
THEOREM PaidAnswersAreUsed == Spec => PaidAnswerIsUsed
<1>1. SpendLedger /\ AnswersSettled /\ [Next]_vars =>
        [\A i \in Requests :
            LET b == requests[i].bill IN
            (/\ b # None
             /\ requests'[i].response = "citable"
             /\ requests'[i].text = text'[b] /\ requests'[i].context = context'
             /\ text'[b] # text[b] \/ requests[i].response = "none")
            => summary'[b] = <<requests'[i].text, requests'[i].context>>]_vars
  BY AnswerStep
<1> QED
  BY <1>1, TrackedInvariant, PTL DEF Spec, PaidAnswerIsUsed

----------------------------------------------------------------------------
(* Purchases: what the rows R and the queue J make of each exact identity *)

\* Job j of queue J is calling the provider for request i
Out(J, i) == \E j \in Jobs : J[j] = [request |-> i, state |-> "calling"]

PaidIn(R, k) == {i \in Requests : Started(R[i]) /\ Identity(R[i]) = k}

PurchaseIn(R, J, k) ==
    IF PaidIn(R, k) = {} THEN "none"
    ELSE IF \E i \in PaidIn(R, k) : R[i].response = "citable" THEN "usable"
    ELSE IF \E i \in PaidIn(R, k) : Out(J, i) THEN "out"
    ELSE "wasted"

PurchasesIn(R, J) == [k \in Identities |-> PurchaseIn(R, J, k)]

\* The refinement mapping before and after a step
LEMMA PurchasesMapped ==
    /\ Purchases = PurchasesIn(requests, jobs)
    /\ Purchases' = PurchasesIn(requests', jobs')
<1>1. ASSUME NEW k PROVE PurchaseOf(k) = PurchaseIn(requests, jobs, k)
  BY DEF PurchaseOf, PurchaseIn, PaidRows, PaidIn, Calls, Out
<1>2. ASSUME NEW k PROVE PurchaseOf(k)' = PurchaseIn(requests', jobs', k)
  BY DEF PurchaseOf, PurchaseIn, PaidRows, PaidIn, Calls, Out
<1> QED
  BY <1>1, <1>2 DEF Purchases, PurchasesIn

\* Rows that agree on what was paid for, and on which calls are out, show the same
SamePaid(R, Q, i) ==
    /\ Started(Q[i]) <=> Started(R[i])
    /\ Started(R[i]) => Identity(Q[i]) = Identity(R[i]) /\ Q[i].response = R[i].response

LEMMA PurchasesKept ==
    ASSUME NEW R, NEW Q, NEW J, NEW K,
           \A i \in Requests : SamePaid(R, Q, i) /\ (Out(K, i) <=> Out(J, i))
    PROVE  PurchasesIn(Q, K) = PurchasesIn(R, J)
<1>1. ASSUME NEW k \in Identities PROVE PurchaseIn(Q, K, k) = PurchaseIn(R, J, k)
  <2>1. PaidIn(Q, k) = PaidIn(R, k)
    BY DEF PaidIn, SamePaid
  <2>2. \A i \in PaidIn(R, k) : Q[i].response = R[i].response /\ (Out(K, i) <=> Out(J, i))
    BY DEF PaidIn, SamePaid
  <2> QED
    BY <2>1, <2>2 DEF PurchaseIn
<1> QED
  BY <1>1 DEF PurchasesIn

\* The unique constraint: an identity has one paid row
LEMMA PaidAlone ==
    ASSUME NEW R, NEW i \in Requests, LedgerOK(R), Started(R[i])
    PROVE  PaidIn(R, Identity(R[i])) = {i}
<1>1. ASSUME NEW k \in PaidIn(R, Identity(R[i])) PROVE k = i
  <2>1. RowOK(R[i]) /\ RowOK(R[k])
    BY DEF LedgerOK, PaidIn
  <2> QED
    BY <1>1, <2>1 DEF LedgerOK, UniqueIdentity, PaidIn, RowOK
<1> QED
  BY <1>1 DEF PaidIn

\* What one paid row, whose call is out or not, shows
PurchaseOfRow(r, out) ==
    IF r.response = "citable" THEN "usable" ELSE IF out THEN "out" ELSE "wasted"

\* A step of one paid row changes the purchase of its own identity and no other
OnlyChanges(p, q, own, outcome) ==
    \A k \in Identities : q[k] = IF k = own THEN outcome ELSE p[k]

LEMMA PurchaseChanged ==
    ASSUME NEW R, NEW Q, NEW J, NEW K, NEW i \in Requests,
           LedgerOK(Q), Started(Q[i]), Identity(Q[i]) \in Identities,
           Started(R[i]) => Identity(R[i]) = Identity(Q[i]),
           \A k \in Requests \ {i} : SamePaid(R, Q, k) /\ (Out(K, k) <=> Out(J, k))
    PROVE  OnlyChanges(PurchasesIn(R, J), PurchasesIn(Q, K), Identity(Q[i]),
                       PurchaseOfRow(Q[i], Out(K, i)))
<1> DEFINE own == Identity(Q[i])
<1>1. PaidIn(Q, own) = {i}
  BY PaidAlone
<1>2. PurchaseIn(Q, K, own) = PurchaseOfRow(Q[i], Out(K, i))
  BY <1>1 DEF PurchaseIn, PurchaseOfRow
<1>3. ASSUME NEW k \in Identities, k # own PROVE PurchaseIn(Q, K, k) = PurchaseIn(R, J, k)
  <2>1. i \notin PaidIn(Q, k) /\ i \notin PaidIn(R, k)
    BY <1>3 DEF PaidIn
  <2>2. PaidIn(Q, k) = PaidIn(R, k)
    BY <2>1 DEF PaidIn, SamePaid
  <2>3. \A n \in PaidIn(R, k) : Q[n].response = R[n].response /\ (Out(K, n) <=> Out(J, n))
    BY <2>1 DEF PaidIn, SamePaid
  <2> QED
    BY <2>2, <2>3 DEF PurchaseIn
<1> QED
  BY <1>2, <1>3 DEF PurchasesIn, OnlyChanges

\* The purchase of a paid row, and of an identity no row was paid for
LEMMA PurchaseOfPaid ==
    ASSUME NEW R, NEW J, NEW i \in Requests,
           LedgerOK(R), Started(R[i]), Identity(R[i]) \in Identities
    PROVE  PurchasesIn(R, J)[Identity(R[i])] = PurchaseOfRow(R[i], Out(J, i))
<1>1. PaidIn(R, Identity(R[i])) = {i}
  BY PaidAlone
<1> QED
  BY <1>1 DEF PurchasesIn, PurchaseIn, PurchaseOfRow

LEMMA Unpurchased ==
    ASSUME NEW R, NEW J, NEW k \in Identities,
           \A i \in Requests : Started(R[i]) => Identity(R[i]) # k
    PROVE  PurchasesIn(R, J)[k] = "none"
  BY DEF PurchasesIn, PurchaseIn, PaidIn

\* A usable purchase is a paid row with a usable answer
LEMMA UsablePurchase ==
    ASSUME NEW R, NEW J, NEW k \in Identities
    PROVE  PurchasesIn(R, J)[k] = "usable" <=>
               \E i \in Requests : /\ Started(R[i]) /\ Identity(R[i]) = k
                                   /\ R[i].response = "citable"
  BY DEF PurchasesIn, PurchaseIn, PaidIn

----------------------------------------------------------------------------
(* Registering a text displays what the purchases offer for it *)

\* Whatever the rows were when the summary was displayed, it was for a usable answer
ShownUsable(R, b) ==
    summary[b] # None =>
        \E i \in Requests :
            /\ Identity(R[i]) = <<b, summary[b][1], summary[b][2]>>
            /\ R[i].response = "citable"

\* A usable answer is only ever in a row that can be used again
AnswersUsable(R) ==
    \A i \in Requests : R[i].response = "citable" => R[i].status \in {"completed", "superseded"}

\* A registration assigns the displayed summary of its own bill
LEMMA SummaryOfOne ==
    ASSUME NEW R, NEW b \in Bills, NEW t, NEW s,
           summary \in [Bills -> (Texts \X Contexts) \cup {None}],
           Register(R, b, t, s)
    PROVE  summary' = [summary EXCEPT ![b] = summary'[b]]
  BY DEF Register

\* So it shows what the rows offer for the text, whoever is calling
LEMMA RegisterShows ==
    ASSUME NEW R, LedgerOK(R), NEW b \in Bills, NEW t \in Texts \cup {None}, NEW s,
           context \in Contexts, summary \in [Bills -> (Texts \X Contexts) \cup {None}],
           Register(R, b, t, s), AnswersUsable(R), ShownUsable(R, b), NEW J
    PROVE  summary' = Promise!Displayed(PurchasesIn(R, J), b, t)
<1> DEFINE k == <<b, t, context>>
<1>1. /\ \A i \in Requests : Registered(R[i], requests'[i], b, t, s)
      /\ summary'[b] # None =>
            /\ t # None /\ summary'[b] = <<t, context>>
            /\ \/ summary[b] = <<t, context>>
               \/ \E i \in Requests :
                    /\ Identity(requests'[i]) = k /\ requests'[i].status = "completed"
      /\ \A i \in Requests :
            /\ t # None /\ R[i].response = "citable" /\ R[i].status \in {"completed", "superseded"}
            /\ Identity(requests'[i]) = k
            => summary'[b] = <<t, context>>
  <2>1. \A i \in Requests : Registered(R[i], requests'[i], b, t, s)
    BY RegisterRows
  <2>2. summary'[b] # None =>
            /\ t # None /\ summary'[b] = <<t, context>>
            /\ \/ summary[b] = <<t, context>>
               \/ \E i \in Requests :
                    /\ Identity(requests'[i]) = k /\ requests'[i].status = "completed"
    BY RegisterRows
  <2>3. ASSUME NEW i \in Requests, t # None, R[i].response = "citable",
               R[i].status \in {"completed", "superseded"}, Identity(requests'[i]) = k
        PROVE  summary'[b] = <<t, context>>
    BY <2>3, RegisterRows
  <2> QED
    BY <2>1, <2>2, <2>3
<1>2. \A i \in Requests :
        /\ RowOK(R[i]) /\ RowOK(requests'[i])
        /\ R[i].response = "citable" => Started(R[i]) /\ R[i].status # "absent"
  BY RegisterLedger DEF LedgerOK, RowOK, Started, NoRow
<1>3. CASE t # None
  <2>1. k \in Identities
    BY <1>3 DEF Identities
  <2>2. ASSUME NEW i \in Requests, Started(R[i]), Identity(R[i]) = k, R[i].response = "citable"
        PROVE  summary'[b] = <<t, context>>
    <3>1. Identity(requests'[i]) = k
      BY <1>1, <1>2, <2>2 DEF Registered
    <3> QED
      BY <1>1, <1>3, <2>2, <3>1 DEF AnswersUsable
  <2>3. ASSUME summary'[b] # None
        PROVE  \E i \in Requests : /\ Started(R[i]) /\ Identity(R[i]) = k
                                   /\ R[i].response = "citable"
    <3>1. CASE summary[b] = <<t, context>>
      <4>1. summary[b] # None /\ summary[b][1] = t /\ summary[b][2] = context
        BY <1>1, <2>3, <3>1
      <4> QED
        BY <1>2, <4>1 DEF ShownUsable
    <3>2. ASSUME NEW i \in Requests, Identity(requests'[i]) = k, requests'[i].status = "completed"
          PROVE  Started(R[i]) /\ Identity(R[i]) = k /\ R[i].response = "citable"
      <4>1. R[i].response = "citable"
        BY <1>1, <1>2, <3>2 DEF RowOK, Registered
      <4> QED
        BY <1>1, <1>2, <3>2, <4>1 DEF Registered
    <3> QED
      BY <1>1, <2>3, <3>1, <3>2
  <2>4. summary'[b] = <<t, context>> \/ summary'[b] = None
    BY <1>1
  <2>5. summary'[b] = Promise!Offer(PurchasesIn(R, J), b, t)
    <3>1. CASE PurchasesIn(R, J)[k] = "usable"
      BY <1>3, <2>1, <2>2, <3>1, UsablePurchase DEF Promise!Offer
    <3>2. CASE PurchasesIn(R, J)[k] # "usable"
      BY <1>3, <2>1, <2>3, <3>2, UsablePurchase DEF Promise!Offer
    <3> QED
      BY <3>1, <3>2
  <2> QED
    BY <2>5, SummaryOfOne DEF Promise!Displayed
<1>4. CASE t = None
  <2>1. summary'[b] = Promise!Offer(PurchasesIn(R, J), b, t)
    BY <1>1, <1>4 DEF Promise!Offer
  <2> QED
    BY <2>1, SummaryOfOne DEF Promise!Displayed
<1> QED
  BY <1>3, <1>4

----------------------------------------------------------------------------
(* The calls that are out before and after a step of one job *)

JobsType == [Jobs -> [request : Requests \cup {None},
                      state : {"free", "available", "calling", "orphaned", "discarded"}]]

\* A job that neither was nor becomes a running call
LEMMA OutKept ==
    ASSUME jobs \in JobsType, NEW j \in Jobs, NEW x, jobs' = [jobs EXCEPT ![j] = x],
           jobs[j].state # "calling", x.state # "calling", NEW i
    PROVE  Out(jobs', i) <=> Out(jobs, i)
<1>1. \A n \in Jobs \ {j} : jobs'[n] = jobs[n]
  BY DEF JobsType
<1>2. jobs'[j] = x
  BY DEF JobsType
<1> QED
  BY <1>1, <1>2 DEF Out

\* A running call that ends: its row has no other, and the rest stay out
LEMMA OutEnded ==
    ASSUME SpendLedger, NEW j \in Jobs, NEW i \in Requests, Calls(j, i), NEW x,
           jobs' = [jobs EXCEPT ![j] = x], x.state # "calling"
    PROVE  /\ Out(jobs, i) /\ ~Out(jobs', i)
           /\ \A k \in Requests \ {i} : Out(jobs', k) <=> Out(jobs, k)
<1>1. \A n \in Jobs \ {j} : jobs'[n] = jobs[n]
  BY DEF SpendLedger, TypeOK
<1>2. jobs'[j] = x
  BY DEF SpendLedger, TypeOK
<1>3. jobs[j].request = i /\ jobs[j].state = "calling"
  BY DEF Calls
<1>4. ASSUME NEW n \in Jobs, jobs[n] = [request |-> i, state |-> "calling"] PROVE n = j
  <2>1. jobs[n].request = i /\ jobs[n].state = "calling"
    BY <1>4
  <2> QED
    BY <1>3, <2>1 DEF SpendLedger, Referenced
<1>5. ~Out(jobs', i)
  BY <1>1, <1>2, <1>4 DEF Out
<1>6. Out(jobs, i)
  BY DEF Out, Calls
<1>7. ASSUME NEW k \in Requests \ {i} PROVE Out(jobs', k) <=> Out(jobs, k)
  BY <1>1, <1>2, <1>3, <1>7 DEF Out
<1> QED
  BY <1>5, <1>6, <1>7

\* A paid call that begins
LEMMA OutBegun ==
    ASSUME jobs \in JobsType, NEW j \in Jobs, NEW i \in Requests, Runs(j, i),
           jobs' = [jobs EXCEPT ![j].state = "calling"]
    PROVE  /\ Out(jobs', i)
           /\ \A k \in Requests \ {i} : Out(jobs', k) <=> Out(jobs, k)
<1>1. \A n \in Jobs \ {j} : jobs'[n] = jobs[n]
  BY DEF JobsType
<1>2. jobs'[j] = [request |-> i, state |-> "calling"] /\ jobs[j].state = "available"
  BY DEF JobsType, Runs
<1>3. Out(jobs', i)
  BY <1>2 DEF Out
<1>4. ASSUME NEW k \in Requests \ {i} PROVE Out(jobs', k) <=> Out(jobs, k)
  <2>1. jobs'[j] # [request |-> k, state |-> "calling"]
    BY <1>2
  <2>2. jobs[j] # [request |-> k, state |-> "calling"]
    BY <1>2
  <2> QED
    BY <1>1, <2>1, <2>2 DEF Out
<1> QED
  BY <1>3, <1>4

\* A job that completes without having called
LEMMA DoneKeepsOut ==
    ASSUME SpendLedger, NEW j \in Jobs, JobDone(j), jobs[j].state # "calling", NEW i
    PROVE  Out(jobs', i) <=> Out(jobs, i)
<1>1. jobs \in JobsType
  BY DEF SpendLedger, TypeOK, JobsType
<1>2. jobs' = [jobs EXCEPT ![j] = FreeJob] /\ FreeJob.state # "calling"
  BY DEF JobDone, FreeJob
<1> QED
  BY <1>1, <1>2, OutKept

----------------------------------------------------------------------------
(* Each action keeps the promise *)

\* A step that pays for nothing, ends no call and displays nothing
LEMMA Unnoticed ==
    ASSUME UNCHANGED <<text, context, summary>>,
           \A i \in Requests :
                SamePaid(requests, requests', i) /\ (Out(jobs', i) <=> Out(jobs, i))
    PROVE  UNCHANGED Promise!vars
  BY PurchasesKept, PurchasesMapped DEF Promise!vars

LEMMA SameRow ==
    ASSUME NEW R, NEW Q, NEW i, Q[i] = R[i]
    PROVE  SamePaid(R, Q, i)
  BY DEF SamePaid

\* What registration does to a row is not a purchase
LEMMA RegisteredPaid ==
    ASSUME NEW R, LedgerOK(R), NEW Q, NEW i \in Requests, NEW b, NEW t, NEW s,
           Registered(R[i], Q[i], b, t, s)
    PROVE  SamePaid(R, Q, i)
<1>1. RowOK(R[i])
  BY DEF LedgerOK
<1> QED
  BY <1>1 DEF Registered, SamePaid, RowOK, Started, NoRow

LEMMA SettledUsable ==
    ASSUME SpendLedger, AnswersSettled, Tracked, NEW b \in Bills
    PROVE  AnswersUsable(requests) /\ ShownUsable(requests, b)
  BY DEF AnswersSettled, Tracked, SummaryIsPaidAndCurrent, AnswersUsable, ShownUsable

LEMMA SaveKeeps ==
    ASSUME SpendLedger, AnswersSettled, Tracked, NEW b \in Bills, NEW t \in Texts \cup {None},
           SaveStep(b, t)
    PROVE  Promise!Save(b, t)
<1>1. /\ LedgerOK(requests) /\ context \in Contexts
      /\ summary \in [Bills -> (Texts \X Contexts) \cup {None}]
  BY DEF SpendLedger, TypeOK
<1>2. /\ Register(requests, b, t, search'[b]) /\ text' = [text EXCEPT ![b] = t]
      /\ context' = context /\ jobs' = jobs
  BY DEF SaveStep
<1>3. summary' = Promise!Displayed(Purchases, b, t)
  BY <1>1, <1>2, RegisterShows, SettledUsable, PurchasesMapped
<1>4. \A i \in Requests : SamePaid(requests, requests', i)
  <2>1. \A i \in Requests : Registered(requests[i], requests'[i], b, t, search'[b])
    BY <1>1, <1>2, RegisterRows
  <2> QED
    BY <1>1, <2>1, RegisteredPaid
<1>5. Purchases' = Purchases
  BY <1>2, <1>4, PurchasesKept, PurchasesMapped
<1> QED
  BY <1>2, <1>3, <1>5 DEF Promise!Save

LEMMA OvertakenKeeps ==
    ASSUME SpendLedger, AnswersSettled, Tracked, NEW j \in Jobs, NEW i \in Requests,
           ClaimOutdatedText(j, i) \/ ClaimOutdatedPrompt(j, i), OvertakenStep(i)
    PROVE  Promise!Save(requests[i].bill, text[requests[i].bill])
<1> DEFINE b == requests[i].bill
           R == [requests EXCEPT ![i].status = "superseded", ![i].gated = FALSE]
<1>1. /\ context \in Contexts /\ text \in [Bills -> Texts \cup {None}]
      /\ summary \in [Bills -> (Texts \X Contexts) \cup {None}]
  BY DEF SpendLedger, TypeOK
<1>2. /\ LedgerOK(R) /\ b \in Bills /\ text[b] \in Texts \cup {None}
      /\ R[i].status = "superseded" /\ R[i].response = requests[i].response
      /\ Identity(R[i]) = Identity(requests[i]) /\ R[i].startedIn = requests[i].startedIn
      /\ \A k \in Requests \ {i} : R[k] = requests[k]
  BY OvertakenRows
<1>3. /\ Register(R, b, text[b], search[b]) /\ text' = text /\ context' = context
  BY DEF OvertakenStep
<1>4. ASSUME NEW k PROVE Out(jobs', k) <=> Out(jobs, k)
  <2>1. Runs(j, i) /\ JobDone(j)
    BY DEF ClaimOutdatedText, ClaimOutdatedPrompt
  <2>2. jobs[j].state # "calling"
    BY <2>1 DEF Runs
  <2> QED
    BY <2>1, <2>2, DoneKeepsOut
<1> HIDE DEF R
<1>5. AnswersUsable(R) /\ ShownUsable(R, b)
  <2>1. AnswersUsable(requests) /\ ShownUsable(requests, b)
    BY <1>2, SettledUsable
  <2> QED
    BY <1>2, <2>1 DEF AnswersUsable, ShownUsable
<1>6. \A k \in Requests : SamePaid(requests, R, k)
  BY <1>2, SameRow DEF SamePaid, Started
<1>7. \A k \in Requests : SamePaid(R, requests', k)
  <2>1. \A k \in Requests : Registered(R[k], requests'[k], b, text[b], search[b])
    BY <1>1, <1>2, <1>3, RegisterRows
  <2> QED
    BY <1>2, <2>1, RegisteredPaid
<1>8. PurchasesIn(R, jobs) = Purchases
  BY <1>6, PurchasesKept, PurchasesMapped
<1>9. Purchases' = Purchases
  BY <1>4, <1>7, <1>8, PurchasesKept, PurchasesMapped
<1>10. summary' = Promise!Displayed(Purchases, b, text[b])
  BY <1>1, <1>2, <1>3, <1>5, <1>8, RegisterShows
<1>11. text' = [text EXCEPT ![b] = text[b]]
  BY <1>1, <1>3
<1> QED
  BY <1>3, <1>9, <1>10, <1>11 DEF Promise!Save

\* A job that finds its call abandoned, refused or held back by a limit buys nothing
LEMMA UnpaidKeeps ==
    ASSUME SpendLedger, NEW j \in Jobs, NEW i \in Requests,
           ClaimAbandoned(j, i) \/ ClaimRefused(j, i) \/ ClaimCapped(j, i)
    PROVE  UNCHANGED Promise!vars
<1> DEFINE r == requests[i]
<1>1. requests \in [Requests -> Row] /\ r \in Row /\ RowOK(r)
  BY DEF SpendLedger, LedgerOK
<1>2. /\ Runs(j, i) /\ JobDone(j) /\ UNCHANGED <<text, context, summary>>
      /\ \E q : requests' = [requests EXCEPT ![i] = q]
  BY DEF ClaimAbandoned, ClaimRefused, ClaimCapped, Claimable
<1>3. ASSUME NEW k PROVE Out(jobs', k) <=> Out(jobs, k)
  <2>1. jobs[j].state # "calling"
    BY <1>2 DEF Runs
  <2> QED
    BY <1>2, <2>1, DoneKeepsOut
<1>4. \A k \in Requests \ {i} : SamePaid(requests, requests', k)
  BY <1>1, <1>2, SameRow
<1>5. SamePaid(requests, requests', i)
  <2>1. CASE ClaimAbandoned(j, i)
    BY <1>1, <2>1 DEF ClaimAbandoned, SamePaid, Row, Started, Identity
  <2>2. CASE ClaimRefused(j, i) \/ ClaimCapped(j, i)
    <3>1. ~Started(r)
      BY <1>1, <2>2 DEF ClaimRefused, ClaimCapped, Claimable, RowOK
    <3>2. requests'[i].startedIn = r.startedIn
      <4>1. CASE ClaimRefused(j, i)
        <5>1. requests' = [requests EXCEPT ![i] = [r EXCEPT !.context = context,
                                                  !.status = "failed", !.gated = TRUE]]
          BY <1>1, <4>1 DEF ClaimRefused
        <5> QED
          BY <1>1, <5>1 DEF Row
      <4>2. CASE ClaimCapped(j, i)
        <5>1. requests' = [requests EXCEPT ![i] = [r EXCEPT !.context = context]]
          BY <1>1, <4>2 DEF ClaimCapped
        <5> QED
          BY <1>1, <5>1 DEF Row
      <4> QED
        BY <2>2, <4>1, <4>2
    <3> QED
      BY <3>1, <3>2 DEF SamePaid, Started
  <2> QED
    BY <2>1, <2>2
<1> QED
  BY <1>2, <1>3, <1>4, <1>5, Unnoticed

\* The paid call is for the saved text under the released prompt, and the first for both
LEMMA PaidKeeps ==
    ASSUME SpendLedger, SpendLedger', NEW j \in Jobs, NEW i \in Requests, ClaimPaid(j, i)
    PROVE  \E b \in Bills : Promise!Buy(b)
<1> DEFINE r == requests[i]
           b == r.bill
           k == <<b, text[b], context>>
           q == [r EXCEPT !.context = context, !.status = "processing", !.startedIn = month,
                          !.claimJob = j, !.reserved = Reservation, !.actual = None,
                          !.gated = FALSE]
<1>1. requests \in [Requests -> Row] /\ r \in Row /\ RowOK(r)
  BY DEF SpendLedger, LedgerOK
<1>2. /\ Runs(j, i) /\ r.status = "ready" /\ text[b] = r.text /\ ~RekeyConflict(i)
      /\ requests' = [requests EXCEPT ![i] = q]
      /\ jobs' = [jobs EXCEPT ![j].state = "calling"] /\ UNCHANGED <<text, context, summary>>
  BY DEF ClaimPaid, Claimable, SameText
<1>3. b \in Bills /\ r.text \in Texts /\ context \in Contexts /\ month # 0
  BY <1>2, OwnBill DEF SpendLedger, TypeOK
<1>4. k \in Identities /\ text[b] # None
  BY <1>2, <1>3, DomainAssumption DEF Identities
<1>5. /\ requests'[i] = q /\ Started(q) /\ Identity(q) = k /\ q.response = "none"
      /\ ~Started(r)
  <2>1. ~Started(r) /\ r.response = "none"
    BY <1>1, <1>2 DEF RowOK
  <2> QED
    BY <1>1, <1>2, <1>3, <2>1 DEF Started, Identity, Row
<1> HIDE DEF q
<1>6. \A n \in Requests \ {i} : Identity(requests[n]) # k
  BY <1>2 DEF RekeyConflict, Rekeyed
<1>7. Purchases[k] = "none"
  BY <1>4, <1>5, <1>6, Unpurchased, PurchasesMapped
<1>8. /\ Out(jobs', i)
      /\ \A n \in Requests \ {i} : Out(jobs', n) <=> Out(jobs, n)
  BY <1>2, OutBegun DEF SpendLedger, TypeOK, JobsType
<1>9. \A n \in Requests \ {i} : SamePaid(requests, requests', n)
  BY <1>1, <1>2, SameRow
<1>10. LedgerOK(requests')
  BY DEF SpendLedger
<1>11. Purchases' = [Purchases EXCEPT ![k] = PurchaseOfRow(q, Out(jobs', i))]
  <2>1. \A n \in Requests \ {i} :
            SamePaid(requests, requests', n) /\ (Out(jobs', n) <=> Out(jobs, n))
    BY <1>8, <1>9
  <2>2. Started(requests'[i]) /\ Identity(requests'[i]) = k /\ ~Started(requests[i])
    BY <1>5
  <2>3. OnlyChanges(PurchasesIn(requests, jobs), PurchasesIn(requests', jobs'),
                    Identity(requests'[i]), PurchaseOfRow(requests'[i], Out(jobs', i)))
    BY <1>4, <1>10, <2>1, <2>2, PurchaseChanged
  <2>4. \A c \in Identities :
            Purchases'[c] = IF c = k THEN PurchaseOfRow(q, Out(jobs', i)) ELSE Purchases[c]
    BY <1>5, <2>2, <2>3, PurchasesMapped DEF OnlyChanges
  <2> QED
    BY <1>4, <2>4 DEF Purchases
<1>12. PurchaseOfRow(q, Out(jobs', i)) = "out"
  BY <1>5, <1>8 DEF PurchaseOfRow
<1>13. Promise!Buy(b)
  BY <1>2, <1>4, <1>7, <1>11, <1>12 DEF Promise!Buy
<1> QED
  BY <1>3, <1>13

\* A call that ends: its purchase was out, and becomes what the row then shows
LEMMA CallEnds ==
    ASSUME SpendLedger, NEW j \in Jobs, NEW i \in Requests, Calls(j, i), NEW x,
           jobs' = [jobs EXCEPT ![j] = x], x.state # "calling",
           NEW Q, LedgerOK(Q), Started(Q[i]), Identity(Q[i]) = Identity(requests[i]),
           \A k \in Requests \ {i} : SamePaid(requests, Q, k)
    PROVE  /\ Identity(requests[i]) \in Identities
           /\ Purchases[Identity(requests[i])] = "out"
           /\ PurchasesIn(Q, jobs') =
                [Purchases EXCEPT ![Identity(requests[i])] =
                    IF Q[i].response = "citable" THEN "usable" ELSE "wasted"]
<1> DEFINE own == Identity(requests[i])
<1>1. /\ Started(requests[i]) /\ requests[i].response = "none" /\ LedgerOK(requests)
      /\ own \in Identities
  BY CallingRow DEF Identity, Identities, SpendLedger
<1>2. /\ Out(jobs, i) /\ ~Out(jobs', i)
      /\ \A k \in Requests \ {i} : Out(jobs', k) <=> Out(jobs, k)
  BY OutEnded
<1>3. Purchases[own] = "out"
  <2>1. Purchases[own] = PurchaseOfRow(requests[i], Out(jobs, i))
    BY <1>1, PurchaseOfPaid, PurchasesMapped
  <2> QED
    BY <1>1, <1>2, <2>1 DEF PurchaseOfRow
<1>4. OnlyChanges(PurchasesIn(requests, jobs), PurchasesIn(Q, jobs'), Identity(Q[i]),
                  PurchaseOfRow(Q[i], Out(jobs', i)))
  <2>1. \A k \in Requests \ {i} :
            SamePaid(requests, Q, k) /\ (Out(jobs', k) <=> Out(jobs, k))
    BY <1>2
  <2>2. Identity(Q[i]) \in Identities /\ Identity(requests[i]) = Identity(Q[i])
    BY <1>1
  <2> QED
    BY <2>1, <2>2, PurchaseChanged
<1>5. PurchaseOfRow(Q[i], Out(jobs', i)) = IF Q[i].response = "citable" THEN "usable" ELSE "wasted"
  BY <1>2 DEF PurchaseOfRow
<1>6. PurchasesIn(Q, jobs') = [Purchases EXCEPT ![own] =
                                    IF Q[i].response = "citable" THEN "usable" ELSE "wasted"]
  BY <1>1, <1>4, <1>5, PurchasesMapped DEF PurchasesIn, OnlyChanges
<1> QED
  BY <1>1, <1>3, <1>6

\* A call that ends with nothing displayed and no usable answer is wasted
LEMMA WastedCall ==
    ASSUME SpendLedger, SpendLedger', NEW j \in Jobs, NEW i \in Requests, Calls(j, i), NEW x,
           jobs' = [jobs EXCEPT ![j] = x], x.state # "calling",
           Identity(requests'[i]) = Identity(requests[i]), Started(requests'[i]),
           requests'[i].response # "citable",
           \A k \in Requests \ {i} : SamePaid(requests, requests', k),
           UNCHANGED <<text, context, summary>>
    PROVE  \E b \in Bills, t \in Texts, c \in Contexts : Promise!Waste(b, t, c)
<1> DEFINE r == requests[i]
<1>1. LedgerOK(requests')
  BY DEF SpendLedger
<1>2. /\ Purchases[Identity(r)] = "out"
      /\ PurchasesIn(requests', jobs') = [Purchases EXCEPT ![Identity(r)] =
            IF requests'[i].response = "citable" THEN "usable" ELSE "wasted"]
  BY <1>1, CallEnds
<1>3. Purchases' = [Purchases EXCEPT ![Identity(r)] = "wasted"]
  BY <1>2, PurchasesMapped
<1>4. Identity(r) = <<r.bill, r.text, r.context>>
  BY DEF Identity
<1>5. Promise!Waste(r.bill, r.text, r.context)
  BY <1>2, <1>3, <1>4 DEF Promise!Waste
<1> QED
  BY <1>5, CallingRow

\* The worker dies while the call is out
LEMMA CrashKeeps ==
    ASSUME SpendLedger, SpendLedger', NEW j \in Jobs, Crash(j)
    PROVE  \E b \in Bills, t \in Texts, c \in Contexts : Promise!Waste(b, t, c)
<1> DEFINE i == jobs[j].request
           x == [jobs[j] EXCEPT !.state = "orphaned"]
<1>1. jobs[j] \in [request : Requests \cup {None},
                  state : {"free", "available", "calling", "orphaned", "discarded"}]
  BY DEF SpendLedger, TypeOK
<1>2. /\ jobs[j].state = "calling" /\ jobs' = [jobs EXCEPT ![j] = x]
      /\ UNCHANGED <<text, context, summary, requests>>
  BY DEF Crash, record
<1>3. i \in Requests /\ Calls(j, i) /\ x.state # "calling"
  BY <1>1, <1>2 DEF Calls, SpendLedger, Referenced
<1> HIDE DEF x, i
<1>4. Started(requests[i]) /\ requests[i].response = "none"
  BY <1>3, CallingRow
<1>5. \A k \in Requests \ {i} : SamePaid(requests, requests', k)
  BY <1>2, SameRow
<1> QED
  BY <1>2, <1>3, <1>4, <1>5, WastedCall

\* The call raises
LEMMA ErrorKeeps ==
    ASSUME SpendLedger, SpendLedger', NEW j \in Jobs, NEW i \in Requests,
           NEW ambiguous \in BOOLEAN, FinishError(j, i, ambiguous)
    PROVE  \E b \in Bills, t \in Texts, c \in Contexts : Promise!Waste(b, t, c)
<1> DEFINE r == requests[i]
<1>1. requests \in [Requests -> Row] /\ r \in Row
  BY DEF SpendLedger, LedgerOK
<1>2. PICK status : /\ requests' = [requests EXCEPT ![i] = [r EXCEPT !.status = status]]
                    /\ Calls(j, i) /\ jobs' = [jobs EXCEPT ![j] = FreeJob]
                    /\ UNCHANGED <<text, context, summary>>
  BY <1>1 DEF FinishError, JobDone
<1>3. Started(r) /\ r.response = "none"
  BY <1>2, CallingRow
<1>4. /\ Identity(requests'[i]) = Identity(r) /\ Started(requests'[i])
      /\ requests'[i].response # "citable"
  BY <1>1, <1>2, <1>3 DEF Row, Identity, Started
<1>5. \A k \in Requests \ {i} : SamePaid(requests, requests', k)
  BY <1>1, <1>2, SameRow
<1>6. FreeJob.state # "calling"
  BY DEF FreeJob
<1> QED
  BY <1>2, <1>4, <1>5, <1>6, WastedCall

\* The answer comes in time
LEMMA CurrentKeeps ==
    ASSUME SpendLedger, SpendLedger', NEW j \in Jobs, NEW i \in Requests,
           NEW response \in Responses \ {"none"}, NEW cost \in ActualCosts \cup {None},
           FinishCurrent(j, i, response, cost)
    PROVE  \E b \in Bills, t \in Texts, c \in Contexts :
                Promise!Answer(b, t, c) \/ Promise!Waste(b, t, c)
<1> DEFINE r == requests[i]
           status == IF response = "citable" THEN "completed" ELSE "failed"
           q == Answered(r, status, response, cost)
<1>1. requests \in [Requests -> Row] /\ r \in Row /\ RowOK(r) /\ LedgerOK(requests')
  BY DEF SpendLedger, LedgerOK
<1>2. /\ Calls(j, i) /\ requests' = [requests EXCEPT ![i] = q]
      /\ jobs' = [jobs EXCEPT ![j] = FreeJob] /\ text' = text /\ context' = context
      /\ r.context = context /\ text[r.bill] = r.text
  BY DEF FinishCurrent, JobDone, StillCurrent, SameText
<1>3. /\ Started(r) /\ r.status # "absent"
      /\ r.bill \in Bills /\ r.text \in Texts /\ r.context \in Contexts
  BY <1>2, CallingRow
<1>4. RowOK(q) /\ RowKept(r, q) /\ Identity(q) = Identity(r) /\ q.response = response
  BY <1>1, <1>3, AnsweredRow
<1> HIDE DEF q
<1>5. /\ Identity(requests'[i]) = Identity(r) /\ Started(requests'[i])
      /\ requests'[i].response = response
  BY <1>1, <1>2, <1>3, <1>4 DEF RowKept, Started
<1>6. \A k \in Requests \ {i} : SamePaid(requests, requests', k)
  BY <1>1, <1>2, SameRow
<1>7. FreeJob.state # "calling"
  BY DEF FreeJob
<1>8. CASE response # "citable"
  <2>1. UNCHANGED <<text, context, summary>>
    BY <1>2, <1>8 DEF FinishCurrent
  <2> QED
    BY <1>2, <1>5, <1>6, <1>7, <1>8, <2>1, WastedCall
<1>9. CASE response = "citable"
  <2>1. /\ Purchases[Identity(r)] = "out"
        /\ PurchasesIn(requests', jobs') = [Purchases EXCEPT ![Identity(r)] =
              IF requests'[i].response = "citable" THEN "usable" ELSE "wasted"]
    <3>1. PICK x : jobs' = [jobs EXCEPT ![j] = x] /\ x.state # "calling"
      BY <1>2, <1>7
    <3>2. Calls(j, i) /\ LedgerOK(requests')
      BY <1>1, <1>2
    <3> QED
      BY <1>5, <1>6, <3>1, <3>2, CallEnds
  <2>2. Purchases' = [Purchases EXCEPT ![Identity(r)] = "usable"]
    BY <1>5, <1>9, <2>1, PurchasesMapped
  <2>3. Identity(r) = <<r.bill, text[r.bill], context>> /\ text[r.bill] # None
    BY <1>2, <1>3, DomainAssumption DEF Identity
  <2>4. summary' = [summary EXCEPT ![r.bill] = <<text[r.bill], context>>]
    BY <1>2, <1>9 DEF FinishCurrent
  <2>5. Purchases'[Identity(r)] = "usable"
    BY <1>3, <2>2 DEF Purchases, Identity, Identities
  <2>6. summary' = Promise!Displayed(Purchases', r.bill, text[r.bill])
    BY <2>3, <2>4, <2>5 DEF Promise!Displayed, Promise!Offer
  <2>7. Promise!Answer(r.bill, text[r.bill], context)
    BY <1>2, <2>1, <2>2, <2>3, <2>6 DEF Promise!Answer
  <2> QED
    BY <1>2, <1>3, <2>7
<1> QED
  BY <1>8, <1>9

\* The answer comes too late: it is kept, and the saved text registered again
LEMMA LateKeeps ==
    ASSUME SpendLedger, AnswersSettled, Tracked, NEW j \in Jobs, NEW i \in Requests,
           NEW response \in Responses \ {"none"}, NEW cost \in ActualCosts \cup {None},
           FinishOutdated(j, i, response, cost)
    PROVE  \E b \in Bills, t \in Texts, c \in Contexts :
                Promise!Answer(b, t, c) \/ Promise!Waste(b, t, c)
<1> DEFINE r == requests[i]
           b == r.bill
           q == Answered(r, "superseded", response, cost)
           rows == [requests EXCEPT ![i] = q]
           outcome == IF response = "citable" THEN "usable" ELSE "wasted"
<1>1. /\ requests \in [Requests -> Row] /\ r \in Row /\ RowOK(r) /\ context \in Contexts
      /\ text \in [Bills -> Texts \cup {None}]
      /\ summary \in [Bills -> (Texts \X Contexts) \cup {None}]
  BY DEF SpendLedger, LedgerOK, TypeOK
<1>2. /\ Calls(j, i) /\ text' = text /\ context' = context
      /\ \E x : jobs' = [jobs EXCEPT ![j] = x] /\ x.state # "calling"
  <2>1. Calls(j, i) /\ JobDone(j) /\ text' = text /\ context' = context
    BY DEF FinishOutdated
  <2>2. FreeJob.state # "calling"
    BY DEF FreeJob
  <2> QED
    BY <2>1, <2>2 DEF JobDone
<1>3. /\ r.status \in {"processing", "superseded"} /\ Started(r) /\ LedgerOK(rows)
      /\ IF text[b] = None
         THEN requests' = rows /\ summary' = summary
         ELSE Register(rows, b, text[b], search[b])
  BY LateAnswer
<1>4. /\ b \in Bills /\ r.text \in Texts /\ r.context \in Contexts
      /\ text[b] \in Texts \cup {None} /\ Identity(r) = <<b, r.text, r.context>>
  BY <1>1, <1>2, CallingRow DEF Identity
<1>5. RowOK(q) /\ RowKept(r, q) /\ Identity(q) = Identity(r) /\ q.response = response
      /\ q.status = "superseded"
  BY <1>1, <1>3, AnsweredRow
<1> HIDE DEF q
<1>6. rows[i] = q /\ \A k \in Requests \ {i} : rows[k] = requests[k]
  BY <1>1
<1> HIDE DEF rows
<1>7. /\ Identity(rows[i]) = Identity(r) /\ Started(rows[i]) /\ rows[i].response = response
      /\ \A k \in Requests \ {i} : SamePaid(requests, rows, k)
  BY <1>3, <1>5, <1>6, SameRow DEF RowKept, Started
<1>8. /\ Purchases[Identity(r)] = "out"
      /\ PurchasesIn(rows, jobs') = [Purchases EXCEPT ![Identity(r)] = outcome]
  <2>1. PICK x : jobs' = [jobs EXCEPT ![j] = x] /\ x.state # "calling"
    BY <1>2
  <2>2. /\ Purchases[Identity(r)] = "out"
        /\ PurchasesIn(rows, jobs') = [Purchases EXCEPT ![Identity(r)] =
              IF rows[i].response = "citable" THEN "usable" ELSE "wasted"]
    BY <1>2, <1>3, <1>7, <2>1, CallEnds
  <2> QED
    BY <1>7, <2>2
<1>9. ASSUME Purchases' = PurchasesIn(rows, jobs'),
             \/ summary' = Promise!Displayed(Purchases', b, text[b])
             \/ response # "citable" /\ summary' = summary
      PROVE  Promise!Answer(b, r.text, r.context) \/ Promise!Waste(b, r.text, r.context)
  <2>1. Purchases' = [Purchases EXCEPT ![<<b, r.text, r.context>>] = outcome]
    BY <1>4, <1>8, <1>9
  <2>2. Purchases[<<b, r.text, r.context>>] = "out"
    BY <1>4, <1>8
  <2>3. CASE response = "citable"
    BY <1>2, <1>9, <2>1, <2>2, <2>3 DEF Promise!Answer
  <2>4. CASE response # "citable"
    BY <1>2, <1>9, <2>1, <2>2, <2>4 DEF Promise!Waste
  <2> QED
    BY <2>3, <2>4
<1>10. CASE text[b] = None
  <2>1. requests' = rows /\ summary' = summary
    BY <1>3, <1>10
  <2>2. Purchases' = PurchasesIn(rows, jobs')
    BY <2>1, PurchasesMapped
  <2>3. summary[b] = None
    <3>1. ASSUME summary[b] # None PROVE FALSE
      <4>1. summary[b] \in Texts \X Contexts /\ summary[b][1] = None
        BY <1>1, <1>4, <1>10, <3>1 DEF Tracked, SummaryIsPaidAndCurrent
      <4> QED
        BY <4>1, DomainAssumption
    <3> QED
      BY <3>1
  <2>4. summary' = Promise!Displayed(Purchases', b, text[b])
    BY <1>1, <1>4, <1>10, <2>1, <2>3 DEF Promise!Displayed, Promise!Offer
  <2> QED
    BY <1>4, <1>9, <2>2, <2>4
<1>11. CASE text[b] # None
  <2>1. Register(rows, b, text[b], search[b])
    BY <1>3, <1>11
  <2>2. \A k \in Requests : Registered(rows[k], requests'[k], b, text[b], search[b])
    BY <1>1, <1>3, <1>4, <2>1, RegisterRows
  <2>3. \A k \in Requests : SamePaid(rows, requests', k)
    BY <1>3, <2>2, RegisteredPaid
  <2>4. Purchases' = PurchasesIn(rows, jobs')
    BY <2>3, PurchasesKept, PurchasesMapped
  <2>5. AnswersUsable(rows)
    BY <1>5, <1>6 DEF AnswersUsable, AnswersSettled
  <2>6. ShownUsable(rows, b)
    <3> SUFFICES ASSUME summary[b] # None
                 PROVE  \E k \in Requests :
                            /\ Identity(rows[k]) = <<b, summary[b][1], summary[b][2]>>
                            /\ rows[k].response = "citable"
      BY DEF ShownUsable
    <3>1. PICK k \in Requests : /\ Identity(requests[k]) = <<b, summary[b][1], summary[b][2]>>
                                /\ requests[k].status = "completed"
                                /\ requests[k].response = "citable"
      BY <1>4 DEF Tracked, SummaryIsPaidAndCurrent
    <3>2. k # i
      BY <1>3, <3>1
    <3> QED
      BY <1>6, <3>1, <3>2
  <2>7. summary' = Promise!Displayed(PurchasesIn(rows, jobs'), b, text[b])
    BY <1>1, <1>3, <1>4, <2>1, <2>5, <2>6, RegisterShows
  <2> QED
    BY <1>4, <1>9, <2>4, <2>7
<1> QED
  BY <1>10, <1>11

\* The indexer, the enqueuers and the queue's own steps buy and display nothing
LEMMA MarkKeeps ==
    ASSUME SpendLedger, NEW b \in Bills, NEW t \in Texts, MarkStep(b, t)
    PROVE  UNCHANGED Promise!vars
<1>1. \A i \in Requests : SamePaid(requests, requests', i)
  <2> SUFFICES ASSUME NEW i \in Requests PROVE SamePaid(requests, requests', i)
    OBVIOUS
  <2>1. requests[i] \in Row
    BY DEF SpendLedger, LedgerOK
  <2>2. \/ requests'[i] = requests[i]
        \/ requests'[i] = [requests[i] EXCEPT !.status = "ready", !.gated = FALSE]
    BY DEF MarkStep, MarkReady, Promoted
  <2> QED
    BY <2>1, <2>2 DEF SamePaid, Started, Identity, Row
<1>2. UNCHANGED <<text, context, summary, jobs>>
  BY DEF MarkStep
<1> QED
  BY <1>1, <1>2, Unnoticed

\* A step of job j that leaves the ledger alone and neither begins nor ends a call
LEMMA QueueKeeps ==
    ASSUME SpendLedger, UNCHANGED <<text, context, summary, requests>>, NEW j \in Jobs, NEW x,
           jobs' = [jobs EXCEPT ![j] = x], jobs[j].state # "calling", x.state # "calling"
    PROVE  UNCHANGED Promise!vars
<1>1. jobs \in JobsType
  BY DEF SpendLedger, TypeOK, JobsType
<1>2. \A i \in Requests : Out(jobs', i) <=> Out(jobs, i)
  BY <1>1, OutKept
<1>3. \A i \in Requests : SamePaid(requests, requests', i)
  BY SameRow
<1> QED
  BY <1>2, <1>3, Unnoticed

LEMMA IdleKeeps ==
    ASSUME UNCHANGED <<text, context, summary, requests, jobs>>
    PROVE  UNCHANGED Promise!vars
<1>1. \A i \in Requests : SamePaid(requests, requests', i)
  BY SameRow
<1> QED
  BY <1>1, Unnoticed

\* Every step is a step of the promise, or none
KeptStep ==
    \/ UNCHANGED Promise!vars
    \/ \E b \in Bills, t \in Texts \cup {None} : Promise!Save(b, t)
    \/ \E b \in Bills : Promise!Buy(b)
    \/ \E b \in Bills, t \in Texts, c \in Contexts :
            Promise!Answer(b, t, c) \/ Promise!Waste(b, t, c)
    \/ \E c \in Contexts : Promise!Release(c)

LEMMA RecordsKeep ==
    ASSUME SpendLedger, AnswersSettled, Tracked, Records
    PROVE  KeptStep
<1>1. ASSUME NEW b \in Bills, NEW t \in Texts \cup {None},
             \/ \E inline \in SearchInline : Ingest(b, t, inline)
             \/ t \in Texts /\ Repair(b, t)
      PROVE  KeptStep
  BY <1>1, SavingShape, SaveKeeps DEF KeptStep
<1>2. ASSUME NEW w \in Indexers, IndexerCompare(w) \/ IndexerCommit(w)
      PROVE  KeptStep
  BY <1>2, IndexerShape, MarkKeeps, IdleKeeps DEF KeptStep
<1>3. ASSUME \/ \E w \in Indexers : IndexerFail(w) \/ \E b \in Bills : IndexerRead(w, b)
             \/ NewMonth
      PROVE  KeptStep
  <2>1. UNCHANGED <<text, context, summary, requests, jobs>>
    BY <1>3 DEF IndexerFail, IndexerRead, NewMonth, record, queue
  <2> QED
    BY <2>1, IdleKeeps DEF KeptStep
<1>4. ASSUME NEW c \in Contexts, Deploy(c)
      PROVE  KeptStep
  <2>1. context' = c /\ UNCHANGED <<text, summary, requests, jobs>>
    BY <1>4 DEF Deploy, queue
  <2>2. Purchases' = Purchases
    BY <2>1, PurchasesMapped
  <2>3. Promise!Release(c)
    BY <2>1, <2>2 DEF Promise!Release
  <2> QED
    BY <2>3 DEF KeptStep
<1> QED
  BY <1>1, <1>2, <1>3, <1>4 DEF Records

LEMMA EnqueueKeeps ==
    ASSUME SpendLedger, NEW e \in Enqueuers, Enqueue(e) \/ EnqueueLost(e)
    PROVE  KeptStep
<1>1. CASE EnqueueInsert(e)
  <2>1. PICK j \in Jobs :
            /\ jobs[j] = FreeJob
            /\ jobs' = [jobs EXCEPT ![j] = [request |-> enqueuers[e].request,
                                           state |-> "available"]]
    BY <1>1 DEF EnqueueInsert
  <2>2. jobs[j].state # "calling" /\ UNCHANGED <<text, context, summary, requests>>
    BY <1>1, <2>1 DEF EnqueueInsert, FreeJob, record
  <2>3. [request |-> enqueuers[e].request, state |-> "available"].state # "calling"
    OBVIOUS
  <2> QED
    BY <2>1, <2>2, <2>3, QueueKeeps DEF KeptStep
<1>2. CASE (\E i \in Requests : EnqueueRead(e, i)) \/ EnqueueCheck(e) \/ EnqueueLost(e)
  <2>1. UNCHANGED <<text, context, summary, requests, jobs>>
    BY <1>2 DEF EnqueueRead, EnqueueCheck, EnqueueLost, record
  <2> QED
    BY <2>1, IdleKeeps DEF KeptStep
<1> QED
  BY <1>1, <1>2 DEF Enqueue

LEMMA ClaimKeeps ==
    ASSUME SpendLedger, SpendLedger', AnswersSettled, Tracked, NEW j \in Jobs, Claim(j)
    PROVE  KeptStep
<1>1. ASSUME NEW i \in Requests, ClaimOutdatedText(j, i) \/ ClaimOutdatedPrompt(j, i)
      PROVE  KeptStep
  <2>1. requests[i].bill \in Bills /\ text[requests[i].bill] \in Texts \cup {None}
    BY <1>1, OvertakenShape, OvertakenRows
  <2> QED
    BY <1>1, <2>1, OvertakenShape, OvertakenKeeps DEF KeptStep
<1>2. ASSUME \/ ClaimGateClosed(j)
             \/ \E i \in Requests : ClaimForeign(j, i) \/ ClaimNotReady(j, i) \/ ClaimRaises(j, i)
      PROVE  KeptStep
  <2>1. jobs[j].state = "available" /\ UNCHANGED <<text, context, summary, requests>>
    <3>1. CASE ClaimGateClosed(j)
      BY <3>1 DEF ClaimGateClosed, record
    <3>2. ASSUME NEW i \in Requests, ClaimForeign(j, i) \/ ClaimNotReady(j, i) \/ ClaimRaises(j, i)
          PROVE  /\ jobs[j].state = "available"
                 /\ UNCHANGED <<text, context, summary, requests>>
      <4>1. Runs(j, i) /\ UNCHANGED <<text, context, summary, requests>>
        BY <3>2 DEF ClaimForeign, ClaimNotReady, ClaimRaises, Claimable, record
      <4>2. jobs[j].state = "available"
        BY <4>1 DEF Runs
      <4> QED
        BY <4>1, <4>2
    <3> QED
      BY <1>2, <3>1, <3>2
  <2>2. \E x : jobs' = [jobs EXCEPT ![j] = x] /\ x.state # "calling"
    <3>1. CASE JobDone(j)
      <4>1. FreeJob.state # "calling"
        BY DEF FreeJob
      <4> QED
        BY <3>1, <4>1 DEF JobDone
    <3>2. CASE jobs' = [jobs EXCEPT ![j].state = "discarded"]
      <4>1. jobs' = [jobs EXCEPT ![j] = [jobs[j] EXCEPT !.state = "discarded"]]
        BY <3>2
      <4>2. [jobs[j] EXCEPT !.state = "discarded"].state # "calling"
        BY DEF SpendLedger, TypeOK
      <4> QED
        BY <4>1, <4>2
    <3> QED
      BY <1>2, <3>1, <3>2 DEF ClaimGateClosed, ClaimForeign, ClaimNotReady, ClaimRaises
  <2> QED
    BY <2>1, <2>2, QueueKeeps DEF KeptStep
<1>3. ASSUME NEW i \in Requests,
             ClaimAbandoned(j, i) \/ ClaimRefused(j, i) \/ ClaimCapped(j, i)
      PROVE  KeptStep
  BY <1>3, UnpaidKeeps DEF KeptStep
<1>4. ASSUME NEW i \in Requests, ClaimPaid(j, i)
      PROVE  KeptStep
  BY <1>4, PaidKeeps DEF KeptStep
<1> QED
  BY <1>1, <1>2, <1>3, <1>4 DEF Claim

LEMMA FinishKeeps ==
    ASSUME SpendLedger, SpendLedger', AnswersSettled, Tracked, NEW j \in Jobs, Finish(j)
    PROVE  KeptStep
<1>1. ASSUME NEW i \in Requests, NEW response \in Responses \ {"none"},
             NEW cost \in ActualCosts \cup {None},
             FinishCurrent(j, i, response, cost) \/ FinishOutdated(j, i, response, cost)
      PROVE  KeptStep
  BY <1>1, CurrentKeeps, LateKeeps DEF KeptStep
<1>2. ASSUME NEW i \in Requests, NEW ambiguous \in BOOLEAN, FinishError(j, i, ambiguous)
      PROVE  KeptStep
  BY <1>2, ErrorKeeps DEF KeptStep
<1> QED
  BY <1>1, <1>2 DEF Finish

LEMMA RestartKeeps ==
    ASSUME SpendLedger, SpendLedger', NEW j \in Jobs, Crash(j) \/ Rescue(j) \/ RecoveredRetry(j)
    PROVE  KeptStep
<1>1. CASE Crash(j)
  BY <1>1, CrashKeeps DEF KeptStep
<1>2. CASE Rescue(j) \/ RecoveredRetry(j)
  <2>1. PICK state \in {"discarded", "available"} : jobs' = [jobs EXCEPT ![j].state = state]
    BY <1>2 DEF Rescue, RecoveredRetry
  <2>2. jobs' = [jobs EXCEPT ![j] = [jobs[j] EXCEPT !.state = state]]
    BY <2>1
  <2>3. [jobs[j] EXCEPT !.state = state].state # "calling"
    BY DEF SpendLedger, TypeOK
  <2>4. jobs[j].state # "calling" /\ UNCHANGED <<text, context, summary, requests>>
    BY <1>2 DEF Rescue, RecoveredRetry, record
  <2> QED
    BY <2>2, <2>3, <2>4, QueueKeeps DEF KeptStep
<1> QED
  BY <1>1, <1>2

LEMMA StepsKeepPromise ==
    ASSUME SpendLedger, AnswersSettled, Tracked, [Next]_vars
    PROVE  [Promise!Next]_(Promise!vars)
<1>1. SpendLedger'
  BY LedgerInductive
<1>2. KeptStep
  <2>1. CASE Records
    BY <2>1, RecordsKeep
  <2>2. ASSUME NEW e \in Enqueuers, Enqueue(e) \/ EnqueueLost(e)
        PROVE  KeptStep
    BY <2>2, EnqueueKeeps
  <2>3. ASSUME NEW j \in Jobs, Runner(j) \/ Crash(j) \/ RecoveredRetry(j)
        PROVE  KeptStep
    BY <1>1, <2>3, ClaimKeeps, FinishKeeps, RestartKeeps DEF Runner
  <2>4. CASE UNCHANGED vars
    BY <2>4, IdleKeeps DEF vars, KeptStep
  <2> QED
    BY <2>1, <2>2, <2>3, <2>4 DEF Next
<1> QED
  BY <1>2 DEF KeptStep, Promise!Next

\* The ledger starts as a promise does: nothing saved, bought or displayed
LEMMA StartsPromise == Init => Promise!Init
<1> SUFFICES ASSUME Init PROVE Promise!Init
  OBVIOUS
<1>1. \A i \in Requests : ~Started(requests[i])
  BY DEF Init, Started, NoRow
<1>2. Purchases = [k \in Identities |-> "none"]
  <2>1. \A k \in Identities : PurchaseOf(k) = "none"
    BY <1>1 DEF PurchaseOf, PaidRows
  <2> QED
    BY <2>1 DEF Purchases
<1>3. Promise!Identities = Identities
  BY DEF Promise!Identities, Identities
<1> QED
  BY <1>2, <1>3 DEF Promise!Init, Init

\* The ledger, with everything that can be queued twice, overtaken, lost or late, does no
\* more than one purchase per exact text and prompt and displays what that has bought
THEOREM ImplementsPromise == Spec => KeepsPromise
<1>1. Init => Promise!Init
  BY StartsPromise
<1>2. SpendLedger /\ AnswersSettled /\ Tracked /\ [Next]_vars => [Promise!Next]_(Promise!vars)
  BY StepsKeepPromise
<1>3. KeepsPromise <=> Promise!Init /\ [][Promise!Next]_(Promise!vars)
  BY DEF KeepsPromise, Promise!Spec
<1> QED
  BY <1>1, <1>2, <1>3, TrackedInvariant, PTL DEF Spec
=============================================================================
