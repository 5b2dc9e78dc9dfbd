----------------------------- MODULE RecordRefresh -----------------------------
(***************************************************************************)
(* Due public-record work: saved deadlines, leases on jobs and lanes, the  *)
(* signal of a source change seen meanwhile, and the page clearing that a  *)
(* committed change owes (record_refresh.py, source_record_clearing.py).   *)
(*                                                                         *)
(* Time is a count.  A step that reads the clock advances it, so no two    *)
(* readings are equal; Passes holds it back where a step is overdue.       *)
(***************************************************************************)
EXTENDS Integers

CONSTANTS
    Jobs,          \* names of jobs()
    Lanes,         \* sources that jobs share; a job without a lane is alone in one
    LaneOf,        \* RefreshJob.lane
    Runners,       \* processes inside run_due
    Observers,     \* processes that look for source changes
    Interval,      \* RefreshJob.interval
    Timeout,       \* RefreshJob.timeout
    Margin,        \* what a lease lasts beyond Timeout: 15 minutes
    StartDelay,    \* how long after its claim a command may start
    StopDelay,     \* how long _stop_process may take
    RetryWaits,    \* pauses after a failed or deferred turn
    Verify,        \* whether a person verifies jobs that are not due
    LastVersion,   \* bound on the changes of each job's official source
    Horizon,       \* bound on the clock
    None

Time == 0 .. Horizon
LeaseEnds == 0 .. Horizon + Timeout + Margin
DueTimes == 0 .. Horizon + Interval
NotRead == -1

ASSUME JobAssumption ==
    /\ LaneOf \in [Jobs -> Lanes]
    /\ LastVersion \in [Jobs -> Nat]
    /\ None \notin Runners \cup Jobs
    /\ Verify \subseteq BOOLEAN

\* "There is margin for process-group cleanup and the final database write"
ASSUME TimeAssumption ==
    /\ {Interval, Timeout, Margin, StartDelay, StopDelay, Horizon} \subseteq Nat
    /\ RetryWaits \subseteq 0 .. Interval
    /\ StartDelay + StopDelay < Margin

VARIABLES
    clock,
    row,       \* the saved state of each job
    lane,      \* rows "lane:..."
    signal,    \* rows "signal:...": last_started_at, 0 without a row
    runner,    \* what each runner does
    observer,  \* what each observer does
    known,     \* the observers' saved fingerprint of each source
    source,    \* the official source of each job, as a version
    stored,    \* the version of the records that readers get
    commits,   \* changes of records committed so far
    marker,    \* row "clearing:...": the commit that staged it, 0 without a row
    handled,   \* history: the version that the last completed pass had read
    observed,  \* history: the newest version that was signalled
    cleared    \* history: the commits that a finished clear covers

vars == <<clock, row, lane, signal, runner, observer, known, source, stored,
          commits, marker, handled, observed, cleared>>

deadlines == <<row, lane>>
signalling == <<signal, observer, known, observed>>
records == <<stored, commits>>
clearing == <<marker, cleared>>

Completed == {"succeeded", "review_required"}
Codes == Completed \cup {"deferred", "continuing", "failed", "stopped"}

Statuses == (Codes \ {"stopped"}) \cup {"new"}

Collecting == {"claimed", "running", "ended"}
Clearing == {"clear", "purge", "website", "settle"}

Run == [at : {"idle"} \cup Collecting \cup Clearing, job : Jobs \cup {None},
        started : Time, began : Time, seen : Nat \cup {NotRead}, code : Codes,
        captured : Nat, covers : Nat]

Observation == [at : {"idle", "checking", "seen"}, job : Jobs \cup {None},
                stamp : Time, seen : Nat]

Free == [token |-> None, lease |-> 0]
Resting == [at |-> "idle", job |-> None, started |-> 0, began |-> 0, seen |-> NotRead,
            code |-> "failed", captured |-> 0, covers |-> 0]
Unconcerned == [at |-> "idle", job |-> None, stamp |-> 0, seen |-> 0]

TypeOK ==
    /\ clock \in Time
    /\ row \in [Jobs -> [due : DueTimes, token : Runners \cup {None}, lease : LeaseEnds,
                         status : Statuses]]
    /\ lane \in [Lanes -> [token : Runners \cup {None}, lease : LeaseEnds]]
    /\ signal \in [Jobs -> Time]
    /\ runner \in [Runners -> Run]
    /\ \A r \in Runners : runner[r].at \in Collecting => runner[r].job \in Jobs
    /\ observer \in [Observers -> Observation]
    /\ \A o \in Observers : observer[o].at # "idle" => observer[o].job \in Jobs
    /\ {known, source, stored, handled, observed} \subseteq [Jobs -> Nat]
    /\ {commits, marker, cleared} \subseteq Nat

\* The records of every source were collected once and its pages cleared
Init ==
    /\ clock = 0
    /\ row = [j \in Jobs |-> [due |-> 0, token |-> None, lease |-> 0, status |-> "new"]]
    /\ lane = [l \in Lanes |-> Free]
    /\ signal = [j \in Jobs |-> 0]
    /\ runner = [r \in Runners |-> Resting]
    /\ observer = [o \in Observers |-> Unconcerned]
    /\ known = [j \in Jobs |-> 0]
    /\ source = [j \in Jobs |-> 0]
    /\ stored = [j \in Jobs |-> 0]
    /\ commits = 0
    /\ marker = 0
    /\ handled = [j \in Jobs |-> 0]
    /\ observed = [j \in Jobs |-> 0]
    /\ cleared = 0

--------------------------------------------------------------------------------
(* Time *)

Now == clock + 1

\* A command starts soon after its claim, and is killed when its time is over
Passes ==
    /\ clock < Horizon
    /\ \A r \in Runners :
           /\ runner[r].at = "claimed" => clock < runner[r].started + StartDelay
           /\ runner[r].at = "running" => clock < runner[r].began + Timeout + StopDelay
    /\ clock' = Now

Tick ==
    /\ Passes
    /\ UNCHANGED <<deadlines, signalling, runner, source, records, clearing, handled>>

Smaller(a, b) == IF a < b THEN a ELSE b
Larger(a, b) == IF a < b THEN b ELSE a

Leased(entry) == entry.lease > Now

--------------------------------------------------------------------------------
(* A turn of run_due: the claim, the command, the outcome *)

Step(r, changes) == runner' = [runner EXCEPT ![r] = changes]

\* Variant: only the job's own lease is looked at
ClaimableJob(j) == ~ Leased(row[j])

Claimable(j) == ~ Leased(lane[LaneOf[j]]) /\ ~ Leased(row[j])

\* Variant: the lease ends when the command's time does
LeaseEndTight == Now + Timeout

LeaseEnd == Now + Timeout + Margin

Claim(r, j) ==
    /\ runner[r].at = "idle"
    /\ Passes
    /\ Claimable(j)
    /\ \E force \in Verify : force \/ row[j].due <= Now
    /\ row' = [row EXCEPT ![j].token = r, ![j].lease = LeaseEnd]
    /\ lane' = [lane EXCEPT ![LaneOf[j]] = [token |-> r, lease |-> LeaseEnd]]
    /\ Step(r, [Resting EXCEPT !.at = "claimed", !.job = j, !.started = Now])
    /\ UNCHANGED <<signalling, source, records, clearing, handled>>

Start(r) ==
    /\ runner[r].at = "claimed"
    /\ Step(r, [runner[r] EXCEPT !.at = "running", !.began = clock])
    /\ UNCHANGED <<clock, deadlines, signalling, source, records, clearing, handled>>

\* run_command refuses to start a job whose approval is missing
Hold(r) ==
    /\ runner[r].at = "claimed"
    /\ Step(r, [runner[r] EXCEPT !.at = "ended", !.code = "deferred"])
    /\ UNCHANGED <<clock, deadlines, signalling, source, records, clearing, handled>>

Read(r) ==
    /\ runner[r].at = "running"
    /\ runner[r].seen = NotRead
    /\ Step(r, [runner[r] EXCEPT !.seen = source[runner[r].job]])
    /\ UNCHANGED <<clock, deadlines, signalling, source, records, clearing, handled>>

\* A change of records and stage_source_clearing are one transaction
Store(r) ==
    LET j == runner[r].job IN
    /\ runner[r].at = "running"
    /\ runner[r].seen \notin {NotRead, stored[j]}
    /\ stored' = [stored EXCEPT ![j] = runner[r].seen]
    /\ commits' = commits + 1
    /\ marker' = commits + 1
    /\ UNCHANGED <<clock, deadlines, signalling, runner, source, cleared, handled>>

\* The command ends by itself, or is killed: at its timeout as "failed", at the
\* runner's shutdown as "stopped".  It may have stored its records and still fail.
Exit(r, code) ==
    LET j == runner[r].job IN
    /\ runner[r].at = "running"
    /\ code \in Completed => runner[r].seen # NotRead
    /\ code = "succeeded" => stored[j] = runner[r].seen
    /\ Step(r, [runner[r] EXCEPT !.at = "ended", !.code = code, !.began = 0])
    /\ UNCHANGED <<clock, deadlines, signalling, source, records, clearing, handled>>

Owns(r) == row[runner[r].job].token = r /\ Leased(row[runner[r].job])

\* Variant: a completed pass answers whatever was signalled
AnswersAnything(r) == runner[r].code \in Completed

\* The signal is older than the pass
Answers(r) ==
    /\ runner[r].code \in Completed
    /\ signal[runner[r].job] <= runner[r].started

\* Variant: a completed pass waits for its next deadline
NextDueRegular(r, wait) ==
    IF runner[r].code \in Completed THEN Larger(Now, runner[r].started + Interval)
    ELSE IF runner[r].code = "continuing" THEN Now
    ELSE Now + wait

\* At once to continue, or when a newer signal came; after the interval since the
\* start of a pass that answers; after a pause otherwise
NextDue(r, wait) ==
    IF Answers(r) THEN Larger(Now, runner[r].started + Interval)
    ELSE IF runner[r].code \in Completed \cup {"continuing"} THEN Now
    ELSE Now + wait

FreeLane(r) ==
    LET l == LaneOf[runner[r].job] IN
    lane' = IF lane[l].token = r THEN [lane EXCEPT ![l] = Free] ELSE lane

\* Variant: a shutdown is saved as such
StatusAsEnded(code) == code

Status(code) == IF code = "stopped" THEN "failed" ELSE code

Record(r) ==
    LET j == runner[r].job IN
    /\ \E wait \in RetryWaits :
           row' = [row EXCEPT ![j] = [due |-> NextDue(r, wait), token |-> None, lease |-> 0,
                                      status |-> Status(runner[r].code)]]
    /\ FreeLane(r)
    /\ signal' = IF Answers(r) THEN [signal EXCEPT ![j] = 0] ELSE signal
    /\ handled' = IF runner[r].code \in Completed
                  THEN [handled EXCEPT ![j] = runner[r].seen] ELSE handled

\* finish_job refuses a runner whose lease is over; either way the runner goes on
\* to the clearing that is owed, unless it is shutting down
Finish(r) ==
    /\ runner[r].at = "ended"
    /\ Passes
    /\ IF Owns(r) THEN Record(r) ELSE UNCHANGED <<deadlines, signal, handled>>
    /\ Step(r, IF runner[r].code = "stopped" THEN Resting
               ELSE [Resting EXCEPT !.at = "clear"])
    /\ UNCHANGED <<observer, known, observed, source, records, clearing>>

\* The host dies, and the command with it
Crash(r) ==
    /\ runner[r].at # "idle"
    /\ Step(r, Resting)
    /\ UNCHANGED <<clock, deadlines, signalling, source, records, clearing, handled>>

--------------------------------------------------------------------------------
(* drain_source_clearing: at the end of any turn, or as a turn of its own *)

ClearingTurn(r) ==
    /\ runner[r].at = "idle"
    /\ marker # 0
    /\ Step(r, [Resting EXCEPT !.at = "clear"])
    /\ UNCHANGED <<clock, deadlines, signalling, source, records, clearing, handled>>

Capture(r) ==
    /\ runner[r].at = "clear"
    /\ Step(r, IF marker = 0 THEN Resting
               ELSE [Resting EXCEPT !.at = "purge", !.captured = marker])
    /\ UNCHANGED <<clock, deadlines, signalling, source, records, clearing, handled>>

PurgeApi(r) ==
    /\ runner[r].at = "purge"
    /\ Step(r, [runner[r] EXCEPT !.at = "website", !.covers = commits])
    /\ UNCHANGED <<clock, deadlines, signalling, source, records, clearing, handled>>

\* From here on readers get pages rebuilt from what PurgeApi left
PurgeWebsite(r) ==
    /\ runner[r].at = "website"
    /\ cleared' = Larger(cleared, runner[r].covers)
    /\ Step(r, [runner[r] EXCEPT !.at = "settle"])
    /\ UNCHANGED <<clock, deadlines, signalling, source, records, marker, handled>>

\* A refusal, a lost answer or a missing setting: only the time of it is noted
PurgeFails(r) ==
    /\ runner[r].at \in {"purge", "website"}
    /\ Step(r, Resting)
    /\ UNCHANGED <<clock, deadlines, signalling, source, records, clearing, handled>>

\* Variant: the marker is deleted whoever staged it
SettledBlindly(r) == 0

Settled(r) == IF marker = runner[r].captured THEN 0 ELSE marker

Settle(r) ==
    /\ runner[r].at = "settle"
    /\ marker' = Settled(r)
    /\ Step(r, Resting)
    /\ UNCHANGED <<clock, deadlines, signalling, source, records, cleared, handled>>

--------------------------------------------------------------------------------
(* Observers of source changes and their signals *)

Note(o, changes) == observer' = [observer EXCEPT ![o] = changes]

\* discover_campaign_records, discover_reference_records: the lists are read ...
Look(o, j) ==
    /\ observer[o].at = "idle"
    /\ Note(o, [Unconcerned EXCEPT !.at = "seen", !.job = j, !.seen = source[j]])
    /\ UNCHANGED <<clock, deadlines, signal, known, observed, runner, source, records,
                   clearing, handled>>

\* request_refresh
RequestRefresh(j, stamp) ==
    /\ row' = [row EXCEPT ![j].due = Smaller(@, stamp)]
    /\ signal' = [signal EXCEPT ![j] = stamp]

\* ... and then signalled as of now, with the fingerprint, if they changed
Request(o) ==
    LET j == observer[o].job IN
    /\ observer[o].at = "seen"
    /\ Passes
    /\ IF observer[o].seen # known[j]
       THEN /\ RequestRefresh(j, Now)
            /\ known' = [known EXCEPT ![j] = observer[o].seen]
            /\ observed' = [observed EXCEPT ![j] = Larger(@, observer[o].seen)]
       ELSE UNCHANGED <<row, signal, known, observed>>
    /\ Note(o, Unconcerned)
    /\ UNCHANGED <<lane, runner, source, records, clearing, handled>>

ObserverFails(o) ==
    /\ observer[o].at # "idle"
    /\ Note(o, Unconcerned)
    /\ UNCHANGED <<clock, deadlines, signal, known, observed, runner, source, records,
                   clearing, handled>>

--------------------------------------------------------------------------------
SourceChanges(j) ==
    /\ source[j] < LastVersion[j]
    /\ source' = [source EXCEPT ![j] = @ + 1]
    /\ UNCHANGED <<clock, deadlines, signalling, runner, records, clearing, handled>>

Turn(r) ==
    \/ \E j \in Jobs : Claim(r, j)
    \/ Start(r)
    \/ Hold(r)
    \/ Read(r)
    \/ Store(r)
    \/ \E code \in Codes : Exit(r, code)
    \/ Finish(r)
    \/ Crash(r)

Drain(r) ==
    \/ ClearingTurn(r)
    \/ Capture(r)
    \/ PurgeApi(r)
    \/ PurgeWebsite(r)
    \/ PurgeFails(r)
    \/ Settle(r)

Observe(o) ==
    \/ \E j \in Jobs : Look(o, j)
    \/ Request(o)
    \/ ObserverFails(o)

Next ==
    \/ \E r \in Runners : Turn(r) \/ Drain(r)
    \/ \E o \in Observers : Observe(o)
    \/ \E j \in Jobs : SourceChanges(j)
    \/ Tick

Spec == Init /\ [][Next]_vars

--------------------------------------------------------------------------------
\* "lanes keep collectors of the same source from overlapping", and "A platform
\* kills the command before this lease can be stolen": two commands of a lane
\* never run at once, whatever died before
OneCollectorPerLane ==
    \A r, s \in Runners :
        /\ runner[r].at = "running"
        /\ runner[s].at = "running"
        /\ LaneOf[runner[r].job] = LaneOf[runner[s].job]
        => r = s

\* A late command never puts older records in the place of newer ones
StoredNeverGoesBack == [][\A j \in Jobs : stored'[j] >= stored[j]]_vars

\* "A source change observed during collection has a separate durable signal, so
\* a late completion cannot erase it": without a signal, a completed pass has
\* read everything that was signalled
SignalAnswered == \A j \in Jobs : signal[j] = 0 => handled[j] >= observed[j]

\* A signalled job is due at once, unless its last turn failed or was deferred
SignalledIsDue ==
    \A j \in Jobs :
        signal[j] # 0 /\ row[j].status \notin {"failed", "deferred"} => row[j].due <= clock

\* "the obligation stays": without a marker every committed change was followed
\* by a complete clear that began after it
ClearingStaysOwed == marker = 0 => cleared = commits

--------------------------------------------------------------------------------
(* The strengthening *)

Working(r) == runner[r].at \in {"claimed", "running"}

\* A command that runs, or is about to, holds its job and its lane, and is over
\* before its lease is
LeaseLedger ==
    \A r \in Runners : Working(r) =>
        LET c == runner[r]
            end == c.started + Timeout + Margin IN
        /\ row[c.job].token = r /\ row[c.job].lease = end
        /\ lane[LaneOf[c.job]].token = r /\ lane[LaneOf[c.job]].lease = end
        /\ c.at = "claimed" => clock <= c.started + StartDelay
        /\ c.at = "running" => /\ c.began <= c.started + StartDelay
                               /\ clock <= c.began + Timeout + StopDelay

Holds(r) == runner[r].at \in Collecting /\ row[runner[r].job].token = r

\* What a pass that still holds its job has read is as new as what was stored and
\* handled, and as every signal that is not younger than the pass
ReadLedger ==
    \A r \in Runners : Holds(r) =>
        LET c == runner[r] IN
        /\ c.started <= clock
        /\ c.at = "claimed" => c.seen = NotRead
        /\ c.at = "ended" /\ c.code \in Completed => c.seen # NotRead
        /\ c.seen # NotRead =>
               /\ c.at = "running" => stored[c.job] <= c.seen
               /\ handled[c.job] <= c.seen
               /\ signal[c.job] <= c.started => observed[c.job] <= c.seen

SourceLedger ==
    /\ \A j \in Jobs : {stored[j], handled[j], observed[j]} \subseteq 0 .. source[j]
    /\ \A r \in Runners :
           runner[r].at \in Collecting => runner[r].seen \in {NotRead} \cup 0 .. source[runner[r].job]
    /\ \A o \in Observers :
           observer[o].at = "seen" => observer[o].seen <= source[observer[o].job]

\* The marker names the last commit, and a clear covers what it captured
ClearingLedger ==
    /\ cleared <= commits
    /\ marker \in {0, commits}
    /\ \A r \in Runners :
           LET c == runner[r] IN
           /\ c.at \in {"purge", "website", "settle"} => c.captured \in 1 .. commits
           /\ c.at = "website" => c.covers \in c.captured .. commits
           /\ c.at = "settle" => c.captured <= cleared

RefreshLedger == LeaseLedger /\ ReadLedger /\ SourceLedger /\ ClearingLedger

================================================================================
