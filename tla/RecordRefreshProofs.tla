-------------------------- MODULE RecordRefreshProofs --------------------------
(***************************************************************************)
(* Proofs about RecordRefresh: leases, signals and owed clearing, for any  *)
(* jobs, lanes, runners, observers and any times within the assumptions.   *)
(***************************************************************************)
EXTENDS RecordRefresh, TLAPS

\* A completed command has read its source.
EndedHasRead ==
    \A r \in Runners :
        runner[r].at = "ended" /\ runner[r].code \in Completed => runner[r].seen # NotRead

\* What every step keeps, as far as the leases are concerned.
LeaseInv == TypeOK /\ EndedHasRead /\ LeaseLedger

--------------------------------------------------------------------------------
(* Types *)

\* The fields of a runner that rests.
LEMMA RestingRun ==
    /\ Resting \in Run
    /\ Resting.at = "idle"
    /\ \A a \in Clearing : [Resting EXCEPT !.at = a] \in Run
  <1>1. {0} \subseteq Time /\ 0 \in Nat
    BY TimeAssumption DEF Time
  <1>. QED
    BY <1>1 DEF Resting, Run, Clearing, Codes, Completed

\* A reading of the clock is a time.
LEMMA PassesTime ==
    ASSUME TypeOK, Passes
    PROVE  /\ Now \in Time /\ Now \in Nat /\ clock' = Now /\ clock' \in Time
           /\ Now + Interval \in DueTimes
           /\ LeaseEnd \in LeaseEnds
  BY TimeAssumption DEF TypeOK, Passes, Now, Time, DueTimes, LeaseEnds, LeaseEnd

\* A step that changes one runner keeps the runners' types.
LEMMA StepType ==
    ASSUME TypeOK, NEW r \in Runners, NEW c \in Run, Step(r, c),
           c.at \in Collecting => c.job \in Jobs
    PROVE  /\ runner' \in [Runners -> Run]
           /\ \A s \in Runners : runner'[s].at \in Collecting => runner'[s].job \in Jobs
           /\ \A s \in Runners : runner'[s] = IF s = r THEN c ELSE runner[s]
  <1>1. runner \in [Runners -> Run]
    BY DEF TypeOK
  <1>2. runner' = [runner EXCEPT ![r] = c]
    BY DEF Step
  <1>3. \A s \in Runners : runner'[s] = IF s = r THEN c ELSE runner[s]
    BY <1>1, <1>2
  <1>. QED
    BY <1>1, <1>2, <1>3 DEF TypeOK

\* The same for an observer.
LEMMA NoteType ==
    ASSUME TypeOK, NEW o \in Observers, NEW c \in Observation, Note(o, c),
           c.at # "idle" => c.job \in Jobs
    PROVE  /\ observer' \in [Observers -> Observation]
           /\ \A p \in Observers : observer'[p].at # "idle" => observer'[p].job \in Jobs
           /\ \A p \in Observers : observer'[p] = IF p = o THEN c ELSE observer[p]
  <1>1. observer \in [Observers -> Observation]
    BY DEF TypeOK
  <1>2. observer' = [observer EXCEPT ![o] = c]
    BY DEF Note
  <1>3. \A p \in Observers : observer'[p] = IF p = o THEN c ELSE observer[p]
    BY <1>1, <1>2
  <1>. QED
    BY <1>1, <1>2, <1>3 DEF TypeOK

\* When a turn may be due again.
LEMMA DueType ==
    ASSUME TypeOK, Passes, NEW r \in Runners, NEW wait \in RetryWaits
    PROVE  NextDue(r, wait) \in DueTimes
  <1>1. runner[r].started \in Time
    BY DEF TypeOK, Run
  <1>2. Now \in Time /\ RetryWaits \subseteq 0 .. Interval /\ Interval \in Nat /\ Horizon \in Nat
    BY PassesTime, TimeAssumption
  <1>3. Larger(Now, runner[r].started + Interval) \in DueTimes
    BY <1>1, <1>2 DEF Larger, DueTimes, Time
  <1>4. Now \in DueTimes /\ Now + wait \in DueTimes
    BY <1>2 DEF DueTimes, Time
  <1>. QED
    BY <1>3, <1>4 DEF NextDue

\* The types are kept: each disjunct of Next names the parts it touches.
LEMMA TypeKept == TypeOK /\ EndedHasRead /\ Next => TypeOK'
<1>. SUFFICES ASSUME TypeOK, EndedHasRead, Next PROVE TypeOK'
  OBVIOUS
<1>0. /\ runner \in [Runners -> Run]
      /\ clock \in Time /\ commits \in Nat /\ marker \in Nat /\ cleared \in Nat
      /\ \A s \in Runners : runner[s].at \in Collecting => runner[s].job \in Jobs
      /\ row \in [Jobs -> [due : DueTimes, token : Runners \cup {None}, lease : LeaseEnds,
                           status : Statuses]]
      /\ lane \in [Lanes -> [token : Runners \cup {None}, lease : LeaseEnds]]
      /\ stored \in [Jobs -> Nat]
  BY DEF TypeOK
<1>00. 0 \in Time
  BY TimeAssumption DEF Time
<1>1. ASSUME NEW r \in Runners, NEW j \in Jobs, Claim(r, j) PROVE TypeOK'
  <2>1. Passes /\ Step(r, [Resting EXCEPT !.at = "claimed", !.job = j, !.started = Now])
    BY <1>1 DEF Claim
  <2>2. [Resting EXCEPT !.at = "claimed", !.job = j, !.started = Now] \in Run
    <3>1. Now \in Time
      BY <2>1, PassesTime
    <3>. QED
      BY <1>00, <3>1 DEF Resting, Run, Collecting, Codes, Completed
  <2>3. /\ runner' \in [Runners -> Run]
        /\ \A s \in Runners : runner'[s].at \in Collecting => runner'[s].job \in Jobs
    BY <2>1, <2>2, StepType DEF Resting
  <2>4. LaneOf[j] \in Lanes /\ LeaseEnd \in LeaseEnds /\ clock' \in Time
    BY <2>1, PassesTime, JobAssumption
  <2>5. row' \in [Jobs -> [due : DueTimes, token : Runners \cup {None}, lease : LeaseEnds,
                          status : Statuses]]
    BY <1>0, <1>1, <2>4 DEF Claim
  <2>6. lane' \in [Lanes -> [token : Runners \cup {None}, lease : LeaseEnds]]
    BY <1>0, <1>1, <2>4 DEF Claim
  <2>. QED
    BY <1>1, <2>3, <2>4, <2>5, <2>6 DEF TypeOK, Claim, signalling, records, clearing
<1>2. ASSUME NEW r \in Runners, NEW c \in Run, Step(r, c), c.at \in Collecting => c.job \in Jobs,
             UNCHANGED <<clock, deadlines, signalling, source, records, clearing, handled>>
      PROVE  TypeOK'
  BY <1>2, StepType DEF TypeOK, deadlines, signalling, records, clearing
<1>3. ASSUME NEW r \in Runners, Start(r) PROVE TypeOK'
  <2>1. [runner[r] EXCEPT !.at = "running", !.began = clock] \in Run
    BY <1>0, <1>3 DEF Run, Collecting
  <2>2. [runner[r] EXCEPT !.at = "running", !.began = clock].job \in Jobs
    BY <1>0, <1>3 DEF Run, Start, Collecting
  <2>. QED
    BY <1>2, <1>3, <2>1, <2>2 DEF Start
<1>4. ASSUME NEW r \in Runners, Hold(r) PROVE TypeOK'
  <2>1. [runner[r] EXCEPT !.at = "ended", !.code = "deferred"] \in Run
    BY <1>0, <1>4 DEF Run, Collecting, Codes
  <2>2. [runner[r] EXCEPT !.at = "ended", !.code = "deferred"].job \in Jobs
    BY <1>0, <1>4 DEF Run, Hold, Collecting
  <2>. QED
    BY <1>2, <1>4, <2>1, <2>2 DEF Hold
<1>5. ASSUME NEW r \in Runners, Read(r) PROVE TypeOK'
  <2>0. runner[r].job \in Jobs
    BY <1>0, <1>5 DEF Read, Collecting
  <2>1. [runner[r] EXCEPT !.seen = source[runner[r].job]] \in Run
    BY <1>0, <2>0 DEF Run, TypeOK
  <2>2. [runner[r] EXCEPT !.seen = source[runner[r].job]].job \in Jobs
    BY <1>0, <2>0 DEF Run
  <2>. QED
    BY <1>2, <1>5, <2>1, <2>2 DEF Read
<1>6. ASSUME NEW r \in Runners, Store(r) PROVE TypeOK'
  <2>1. runner[r].seen \in Nat
    BY <1>0, <1>6 DEF Store, Run
  <2>2. stored' \in [Jobs -> Nat] /\ commits' \in Nat /\ marker' \in Nat
    BY <1>0, <1>6, <2>1 DEF Store, Collecting
  <2>. QED
    BY <1>6, <2>2 DEF Store, TypeOK, deadlines, signalling
<1>7. ASSUME NEW r \in Runners, NEW code \in Codes, Exit(r, code) PROVE TypeOK'
  <2>1. [runner[r] EXCEPT !.at = "ended", !.code = code, !.began = 0] \in Run
    BY <1>0, <1>00 DEF Run, Collecting
  <2>2. [runner[r] EXCEPT !.at = "ended", !.code = code, !.began = 0].job \in Jobs
    BY <1>0, <1>7 DEF Run, Exit, Collecting
  <2>. QED
    BY <1>2, <1>7, <2>1, <2>2 DEF Exit
<1>8. ASSUME NEW r \in Runners, Finish(r) PROVE TypeOK'
  <2>0. /\ runner[r].job \in Jobs /\ Passes /\ clock' \in Time
        /\ runner[r].code \in Codes /\ runner[r].seen \in Nat \cup {NotRead}
    BY <1>0, <1>8, PassesTime DEF Finish, Collecting, Run
  <2>1. /\ runner' \in [Runners -> Run]
        /\ \A s \in Runners : runner'[s].at \in Collecting => runner'[s].job \in Jobs
    <3>1. CASE runner[r].code = "stopped"
      BY <1>8, <3>1, RestingRun, StepType DEF Finish, Collecting
    <3>2. CASE runner[r].code # "stopped"
      <4>1. [Resting EXCEPT !.at = "clear"] \in Run
        BY RestingRun DEF Clearing
      <4>. QED
        BY <1>8, <3>2, <4>1, StepType DEF Finish, Collecting, Resting
    <3>. QED
      BY <3>1, <3>2
  <2>2. CASE ~ Owns(r)
    BY <1>8, <2>0, <2>1, <2>2 DEF Finish, TypeOK, deadlines, records, clearing
  <2>3. CASE Owns(r)
    <3>1. row' \in [Jobs -> [due : DueTimes, token : Runners \cup {None}, lease : LeaseEnds,
                            status : Statuses]]
      <4>1. PICK wait \in RetryWaits :
              row' = [row EXCEPT ![runner[r].job] =
                        [due |-> NextDue(r, wait), token |-> None, lease |-> 0,
                         status |-> Status(runner[r].code)]]
        BY <1>8, <2>3 DEF Finish, Record
      <4>2. NextDue(r, wait) \in DueTimes
        BY <2>0, DueType
      <4>3. Status(runner[r].code) \in Statuses
        BY <2>0 DEF Status, Statuses, Codes
      <4>4. 0 \in LeaseEnds
        BY TimeAssumption DEF LeaseEnds
      <4>. QED
        BY <4>1, <4>2, <4>3, <4>4 DEF TypeOK
    <3>2. lane' \in [Lanes -> [token : Runners \cup {None}, lease : LeaseEnds]]
      <4>1. Free \in [token : Runners \cup {None}, lease : LeaseEnds]
        BY TimeAssumption DEF Free, LeaseEnds
      <4>. QED
        BY <1>8, <2>3, <4>1 DEF Finish, Record, FreeLane, TypeOK
    <3>3. signal' \in [Jobs -> Time]
      BY <1>8, <2>3, TimeAssumption DEF Finish, Record, TypeOK, Time
    <3>4. handled' \in [Jobs -> Nat]
      <4>1. CASE runner[r].code \in Completed
        <5>1. runner[r].seen \in Nat
          BY <1>8, <2>0, <4>1 DEF Finish, EndedHasRead
        <5>. QED
          BY <1>8, <2>3, <4>1, <5>1 DEF Finish, Record, TypeOK
      <4>2. CASE runner[r].code \notin Completed
        BY <1>8, <2>3, <4>2 DEF Finish, Record, TypeOK
      <4>. QED
        BY <4>1, <4>2
    <3>. QED
      BY <1>8, <2>0, <2>1, <2>3, <3>1, <3>2, <3>3, <3>4 DEF Finish, TypeOK, records, clearing
  <2>. QED
    BY <2>2, <2>3
<1>9. ASSUME NEW r \in Runners, Drain(r) PROVE TypeOK'
  <2>1. ASSUME ClearingTurn(r) \/ Capture(r) \/ PurgeFails(r) PROVE TypeOK'
    <3>1. \/ Step(r, Resting)
          \/ Step(r, [Resting EXCEPT !.at = "clear"])
          \/ Step(r, [Resting EXCEPT !.at = "purge", !.captured = marker])
      BY <2>1 DEF ClearingTurn, Capture, PurgeFails
    <3>2. [Resting EXCEPT !.at = "purge", !.captured = marker] \in Run
      BY <1>0, RestingRun DEF Run, Clearing, Resting
    <3>3. UNCHANGED <<clock, deadlines, signalling, source, records, clearing, handled>>
      BY <2>1 DEF ClearingTurn, Capture, PurgeFails
    <3>4. [Resting EXCEPT !.at = "clear"] \in Run
      BY RestingRun DEF Clearing
    <3>5. /\ Resting.at \notin Collecting
          /\ [Resting EXCEPT !.at = "clear"].at \notin Collecting
          /\ [Resting EXCEPT !.at = "purge", !.captured = marker].at \notin Collecting
      BY DEF Resting, Collecting
    <3>6. CASE Step(r, Resting)
      BY <1>2, <3>3, <3>5, <3>6, RestingRun
    <3>7. CASE Step(r, [Resting EXCEPT !.at = "clear"])
      BY <1>2, <3>3, <3>4, <3>5, <3>7
    <3>8. CASE Step(r, [Resting EXCEPT !.at = "purge", !.captured = marker])
      BY <1>2, <3>2, <3>3, <3>5, <3>8
    <3>. QED
      BY <3>1, <3>6, <3>7, <3>8
  <2>2. ASSUME PurgeApi(r) PROVE TypeOK'
    <3>1. [runner[r] EXCEPT !.at = "website", !.covers = commits] \in Run
      BY <1>0 DEF Run, Clearing
    <3>2. [runner[r] EXCEPT !.at = "website", !.covers = commits].at \notin Collecting
      BY <1>0 DEF Run, Collecting
    <3>. QED
      BY <1>2, <2>2, <3>1, <3>2 DEF PurgeApi
  <2>3. ASSUME PurgeWebsite(r) PROVE TypeOK'
    <3>1. [runner[r] EXCEPT !.at = "settle"] \in Run
      BY <1>0 DEF Run, Clearing
    <3>2. [runner[r] EXCEPT !.at = "settle"].at \notin Collecting
      BY <1>0 DEF Run, Collecting
    <3>3. /\ runner' \in [Runners -> Run]
          /\ \A s \in Runners : runner'[s].at \in Collecting => runner'[s].job \in Jobs
      BY <2>3, <3>1, <3>2, StepType DEF PurgeWebsite
    <3>4. cleared' \in Nat
      BY <1>0, <2>3 DEF PurgeWebsite, Larger, Run
    <3>. QED
      BY <2>3, <3>3, <3>4 DEF PurgeWebsite, TypeOK, deadlines, signalling, records
  <2>4. ASSUME Settle(r) PROVE TypeOK'
    <3>1. /\ runner' \in [Runners -> Run]
          /\ \A s \in Runners : runner'[s].at \in Collecting => runner'[s].job \in Jobs
      BY <2>4, RestingRun, StepType DEF Settle, Collecting
    <3>2. marker' \in Nat
      BY <1>0, <2>4 DEF Settle, Settled
    <3>. QED
      BY <2>4, <3>1, <3>2 DEF Settle, TypeOK, deadlines, signalling, records
  <2>. QED
    BY <1>9, <2>1, <2>2, <2>3, <2>4 DEF Drain
<1>10. ASSUME NEW r \in Runners, Crash(r) PROVE TypeOK'
  BY <1>2, <1>10, RestingRun DEF Crash, Collecting
<1>11. ASSUME NEW o \in Observers, Observe(o) PROVE TypeOK'
  <2>0. /\ 0 \in Time /\ observer \in [Observers -> Observation]
        /\ \A p \in Observers : observer[p].at # "idle" => observer[p].job \in Jobs
    BY TimeAssumption DEF Time, TypeOK
  <2>1. Unconcerned \in Observation /\ Unconcerned.at = "idle"
    BY <2>0 DEF Unconcerned, Observation
  <2>2. ASSUME NEW j \in Jobs, Look(o, j) PROVE TypeOK'
    <3>1. /\ [Unconcerned EXCEPT !.at = "seen", !.job = j, !.seen = source[j]] \in Observation
          /\ [Unconcerned EXCEPT !.at = "seen", !.job = j, !.seen = source[j]].job \in Jobs
      BY <2>0 DEF Unconcerned, Observation, TypeOK
    <3>2. /\ observer' \in [Observers -> Observation]
          /\ \A p \in Observers : observer'[p].at # "idle" => observer'[p].job \in Jobs
      BY <2>2, <3>1, NoteType DEF Look
    <3>. QED
      BY <2>2, <3>2 DEF Look, TypeOK, deadlines, records, clearing
  <2>3. ASSUME Request(o) PROVE TypeOK'
    <3>1. /\ observer' \in [Observers -> Observation]
          /\ \A p \in Observers : observer'[p].at # "idle" => observer'[p].job \in Jobs
      BY <2>1, <2>3, NoteType DEF Request
    <3>2. /\ clock' \in Time /\ Now \in Time /\ Now \in DueTimes
      BY <2>3, PassesTime, TimeAssumption DEF Request, Time, DueTimes
    <3>3. observer[o].job \in Jobs /\ observer[o].seen \in Nat
      BY <2>0, <2>3 DEF Request, Observation
    <3>4. row' \in [Jobs -> [due : DueTimes, token : Runners \cup {None}, lease : LeaseEnds,
                            status : Statuses]]
      <4>1. row' = row \/ row' = [row EXCEPT ![observer[o].job].due =
                                      Smaller(row[observer[o].job].due, Now)]
        BY <2>3 DEF Request, RequestRefresh
      <4>2. Smaller(row[observer[o].job].due, Now) \in DueTimes
        BY <1>0, <3>2, <3>3 DEF Smaller
      <4>. QED
        BY <1>0, <3>3, <4>1, <4>2
    <3>5. signal' \in [Jobs -> Time] /\ known' \in [Jobs -> Nat] /\ observed' \in [Jobs -> Nat]
      BY <2>3, <3>2, <3>3 DEF Request, RequestRefresh, Larger, TypeOK
    <3>. QED
      BY <2>3, <3>1, <3>2, <3>4, <3>5 DEF Request, TypeOK, records, clearing
  <2>4. ASSUME ObserverFails(o) PROVE TypeOK'
    <3>1. /\ observer' \in [Observers -> Observation]
          /\ \A p \in Observers : observer'[p].at # "idle" => observer'[p].job \in Jobs
      BY <2>1, <2>4, NoteType DEF ObserverFails
    <3>. QED
      BY <2>4, <3>1 DEF ObserverFails, TypeOK, deadlines, records, clearing
  <2>. QED
    BY <1>11, <2>2, <2>3, <2>4 DEF Observe
<1>12. ASSUME NEW j \in Jobs, SourceChanges(j) PROVE TypeOK'
  BY <1>12 DEF SourceChanges, TypeOK, deadlines, signalling, records, clearing
<1>13. ASSUME Tick PROVE TypeOK'
  BY <1>13, PassesTime DEF Tick, TypeOK, deadlines, signalling, records, clearing
<1>. QED
  BY <1>1, <1>3, <1>4, <1>5, <1>6, <1>7, <1>8, <1>9, <1>10, <1>11, <1>12, <1>13 DEF Next, Turn

\* A step of one runner, or of none, leaves the others as they are.
LEMMA OthersKept ==
    ASSUME TypeOK, NEW r \in Runners, Turn(r) \/ Drain(r), NEW s \in Runners, s # r
    PROVE  runner'[s] = runner[s]
<1>1. \/ \E c : runner' = [runner EXCEPT ![r] = c]
      \/ runner' = runner
  BY DEF Turn, Drain, Claim, Start, Hold, Read, Store, Exit, Finish, Crash, ClearingTurn,
         Capture, PurgeApi, PurgeWebsite, PurgeFails, Settle, Step
<1>2. runner \in [Runners -> Run]
  BY DEF TypeOK
<1>. QED
  BY <1>1, <1>2

\* The fields of a runner after each of its steps, as far as the leases need them.
LEMMA RunnerAfter ==
    ASSUME TypeOK, NEW r \in Runners
    PROVE  /\ \A j \in Jobs : Claim(r, j) =>
                /\ runner'[r].at = "claimed" /\ runner'[r].job = j
                /\ runner'[r].started = Now
           /\ Start(r) =>
                /\ runner'[r].at = "running" /\ runner'[r].began = clock
                /\ runner'[r].job = runner[r].job /\ runner'[r].started = runner[r].started
           /\ Hold(r) => runner'[r].at = "ended" /\ runner'[r].code = "deferred"
           /\ Read(r) =>
                /\ runner'[r].at = runner[r].at /\ runner'[r].began = runner[r].began
                /\ runner'[r].job = runner[r].job /\ runner'[r].started = runner[r].started
           /\ Store(r) => runner' = runner
           /\ \A code \in Codes : Exit(r, code) =>
                /\ runner'[r].at = "ended" /\ runner'[r].code = code
                /\ runner'[r].seen = runner[r].seen
           /\ Finish(r) \/ Crash(r) \/ Drain(r) =>
                runner'[r].at \in {"idle"} \cup Clearing
<1>1. runner \in [Runners -> Run]
  BY DEF TypeOK
<1>2. \A c : Step(r, c) => runner'[r] = c
  BY <1>1 DEF Step
<1>3. runner[r] \in Run
  BY <1>1
<1>4. \A j \in Jobs : Claim(r, j) =>
           runner'[r] = [Resting EXCEPT !.at = "claimed", !.job = j, !.started = Now]
  BY <1>2 DEF Claim
<1>5. /\ Start(r) => runner'[r] = [runner[r] EXCEPT !.at = "running", !.began = clock]
      /\ Hold(r) => runner'[r] = [runner[r] EXCEPT !.at = "ended", !.code = "deferred"]
      /\ Read(r) => runner'[r] = [runner[r] EXCEPT !.seen = source[runner[r].job]]
      /\ \A code \in Codes : Exit(r, code) =>
           runner'[r] = [runner[r] EXCEPT !.at = "ended", !.code = code, !.began = 0]
  BY <1>2 DEF Start, Hold, Read, Exit
<1>6. ASSUME Finish(r) \/ Crash(r) \/ Drain(r)
      PROVE  runner'[r].at \in {"idle"} \cup Clearing
  <2>1. \/ runner'[r] = Resting
        \/ runner'[r] = [Resting EXCEPT !.at = "clear"]
        \/ runner'[r] = [Resting EXCEPT !.at = "purge", !.captured = marker]
        \/ runner'[r] = [runner[r] EXCEPT !.at = "website", !.covers = commits]
        \/ runner'[r] = [runner[r] EXCEPT !.at = "settle"]
    BY <1>2, <1>6 DEF Finish, Crash, Drain, ClearingTurn, Capture, PurgeApi, PurgeWebsite,
                PurgeFails, Settle
  <2>2. /\ Resting.at = "idle"
        /\ [Resting EXCEPT !.at = "clear"].at = "clear"
        /\ [Resting EXCEPT !.at = "purge", !.captured = marker].at = "purge"
    BY DEF Resting
  <2>3. /\ [runner[r] EXCEPT !.at = "website", !.covers = commits].at = "website"
        /\ [runner[r] EXCEPT !.at = "settle"].at = "settle"
    BY <1>3 DEF Run
  <2>. QED
    BY <2>1, <2>2, <2>3 DEF Clearing
<1>7. \A j \in Jobs : Claim(r, j) =>
           /\ runner'[r].at = "claimed" /\ runner'[r].job = j /\ runner'[r].started = Now
  BY <1>4 DEF Resting
<1>8. /\ Start(r) =>
           /\ runner'[r].at = "running" /\ runner'[r].began = clock
           /\ runner'[r].job = runner[r].job /\ runner'[r].started = runner[r].started
      /\ Hold(r) => runner'[r].at = "ended" /\ runner'[r].code = "deferred"
  BY <1>3, <1>5 DEF Run
<1>9. Read(r) =>
           /\ runner'[r].at = runner[r].at /\ runner'[r].began = runner[r].began
           /\ runner'[r].job = runner[r].job /\ runner'[r].started = runner[r].started
  BY <1>3, <1>5 DEF Run
<1>11. ASSUME NEW code \in Codes, Exit(r, code)
       PROVE  /\ runner'[r].at = "ended" /\ runner'[r].code = code
              /\ runner'[r].seen = runner[r].seen
  <2>1. runner'[r] = [runner[r] EXCEPT !.at = "ended", !.code = code, !.began = 0]
    BY <1>5, <1>11
  <2>. QED
    BY <1>3, <2>1 DEF Run
<1>10. Store(r) => runner' = runner
  BY DEF Store
<1>. QED
  BY <1>6, <1>7, <1>8, <1>9, <1>10, <1>11

\* A command that ends as completed has read its source.
LEMMA EndedKept == TypeOK /\ EndedHasRead /\ Next => EndedHasRead'
<1>. SUFFICES ASSUME TypeOK, EndedHasRead, Next,
                     NEW s \in Runners, runner'[s].at = "ended", runner'[s].code \in Completed
              PROVE  runner'[s].seen # NotRead
  BY DEF EndedHasRead
<1>1. CASE runner'[s] = runner[s]
  BY <1>1 DEF EndedHasRead
<1>2. CASE Turn(s) \/ Drain(s)
  <2>1. CASE \E code \in Codes : Exit(s, code)
    BY <2>1, RunnerAfter DEF Exit
  <2>2. CASE Read(s)
    BY <2>2, RunnerAfter DEF Read
  <2>3. CASE Store(s)
    <3>1. runner' = runner
      BY <2>3, RunnerAfter
    <3>. QED
      BY <1>1, <3>1
  <2>4. CASE \E j \in Jobs : Claim(s, j)
    BY <2>4, RunnerAfter
  <2>5. CASE Start(s) \/ Hold(s)
    BY <2>5, RunnerAfter DEF Completed
  <2>6. CASE Finish(s) \/ Crash(s) \/ Drain(s)
    BY <2>6, RunnerAfter DEF Clearing
  <2>. QED
    BY <1>2, <2>1, <2>2, <2>3, <2>4, <2>5, <2>6 DEF Turn
<1>3. CASE \A r \in Runners : ~ (Turn(r) \/ Drain(r))
  <2>1. runner' = runner
    BY <1>3 DEF Next, Observe, Look, Request, ObserverFails, SourceChanges, Tick
  <2>. QED
    BY <1>1, <2>1
<1>. QED
  BY <1>1, <1>2, <1>3, OthersKept

--------------------------------------------------------------------------------
(* Leases *)

\* What LeaseLedger says of one runner.
Kept(r) ==
    LET c == runner[r]
        end == c.started + Timeout + Margin IN
    /\ row[c.job].token = r /\ row[c.job].lease = end
    /\ lane[LaneOf[c.job]].token = r /\ lane[LaneOf[c.job]].lease = end
    /\ c.at = "claimed" => clock <= c.started + StartDelay
    /\ c.at = "running" => /\ c.began <= c.started + StartDelay
                           /\ clock <= c.began + Timeout + StopDelay

LEMMA LedgerOfAll == LeaseLedger <=> \A r \in Runners : Working(r) => Kept(r)
  BY DEF LeaseLedger, Kept

\* While a command is due to start or to end, its lease is not over.
LEMMA StillLeased ==
    ASSUME TypeOK, NEW r \in Runners, Working(r), Kept(r), Passes
    PROVE  /\ runner[r].started + Timeout + Margin > Now
           /\ runner[r].at = "claimed" => Now <= runner[r].started + StartDelay
           /\ runner[r].at = "running" => Now <= runner[r].began + Timeout + StopDelay
<1>1. /\ runner[r].started \in Nat /\ runner[r].began \in Nat /\ clock \in Nat
      /\ Timeout \in Nat /\ Margin \in Nat /\ StartDelay \in Nat /\ StopDelay \in Nat
      /\ StartDelay + StopDelay < Margin
  BY TimeAssumption DEF TypeOK, Run, Time
<1>2. CASE runner[r].at = "claimed"
  BY <1>1, <1>2 DEF Passes, Now
<1>3. CASE runner[r].at = "running"
  BY <1>1, <1>3 DEF Passes, Now, Kept
<1>. QED
  BY <1>2, <1>3 DEF Working

\* A working runner whose leases a step leaves alone keeps them.
LEMMA KeptOn ==
    ASSUME TypeOK, NEW r \in Runners, Working(r), Kept(r), runner'[r] = runner[r],
           row'[runner[r].job].token = row[runner[r].job].token,
           row'[runner[r].job].lease = row[runner[r].job].lease,
           lane'[LaneOf[runner[r].job]] = lane[LaneOf[runner[r].job]],
           clock' = clock \/ Passes
    PROVE  Kept(r)'
<1>1. CASE clock' = clock
  BY <1>1 DEF Kept
<1>2. CASE Passes
  BY <1>2, StillLeased DEF Kept, Passes
<1>. QED
  BY <1>1, <1>2

\* What a claim takes is not held by a command.
LEMMA ClaimExcludes ==
    ASSUME TypeOK, LeaseLedger, NEW r \in Runners, NEW j \in Jobs, Claim(r, j),
           NEW s \in Runners, Working(s)
    PROVE  s # r /\ LaneOf[runner[s].job] # LaneOf[j] /\ runner[s].job # j
<1>1. Kept(s) /\ Passes /\ Claimable(j)
  BY LedgerOfAll DEF Claim
<1>2. lane[LaneOf[runner[s].job]].lease > Now
  BY <1>1, StillLeased DEF Kept
<1>3. ~ (lane[LaneOf[j]].lease > Now)
  BY <1>1 DEF Claimable, Leased
<1>4. s # r
  BY DEF Claim, Working
<1>. QED
  BY <1>2, <1>3, <1>4

\* The leases are kept: one step per action that touches what LeaseLedger names.
LEMMA LeasesKept == TypeOK /\ LeaseLedger /\ Next => LeaseLedger'
<1>. SUFFICES ASSUME TypeOK, LeaseLedger, Next, NEW s \in Runners, Working(s)'
              PROVE  Kept(s)'
  BY DEF LeaseLedger, Kept
<1>1. /\ Working(s) => Kept(s)
      /\ runner[s].at \in Collecting => runner[s].job \in Jobs
      /\ runner[s].started \in Nat /\ runner[s].began \in Nat /\ clock \in Nat
      /\ row \in [Jobs -> [due : DueTimes, token : Runners \cup {None}, lease : LeaseEnds,
                           status : Statuses]]
      /\ lane \in [Lanes -> [token : Runners \cup {None}, lease : LeaseEnds]]
      /\ LaneOf \in [Jobs -> Lanes]
  BY LedgerOfAll, JobAssumption, TimeAssumption DEF TypeOK, Run, Time
<1>2. /\ {Timeout, Margin, StartDelay, StopDelay} \subseteq Nat
      /\ None \notin Runners
  BY TimeAssumption, JobAssumption
<1>3. ASSUME runner'[s] = runner[s], clock' = clock \/ Passes, lane' = lane,
             row'[runner[s].job].token = row[runner[s].job].token,
             row'[runner[s].job].lease = row[runner[s].job].lease
      PROVE  Kept(s)'
  BY <1>1, <1>3, KeptOn DEF Working
<1>4. ASSUME NEW r \in Runners, NEW j \in Jobs, Claim(r, j) PROVE Kept(s)'
  <2>1. /\ row' = [row EXCEPT ![j].token = r, ![j].lease = LeaseEnd]
        /\ lane' = [lane EXCEPT ![LaneOf[j]] = [token |-> r, lease |-> LeaseEnd]]
        /\ Passes
    BY <1>4 DEF Claim
  <2>2. CASE s = r
    <3>1. runner'[s].at = "claimed" /\ runner'[s].job = j /\ runner'[s].started = Now
      BY <1>4, <2>2, RunnerAfter
    <3>2. /\ row'[j].token = s /\ row'[j].lease = LeaseEnd
          /\ lane'[LaneOf[j]].token = s /\ lane'[LaneOf[j]].lease = LeaseEnd
      BY <1>1, <2>1, <2>2
    <3>3. clock' <= Now + StartDelay
      BY <1>1, <1>2, <2>1 DEF Passes, Now
    <3>. QED
      BY <3>1, <3>2, <3>3 DEF Kept, LeaseEnd
  <2>3. CASE s # r
    <3>1. runner'[s] = runner[s]
      BY <1>4, <2>3, OthersKept DEF Turn
    <3>2. Working(s)
      BY <3>1 DEF Working
    <3>3. LaneOf[runner[s].job] # LaneOf[j] /\ runner[s].job # j /\ runner[s].job \in Jobs
      BY <1>1, <1>4, <3>2, ClaimExcludes DEF Working, Collecting
    <3>4. /\ row'[runner[s].job] = row[runner[s].job]
          /\ lane'[LaneOf[runner[s].job]] = lane[LaneOf[runner[s].job]]
      BY <1>1, <2>1, <3>3
    <3>. QED
      BY <1>1, <2>1, <3>1, <3>2, <3>4, KeptOn
  <2>. QED
    BY <2>2, <2>3
<1>5. ASSUME Start(s) PROVE Kept(s)'
  <2>1. /\ runner'[s].at = "running" /\ runner'[s].began = clock
        /\ runner'[s].job = runner[s].job /\ runner'[s].started = runner[s].started
    BY <1>5, RunnerAfter
  <2>2. Working(s) /\ clock' = clock /\ row' = row /\ lane' = lane
    BY <1>5 DEF Start, Working, deadlines
  <2>3. clock <= clock + Timeout + StopDelay /\ clock <= runner[s].started + StartDelay
    BY <1>1, <1>2, <1>5, <2>2 DEF Start, Kept
  <2>. QED
    BY <1>1, <2>1, <2>2, <2>3 DEF Kept
<1>6. ASSUME Read(s) PROVE Kept(s)'
  <2>1. /\ runner'[s].at = runner[s].at /\ runner'[s].began = runner[s].began
        /\ runner'[s].job = runner[s].job /\ runner'[s].started = runner[s].started
    BY <1>6, RunnerAfter
  <2>2. Working(s) /\ clock' = clock /\ row' = row /\ lane' = lane
    BY <1>6 DEF Read, Working, deadlines
  <2>. QED
    BY <1>1, <2>1, <2>2 DEF Kept
<1>7. ASSUME Hold(s) \/ Finish(s) \/ Crash(s) \/ Drain(s) \/ \E code \in Codes : Exit(s, code)
      PROVE  FALSE
  BY <1>7, RunnerAfter DEF Working, Clearing
<1>8. ASSUME NEW r \in Runners, Finish(r), s # r PROVE Kept(s)'
  <2>1. runner'[s] = runner[s] /\ Passes
    BY <1>8, OthersKept DEF Turn, Finish
  <2>2. Working(s) /\ Kept(s) /\ runner[s].job \in Jobs /\ runner[r].job \in Jobs
    BY <1>1, <1>8, <2>1 DEF Working, Collecting, Finish, TypeOK
  <2>3. row[runner[s].job].token = s /\ lane[LaneOf[runner[s].job]].token = s
    BY <2>2 DEF Kept
  <2>4. CASE Owns(r)
    <3>1. runner[s].job # runner[r].job
      BY <1>8, <2>3, <2>4 DEF Owns
    <3>2. row'[runner[s].job] = row[runner[s].job]
      BY <1>1, <1>8, <2>2, <2>4, <3>1 DEF Finish, Record
    <3>3. lane'[LaneOf[runner[s].job]] = lane[LaneOf[runner[s].job]]
      BY <1>1, <1>8, <2>2, <2>3, <2>4 DEF Finish, Record, FreeLane
    <3>. QED
      BY <2>1, <2>2, <3>2, <3>3, KeptOn
  <2>5. CASE ~ Owns(r)
    BY <1>3, <1>8, <2>1, <2>5 DEF Finish, deadlines
  <2>. QED
    BY <2>4, <2>5
<1>9. ASSUME NEW r \in Runners, s # r,
             Start(r) \/ Hold(r) \/ Read(r) \/ Store(r) \/ Crash(r) \/ Drain(r)
                \/ \E code \in Codes : Exit(r, code)
      PROVE  Kept(s)'
  <2>1. runner'[s] = runner[s]
    BY <1>9, OthersKept DEF Turn
  <2>2. clock' = clock /\ row' = row /\ lane' = lane
    BY <1>9 DEF Start, Hold, Read, Store, Crash, Drain, Exit, ClearingTurn, Capture, PurgeApi,
                PurgeWebsite, PurgeFails, Settle, deadlines
  <2>. QED
    BY <1>3, <2>1, <2>2
<1>10. ASSUME Store(s) PROVE Kept(s)'
  BY <1>3, <1>10 DEF Store, deadlines
<1>11. ASSUME NEW o \in Observers, Observe(o) PROVE Kept(s)'
  <2>1. runner' = runner /\ lane' = lane /\ (clock' = clock \/ Passes)
    BY <1>11 DEF Observe, Look, Request, ObserverFails, deadlines
  <2>2. \/ row' = row
        \/ \E j : row' = [row EXCEPT ![j].due = Smaller(@, Now)]
    BY <1>11 DEF Observe, Look, Request, RequestRefresh, ObserverFails, deadlines
  <2>3. runner[s].job \in Jobs
    BY <1>1, <2>1 DEF Working, Collecting
  <2>4. /\ row'[runner[s].job].token = row[runner[s].job].token
        /\ row'[runner[s].job].lease = row[runner[s].job].lease
    BY <1>1, <2>2, <2>3
  <2>. QED
    BY <1>3, <2>1, <2>4
<1>12. ASSUME NEW j \in Jobs, SourceChanges(j) PROVE Kept(s)'
  BY <1>3, <1>12 DEF SourceChanges, deadlines
<1>13. ASSUME Tick PROVE Kept(s)'
  BY <1>3, <1>13 DEF Tick, deadlines
<1>. QED
  BY <1>4, <1>5, <1>6, <1>7, <1>8, <1>9, <1>10, <1>11, <1>12, <1>13 DEF Next, Turn

\* Two commands of one lane would both hold it.
LEMMA LeasesExclude == TypeOK /\ LeaseLedger => OneCollectorPerLane
<1>. SUFFICES ASSUME TypeOK, LeaseLedger, NEW r \in Runners, NEW s \in Runners,
                     runner[r].at = "running", runner[s].at = "running",
                     LaneOf[runner[r].job] = LaneOf[runner[s].job]
              PROVE  r = s
  BY DEF OneCollectorPerLane
<1>1. Kept(r) /\ Kept(s)
  BY LedgerOfAll DEF Working
<1>. QED
  BY <1>1 DEF Kept

\* Nobody works at first.
LEMMA InitLeases == Init => LeaseInv
<1>. SUFFICES ASSUME Init PROVE LeaseInv
  OBVIOUS
<1>1. /\ 0 \in Time /\ 0 \in LeaseEnds /\ 0 \in DueTimes
  BY TimeAssumption DEF Time, LeaseEnds, DueTimes
<1>2. runner \in [Runners -> Run] /\ \A r \in Runners : runner[r].at = "idle"
  BY RestingRun DEF Init
<1>3. /\ observer \in [Observers -> Observation]
      /\ \A o \in Observers : observer[o].at = "idle"
  <2>1. Unconcerned \in Observation /\ Unconcerned.at = "idle"
    BY <1>1 DEF Unconcerned, Observation
  <2>. QED
    BY <2>1 DEF Init
<1>4. /\ row \in [Jobs -> [due : DueTimes, token : Runners \cup {None}, lease : LeaseEnds,
                           status : Statuses]]
      /\ lane \in [Lanes -> [token : Runners \cup {None}, lease : LeaseEnds]]
  BY <1>1 DEF Init, Free, Statuses
<1>5. TypeOK
  BY <1>1, <1>2, <1>3, <1>4 DEF Init, TypeOK, Collecting
<1>. QED
  BY <1>2, <1>5 DEF LeaseInv, EndedHasRead, LeaseLedger, Working

LEMMA LeaseInvKept == LeaseInv /\ [Next]_vars => LeaseInv'
<1>. SUFFICES ASSUME LeaseInv, [Next]_vars PROVE LeaseInv'
  OBVIOUS
<1>1. CASE Next
  BY <1>1, TypeKept, EndedKept, LeasesKept DEF LeaseInv
<1>2. CASE UNCHANGED vars
  BY <1>2 DEF vars, LeaseInv, TypeOK, EndedHasRead, LeaseLedger, Working
<1>. QED
  BY <1>1, <1>2

--------------------------------------------------------------------------------
(* What passes read, store and answer *)

\* What the steps of a runner and of the observers leave alone.
LEMMA Untouched ==
    ASSUME NEW r \in Runners
    PROVE  /\ Start(r) \/ Hold(r) \/ Crash(r) \/ Read(r) \/ (\E code \in Codes : Exit(r, code))
                => UNCHANGED <<clock, deadlines, signalling, source, records, clearing, handled>>
           /\ Drain(r) => UNCHANGED <<clock, deadlines, signalling, source, records, handled>>
           /\ (\E j \in Jobs : Claim(r, j)) =>
                UNCHANGED <<signalling, source, records, clearing, handled>>
           /\ Store(r) => UNCHANGED <<clock, deadlines, signalling, runner, source, cleared, handled>>
           /\ Finish(r) => UNCHANGED <<observer, known, observed, source, records, clearing>>
  BY DEF Start, Hold, Crash, Read, Exit, Drain, Claim, Store, Finish, ClearingTurn, Capture,
         PurgeApi, PurgeWebsite, PurgeFails, Settle, clearing

\* What Run says of the runner's numbers.
LEMMA RunNumbers ==
    ASSUME TypeOK
    PROVE  /\ \A r \in Runners :
                /\ runner[r].seen \in Nat \cup {NotRead} /\ runner[r].started \in Nat
                /\ runner[r].captured \in Nat /\ runner[r].covers \in Nat
                /\ runner[r].code \in Codes
           /\ clock \in Nat /\ signal \in [Jobs -> Nat]
           /\ stored \in [Jobs -> Nat] /\ handled \in [Jobs -> Nat]
           /\ observed \in [Jobs -> Nat] /\ source \in [Jobs -> Nat]
           /\ commits \in Nat /\ marker \in Nat /\ cleared \in Nat
<1>1. Time \subseteq Nat
  BY TimeAssumption DEF Time
<1>. QED
  BY <1>1 DEF TypeOK, Run

\* What a pass has read after each step of its runner.
LEMMA SeenAfter ==
    ASSUME TypeOK, NEW r \in Runners
    PROVE  /\ \A j \in Jobs : Claim(r, j) => runner'[r].seen = NotRead
           /\ Start(r) \/ Hold(r) => runner'[r].seen = runner[r].seen
           /\ Hold(r) => /\ runner'[r].job = runner[r].job
                         /\ runner'[r].started = runner[r].started
           /\ Read(r) => runner'[r].seen = source[runner[r].job]
           /\ \A code \in Codes : Exit(r, code) =>
                /\ runner'[r].job = runner[r].job /\ runner'[r].started = runner[r].started
<1>1. runner \in [Runners -> Run] /\ runner[r] \in Run
  BY DEF TypeOK
<1>2. \A c : Step(r, c) => runner'[r] = c
  BY <1>1 DEF Step
<1>3. ASSUME NEW j \in Jobs, Claim(r, j) PROVE runner'[r].seen = NotRead
  <2>1. runner'[r] = [Resting EXCEPT !.at = "claimed", !.job = j, !.started = Now]
    BY <1>2, <1>3 DEF Claim
  <2>. QED
    BY <2>1 DEF Resting
<1>4. ASSUME Start(r) PROVE runner'[r].seen = runner[r].seen
  <2>1. runner'[r] = [runner[r] EXCEPT !.at = "running", !.began = clock]
    BY <1>2, <1>4 DEF Start
  <2>. QED
    BY <1>1, <2>1 DEF Run
<1>5. ASSUME Hold(r)
      PROVE  /\ runner'[r].seen = runner[r].seen /\ runner'[r].job = runner[r].job
             /\ runner'[r].started = runner[r].started
  <2>1. runner'[r] = [runner[r] EXCEPT !.at = "ended", !.code = "deferred"]
    BY <1>2, <1>5 DEF Hold
  <2>. QED
    BY <1>1, <2>1 DEF Run
<1>6. ASSUME Read(r) PROVE runner'[r].seen = source[runner[r].job]
  <2>1. runner'[r] = [runner[r] EXCEPT !.seen = source[runner[r].job]]
    BY <1>2, <1>6 DEF Read
  <2>. QED
    BY <1>1, <2>1 DEF Run
<1>7. ASSUME NEW code \in Codes, Exit(r, code)
      PROVE  runner'[r].job = runner[r].job /\ runner'[r].started = runner[r].started
  <2>1. runner'[r] = [runner[r] EXCEPT !.at = "ended", !.code = code, !.began = 0]
    BY <1>2, <1>7 DEF Exit
  <2>. QED
    BY <1>1, <2>1 DEF Run
<1>. QED
  BY <1>3, <1>4, <1>5, <1>6, <1>7

\* A runner changes by its own steps only, and so does an observer.
LEMMA RunnersMove ==
    ASSUME TypeOK, Next, NEW s \in Runners, runner'[s] # runner[s]
    PROVE  Turn(s) \/ Drain(s)
<1>1. CASE \E r \in Runners : Turn(r) \/ Drain(r)
  BY <1>1, OthersKept
<1>2. CASE \A r \in Runners : ~ (Turn(r) \/ Drain(r))
  BY <1>2 DEF Next, Observe, Look, Request, ObserverFails, SourceChanges, Tick
<1>. QED
  BY <1>1, <1>2

LEMMA ObserversMove ==
    ASSUME TypeOK, Next, NEW o \in Observers, observer'[o] # observer[o]
    PROVE  Observe(o)
<1>1. ASSUME NEW p \in Observers, Observe(p), p # o PROVE observer'[o] = observer[o]
  <2>1. \E c : observer' = [observer EXCEPT ![p] = c]
    BY <1>1 DEF Observe, Look, Request, ObserverFails, Note
  <2>. QED
    BY <1>1, <2>1 DEF TypeOK
<1>2. CASE \E r \in Runners : Turn(r) \/ Drain(r)
  BY <1>2, Untouched DEF Turn, signalling
<1>3. CASE Tick \/ \E j \in Jobs : SourceChanges(j)
  BY <1>3 DEF Tick, SourceChanges, signalling
<1>. QED
  BY <1>1, <1>2, <1>3 DEF Next

\* Who changes the records, the history and the signals, and how.
LEMMA WhoChanges ==
    ASSUME TypeOK, Next, NEW j \in Jobs
    PROVE  /\ stored'[j] # stored[j] => \E r \in Runners :
                Store(r) /\ runner[r].job = j /\ stored'[j] = runner[r].seen
           /\ handled'[j] # handled[j] => \E r \in Runners :
                /\ Finish(r) /\ Owns(r) /\ runner[r].job = j
                /\ runner[r].code \in Completed /\ handled'[j] = runner[r].seen
           /\ observed'[j] # observed[j] => \E o \in Observers :
                /\ Request(o) /\ observer[o].job = j /\ signal'[j] = Now
                /\ observed'[j] = observer[o].seen
           /\ signal'[j] # signal[j] =>
                \/ \E r \in Runners :
                      Finish(r) /\ Owns(r) /\ Answers(r) /\ runner[r].job = j /\ signal'[j] = 0
                \/ signal'[j] = Now /\ Passes
           /\ source'[j] >= source[j]
<1>1. /\ stored \in [Jobs -> Nat] /\ handled \in [Jobs -> Nat] /\ source \in [Jobs -> Nat]
      /\ observed \in [Jobs -> Nat] /\ signal \in [Jobs -> Nat]
  BY RunNumbers
<1>2. CASE \E r \in Runners : Turn(r) \/ Drain(r)
  <2>1. PICK r \in Runners : Turn(r) \/ Drain(r)
    BY <1>2
  <2>2. CASE Store(r)
    <3>1. /\ stored' = [stored EXCEPT ![runner[r].job] = runner[r].seen]
          /\ handled' = handled /\ signal' = signal /\ observed' = observed /\ source' = source
      BY <2>2 DEF Store, signalling
    <3>. QED
      BY <1>1, <2>2, <3>1
  <2>3. CASE Finish(r)
    <3>1. stored' = stored /\ observed' = observed /\ source' = source
      BY <2>3, Untouched DEF records
    <3>2. CASE ~ Owns(r)
      BY <1>1, <2>3, <3>1, <3>2 DEF Finish
    <3>3. CASE Owns(r)
      <4>1. /\ signal' = IF Answers(r) THEN [signal EXCEPT ![runner[r].job] = 0] ELSE signal
            /\ handled' = IF runner[r].code \in Completed
                          THEN [handled EXCEPT ![runner[r].job] = runner[r].seen] ELSE handled
        BY <2>3, <3>3 DEF Finish, Record
      <4>. QED
        BY <1>1, <2>3, <3>1, <3>3, <4>1
    <3>. QED
      BY <3>2, <3>3
  <2>4. CASE ~ Store(r) /\ ~ Finish(r)
    <3>1. UNCHANGED <<signalling, source, records, handled>>
      BY <2>1, <2>4, Untouched DEF Turn
    <3>. QED
      BY <1>1, <3>1 DEF signalling, records
  <2>. QED
    BY <2>2, <2>3, <2>4
<1>3. CASE \E o \in Observers : Observe(o)
  <2>1. PICK o \in Observers : Observe(o)
    BY <1>3
  <2>2. stored' = stored /\ handled' = handled /\ source' = source
    BY <2>1 DEF Observe, Look, Request, ObserverFails, records
  <2>3. CASE Request(o) /\ observer[o].seen # known[observer[o].job]
    <3>1. /\ signal' = [signal EXCEPT ![observer[o].job] = Now]
          /\ observed' = [observed EXCEPT ![observer[o].job] =
                             Larger(observed[observer[o].job], observer[o].seen)]
          /\ Passes
      BY <2>3 DEF Request, RequestRefresh
    <3>. QED
      BY <1>1, <2>2, <2>3, <3>1 DEF Larger
  <2>4. CASE ~ (Request(o) /\ observer[o].seen # known[observer[o].job])
    <3>1. signal' = signal /\ observed' = observed
      BY <2>1, <2>4 DEF Observe, Look, Request, ObserverFails
    <3>. QED
      BY <1>1, <2>2, <3>1
  <2>. QED
    BY <2>3, <2>4
<1>4. CASE Tick \/ \E k \in Jobs : SourceChanges(k)
  <2>1. /\ stored' = stored /\ handled' = handled /\ signal' = signal /\ observed' = observed
        /\ source' = source \/ \E k \in Jobs : source' = [source EXCEPT ![k] = source[k] + 1]
    BY <1>4 DEF Tick, SourceChanges, signalling, records
  <2>. QED
    BY <1>1, <2>1
<1>. QED
  BY <1>2, <1>3, <1>4 DEF Next

\* Nothing is ahead of the official source.
LEMMA SourcesKept == LeaseInv /\ SourceLedger /\ Next => SourceLedger'
<1>. SUFFICES ASSUME LeaseInv, SourceLedger, Next PROVE SourceLedger'
  OBVIOUS
<1>0. TypeOK /\ TypeOK' /\ EndedHasRead
  BY TypeKept DEF LeaseInv
<1>1. \A j \in Jobs :
          /\ source[j] \in Nat /\ source'[j] \in Nat /\ source'[j] >= source[j]
          /\ stored'[j] \in Nat /\ handled'[j] \in Nat /\ observed'[j] \in Nat
  <2>1. \A j \in Jobs : source'[j] \in Nat /\ stored'[j] \in Nat
                        /\ handled'[j] \in Nat /\ observed'[j] \in Nat
    BY <1>0 DEF TypeOK
  <2>2. \A j \in Jobs : source[j] \in Nat
    BY <1>0, RunNumbers
  <2>. QED
    BY <1>0, <2>1, <2>2, WhoChanges
<1>2. ASSUME NEW j \in Jobs
      PROVE  stored'[j] <= source'[j] /\ handled'[j] <= source'[j] /\ observed'[j] <= source'[j]
  <2>1. /\ stored[j] \in 0 .. source[j] /\ handled[j] \in 0 .. source[j]
        /\ observed[j] \in 0 .. source[j]
    BY DEF SourceLedger
  <2>2. ASSUME NEW r \in Runners, runner[r].at \in Collecting, runner[r].job = j,
               runner[r].seen # NotRead
        PROVE  runner[r].seen <= source[j]
    BY <1>1, <2>2 DEF SourceLedger
  <2>3. stored'[j] <= source[j]
    <3>1. CASE stored'[j] = stored[j]
      BY <1>1, <2>1, <3>1
    <3>2. CASE stored'[j] # stored[j]
      <4>1. PICK r \in Runners : Store(r) /\ runner[r].job = j /\ stored'[j] = runner[r].seen
        BY <1>0, <3>2, WhoChanges
      <4>. QED
        BY <2>2, <4>1 DEF Store, Collecting
    <3>. QED
      BY <3>1, <3>2
  <2>4. handled'[j] <= source[j]
    <3>1. CASE handled'[j] = handled[j]
      BY <1>1, <2>1, <3>1
    <3>2. CASE handled'[j] # handled[j]
      <4>1. PICK r \in Runners :
              /\ Finish(r) /\ Owns(r) /\ runner[r].job = j
              /\ runner[r].code \in Completed /\ handled'[j] = runner[r].seen
        BY <1>0, <3>2, WhoChanges
      <4>2. runner[r].at \in Collecting /\ runner[r].seen # NotRead
        BY <1>0, <4>1 DEF Finish, Collecting, EndedHasRead
      <4>. QED
        BY <2>2, <4>1, <4>2
    <3>. QED
      BY <3>1, <3>2
  <2>5. observed'[j] <= source[j]
    <3>1. CASE observed'[j] = observed[j]
      BY <1>1, <2>1, <3>1
    <3>2. CASE observed'[j] # observed[j]
      <4>1. PICK o \in Observers :
              Request(o) /\ observer[o].job = j /\ observed'[j] = observer[o].seen
        BY <1>0, <3>2, WhoChanges
      <4>. QED
        BY <4>1 DEF Request, SourceLedger
    <3>. QED
      BY <3>1, <3>2
  <2>. QED
    BY <1>1, <2>3, <2>4, <2>5
<1>3. ASSUME NEW r \in Runners, runner'[r].at \in Collecting
      PROVE  runner'[r].seen \in {NotRead} \cup 0 .. source'[runner'[r].job]
  <2>1. runner'[r].job \in Jobs /\ runner'[r].seen \in Nat \cup {NotRead}
    BY <1>0, <1>3 DEF TypeOK, Run
  <2>2. CASE runner'[r] = runner[r]
    BY <1>1, <1>3, <2>1, <2>2 DEF SourceLedger
  <2>3. CASE Turn(r) \/ Drain(r)
    <3>1. CASE \E j \in Jobs : Claim(r, j)
      BY <1>0, <3>1, SeenAfter
    <3>2. CASE Read(r)
      <4>1. /\ runner'[r].job = runner[r].job /\ runner'[r].seen = source[runner[r].job]
            /\ source' = source
        BY <1>0, <3>2, RunnerAfter, SeenAfter DEF Read
      <4>. QED
        BY <1>1, <2>1, <4>1
    <3>3. CASE Start(r) \/ Hold(r) \/ \E code \in Codes : Exit(r, code)
      <4>1. /\ runner'[r].job = runner[r].job /\ runner'[r].seen = runner[r].seen
            /\ runner[r].at \in Collecting
        BY <1>0, <3>3, RunnerAfter, SeenAfter DEF Start, Hold, Exit, Collecting
      <4>. QED
        BY <1>1, <2>1, <4>1 DEF SourceLedger
    <3>4. CASE Store(r)
      BY <2>2, <3>4, Untouched
    <3>5. CASE Finish(r) \/ Crash(r) \/ Drain(r)
      BY <1>0, <1>3, <3>5, RunnerAfter DEF Collecting, Clearing
    <3>. QED
      BY <2>3, <3>1, <3>2, <3>3, <3>4, <3>5 DEF Turn
  <2>. QED
    BY <1>0, <2>2, <2>3, RunnersMove
<1>4. ASSUME NEW o \in Observers, observer'[o].at = "seen"
      PROVE  observer'[o].seen <= source'[observer'[o].job]
  <2>1. observer'[o].job \in Jobs /\ observer'[o].seen \in Nat
    BY <1>0, <1>4 DEF TypeOK, Observation
  <2>2. CASE observer'[o] = observer[o]
    BY <1>1, <1>4, <2>1, <2>2 DEF SourceLedger
  <2>3. CASE Observe(o)
    <3>1. ASSUME NEW j \in Jobs, Look(o, j) PROVE observer'[o].seen <= source'[observer'[o].job]
      <4>1. /\ observer' = [observer EXCEPT ![o] =
                    [Unconcerned EXCEPT !.at = "seen", !.job = j, !.seen = source[j]]]
            /\ source' = source /\ observer \in [Observers -> Observation]
        BY <1>0, <3>1 DEF Look, Note, TypeOK
      <4>2. observer'[o].seen = source[j] /\ observer'[o].job = j
        BY <4>1 DEF Unconcerned
      <4>. QED
        BY <1>1, <4>1, <4>2
    <3>2. CASE Request(o) \/ ObserverFails(o)
      <4>1. observer' = [observer EXCEPT ![o] = Unconcerned]
            /\ observer \in [Observers -> Observation]
        BY <1>0, <3>2 DEF Request, ObserverFails, Note, TypeOK
      <4>. QED
        BY <1>4, <4>1 DEF Unconcerned
    <3>. QED
      BY <2>3, <3>1, <3>2 DEF Observe
  <2>. QED
    BY <1>0, <2>2, <2>3, ObserversMove
<1>. QED
  BY <1>1, <1>2, <1>3, <1>4 DEF SourceLedger

\* What ReadLedger says of one runner.
UpToDate(r) ==
    LET c == runner[r] IN
    /\ c.started <= clock
    /\ c.at = "claimed" => c.seen = NotRead
    /\ c.at = "ended" /\ c.code \in Completed => c.seen # NotRead
    /\ c.seen # NotRead =>
           /\ c.at = "running" => stored[c.job] <= c.seen
           /\ handled[c.job] <= c.seen
           /\ signal[c.job] <= c.started => observed[c.job] <= c.seen

LEMMA ReadOfAll == ReadLedger <=> \A r \in Runners : Holds(r) => UpToDate(r)
  BY DEF ReadLedger, UpToDate

\* A command that works holds its job, and nobody else does.
LEMMA WorkingHolds ==
    ASSUME LeaseLedger, NEW r \in Runners, Working(r)
    PROVE  Holds(r)
  BY DEF LeaseLedger, Working, Holds, Collecting

\* A finished turn that owned its job leaves it to nobody.
LEMMA FinishedFrees ==
    ASSUME TypeOK, NEW r \in Runners, Finish(r), Owns(r)
    PROVE  row'[runner[r].job].token = None
<1>1. runner[r].job \in Jobs /\ row \in [Jobs -> [due : DueTimes, token : Runners \cup {None},
                                               lease : LeaseEnds, status : Statuses]]
  BY DEF Finish, TypeOK, Collecting
<1>2. PICK wait \in RetryWaits :
        row' = [row EXCEPT ![runner[r].job] =
                  [due |-> NextDue(r, wait), token |-> None, lease |-> 0,
                   status |-> Status(runner[r].code)]]
  BY DEF Finish, Record
<1>. QED
  BY <1>1, <1>2

\* Time does not go back.
LEMMA ClockGrows ==
    ASSUME TypeOK, Next
    PROVE  clock \in Nat /\ clock' \in Nat /\ clock' >= clock
<1>1. clock' = clock \/ Passes
  BY Untouched DEF Next, Turn, Claim, Finish, Observe, Look, Request, ObserverFails,
                   SourceChanges, Tick
<1>. QED
  BY <1>1, RunNumbers DEF Passes, Now

\* Who holds a job without a step of its own held it before.
LEMMA HeldBefore ==
    ASSUME TypeOK, Next, NEW r \in Runners, Holds(r)', runner'[r] = runner[r]
    PROVE  Holds(r)
<1>1. runner[r].at \in Collecting /\ runner[r].job \in Jobs
      /\ row'[runner[r].job].token = r
  BY DEF Holds, TypeOK
<1>2. r # None
  BY JobAssumption
<1>3. /\ row \in [Jobs -> [due : DueTimes, token : Runners \cup {None}, lease : LeaseEnds,
                           status : Statuses]]
      /\ runner \in [Runners -> Run]
  BY DEF TypeOK
<1>4. ASSUME NEW q \in Runners, NEW j \in Jobs, Claim(q, j) PROVE row[runner[r].job].token = r
  <2>1. row' = [row EXCEPT ![j].token = q, ![j].lease = LeaseEnd]
    BY <1>4 DEF Claim
  <2>2. q # r
    BY <1>1, <1>4 DEF Claim, Collecting
  <2>. QED
    BY <1>1, <1>3, <2>1, <2>2
<1>5. ASSUME NEW q \in Runners, Finish(q) PROVE row[runner[r].job].token = r
  <2>1. CASE Owns(q)
    <3>1. \E c : row' = [row EXCEPT ![runner[q].job] = c]
      BY <1>5, <2>1 DEF Finish, Record
    <3>2. row'[runner[q].job].token = None
      BY <1>5, <2>1, FinishedFrees
    <3>. QED
      BY <1>1, <1>2, <1>3, <3>1, <3>2
  <2>2. CASE ~ Owns(q)
    BY <1>1, <1>5, <2>2 DEF Finish, deadlines
  <2>. QED
    BY <2>1, <2>2
<1>6. ASSUME NEW o \in Observers, Observe(o) PROVE row[runner[r].job].token = r
  <2>1. CASE row' = row
    BY <1>1, <2>1
  <2>2. CASE \E j : row' = [row EXCEPT ![j].due = Smaller(row[j].due, Now)]
    <3>1. PICK j : row' = [row EXCEPT ![j].due = Smaller(row[j].due, Now)]
      BY <2>2
    <3>. QED
      BY <1>1, <1>3, <3>1
  <2>3. \/ row' = row
        \/ \E j : row' = [row EXCEPT ![j].due = Smaller(row[j].due, Now)]
    BY <1>6 DEF Observe, Look, Request, RequestRefresh, ObserverFails, deadlines
  <2>. QED
    BY <2>1, <2>2, <2>3
<1>7. ASSUME row' = row PROVE row[runner[r].job].token = r
  BY <1>1, <1>7
<1>8. row[runner[r].job].token = r
  <2>1. ASSUME NEW q \in Runners, Turn(q) \/ Drain(q) PROVE row[runner[r].job].token = r
    <3>1. CASE \E j \in Jobs : Claim(q, j)
      BY <1>4, <3>1
    <3>2. CASE Finish(q)
      BY <1>5, <3>2
    <3>3. CASE ~ Finish(q) /\ ~ \E j \in Jobs : Claim(q, j)
      <4>1. row' = row
        BY <2>1, <3>3, Untouched DEF Turn, deadlines
      <4>. QED
        BY <1>7, <4>1
    <3>. QED
      BY <3>1, <3>2, <3>3
  <2>2. ASSUME Tick \/ \E j \in Jobs : SourceChanges(j) PROVE row[runner[r].job].token = r
    BY <1>7, <2>2 DEF Tick, SourceChanges, deadlines
  <2>. QED
    BY <1>6, <2>1, <2>2 DEF Next
<1>. QED
  BY <1>1, <1>8 DEF Holds

\* What a holder has read stays up to date while it takes no step itself.
LEMMA UpToDateOn ==
    ASSUME LeaseInv, ReadLedger, Next, NEW r \in Runners, Holds(r)', runner'[r] = runner[r]
    PROVE  UpToDate(r)'
<1>0. TypeOK /\ LeaseLedger
  BY DEF LeaseInv
<1>1. Holds(r) /\ UpToDate(r)
  BY <1>0, HeldBefore, ReadOfAll
<1>2. PICK j \in Jobs : j = runner[r].job
  BY <1>0, <1>1 DEF Holds, TypeOK
<1>3. runner[r].started \in Nat /\ runner[r].seen \in Nat \cup {NotRead} /\ clock' >= clock
      /\ clock \in Nat /\ clock' \in Nat
  BY <1>0, RunNumbers, ClockGrows
<1>4. row'[j].token = r /\ r # None
  BY <1>2, JobAssumption DEF Holds
<1>5. ASSUME NEW q \in Runners, Finish(q), Owns(q), runner[q].job = j PROVE FALSE
  BY <1>0, <1>4, <1>5, FinishedFrees
<1>6. handled'[j] = handled[j]
  BY <1>0, <1>5, WhoChanges
<1>7. runner[r].at = "running" /\ stored'[j] # stored[j] => stored'[j] = runner[r].seen
  <2>1. SUFFICES ASSUME NEW q \in Runners, Store(q), runner[q].job = j,
                        stored'[j] = runner[q].seen
                 PROVE  stored'[j] = runner[r].seen
    BY <1>0, WhoChanges
  <2>2. Holds(q)
    BY <1>0, <2>1, WorkingHolds DEF Store, Working
  <2>. QED
    BY <1>1, <1>2, <2>1, <2>2 DEF Holds
<1>8. CASE signal'[j] = signal[j] /\ observed'[j] = observed[j]
  BY <1>1, <1>2, <1>3, <1>6, <1>7, <1>8 DEF UpToDate
<1>9. CASE signal'[j] = Now
  <2>1. ~ (signal'[j] <= runner[r].started)
    BY <1>1, <1>3, <1>9 DEF UpToDate, Now
  <2>. QED
    BY <1>1, <1>2, <1>3, <1>6, <1>7, <2>1 DEF UpToDate
<1>. QED
  BY <1>0, <1>5, <1>8, <1>9, WhoChanges

\* A holder's own step keeps what it has read up to date.
LEMMA UpToDateAfter ==
    ASSUME LeaseInv, SourceLedger, ReadLedger, Next, NEW r \in Runners, Holds(r)',
           Turn(r) \/ Drain(r)
    PROVE  UpToDate(r)'
<1>0. TypeOK /\ LeaseLedger /\ EndedHasRead'
  BY EndedKept DEF LeaseInv
<1>1. Working(r) => Holds(r) /\ UpToDate(r) /\ runner[r].job \in Jobs
  BY <1>0, WorkingHolds, ReadOfAll DEF Working, TypeOK, Collecting
<1>2. runner[r].started \in Nat /\ clock \in Nat /\ runner[r].seen \in Nat \cup {NotRead}
  BY <1>0, RunNumbers
<1>3. ASSUME NEW j \in Jobs, Claim(r, j) PROVE UpToDate(r)'
  <2>1. /\ runner'[r].at = "claimed" /\ runner'[r].started = Now
        /\ runner'[r].seen = NotRead
    BY <1>0, <1>3, RunnerAfter, SeenAfter
  <2>2. clock' = Now /\ Now \in Nat
    BY <1>2, <1>3 DEF Claim, Passes, Now
  <2>. QED
    BY <2>1, <2>2 DEF UpToDate
<1>4. ASSUME Start(r) PROVE UpToDate(r)'
  <2>1. /\ runner'[r].at = "running" /\ runner'[r].started = runner[r].started
        /\ runner'[r].seen = runner[r].seen
    BY <1>0, <1>4, RunnerAfter, SeenAfter
  <2>2. runner[r].seen = NotRead /\ clock' = clock /\ runner[r].started <= clock
    BY <1>1, <1>4 DEF Start, Working, UpToDate
  <2>. QED
    BY <2>1, <2>2 DEF UpToDate
<1>5. ASSUME Hold(r) PROVE UpToDate(r)'
  <2>1. /\ runner'[r].at = "ended" /\ runner'[r].code = "deferred"
        /\ runner'[r].started = runner[r].started /\ runner'[r].seen = runner[r].seen
    BY <1>0, <1>5, RunnerAfter, SeenAfter
  <2>2. runner[r].seen = NotRead /\ clock' = clock /\ runner[r].started <= clock
    BY <1>1, <1>5 DEF Hold, Working, UpToDate
  <2>. QED
    BY <2>1, <2>2 DEF UpToDate, Completed
<1>6. ASSUME Read(r) PROVE UpToDate(r)'
  <2>1. /\ runner'[r].at = "running" /\ runner'[r].started = runner[r].started
        /\ runner'[r].job = runner[r].job /\ runner'[r].seen = source[runner[r].job]
    BY <1>0, <1>6, RunnerAfter, SeenAfter DEF Read
  <2>2. UNCHANGED <<clock, stored, handled, observed, signal>> /\ runner[r].started <= clock
    BY <1>1, <1>6 DEF Read, Working, UpToDate, records, signalling
  <2>3. runner[r].job \in Jobs
    BY <1>1, <1>6 DEF Read, Working
  <2>4. /\ stored[runner[r].job] <= source[runner[r].job]
        /\ handled[runner[r].job] <= source[runner[r].job]
        /\ observed[runner[r].job] <= source[runner[r].job]
    BY <2>3 DEF SourceLedger
  <2>. QED
    BY <2>1, <2>2, <2>4 DEF UpToDate
<1>7. ASSUME Store(r) PROVE UpToDate(r)'
  BY <1>7, UpToDateOn, Untouched
<1>8. ASSUME NEW code \in Codes, Exit(r, code) PROVE UpToDate(r)'
  <2>1. /\ runner'[r].at = "ended" /\ runner'[r].started = runner[r].started
        /\ runner'[r].job = runner[r].job /\ runner'[r].seen = runner[r].seen
    BY <1>0, <1>8, RunnerAfter, SeenAfter
  <2>2. UNCHANGED <<clock, handled, observed, signal>> /\ UpToDate(r)
    BY <1>1, <1>8 DEF Exit, Working, signalling
  <2>3. runner'[r].code \in Completed => runner'[r].seen # NotRead
    BY <1>0, <2>1 DEF EndedHasRead
  <2>. QED
    BY <2>1, <2>2, <2>3 DEF UpToDate
<1>9. ASSUME Finish(r) \/ Crash(r) \/ Drain(r) PROVE FALSE
  BY <1>0, <1>9, RunnerAfter DEF Holds, Collecting, Clearing
<1>. QED
  BY <1>3, <1>4, <1>5, <1>6, <1>7, <1>8, <1>9 DEF Turn

LEMMA ReadsKept == LeaseInv /\ SourceLedger /\ ReadLedger /\ Next => ReadLedger'
<1>. SUFFICES ASSUME LeaseInv, SourceLedger, ReadLedger, Next, NEW r \in Runners, Holds(r)'
              PROVE  UpToDate(r)'
  BY DEF ReadLedger, UpToDate
<1>1. CASE runner'[r] = runner[r]
  BY <1>1, UpToDateOn
<1>2. CASE runner'[r] # runner[r]
  BY <1>2, RunnersMove, UpToDateAfter DEF LeaseInv
<1>. QED
  BY <1>1, <1>2

\* A step that stores, stores what a holder has read.
LEMMA StoresForward ==
    LeaseInv /\ ReadLedger /\ Next => \A j \in Jobs : stored'[j] >= stored[j]
<1>. SUFFICES ASSUME LeaseInv, ReadLedger, Next, NEW j \in Jobs
              PROVE  stored'[j] >= stored[j]
  OBVIOUS
<1>1. TypeOK /\ LeaseLedger
  BY DEF LeaseInv
<1>2. CASE stored'[j] = stored[j]
  <2>1. stored[j] \in Nat
    BY <1>1, RunNumbers
  <2>. QED
    BY <1>2, <2>1
<1>3. CASE stored'[j] # stored[j]
  <2>1. PICK r \in Runners : Store(r) /\ runner[r].job = j /\ stored'[j] = runner[r].seen
    BY <1>1, <1>3, WhoChanges
  <2>2. UpToDate(r)
    BY <1>1, <2>1, WorkingHolds, ReadOfAll DEF Store, Working
  <2>3. stored[j] \in Nat /\ runner[r].seen \in Nat /\ stored[j] <= runner[r].seen
    BY <1>1, <2>1, <2>2, RunNumbers DEF Store, UpToDate
  <2>. QED
    BY <2>1, <2>3
<1>. QED
  BY <1>2, <1>3

\* A turn that owned its job when it finished held it.
LEMMA OwnerHolds ==
    ASSUME ReadLedger, NEW r \in Runners, Finish(r), Owns(r)
    PROVE  UpToDate(r)
<1>1. Holds(r)
  BY DEF Finish, Owns, Holds, Collecting
<1>. QED
  BY <1>1, ReadOfAll

\* An answer covers what was signalled before its pass.
LEMMA AnswersKept == LeaseInv /\ ReadLedger /\ SignalAnswered /\ Next => SignalAnswered'
<1>. SUFFICES ASSUME LeaseInv, ReadLedger, SignalAnswered, Next, NEW j \in Jobs, signal'[j] = 0
              PROVE  handled'[j] >= observed'[j]
  BY DEF SignalAnswered
<1>0. TypeOK /\ EndedHasRead
  BY DEF LeaseInv
<1>1. /\ clock \in Nat /\ signal[j] \in Nat /\ handled[j] \in Nat /\ observed[j] \in Nat
      /\ signal[j] = 0 => handled[j] >= observed[j]
  BY <1>0, RunNumbers DEF SignalAnswered
<1>2. signal'[j] # Now
  BY <1>1 DEF Now
<1>3. observed'[j] = observed[j]
  BY <1>0, <1>2, WhoChanges
<1>4. ASSUME NEW r \in Runners, Finish(r), Owns(r), runner[r].job = j, runner[r].code \in Completed,
             handled'[j] = runner[r].seen, signal[j] <= runner[r].started
      PROVE  handled'[j] >= observed'[j]
  <2>1. UpToDate(r) /\ runner[r].seen # NotRead /\ runner[r].seen \in Nat
    BY <1>0, <1>4, OwnerHolds, RunNumbers DEF EndedHasRead, Finish
  <2>. QED
    BY <1>1, <1>3, <1>4, <2>1 DEF UpToDate
<1>5. CASE signal'[j] # signal[j]
  <2>1. PICK r \in Runners : Finish(r) /\ Owns(r) /\ Answers(r) /\ runner[r].job = j
    BY <1>0, <1>2, <1>5, WhoChanges
  <2>2. handled'[j] = runner[r].seen
    BY <1>0, <2>1 DEF Finish, Record, Answers, TypeOK
  <2>. QED
    BY <1>4, <2>1, <2>2 DEF Answers
<1>6. CASE signal'[j] = signal[j] /\ handled'[j] # handled[j]
  <2>1. PICK r \in Runners :
          /\ Finish(r) /\ Owns(r) /\ runner[r].job = j
          /\ runner[r].code \in Completed /\ handled'[j] = runner[r].seen
    BY <1>0, <1>6, WhoChanges
  <2>2. runner[r].started \in Nat
    BY <1>0, RunNumbers
  <2>. QED
    BY <1>4, <1>6, <2>1, <2>2
<1>7. CASE signal'[j] = signal[j] /\ handled'[j] = handled[j]
  BY <1>1, <1>3, <1>7
<1>. QED
  BY <1>5, <1>6, <1>7

\* A signal makes its job due, and only a failure or a pause puts it off.
LEMMA DueKept == TypeOK /\ SignalledIsDue /\ Next => SignalledIsDue'
<1>. SUFFICES ASSUME TypeOK, SignalledIsDue, Next, NEW j \in Jobs, signal'[j] # 0,
                     row'[j].status \notin {"failed", "deferred"}
              PROVE  row'[j].due <= clock'
  BY DEF SignalledIsDue
<1>1. /\ row \in [Jobs -> [due : DueTimes, token : Runners \cup {None}, lease : LeaseEnds,
                           status : Statuses]]
      /\ row[j].due \in Nat /\ clock \in Nat /\ clock' \in Nat /\ clock' >= clock
  <2>1. DueTimes \subseteq Nat
    BY TimeAssumption DEF DueTimes
  <2>. QED
    BY <2>1, ClockGrows DEF TypeOK
<1>2. ASSUME signal'[j] = signal[j], row'[j].due = row[j].due, row'[j].status = row[j].status
      PROVE  row'[j].due <= clock'
  BY <1>1, <1>2 DEF SignalledIsDue
<1>3. ASSUME NEW r \in Runners, NEW i \in Jobs, Claim(r, i) PROVE row'[j].due <= clock'
  <2>1. row' = [row EXCEPT ![i].token = r, ![i].lease = LeaseEnd] /\ signal' = signal
    BY <1>3 DEF Claim, signalling
  <2>. QED
    BY <1>1, <1>2, <2>1
<1>4. ASSUME NEW r \in Runners, Finish(r) PROVE row'[j].due <= clock'
  <2>1. CASE ~ Owns(r)
    BY <1>2, <1>4, <2>1 DEF Finish, deadlines
  <2>2. CASE Owns(r)
    <3>1. PICK wait \in RetryWaits :
            row' = [row EXCEPT ![runner[r].job] =
                      [due |-> NextDue(r, wait), token |-> None, lease |-> 0,
                       status |-> Status(runner[r].code)]]
      BY <1>4, <2>2 DEF Finish, Record
    <3>2. signal' = IF Answers(r) THEN [signal EXCEPT ![runner[r].job] = 0] ELSE signal
      BY <1>4, <2>2 DEF Finish, Record
    <3>3. CASE runner[r].job = j
      <4>1. row'[j].due = NextDue(r, wait) /\ row'[j].status = Status(runner[r].code)
        BY <1>1, <3>1, <3>3
      <4>2. ~ Answers(r)
        BY <3>2, <3>3 DEF TypeOK
      <4>3. runner[r].code \in Completed \cup {"continuing"}
        BY <4>1, RunNumbers DEF Status, Codes
      <4>4. clock' = Now
        BY <1>4 DEF Finish, Passes
      <4>. QED
        BY <1>1, <4>1, <4>2, <4>3, <4>4 DEF NextDue
    <3>4. CASE runner[r].job # j
      <4>1. row'[j] = row[j] /\ signal'[j] = signal[j]
        BY <1>1, <3>1, <3>2, <3>4 DEF TypeOK
      <4>. QED
        BY <1>2, <4>1
    <3>. QED
      BY <3>3, <3>4
  <2>. QED
    BY <2>1, <2>2
<1>5. ASSUME NEW o \in Observers, Observe(o) PROVE row'[j].due <= clock'
  <2>1. CASE row' = row /\ signal' = signal
    BY <1>2, <2>1
  <2>2. CASE Request(o) /\ observer[o].seen # known[observer[o].job]
    <3>1. /\ row' = [row EXCEPT ![observer[o].job].due = Smaller(row[observer[o].job].due, Now)]
          /\ signal' = [signal EXCEPT ![observer[o].job] = Now] /\ clock' = Now
      BY <2>2 DEF Request, RequestRefresh, Passes
    <3>2. CASE observer[o].job = j
      <4>1. row'[j].due = Smaller(row[j].due, Now)
        BY <1>1, <3>1, <3>2
      <4>. QED
        BY <1>1, <3>1, <4>1 DEF Smaller
    <3>3. CASE observer[o].job # j
      <4>1. row'[j] = row[j] /\ signal'[j] = signal[j]
        BY <1>1, <3>1, <3>3 DEF TypeOK
      <4>. QED
        BY <1>2, <4>1
    <3>. QED
      BY <3>2, <3>3
  <2>3. \/ row' = row /\ signal' = signal
        \/ Request(o) /\ observer[o].seen # known[observer[o].job]
    BY <1>5 DEF Observe, Look, Request, ObserverFails, deadlines
  <2>. QED
    BY <2>1, <2>2, <2>3
<1>6. ASSUME row' = row, signal' = signal PROVE row'[j].due <= clock'
  BY <1>2, <1>6
<1>7. ASSUME NEW r \in Runners, Turn(r) \/ Drain(r) PROVE row'[j].due <= clock'
  <2>1. CASE Finish(r) \/ \E i \in Jobs : Claim(r, i)
    BY <1>3, <1>4, <2>1
  <2>2. CASE ~ (Finish(r) \/ \E i \in Jobs : Claim(r, i))
    <3>1. row' = row /\ signal' = signal
      BY <1>7, <2>2, Untouched DEF Turn, deadlines, signalling
    <3>. QED
      BY <1>6, <3>1
  <2>. QED
    BY <2>1, <2>2
<1>8. ASSUME Tick \/ \E i \in Jobs : SourceChanges(i) PROVE row'[j].due <= clock'
  BY <1>6, <1>8 DEF Tick, SourceChanges, deadlines, signalling
<1>. QED
  BY <1>5, <1>7, <1>8 DEF Next

--------------------------------------------------------------------------------
(* Owed clearing *)

\* What a runner that clears has captured and covers.
Covered(r) ==
    LET c == runner[r] IN
    /\ c.at \in {"purge", "website", "settle"} => c.captured \in 1 .. commits
    /\ c.at = "website" => c.covers \in c.captured .. commits
    /\ c.at = "settle" => c.captured <= cleared

LEMMA ClearingOfAll ==
    ClearingLedger <=> /\ cleared <= commits
                       /\ marker \in {0, commits}
                       /\ \A r \in Runners : Covered(r)
  BY DEF ClearingLedger, Covered

\* Neither commits nor finished clears are taken back, and only Store, PurgeWebsite
\* and Settle change them or the marker.
LEMMA WhoClears ==
    ASSUME TypeOK, Next
    PROVE  /\ commits' >= commits /\ cleared' >= cleared
           /\ \/ UNCHANGED <<commits, marker, cleared>>
              \/ \E r \in Runners : Store(r) \/ PurgeWebsite(r) \/ Settle(r)
<1>1. commits \in Nat /\ cleared \in Nat /\ \A r \in Runners : runner[r].covers \in Nat
  BY RunNumbers
<1>2. ASSUME NEW r \in Runners, Turn(r) \/ Drain(r)
      PROVE  \/ UNCHANGED <<commits, marker, cleared>>
             \/ Store(r) \/ PurgeWebsite(r) \/ Settle(r)
  <2>1. CASE Drain(r)
    BY <2>1 DEF Drain, ClearingTurn, Capture, PurgeApi, PurgeFails, records, clearing
  <2>2. CASE Turn(r)
    BY <2>2, Untouched DEF Turn, records, clearing
  <2>. QED
    BY <1>2, <2>1, <2>2
<1>3. \/ UNCHANGED <<commits, marker, cleared>>
      \/ \E r \in Runners : Store(r) \/ PurgeWebsite(r) \/ Settle(r)
  <2>1. CASE \E r \in Runners : Turn(r) \/ Drain(r)
    BY <1>2, <2>1
  <2>2. CASE \E o \in Observers : Observe(o)
    BY <2>2 DEF Observe, Look, Request, ObserverFails, records, clearing
  <2>3. CASE Tick \/ \E j \in Jobs : SourceChanges(j)
    BY <2>3 DEF Tick, SourceChanges, records, clearing
  <2>. QED
    BY <2>1, <2>2, <2>3 DEF Next
<1>4. ASSUME NEW r \in Runners, Store(r) \/ PurgeWebsite(r) \/ Settle(r)
      PROVE  commits' >= commits /\ cleared' >= cleared
  BY <1>1, <1>4 DEF Store, PurgeWebsite, Settle, records, Larger
<1>. QED
  BY <1>1, <1>3, <1>4

\* The counts stay counts.
LEMMA CountsKept ==
    ASSUME TypeOK, Next
    PROVE  commits' \in Nat /\ cleared' \in Nat
<1>1. /\ commits \in Nat /\ cleared \in Nat /\ \A r \in Runners : runner[r].covers \in Nat
  BY RunNumbers
<1>2. ASSUME NEW r \in Runners, Store(r) \/ PurgeWebsite(r) \/ Settle(r)
      PROVE  commits' \in Nat /\ cleared' \in Nat
  <2>1. CASE Store(r)
    BY <1>1, <2>1 DEF Store
  <2>2. CASE PurgeWebsite(r)
    BY <1>1, <2>2 DEF PurgeWebsite, Larger, records
  <2>3. CASE Settle(r)
    BY <1>1, <2>3 DEF Settle, records
  <2>. QED
    BY <1>2, <2>1, <2>2, <2>3
<1>. QED
  BY <1>1, <1>2, WhoClears

\* What a runner that clears has captured stays behind what is committed.
LEMMA CoveredKept ==
    ASSUME TypeOK, ClearingLedger, Next, NEW r \in Runners
    PROVE  Covered(r)'
<1>1. /\ commits \in Nat /\ commits' \in Nat /\ cleared \in Nat /\ cleared' \in Nat
      /\ commits' >= commits /\ cleared' >= cleared
      /\ runner[r].captured \in Nat /\ runner[r].covers \in Nat
      /\ runner \in [Runners -> Run] /\ runner[r] \in Run
  <2>1. commits' >= commits /\ cleared' >= cleared
    BY WhoClears
  <2>2. commits' \in Nat /\ cleared' \in Nat
    BY RunNumbers, CountsKept
  <2>. QED
    BY <2>1, <2>2, RunNumbers DEF TypeOK
<1>2. /\ cleared <= commits /\ marker \in {0, commits} /\ Covered(r)
  BY ClearingOfAll
<1>3. CASE runner'[r] = runner[r]
  BY <1>1, <1>2, <1>3 DEF Covered
<1>4. CASE runner'[r].at \notin {"purge", "website", "settle"}
  BY <1>4 DEF Covered
<1>5. ASSUME NEW c, Step(r, c) PROVE runner'[r] = c
  BY <1>1, <1>5 DEF Step
<1>6. CASE Capture(r)
  <2>1. CASE marker = 0
    BY <1>4, <1>5, <1>6, <2>1 DEF Capture, Resting
  <2>2. CASE marker # 0
    <3>1. runner'[r] = [Resting EXCEPT !.at = "purge", !.captured = marker] /\ commits' = commits
      BY <1>5, <1>6, <2>2 DEF Capture, records
    <3>2. runner'[r].at = "purge" /\ runner'[r].captured = marker
      BY <3>1 DEF Resting
    <3>. QED
      BY <1>1, <1>2, <2>2, <3>1, <3>2 DEF Covered
  <2>. QED
    BY <2>1, <2>2
<1>7. CASE PurgeApi(r)
  <2>1. runner'[r] = [runner[r] EXCEPT !.at = "website", !.covers = commits] /\ commits' = commits
    BY <1>5, <1>7 DEF PurgeApi, records
  <2>2. /\ runner'[r].at = "website" /\ runner'[r].covers = commits
        /\ runner'[r].captured = runner[r].captured
    BY <1>1, <2>1 DEF Run
  <2>3. runner[r].captured \in 1 .. commits
    BY <1>2, <1>7 DEF PurgeApi, Covered
  <2>. QED
    BY <1>1, <2>1, <2>2, <2>3 DEF Covered
<1>8. CASE PurgeWebsite(r)
  <2>1. /\ runner'[r] = [runner[r] EXCEPT !.at = "settle"] /\ commits' = commits
        /\ cleared' = Larger(cleared, runner[r].covers)
    BY <1>5, <1>8 DEF PurgeWebsite, records
  <2>2. runner'[r].at = "settle" /\ runner'[r].captured = runner[r].captured
    BY <1>1, <2>1 DEF Run
  <2>3. runner[r].captured \in 1 .. commits /\ runner[r].covers \in runner[r].captured .. commits
    BY <1>2, <1>8 DEF PurgeWebsite, Covered
  <2>. QED
    BY <1>1, <2>1, <2>2, <2>3 DEF Covered, Larger
<1>9. CASE ClearingTurn(r) \/ PurgeFails(r) \/ Settle(r)
  BY <1>4, <1>5, <1>9 DEF ClearingTurn, PurgeFails, Settle, Resting
<1>10. CASE Turn(r)
  <2>1. CASE Store(r)
    BY <1>3, <2>1, RunnerAfter
  <2>2. CASE Read(r)
    BY <1>4, <2>2, RunnerAfter DEF Read
  <2>3. CASE Start(r) \/ Hold(r) \/ (\E j \in Jobs : Claim(r, j)) \/ \E code \in Codes : Exit(r, code)
    BY <1>4, <2>3, RunnerAfter
  <2>4. CASE Finish(r) \/ Crash(r)
    <3>1. runner'[r] \in {Resting, [Resting EXCEPT !.at = "clear"]}
      BY <1>5, <2>4 DEF Finish, Crash
    <3>2. Resting.at = "idle" /\ [Resting EXCEPT !.at = "clear"].at = "clear"
      BY DEF Resting
    <3>. QED
      BY <1>4, <3>1, <3>2
  <2>. QED
    BY <1>10, <2>1, <2>2, <2>3, <2>4 DEF Turn
<1>. QED
  BY <1>3, <1>6, <1>7, <1>8, <1>9, <1>10, RunnersMove DEF Drain

\* The marker is dropped only when a clear that began after it was staged is done.
LEMMA ClearingKept ==
    TypeOK /\ ClearingLedger /\ ClearingStaysOwed /\ Next => ClearingLedger' /\ ClearingStaysOwed'
<1>. SUFFICES ASSUME TypeOK, ClearingLedger, ClearingStaysOwed, Next
              PROVE  ClearingLedger' /\ ClearingStaysOwed'
  OBVIOUS
<1>1. \A r \in Runners : Covered(r)'
  BY CoveredKept
<1>2. /\ commits \in Nat /\ cleared \in Nat /\ marker \in Nat
      /\ \A r \in Runners : runner[r].captured \in Nat /\ runner[r].covers \in Nat
      /\ cleared <= commits /\ marker \in {0, commits} /\ \A r \in Runners : Covered(r)
  BY RunNumbers, ClearingOfAll
<1>3. (cleared <= commits)' /\ (marker \in {0, commits})' /\ ClearingStaysOwed'
  <2>1. CASE UNCHANGED <<commits, marker, cleared>>
    BY <1>2, <2>1 DEF ClearingStaysOwed
  <2>2. ASSUME NEW r \in Runners, Store(r)
        PROVE  (cleared <= commits)' /\ (marker \in {0, commits})' /\ ClearingStaysOwed'
    BY <1>2, <2>2 DEF Store, ClearingStaysOwed
  <2>3. ASSUME NEW r \in Runners, PurgeWebsite(r)
        PROVE  (cleared <= commits)' /\ (marker \in {0, commits})' /\ ClearingStaysOwed'
    <3>1. /\ commits' = commits /\ marker' = marker
          /\ cleared' = Larger(cleared, runner[r].covers)
      BY <2>3 DEF PurgeWebsite, records
    <3>2. runner[r].covers <= commits
      BY <1>2, <2>3 DEF PurgeWebsite, Covered
    <3>. QED
      BY <1>2, <3>1, <3>2 DEF Larger, ClearingStaysOwed
  <2>4. ASSUME NEW r \in Runners, Settle(r)
        PROVE  (cleared <= commits)' /\ (marker \in {0, commits})' /\ ClearingStaysOwed'
    <3>1. /\ commits' = commits /\ cleared' = cleared
          /\ marker' = IF marker = runner[r].captured THEN 0 ELSE marker
      BY <2>4 DEF Settle, Settled, records
    <3>2. runner[r].captured \in 1 .. commits /\ runner[r].captured <= cleared
      BY <1>2, <2>4 DEF Settle, Covered
    <3>. QED
      BY <1>2, <3>1, <3>2 DEF ClearingStaysOwed
  <2>. QED
    BY <2>1, <2>2, <2>3, <2>4, WhoClears
<1>. QED
  BY <1>1, <1>3 DEF ClearingLedger, Covered

--------------------------------------------------------------------------------
(* The theorems *)

\* Everything that the steps keep.
Inv ==
    /\ LeaseInv
    /\ RefreshLedger
    /\ SignalAnswered
    /\ SignalledIsDue
    /\ ClearingStaysOwed

LEMMA InitInv == Init => Inv
<1>. SUFFICES ASSUME Init PROVE Inv
  OBVIOUS
<1>1. \A r \in Runners : runner[r] = Resting
  BY DEF Init
<1>2. \A o \in Observers : observer[o].at = "idle"
  BY DEF Init, Unconcerned
<1>3. LeaseLedger /\ ReadLedger /\ ClearingLedger
  BY <1>1 DEF Init, LeaseLedger, Working, ReadLedger, Holds, Collecting, ClearingLedger, Resting
<1>4. SourceLedger
  BY <1>1, <1>2 DEF Init, SourceLedger, Collecting, Resting
<1>5. SignalAnswered /\ SignalledIsDue /\ ClearingStaysOwed
  BY DEF Init, SignalAnswered, SignalledIsDue, ClearingStaysOwed
<1>. QED
  BY <1>3, <1>4, <1>5, InitLeases DEF Inv, RefreshLedger

LEMMA InvKept == Inv /\ [Next]_vars => Inv'
<1>. SUFFICES ASSUME Inv, [Next]_vars PROVE Inv'
  OBVIOUS
<1>1. CASE Next
  <2>1. LeaseInv'
    BY <1>1, LeaseInvKept DEF Inv
  <2>2. SourceLedger' /\ ReadLedger'
    BY <1>1, SourcesKept, ReadsKept DEF Inv, RefreshLedger
  <2>3. SignalAnswered' /\ SignalledIsDue'
    BY <1>1, AnswersKept, DueKept DEF Inv, RefreshLedger, LeaseInv
  <2>4. ClearingLedger' /\ ClearingStaysOwed'
    BY <1>1, ClearingKept DEF Inv, RefreshLedger, LeaseInv
  <2>. QED
    BY <2>1, <2>2, <2>3, <2>4 DEF Inv, RefreshLedger, LeaseInv
<1>2. CASE UNCHANGED vars
  <2>1. LeaseInv'
    BY <1>2, LeaseInvKept DEF Inv
  <2>. QED
    BY <1>2, <2>1 DEF Inv, vars, RefreshLedger, LeaseInv, LeaseLedger, SourceLedger, ReadLedger,
                      ClearingLedger, Holds, Working, SignalAnswered, SignalledIsDue,
                      ClearingStaysOwed
<1>. QED
  BY <1>1, <1>2

LEMMA RefreshInvariant == Spec => []Inv
  BY InitInv, InvKept, PTL DEF Spec

\* Types, for every number of jobs and runners and all times (record_refresh.py,
\* claim_job, run_due, finish_job, request_refresh).
THEOREM TypeCorrect == Spec => []TypeOK
<1>1. Inv => TypeOK
  BY DEF Inv, LeaseInv
<1>. QED
  BY <1>1, RefreshInvariant, PTL

\* The strengthening that TLC checks is an invariant: a working command holds both
\* leases until after its end, what a holder has read is up to date, and a marker
\* names the last commit.
THEOREM LedgerInvariant == Spec => []RefreshLedger
<1>1. Inv => RefreshLedger
  BY DEF Inv, LeaseInv
<1>. QED
  BY <1>1, RefreshInvariant, PTL

\* Two commands of one lane never run at once: the margin of a lease covers the
\* start and the killing of its command (claim_job, run_command, _stop_process).
THEOREM CollectorsExclude == Spec => []OneCollectorPerLane
<1>1. Inv => OneCollectorPerLane
  BY LeasesExclude DEF Inv, LeaseInv
<1>. QED
  BY <1>1, RefreshInvariant, PTL

\* Without a signal, a completed pass has read everything that was signalled
\* (finish_job keeps a signal that is younger than the pass).
THEOREM SignalsAnswered == Spec => []SignalAnswered
<1>1. Inv => SignalAnswered
  BY DEF Inv, LeaseInv
<1>. QED
  BY <1>1, RefreshInvariant, PTL

\* A signalled job is due at once unless its last turn failed or was deferred
\* (request_refresh, finish_job).
THEOREM SignalledDue == Spec => []SignalledIsDue
<1>1. Inv => SignalledIsDue
  BY DEF Inv, LeaseInv
<1>. QED
  BY <1>1, RefreshInvariant, PTL

\* Without a marker every committed change was followed by a complete clear
\* (stage_source_clearing, drain_source_clearing).
THEOREM ClearingOwed == Spec => []ClearingStaysOwed
<1>1. Inv => ClearingStaysOwed
  BY DEF Inv, LeaseInv
<1>. QED
  BY <1>1, RefreshInvariant, PTL

\* Older records never replace newer ones (run_due, finish_job).
THEOREM NeverGoesBack == Spec => StoredNeverGoesBack
<1>1. Inv /\ [Next]_vars => [\A j \in Jobs : stored'[j] >= stored[j]]_vars
  BY StoresForward DEF Inv, RefreshLedger
<1>. QED
  BY <1>1, RefreshInvariant, PTL DEF Spec, StoredNeverGoesBack

================================================================================
