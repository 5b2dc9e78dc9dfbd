---------------------------- MODULE MoneyCompletion ----------------------------
(***************************************************************************)
(* The hourly check for filed reports whose totals are still missing       *)
(* (check_campaign_money_completion.py), beside the work of RecordRefresh. *)
(* It reads the clock first and the official source minutes later.         *)
(***************************************************************************)
EXTENDS RecordRefresh

\* Our published period and whether the job runs are read as of the start
Check(o, j) ==
    /\ observer[o].at = "idle"
    /\ Passes
    /\ ~ Leased(row[j])
    /\ Note(o, [at |-> "checking", job |-> j, stamp |-> Now, seen |-> stored[j]])
    /\ UNCHANGED <<deadlines, signal, known, observed, runner, source, records,
                   clearing, handled>>

\* The Board now covers a later period than ours
Ahead(o) == source[observer[o].job] > observer[o].seen

\* The Board is asked, and a refresh requested as of the start if it is ahead; soon
\* after another request or a full run nothing is (CATCH_UP_SPACING: ObserverFails)
Probe(o) ==
    LET j == observer[o].job IN
    /\ observer[o].at = "checking"
    /\ IF Ahead(o)
       THEN /\ RequestRefresh(j, observer[o].stamp)
            /\ observed' = [observed EXCEPT ![j] = Larger(@, source[j])]
       ELSE UNCHANGED <<row, signal, observed>>
    /\ Note(o, Unconcerned)
    /\ UNCHANGED <<clock, lane, known, runner, source, records, clearing, handled>>

CheckedNext ==
    \/ Next
    \/ \E o \in Observers : Probe(o) \/ \E j \in Jobs : Check(o, j)

CheckedSpec == Init /\ [][CheckedNext]_vars

================================================================================
