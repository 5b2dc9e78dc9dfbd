------------------------------- MODULE ClaimMail -------------------------------
(***************************************************************************)
(* The outbox of profile-claim notices (candidate_claim_email.py): one row *)
(* per event and recipient, saved with the event (record_event) and sent   *)
(* later.  "person" is the reviewer whose name a decision's notice shows;  *)
(* a trigger of the database clears saved messages when that account goes. *)
(***************************************************************************)
EXTENDS MailRoom

\* A row is locked by the transaction that checks it, and by the deletion of
\* its reviewer once the trigger has cleared it.
Unlocked(d) == ~ RowLocked(d) /\ person[d] # "clearing"

Held(d) == to[d] \notin Allowed

\* Variant: an hour too long.
ExpiredLater(r) == r.tried /\ r.age > Window

Expired(r) == r.tried /\ r.age >= Window

\* Variant: only the recipient is compared.
ChangedRecipient(d) ==
    row[d].tried /\ row[d].payload \notin [to : {to[d]}, named : BOOLEAN]

Changed(d) == row[d].tried /\ row[d].payload # Current(d)

--------------------------------------------------------------------------------
\* _prepare: the row is claimed, or put aside.

PrepareCancel(w, d) ==
    /\ \/ Current(d) = None
       \/ Changed(d) /\ ~ Expired(row[d])
    /\ Save(d, Finished(row[d], "cancelled"))
    /\ Move(w, "resting", None)

PrepareGiveUp(w, d) ==
    /\ Current(d) # None
    /\ Expired(row[d])
    /\ Save(d, Finished(row[d], "uncertain"))
    /\ Move(w, "resting", None)

Sendable(d) == Current(d) # None /\ ~ Expired(row[d]) /\ ~ Changed(d)

PrepareDefer(w, d) ==
    /\ Sendable(d)
    /\ Held(d)
    /\ Save(d, [row[d] EXCEPT !.state = "pending"])
    /\ Move(w, "resting", None)

\* Until the first attempt, each preparation writes the message anew.
Ready(d) ==
    IF row[d].tried THEN [row[d] EXCEPT !.state = "sending"]
    ELSE [row[d] EXCEPT !.state = "sending", !.payload = Current(d), !.age = 0]

PrepareSend(w, d) ==
    /\ Sendable(d)
    /\ ~ Held(d)
    /\ Save(d, Ready(d))
    /\ Move(w, "prepared", d)

\* Variant: only pending rows are due.
PreparePending(w, d) ==
    /\ sender[w].at = "looking"
    /\ row[d].state = "pending"
    /\ Unlocked(d)
    /\ \/ PrepareCancel(w, d)
       \/ PrepareGiveUp(w, d)
       \/ PrepareDefer(w, d)
       \/ PrepareSend(w, d)
    /\ UNCHANGED <<to, person, lock, wire, provider, asked>>

Prepare(w, d) ==
    /\ sender[w].at = "looking"
    /\ Open(d)
    /\ Unlocked(d)
    /\ \/ PrepareCancel(w, d)
       \/ PrepareGiveUp(w, d)
       \/ PrepareDefer(w, d)
       \/ PrepareSend(w, d)
    /\ UNCHANGED <<to, person, lock, wire, provider, asked>>

--------------------------------------------------------------------------------
\* _attempt: everything is checked again under the row's lock.  The reviewer's
\* account is only read, so it may be gone when the attempt is committed, and
\* when its message is posted.

AttemptSkip(w, d) ==
    /\ row[d].state # "sending"
    /\ Move(w, "resting", None)
    /\ UNCHANGED <<row, wire, asked>>

AttemptCancel(w, d) ==
    /\ row[d].state = "sending"
    /\ \/ Current(d) = None
       \/ row[d].payload = None
       \/ Changed(d) /\ ~ Expired(row[d])
    /\ Save(d, Finished(row[d], "cancelled"))
    /\ Move(w, "resting", None)
    /\ UNCHANGED <<wire, asked>>

AttemptGiveUp(w, d) ==
    /\ row[d].state = "sending"
    /\ Current(d) # None
    /\ row[d].payload # None
    /\ Expired(row[d])
    /\ Save(d, Finished(row[d], "uncertain"))
    /\ Move(w, "resting", None)
    /\ UNCHANGED <<wire, asked>>

AttemptDefer(w, d) ==
    /\ row[d].state = "sending"
    /\ row[d].payload # None
    /\ Sendable(d)
    /\ Held(d)
    /\ Save(d, [row[d] EXCEPT !.state = "pending"])
    /\ Move(w, "resting", None)
    /\ UNCHANGED <<wire, asked>>

\* Variant: the first attempt sends the message as it was prepared.
AttemptCheckPrepared(w, d) ==
    /\ row[d].state = "sending"
    /\ row[d].payload # None
    /\ Sendable(d)
    /\ ~ Held(d)
    /\ Hold(w, row[d].payload)
    /\ UNCHANGED <<row, wire, asked>>

AttemptCheck(w, d) ==
    /\ row[d].state = "sending"
    /\ row[d].payload # None
    /\ Sendable(d)
    /\ ~ Held(d)
    /\ Hold(w, Current(d))
    /\ UNCHANGED <<row, wire, asked>>

Attempt(w) ==
    LET d == sender[w].for IN
    /\ sender[w].at = "prepared"
    /\ Unlocked(d)
    /\ \/ AttemptSkip(w, d)
       \/ AttemptCancel(w, d)
       \/ AttemptGiveUp(w, d)
       \/ AttemptDefer(w, d)
       \/ AttemptCheck(w, d)
    /\ UNCHANGED <<to, person, lock, provider>>

--------------------------------------------------------------------------------
\* The answer is saved, unless the row is gone or no longer being sent.

\* Variant: an unclear answer counts as sent.
VerdictOptimistic(r, answer) ==
    CASE answer \in {"accepted", "busy"} -> Finished(r, "sent")
      [] answer = "refused" -> Finished(r, "failed")

Verdict(r, answer) ==
    CASE answer = "accepted" -> Finished(r, "sent")
      [] answer = "refused"  -> Finished(r, "failed")
      [] answer = "busy"     -> [r EXCEPT !.state = "pending"]

\* Variant: the row is not read again before it is written.
SettleBlind(w) ==
    LET d == sender[w].for IN
    /\ sender[w].at \in Answers
    /\ Unlocked(d)
    /\ Save(d, Verdict(row[d], sender[w].at))
    /\ Move(w, "resting", None)
    /\ UNCHANGED <<to, person, lock, wire, provider, asked>>

Settle(w) ==
    LET d == sender[w].for IN
    /\ sender[w].at \in Answers
    /\ Unlocked(d)
    /\ IF row[d].state = "sending"
       THEN Save(d, Verdict(row[d], sender[w].at))
       ELSE UNCHANGED row
    /\ Move(w, "resting", None)
    /\ UNCHANGED <<to, person, lock, wire, provider, asked>>

--------------------------------------------------------------------------------
\* The reviewer's account is deleted in a transaction of two visible steps: the
\* trigger clears the saved messages it sees and locks their rows, and until
\* the commit everyone else still reads the name.

\* Variant: the trigger spells the state differently.
ClearedMisspelt(r) ==
    [r EXCEPT !.payload = None, !.state = IF r.tried THEN "canceled" ELSE "pending"]

Cleared(r) ==
    [r EXCEPT !.payload = None, !.state = IF r.tried THEN "cancelled" ELSE "pending"]

ReviewerLeaves(d) ==
    /\ person[d] = "present"
    /\ ~ RowLocked(d)
    /\ IF Open(d) /\ row[d].payload # None
       THEN /\ Save(d, Cleared(row[d]))
            /\ person' = [person EXCEPT ![d] = "clearing"]
       ELSE /\ person' = [person EXCEPT ![d] = "leaving"]
            /\ UNCHANGED row
    /\ UNCHANGED <<to, lock, sender, wire, provider, asked>>

ReviewerGone(d) ==
    /\ person[d] \in {"leaving", "clearing"}
    /\ person' = [person EXCEPT ![d] = "deleted"]
    /\ Overtake(d)
    /\ UNCHANGED <<row, to, lock, wire, provider, asked>>

--------------------------------------------------------------------------------

Drain(w) ==
    \/ TakeLock(w)
    \/ Look(w)
    \/ Disown(w)
    \/ Rest(w)
    \/ \E d \in Deliveries : Prepare(w, d)
    \/ Attempt(w)
    \/ CommitAttempt(w)
    \/ Post(w)
    \/ Timeout(w)
    \/ Settle(w)

Network ==
    \E r \in wire : Accept(r) \/ Repeat(r) \/ Refuse(r) \/ Busy(r)

Accounts ==
    \E d \in Deliveries :
        \/ ChangeAddress(d)
        \/ person[d] # "clearing" /\ DeleteRecipient(d)
        \/ ReviewerLeaves(d)
        \/ ReviewerGone(d)

Tick == PassHour(Sealed)

Next ==
    \/ \E w \in Workers : Drain(w) \/ Crash(w)
    \/ LoseLock
    \/ Network
    \/ Accounts
    \/ Tick

Spec == Init /\ [][Next]_vars

\* What a worker does by itself, unless its process dies.
Proceed(w) == TakeLock(w) \/ Disown(w) \/ Post(w) \/ Timeout(w) \/ Settle(w)

(***************************************************************************)
(* The lifespan task drains every 10 seconds and takes due rows in the     *)
(* order of next_attempt_at, so no row is passed over for ever; processes  *)
(* do not die, and the connection is not lost, before every attempt, nor   *)
(* before every commit of one; time passes; and an opened deletion ends.   *)
(***************************************************************************)
Fairness ==
    /\ \A w \in Workers : WF_vars(Proceed(w))
    /\ SF_vars(\E w \in Workers : Look(w))
    /\ SF_vars(\E w \in Workers : Attempt(w))
    /\ SF_vars(\E w \in Workers : CommitAttempt(w))
    /\ \A d \in Deliveries :
        /\ SF_vars(\E w \in Workers : Prepare(w, d))
        /\ WF_vars(ReviewerGone(d))
    /\ WF_vars(\E r \in wire : r.lag = Lag /\ Busy(r))
    /\ SF_vars(Tick)

FairSpec == Spec /\ Fairness

--------------------------------------------------------------------------------
\* Claim mail keeps the promise of MailPromise.
KeepsPromise == Promise!Spec

\* No attempt that begins after a reviewer's account is gone sends the name:
\* _attempt writes an untried message anew and cancels a tried one.  A name is
\* only posted later if the deletion commits between the check of this very
\* attempt and its request ("cannot recall that email").
NoDeletedNameSent ==
    [][\A w \in Workers :
        /\ sender[w].at = "counted" /\ sender'[w].at = "waiting"
        /\ sender[w].say.named /\ person[sender[w].for] = "deleted"
        => sender[w].overtaken]_vars

\* Every delivery is concluded, whatever the provider answers and whatever is
\* lost, unless its recipient is held back by the allow-list.
EveryNoticeConcludes ==
    \A d \in Deliveries :
        Open(d) ~> ~ Open(d) \/ to[d] \in Addresses \ Allowed

================================================================================
