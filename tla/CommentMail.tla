------------------------------ MODULE CommentMail ------------------------------
(***************************************************************************)
(* The outbox of discussion notices (comment_email.py).  It differs from   *)
(* claim mail where it matters: the message is fixed when it is first      *)
(* prepared, because it holds private stop links, and the worker saves the *)
(* provider's answer without looking at the row again.  An address stands  *)
(* for the recipient with the reasons to write (direct reply, article      *)
(* updates); "person" is the author of the comment replied to, whose name  *)
(* the message shows until that comment is deleted or removed.             *)
(***************************************************************************)
EXTENDS MailRoom

Held(d) == to[d] \notin Allowed

\* attempted_at is set, by the first preparation.
Dated(r) == r.tried \/ r.payload # None

\* Variant: an hour too long.
ExpiredLater(r) == Dated(r) /\ r.age > Window

Expired(r) == Dated(r) /\ r.age >= Window

TargetErased(d) == person[d] = "deleted"

\* Another recipient, or other reasons to write, than when it was prepared.
Mismatch(d) == row[d].payload \notin [to : {to[d]}, named : BOOLEAN]

--------------------------------------------------------------------------------
\* _prepare

PrepareCancel(w, d) ==
    /\ \/ to[d] = None
       \/ /\ ~ Held(d)
          /\ Dated(row[d])
          /\ TargetErased(d) \/ (~ Expired(row[d]) /\ Mismatch(d))
    /\ Save(d, Finished(row[d], "cancelled"))
    /\ Move(w, "resting", None)

PrepareDefer(w, d) ==
    /\ to[d] # None
    /\ Held(d)
    /\ UNCHANGED row
    /\ Move(w, "resting", None)

PrepareGiveUp(w, d) ==
    /\ to[d] # None
    /\ ~ Held(d)
    /\ Expired(row[d])
    /\ ~ TargetErased(d)
    /\ Save(d, Finished(row[d], "uncertain"))
    /\ Move(w, "resting", None)

Ready(d) ==
    IF Dated(row[d]) THEN [row[d] EXCEPT !.state = "sending"]
    ELSE [row[d] EXCEPT !.state = "sending", !.payload = Current(d), !.age = 0]

PrepareSend(w, d) ==
    /\ to[d] # None
    /\ ~ Held(d)
    /\ Dated(row[d]) => ~ TargetErased(d) /\ ~ Expired(row[d]) /\ ~ Mismatch(d)
    /\ Save(d, Ready(d))
    /\ Move(w, "prepared", d)

Prepare(w, d) ==
    /\ sender[w].at = "looking"
    /\ Open(d)
    /\ ~ RowLocked(d)
    /\ \/ PrepareCancel(w, d)
       \/ PrepareDefer(w, d)
       \/ PrepareGiveUp(w, d)
       \/ PrepareSend(w, d)
    /\ UNCHANGED <<to, person, lock, wire, provider, asked>>

--------------------------------------------------------------------------------
\* _attempt: the recipient's account is locked, the comment replied to only
\* read, so it may be erased before the attempt is committed, and before the
\* message is posted.

AttemptSkip(w, d) ==
    /\ row[d].state # "sending"
    /\ Move(w, "resting", None)
    /\ UNCHANGED <<row, wire, asked>>

AttemptCancel(w, d) ==
    /\ row[d].state = "sending"
    /\ Mismatch(d) \/ (TargetErased(d) /\ row[d].tried)
    /\ Save(d, Finished(row[d], "cancelled"))
    /\ Move(w, "resting", None)
    /\ UNCHANGED <<wire, asked>>

\* Variant: the prepared message is sent as it is.
MessagePrepared(d) == row[d].payload

\* Before the first request a prepared name is replaced if its comment is gone.
Message(d) ==
    IF TargetErased(d) THEN Current(d) ELSE row[d].payload

\* Variant: an attempted message is anonymised too.
AttemptCheckErased(w, d) ==
    /\ row[d].state = "sending"
    /\ ~ Mismatch(d)
    /\ Hold(w, Message(d))
    /\ UNCHANGED <<row, wire, asked>>

AttemptCheck(w, d) ==
    /\ row[d].state = "sending"
    /\ ~ Mismatch(d)
    /\ TargetErased(d) => ~ row[d].tried
    /\ Hold(w, Message(d))
    /\ UNCHANGED <<row, wire, asked>>

Attempt(w) ==
    LET d == sender[w].for IN
    /\ sender[w].at = "prepared"
    /\ ~ RowLocked(d)
    /\ \/ AttemptSkip(w, d)
       \/ AttemptCancel(w, d)
       \/ AttemptCheck(w, d)
    /\ UNCHANGED <<to, person, lock, provider>>

--------------------------------------------------------------------------------
\* The answer is written over whatever the row has become.

\* Variant: an unclear answer counts as sent.
VerdictOptimistic(r, answer) ==
    CASE answer \in {"accepted", "busy"} -> Finished(r, "sent")
      [] answer = "refused" -> Finished(r, "failed")

Verdict(r, answer) ==
    CASE answer = "accepted" -> Finished(r, "sent")
      [] answer = "refused"  -> Finished(r, "failed")
      [] answer = "busy"     -> [r EXCEPT !.state = "pending"]

Settle(w) ==
    LET d == sender[w].for IN
    /\ sender[w].at \in Answers
    /\ row[d].state # "deleted"
    /\ ~ RowLocked(d)
    /\ Save(d, Verdict(row[d], sender[w].at))
    /\ Move(w, "resting", None)
    /\ UNCHANGED <<to, person, lock, wire, provider, asked>>

\* The row went with its account: the save fails and ends the drain.
SettleFails(w) ==
    /\ sender[w].at \in Answers
    /\ row[sender[w].for].state = "deleted"
    /\ Move(w, "idle", None)
    /\ lock' = IF lock = w THEN None ELSE lock
    /\ UNCHANGED <<database, wire, provider, asked>>

--------------------------------------------------------------------------------

\* A comment is deleted or removed for good.
EraseTarget(d) ==
    /\ person[d] = "present"
    /\ person' = [person EXCEPT ![d] = "deleted"]
    /\ Overtake(d)
    /\ UNCHANGED <<row, to, lock, wire, provider, asked>>

\* Unlike claim mail, _attempt does not look at the retry window again, so the
\* time that counts starts with _prepare.
Hour == PassHour({"prepared"} \cup Sealed)

Drain(w) ==
    \/ TakeLock(w)
    \/ Look(w)
    \/ Disown(w)
    \/ Rest(w)
    \/ \E d \in Deliveries : Prepare(w, d)
    \/ Attempt(w)
    \/ CommitAttempt(w)
    \/ Post(w)
    \/ Timeout(w)
    \/ Settle(w)
    \/ SettleFails(w)

Network ==
    \E r \in wire : Accept(r) \/ Repeat(r) \/ Refuse(r) \/ Busy(r)

Accounts ==
    \E d \in Deliveries :
        \/ ChangeAddress(d)
        \/ DeleteRecipient(d)
        \/ EraseTarget(d)

Next ==
    \/ \E w \in Workers : Drain(w) \/ Crash(w)
    \/ LoseLock
    \/ Network
    \/ Accounts
    \/ Hour

Spec == Init /\ [][Next]_vars

--------------------------------------------------------------------------------
\* Discussion mail keeps the promise of MailPromise, but a conclusion is not
\* final: a sender that was replaced writes its late answer over it.
KeepsRevisablePromise == Promise!RevisableSpec

\* "Erased identities must not reappear in mail awaiting delivery": no attempt
\* that begins after a comment is erased sends the name of its author.  A name
\* is only posted later if the erasure commits between the check of this very
\* attempt and its request.
NoErasedNameSent ==
    [][\A w \in Workers :
        /\ sender[w].at = "counted" /\ sender'[w].at = "waiting"
        /\ sender[w].say.named /\ person[sender[w].for] = "deleted"
        => sender[w].overtaken]_vars

--------------------------------------------------------------------------------
\* Why they hold, beside DeliveryLedger: what is prepared was looked at within
\* the retry window of an accepted request.
Fresh ==
    \A w \in Workers : sender[w].at = "prepared" =>
        LET d == sender[w].for IN inbox[d] > 0 => key[d].age < Window + sender[w].lag

================================================================================
