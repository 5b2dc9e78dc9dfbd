---------------------------- MODULE ClaimMailProofs ----------------------------
(***************************************************************************)
(* Claim mail keeps the ledger of deliveries, so no recipient gets a       *)
(* notice twice, and it implements the promise of MailPromise, for any     *)
(* number of deliveries and senders, lost connections, crashes, retries    *)
(* and late requests.                                                      *)
(***************************************************************************)
EXTENDS ClaimMail, MailRoomProofs

LEMMA PrepareKeeps ==
    ASSUME DeliveryLedger, NEW w \in Workers, NEW d \in Deliveries, Prepare(w, d)
    PROVE  DeliveryLedger'
<1>1. /\ sender[w].at = "looking" /\ Open(d) /\ ~ RowLocked(d)
      /\ UNCHANGED <<to, person, lock, wire, key, inbox, asked>>
  BY DEF Prepare, Unlocked, provider
<1>2. /\ row[d] \in Row /\ to' \in [Deliveries -> Addresses \cup {None}]
      /\ person' \in [Deliveries -> {"present", "leaving", "clearing", "deleted"}]
      /\ lock' \in Workers \cup {None}
  BY <1>1 DEF DeliveryLedger, TypeOK
<1>3. CASE PrepareCancel(w, d) \/ PrepareGiveUp(w, d)
  <2>1. PICK end \in {"cancelled", "uncertain"} :
            Save(d, Finished(row[d], end)) /\ Move(w, "resting", None)
    BY <1>3 DEF PrepareCancel, PrepareGiveUp
  <2>2. end \in EndStates \cup {"deleted"} /\ end # "sent"
    BY DEF EndStates
  <2> QED
    BY <1>1, <1>2, <2>1, <2>2, FinishedRow, PutAsideKeeps
<1>5. CASE PrepareDefer(w, d)
  <2>1. Save(d, [row[d] EXCEPT !.state = "pending"]) /\ Move(w, "resting", None)
    BY <1>5 DEF PrepareDefer
  <2> QED
    BY <1>1, <1>2, <2>1, OpenRow, PutAsideKeeps DEF OpenStates
<1>4. CASE PrepareSend(w, d)
  <2>1. /\ row' = [row EXCEPT ![d] = Ready(d)] /\ Move(w, "prepared", d)
        /\ Current(d) # None
    BY <1>4 DEF PrepareSend, Save, Sendable
  <2>2. Current(d) \in Payload
    BY <2>1 DEF Current, Payload, DeliveryLedger, TypeOK
  <2>3. /\ Ready(d) \in Row /\ Ready(d).tried = row[d].tried /\ Ready(d).state = "sending"
        /\ Ready(d).tried =>
              Ready(d).age = row[d].age /\ Ready(d).payload = row[d].payload
    <3>1. 0 \in 0..KeyLife /\ "sending" \in OpenStates
      BY TimeAssumption DEF OpenStates
    <3> QED
      BY <1>2, <2>2, <3>1 DEF Ready, Row
  <2>4. /\ sender' \in [Workers -> Sender]
        /\ \A v \in Workers :
             \/ sender'[v] = sender[v]
             \/ /\ sender[v].at # "waiting"
                /\ sender'[v].at \in {"idle", "resting", "prepared"}
                /\ sender'[v].at = "prepared" => sender'[v].for \in Deliveries
    BY <1>1, <2>1, MoveAway
  <2> QED
    BY <1>1, <1>2, <2>1, <2>3, <2>4, SaveKeeps
<1> QED
  BY <1>3, <1>4, <1>5 DEF Prepare

LEMMA AttemptKeeps ==
    ASSUME DeliveryLedger, NEW w \in Workers, Attempt(w)
    PROVE  DeliveryLedger'
<1> DEFINE d == sender[w].for
<1>1. /\ sender[w].at = "prepared" /\ d \in Deliveries /\ ~ RowLocked(d)
      /\ UNCHANGED <<to, person, lock, key, inbox>>
  BY DEF Attempt, Unlocked, provider, DeliveryLedger, Listening, Engaged
<1>2. /\ row[d] \in Row /\ to' \in [Deliveries -> Addresses \cup {None}]
      /\ person' \in [Deliveries -> {"present", "leaving", "clearing", "deleted"}]
      /\ lock' \in Workers \cup {None} /\ lock \in Workers \cup {None}
  BY <1>1 DEF DeliveryLedger, TypeOK
<1>3. CASE AttemptSkip(w, d)
  BY <1>1, <1>2, <1>3, ReleaseKeeps DEF AttemptSkip
<1>4. CASE AttemptCancel(w, d) \/ AttemptGiveUp(w, d)
  <2>1. PICK end \in {"cancelled", "uncertain"} :
            /\ Save(d, Finished(row[d], end)) /\ Move(w, "resting", None)
            /\ UNCHANGED <<wire, asked>>
    BY <1>4 DEF AttemptCancel, AttemptGiveUp
  <2>2. end \in EndStates \cup {"deleted"} /\ end # "sent"
    BY DEF EndStates
  <2> HIDE DEF d
  <2> QED
    BY <1>1, <1>2, <2>1, <2>2, FinishedRow, PutAsideKeeps
<1>6. CASE AttemptDefer(w, d)
  <2>1. /\ Save(d, [row[d] EXCEPT !.state = "pending"]) /\ Move(w, "resting", None)
        /\ UNCHANGED <<wire, asked>>
    BY <1>6 DEF AttemptDefer
  <2> HIDE DEF d
  <2> QED
    BY <1>1, <1>2, <2>1, OpenRow, PutAsideKeeps DEF OpenStates
<1>5. CASE AttemptCheck(w, d)
  <2> DEFINE p == Current(d)
  <2>1. /\ row[d].state = "sending" /\ row[d].payload # None /\ p # None
        /\ row[d].tried => row[d].payload = p
        /\ row[d].tried => ~ row[d].age >= Window
        /\ Hold(w, p)
        /\ UNCHANGED <<row, wire, asked>>
    BY <1>5 DEF AttemptCheck, Sendable, Expired, Changed
  <2>2. inbox[d] > 0 => key[d].age < Window + sender[w].lag
    <3>1. inbox[d] > 0 => row[d].tried /\ key[d].age <= row[d].age
      BY <1>1 DEF DeliveryLedger, Counted, InTime
    <3>2. key[d].age \in Nat /\ row[d].age \in Nat /\ sender[w].lag \in Nat
      BY <1>1, <1>2 DEF DeliveryLedger, TypeOK, Key, Row, Sender
    <3> HIDE DEF p
    <3> QED
      BY <2>1, <3>1, <3>2, TimeAssumption
  <2>3. p \in Payload
    BY <1>1, <2>1 DEF Current, Payload, DeliveryLedger, TypeOK
  <2> HIDE DEF p
  <2> QED
    BY <1>1, <2>1, <2>2, <2>3, HoldKeeps
<1> QED
  BY <1>3, <1>4, <1>5, <1>6 DEF Attempt

LEMMA SettleKeeps ==
    ASSUME DeliveryLedger, NEW w \in Workers, Settle(w)
    PROVE  DeliveryLedger'
<1> DEFINE d == sender[w].for
<1>1. /\ sender[w].at \in Answers /\ sender[w].at # "waiting" /\ d \in Deliveries
      /\ Move(w, "resting", None) /\ ~ RowLocked(d)
      /\ UNCHANGED <<to, person, lock, wire, key, inbox, asked>>
  BY DEF Settle, Unlocked, provider, DeliveryLedger, Listening, Engaged, Answers
<1>2. /\ row[d] \in Row /\ to' \in [Deliveries -> Addresses \cup {None}]
      /\ person' \in [Deliveries -> {"present", "leaving", "clearing", "deleted"}]
      /\ lock' \in Workers \cup {None} /\ lock \in Workers \cup {None}
  BY <1>1 DEF DeliveryLedger, TypeOK
<1>3. CASE row[d].state # "sending"
  BY <1>1, <1>2, <1>3, ReleaseKeeps DEF Settle
<1>4. CASE row[d].state = "sending"
  <2> DEFINE r == Verdict(row[d], sender[w].at)
  <2>1. row' = [row EXCEPT ![d] = r]
    BY <1>4 DEF Settle, Save
  <2>2. /\ r \in Row /\ r.tried = row[d].tried /\ r.age = row[d].age
        /\ r.payload \in {row[d].payload, None}
        /\ r.state = "sent" => sender[w].at = "accepted"
    <3>1. \A end \in {"sent", "failed"} :
              /\ Finished(row[d], end) \in Row /\ Finished(row[d], end).state = end
              /\ Finished(row[d], end).payload = None
              /\ Finished(row[d], end).tried = row[d].tried
              /\ Finished(row[d], end).age = row[d].age
      BY <1>2, FinishedRow DEF EndStates
    <3>2. /\ [row[d] EXCEPT !.state = "pending"] \in Row
          /\ [row[d] EXCEPT !.state = "pending"].state = "pending"
          /\ [row[d] EXCEPT !.state = "pending"].payload = row[d].payload
          /\ [row[d] EXCEPT !.state = "pending"].tried = row[d].tried
          /\ [row[d] EXCEPT !.state = "pending"].age = row[d].age
      BY <1>2, OpenRow DEF OpenStates
    <3>3. CASE sender[w].at = "accepted"
      BY <3>1, <3>3 DEF Verdict
    <3>4. CASE sender[w].at = "refused"
      BY <3>1, <3>4 DEF Verdict
    <3>5. CASE sender[w].at = "busy"
      BY <3>2, <3>5 DEF Verdict
    <3> QED
      BY <1>1, <3>3, <3>4, <3>5 DEF Answers
  <2>3. r.state = "sent" => inbox[d] = 1
    BY <2>2 DEF DeliveryLedger, Truthful
  <2> HIDE DEF r
  <2> QED
    BY <1>1, <1>2, <2>1, <2>2, <2>3, PutAsideKeeps DEF Save
<1> QED
  BY <1>3, <1>4

LEMMA ReviewerKeeps ==
    ASSUME DeliveryLedger, NEW d \in Deliveries, ReviewerLeaves(d)
    PROVE  DeliveryLedger'
<1>1. /\ row[d] \in Row /\ row \in [Deliveries -> Row] /\ ~ RowLocked(d)
      /\ person \in [Deliveries -> {"present", "leaving", "clearing", "deleted"}]
      /\ UNCHANGED <<to, lock, sender, wire, key, inbox, asked>>
  BY DEF ReviewerLeaves, provider, DeliveryLedger, TypeOK
<1>2. /\ person' \in [Deliveries -> {"present", "leaving", "clearing", "deleted"}]
      /\ to' \in [Deliveries -> Addresses \cup {None}]
      /\ lock' \in Workers \cup {None} /\ sender' \in [Workers -> Sender]
  BY <1>1 DEF ReviewerLeaves, DeliveryLedger, TypeOK
<1>3. PICK r \in Row :
          /\ row' = [row EXCEPT ![d] = r]
          /\ r.tried = row[d].tried /\ r.age = row[d].age
          /\ r.payload \in {row[d].payload, None}
          /\ r.state = "sent" => row[d].state = "sent"
  <2>1. CASE row' = row
    BY <1>1, <2>1
  <2>2. CASE Save(d, Cleared(row[d]))
    <3>1. /\ Cleared(row[d]) \in Row
          /\ Cleared(row[d]).tried = row[d].tried /\ Cleared(row[d]).age = row[d].age
          /\ Cleared(row[d]).payload = None /\ Cleared(row[d]).state # "sent"
      <4>1. CASE row[d].tried
        BY <1>1, <4>1 DEF Cleared, Row, EndStates
      <4>2. CASE ~ row[d].tried
        BY <1>1, <4>2 DEF Cleared, Row, OpenStates
      <4> QED
        BY <4>1, <4>2
    <3> QED
      BY <2>2, <3>1 DEF Save
  <2> QED
    BY <2>1, <2>2 DEF ReviewerLeaves
<1>4. row[d].state = "sent" => inbox[d] = 1
  BY DEF DeliveryLedger, SentMeansDelivered
<1> QED
  BY <1>1, <1>2, <1>3, <1>4, SaveKeeps

LEMMA GoneKeeps ==
    ASSUME DeliveryLedger, NEW d \in Deliveries, ReviewerGone(d)
    PROVE  DeliveryLedger'
<1>1. /\ person' \in [Deliveries -> {"present", "leaving", "clearing", "deleted"}]
      /\ Overtake(d)
      /\ UNCHANGED <<row, to, lock, wire, key, inbox, asked>>
  BY DEF ReviewerGone, provider, DeliveryLedger, TypeOK
<1> QED
  BY <1>1, OvertakeKeeps

LEMMA StepKeeps ==
    ASSUME DeliveryLedger, [Next]_vars
    PROVE  DeliveryLedger'
<1>1. CASE UNCHANGED vars
  BY <1>1, StutterKeeps
<1>2. ASSUME NEW w \in Workers, Drain(w) \/ Crash(w)
      PROVE  DeliveryLedger'
  <2>1. CASE \E d \in Deliveries : Prepare(w, d)
    BY <2>1, PrepareKeeps
  <2> QED
    BY <1>2, <2>1, LockKeeps, AttemptKeeps, CommitKeeps, PostKeeps, TimeoutKeeps, SettleKeeps
       DEF Drain
<1>3. CASE LoseLock
  BY <1>3, LoseLockKeeps
<1>4. CASE Network
  BY <1>4, AcceptKeeps, AnswerOnlyKeeps DEF Network
<1>5. CASE Accounts
  BY <1>5, AddressKeeps, DeleteRecipientKeeps, ReviewerKeeps, GoneKeeps DEF Accounts
<1>6. CASE Tick
  BY <1>6, TickKeeps DEF Tick
<1> QED
  BY <1>1, <1>2, <1>3, <1>4, <1>5, <1>6 DEF Next

\* The ledger of deliveries is an inductive invariant: a message is only posted
\* again while the provider still remembers it, and as it was posted before.
THEOREM DeliveryLedgerInvariant == Spec => []DeliveryLedger
<1>1. Init => DeliveryLedger
  BY LedgerInit
<1>2. DeliveryLedger /\ [Next]_vars => DeliveryLedger'
  BY StepKeeps
<1> QED
  BY <1>1, <1>2, PTL DEF Spec

\* Every variable of claim mail has its type.
THEOREM TypeCorrect == Spec => []TypeOK
<1>1. DeliveryLedger => TypeOK
  BY DEF DeliveryLedger
<1> QED
  BY <1>1, DeliveryLedgerInvariant, PTL

\* However senders, retries, crashes, late requests and account changes
\* interleave, claim mail writes to a recipient about an event at most once.
THEOREM AtMostOneNotice == Spec => []OneEmail
<1>1. DeliveryLedger => OneEmail
  BY DEF DeliveryLedger
<1> QED
  BY <1>1, DeliveryLedgerInvariant, PTL

\* Every request made under the idempotency key of a notice is the same.
THEOREM SameNoticeAgain == Spec => []OneContent
<1>1. DeliveryLedger => OneContent
  BY DEF DeliveryLedger
<1> QED
  BY <1>1, DeliveryLedgerInvariant, PTL

\* No row says "sent" of a notice the provider did not accept.
THEOREM SentNoticeWasDelivered == Spec => []SentMeansDelivered
<1>1. DeliveryLedger => SentMeansDelivered
  BY DEF DeliveryLedger
<1> QED
  BY <1>1, DeliveryLedgerInvariant, PTL

--------------------------------------------------------------------------------
\* The outbox implements its promise.

LEMMA PrepareImplements ==
    ASSUME DeliveryLedger, NEW w \in Workers, NEW d \in Deliveries, Prepare(w, d)
    PROVE  [Promise!Next]_(Promise!vars)
<1>1. /\ Open(d) /\ row \in [Deliveries -> Row] /\ row[d] \in Row
      /\ to \in [Deliveries -> Addresses \cup {None}]
      /\ inbox' = inbox
  BY DEF Prepare, provider, DeliveryLedger, TypeOK
<1>2. PICK r \in Row :
          /\ row' = [row EXCEPT ![d] = r] /\ r.tried = row[d].tried
          /\ r.state \in {"cancelled", "uncertain", "pending", "sending"}
  <2>1. CASE PrepareCancel(w, d) \/ PrepareGiveUp(w, d)
    BY <1>1, <2>1, FinishedRow DEF PrepareCancel, PrepareGiveUp, Save, EndStates
  <2>2. CASE PrepareDefer(w, d)
    BY <1>1, <2>2, OpenRow DEF PrepareDefer, Save, OpenStates
  <2>3. CASE PrepareSend(w, d)
    <3>1. Current(d) \in Payload
      BY <1>1, <2>3 DEF PrepareSend, Sendable, Current, Payload
    <3>2. 0 \in 0..KeyLife /\ "sending" \in OpenStates
      BY TimeAssumption DEF OpenStates
    <3>3. Ready(d) \in Row /\ Ready(d).state = "sending" /\ Ready(d).tried = row[d].tried
      BY <1>1, <3>1, <3>2 DEF Ready, Row
    <3> QED
      BY <2>3, <3>3 DEF PrepareSend, Save
  <2> QED
    BY <2>1, <2>2, <2>3 DEF Prepare
<1> QED
  BY <1>1, <1>2, SaveImplements

LEMMA AttemptImplements ==
    ASSUME DeliveryLedger, NEW w \in Workers, Attempt(w)
    PROVE  [Promise!Next]_(Promise!vars)
<1> PICK d \in Deliveries : d = sender[w].for
  BY DEF Attempt, DeliveryLedger, Listening, Engaged
<1>1. row \in [Deliveries -> Row] /\ row[d] \in Row /\ inbox' = inbox
  BY DEF Attempt, provider, DeliveryLedger, TypeOK
<1>2. CASE AttemptSkip(w, d) \/ AttemptCheck(w, d)
  BY <1>1, <1>2 DEF AttemptSkip, AttemptCheck, Promise!vars, Outcome, Open
<1>3. CASE AttemptCancel(w, d) \/ AttemptGiveUp(w, d) \/ AttemptDefer(w, d)
  <2>1. Open(d)
    BY <1>3 DEF AttemptCancel, AttemptGiveUp, AttemptDefer, Open, OpenStates
  <2>2. PICK r \in Row :
            /\ row' = [row EXCEPT ![d] = r] /\ r.tried = row[d].tried
            /\ r.state \in {"cancelled", "uncertain", "pending"}
    <3>1. CASE AttemptCancel(w, d) \/ AttemptGiveUp(w, d)
      BY <1>1, <3>1, FinishedRow DEF AttemptCancel, AttemptGiveUp, Save, EndStates
    <3>2. CASE AttemptDefer(w, d)
      BY <1>1, <3>2, OpenRow DEF AttemptDefer, Save, OpenStates
    <3> QED
      BY <1>3, <3>1, <3>2
  <2> QED
    BY <1>1, <2>1, <2>2, SaveImplements
<1> QED
  BY <1>2, <1>3 DEF Attempt

LEMMA SettleImplements ==
    ASSUME DeliveryLedger, NEW w \in Workers, Settle(w)
    PROVE  [Promise!Next]_(Promise!vars)
<1> DEFINE d == sender[w].for
<1>1. /\ sender[w].at \in Answers /\ d \in Deliveries
      /\ row \in [Deliveries -> Row] /\ row[d] \in Row
      /\ inbox' = inbox
  BY DEF Settle, provider, DeliveryLedger, TypeOK, Listening, Engaged
<1>2. CASE row[d].state # "sending"
  BY <1>1, <1>2 DEF Settle, Promise!vars, Outcome, Open
<1>3. CASE row[d].state = "sending"
  <2>1. Open(d) /\ row[d].tried /\ (sender[w].at = "accepted" => inbox[d] = 1)
    BY <1>1, <1>3 DEF Open, OpenStates, DeliveryLedger, Counted, Truthful
  <2>2. PICK r \in Row :
            /\ row' = [row EXCEPT ![d] = r] /\ r.tried = row[d].tried
            /\ r.state \in {"sent", "failed", "pending"}
            /\ r.state = "sent" => sender[w].at = "accepted"
    <3>1. CASE sender[w].at = "accepted"
      BY <1>1, <1>3, <3>1, FinishedRow DEF Settle, Save, Verdict, EndStates
    <3>2. CASE sender[w].at = "refused"
      BY <1>1, <1>3, <3>2, FinishedRow DEF Settle, Save, Verdict, EndStates
    <3>3. CASE sender[w].at = "busy"
      BY <1>1, <1>3, <3>3, OpenRow DEF Settle, Save, Verdict, OpenStates
    <3> QED
      BY <1>1, <3>1, <3>2, <3>3 DEF Answers
  <2> HIDE DEF d
  <2> QED
    BY <1>1, <2>1, <2>2, SaveImplements
<1> QED
  BY <1>2, <1>3

LEMMA AccountsImplement ==
    ASSUME DeliveryLedger, Accounts
    PROVE  [Promise!Next]_(Promise!vars)
<1> PICK d \in Deliveries :
        ChangeAddress(d) \/ DeleteRecipient(d) \/ ReviewerLeaves(d) \/ ReviewerGone(d)
  BY DEF Accounts
<1>1. row \in [Deliveries -> Row] /\ row[d] \in Row /\ inbox' = inbox
  BY DEF ChangeAddress, DeleteRecipient, ReviewerLeaves, ReviewerGone, provider,
     DeliveryLedger, TypeOK
<1>2. CASE row' = row
  BY <1>1, <1>2 DEF Promise!vars, Outcome, Open
<1>3. CASE DeleteRecipient(d)
  BY <1>3, RemoveImplements
<1>4. CASE ReviewerLeaves(d) /\ row' # row
  <2>1. Open(d) /\ row' = [row EXCEPT ![d] = Cleared(row[d])]
    BY <1>4 DEF ReviewerLeaves, Save
  <2>2. /\ Cleared(row[d]) \in Row /\ Cleared(row[d]).tried = row[d].tried
        /\ Cleared(row[d]).state \in {"cancelled", "pending"}
    <3>1. CASE row[d].tried
      BY <1>1, <3>1 DEF Cleared, Row, EndStates
    <3>2. CASE ~ row[d].tried
      BY <1>1, <3>2 DEF Cleared, Row, OpenStates
    <3> QED
      BY <3>1, <3>2
  <2> QED
    BY <1>1, <2>1, <2>2, SaveImplements
<1> QED
  BY <1>2, <1>3, <1>4 DEF ChangeAddress, ReviewerGone

LEMMA StepImplements ==
    ASSUME DeliveryLedger, [Next]_vars
    PROVE  [Promise!Next]_(Promise!vars)
<1> DEFINE Quiet ==
        /\ inbox' = inbox
        /\ \A d \in Deliveries : row'[d].state = row[d].state /\ row'[d].tried = row[d].tried
<1>1. CASE Quiet
  BY <1>1 DEF Promise!vars, Outcome, Open
<1>2. ASSUME NEW w \in Workers, Drain(w) \/ Crash(w)
      PROVE  [Promise!Next]_(Promise!vars)
  <2>1. CASE TakeLock(w) \/ Look(w) \/ Disown(w) \/ Rest(w) \/ Post(w) \/ Timeout(w) \/ Crash(w)
    <3>1. Quiet
      BY <2>1 DEF TakeLock, Look, Disown, Rest, Post, Timeout, Crash, database, provider
    <3> QED
      BY <1>1, <3>1
  <2>2. CASE \E d \in Deliveries : Prepare(w, d)
    BY <2>2, PrepareImplements
  <2> QED
    BY <1>2, <2>1, <2>2, AttemptImplements, CommitImplements, SettleImplements DEF Drain
<1>3. CASE LoseLock \/ UNCHANGED vars
  <2>1. Quiet
    BY <1>3 DEF LoseLock, vars, database, provider
  <2> QED
    BY <1>1, <2>1
<1>4. CASE Network
  <2> PICK r \in wire : Accept(r) \/ Repeat(r) \/ Refuse(r) \/ Busy(r)
    BY <1>4 DEF Network
  <2>1. CASE Repeat(r) \/ Refuse(r) \/ Busy(r)
    <3>1. Quiet
      BY <2>1 DEF Repeat, Refuse, Busy, database, provider
    <3> QED
      BY <1>1, <3>1
  <2> QED
    BY <2>1, AcceptImplements
<1>5. CASE Accounts
  BY <1>5, AccountsImplement
<1>6. CASE Tick
  <2>1. \A d \in Deliveries :
            Aged(row[d]).state = row[d].state /\ Aged(row[d]).tried = row[d].tried
    BY DEF DeliveryLedger, TypeOK, Row, Aged
  <2>2. Quiet
    BY <1>6, <2>1 DEF Tick, PassHour
  <2> QED
    BY <1>1, <2>2
<1> QED
  BY <1>2, <1>3, <1>4, <1>5, <1>6 DEF Next

\* Claim mail implements its promise: every step of senders, network, accounts
\* and time is a begun request, an arriving email, a true and final conclusion,
\* a removal, or nothing that the promise speaks of.
THEOREM ImplementsPromise == Spec => KeepsPromise
<1>1. Init => Promise!Init
  BY InitImplements
<1>2. DeliveryLedger /\ [Next]_vars => [Promise!Next]_(Promise!vars)
  BY StepImplements
<1>3. KeepsPromise <=> Promise!Init /\ [][Promise!Next]_(Promise!vars)
  BY DEF KeepsPromise, Promise!Spec
<1> QED
  BY <1>1, <1>2, <1>3, DeliveryLedgerInvariant, PTL DEF Spec

--------------------------------------------------------------------------------

LEMMA NamesStep ==
    ASSUME DeliveryLedger, NamesKnown, [Next]_vars
    PROVE  NamesKnown'
<1>0. sender \in [Workers -> Sender]
  BY DEF DeliveryLedger, TypeOK
<1>3. ASSUME NEW w \in Workers, Drain(w) \/ Crash(w)
      PROVE  NamesKnown'
  <2>1. person' = person
    BY <1>3 DEF Drain, Crash, TakeLock, Look, Disown, Rest, Prepare, Attempt, CommitAttempt, Post,
       Timeout, Settle, database
  <2>2. CASE CommitAttempt(w)
    <3>1. \A v \in Workers : StillHeld(v)
      BY <1>0, <2>2 DEF CommitAttempt, Sender, Sealed, StillHeld
    <3> QED
      BY <2>1, <3>1 DEF NamesKnown, StillHeld
  <2>3. CASE Attempt(w) /\ AttemptCheck(w, sender[w].for)
    <3> PICK d \in Deliveries : d = sender[w].for
      BY <2>3 DEF Attempt, DeliveryLedger, Listening, Engaged
    <3>1. Current(d) # None /\ Hold(w, Current(d))
      BY <2>3 DEF AttemptCheck, Sendable
    <3>2. /\ sender'[w].say = Current(d) /\ sender'[w].for = d
          /\ \A v \in Workers : v # w => sender'[v] = sender[v]
      BY <1>0, <3>1 DEF Hold, Sender
    <3>3. Current(d).named = (person[d] # "deleted")
      BY <3>1 DEF Current
    <3> QED
      BY <2>1, <3>2, <3>3 DEF NamesKnown
  <2>4. CASE ~ CommitAttempt(w) /\ ~ (Attempt(w) /\ AttemptCheck(w, sender[w].for))
    <3>1. \E at \in {"idle", "resting", "looking", "prepared", "waiting", "busy"},
             d \in Deliveries \cup {None} : Move(w, at, d)
      BY <1>3, <2>4 DEF Drain, Crash, TakeLock, Look, Disown, Rest, Prepare, PrepareCancel,
         PrepareGiveUp, PrepareDefer, PrepareSend, Attempt, AttemptSkip, AttemptCancel,
         AttemptGiveUp, AttemptDefer, Post, Timeout, Settle, DeliveryLedger, Listening, Engaged,
         Sealed
    <3> PICK at \in {"idle", "resting", "looking", "prepared", "waiting", "busy"},
             d \in Deliveries \cup {None} : Move(w, at, d)
      BY <3>1
    <3>2. sender'[w] = At(at, d) /\ \A v \in Workers : v # w => sender'[v] = sender[v]
      BY <1>0 DEF Move
    <3>3. \A v \in Workers : StillHeld(v)
      BY <3>2 DEF Sealed, At, StillHeld
    <3> QED
      BY <2>1, <3>3 DEF NamesKnown, StillHeld
  <2> QED
    BY <2>2, <2>3, <2>4
<1>4. CASE Network
  <2>1. PICK r \in wire, answer \in Answers : Hear(r, answer) /\ person' = person
    BY <1>4 DEF Network, Accept, Repeat, Refuse, Busy, Answers, database
  <2>2. \A v \in Workers : sender'[v] = sender[v] \/ sender'[v] = At(answer, r.for)
    BY <2>1, HearKeeps
  <2>3. \A v \in Workers : StillHeld(v)
    BY <2>2 DEF At, Answers, Sealed, StillHeld
  <2> QED
    BY <2>1, <2>3 DEF NamesKnown, StillHeld
<1>5. CASE Accounts
  <2> PICK d \in Deliveries :
        ChangeAddress(d) \/ DeleteRecipient(d) \/ ReviewerLeaves(d) \/ ReviewerGone(d)
    BY <1>5 DEF Accounts
  <2>1. CASE ChangeAddress(d) \/ DeleteRecipient(d)
    BY <2>1 DEF ChangeAddress, DeleteRecipient, NamesKnown
  <2>2. CASE ReviewerLeaves(d)
    <3>1. sender' = sender /\ \A e \in Deliveries : person'[e] = "deleted" => person[e] = "deleted"
      BY <2>2 DEF ReviewerLeaves, DeliveryLedger, TypeOK
    <3>2. \A v \in Workers : sender[v].at \in Sealed => sender[v].for \in Deliveries
      BY DEF DeliveryLedger, Listening, Engaged
    <3> QED
      BY <3>1, <3>2 DEF NamesKnown
  <2>3. CASE ReviewerGone(d)
    <3>1. person' = [person EXCEPT ![d] = "deleted"] /\ Overtake(d)
      BY <2>3 DEF ReviewerGone
    <3> QED
      BY <3>1, NamesOvertaken
  <2> QED
    BY <2>1, <2>2, <2>3
<1>6. CASE Tick
  <2>1. person' = person /\ \A v \in Workers :
            sender'[v] \in {sender[v], [sender[v] EXCEPT !.lag = @ + 1]}
    BY <1>6 DEF Tick, PassHour
  <2>2. \A v \in Workers : StillHeld(v)
    BY <1>0, <2>1 DEF Sender, StillHeld
  <2> QED
    BY <2>1, <2>2 DEF NamesKnown, StillHeld
<1>7. CASE LoseLock \/ UNCHANGED vars
  BY <1>7 DEF LoseLock, database, vars, NamesKnown
<1> QED
  BY <1>3, <1>4, <1>5, <1>6, <1>7 DEF Next

\* A request that names a deleted reviewer was checked before the deletion
\* committed: the message is compared with the account in every attempt, or
\* written from it, and no step in between takes up an older one.
THEOREM NoDeletedName == Spec => NoDeletedNameSent
<1> DEFINE Known(w) ==
        /\ sender[w].at = "counted" /\ sender'[w].at = "waiting"
        /\ sender[w].say.named /\ person[sender[w].for] = "deleted"
        => sender[w].overtaken
<1>1. Init => NamesKnown
  BY DEF Init, NamesKnown, Idle, At, Sealed
<1>2. DeliveryLedger /\ NamesKnown /\ [Next]_vars => NamesKnown'
  BY NamesStep
<1>3. NamesKnown => \A w \in Workers : Known(w)
  BY DEF NamesKnown, Sealed
<1>4. NamesKnown /\ [Next]_vars => [\A w \in Workers : Known(w)]_vars
  BY <1>3
<1> QED
  BY <1>1, <1>2, <1>4, DeliveryLedgerInvariant, PTL DEF Spec, NoDeletedNameSent

================================================================================
