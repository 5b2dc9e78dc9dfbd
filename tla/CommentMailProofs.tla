--------------------------- MODULE CommentMailProofs ---------------------------
(***************************************************************************)
(* Discussion mail keeps the ledger of deliveries and implements the       *)
(* revisable promise of MailPromise, for any number of deliveries and      *)
(* senders, lost connections, crashes, retries and late requests.          *)
(***************************************************************************)
EXTENDS CommentMail, MailRoomProofs

LEMMA ReadyRow ==
    ASSUME DeliveryLedger, NEW d \in Deliveries, to[d] # None, row[d].state \in OpenStates
    PROVE  /\ Ready(d) \in Row /\ Ready(d).state = "sending"
           /\ Ready(d).tried = row[d].tried
           /\ Ready(d).age \in {row[d].age, 0}
           /\ Dated(row[d]) =>
                 Ready(d).age = row[d].age /\ Ready(d).payload = row[d].payload
           /\ ~ Dated(row[d]) => Ready(d).age = 0
<1>1. row[d] \in Row /\ Current(d) \in Payload
  BY DEF DeliveryLedger, TypeOK, Current, Payload
<1>2. 0 \in 0..KeyLife /\ "sending" \in OpenStates
  BY TimeAssumption DEF OpenStates
<1>3. CASE Dated(row[d])
  BY <1>1, <1>2, <1>3, OpenRow DEF Ready
<1>4. CASE ~ Dated(row[d])
  BY <1>1, <1>2, <1>4 DEF Ready, Row
<1> QED
  BY <1>3, <1>4

LEMMA PrepareKeeps ==
    ASSUME DeliveryLedger, NEW w \in Workers, NEW d \in Deliveries, Prepare(w, d)
    PROVE  DeliveryLedger'
<1>1. /\ sender[w].at = "looking" /\ row[d].state \in OpenStates /\ ~ RowLocked(d)
      /\ UNCHANGED <<to, person, lock, wire, key, inbox, asked>>
  BY DEF Prepare, provider, Open
<1>2. /\ row[d] \in Row /\ to' \in [Deliveries -> Addresses \cup {None}]
      /\ person' \in [Deliveries -> {"present", "leaving", "clearing", "deleted"}]
      /\ lock' \in Workers \cup {None} /\ lock \in Workers \cup {None}
  BY <1>1 DEF DeliveryLedger, TypeOK
<1>3. CASE PrepareCancel(w, d) \/ PrepareGiveUp(w, d)
  <2>1. PICK end \in {"cancelled", "uncertain"} :
            Save(d, Finished(row[d], end)) /\ Move(w, "resting", None)
    BY <1>3 DEF PrepareCancel, PrepareGiveUp
  <2>2. end \in EndStates \cup {"deleted"} /\ end # "sent"
    BY DEF EndStates
  <2> QED
    BY <1>1, <1>2, <2>1, <2>2, FinishedRow, PutAsideKeeps
<1>4. CASE PrepareDefer(w, d)
  BY <1>1, <1>2, <1>4, ReleaseKeeps DEF PrepareDefer
<1>5. CASE PrepareSend(w, d)
  <2>1. row' = [row EXCEPT ![d] = Ready(d)] /\ Move(w, "prepared", d) /\ to[d] # None
    BY <1>5 DEF PrepareSend, Save
  <2>2. /\ Ready(d) \in Row /\ Ready(d).tried = row[d].tried /\ Ready(d).state = "sending"
        /\ Ready(d).tried =>
              Ready(d).age = row[d].age /\ Ready(d).payload = row[d].payload
    BY <1>1, <2>1, ReadyRow DEF Dated
  <2>3. /\ sender' \in [Workers -> Sender]
        /\ \A v \in Workers :
             \/ sender'[v] = sender[v]
             \/ /\ sender[v].at # "waiting"
                /\ sender'[v].at \in {"idle", "resting", "prepared"}
                /\ sender'[v].at = "prepared" => sender'[v].for \in Deliveries
    BY <1>1, <2>1, MoveAway
  <2> QED
    BY <1>1, <1>2, <2>1, <2>2, <2>3, SaveKeeps
<1> QED
  BY <1>3, <1>4, <1>5 DEF Prepare

LEMMA MessageIsPayload ==
    ASSUME DeliveryLedger, NEW d \in Deliveries, ~ Mismatch(d)
    PROVE  Message(d) \in Payload /\ (~ TargetErased(d) => Message(d) = row[d].payload)
<1>1. /\ row[d].payload \in Payload \cup {None}
      /\ row[d].payload \in [to : {to[d]}, named : BOOLEAN]
      /\ to[d] \in Addresses \cup {None}
  BY DEF DeliveryLedger, TypeOK, Row, Mismatch
<1>2. row[d].payload # None
  BY <1>1, NoneAssumption DEF Payload
<1>3. to[d] \in Addresses /\ to[d] # None
  BY <1>1, <1>2, NoneAssumption DEF Payload
<1>4. Current(d) \in Payload
  BY <1>3 DEF Current, Payload
<1> QED
  BY <1>1, <1>2, <1>4 DEF Message

LEMMA AttemptKeeps ==
    ASSUME DeliveryLedger, Fresh, NEW w \in Workers, Attempt(w)
    PROVE  DeliveryLedger'
<1> PICK d \in Deliveries : d = sender[w].for
  BY DEF Attempt, DeliveryLedger, Listening, Engaged
<1>1. /\ sender[w].at = "prepared" /\ ~ RowLocked(d)
      /\ UNCHANGED <<to, person, lock, key, inbox>>
  BY DEF Attempt, provider
<1>2. /\ row[d] \in Row /\ lock \in Workers \cup {None}
  BY <1>1 DEF DeliveryLedger, TypeOK
<1>3. CASE AttemptSkip(w, d)
  BY <1>1, <1>2, <1>3, ReleaseKeeps DEF AttemptSkip
<1>4. CASE AttemptCancel(w, d)
  <2>1. Finished(row[d], "cancelled").state # "sent" /\ "cancelled" \in EndStates \cup {"deleted"}
    BY <1>2, FinishedRow DEF EndStates
  <2> QED
    BY <1>1, <1>2, <1>4, <2>1, FinishedRow, PutAsideKeeps DEF AttemptCancel
<1>5. CASE AttemptCheck(w, d)
  <2> DEFINE p == Message(d)
  <2>1. /\ p \in Payload
        /\ row[d].tried => row[d].payload = p
    BY <1>5, MessageIsPayload DEF AttemptCheck
  <2>2. inbox[d] > 0 => key[d].age < Window + sender[w].lag
    BY <1>1 DEF Fresh
  <2>3. /\ row[d].state = "sending" /\ row[d].payload # None
        /\ Hold(w, p) /\ UNCHANGED <<row, wire, asked>>
    BY <1>5, NoneAssumption DEF AttemptCheck, Mismatch, DeliveryLedger, TypeOK, Payload
  <2> HIDE DEF p
  <2> QED
    BY <1>1, <2>1, <2>2, <2>3, HoldKeeps
<1> QED
  BY <1>3, <1>4, <1>5 DEF Attempt

\* What an answer makes of a row.
LEMMA VerdictRow ==
    ASSUME NEW r \in Row, NEW answer \in Answers
    PROVE  /\ Verdict(r, answer) \in Row
           /\ Verdict(r, answer).tried = r.tried
           /\ Verdict(r, answer).age = r.age
           /\ Verdict(r, answer).payload \in {r.payload, None}
           /\ Verdict(r, answer).state \in {"sent", "failed", "pending"}
           /\ Verdict(r, answer).state = "sent" => answer = "accepted"
<1>1. CASE answer = "accepted"
  BY <1>1, FinishedRow DEF Verdict, EndStates
<1>2. CASE answer = "refused"
  BY <1>2, FinishedRow DEF Verdict, EndStates
<1>3. CASE answer = "busy"
  BY <1>3, OpenRow DEF Verdict, OpenStates
<1> QED
  BY <1>1, <1>2, <1>3 DEF Answers

LEMMA SettleKeeps ==
    ASSUME DeliveryLedger, NEW w \in Workers, Settle(w) \/ SettleFails(w)
    PROVE  DeliveryLedger'
<1> PICK d \in Deliveries : d = sender[w].for
  BY DEF Settle, SettleFails, DeliveryLedger, Listening, Engaged
<1>1. /\ sender[w].at \in Answers /\ sender[w].at # "waiting"
      /\ UNCHANGED <<to, person, wire, key, inbox, asked>>
  BY DEF Settle, SettleFails, database, provider, Answers
<1>2. row[d] \in Row /\ lock \in Workers \cup {None}
  BY <1>1 DEF DeliveryLedger, TypeOK
<1>3. CASE SettleFails(w)
  BY <1>1, <1>2, <1>3, ReleaseKeeps DEF SettleFails, database
<1>4. CASE Settle(w)
  <2> DEFINE r == Verdict(row[d], sender[w].at)
  <2>1. Save(d, r) /\ Move(w, "resting", None) /\ UNCHANGED lock /\ ~ RowLocked(d)
    BY <1>4 DEF Settle
  <2>2. /\ r \in Row /\ r.tried = row[d].tried /\ r.age = row[d].age
        /\ r.payload \in {row[d].payload, None}
        /\ r.state = "sent" => sender[w].at = "accepted"
    BY <1>1, <1>2, VerdictRow
  <2>3. r.state = "sent" => inbox[d] = 1
    BY <2>2 DEF DeliveryLedger, Truthful
  <2> HIDE DEF r
  <2> QED
    BY <1>1, <1>2, <2>1, <2>2, <2>3, PutAsideKeeps
<1> QED
  BY <1>3, <1>4

LEMMA EraseKeeps ==
    ASSUME DeliveryLedger, NEW d \in Deliveries, EraseTarget(d)
    PROVE  DeliveryLedger'
<1>1. /\ person' \in [Deliveries -> {"present", "leaving", "clearing", "deleted"}]
      /\ Overtake(d)
      /\ UNCHANGED <<row, to, lock, wire, key, inbox, asked>>
  BY DEF DeliveryLedger, TypeOK, EraseTarget, provider
<1> QED
  BY <1>1, OvertakeKeeps

LEMMA LedgerStep ==
    ASSUME DeliveryLedger, Fresh, [Next]_vars
    PROVE  DeliveryLedger'
<1>1. CASE UNCHANGED vars
  BY <1>1, StutterKeeps
<1>2. ASSUME NEW w \in Workers, Drain(w) \/ Crash(w)
      PROVE  DeliveryLedger'
  <2>1. CASE \E d \in Deliveries : Prepare(w, d)
    BY <2>1, PrepareKeeps
  <2> QED
    BY <1>2, <2>1, LockKeeps, AttemptKeeps, CommitKeeps, PostKeeps, TimeoutKeeps, SettleKeeps
       DEF Drain
<1>3. CASE LoseLock
  BY <1>3, LoseLockKeeps
<1>4. CASE Network
  BY <1>4, AcceptKeeps, AnswerOnlyKeeps DEF Network
<1>5. CASE Accounts
  BY <1>5, AddressKeeps, DeleteRecipientKeeps, EraseKeeps DEF Accounts
<1>6. CASE Hour
  <2>1. Sealed \subseteq {"prepared"} \cup Sealed
    OBVIOUS
  <2> QED
    BY <1>6, <2>1, TickKeeps DEF Hour
<1> QED
  BY <1>1, <1>2, <1>3, <1>4, <1>5, <1>6 DEF Next

LEMMA HeldRows ==
    ASSUME DeliveryLedger, NEW w \in Workers, sender[w].at \in Engaged
    PROVE  sender[w].for \in Deliveries /\ row[sender[w].for] \in Row
BY DEF DeliveryLedger, Listening, TypeOK

\* A worker that was prepared already stays in time unless an hour passes, and
\* then its lag grows with the age of the key.
LEMMA FreshKept ==
    ASSUME DeliveryLedger,
           Fresh,
           \A v \in Workers : sender'[v].at = "prepared" => sender'[v] = sender[v],
           \A e \in Deliveries :
               \/ inbox'[e] = inbox[e] /\ key'[e] = key[e]
               \/ key'[e].age = 0
    PROVE  Fresh'
<1> SUFFICES ASSUME NEW v \in Workers, sender'[v].at = "prepared",
                    inbox'[sender'[v].for] > 0
             PROVE  key'[sender'[v].for].age < Window + sender'[v].lag
  BY DEF Fresh
<1>1. /\ sender'[v] = sender[v] /\ sender[v].for \in Deliveries
      /\ sender[v].lag \in Nat
  BY TimeAssumption DEF DeliveryLedger, TypeOK, Sender, Listening, Engaged
<1>2. inbox[sender[v].for] > 0 => key[sender[v].for].age < Window + sender[v].lag
  BY <1>1 DEF Fresh
<1> QED
  BY <1>1, <1>2, TimeAssumption

LEMMA FreshHour ==
    ASSUME DeliveryLedger, Fresh, Hour
    PROVE  Fresh'
<1> SUFFICES ASSUME NEW v \in Workers, sender'[v].at = "prepared",
                    inbox'[sender'[v].for] > 0
             PROVE  key'[sender'[v].for].age < Window + sender'[v].lag
  BY DEF Fresh
<1>1. sender[v] \in Sender /\ key \in [Deliveries -> Key] /\ inbox' = inbox
  BY DEF DeliveryLedger, TypeOK, Hour, PassHour
<1>2. /\ sender[v].at = "prepared"
      /\ sender'[v] = [sender[v] EXCEPT !.lag = @ + 1]
      /\ sender[v].lag \in Nat
  BY <1>1, TimeAssumption DEF Hour, PassHour, Sender
<1> DEFINE d == sender[v].for
<1>3. d \in Deliveries /\ sender'[v].for = d /\ sender'[v].lag = sender[v].lag + 1
  BY <1>1, <1>2 DEF DeliveryLedger, Listening, Engaged, Sender
<1>4. key[d].age < Window + sender[v].lag /\ key[d].age \in 0..KeyLife
  BY <1>1, <1>2, <1>3 DEF Fresh, Key
<1>5. key'[d].age \in Nat /\ key'[d].age <= key[d].age + 1
  <2>1. key'[d].age = Older(key[d].age)
    BY <1>1, <1>3 DEF Hour, PassHour, Key
  <2> QED
    BY <1>4, <2>1, TimeAssumption DEF Older
<1> QED
  BY <1>2, <1>3, <1>4, <1>5, TimeAssumption

LEMMA FreshStep ==
    ASSUME DeliveryLedger, Fresh, [Next]_vars
    PROVE  Fresh'
<1> DEFINE Same == inbox' = inbox /\ key' = key
<1> DEFINE Kept == \A v \in Workers : sender'[v].at = "prepared" => sender'[v] = sender[v]
<1>0. sender \in [Workers -> Sender]
  BY DEF DeliveryLedger, TypeOK
<1>1. ASSUME Kept, Same
      PROVE  Fresh'
  BY <1>1, FreshKept
<1>2. ASSUME NEW w \in Workers, Drain(w) \/ Crash(w)
      PROVE  Fresh'
  <2>1. Same
    BY <1>2 DEF Drain, Crash, TakeLock, Look, Disown, Rest, Prepare, Attempt, CommitAttempt, Post,
       Timeout, Settle, SettleFails, provider
  <2>2. CASE \E d \in Deliveries : Prepare(w, d) /\ PrepareSend(w, d)
    <3> PICK d \in Deliveries : Prepare(w, d) /\ PrepareSend(w, d)
      BY <2>2
    <3>1. /\ sender'[w].for = d /\ sender'[w].lag = 0
          /\ \A v \in Workers : v # w => sender'[v] = sender[v]
      BY <1>0 DEF PrepareSend, Move, At
    <3>2. inbox[d] > 0 => key[d].age < Window
      <4>1. inbox[d] > 0 => Dated(row[d]) /\ key[d].age <= row[d].age
        BY DEF DeliveryLedger, Counted, InTime, Dated
      <4>2. Dated(row[d]) => ~ row[d].age >= Window
        BY DEF PrepareSend, Expired
      <4>3. key[d].age \in Nat /\ row[d].age \in Nat
        BY DEF DeliveryLedger, TypeOK, Key, Row
      <4> QED
        BY <4>1, <4>2, <4>3, TimeAssumption
    <3> QED
      BY <2>1, <3>1, <3>2, TimeAssumption DEF Fresh
  <2>3. CASE \A d \in Deliveries : ~ (Prepare(w, d) /\ PrepareSend(w, d))
    <3>1. \/ \E at \in {"idle", "resting", "looking", "waiting", "busy"},
               d \in Deliveries \cup {None} : Move(w, at, d)
          \/ sender' = [sender EXCEPT ![w].at = "counted"]
          \/ sender' = [sender EXCEPT ![w].at = "checked",
                                      ![w].say = Message(sender[w].for)]
      BY <1>2, <2>3 DEF Drain, Crash, TakeLock, Look, Disown, Rest, Prepare, PrepareCancel,
         PrepareGiveUp, PrepareDefer, Attempt, AttemptSkip, AttemptCancel, AttemptCheck, Hold,
         CommitAttempt, Post, Timeout, Settle, SettleFails, DeliveryLedger, Listening, Engaged,
         Sealed
    <3>2. Kept
      BY <1>0, <3>1 DEF Move, At, Sender
    <3> QED
      BY <1>1, <2>1, <3>2
  <2> QED
    BY <2>2, <2>3
<1>3. CASE Network
  <2>1. PICK r \in wire, answer \in Answers : Hear(r, answer) /\ (Same \/ Accept(r))
    BY <1>3 DEF Network, Accept, Repeat, Refuse, Busy, Answers, provider
  <2>2. \A v \in Workers : sender'[v] = sender[v] \/ sender'[v] = At(answer, r.for)
    BY <2>1, HearKeeps
  <2>4. Kept
    BY <2>2 DEF At, Answers
  <2>3. CASE Accept(r)
    <3>1. \A e \in Deliveries :
              \/ inbox'[e] = inbox[e] /\ key'[e] = key[e]
              \/ key'[e].age = 0
      BY <2>3 DEF Accept, DeliveryLedger, TypeOK
    <3> QED
      BY <2>4, <3>1, FreshKept
  <2> QED
    BY <1>1, <2>1, <2>3, <2>4
<1>4. CASE Accounts
  <2>1. Same /\ \A v \in Workers : sender'[v] = sender[v] \/ sender[v].at \in Sealed
    BY <1>4 DEF Accounts, ChangeAddress, DeleteRecipient, EraseTarget, Overtake, provider
  <2>2. \A v \in Workers : sender'[v].at = sender[v].at
    BY <1>0, <1>4 DEF Accounts, ChangeAddress, DeleteRecipient, EraseTarget, Overtake, Sender
  <2>3. Kept
    BY <2>1, <2>2 DEF Sealed
  <2> QED
    BY <1>1, <2>1, <2>3
<1>5. CASE LoseLock \/ UNCHANGED vars
  BY <1>1, <1>5 DEF LoseLock, provider, vars
<1> QED
  BY <1>2, <1>3, <1>4, <1>5, FreshHour DEF Next

\* The ledger of deliveries, together with the freshness of what is prepared, is
\* an inductive invariant.
THEOREM DeliveryLedgerInvariant == Spec => []DeliveryLedger
<1>1. Init => DeliveryLedger /\ Fresh
  BY LedgerInit DEF Init, Fresh, Idle, At
<1>2. DeliveryLedger /\ Fresh /\ [Next]_vars => DeliveryLedger' /\ Fresh'
  BY LedgerStep, FreshStep
<1> QED
  BY <1>1, <1>2, PTL DEF Spec

\* Every variable of discussion mail has its type.
THEOREM TypeCorrect == Spec => []TypeOK
<1>1. DeliveryLedger => TypeOK
  BY DEF DeliveryLedger
<1> QED
  BY <1>1, DeliveryLedgerInvariant, PTL

\* However senders, lost connections, crashes, late requests and account changes
\* interleave, discussion mail writes to a recipient about a comment at most once.
THEOREM AtMostOneNotice == Spec => []OneEmail
<1>1. DeliveryLedger => OneEmail
  BY DEF DeliveryLedger
<1> QED
  BY <1>1, DeliveryLedgerInvariant, PTL

\* No row says "sent" of a notice the provider did not accept, even when two
\* senders write over each other's outcome.
THEOREM SentNoticeWasDelivered == Spec => []SentMeansDelivered
<1>1. DeliveryLedger => SentMeansDelivered
  BY DEF DeliveryLedger
<1> QED
  BY <1>1, DeliveryLedgerInvariant, PTL

--------------------------------------------------------------------------------
\* The outbox implements its revisable promise.

LEMMA PrepareImplements ==
    ASSUME DeliveryLedger, NEW w \in Workers, NEW d \in Deliveries, Prepare(w, d)
    PROVE  [Promise!Next]_(Promise!vars)
<1>1. /\ Open(d) /\ row[d].state \in OpenStates
      /\ row \in [Deliveries -> Row] /\ row[d] \in Row
      /\ inbox' = inbox
  BY DEF Prepare, Open, provider, DeliveryLedger, TypeOK
<1>2. CASE PrepareDefer(w, d)
  BY <1>1, <1>2 DEF PrepareDefer, Promise!vars, Outcome, Open
<1>3. CASE PrepareCancel(w, d) \/ PrepareGiveUp(w, d) \/ PrepareSend(w, d)
  <2>1. PICK r \in Row :
            /\ row' = [row EXCEPT ![d] = r] /\ r.tried = row[d].tried
            /\ r.state \in {"cancelled", "uncertain", "sending"}
    <3>1. CASE PrepareCancel(w, d) \/ PrepareGiveUp(w, d)
      BY <1>1, <3>1, FinishedRow DEF PrepareCancel, PrepareGiveUp, Save, EndStates
    <3>2. CASE PrepareSend(w, d)
      BY <1>1, <3>2, ReadyRow DEF PrepareSend, Save
    <3> QED
      BY <1>3, <3>1, <3>2
  <2> QED
    BY <1>1, <2>1, SaveImplements
<1> QED
  BY <1>2, <1>3 DEF Prepare

LEMMA AttemptImplements ==
    ASSUME DeliveryLedger, NEW w \in Workers, Attempt(w)
    PROVE  [Promise!Next]_(Promise!vars)
<1> PICK d \in Deliveries : d = sender[w].for
  BY DEF Attempt, DeliveryLedger, Listening, Engaged
<1>1. row \in [Deliveries -> Row] /\ row[d] \in Row /\ inbox' = inbox
  BY DEF Attempt, provider, DeliveryLedger, TypeOK
<1>2. CASE AttemptSkip(w, d) \/ AttemptCheck(w, d)
  BY <1>1, <1>2 DEF AttemptSkip, AttemptCheck, Promise!vars, Outcome, Open
<1>3. CASE AttemptCancel(w, d)
  <2>1. Open(d)
    BY <1>3 DEF AttemptCancel, Open, OpenStates
  <2>2. PICK r \in Row :
            row' = [row EXCEPT ![d] = r] /\ r.tried = row[d].tried /\ r.state = "cancelled"
    BY <1>1, <1>3, FinishedRow DEF AttemptCancel, Save, EndStates
  <2> QED
    BY <1>1, <2>1, <2>2, SaveImplements
<1> QED
  BY <1>2, <1>3 DEF Attempt

\* An answer is written over whatever the row has become, but it is the answer of
\* a counted attempt, and true.
LEMMA SettleImplements ==
    ASSUME DeliveryLedger, NEW w \in Workers, Settle(w)
    PROVE  \E d \in Deliveries, end \in {"open", "sent", "failed"} : Promise!LateAnswer(d, end)
<1> PICK d \in Deliveries : d = sender[w].for
  BY DEF Settle, DeliveryLedger, Listening, Engaged
<1>1. /\ sender[w].at \in Answers /\ row[d].state # "deleted" /\ row[d].tried
      /\ row \in [Deliveries -> Row] /\ row[d] \in Row
      /\ inbox' = inbox /\ (sender[w].at = "accepted" => inbox[d] = 1)
  BY DEF Settle, provider, DeliveryLedger, TypeOK, Counted, Truthful
<1> DEFINE r == Verdict(row[d], sender[w].at)
           end == IF r.state \in OpenStates THEN "open" ELSE r.state
<1>2. /\ row' = [row EXCEPT ![d] = r]
      /\ r.tried = row[d].tried /\ r.state \in {"sent", "failed", "pending"}
      /\ r.state = "sent" => sender[w].at = "accepted"
  BY <1>1, VerdictRow DEF Settle, Save
<1> HIDE DEF r
<1>3. \A e \in Deliveries :
          /\ Outcome(e)' = IF e = d THEN end ELSE Outcome(e)
          /\ row'[e].tried = row[e].tried
  BY <1>1, <1>2 DEF Outcome, Open
<1>4. end \in {"open", "sent", "failed"} /\ (end = "sent" => inbox[d] = 1)
  BY <1>1, <1>2 DEF OpenStates
<1>5. [e \in Deliveries |-> Outcome(e)]' = [[e \in Deliveries |-> Outcome(e)] EXCEPT ![d] = end]
  BY <1>3
<1>6. [e \in Deliveries |-> row[e].tried]' = [e \in Deliveries |-> row[e].tried]
  BY <1>3
<1>7. Outcome(d) # "deleted"
  BY <1>1 DEF Outcome
<1>8. Promise!LateAnswer(d, end)
  BY <1>1, <1>4, <1>5, <1>6, <1>7 DEF Promise!LateAnswer
<1> QED
  BY <1>4, <1>8

LEMMA StepImplements ==
    ASSUME DeliveryLedger, [Next]_vars
    PROVE  [Promise!RevisableNext]_(Promise!vars)
<1> DEFINE Quiet ==
        /\ inbox' = inbox
        /\ \A d \in Deliveries : row'[d].state = row[d].state /\ row'[d].tried = row[d].tried
<1>0. CASE [Promise!Next]_(Promise!vars)
  BY <1>0 DEF Promise!RevisableNext
<1>1. CASE Quiet
  BY <1>1 DEF Promise!vars, Outcome, Open
<1>2. ASSUME NEW w \in Workers, Drain(w) \/ Crash(w)
      PROVE  [Promise!RevisableNext]_(Promise!vars)
  <2>1. CASE TakeLock(w) \/ Look(w) \/ Disown(w) \/ Rest(w) \/ Timeout(w) \/ Crash(w)
             \/ Post(w) \/ SettleFails(w)
    <3>1. Quiet
      BY <2>1 DEF TakeLock, Look, Disown, Rest, Post, Timeout, Crash, SettleFails, database, provider
    <3> QED
      BY <1>1, <3>1
  <2>2. CASE \E d \in Deliveries : Prepare(w, d)
    BY <1>0, <2>2, PrepareImplements
  <2>3. CASE Settle(w)
    BY <2>3, SettleImplements DEF Promise!RevisableNext
  <2> QED
    BY <1>0, <1>2, <2>1, <2>2, <2>3, AttemptImplements, CommitImplements DEF Drain
<1>3. CASE LoseLock \/ UNCHANGED vars
  <2>1. Quiet
    BY <1>3 DEF LoseLock, vars, database, provider
  <2> QED
    BY <1>1, <2>1
<1>4. CASE Network
  <2> PICK r \in wire : Accept(r) \/ Repeat(r) \/ Refuse(r) \/ Busy(r)
    BY <1>4 DEF Network
  <2>1. CASE Repeat(r) \/ Refuse(r) \/ Busy(r)
    <3>1. Quiet
      BY <2>1 DEF Repeat, Refuse, Busy, database, provider
    <3> QED
      BY <1>1, <3>1
  <2> QED
    BY <1>0, <2>1, AcceptImplements
<1>5. CASE Accounts
  <2> PICK d \in Deliveries : ChangeAddress(d) \/ DeleteRecipient(d) \/ EraseTarget(d)
    BY <1>5 DEF Accounts
  <2>1. CASE ChangeAddress(d) \/ EraseTarget(d)
    <3>1. Quiet
      BY <2>1 DEF ChangeAddress, EraseTarget, provider
    <3> QED
      BY <1>1, <3>1
  <2>2. CASE DeleteRecipient(d)
    BY <1>0, <2>2, RemoveImplements
  <2> QED
    BY <2>1, <2>2
<1>6. CASE Hour
  <2>1. \A d \in Deliveries :
            Aged(row[d]).state = row[d].state /\ Aged(row[d]).tried = row[d].tried
    BY DEF DeliveryLedger, TypeOK, Row, Aged
  <2>2. Quiet
    BY <1>6, <2>1 DEF Hour, PassHour
  <2> QED
    BY <1>1, <2>2
<1> QED
  BY <1>2, <1>3, <1>4, <1>5, <1>6 DEF Next

\* Discussion mail implements its revisable promise, whatever connections are
\* lost: at most one email, none before a counted attempt, and no conclusion
\* that is untrue, though a late answer may replace one.
THEOREM ImplementsRevisablePromise == Spec => KeepsRevisablePromise
<1>1. Init => Promise!Init
  BY InitImplements
<1>2. DeliveryLedger /\ [Next]_vars => [Promise!RevisableNext]_(Promise!vars)
  BY StepImplements
<1>3. KeepsRevisablePromise <=> Promise!Init /\ [][Promise!RevisableNext]_(Promise!vars)
  BY DEF KeepsRevisablePromise, Promise!RevisableSpec
<1> QED
  BY <1>1, <1>2, <1>3, DeliveryLedgerInvariant, PTL DEF Spec

--------------------------------------------------------------------------------

\* What is sent of a comment that is erased already does not name its author.
LEMMA ErasedMessage ==
    ASSUME DeliveryLedger, NEW d \in Deliveries, ~ Mismatch(d), TargetErased(d)
    PROVE  Message(d).named = FALSE
<1>1. to[d] # None
  <2>1. /\ row[d].payload \in Payload \cup {None} /\ to[d] \in Addresses \cup {None}
        /\ row[d].payload \in [to : {to[d]}, named : BOOLEAN]
    BY DEF DeliveryLedger, TypeOK, Row, Mismatch
  <2> QED
    BY <2>1, NoneAssumption DEF Payload
<1>2. Message(d) = [to |-> to[d], named |-> FALSE]
  BY <1>1 DEF Message, Current, TargetErased
<1> QED
  BY <1>2

LEMMA NamesStep ==
    ASSUME DeliveryLedger, NamesKnown, [Next]_vars
    PROVE  NamesKnown'
<1>0. sender \in [Workers -> Sender]
  BY DEF DeliveryLedger, TypeOK
<1>3. ASSUME NEW w \in Workers, Drain(w) \/ Crash(w)
      PROVE  NamesKnown'
  <2>1. person' = person
    BY <1>3 DEF Drain, Crash, TakeLock, Look, Disown, Rest, Prepare, Attempt, CommitAttempt, Post,
       Timeout, Settle, SettleFails, database
  <2>2. CASE CommitAttempt(w)
    <3>1. \A v \in Workers : StillHeld(v)
      BY <1>0, <2>2 DEF CommitAttempt, Sender, Sealed, StillHeld
    <3> QED
      BY <2>1, <3>1 DEF NamesKnown, StillHeld
  <2>3. CASE Attempt(w) /\ AttemptCheck(w, sender[w].for)
    <3> PICK d \in Deliveries : d = sender[w].for
      BY <2>3 DEF Attempt, DeliveryLedger, Listening, Engaged
    <3>1. ~ Mismatch(d) /\ Hold(w, Message(d))
      BY <2>3 DEF AttemptCheck
    <3>2. /\ sender'[w].say = Message(d) /\ sender'[w].for = d
          /\ \A v \in Workers : v # w => sender'[v] = sender[v]
      BY <1>0, <3>1 DEF Hold, Sender
    <3>3. person[d] = "deleted" => Message(d).named = FALSE
      BY <3>1, ErasedMessage DEF TargetErased
    <3> QED
      BY <2>1, <3>2, <3>3 DEF NamesKnown
  <2>4. CASE ~ CommitAttempt(w) /\ ~ (Attempt(w) /\ AttemptCheck(w, sender[w].for))
    <3>1. \E at \in {"idle", "resting", "looking", "prepared", "waiting", "busy"},
             d \in Deliveries \cup {None} : Move(w, at, d)
      BY <1>3, <2>4 DEF Drain, Crash, TakeLock, Look, Disown, Rest, Prepare, PrepareCancel,
         PrepareGiveUp, PrepareDefer, PrepareSend, Attempt, AttemptSkip, AttemptCancel, Post,
         Timeout, Settle, SettleFails, DeliveryLedger, Listening, Engaged, Sealed
    <3> PICK at \in {"idle", "resting", "looking", "prepared", "waiting", "busy"},
             d \in Deliveries \cup {None} : Move(w, at, d)
      BY <3>1
    <3>2. sender'[w] = At(at, d) /\ \A v \in Workers : v # w => sender'[v] = sender[v]
      BY <1>0 DEF Move
    <3>3. \A v \in Workers : StillHeld(v)
      BY <3>2 DEF Sealed, At, StillHeld
    <3> QED
      BY <2>1, <3>3 DEF NamesKnown, StillHeld
  <2> QED
    BY <2>2, <2>3, <2>4
<1>4. CASE Network
  <2>1. PICK r \in wire, answer \in Answers : Hear(r, answer) /\ person' = person
    BY <1>4 DEF Network, Accept, Repeat, Refuse, Busy, Answers, database
  <2>2. \A v \in Workers : sender'[v] = sender[v] \/ sender'[v] = At(answer, r.for)
    BY <2>1, HearKeeps
  <2>3. \A v \in Workers : StillHeld(v)
    BY <2>2 DEF At, Answers, Sealed, StillHeld
  <2> QED
    BY <2>1, <2>3 DEF NamesKnown, StillHeld
<1>5. CASE Accounts
  <2> PICK d \in Deliveries : ChangeAddress(d) \/ DeleteRecipient(d) \/ EraseTarget(d)
    BY <1>5 DEF Accounts
  <2>1. CASE ChangeAddress(d) \/ DeleteRecipient(d)
    BY <2>1 DEF ChangeAddress, DeleteRecipient, NamesKnown
  <2>2. CASE EraseTarget(d)
    <3>1. person' = [person EXCEPT ![d] = "deleted"] /\ Overtake(d)
      BY <2>2 DEF EraseTarget
    <3> QED
      BY <3>1, NamesOvertaken
  <2> QED
    BY <2>1, <2>2
<1>6. CASE Hour
  <2>1. person' = person /\ \A v \in Workers :
            sender'[v] \in {sender[v], [sender[v] EXCEPT !.lag = @ + 1]}
    BY <1>6 DEF Hour, PassHour
  <2>2. \A v \in Workers : StillHeld(v)
    BY <1>0, <2>1 DEF Sender, StillHeld
  <2> QED
    BY <2>1, <2>2 DEF NamesKnown, StillHeld
<1>7. CASE LoseLock \/ UNCHANGED vars
  BY <1>7 DEF LoseLock, database, vars, NamesKnown
<1> QED
  BY <1>3, <1>4, <1>5, <1>6, <1>7 DEF Next

\* A request that names the author of an erased comment was checked before the
\* erasure committed: every attempt replaces the name in an untried message and
\* cancels a tried one, and no step in between takes up an older one.
THEOREM NoErasedName == Spec => NoErasedNameSent
<1> DEFINE Known(w) ==
        /\ sender[w].at = "counted" /\ sender'[w].at = "waiting"
        /\ sender[w].say.named /\ person[sender[w].for] = "deleted"
        => sender[w].overtaken
<1>1. Init => NamesKnown
  BY DEF Init, NamesKnown, Idle, At, Sealed
<1>2. DeliveryLedger /\ NamesKnown /\ [Next]_vars => NamesKnown'
  BY NamesStep
<1>3. NamesKnown => \A w \in Workers : Known(w)
  BY DEF NamesKnown, Sealed
<1>4. NamesKnown /\ [Next]_vars => [\A w \in Workers : Known(w)]_vars
  BY <1>3
<1> QED
  BY <1>1, <1>2, <1>4, DeliveryLedgerInvariant, PTL DEF Spec, NoErasedNameSent

================================================================================
