----------------------------- MODULE MailRoomProofs -----------------------------
(***************************************************************************)
(* The steps that claim mail and comment mail have in common keep the      *)
(* ledger of deliveries.                                                   *)
(***************************************************************************)
EXTENDS MailRoom, TLAPS

LEMMA LedgerInit ==
    ASSUME Init
    PROVE  DeliveryLedger
<1> USE TimeAssumption, NoneAssumption DEF Init
<1>1. TypeOK
  BY DEF TypeOK, NewRow, Row, OpenStates, EndStates, Idle, At, Sender, Answers, Key
<1>2. Listening /\ Counted /\ Checked /\ Counting /\ InTime /\ Saved /\ Truthful
  BY DEF Listening, Counted, Checked, Counting, InTime, Saved, Truthful, NewRow, Idle, At,
         Engaged, Sealed, Answers, Remembered
<1>3. OneEmail /\ OneContent /\ SentMeansDelivered
  BY DEF OneEmail, OneContent, SentMeansDelivered, NewRow
<1> QED
  BY <1>1, <1>2, <1>3 DEF DeliveryLedger

\* A worker that stops what it did, and whatever it waited for.
LEMMA ReleaseKeeps ==
    ASSUME DeliveryLedger,
           NEW w \in Workers,
           NEW at \in {"idle", "resting", "looking"},
           Move(w, at, None),
           \/ wire' = Unheard(w)
           \/ sender[w].at # "waiting" /\ wire' = wire,
           lock' \in Workers \cup {None},
           UNCHANGED <<row, to, person, key, inbox, asked>>
    PROVE  DeliveryLedger'
<1> USE DEF DeliveryLedger
<1>0. \A r \in wire' : \E q \in wire :
          /\ r.for = q.for /\ r.payload = q.payload /\ r.lag = q.lag
          /\ r.by = None \/ (r.by = q.by /\ r.by # w /\ r = q)
  <2>1. CASE wire' = Unheard(w)
    BY <2>1 DEF Unheard, TypeOK, Request
  <2>2. CASE sender[w].at # "waiting" /\ wire' = wire
    BY <2>2 DEF Listening
  <2> QED
    BY <2>1, <2>2
<1>1. TypeOK'
  <2>1. wire' \subseteq Request
    BY DEF Unheard, TypeOK, Request
  <2> QED
    BY <2>1, TimeAssumption DEF TypeOK, Move, At, Sender
<1>a. /\ sender'[w] = At(at, None) /\ sender'[w].at = at
      /\ \A v \in Workers : v # w => sender'[v] = sender[v]
  BY DEF TypeOK, Move, At
<1>2. Listening'
  <2>1. \A v \in Workers : sender'[v].at \in Engaged => v # w
    BY <1>a DEF Engaged, Sealed, Answers
  <2>2. \A r \in wire' : r.by # None =>
            r \in wire /\ r.by \in Workers /\ r.by # w
    BY <1>0 DEF TypeOK, Request
  <2> QED
    BY <1>a, <2>1, <2>2 DEF Listening
<1>3. Counted'
  BY <1>0, <1>a DEF Counted, Answers, TypeOK
<1>4. Checked' /\ Counting'
  BY <1>a DEF Checked, Counting, Sealed
<1>5. InTime'
  BY <1>0, <1>a DEF InTime, Remembered, Sealed, TypeOK
<1>6. Saved' /\ OneEmail' /\ OneContent' /\ SentMeansDelivered'
  BY DEF Saved, OneEmail, OneContent, SentMeansDelivered
<1>7. Truthful'
  BY <1>a DEF Truthful
<1> QED
  BY <1>1, <1>2, <1>3, <1>4, <1>5, <1>6, <1>7

LEMMA LockKeeps ==
    ASSUME DeliveryLedger,
           NEW w \in Workers,
           TakeLock(w) \/ Look(w) \/ Disown(w) \/ Rest(w) \/ Crash(w)
    PROVE  DeliveryLedger'
<1> USE DEF database, provider
<1>0. lock \in Workers \cup {None}
  BY DEF DeliveryLedger, TypeOK
<1>1. CASE TakeLock(w)
  BY <1>0, <1>1, ReleaseKeeps DEF TakeLock
<1>2. CASE Look(w)
  BY <1>0, <1>2, ReleaseKeeps DEF Look
<1>3. CASE Disown(w)
  BY <1>0, <1>3, ReleaseKeeps DEF Disown
<1>4. CASE Rest(w)
  BY <1>0, <1>4, ReleaseKeeps DEF Rest
<1>5. CASE Crash(w)
  BY <1>0, <1>5, ReleaseKeeps DEF Crash
<1> QED
  BY <1>1, <1>2, <1>3, <1>4, <1>5

LEMMA LoseLockKeeps ==
    ASSUME DeliveryLedger, LoseLock
    PROVE  DeliveryLedger'
BY DEF DeliveryLedger, LoseLock, database, provider, TypeOK, Listening, Counted, Checked,
       Counting, InTime, Remembered, Saved, Truthful, OneEmail, OneContent, SentMeansDelivered

LEMMA TimeoutKeeps ==
    ASSUME DeliveryLedger, NEW w \in Workers, Timeout(w)
    PROVE  DeliveryLedger'
<1> USE DEF DeliveryLedger
<1>0. /\ sender[w].at = "waiting" /\ sender[w].for \in Deliveries
      /\ sender' = [sender EXCEPT ![w] = At("busy", sender[w].for)]
      /\ wire' = Unheard(w)
      /\ UNCHANGED <<row, to, person, lock, key, inbox, asked>>
  BY DEF Timeout, Move, database, provider, Listening, Engaged
<1>a. /\ sender'[w].at = "busy" /\ sender'[w].for = sender[w].for
      /\ \A v \in Workers : v # w => sender'[v] = sender[v]
  BY <1>0 DEF TypeOK, At
<1>1. \A r \in wire' : \E q \in wire :
          /\ r.for = q.for /\ r.payload = q.payload /\ r.lag = q.lag
          /\ r.by = None \/ (r.by = q.by /\ r.by # w /\ r = q)
  BY <1>0 DEF Unheard, TypeOK, Request
<1>2. TypeOK'
  <2>1. wire' \subseteq Request
    BY <1>0 DEF Unheard, TypeOK, Request
  <2> QED
    BY <1>0, <2>1, TimeAssumption DEF TypeOK, At, Sender, Answers
<1>3. Listening'
  BY <1>0, <1>1, <1>a, NoneAssumption DEF Listening, Engaged, Sealed, Answers, TypeOK
<1>4. Counted'
  BY <1>0, <1>1, <1>a DEF Counted, Answers, TypeOK
<1>5. Checked' /\ Counting'
  BY <1>0, <1>a DEF Checked, Counting, Sealed
<1>6. InTime'
  BY <1>0, <1>1, <1>a DEF InTime, Remembered, Sealed, TypeOK
<1>7. Saved' /\ OneEmail' /\ OneContent' /\ SentMeansDelivered'
  BY <1>0 DEF Saved, OneEmail, OneContent, SentMeansDelivered
<1>8. Truthful'
  BY <1>0, <1>a DEF Truthful
<1> QED
  BY <1>2, <1>3, <1>4, <1>5, <1>6, <1>7, <1>8

--------------------------------------------------------------------------------
\* A request that reaches the provider now finds its key remembered, if it was
\* ever accepted: it was begun within the window, and takes at most Lag.
LEMMA RememberedInTime ==
    ASSUME DeliveryLedger, NEW r \in wire, ~ Remembered(r.for)
    PROVE  r.for \in Deliveries /\ inbox[r.for] = 0
<1>1. r \in Request
  BY DEF DeliveryLedger, TypeOK
<1>2. /\ r.for \in Deliveries /\ r.lag \in 0..Lag
      /\ key[r.for].age \in 0..KeyLife /\ inbox[r.for] \in Nat
  BY <1>1 DEF DeliveryLedger, TypeOK, Request, Key
<1>3. inbox[r.for] > 0 => key[r.for].age < Window + r.lag
  BY <1>2 DEF DeliveryLedger, InTime
<1> QED
  BY <1>2, <1>3, TimeAssumption DEF Remembered

\* The answer that is heard moves only the worker that waits for it.
LEMMA HearKeeps ==
    ASSUME DeliveryLedger, NEW r \in wire, NEW answer \in Answers, Hear(r, answer)
    PROVE  /\ wire' \subseteq wire
           /\ sender' \in [Workers -> Sender]
           /\ \A w \in Workers :
                \/ sender'[w] = sender[w]
                \/ /\ sender[w].at = "waiting"
                   /\ sender[w].for = r.for
                   /\ sender'[w] = At(answer, r.for)
           /\ \A q \in wire' : q.by # None => sender'[q.by] = sender[q.by] \/ q.by = r.by
<1>1. r \in Request /\ sender \in [Workers -> Sender]
  BY DEF DeliveryLedger, TypeOK
<1>2. CASE r.by = None
  BY <1>1, <1>2 DEF Hear
<1>3. CASE r.by # None
  <2>1. r.by \in Workers /\ sender[r.by].at = "waiting" /\ sender[r.by].for = r.for
    BY <1>1, <1>3 DEF Request, DeliveryLedger, Listening
  <2>2. sender' = [sender EXCEPT ![r.by] = At(answer, r.for)]
    BY <1>3 DEF Hear
  <2>3. sender'[r.by] = At(answer, r.for)
    BY <1>1, <2>1, <2>2
  <2>4. At(answer, r.for) \in Sender
    BY <1>1, TimeAssumption DEF At, Sender, Answers, Request
  <2>5. sender' \in [Workers -> Sender]
    BY <1>1, <2>1, <2>2, <2>4
  <2> QED
    BY <1>1, <2>1, <2>2, <2>3, <2>5 DEF Hear
<1> QED
  BY <1>2, <1>3

\* The worker that hears an answer goes on with what the answer says of its row.
LEMMA AnswerKeeps ==
    ASSUME DeliveryLedger,
           NEW r \in wire,
           NEW answer \in Answers,
           Hear(r, answer),
           answer = "accepted" => inbox'[r.for] = 1,
           UNCHANGED <<row, to, person, lock, asked>>
    PROVE  /\ Listening'
           /\ Counted' <=> \A d \in Deliveries : inbox'[d] > 0 => row[d].tried
           /\ Checked' /\ Counting' /\ Saved' /\ OneContent'
           /\ \A w \in Workers : sender'[w].at \in Sealed => sender'[w] = sender[w]
           /\ (\A d \in Deliveries : inbox[d] = 1 => inbox'[d] = 1) => Truthful'
<1> USE DEF DeliveryLedger
<1>1. r \in Request /\ r.for \in Deliveries /\ row[r.for].tried
  BY DEF TypeOK, Request, Counted
<1>2. /\ wire' \subseteq wire /\ r \notin wire'
      /\ \A w \in Workers :
            \/ sender'[w] = sender[w]
            \/ /\ sender[w].at = "waiting"
               /\ sender[w].for = r.for
               /\ sender'[w] = At(answer, r.for)
      /\ \A q \in wire' : q.by # None => sender'[q.by] = sender[q.by] \/ q.by = r.by
  BY HearKeeps DEF Hear
<1>3. \A q \in wire' : q.by # None => q.by \in Workers /\ q.by # r.by
  BY <1>2 DEF Listening, TypeOK, Request
<1>a. /\ At(answer, r.for).at = answer /\ At(answer, r.for).for = r.for
      /\ \A w \in Workers : sender'[w].at \in Sealed => sender'[w] = sender[w]
  BY <1>2 DEF At, Sealed, Answers
<1>4. Listening'
  BY <1>1, <1>2, <1>3, <1>a DEF Listening, Engaged, Answers
<1>5. Counted' <=> \A d \in Deliveries : inbox'[d] > 0 => row[d].tried
  BY <1>1, <1>2, <1>a DEF Counted, Answers
<1>6. Saved' /\ OneContent'
  BY DEF Saved, OneContent
<1>8. Checked' /\ Counting'
  BY <1>a DEF Checked, Counting, Sealed
<1>7. ASSUME \A d \in Deliveries : inbox[d] = 1 => inbox'[d] = 1
      PROVE  Truthful'
  <2> SUFFICES ASSUME NEW w \in Workers, sender'[w].at = "accepted"
               PROVE  inbox'[sender'[w].for] = 1
    BY DEF Truthful
  <2>1. CASE sender'[w] = sender[w]
    BY <1>7, <2>1 DEF Truthful, Listening, Engaged, Answers
  <2>2. CASE sender'[w] = At(answer, r.for)
    BY <1>a, <2>2
  <2> QED
    BY <1>2, <2>1, <2>2
<1> QED
  BY <1>4, <1>5, <1>6, <1>7, <1>8, <1>a

LEMMA AcceptKeeps ==
    ASSUME DeliveryLedger, NEW r \in wire, Accept(r)
    PROVE  DeliveryLedger'
<1> USE DEF DeliveryLedger
<1> DEFINE d == r.for
<1>1. /\ d \in Deliveries /\ inbox[d] = 0 /\ row[d].tried /\ r.payload \in Payload
      /\ inbox \in [Deliveries -> Nat] /\ key \in [Deliveries -> Key]
      /\ row \in [Deliveries -> Row]
  BY RememberedInTime DEF Accept, Counted, TypeOK, Request
<1>2. /\ inbox' = [inbox EXCEPT ![d] = 1]
      /\ key' = [key EXCEPT ![d] = [payload |-> r.payload, age |-> 0]]
      /\ Hear(r, "accepted")
      /\ UNCHANGED <<row, to, person, lock, asked>>
  BY <1>1 DEF Accept, database
<1>3. "accepted" \in Answers /\ 0 \in 0..KeyLife /\ 0 < Window /\ 0 < KeyLife
  BY TimeAssumption DEF Answers
<1>4. /\ inbox' \in [Deliveries -> Nat] /\ inbox'[d] = 1 /\ key'[d].age = 0
      /\ \A e \in Deliveries : e # d => inbox'[e] = inbox[e] /\ key'[e] = key[e]
  BY <1>1, <1>2
<1>5. wire' \subseteq wire /\ sender' \in [Workers -> Sender]
  BY <1>2, <1>3, HearKeeps
<1>6. key' \in [Deliveries -> Key]
  BY <1>1, <1>2, <1>3 DEF Key
<1>7. TypeOK'
  BY <1>2, <1>4, <1>5, <1>6 DEF TypeOK
<1>8. /\ Listening' /\ Counted' /\ Checked' /\ Counting' /\ Saved' /\ OneContent' /\ Truthful'
      /\ \A w \in Workers : sender'[w].at \in Sealed => sender'[w] = sender[w]
  <2>1. \A e \in Deliveries : inbox'[e] > 0 => row[e].tried
    BY <1>1, <1>4 DEF Counted
  <2>2. \A e \in Deliveries : inbox[e] = 1 => inbox'[e] = 1
    BY <1>1, <1>4
  <2> QED
    BY <1>2, <1>3, <1>4, <2>1, <2>2, AnswerKeeps
<1>9. InTime'
  <2>1. \A q \in wire' : q.lag \in Nat
    BY <1>5, TimeAssumption DEF TypeOK, Request
  <2>2. row[d].age \in Nat /\ \A w \in Workers : sender'[w].lag \in Nat
    BY <1>1, <1>5, TimeAssumption DEF Row, Sender
  <2> QED
    BY <1>2, <1>3, <1>4, <1>5, <1>8, <2>1, <2>2, TimeAssumption DEF InTime, Remembered
<1>10. OneEmail' /\ SentMeansDelivered'
  BY <1>1, <1>2, <1>4 DEF OneEmail, SentMeansDelivered
<1> QED
  BY <1>7, <1>8, <1>9, <1>10

\* An answer that changes nothing at the provider.
LEMMA AnswerOnlyKeeps ==
    ASSUME DeliveryLedger, NEW r \in wire, Repeat(r) \/ Refuse(r) \/ Busy(r)
    PROVE  DeliveryLedger'
<1> USE DEF DeliveryLedger
<1>1. /\ r.for \in Deliveries
      /\ UNCHANGED <<row, to, person, lock, asked, key, inbox>>
  BY DEF Repeat, Refuse, Busy, database, provider, TypeOK, Request
<1>2. PICK answer \in Answers :
          Hear(r, answer) /\ (answer = "accepted" => Remembered(r.for))
  BY DEF Repeat, Refuse, Busy, Answers
<1>3. answer = "accepted" => inbox'[r.for] = 1
  <2>1. Remembered(r.for) => inbox[r.for] > 0 /\ inbox[r.for] <= 1 /\ inbox[r.for] \in Nat
    BY <1>1 DEF InTime, OneEmail, TypeOK
  <2> QED
    BY <1>1, <1>2, <2>1
<1>4. /\ Listening' /\ Counted' /\ Checked' /\ Counting' /\ Saved' /\ OneContent' /\ Truthful'
      /\ \A w \in Workers : sender'[w].at \in Sealed => sender'[w] = sender[w]
  <2>1. \A e \in Deliveries : inbox'[e] > 0 => row[e].tried
    BY <1>1 DEF Counted
  <2> QED
    BY <1>1, <1>2, <1>3, <2>1, AnswerKeeps
<1>5. wire' \subseteq wire /\ sender' \in [Workers -> Sender]
  BY <1>2, HearKeeps
<1>6. TypeOK' /\ InTime' /\ OneEmail' /\ SentMeansDelivered'
  BY <1>1, <1>4, <1>5 DEF TypeOK, InTime, Remembered, OneEmail, SentMeansDelivered
<1> QED
  BY <1>4, <1>6

--------------------------------------------------------------------------------

LEMMA TickKeeps ==
    ASSUME DeliveryLedger, NEW pressed, Sealed \subseteq pressed, PassHour(pressed)
    PROVE  DeliveryLedger'
<1> USE TimeAssumption DEF DeliveryLedger
<1>1. \A age \in 0..KeyLife :
          Older(age) \in 0..KeyLife /\ Older(age) >= age /\ Older(age) <= age + 1
  BY DEF Older
<1>2. \A a, b \in 0..KeyLife : a <= b => Older(a) <= Older(b)
  BY DEF Older
<1>3. /\ row \in [Deliveries -> Row] /\ key \in [Deliveries -> Key] /\ wire \subseteq Request
      /\ row' = [d \in Deliveries |-> Aged(row[d])]
      /\ key' = [d \in Deliveries |-> [key[d] EXCEPT !.age = Older(@)]]
      /\ wire' = {[r EXCEPT !.lag = @ + 1] : r \in wire}
      /\ UNCHANGED <<to, person, lock, inbox, asked>>
  BY DEF PassHour, TypeOK
<1>a. /\ sender' \in [Workers -> Sender]
      /\ \A w \in Workers :
            /\ sender'[w].at = sender[w].at /\ sender'[w].for = sender[w].for
            /\ sender'[w].say = sender[w].say
            /\ sender[w].at \in Sealed => sender'[w].lag = sender[w].lag + 1
  <2>1. \A w \in Workers :
            /\ sender[w] \in Sender /\ sender[w].lag \in 0..Lag
            /\ sender[w].at \in pressed =>
                  sender'[w] = [sender[w] EXCEPT !.lag = @ + 1] /\ sender[w].lag < Lag
            /\ sender[w].at \notin pressed => sender'[w] = sender[w]
    BY DEF PassHour, TypeOK, Sender
  <2>2. \A l \in 0..Lag : l < Lag => l + 1 \in 0..Lag
    OBVIOUS
  <2>3. sender' = [w \in Workers |->
            IF sender[w].at \in pressed THEN [sender[w] EXCEPT !.lag = @ + 1] ELSE sender[w]]
    BY DEF PassHour
  <2>4. ASSUME NEW w \in Workers
        PROVE  sender'[w] \in Sender
    <3>1. CASE sender[w].at \in pressed
      <4>1. sender[w].lag + 1 \in 0..Lag
        BY <2>1, <2>2, <3>1
      <4> QED
        BY <2>1, <3>1, <4>1 DEF Sender
    <3>2. CASE sender[w].at \notin pressed
      BY <2>1, <3>2
    <3> QED
      BY <3>1, <3>2
  <2>5. sender' \in [Workers -> Sender]
    BY <2>3, <2>4
  <2>6. ASSUME NEW w \in Workers
        PROVE  /\ sender'[w].at = sender[w].at /\ sender'[w].for = sender[w].for
               /\ sender'[w].say = sender[w].say
               /\ sender[w].at \in pressed => sender'[w].lag = sender[w].lag + 1
    BY <2>1 DEF Sender
  <2> QED
    BY <2>5, <2>6
<1>4. \A d \in Deliveries :
          /\ row'[d] \in Row
          /\ row'[d].state = row[d].state /\ row'[d].payload = row[d].payload
          /\ row'[d].tried = row[d].tried
          /\ row[d].tried => row'[d].age = Older(row[d].age)
  <2> TAKE d \in Deliveries
  <2>1. row[d] \in Row /\ row'[d] = Aged(row[d]) /\ row[d].age \in 0..KeyLife
    BY <1>3 DEF Row
  <2> HIDE <1>3 DEF DeliveryLedger
  <2>2. Older(row[d].age) \in 0..KeyLife
    BY <1>1, <2>1
  <2> QED
    BY <2>1, <2>2 DEF Aged, Row
<1>5. \A d \in Deliveries : key'[d] \in Key /\ key'[d].age = Older(key[d].age)
                            /\ key[d].age \in 0..KeyLife
  BY <1>1, <1>3 DEF Key
<1>6. \A r \in wire' : \E q \in wire :
          /\ r \in Request /\ q \in Request /\ r = [q EXCEPT !.lag = q.lag + 1]
          /\ r.by = q.by /\ r.for = q.for /\ r.payload = q.payload /\ r.lag = q.lag + 1
  <2> TAKE r \in wire'
  <2>1. PICK q \in wire : r = [q EXCEPT !.lag = q.lag + 1]
    BY <1>3
  <2>2. q \in Request /\ q.lag \in 0..Lag /\ q.lag < Lag
    BY <1>3 DEF Request, PassHour
  <2>3. q.lag + 1 \in 0..Lag
    BY <2>2
  <2> QED
    BY <2>1, <2>2, <2>3 DEF Request
<1>7. TypeOK'
  BY <1>3, <1>4, <1>5, <1>6, <1>a DEF TypeOK
<1>8. Listening'
  <2>1. \A r \in wire' : r.by # None => r.by \in Workers
    BY <1>6 DEF Request
  <2>2. \A q, r \in wire' : q.by = r.by /\ r.by # None => q = r
    <3> TAKE q, r \in wire'
    <3> HAVE q.by = r.by /\ r.by # None
    <3>1. PICK q0 \in wire : q = [q0 EXCEPT !.lag = q0.lag + 1] /\ q.by = q0.by
      BY <1>6
    <3>2. PICK r0 \in wire : r = [r0 EXCEPT !.lag = r0.lag + 1] /\ r.by = r0.by
      BY <1>6
    <3>3. q0 = r0
      BY <3>1, <3>2 DEF Listening
    <3> QED
      BY <3>1, <3>2, <3>3
  <2> QED
    BY <1>6, <1>a, <2>1, <2>2 DEF Listening
<1>12. Checked' /\ Counting'
  <2>1. \A w \in Workers : sender[w].at \in Sealed => sender[w].for \in Deliveries
    BY DEF Listening, Engaged
  <2>2. Checked'
    BY <1>4, <1>a, <2>1 DEF Checked, Sealed
  <2>3. Counting'
    <3>1. \A w \in Workers : sender[w].at = "counted" => sender[w].for \in Deliveries
      BY <2>1 DEF Sealed
    <3>2. \A w \in Workers : sender'[w].at = "counted" =>
              /\ asked'[sender'[w].for] \subseteq {sender'[w].say}
              /\ row'[sender'[w].for].payload \in {sender'[w].say, None}
      <4> TAKE w \in Workers
      <4> HAVE sender'[w].at = "counted"
      <4>1. sender[w].at = "counted" /\ sender[w].for \in Deliveries
        BY <1>a, <3>1
      <4>2. /\ asked[sender[w].for] \subseteq {sender[w].say}
            /\ row[sender[w].for].payload \in {sender[w].say, None}
        BY <4>1 DEF Counting
      <4> QED
        BY <1>3, <1>4, <1>a, <4>1, <4>2
    <3> QED
      BY <1>a, <3>2 DEF Counting
  <2> QED
    BY <2>2, <2>3
<1>9. Counted'
  <2>1. \A r \in wire' : r.for \in Deliveries /\ row[r.for].tried
    BY <1>6 DEF Counted, Request
  <2>2. \A w \in Workers :
            sender[w].at \in {"counted", "waiting"} \cup Answers => sender[w].for \in Deliveries
    BY DEF Listening, Engaged, Sealed
  <2> QED
    BY <1>3, <1>4, <1>a, <2>1, <2>2 DEF Counted
<1>10. InTime'
  <2> SUFFICES ASSUME NEW d \in Deliveries
               PROVE  /\ Remembered(d)' => inbox[d] > 0
                      /\ inbox[d] > 0 => key'[d].age <= row'[d].age
                      /\ inbox[d] > 0 =>
                            \A r \in wire' : r.for = d => key'[d].age < Window + r.lag
                      /\ inbox[d] > 0 => \A w \in Workers :
                            sender'[w].at \in Sealed /\ sender'[w].for = d =>
                                key'[d].age < Window + sender'[w].lag
    BY <1>3 DEF InTime
  <2>1. key[d].age \in 0..KeyLife /\ row[d].age \in 0..KeyLife /\ row[d].tried \in BOOLEAN
    BY <1>3 DEF Key, Row
  <2>2. Remembered(d)' => Remembered(d)
    BY <1>1, <1>5, <2>1 DEF Remembered
  <2>3. inbox[d] > 0 => key'[d].age <= row'[d].age
    BY <1>2, <1>4, <1>5, <2>1 DEF InTime, Counted
  <2>4. ASSUME inbox[d] > 0, NEW r \in wire', r.for = d
        PROVE  key'[d].age < Window + r.lag
    <3>1. PICK q \in wire : q \in Request /\ r.for = q.for /\ r.lag = q.lag + 1
      BY <1>6
    <3>2. key[d].age < Window + q.lag /\ q.lag \in Nat
      BY <2>4, <3>1 DEF InTime, Request
    <3>3. key'[d].age <= key[d].age + 1 /\ key'[d].age \in Nat
      BY <1>1, <1>5, <2>1
    <3> QED
      BY <2>1, <3>1, <3>2, <3>3
  <2>5. ASSUME inbox[d] > 0, NEW w \in Workers, sender'[w].at \in Sealed, sender'[w].for = d
        PROVE  key'[d].age < Window + sender'[w].lag
    <3>1. /\ sender[w].at \in Sealed /\ sender[w].for = d
          /\ sender'[w].lag = sender[w].lag + 1 /\ sender[w].lag \in Nat
      BY <1>a, <2>5 DEF TypeOK, Sender
    <3>2. key[d].age < Window + sender[w].lag
      BY <2>5, <3>1 DEF InTime
    <3>3. key'[d].age <= key[d].age + 1 /\ key'[d].age \in Nat
      BY <1>1, <1>5, <2>1
    <3> QED
      BY <2>1, <3>1, <3>2, <3>3
  <2> QED
    BY <2>2, <2>3, <2>4, <2>5 DEF InTime
<1>11. Saved' /\ Truthful' /\ OneEmail' /\ OneContent' /\ SentMeansDelivered'
  BY <1>3, <1>4, <1>a DEF Saved, Truthful, OneEmail, OneContent, SentMeansDelivered
<1> QED
  BY <1>7, <1>8, <1>9, <1>10, <1>11, <1>12

LEMMA AddressKeeps ==
    ASSUME DeliveryLedger, NEW d \in Deliveries, ChangeAddress(d)
    PROVE  DeliveryLedger'
<1>1. to' \in [Deliveries -> Addresses \cup {None}]
  BY DEF DeliveryLedger, TypeOK, ChangeAddress
<1> QED
  BY <1>1 DEF DeliveryLedger, ChangeAddress, provider, TypeOK, Listening, Counted, Checked,
     Counting, InTime, Remembered, Saved, Truthful, OneEmail, OneContent, SentMeansDelivered

--------------------------------------------------------------------------------
\* A worker, or nobody, writes a row without making a request: what was tried
\* stays tried, as it was attempted.
LEMMA SaveKeeps ==
    ASSUME DeliveryLedger,
           NEW d \in Deliveries,
           NEW r \in Row,
           row' = [row EXCEPT ![d] = r],
           r.tried = row[d].tried,
           r.tried => r.age = row[d].age,
           r.tried /\ r.payload # None => r.payload = row[d].payload,
           r.state = "sent" => inbox[d] = 1,
           ~ RowLocked(d),
           sender' \in [Workers -> Sender],
           \A v \in Workers :
               \/ sender'[v] = sender[v]
               \/ /\ sender[v].at # "waiting"
                  /\ sender'[v].at \in {"idle", "resting", "prepared"}
                  /\ sender'[v].at = "prepared" => sender'[v].for \in Deliveries,
           to' \in [Deliveries -> Addresses \cup {None}],
           person' \in [Deliveries -> {"present", "leaving", "clearing", "deleted"}],
           lock' \in Workers \cup {None},
           UNCHANGED <<wire, key, inbox, asked>>
    PROVE  DeliveryLedger'
<1> USE DEF DeliveryLedger
<1>1. /\ row \in [Deliveries -> Row] /\ row' \in [Deliveries -> Row]
      /\ row'[d] = r
      /\ \A e \in Deliveries : e # d => row'[e] = row[e]
  BY DEF TypeOK
<1>2. \A e \in Deliveries : row'[e].tried = row[e].tried
  BY <1>1
<1>3. TypeOK'
  BY <1>1 DEF TypeOK
<1>4. Listening'
  <2>1. \A q \in wire : q.by # None => q.by \in Workers
    BY DEF TypeOK, Request
  <2> QED
    BY <2>1 DEF Listening, Engaged, Sealed, Answers
<1>a. \A v \in Workers : sender'[v].at \in {"waiting"} \cup Sealed \cup Answers =>
            sender'[v] = sender[v] /\ sender[v].for \in Deliveries
  BY DEF Listening, Engaged, Sealed, Answers
<1>5. Counted'
  <2>1. \A q \in wire : q.for \in Deliveries
    BY DEF TypeOK, Request
  <2> QED
    BY <1>2, <1>a, <2>1 DEF Counted, Sealed
<1>10. Checked'
  <2>1. \A v \in Workers : sender'[v].at = "checked" =>
            sender'[v] = sender[v] /\ row'[sender[v].for] = row[sender[v].for]
    BY <1>1, <1>a DEF Sealed, RowLocked
  <2> QED
    BY <2>1 DEF Checked
<1>11. Counting'
  <2>1. \A v \in Workers : sender[v].at = "counted" /\ sender[v].for \in Deliveries =>
                row'[sender[v].for].payload \in {row[sender[v].for].payload, None}
    BY <1>1 DEF Counted
  <2>2. \A v \in Workers : sender'[v].at = "counted" =>
            /\ asked'[sender'[v].for] \subseteq {sender'[v].say}
            /\ row'[sender'[v].for].payload \in {sender'[v].say, None}
    <3> TAKE v \in Workers
    <3> HAVE sender'[v].at = "counted"
    <3>1. sender'[v] = sender[v] /\ sender[v].for \in Deliveries
      BY <1>a DEF Sealed
    <3>2. /\ asked[sender[v].for] \subseteq {sender[v].say}
          /\ row[sender[v].for].payload \in {sender[v].say, None}
      BY <3>1 DEF Counting
    <3> QED
      BY <2>1, <3>1, <3>2
  <2>3. \A v \in Workers : sender'[v].at \in Sealed => sender'[v] = sender[v]
    BY <1>a
  <2> QED
    BY <2>2, <2>3 DEF Counting, Sealed
<1>6. InTime'
  BY <1>1, <1>2, <1>a DEF InTime, Counted, Remembered
<1>7. Saved'
  BY <1>1, <1>2 DEF Saved
<1>8. Truthful'
  BY <1>a DEF Truthful, Answers
<1>9. OneEmail' /\ OneContent' /\ SentMeansDelivered'
  BY <1>1 DEF OneEmail, OneContent, SentMeansDelivered
<1> QED
  BY <1>3, <1>4, <1>5, <1>6, <1>7, <1>8, <1>9, <1>10, <1>11

LEMMA FinishedRow ==
    ASSUME NEW r \in Row, NEW end \in EndStates \cup {"deleted"}
    PROVE  /\ Finished(r, end) \in Row
           /\ Finished(r, end).state = end
           /\ Finished(r, end).payload = None
           /\ Finished(r, end).tried = r.tried
           /\ Finished(r, end).age = r.age
BY DEF Finished, Row

LEMMA OpenRow ==
    ASSUME NEW r \in Row, NEW s \in OpenStates
    PROVE  /\ [r EXCEPT !.state = s] \in Row
           /\ [r EXCEPT !.state = s].state = s
           /\ [r EXCEPT !.state = s].payload = r.payload
           /\ [r EXCEPT !.state = s].tried = r.tried
           /\ [r EXCEPT !.state = s].age = r.age
BY DEF Row

LEMMA MoveAway ==
    ASSUME DeliveryLedger,
           NEW w \in Workers,
           NEW at \in {"idle", "resting", "prepared"},
           NEW d \in Deliveries \cup {None},
           at = "prepared" => d \in Deliveries,
           sender[w].at # "waiting",
           Move(w, at, d)
    PROVE  /\ sender' \in [Workers -> Sender]
           /\ \A v \in Workers :
                \/ sender'[v] = sender[v]
                \/ /\ sender[v].at # "waiting"
                   /\ sender'[v].at \in {"idle", "resting", "prepared"}
                   /\ sender'[v].at = "prepared" => sender'[v].for \in Deliveries
BY TimeAssumption DEF DeliveryLedger, TypeOK, Move, At, Sender

\* A worker that does not wait writes the row's conclusion, or puts it aside.
LEMMA PutAsideKeeps ==
    ASSUME DeliveryLedger,
           NEW w \in Workers,
           NEW d \in Deliveries,
           NEW r \in Row,
           Save(d, r),
           Move(w, "resting", None),
           sender[w].at # "waiting",
           ~ RowLocked(d),
           r.tried = row[d].tried,
           r.age = row[d].age,
           r.payload \in {row[d].payload, None},
           r.state = "sent" => inbox[d] = 1,
           UNCHANGED <<to, person, lock, wire, key, inbox, asked>>
    PROVE  DeliveryLedger'
<1>1. /\ sender' \in [Workers -> Sender]
      /\ \A v \in Workers :
           \/ sender'[v] = sender[v]
           \/ /\ sender[v].at # "waiting"
              /\ sender'[v].at \in {"idle", "resting", "prepared"}
              /\ sender'[v].at = "prepared" => sender'[v].for \in Deliveries
  BY MoveAway
<1>2. /\ to' \in [Deliveries -> Addresses \cup {None}]
      /\ person' \in [Deliveries -> {"present", "leaving", "clearing", "deleted"}]
      /\ lock' \in Workers \cup {None}
  BY DEF DeliveryLedger, TypeOK
<1> QED
  BY <1>1, <1>2, SaveKeeps DEF Save

\* The recipient's account takes its deliveries with it.
LEMMA DeleteRecipientKeeps ==
    ASSUME DeliveryLedger, NEW d \in Deliveries, DeleteRecipient(d)
    PROVE  DeliveryLedger'
<1>1. row[d] \in Row /\ to \in [Deliveries -> Addresses \cup {None}]
  BY DEF DeliveryLedger, TypeOK
<1>2. /\ to' \in [Deliveries -> Addresses \cup {None}]
      /\ row' = [row EXCEPT ![d] = Finished(row[d], "deleted")]
      /\ UNCHANGED <<person, lock, sender, wire, key, inbox, asked>>
  BY <1>1 DEF DeleteRecipient, Save, provider
<1>3. /\ sender' \in [Workers -> Sender]
      /\ person' \in [Deliveries -> {"present", "leaving", "clearing", "deleted"}]
      /\ lock' \in Workers \cup {None}
  BY <1>2 DEF DeliveryLedger, TypeOK
<1> DEFINE r == Finished(row[d], "deleted")
<1>4. /\ r \in Row /\ r.state = "deleted" /\ r.payload = None
      /\ r.tried = row[d].tried /\ r.age = row[d].age
      /\ row' = [row EXCEPT ![d] = r] /\ ~ RowLocked(d)
  BY <1>1, <1>2, FinishedRow DEF DeleteRecipient
<1> HIDE DEF r
<1> QED
  BY <1>2, <1>3, <1>4, SaveKeeps

LEMMA StutterKeeps ==
    ASSUME DeliveryLedger, UNCHANGED vars
    PROVE  DeliveryLedger'
BY DEF DeliveryLedger, vars, TypeOK, Listening, Counted, Checked, Counting, InTime, Remembered,
       Saved, Truthful, OneEmail, OneContent, SentMeansDelivered

\* An account goes that a held message may name.
LEMMA OvertakeKeeps ==
    ASSUME DeliveryLedger,
           NEW d \in Deliveries,
           Overtake(d),
           person' \in [Deliveries -> {"present", "leaving", "clearing", "deleted"}],
           UNCHANGED <<row, to, lock, wire, key, inbox, asked>>
    PROVE  DeliveryLedger'
<1> USE DEF DeliveryLedger
<1>1. /\ sender' \in [Workers -> Sender]
      /\ \A w \in Workers :
            /\ sender'[w].at = sender[w].at /\ sender'[w].for = sender[w].for
            /\ sender'[w].say = sender[w].say /\ sender'[w].lag = sender[w].lag
  <2>1. ASSUME NEW w \in Workers
        PROVE  /\ sender'[w] \in Sender
               /\ sender'[w].at = sender[w].at /\ sender'[w].for = sender[w].for
               /\ sender'[w].say = sender[w].say /\ sender'[w].lag = sender[w].lag
    <3>1. sender[w] \in Sender
      BY DEF TypeOK
    <3>2. sender'[w] \in {sender[w], [sender[w] EXCEPT !.overtaken = TRUE]}
      BY DEF Overtake
    <3> QED
      BY <3>1, <3>2 DEF Sender
  <2>2. sender' \in [Workers -> Sender]
    BY <2>1 DEF Overtake
  <2> QED
    BY <2>1, <2>2
<1>2. TypeOK'
  BY <1>1 DEF TypeOK
<1>3. Listening' /\ Counted'
  <2>1. \A r \in wire : r.by # None => r.by \in Workers
    BY DEF TypeOK, Request
  <2> QED
    BY <1>1, <2>1 DEF Listening, Counted
<1>4. Checked'
  BY <1>1 DEF Checked
<1>5. Counting'
  BY <1>1 DEF Counting
<1>6. InTime' /\ Truthful'
  BY <1>1 DEF InTime, Remembered, Truthful
<1>7. Saved' /\ OneEmail' /\ OneContent' /\ SentMeansDelivered'
  BY DEF Saved, OneEmail, OneContent, SentMeansDelivered
<1> QED
  BY <1>2, <1>3, <1>4, <1>5, <1>6, <1>7

\* A worker has checked a row that nobody else has locked: it looked at the
\* window in time, and will send what was attempted before.
LEMMA HoldKeeps ==
    ASSUME DeliveryLedger,
           NEW w \in Workers,
           NEW d \in Deliveries,
           NEW p \in Payload,
           sender[w].at = "prepared",
           sender[w].for = d,
           ~ RowLocked(d),
           row[d].state = "sending",
           row[d].payload # None,
           row[d].tried => row[d].payload = p,
           inbox[d] > 0 => key[d].age < Window + sender[w].lag,
           Hold(w, p),
           UNCHANGED <<row, to, person, lock, wire, key, inbox, asked>>
    PROVE  DeliveryLedger'
<1> USE DEF DeliveryLedger
<1>1. /\ sender' \in [Workers -> Sender]
      /\ sender'[w].at = "checked" /\ sender'[w].for = d /\ sender'[w].say = p
      /\ sender'[w].lag = sender[w].lag
      /\ \A v \in Workers : v # w => sender'[v] = sender[v]
  BY DEF Hold, TypeOK, Sender, Sealed
<1>2. TypeOK'
  BY <1>1 DEF TypeOK
<1>3. Listening' /\ Counted'
  <2>1. \A r \in wire : r.by # None => r.by \in Workers /\ r.by # w
    BY DEF TypeOK, Request, Listening
  <2> QED
    BY <1>1, <2>1 DEF Listening, Counted, Engaged, Sealed, Answers
<1>4. Checked'
  BY <1>1 DEF Checked, RowLocked
<1>5. Counting'
  BY <1>1 DEF Counting, Sealed
<1>6. InTime' /\ Truthful'
  BY <1>1 DEF InTime, Remembered, Truthful
<1>7. Saved' /\ OneEmail' /\ OneContent' /\ SentMeansDelivered'
  BY DEF Saved, OneEmail, OneContent, SentMeansDelivered
<1> QED
  BY <1>2, <1>3, <1>4, <1>5, <1>6, <1>7

LEMMA CommitKeeps ==
    ASSUME DeliveryLedger, NEW w \in Workers, CommitAttempt(w)
    PROVE  DeliveryLedger'
<1> USE DEF DeliveryLedger
<1> PICK d \in Deliveries : d = sender[w].for
  BY DEF CommitAttempt, Listening, Engaged, Sealed
<1> PICK p \in Payload : p = sender[w].say
  BY DEF CommitAttempt, Counting, Sealed
<1>1. /\ row \in [Deliveries -> Row] /\ row[d] \in Row /\ p # None
      /\ sender[w].at = "checked" /\ row[d].state = "sending" /\ row[d].payload # None
      /\ row[d].tried => row[d].payload = p
      /\ row' = [row EXCEPT ![d] = [row[d] EXCEPT !.payload = p, !.tried = TRUE]]
      /\ sender' = [sender EXCEPT ![w].at = "counted"]
      /\ UNCHANGED <<to, person, lock, wire, key, inbox, asked>>
  BY NoneAssumption DEF CommitAttempt, Save, provider, TypeOK, Checked
<1>2. /\ row' \in [Deliveries -> Row]
      /\ row'[d].tried /\ row'[d].payload = p /\ row'[d].age = row[d].age
      /\ row'[d].state = "sending"
      /\ \A e \in Deliveries : e # d => row'[e] = row[e]
  BY <1>1 DEF Row
<1>3. /\ sender' \in [Workers -> Sender]
      /\ sender'[w].at = "counted" /\ sender'[w].for = d /\ sender'[w].say = p
      /\ sender'[w].lag = sender[w].lag
      /\ \A v \in Workers : v # w => sender'[v] = sender[v]
  BY <1>1 DEF TypeOK, Sender, Sealed
<1>4. asked[d] \subseteq {p}
  BY <1>1 DEF Counted, Saved
<1>5. TypeOK'
  BY <1>1, <1>2, <1>3 DEF TypeOK
<1>6. Listening'
  <2>1. \A r \in wire : r.by # None => r.by \in Workers /\ r.by # w
    BY <1>1 DEF TypeOK, Request, Listening
  <2> QED
    BY <1>1, <1>3, <2>1 DEF Listening, Engaged, Sealed, Answers
<1>7. Counted'
  <2>1. \A r \in wire : r.for \in Deliveries
    BY DEF TypeOK, Request
  <2>2. \A v \in Workers :
            sender[v].at \in {"counted", "waiting"} \cup Answers => sender[v].for \in Deliveries
    BY DEF Listening, Engaged, Sealed
  <2> QED
    BY <1>1, <1>2, <1>3, <2>1, <2>2 DEF Counted
<1>8. Checked'
  <2>1. \A v \in Workers : v # w /\ sender[v].at = "checked" =>
            sender[v].for # d /\ sender[v].for \in Deliveries
    BY <1>1 DEF Checked, Listening, Engaged, Sealed
  <2> QED
    BY <1>2, <1>3, <2>1 DEF Checked
<1>9. Counting'
  <2>1. \A v \in Workers : sender[v].at = "counted" =>
            /\ row[sender[v].for].tried /\ sender[v].for \in Deliveries
            /\ row[sender[v].for].payload \in {sender[v].say, None}
    BY DEF Counting, Counted, Listening, Engaged, Sealed
  <2>2. \A v \in Workers : sender[v].at = "counted" /\ sender[v].for = d => sender[v].say = p
    BY <1>1, <2>1
  <2>3. \A v \in Workers : sender'[v].at = "counted" =>
            /\ v # w => sender'[v] = sender[v] /\ sender[v].at = "counted"
            /\ sender'[v].for = d => sender'[v].say = p
    BY <1>3, <2>2
  <2>4. \A v \in Workers : sender'[v].at \in Sealed => sender'[v].say \in Payload
    BY <1>3 DEF Counting
  <2>5. ASSUME NEW v \in Workers, sender'[v].at = "counted"
        PROVE  /\ asked'[sender'[v].for] \subseteq {sender'[v].say}
               /\ row'[sender'[v].for].payload \in {sender'[v].say, None}
    <3>1. CASE sender'[v].for = d
      BY <1>1, <1>2, <1>4, <2>3, <2>5, <3>1
    <3>2. CASE sender'[v].for # d
      BY <1>1, <1>2, <1>3, <2>1, <2>3, <2>5, <3>2 DEF Counting
    <3> QED
      BY <3>1, <3>2
  <2>6. \A u, v \in Workers :
            /\ sender'[u].at = "counted" /\ sender'[v].at = "counted"
            /\ sender'[u].for = sender'[v].for
            => sender'[u].say = sender'[v].say
    BY <1>3, <2>3 DEF Counting
  <2> QED
    BY <2>4, <2>5, <2>6 DEF Counting
<1>10. InTime'
  BY <1>1, <1>2, <1>3 DEF InTime, Remembered, Sealed
<1>11. Saved' /\ Truthful'
  BY <1>1, <1>2, <1>3, <1>4 DEF Saved, Truthful
<1>12. OneEmail' /\ OneContent' /\ SentMeansDelivered'
  BY <1>1, <1>2 DEF OneEmail, OneContent, SentMeansDelivered
<1> QED
  BY <1>5, <1>6, <1>7, <1>8, <1>9, <1>10, <1>11, <1>12

LEMMA PostKeeps ==
    ASSUME DeliveryLedger, NEW w \in Workers, Post(w)
    PROVE  DeliveryLedger'
<1> USE DEF DeliveryLedger
<1> PICK d \in Deliveries : d = sender[w].for
  BY DEF Post, Listening, Engaged, Sealed
<1> PICK p \in Payload : p = sender[w].say
  BY DEF Post, Counting, Sealed
<1> DEFINE new == [by |-> w, for |-> d, payload |-> p, lag |-> sender[w].lag]
<1>1. /\ sender[w].at = "counted" /\ row[d].tried /\ asked[d] \subseteq {p}
      /\ row[d].payload \in {p, None} /\ w # None
      /\ wire' = wire \cup {new}
      /\ asked' = [asked EXCEPT ![d] = @ \cup {p}]
      /\ sender' = [sender EXCEPT ![w] = At("waiting", d)]
      /\ asked \in [Deliveries -> SUBSET Payload] /\ sender \in [Workers -> Sender]
      /\ UNCHANGED <<row, to, person, lock, key, inbox>>
  BY NoneAssumption DEF Post, Move, database, provider, TypeOK, Counted, Counting
<1>2. new \in Request /\ new.by = w /\ new.for = d /\ new.lag = sender[w].lag
  BY <1>1 DEF Request, Sender
<1>3. /\ sender' \in [Workers -> Sender]
      /\ sender'[w].at = "waiting" /\ sender'[w].for = d
      /\ \A v \in Workers : v # w => sender'[v] = sender[v]
  BY <1>1, TimeAssumption DEF At, Sender
<1>4. /\ asked'[d] = {p}
      /\ \A e \in Deliveries : e # d => asked'[e] = asked[e]
      /\ asked' \in [Deliveries -> SUBSET Payload]
  BY <1>1
<1> HIDE DEF new
<1>5. TypeOK'
  BY <1>1, <1>2, <1>3, <1>4 DEF TypeOK
<1>6. Listening'
  <2>1. \A q \in wire : q.by # None => q.by \in Workers /\ q.by # w
    BY <1>1 DEF TypeOK, Request, Listening
  <2> QED
    BY <1>1, <1>2, <1>3, <2>1 DEF Listening, Engaged, Sealed, Answers
<1>7. Counted'
  BY <1>1, <1>2, <1>3, <1>4 DEF Counted, Answers
<1>8. Checked'
  BY <1>1, <1>3 DEF Checked
<1>9. Counting'
  <2>1. \A v \in Workers : sender[v].at = "counted" => sender[v].for \in Deliveries
    BY DEF Listening, Engaged, Sealed
  <2> QED
    BY <1>1, <1>3, <1>4, <2>1 DEF Counting, Sealed
<1>10. InTime'
  BY <1>1, <1>2, <1>3 DEF InTime, Remembered, Sealed
<1>11. Saved' /\ Truthful'
  BY <1>1, <1>3, <1>4 DEF Saved, Truthful
<1>12. OneEmail' /\ OneContent' /\ SentMeansDelivered'
  BY <1>1, <1>4 DEF OneEmail, OneContent, SentMeansDelivered
<1> QED
  BY <1>5, <1>6, <1>7, <1>8, <1>9, <1>10, <1>11, <1>12

--------------------------------------------------------------------------------
\* The names in held messages.

\* What a worker holds after a step it held before.
StillHeld(v) ==
    sender'[v].at \in Sealed =>
        /\ sender[v].at \in Sealed
        /\ sender'[v].for = sender[v].for
        /\ sender'[v].say = sender[v].say
        /\ sender'[v].overtaken = sender[v].overtaken

\* An account goes, and overtakes whoever may name it.
LEMMA NamesOvertaken ==
    ASSUME DeliveryLedger,
           NamesKnown,
           NEW d \in Deliveries,
           person' = [person EXCEPT ![d] = "deleted"],
           Overtake(d)
    PROVE  NamesKnown'
<1>1. \A e \in Deliveries : e # d => person'[e] = person[e]
  BY DEF DeliveryLedger, TypeOK
<1> SUFFICES ASSUME NEW v \in Workers,
                    sender'[v].at \in Sealed,
                    sender'[v].say.named,
                    person'[sender'[v].for] = "deleted"
             PROVE  sender'[v].overtaken
  BY DEF NamesKnown
<1>2. /\ sender[v].at \in Sealed /\ sender[v].for \in Deliveries
      /\ sender'[v].for = sender[v].for /\ sender'[v].say = sender[v].say
      /\ sender[v].for = d => sender'[v].overtaken
      /\ sender'[v].overtaken = TRUE \/ sender'[v].overtaken = sender[v].overtaken
  <2>1. sender[v] \in Sender
    BY DEF DeliveryLedger, TypeOK
  <2>2. sender'[v] = IF sender[v].at \in Sealed /\ sender[v].for = d
                     THEN [sender[v] EXCEPT !.overtaken = TRUE] ELSE sender[v]
    BY DEF Overtake
  <2>3. sender[v].at \in Sealed => sender[v].for \in Deliveries
    BY DEF DeliveryLedger, Listening, Engaged
  <2> QED
    BY <2>1, <2>2, <2>3 DEF Sender
<1>3. CASE sender[v].for = d
  BY <1>2, <1>3
<1>4. CASE sender[v].for # d
  BY <1>1, <1>2, <1>4 DEF NamesKnown
<1> QED
  BY <1>3, <1>4

--------------------------------------------------------------------------------
\* The steps of an outbox are steps of its promise.

LEMMA InitImplements ==
    ASSUME Init
    PROVE  Promise!Init
<1>1. \A d \in Deliveries : row[d].tried = FALSE /\ Outcome(d) = "open"
  BY DEF Init, NewRow, Outcome, Open, OpenStates
<1>2. [d \in Deliveries |-> row[d].tried] = [d \in Deliveries |-> FALSE]
  BY <1>1
<1>3. [d \in Deliveries |-> Outcome(d)] = [d \in Deliveries |-> "open"]
  BY <1>1
<1>4. inbox = [d \in Deliveries |-> 0]
  BY DEF Init
<1> QED
  BY <1>2, <1>3, <1>4 DEF Promise!Init

LEMMA RemoveImplements ==
    ASSUME DeliveryLedger, NEW d \in Deliveries, DeleteRecipient(d)
    PROVE  [Promise!Next]_(Promise!vars)
<1>1. row \in [Deliveries -> Row] /\ row[d] \in Row
  BY DEF DeliveryLedger, TypeOK
<1>2. Finished(row[d], "deleted").state = "deleted" /\ Finished(row[d], "deleted").tried = row[d].tried
  BY <1>1, FinishedRow
<1>3. \A e \in Deliveries :
          /\ Outcome(e)' = IF e = d THEN "deleted" ELSE Outcome(e)
          /\ row'[e].tried = row[e].tried
  BY <1>1, <1>2 DEF DeleteRecipient, Save, Outcome, Open, OpenStates
<1>4. Promise!Remove(d)
  BY <1>1, <1>3 DEF Promise!Remove, DeleteRecipient, provider
<1> QED
  BY <1>4 DEF Promise!Next

\* A delivery begins with its first counted attempt.
LEMMA CommitImplements ==
    ASSUME DeliveryLedger, NEW w \in Workers, CommitAttempt(w)
    PROVE  [Promise!Next]_(Promise!vars)
<1> PICK d \in Deliveries : d = sender[w].for
  BY DEF CommitAttempt, DeliveryLedger, Listening, Engaged, Sealed
<1>1. /\ row \in [Deliveries -> Row] /\ row[d] \in Row /\ row[d].state = "sending"
      /\ row' = [row EXCEPT ![d] = [row[d] EXCEPT !.payload = sender[w].say, !.tried = TRUE]]
      /\ inbox' = inbox
  BY DEF CommitAttempt, Save, provider, DeliveryLedger, TypeOK, Checked
<1>2. \A e \in Deliveries :
          /\ row'[e].state = row[e].state
          /\ row'[e].tried = IF e = d THEN TRUE ELSE row[e].tried
  BY <1>1 DEF Row
<1>3. Outcome(d) = "open" /\ \A e \in Deliveries : Outcome(e)' = Outcome(e)
  BY <1>1, <1>2 DEF Outcome, Open, OpenStates
<1>4. Promise!Begin(d)
  BY <1>1, <1>2, <1>3 DEF Promise!Begin
<1> QED
  BY <1>4 DEF Promise!Next

\* A row's conclusion is an outcome, and none of the other rows gets one.
LEMMA SaveImplements ==
    ASSUME NEW d \in Deliveries,
           NEW r \in Row,
           Open(d),
           row \in [Deliveries -> Row],
           row' = [row EXCEPT ![d] = r],
           r.state # "deleted",
           r.state = "sent" => inbox[d] = 1,
           r.state = "failed" => r.tried,
           r.tried = row[d].tried,
           inbox' = inbox
    PROVE  [Promise!Next]_(Promise!vars)
<1>0. [e \in Deliveries |-> row[e].tried]' = [e \in Deliveries |-> row[e].tried]
  <2>1. \A e \in Deliveries : row'[e].tried = row[e].tried
    OBVIOUS
  <2> QED
    BY <2>1
<1>1. \A e \in Deliveries : Outcome(e)' =
          IF e = d THEN (IF r.state \in OpenStates THEN "open" ELSE r.state)
          ELSE Outcome(e)
  BY DEF Outcome, Open
<1>2. Outcome(d) = "open"
  BY DEF Outcome
<1>3. CASE r.state \in OpenStates
  <2>1. [e \in Deliveries |-> Outcome(e)]' = [e \in Deliveries |-> Outcome(e)]
    BY <1>1, <1>2, <1>3
  <2> QED
    BY <1>0, <2>1 DEF Promise!vars
<1>4. CASE r.state \notin OpenStates
  <2>1. r.state \in {"sent", "failed", "uncertain", "cancelled"}
    BY <1>4 DEF Row, EndStates
  <2>2. [e \in Deliveries |-> Outcome(e)]' =
            [[e \in Deliveries |-> Outcome(e)] EXCEPT ![d] = r.state]
    BY <1>1, <1>4
  <2>3. Promise!Conclude(d, r.state)
    BY <1>0, <1>2, <2>2 DEF Promise!Conclude
  <2> QED
    BY <2>1, <2>3 DEF Promise!Next
<1> QED
  BY <1>3, <1>4

LEMMA AcceptImplements ==
    ASSUME DeliveryLedger, NEW r \in wire, Accept(r)
    PROVE  [Promise!Next]_(Promise!vars)
<1>1. r.for \in Deliveries /\ inbox[r.for] = 0 /\ row[r.for].tried
  BY RememberedInTime DEF Accept, DeliveryLedger, Counted
<1>2. inbox' = [inbox EXCEPT ![r.for] = 1] /\ UNCHANGED row
  BY <1>1 DEF Accept, database, DeliveryLedger, TypeOK
<1>3. Promise!Arrive(r.for)
  BY <1>1, <1>2 DEF Promise!Arrive, Outcome, Open
<1> QED
  BY <1>1, <1>3 DEF Promise!Next

================================================================================
