-------------------------------- MODULE MailRoom --------------------------------
(***************************************************************************)
(* What the two durable outboxes of alethical have in common (claim mail,  *)
(* comment mail): saved delivery rows, background senders that share one   *)
(* advisory lock, a network that loses and delays requests, and a provider *)
(* that remembers an idempotency key for a limited time.                   *)
(*                                                                         *)
(* Time is counted in hours.  Every waiting time of the code that is       *)
(* shorter than that (the 10 seconds between drains, the minute of a       *)
(* claimed row, the back-off of at most an hour) may or may not be over at *)
(* any step.                                                               *)
(*                                                                         *)
(* An attempt has three steps.  A worker checks the row again in a         *)
(* transaction that keeps the row locked ("checked"), commits the counted  *)
(* attempt ("counted"), and posts the message it still holds ("waiting").  *)
(* Accounts that the transaction has not locked may go in between.         *)
(***************************************************************************)
EXTENDS Naturals, FiniteSets

CONSTANTS
    Deliveries,  \* saved delivery rows; the row id is its idempotency key
    Workers,     \* drain_once, once per API process
    Addresses,   \* where and why to write: recipient address and reasons
    Allowed,     \* ALETHICAL_EMAIL_ALLOWLIST: the addresses that may get mail
    Window,      \* RETRY_WINDOW
    KeyLife,     \* how long the provider remembers an idempotency key
    Lag,         \* how long a request may take to reach the provider, counted
                 \* from the worker's last look at the retry window
    None

Payload == [to : Addresses, named : BOOLEAN]

ASSUME TimeAssumption ==
    /\ Window \in Nat \ {0}
    /\ Lag \in Nat
    /\ KeyLife \in Nat
    /\ Window + Lag <= KeyLife

ASSUME NoneAssumption ==
    /\ None \notin Workers \cup Deliveries \cup Addresses
    /\ None \notin Payload
    /\ None \notin [to : {None}, named : BOOLEAN]

VARIABLES
    row,     \* the delivery rows
    to,      \* where eligibility and preferences lead now; None: not eligible
    person,  \* the account whose name the message shows
    lock,    \* who holds DRAIN_LOCK
    sender,  \* what each worker does, and for which row
    wire,    \* requests on their way; "by" is None when nobody waits any more
    key,     \* what the provider remembers under each key
    inbox,   \* history: how many emails the recipient got
    asked    \* history: the payloads requested under each key

vars == <<row, to, person, lock, sender, wire, key, inbox, asked>>

database == <<row, to, person>>
provider == <<key, inbox>>

OpenStates == {"pending", "sending"}
EndStates == {"sent", "failed", "cancelled", "uncertain"}

\* "tried" is attempt_count > 0; "age" the hours since attempted_at, counted
\* once there is one, which is once the row was tried or holds a payload.
Row == [state : OpenStates \cup EndStates \cup {"deleted"},
        payload : Payload \cup {None},
        tried : BOOLEAN,
        age : 0..KeyLife]

Answers == {"accepted", "refused", "busy"}

\* A checked message that is not posted yet.
Sealed == {"checked", "counted"}

\* "say" is the message a worker holds since its last check and "lag" how long
\* ago it looked at the window; "overtaken" is history: whether the account
\* that the message may name went after the check.
Sender == [at : {"idle", "resting", "looking", "prepared", "waiting"} \cup Sealed \cup Answers,
           for : Deliveries \cup {None},
           say : Payload \cup {None},
           lag : 0..Lag,
           overtaken : BOOLEAN]

At(at, d) == [at |-> at, for |-> d, say |-> None, lag |-> 0, overtaken |-> FALSE]

Idle == At("idle", None)

Request == [by : Workers \cup {None}, for : Deliveries, payload : Payload, lag : 0..Lag]

Key == [payload : Payload \cup {None}, age : 0..KeyLife]

TypeOK ==
    /\ row \in [Deliveries -> Row]
    /\ to \in [Deliveries -> Addresses \cup {None}]
    /\ person \in [Deliveries -> {"present", "leaving", "clearing", "deleted"}]
    /\ lock \in Workers \cup {None}
    /\ sender \in [Workers -> Sender]
    /\ wire \subseteq Request
    /\ key \in [Deliveries -> Key]
    /\ inbox \in [Deliveries -> Nat]
    /\ asked \in [Deliveries -> SUBSET Payload]

\* A row as it is saved with the event it announces.
NewRow == [state |-> "pending", payload |-> None, tried |-> FALSE, age |-> 0]

Init ==
    /\ row = [d \in Deliveries |-> NewRow]
    /\ to \in [Deliveries -> Addresses \cup {None}]
    /\ person = [d \in Deliveries |-> "present"]
    /\ lock = None
    /\ sender = [w \in Workers |-> Idle]
    /\ wire = {}
    /\ key = [d \in Deliveries |-> [payload |-> None, age |-> KeyLife]]
    /\ inbox = [d \in Deliveries |-> 0]
    /\ asked = [d \in Deliveries |-> {}]

Open(d) == row[d].state \in OpenStates

\* The message that would be written now.
Current(d) ==
    IF to[d] = None THEN None
    ELSE [to |-> to[d], named |-> person[d] # "deleted"]

\* A finished row drops its payload.
Finished(r, end) == [r EXCEPT !.state = end, !.payload = None]

Save(d, r) == row' = [row EXCEPT ![d] = r]

Move(w, at, d) == sender' = [sender EXCEPT ![w] = At(at, d)]

\* The transaction of a check keeps the row locked until it commits.
RowLocked(d) == \E w \in Workers : sender[w].at = "checked" /\ sender[w].for = d

--------------------------------------------------------------------------------
\* The senders' lock.

\* Variant: the lock is not waited for.
TakeLockAnyway(w) ==
    /\ sender[w].at = "idle"
    /\ lock' = w
    /\ Move(w, "resting", None)
    /\ UNCHANGED <<database, wire, provider, asked>>

\* pg_try_advisory_xact_lock succeeds.
TakeLock(w) ==
    /\ sender[w].at = "idle"
    /\ lock = None
    /\ lock' = w
    /\ Move(w, "resting", None)
    /\ UNCHANGED <<database, wire, provider, asked>>

\* owner.execute succeeds: the connection that holds the lock still stands.
Look(w) ==
    /\ sender[w].at = "resting"
    /\ lock = w
    /\ Move(w, "looking", None)
    /\ UNCHANGED <<database, lock, wire, provider, asked>>

\* It does not, and the drain ends with an exception.
Disown(w) ==
    /\ sender[w].at = "resting"
    /\ lock # w
    /\ Move(w, "idle", None)
    /\ UNCHANGED <<database, lock, wire, provider, asked>>

\* No row is due, the limit of the drain is reached, or the process shuts down.
Rest(w) ==
    /\ sender[w].at \in {"resting", "looking"}
    /\ Move(w, "idle", None)
    /\ lock' = IF lock = w THEN None ELSE lock
    /\ UNCHANGED <<database, wire, provider, asked>>

\* The database ends the owner's connection; the worker notices at its next Look.
LoseLock ==
    /\ lock # None
    /\ lock' = None
    /\ UNCHANGED <<database, sender, wire, provider, asked>>

Unheard(w) == {IF r.by = w THEN [r EXCEPT !.by = None] ELSE r : r \in wire}

\* The process of a worker dies at any point.
Crash(w) ==
    /\ sender[w].at # "idle"
    /\ Move(w, "idle", None)
    /\ lock' = IF lock = w THEN None ELSE lock
    /\ wire' = Unheard(w)
    /\ UNCHANGED <<database, provider, asked>>

--------------------------------------------------------------------------------
\* The rest of an attempt, once the row was checked.

\* The checks are over: the worker will send p, unless its process dies.
Hold(w, p) == sender' = [sender EXCEPT ![w].at = "checked", ![w].say = p]

\* Variant: the attempt is counted only with its answer.
CommitUncounted(w) ==
    /\ sender[w].at = "checked"
    /\ Save(sender[w].for, [row[sender[w].for] EXCEPT !.payload = sender[w].say])
    /\ sender' = [sender EXCEPT ![w].at = "counted"]
    /\ UNCHANGED <<to, person, lock, wire, provider, asked>>

\* The message and the counted attempt are saved before the request begins.
CommitAttempt(w) ==
    LET d == sender[w].for IN
    /\ sender[w].at = "checked"
    /\ Save(d, [row[d] EXCEPT !.payload = sender[w].say, !.tried = TRUE])
    /\ sender' = [sender EXCEPT ![w].at = "counted"]
    /\ UNCHANGED <<to, person, lock, wire, provider, asked>>

\* The message is posted as it was checked, whatever has changed since.
Post(w) ==
    LET s == sender[w] IN
    /\ s.at = "counted"
    /\ wire' = wire \cup {[by |-> w, for |-> s.for, payload |-> s.say, lag |-> s.lag]}
    /\ asked' = [asked EXCEPT ![s.for] = @ \cup {s.say}]
    /\ Move(w, "waiting", s.for)
    /\ UNCHANGED <<database, lock, provider>>

\* The account that row d may name goes while a worker holds its message.
Overtake(d) ==
    sender' = [w \in Workers |->
        IF sender[w].at \in Sealed /\ sender[w].for = d
        THEN [sender[w] EXCEPT !.overtaken = TRUE]
        ELSE sender[w]]

--------------------------------------------------------------------------------
\* The provider and the network.

Remembered(d) == key[d].age < KeyLife

\* The request leaves the network; who still waits for it gets the answer.
Hear(r, answer) ==
    /\ wire' = wire \ {r}
    /\ sender' = IF r.by = None THEN sender ELSE [sender EXCEPT ![r.by] = At(answer, r.for)]

Accept(r) ==
    /\ ~ Remembered(r.for)
    /\ inbox' = [inbox EXCEPT ![r.for] = @ + 1]
    /\ key' = [key EXCEPT ![r.for] = [payload |-> r.payload, age |-> 0]]
    /\ Hear(r, "accepted")
    /\ UNCHANGED <<database, lock, asked>>

\* A remembered key repeats its answer, for the same request only.
Repeat(r) ==
    /\ Remembered(r.for)
    /\ key[r.for].payload = r.payload
    /\ Hear(r, "accepted")
    /\ UNCHANGED <<database, lock, provider, asked>>

Refuse(r) ==
    /\ Remembered(r.for) => key[r.for].payload # r.payload
    /\ Hear(r, "refused")
    /\ UNCHANGED <<database, lock, provider, asked>>

\* A retryable error, a concurrent request under the key, an accepted answer
\* without an id, or a request that is lost.
Busy(r) ==
    /\ Hear(r, "busy")
    /\ UNCHANGED <<database, lock, provider, asked>>

\* The worker stops waiting; the request may still arrive.
Timeout(w) ==
    /\ sender[w].at = "waiting"
    /\ Move(w, "busy", sender[w].for)
    /\ wire' = Unheard(w)
    /\ UNCHANGED <<database, lock, provider, asked>>

Older(age) == IF age < KeyLife THEN age + 1 ELSE age

Aged(r) == IF r.tried \/ r.payload # None THEN [r EXCEPT !.age = Older(@)] ELSE r

\* An hour passes, with no request older than Lag: "pressed" are the workers
\* that have looked at the retry window and not posted yet.
PassHour(pressed) ==
    /\ \A r \in wire : r.lag < Lag
    /\ \A w \in Workers : sender[w].at \in pressed => sender[w].lag < Lag
    /\ row' = [d \in Deliveries |-> Aged(row[d])]
    /\ wire' = {[r EXCEPT !.lag = @ + 1] : r \in wire}
    /\ sender' = [w \in Workers |->
          IF sender[w].at \in pressed THEN [sender[w] EXCEPT !.lag = @ + 1] ELSE sender[w]]
    /\ key' = [d \in Deliveries |-> [key[d] EXCEPT !.age = Older(@)]]
    /\ UNCHANGED <<to, person, lock, inbox, asked>>

--------------------------------------------------------------------------------
\* Accounts and preferences change while mail waits.

ChangeAddress(d) ==
    /\ to' \in {[to EXCEPT ![d] = a] : a \in Addresses \cup {None}}
    /\ UNCHANGED <<row, person, lock, sender, wire, provider, asked>>

\* The recipient's account is deleted, and its deliveries with it.
DeleteRecipient(d) ==
    /\ row[d].state # "deleted"
    /\ ~ RowLocked(d)
    /\ Save(d, Finished(row[d], "deleted"))
    /\ to' = [to EXCEPT ![d] = None]
    /\ UNCHANGED <<person, lock, sender, wire, provider, asked>>

--------------------------------------------------------------------------------
\* What both outboxes are checked for.

\* No interleaving of crashes, lost answers, late requests, senders and retries
\* gives a recipient the same message twice.
OneEmail == \A d \in Deliveries : inbox[d] <= 1

\* Every request made under one idempotency key is the same request.
OneContent == \A d \in Deliveries : \A p, q \in asked[d] : p = q

\* "sent" is only said of an email that the provider accepted.
SentMeansDelivered == \A d \in Deliveries : row[d].state = "sent" => inbox[d] = 1

\* The promise of MailPromise, seen in an outbox: the first counted attempt
\* begins a delivery, and the state of its row is the outcome.
Outcome(d) == IF Open(d) THEN "open" ELSE row[d].state

Promise == INSTANCE MailPromise WITH
    begun <- [d \in Deliveries |-> row[d].tried],
    arrived <- inbox,
    outcome <- [d \in Deliveries |-> Outcome(d)]

--------------------------------------------------------------------------------
\* Why they hold: an inductive invariant.

Engaged == {"prepared", "waiting"} \cup Sealed \cup Answers

\* A worker waits for one request at most, the one it is engaged with.
Listening ==
    /\ \A w \in Workers : sender[w].at \in Engaged => sender[w].for \in Deliveries
    /\ \A r \in wire :
        r.by # None => sender[r.by].at = "waiting" /\ sender[r.by].for = r.for
    /\ \A q, r \in wire : q.by = r.by /\ r.by # None => q = r

\* Only a counted attempt is requested, on its way, or answered.
Counted ==
    /\ \A d \in Deliveries : asked[d] # {} => row[d].tried
    /\ \A d \in Deliveries : inbox[d] > 0 => row[d].tried
    /\ \A r \in wire : row[r.for].tried
    /\ \A w \in Workers :
        sender[w].at \in {"counted", "waiting"} \cup Answers => row[sender[w].for].tried

\* A row is checked by one worker at a time, which will send what was attempted
\* before.
Checked ==
    /\ \A w \in Workers : sender[w].at = "checked" =>
        LET r == row[sender[w].for] IN
        /\ r.state = "sending"
        /\ r.payload # None
        /\ r.tried => sender[w].say = r.payload
    /\ \A v, w \in Workers :
        sender[v].at = "checked" /\ sender[w].at = "checked" /\ sender[v].for = sender[w].for
            => v = w

\* A counted message is the only one its row was or will be attempted with.
Counting ==
    /\ \A w \in Workers : sender[w].at \in Sealed => sender[w].say \in Payload
    /\ \A w \in Workers : sender[w].at = "counted" =>
        /\ asked[sender[w].for] \subseteq {sender[w].say}
        /\ row[sender[w].for].payload \in {sender[w].say, None}
    /\ \A v, w \in Workers :
        sender[v].at = "counted" /\ sender[w].at = "counted" /\ sender[v].for = sender[w].for
            => sender[v].say = sender[w].say

\* The provider has known the key for no longer than the row was attempted, and
\* each request on its way, or about to be, was begun within the window of an
\* accepted one.
InTime ==
    \A d \in Deliveries :
        /\ Remembered(d) => inbox[d] > 0
        /\ inbox[d] > 0 => key[d].age <= row[d].age
        /\ inbox[d] > 0 => \A r \in wire : r.for = d => key[d].age < Window + r.lag
        /\ inbox[d] > 0 => \A w \in Workers :
              sender[w].at \in Sealed /\ sender[w].for = d => key[d].age < Window + sender[w].lag

\* An attempted message is the one that is saved for the next attempt.
Saved ==
    \A d \in Deliveries :
        row[d].tried /\ row[d].payload # None => asked[d] \subseteq {row[d].payload}

\* An accepting answer is true.
Truthful ==
    \A w \in Workers : sender[w].at = "accepted" => inbox[sender[w].for] = 1

\* A held message that names an account which is gone was checked before the
\* account went.
NamesKnown ==
    \A w \in Workers :
        /\ sender[w].at \in Sealed
        /\ sender[w].say.named /\ person[sender[w].for] = "deleted"
        => sender[w].overtaken

DeliveryLedger ==
    /\ TypeOK
    /\ Listening
    /\ Counted
    /\ Checked
    /\ Counting
    /\ InTime
    /\ Saved
    /\ Truthful
    /\ OneEmail
    /\ OneContent
    /\ SentMeansDelivered

================================================================================
