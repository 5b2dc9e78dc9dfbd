--------------------------- MODULE AccountSession ---------------------------
(***************************************************************************)
(* Who a tab of the website shows as signed in.                            *)
(*                                                                         *)
(* All tabs of a browser share one stored provider session.  A tab shows   *)
(* an account only after the API has confirmed the session, and several    *)
(* things happen to it meanwhile: other tabs sign in and out, the token is *)
(* refreshed, an account is deactivated, a sign-in is closed half-way.     *)
(* Each of them starts a new generation of work in the tab                 *)
(* (AuthProvider.web.tsx); the answers of earlier generations are ignored, *)
(* but the conditional removals they began still run.                      *)
(*                                                                         *)
(* A session is a number: a sign-in makes a new one, a token refresh keeps *)
(* it (providerSessionIdentity).  The browser storage and the events of    *)
(* auth-js are modelled as supabase.web.ts uses them: a write and its      *)
(* event to the same tab are one step, other tabs hear of it later.        *)
(***************************************************************************)
EXTENDS Naturals, Sequences

CONSTANTS
    Tabs,
    Users,
    MaxSessions,   \* bound: provider sessions ever made
    UserOf,        \* the account a session belongs to
    Deactivatable, \* bound: accounts the API may come to refuse
    MaxTurns       \* bound: things the reader, the tokens or the API bring about

Sessions == 1 .. MaxSessions

ASSUME SessionAssumption == /\ MaxSessions \in Nat \ {0}
                            /\ UserOf \in [Sessions -> Users]
                            /\ Deactivatable \subseteq Users
                            /\ MaxTurns \in Nat

VARIABLES
    turns,       \* how much has been brought about
    stored,      \* the saved session, 0 when there is none
    deactivated, \* accounts the API refuses
    nextSession,
    observing,   \* tab -> its auth client is loaded and observed
    visible,     \* tab -> session shown as signed in, 0 for nobody
    op,          \* tab -> work of its current generation
    clears,      \* tab -> sessions it is about to remove, if still stored
    signOuts,    \* tab -> sessions it is about to sign out of, if still stored
    rejected,    \* tab -> sessions it will not accept any more
    events,      \* tab -> auth events it has not handled
    news,        \* rejections on their way: <<tab, session>>
    deact,       \* tab -> handling of a deactivation notice
    handoff,     \* tab -> sign-in that is about to store its session
    asked,       \* tab -> accounts it made authenticated requests for
    confirmed,   \* tab -> session whose check put it there
    astray,      \* tabs that lost track of the saved session since it last changed
    unsafe,      \* sessions signed out of, expired or rejected
    failed       \* sessions whose check failed

browser == <<stored, nextSession, astray>>
shown   == <<visible, confirmed>>
page    == <<observing, shown, op, asked>>
world   == <<deactivated, turns>>
pending == <<clears, signOuts>>
verdicts == <<unsafe, failed>>
vars == <<world, browser, page, pending, rejected, events, news, deact, handoff, verdicts>>

Initial == MaxSessions + 1     \* INITIAL_SESSION: the session saved by then

Work(k, x)  == [kind |-> k, s |-> x, verdict |-> "none", cur |-> 0]
Idle        == Work("idle", 0)
NoNotice    == [phase |-> "none", user |-> 0, s |-> 0, attempt |-> 0]
NoHandoff   == [phase |-> "none", s |-> 0, before |-> 0, disposed |-> FALSE]

(* A page that finds a saved session restores it; another skips sign-in.   *)
Loaded(saved) ==
    IF saved # 0
    THEN [observing |-> TRUE, op |-> Work("restore", 0), events |-> <<Initial>>]
    ELSE [observing |-> FALSE, op |-> Idle, events |-> <<>>]

Init ==
    /\ stored \in {0, 1}
    /\ deactivated = {}
    /\ nextSession = stored + 1
    /\ observing = [t \in Tabs |-> Loaded(stored).observing]
    /\ visible = [t \in Tabs |-> 0]
    /\ op = [t \in Tabs |-> Loaded(stored).op]
    /\ clears = [t \in Tabs |-> {}] /\ signOuts = [t \in Tabs |-> {}]
    /\ rejected = [t \in Tabs |-> {}]
    /\ events = [t \in Tabs |-> Loaded(stored).events]
    /\ news = {}
    /\ deact = [t \in Tabs |-> NoNotice]
    /\ handoff = [t \in Tabs |-> NoHandoff]
    /\ asked = [t \in Tabs |-> {}] /\ confirmed = [t \in Tabs |-> 0]
    /\ turns = 0 /\ astray = {} /\ unsafe = {} /\ failed = {}

Turn == turns < MaxTurns /\ turns' = turns + 1

SetOp(t, o)      == op' = [op EXCEPT ![t] = o]
-----------------------------------------------------------------------------
\* Variant: a tab that is busy takes up no other session.
AcceptIfIdle(t, x) ==
    IF x \in rejected[t] \/ op[t].kind \in {"check", "settle"}
    THEN UNCHANGED <<op, asked>>
    ELSE SetOp(t, Work("check", x)) /\ asked' = [asked EXCEPT ![t] = @ \cup {UserOf[x]}]

(* acceptSession, up to the request: a rejected session is ignored, any    *)
(* other begins a generation of its own.  Two checks of one token share    *)
(* their answer.                                                           *)
Accept(t, x) ==
    IF x \in rejected[t]
    THEN SetOp(t, Idle) /\ UNCHANGED asked
    ELSE /\ SetOp(t, IF op[t].kind = "check" /\ op[t].s = x THEN op[t] ELSE Work("check", x))
         /\ asked' = [asked EXCEPT ![t] = @ \cup {UserOf[x]}]

Hide(t) == /\ visible' = [visible EXCEPT ![t] = 0]
           /\ confirmed' = [confirmed EXCEPT ![t] = 0]

(* rejectProviderSession: this tab at once, the others when they hear.     *)
Reject(t, x) ==
    /\ rejected' = [rejected EXCEPT ![t] = @ \cup {x}]
    /\ news' = news \cup {<<u, x>> : u \in Tabs \ {t}}
    /\ unsafe' = unsafe \cup {x}

(* The other tabs hear of a session that was saved or removed here.  A tab *)
(* that has events of its own still to hear will follow those instead.     *)
Broadcast(t, e) ==
    /\ events' = [u \in Tabs |-> IF u # t /\ observing[u] THEN events[u] \o <<e>> ELSE events[u]]
    /\ astray' = IF events[t] # <<>> THEN {t} ELSE {}

(* The saved session is removed: the others hear of it, this tab is told   *)
(* at once and looks again.                                                *)
Reread == Work("reread", 0)

Remove(t) ==
    /\ stored' = 0
    /\ Broadcast(t, 0)
    /\ SetOp(t, Reread)

(* What a read of the storage finds; one that fails counts as nothing      *)
(* saved.                                                                  *)
Look == {stored, 0}

(* onAuthStateChange                                                       *)
NextEvent(t) ==
    /\ events[t] # <<>>
    /\ \E x \in IF Head(events[t]) = Initial THEN Look ELSE {Head(events[t])} :
        IF x = 0 THEN SetOp(t, Reread) /\ UNCHANGED asked
        ELSE IF x \in rejected[t] THEN UNCHANGED <<op, asked>>
        ELSE Accept(t, x)
    /\ events' = [events EXCEPT ![t] = Tail(@)]
    /\ UNCHANGED <<browser, world, observing, shown, pending, rejected,
                   news, deact, handoff, verdicts>>

(* The reader opens sign-in on a page that had skipped it.                 *)
Observe(t) ==
    /\ ~observing[t]
    /\ observing' = [observing EXCEPT ![t] = TRUE]
    /\ SetOp(t, Work("restore", 0))
    /\ events' = [events EXCEPT ![t] = <<Initial>>]
    /\ UNCHANGED <<browser, world, shown, asked, pending, rejected,
                   news, deact, handoff, verdicts>>

(* restoreAuthSession: five seconds at most.                               *)
Restore(t) ==
    /\ op[t].kind = "restore"
    /\ \/ stored # 0 /\ stored \notin rejected[t] /\ Accept(t, stored)
       \/ SetOp(t, Idle) /\ UNCHANGED asked
    /\ UNCHANGED <<browser, world, observing, shown, pending, rejected,
                   events, news, deact, handoff, verdicts>>

(* A read that fails leaves tab t with less than it should have learnt.    *)
StraysIf(missed, t) == astray' = IF missed THEN astray \cup {t} ELSE astray

(* validateAlethicalSession answers, and the tab looks at the storage.     *)
Verdict(t, v) ==
    LET x == op[t].s IN
    /\ op[t].kind = "check"
    /\ \E cur \in Look :
        /\ SetOp(t, IF x \in rejected[t] THEN Idle
                    ELSE [kind |-> "settle", s |-> x, verdict |-> v, cur |-> cur])
        /\ StraysIf(cur # stored, t)
    /\ UNCHANGED <<stored, nextSession, deactivated, observing, shown, asked, pending,
                   rejected, events, news, deact, handoff, verdicts>>

Answered(t) ==
    /\ Verdict(t, IF UserOf[op[t].s] \in deactivated THEN "deactivated" ELSE "ok")
    /\ UNCHANGED turns

CheckFails(t) == Turn /\ Verdict(t, "failed")

\* Variant: the session found is not asked whether it was rejected.
IgnoredIfOther(o, t) == o.cur # o.s

\* Variant: whatever session is found takes the answer.
IgnoredIfNone(o, t) == o.cur = 0 \/ o.cur \in rejected[t]

(* acceptSession, after the answer: the session must still be the saved    *)
(* one.  A session that failed its check is removed, and one of a          *)
(* deactivated account is rejected as well.                                *)
Ignored(o, t) == o.cur # o.s \/ o.cur \in rejected[t]

Settle(t) ==
    LET o == op[t] IN
    /\ o.kind = "settle"
    /\ \/ /\ Ignored(o, t)
          /\ SetOp(t, Idle)
          /\ UNCHANGED <<shown, clears, rejected, news, verdicts>>
       \/ /\ ~Ignored(o, t) /\ o.verdict = "ok"
          /\ visible' = [visible EXCEPT ![t] = o.cur]
          /\ confirmed' = [confirmed EXCEPT ![t] = o.s]
          /\ SetOp(t, Idle)
          /\ UNCHANGED <<clears, rejected, news, verdicts>>
       \/ /\ ~Ignored(o, t) /\ o.verdict = "deactivated"
          /\ Reject(t, o.s)
          /\ IF visible[t] = o.s THEN Hide(t)
             ELSE UNCHANGED shown
          /\ clears' = [clears EXCEPT ![t] = @ \cup {o.s}]
          /\ SetOp(t, Work("clear", o.s))
          /\ UNCHANGED failed
       \/ /\ ~Ignored(o, t) /\ o.verdict = "failed"
          /\ clears' = [clears EXCEPT ![t] = @ \cup {o.s}]
          /\ failed' = failed \cup {o.s}
          /\ SetOp(t, Work("clear", o.s))
          /\ UNCHANGED <<shown, rejected, news, unsafe>>
    /\ UNCHANGED <<browser, world, observing, asked, signOuts, events, deact, handoff>>

\* Variant: what is removed is not compared with what is saved.
HoldsAny(x) == stored # 0

(* sameProviderSessionLineage of the saved session and x.                  *)
Holds(x) == stored = x

(* clearSessionIfUnchanged, and the end of acceptSession when the removal  *)
(* began no generation of its own: another session is saved, or the        *)
(* storage fails, whatever is saved.                                       *)

Clear(t, x) ==
    /\ x \in clears[t]
    /\ clears' = [clears EXCEPT ![t] = @ \ {x}]
    /\ \/ /\ Holds(x)
          /\ Remove(t)
          /\ UNCHANGED shown
       \/ /\ IF op[t] = Work("clear", x)
             THEN /\ SetOp(t, Idle)
                  /\ IF visible[t] \in {0, x}
                     THEN Hide(t) /\ UNCHANGED astray
                     ELSE UNCHANGED shown /\ StraysIf(Holds(x), t)
             ELSE UNCHANGED <<op, shown, astray>>
          /\ UNCHANGED <<stored, events>>
    /\ UNCHANGED <<nextSession, world, observing, asked, signOuts, rejected,
                   news, deact, handoff, verdicts>>

(* An event said that nobody is signed in, or a sign-out found another     *)
(* session saved: the tab looks, and somebody may be signed in by now.     *)
Reconsider(t) ==
    /\ op[t].kind = "reread"
    /\ \E cur \in Look :
        IF cur # 0 THEN Accept(t, cur) /\ UNCHANGED shown
        ELSE Hide(t) /\ SetOp(t, Idle) /\ UNCHANGED asked
    /\ UNCHANGED <<browser, world, observing, pending, rejected, events, news,
                   deact, handoff, verdicts>>
-----------------------------------------------------------------------------
(* Signing out of the account this tab shows.                              *)

SignOut(t) ==
    /\ Turn
    /\ visible[t] # 0
    /\ SetOp(t, Work("signout", visible[t]))
    /\ signOuts' = [signOuts EXCEPT ![t] = @ \cup {visible[t]}]
    /\ unsafe' = unsafe \cup {visible[t]}
    /\ UNCHANGED <<browser, deactivated, observing, shown, asked, clears,
                   rejected, events, news, deact, handoff, failed>>

(* signOutSessionIfUnchanged.  An error ends it: the provider cannot be    *)
(* reached, or the storage cannot be read, whatever is saved.              *)
SignOutRuns(t, x) ==
    /\ x \in signOuts[t]
    /\ signOuts' = [signOuts EXCEPT ![t] = @ \ {x}]
    /\ \/ /\ Holds(x)
          /\ Remove(t)
       \/ /\ IF op[t] = Work("signout", x)
             THEN SetOp(t, Idle) /\ StraysIf(~Holds(x), t)
             ELSE UNCHANGED <<op, astray>>
          /\ UNCHANGED <<stored, events>>
       \/ /\ ~Holds(x)
          /\ IF op[t] = Work("signout", x) THEN SetOp(t, Reread) ELSE UNCHANGED op
          /\ UNCHANGED <<stored, astray, events>>
    /\ UNCHANGED <<nextSession, world, observing, shown, asked, clears,
                   rejected, news, deact, handoff, verdicts>>
-----------------------------------------------------------------------------
(* Signing in.  The new session was confirmed and replaces the one that    *)
(* was saved when the sign-in looked; closing the sign-in rejects it.      *)

Begin(t) ==
    /\ Turn
    /\ observing[t]
    /\ handoff[t].phase = "none"
    /\ nextSession \in Sessions
    /\ UserOf[nextSession] \notin deactivated
    /\ handoff' = [handoff EXCEPT ![t] =
                     [phase |-> "writing", s |-> nextSession, before |-> stored,
                      disposed |-> FALSE]]
    /\ nextSession' = nextSession + 1
    /\ UNCHANGED <<stored, astray, deactivated, page, pending, rejected, events, news, deact, verdicts>>

(* setSessionIfUnchanged saves it, finds another session saved, or fails,  *)
(* and then the new session is rejected.                                   *)
Store(t) ==
    LET h == handoff[t] IN
    /\ h.phase = "writing"
    /\ \/ /\ Holds(h.before)
          /\ stored' = h.s
          /\ Broadcast(t, h.s)
          /\ IF h.s \in rejected[t] THEN UNCHANGED <<op, asked>> ELSE Accept(t, h.s)
          /\ handoff' = [handoff EXCEPT ![t].phase = "written"]
          /\ UNCHANGED <<shown, rejected, news, unsafe>>
       \/ /\ ~Holds(h.before)
          /\ handoff' = [handoff EXCEPT ![t] = NoHandoff]
          /\ UNCHANGED <<stored, astray, events, op, asked, shown, rejected, news, unsafe>>
       \/ /\ Reject(t, h.s)
          /\ IF visible[t] = h.s THEN Hide(t) ELSE UNCHANGED shown
          /\ handoff' = [handoff EXCEPT ![t] = NoHandoff]
          /\ UNCHANGED <<stored, astray, events, op, asked>>
    /\ UNCHANGED <<nextSession, world, observing, pending, deact, failed>>

Dispose(t) ==
    /\ Turn
    /\ handoff[t].phase # "none" /\ ~handoff[t].disposed
    /\ handoff' = [handoff EXCEPT ![t].disposed = TRUE]
    /\ Reject(t, handoff[t].s)
    /\ IF visible[t] = handoff[t].s THEN Hide(t)
       ELSE UNCHANGED shown
    /\ UNCHANGED <<browser, deactivated, observing, op, asked, pending, events, deact,
                   failed>>

(* A closed sign-in takes back what it stored: the session saved before    *)
(* returns, or none, also when its return fails.                           *)
HandedOver(t) ==
    LET h == handoff[t] IN
    /\ h.phase = "written"
    /\ handoff' = [handoff EXCEPT ![t] = NoHandoff]
    /\ \/ ~h.disposed /\ UNCHANGED <<stored, astray, clears, events, op, asked>>
       \/ /\ h.disposed
          /\ clears' = [clears EXCEPT ![t] = @ \cup {h.s}]
          /\ UNCHANGED <<stored, astray, events, op, asked>>
       \/ /\ h.disposed /\ h.before # 0
          /\ IF Holds(h.s)
             THEN /\ stored' = h.before
                  /\ Broadcast(t, h.before)
                  /\ IF h.before \in rejected[t] THEN UNCHANGED <<op, asked>>
                     ELSE Accept(t, h.before)
             ELSE UNCHANGED <<stored, astray, events, op, asked>>
          /\ UNCHANGED clears
    /\ UNCHANGED <<nextSession, world, observing, shown, signOuts, rejected,
                   news, deact, verdicts>>

HeardNews(t, x) ==
    /\ <<t, x>> \in news
    /\ news' = news \ {<<t, x>>}
    /\ rejected' = [rejected EXCEPT ![t] = @ \cup {x}]
    /\ IF visible[t] = x THEN Hide(t) ELSE UNCHANGED shown
    /\ UNCHANGED <<browser, world, observing, op, asked, pending, events, deact,
                   handoff, verdicts>>
-----------------------------------------------------------------------------
(* An account is deactivated; any authenticated answer says so, also one   *)
(* to a request that was made for an earlier session of the tab.           *)

Deactivate(u) ==
    /\ Turn
    /\ u \in Deactivatable \ deactivated
    /\ deactivated' = deactivated \cup {u}
    /\ UNCHANGED <<browser, page, pending, rejected, events, news, deact, handoff, verdicts>>

Notice(t) ==
    /\ deact[t].phase = "none"
    /\ \E u \in asked[t] \cap deactivated :
        deact' = [deact EXCEPT ![t] = [phase |-> "read", user |-> u, s |-> 0, attempt |-> 0]]
    /\ UNCHANGED <<browser, world, page, pending, rejected, events, news, handoff, verdicts>>

Ending(u) == [phase |-> "end", user |-> u, s |-> 0, attempt |-> 0]

NoticeReads(t) ==
    LET d == deact[t] IN
    /\ d.phase = "read"
    /\ \E cur \in Look :
        IF cur # 0 /\ UserOf[cur] = d.user
        THEN /\ Reject(t, cur)
             /\ IF visible[t] = cur THEN Hide(t) ELSE UNCHANGED shown
             /\ deact' = [deact EXCEPT ![t].phase = "clear", ![t].s = cur]
        ELSE /\ deact' = [deact EXCEPT ![t] = Ending(d.user)]
             /\ UNCHANGED <<rejected, news, unsafe, shown>>
    /\ UNCHANGED <<browser, world, observing, op, asked, pending, events, handoff,
                   failed>>

NoticeClears(t) ==
    LET d == deact[t] IN
    /\ d.phase = "clear"
    /\ deact' = [deact EXCEPT ![t] =
                     IF d.attempt = 1 THEN Ending(d.user)
                     ELSE [phase |-> "read", user |-> d.user, s |-> 0, attempt |-> 1]]
    /\ \/ Holds(d.s) /\ Remove(t)
       \/ UNCHANGED <<stored, astray, events, op>>
    /\ UNCHANGED <<nextSession, world, observing, shown, asked, pending,
                   rejected, news, handoff, verdicts>>

NoticeEnds(t) ==
    LET d     == deact[t]
        match == visible[t] # 0 /\ UserOf[visible[t]] = d.user
    IN
    /\ d.phase = "end"
    /\ deact' = [deact EXCEPT ![t] = NoNotice]
    /\ IF match THEN Reject(t, visible[t]) /\ Hide(t)
       ELSE UNCHANGED <<rejected, news, unsafe, shown>>
    /\ UNCHANGED <<browser, world, observing, op, asked, pending, events, handoff,
                   failed>>
-----------------------------------------------------------------------------
\* Variant: a session goes by its token, so that a refresh makes another one.
RefreshRenames(t) ==
    /\ Turn
    /\ observing[t] /\ stored # 0
    /\ \A u \in Tabs : events[u] = <<>>
    /\ stored' = nextSession /\ nextSession' = nextSession + 1
    /\ Broadcast(t, stored)
    /\ UNCHANGED <<deactivated, page, pending, rejected, news, deact, handoff, verdicts>>

(* The auth client of a tab refreshes the token, or finds the session over.*)
Refresh(t) ==
    /\ Turn
    /\ observing[t] /\ stored # 0
    /\ \A u \in Tabs : events[u] = <<>>
    /\ Broadcast(t, stored)
    /\ IF stored \in rejected[t] THEN UNCHANGED <<op, asked>> ELSE Accept(t, stored)
    /\ UNCHANGED <<stored, nextSession, deactivated, observing, shown, pending, rejected, news,
                   deact, handoff, verdicts>>

Expire(t) ==
    /\ Turn
    /\ observing[t] /\ stored # 0
    /\ Remove(t)
    /\ unsafe' = unsafe \cup {stored}
    /\ UNCHANGED <<nextSession, deactivated, observing, shown, asked, pending,
                   rejected, news, deact, handoff, failed>>

(* The page is loaded again and knows nothing of what went before.         *)
Reload(t) ==
    /\ Turn
    /\ \E saved \in Look :
        /\ observing' = [observing EXCEPT ![t] = Loaded(saved).observing]
        /\ SetOp(t, Loaded(saved).op)
        /\ events' = [events EXCEPT ![t] = Loaded(saved).events]
    /\ Hide(t)
    /\ clears' = [clears EXCEPT ![t] = {}] /\ signOuts' = [signOuts EXCEPT ![t] = {}]
    /\ rejected' = [rejected EXCEPT ![t] = {}]
    /\ news' = {n \in news : n[1] # t}
    /\ deact' = [deact EXCEPT ![t] = NoNotice]
    /\ handoff' = [handoff EXCEPT ![t] = NoHandoff]
    /\ asked' = [asked EXCEPT ![t] = {}]
    /\ astray' = astray \ {t}
    /\ UNCHANGED <<stored, nextSession, deactivated, verdicts>>
-----------------------------------------------------------------------------
TabWork(t) ==
    \/ NextEvent(t) \/ Restore(t) \/ Answered(t) \/ Settle(t) \/ Reconsider(t)
    \/ \E x \in Sessions : Clear(t, x) \/ SignOutRuns(t, x) \/ HeardNews(t, x)
    \/ Store(t) \/ HandedOver(t)
    \/ NoticeReads(t) \/ NoticeClears(t) \/ NoticeEnds(t)

World(t) ==
    \/ Observe(t) \/ Notice(t) \/ SignOut(t) \/ Begin(t) \/ Dispose(t)
    \/ CheckFails(t) \/ Refresh(t) \/ Expire(t) \/ Reload(t)

Next ==
    \/ \E t \in Tabs : TabWork(t) \/ World(t)
    \/ \E u \in Users : Deactivate(u)

Spec == Init /\ [][Next]_vars
-----------------------------------------------------------------------------
Kinds == {"idle", "restore", "check", "settle", "clear", "reread", "signout"}

(* Every variable of the browser session has its type.                     *)
TypeOK ==
    /\ turns \in 0 .. MaxTurns /\ stored \in 0 .. MaxSessions
    /\ nextSession \in 1 .. MaxSessions + 1
    /\ deactivated \subseteq Users
    /\ observing \in [Tabs -> BOOLEAN]
    /\ visible \in [Tabs -> 0 .. MaxSessions]
    /\ op \in [Tabs -> [kind : Kinds, s : 0 .. MaxSessions,
                        verdict : {"none", "ok", "deactivated", "failed"},
                        cur : 0 .. MaxSessions]]
    /\ clears \in [Tabs -> SUBSET Sessions] /\ signOuts \in [Tabs -> SUBSET Sessions]
    /\ rejected \in [Tabs -> SUBSET Sessions]
    /\ events \in [Tabs -> Seq(0 .. Initial)]
    /\ news \subseteq Tabs \X Sessions
    /\ deact \in [Tabs -> [phase : {"none", "read", "clear", "end"}, user : Users \cup {0},
                           s : 0 .. MaxSessions, attempt : {0, 1}]]
    /\ handoff \in [Tabs -> [phase : {"none", "writing", "written"}, s : 0 .. MaxSessions,
                             before : 0 .. MaxSessions, disposed : BOOLEAN]]
    /\ asked \in [Tabs -> SUBSET Users] /\ confirmed \in [Tabs -> 0 .. MaxSessions]
    /\ astray \subseteq Tabs /\ unsafe \subseteq Sessions /\ failed \subseteq Sessions

(* A tab never shows a session that it was told to reject, however late    *)
(* the answers of earlier checks are.                                      *)
NothingRejectedShows == \A t \in Tabs : visible[t] \notin rejected[t]

(* A tab shows only sessions that the API confirmed to this very page.     *)
ShownWasConfirmed == \A t \in Tabs : visible[t] = confirmed[t]

Quiet(t) ==
    /\ op[t] = Idle /\ events[t] = <<>> /\ clears[t] = {} /\ signOuts[t] = {}
    /\ deact[t] = NoNotice /\ handoff[t] = NoHandoff
    /\ \A x \in Sessions : <<t, x>> \notin news

(* A tab that has nothing left to do shows the saved session or nobody,    *)
(* whatever the others are doing.  Left out are a tab that was told to     *)
(* reject the saved session, and one that lost track of it: it changed the *)
(* saved session with events still to hear, and the older event took the   *)
(* place of the check that would have settled it; or the storage failed,   *)
(* and its check, removal or sign-out learnt less than it should have.     *)
QuietTabsAgree ==
    \A t \in Tabs :
        Quiet(t) /\ t \notin astray /\ stored \notin rejected[t]
            => visible[t] \in {0, stored}

(* A session is removed from the browser only when it was itself signed    *)
(* out of, rejected, expired or failed its check: late work for one        *)
(* session never takes away a newer one.                                   *)
RemovedForCause ==
    [][stored # 0 /\ stored' = 0 => stored \in unsafe' \cup failed']_vars

(* A failed check, as opposed to a refusal, leaves the session saved for a *)
(* later retry.                                                            *)
KeptAfterFailure == [][stored # 0 /\ stored' = 0 => stored \in unsafe']_vars

=============================================================================
