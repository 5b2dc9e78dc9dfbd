------------------------ MODULE AccountSessionProofs ------------------------
(***************************************************************************)
(* Proofs about AccountSession, for any number of tabs, accounts and       *)
(* sessions, and without a bound on what is brought about.  What a tab     *)
(* shows is proved first; the last part is where it ends up.               *)
(***************************************************************************)
EXTENDS AccountSession, SequenceTheorems, TLAPS

(* Work that concerns a session names one, and so does a sign-in under way.*)
Ops == {o \in [kind : Kinds, s : 0 .. MaxSessions,
               verdict : {"none", "ok", "deactivated", "failed"}, cur : 0 .. MaxSessions] :
          o.kind \in {"check", "settle", "clear", "signout"} => o.s \in Sessions}

SignIns == {h \in [phase : {"none", "writing", "written"}, s : 0 .. MaxSessions,
                   before : 0 .. MaxSessions, disposed : BOOLEAN] :
              h.phase # "none" => h.s \in Sessions}

Notices == [phase : {"none", "read", "clear", "end"}, user : Users \cup {0},
            s : 0 .. MaxSessions, attempt : {0, 1}]

WorkTyped   == op \in [Tabs -> Ops] /\ asked \in [Tabs -> SUBSET Users]
ShownTyped  == /\ visible \in [Tabs -> 0 .. MaxSessions]
               /\ confirmed \in [Tabs -> 0 .. MaxSessions]
RejectTyped == /\ rejected \in [Tabs -> SUBSET Sessions]
               /\ news \subseteq Tabs \X Sessions
               /\ unsafe \subseteq Sessions
EventTyped  == events \in [Tabs -> Seq(0 .. Initial)] /\ astray \subseteq Tabs
PendTyped   == /\ clears \in [Tabs -> SUBSET Sessions] /\ signOuts \in [Tabs -> SUBSET Sessions]
               /\ failed \subseteq Sessions
SavedTyped  == /\ turns \in 0 .. MaxTurns /\ stored \in 0 .. MaxSessions
               /\ nextSession \in 1 .. MaxSessions + 1
               /\ deactivated \subseteq Users /\ observing \in [Tabs -> BOOLEAN]
ActorTyped  == /\ handoff \in [Tabs -> SignIns]
               /\ deact \in [Tabs -> Notices]

Typed == WorkTyped /\ ShownTyped /\ RejectTyped /\ EventTyped /\ PendTyped /\ SavedTyped
          /\ ActorTyped

(* Whatever is about to be removed is known to deserve it.                 *)
Accounted ==
    \A t \in Tabs :
        /\ clears[t] \subseteq unsafe \cup failed
        /\ signOuts[t] \subseteq unsafe
        /\ deact[t].phase = "clear" => deact[t].s \in unsafe
        /\ handoff[t].disposed => handoff[t].s \in unsafe

Inv == Typed /\ Accounted /\ NothingRejectedShows /\ ShownWasConfirmed
-----------------------------------------------------------------------------
(* What the helpers leave typed.                                           *)

(* A saved session is one that exists.                                     *)
LEMMA SavedIsSession == \A x \in 0 .. MaxSessions : x # 0 => x \in Sessions
BY SessionAssumption DEF Sessions

(* Work at a tab is an operation.                                          *)
LEMMA WorkIsOp ==
    /\ Idle \in Ops /\ Reread \in Ops /\ Work("restore", 0) \in Ops
    /\ \A x \in Sessions, k \in {"check", "clear", "signout"} : Work(k, x) \in Ops
PROOF
<1>1. /\ Idle \in Ops /\ Reread \in Ops /\ Work("restore", 0) \in Ops
  BY SessionAssumption DEF Ops, Idle, Reread, Work, Kinds
<1>2. ASSUME NEW x \in Sessions, NEW k \in {"check", "clear", "signout"}
      PROVE  Work(k, x) \in Ops
  BY SessionAssumption DEF Ops, Idle, Work, Kinds, Sessions
<1> QED
  BY <1>1, <1>2

(* Setting a tab's operation keeps the operations typed.                   *)
LEMMA SetOpTyped ==
    ASSUME WorkTyped, NEW t \in Tabs, NEW o \in Ops, SetOp(t, o)
    PROVE  op' \in [Tabs -> Ops]
BY DEF WorkTyped, SetOp

(* Accepting a session keeps the tab's state typed.                        *)
LEMMA AcceptTyped ==
    ASSUME WorkTyped, NEW t \in Tabs, NEW x \in Sessions, Accept(t, x)
    PROVE  WorkTyped'
PROOF
<1>1. asked' \in [Tabs -> SUBSET Users]
  BY SessionAssumption DEF WorkTyped, Accept
<1>2. op[t] \in Ops
  BY DEF WorkTyped
<1>3. op' \in [Tabs -> Ops]
  BY <1>2, SetOpTyped, WorkIsOp DEF Accept
<1> QED
  BY <1>1, <1>3 DEF WorkTyped

(* What a look at the browser's storage finds is a session or none.        *)
LEMMA LookTyped ==
    ASSUME SavedTyped
    PROVE  \A cur \in Look : cur \in 0 .. MaxSessions /\ (cur # 0 => cur \in Sessions)
BY SessionAssumption DEF SavedTyped, Look, Sessions

(* The event at the head of a queue speaks of a session or of none.        *)
LEMMA HeadTyped ==
    ASSUME EventTyped, SavedTyped, NEW t \in Tabs, events[t] # <<>>
    PROVE  \A x \in IF Head(events[t]) = Initial THEN Look ELSE {Head(events[t])} :
               x \in 0 .. MaxSessions
PROOF
<1>1. Head(events[t]) \in 0 .. Initial
  BY HeadTailProperties DEF EventTyped
<1>2. Head(events[t]) # Initial => Head(events[t]) \in 0 .. MaxSessions
  BY <1>1, SessionAssumption DEF Initial
<1> QED
  BY <1>2, LookTyped

(* The verdict of a look keeps the types.                                  *)
LEMMA VerdictTyped ==
    ASSUME WorkTyped, SavedTyped, NEW t \in Tabs,
           NEW v \in {"ok", "deactivated", "failed"}, Verdict(t, v)
    PROVE  WorkTyped'
PROOF
<1>1. op[t] \in Ops /\ op[t].s \in Sessions
  BY DEF WorkTyped, Verdict, Ops
<1>2. ASSUME NEW cur \in Look
      PROVE  [kind |-> "settle", s |-> op[t].s, verdict |-> v, cur |-> cur] \in Ops
  BY <1>1, LookTyped, SessionAssumption DEF Ops, Kinds, Sessions
<1>3. op' \in [Tabs -> Ops]
  BY <1>2, WorkIsOp, SetOpTyped DEF Verdict
<1> QED
  BY <1>3 DEF WorkTyped, Verdict

(* A check that is to be settled concerns a session.                       *)
LEMMA SettleConcerns ==
    ASSUME WorkTyped, NEW t \in Tabs, op[t].kind = "settle"
    PROVE  op[t].s \in Sessions
BY DEF WorkTyped, Ops

(* Hiding the account keeps the types.                                     *)
LEMMA HideTyped ==
    ASSUME ShownTyped, NEW t \in Tabs, Hide(t)
    PROVE  ShownTyped'
BY SessionAssumption DEF ShownTyped, Hide

(* A rejection adds its session to the unsafe ones.                        *)
LEMMA RejectStays ==
    ASSUME RejectTyped, NEW t \in Tabs, NEW x \in Sessions, Reject(t, x)
    PROVE  RejectTyped' /\ unsafe \subseteq unsafe' /\ x \in unsafe'
BY DEF RejectTyped, Reject

(* What is broadcast to the other tabs keeps their queues typed.           *)
LEMMA BroadcastTyped ==
    ASSUME EventTyped, SavedTyped, NEW t \in Tabs, NEW e \in 0 .. MaxSessions, Broadcast(t, e)
    PROVE  EventTyped'
PROOF
<1>1. e \in 0 .. Initial
  BY SessionAssumption DEF Initial
<1>2. ASSUME NEW u \in Tabs PROVE events[u] \o <<e>> \in Seq(0 .. Initial)
  BY <1>1 DEF EventTyped
<1>3. events' \in [Tabs -> Seq(0 .. Initial)]
  BY <1>2 DEF Broadcast, EventTyped
<1> QED
  BY <1>3 DEF Broadcast, EventTyped

(* Removing the stored session keeps the types.                            *)
LEMMA RemoveTyped ==
    ASSUME Typed, NEW t \in Tabs, Remove(t)
    PROVE  stored' = 0 /\ EventTyped' /\ op' \in [Tabs -> Ops]
PROOF
<1>1. 0 \in 0 .. MaxSessions
  BY SessionAssumption
<1> QED
  BY <1>1, BroadcastTyped, SetOpTyped, WorkIsOp DEF Remove, Typed

(* A page that was loaded has the state of a new tab.                      *)
LEMMA LoadedTyped ==
    ASSUME NEW saved
    PROVE  /\ Loaded(saved).observing \in BOOLEAN /\ Loaded(saved).op \in Ops
           /\ Loaded(saved).events \in Seq(0 .. Initial)
PROOF
<1>1. Initial \in 0 .. Initial
  BY SessionAssumption DEF Initial
<1>2. <<Initial>> \in Seq(0 .. Initial) /\ <<>> \in Seq(0 .. Initial)
  BY <1>1
<1> QED
  BY <1>2, WorkIsOp DEF Loaded

(* A notice that is about to end is a notice.                              *)
LEMMA EndingTyped ==
    ASSUME NEW d \in Notices
    PROVE  Ending(d.user) \in Notices
BY SessionAssumption DEF Notices, Ending

(* The types of the proof are those of the specification.                  *)
LEMMA TypedImpliesTypeOK == ASSUME Typed PROVE TypeOK
BY DEF Typed, TypeOK, WorkTyped, ShownTyped, RejectTyped, EventTyped, PendTyped, SavedTyped,
       ActorTyped, Ops, SignIns, Notices
-----------------------------------------------------------------------------
(* The types are kept.                                                     *)

(* Every step keeps the types.                                             *)
LEMMA TypedStep ==
    ASSUME Typed, [Next]_vars
    PROVE  Typed'
PROOF
<1>1. ASSUME NEW t \in Tabs, NextEvent(t) PROVE Typed'
  <2>1. WorkTyped'
    <3>1. PICK x \in IF Head(events[t]) = Initial THEN Look ELSE {Head(events[t])} :
            IF x = 0 THEN SetOp(t, Reread) /\ UNCHANGED asked
            ELSE IF x \in rejected[t] THEN UNCHANGED <<op, asked>>
            ELSE Accept(t, x)
      BY <1>1 DEF NextEvent
    <3>2. x # 0 => x \in Sessions
      BY <1>1, <3>1, HeadTyped, SavedIsSession DEF NextEvent, Typed
    <3> QED
      BY <3>1, <3>2, WorkIsOp, SetOpTyped, AcceptTyped DEF Typed, WorkTyped
  <2>2. EventTyped'
    BY <1>1, BroadcastTyped DEF NextEvent, Typed, EventTyped, browser, vars
  <2>3. ShownTyped' /\ RejectTyped' /\ PendTyped' /\ SavedTyped' /\ ActorTyped'
    BY <1>1 DEF NextEvent, Typed, ShownTyped, RejectTyped, PendTyped, SavedTyped,
       ActorTyped, browser, page, pending, shown, vars, verdicts, world
  <2> QED
    BY <2>1, <2>2, <2>3 DEF Typed
<1>2. ASSUME NEW t \in Tabs, Observe(t) PROVE Typed'
  <2>1. WorkTyped'
    BY <1>2, WorkIsOp, SetOpTyped, AcceptTyped DEF Observe, Typed, WorkTyped, page, vars
  <2>2. EventTyped'
    BY <1>2, BroadcastTyped, SessionAssumption DEF Observe, Typed, EventTyped, Initial,
       browser, vars
  <2>3. SavedTyped'
    BY <1>2, SessionAssumption DEF Observe, Typed, SavedTyped, Turn, Remove, browser, world,
       page, vars
  <2>4. ShownTyped' /\ RejectTyped' /\ PendTyped' /\ ActorTyped'
    BY <1>2 DEF Observe, Typed, ShownTyped, RejectTyped, PendTyped, ActorTyped, page,
       pending, shown, vars, verdicts
  <2> QED
    BY <2>1, <2>2, <2>3, <2>4 DEF Typed
<1>3. ASSUME NEW t \in Tabs, Restore(t) PROVE Typed'
  <2>1. WorkTyped'
    BY <1>3, WorkIsOp, SetOpTyped, AcceptTyped, SessionAssumption DEF Restore, Typed,
       WorkTyped, SavedTyped, Sessions, page, vars
  <2>2. ShownTyped' /\ RejectTyped' /\ EventTyped' /\ PendTyped' /\ SavedTyped' /\ ActorTyped'
    BY <1>3 DEF Restore, Typed, ShownTyped, RejectTyped, EventTyped, PendTyped, SavedTyped,
       ActorTyped, browser, page, pending, shown, vars, verdicts, world
  <2> QED
    BY <2>1, <2>2 DEF Typed
<1>4. ASSUME NEW t \in Tabs, Answered(t) PROVE Typed'
  <2>1. WorkTyped'
    BY <1>4, WorkIsOp, SetOpTyped, AcceptTyped, VerdictTyped DEF Answered, Typed, WorkTyped,
       page, vars
  <2>2. SavedTyped'
    BY <1>4, SessionAssumption DEF Answered, Typed, SavedTyped, Turn, Remove, Verdict,
       browser, world, page, vars
  <2>3. ShownTyped' /\ RejectTyped' /\ EventTyped' /\ PendTyped' /\ ActorTyped'
    BY <1>4 DEF Answered, Verdict, StraysIf, Typed, ShownTyped, RejectTyped, EventTyped, PendTyped,
       ActorTyped, browser, page, pending, shown, vars, verdicts
  <2> QED
    BY <2>1, <2>2, <2>3 DEF Typed
<1>5. ASSUME NEW t \in Tabs, CheckFails(t) PROVE Typed'
  <2>1. WorkTyped'
    BY <1>5, WorkIsOp, SetOpTyped, AcceptTyped, VerdictTyped DEF CheckFails, Typed,
       WorkTyped, page, vars
  <2>2. SavedTyped'
    BY <1>5, SessionAssumption DEF CheckFails, Typed, SavedTyped, Turn, Remove, Verdict,
       browser, world, page, vars
  <2>3. ShownTyped' /\ RejectTyped' /\ EventTyped' /\ PendTyped' /\ ActorTyped'
    BY <1>5 DEF CheckFails, Verdict, StraysIf, Typed, ShownTyped, RejectTyped, EventTyped, PendTyped,
       ActorTyped, browser, page, pending, shown, vars, verdicts
  <2> QED
    BY <2>1, <2>2, <2>3 DEF Typed
<1>6. ASSUME NEW t \in Tabs, Settle(t) PROVE Typed'
  <2>1. WorkTyped'
    BY <1>6, WorkIsOp, SetOpTyped, AcceptTyped DEF Settle, Typed, WorkTyped, Ops, page, vars
  <2>2. ShownTyped'
    BY <1>6, HideTyped, SessionAssumption DEF Settle, Typed, ShownTyped, WorkTyped, Ops,
       page, shown, vars
  <2>3. RejectTyped'
    BY <1>6, RejectStays DEF Settle, Typed, RejectTyped, WorkTyped, Ops, verdicts, vars
  <2>4. PendTyped'
    BY <1>6, SessionAssumption, SettleConcerns DEF Settle, Typed, PendTyped, pending,
       verdicts, vars
  <2>5. EventTyped' /\ SavedTyped' /\ ActorTyped'
    BY <1>6 DEF Settle, Typed, EventTyped, SavedTyped, ActorTyped, browser, page, vars, world
  <2> QED
    BY <2>1, <2>2, <2>3, <2>4, <2>5 DEF Typed
<1>7. ASSUME NEW t \in Tabs, NEW x \in Sessions, Clear(t, x) PROVE Typed'
  <2>1. WorkTyped'
    BY <1>7, WorkIsOp, SetOpTyped, AcceptTyped, RemoveTyped DEF Clear, Typed, WorkTyped,
       page, vars
  <2>2. ShownTyped'
    BY <1>7, HideTyped, SessionAssumption DEF Clear, Typed, ShownTyped, page, shown, vars
  <2>3. EventTyped'
    BY <1>7, BroadcastTyped, RemoveTyped DEF Clear, StraysIf, Typed, EventTyped, browser, vars
  <2>4. PendTyped'
    BY <1>7, SessionAssumption DEF Clear, Typed, PendTyped, pending, verdicts, vars
  <2>5. SavedTyped'
    BY <1>7, SessionAssumption DEF Clear, Typed, SavedTyped, Turn, Remove, browser, world,
       page, vars
  <2>6. RejectTyped' /\ ActorTyped'
    BY <1>7 DEF Clear, Typed, RejectTyped, ActorTyped, vars, verdicts
  <2> QED
    BY <2>1, <2>2, <2>3, <2>4, <2>5, <2>6 DEF Typed
<1>8. ASSUME NEW t \in Tabs, Reconsider(t) PROVE Typed'
  <2>1. WorkTyped'
    BY <1>8, WorkIsOp, SetOpTyped, AcceptTyped, LookTyped DEF Reconsider, Typed, WorkTyped,
       page, vars
  <2>2. ShownTyped'
    BY <1>8, HideTyped, SessionAssumption DEF Reconsider, Typed, ShownTyped, page, shown, vars
  <2>3. RejectTyped' /\ EventTyped' /\ PendTyped' /\ SavedTyped' /\ ActorTyped'
    BY <1>8 DEF Reconsider, Typed, RejectTyped, EventTyped, PendTyped, SavedTyped,
       ActorTyped, browser, page, pending, vars, verdicts, world
  <2> QED
    BY <2>1, <2>2, <2>3 DEF Typed
<1>9. ASSUME NEW t \in Tabs, SignOut(t) PROVE Typed'
  <2>1. WorkTyped'
    BY <1>9, WorkIsOp, SetOpTyped, AcceptTyped, SavedIsSession DEF SignOut, Typed,
       WorkTyped, ShownTyped, page, vars
  <2>2. RejectTyped'
    BY <1>9, RejectStays, SavedIsSession DEF SignOut, Typed, RejectTyped, ShownTyped,
       verdicts, vars
  <2>3. PendTyped'
    BY <1>9, SessionAssumption DEF SignOut, Typed, PendTyped, ShownTyped, Sessions, pending,
       verdicts, vars
  <2>4. SavedTyped'
    BY <1>9, SessionAssumption DEF SignOut, Typed, SavedTyped, Turn, Remove, browser, world,
       page, vars
  <2>5. ShownTyped' /\ EventTyped' /\ ActorTyped'
    BY <1>9 DEF SignOut, Typed, ShownTyped, EventTyped, ActorTyped, browser, page, shown, vars
  <2> QED
    BY <2>1, <2>2, <2>3, <2>4, <2>5 DEF Typed
<1>10. ASSUME NEW t \in Tabs, NEW x \in Sessions, SignOutRuns(t, x) PROVE Typed'
  <2>1. WorkTyped'
    BY <1>10, WorkIsOp, SetOpTyped, AcceptTyped, RemoveTyped DEF SignOutRuns, Typed,
       WorkTyped, page, vars
  <2>2. EventTyped'
    BY <1>10, BroadcastTyped, RemoveTyped DEF SignOutRuns, StraysIf, Typed, EventTyped, browser, vars
  <2>3. PendTyped'
    BY <1>10, SessionAssumption DEF SignOutRuns, Typed, PendTyped, pending, verdicts, vars
  <2>4. SavedTyped'
    BY <1>10, SessionAssumption DEF SignOutRuns, Typed, SavedTyped, Turn, Remove, browser,
       world, page, vars
  <2>5. ShownTyped' /\ RejectTyped' /\ ActorTyped'
    BY <1>10 DEF SignOutRuns, Typed, ShownTyped, RejectTyped, ActorTyped, page, shown, vars,
       verdicts
  <2> QED
    BY <2>1, <2>2, <2>3, <2>4, <2>5 DEF Typed
<1>11. ASSUME NEW t \in Tabs, Begin(t) PROVE Typed'
  <2>1. SavedTyped'
    BY <1>11, SessionAssumption DEF Begin, Typed, SavedTyped, Turn, Remove, Sessions,
       browser, world, page, vars
  <2>2. ActorTyped'
    BY <1>11, SessionAssumption DEF Begin, Typed, ActorTyped, SignIns, Notices, SavedTyped,
       Sessions, NoHandoff, vars
  <2>3. WorkTyped' /\ ShownTyped' /\ RejectTyped' /\ EventTyped' /\ PendTyped'
    BY <1>11 DEF Begin, Typed, WorkTyped, ShownTyped, RejectTyped, EventTyped, PendTyped,
       browser, page, pending, shown, vars, verdicts
  <2> QED
    BY <2>1, <2>2, <2>3 DEF Typed
<1>12. ASSUME NEW t \in Tabs, Store(t) PROVE Typed'
  <2>1. WorkTyped'
    BY <1>12, WorkIsOp, SetOpTyped, AcceptTyped DEF Store, Typed, WorkTyped, ActorTyped,
       SignIns, NoHandoff, page, vars
  <2>2. EventTyped'
    BY <1>12, BroadcastTyped DEF Store, Typed, EventTyped, ActorTyped, SignIns, browser, vars
  <2>3. SavedTyped'
    BY <1>12, SessionAssumption DEF Store, Typed, SavedTyped, Turn, Remove, ActorTyped,
       SignIns, browser, world, page, vars
  <2>4. ActorTyped'
    <3>1. handoff[t] \in SignIns
      BY DEF Typed, ActorTyped
    <3>2. handoff[t].phase = "writing" => [handoff[t] EXCEPT !.phase = "written"] \in SignIns
      BY <3>1 DEF SignIns
    <3>3. NoHandoff \in SignIns
      BY SessionAssumption DEF SignIns, NoHandoff
    <3> QED
      BY <1>12, <3>2, <3>3 DEF Store, Typed, ActorTyped
  <2>5. ShownTyped'
    BY <1>12, HideTyped DEF Store, Typed, ShownTyped, shown
  <2>6. RejectTyped'
    BY <1>12, RejectStays DEF Store, Typed, RejectTyped, ActorTyped, SignIns
  <2>7. PendTyped'
    BY <1>12 DEF Store, Typed, PendTyped, pending
  <2> QED
    BY <2>1, <2>2, <2>3, <2>4, <2>5, <2>6, <2>7 DEF Typed
<1>13. ASSUME NEW t \in Tabs, Dispose(t) PROVE Typed'
  <2>1. ShownTyped'
    BY <1>13, HideTyped, SessionAssumption DEF Dispose, Typed, ShownTyped, page, shown, vars
  <2>2. RejectTyped'
    BY <1>13, RejectStays DEF Dispose, Typed, RejectTyped, ActorTyped, SignIns, verdicts, vars
  <2>3. SavedTyped'
    BY <1>13, SessionAssumption DEF Dispose, Typed, SavedTyped, Turn, Remove, browser,
       world, page, vars
  <2>4. ActorTyped'
    <3>1. handoff[t] \in SignIns /\ deact' = deact
      BY <1>13 DEF Dispose, Typed, ActorTyped
    <3>2. [handoff[t] EXCEPT !.disposed = TRUE] \in SignIns
      BY <3>1 DEF SignIns
    <3>3. handoff' = [handoff EXCEPT ![t] = [handoff[t] EXCEPT !.disposed = TRUE]]
      BY <1>13 DEF Dispose
    <3> QED
      BY <3>1, <3>2, <3>3 DEF Typed, ActorTyped
  <2>5. WorkTyped' /\ EventTyped' /\ PendTyped'
    BY <1>13 DEF Dispose, Typed, WorkTyped, EventTyped, PendTyped, browser, page, pending,
       vars, verdicts
  <2> QED
    BY <2>1, <2>2, <2>3, <2>4, <2>5 DEF Typed
<1>14. ASSUME NEW t \in Tabs, HandedOver(t) PROVE Typed'
  <2>1. WorkTyped'
    BY <1>14, WorkIsOp, SetOpTyped, AcceptTyped DEF HandedOver, Typed, WorkTyped,
       ActorTyped, SignIns, Sessions, page, vars
  <2>2. EventTyped'
    BY <1>14, BroadcastTyped DEF HandedOver, Typed, EventTyped, ActorTyped, SignIns,
       browser, vars
  <2>3. PendTyped'
    BY <1>14, SessionAssumption DEF HandedOver, Typed, PendTyped, ActorTyped, SignIns,
       NoHandoff, pending, verdicts, vars
  <2>4. SavedTyped'
    BY <1>14, SessionAssumption DEF HandedOver, Typed, SavedTyped, Turn, Remove, ActorTyped,
       SignIns, browser, world, page, vars
  <2>5. ActorTyped'
    BY <1>14, SessionAssumption DEF HandedOver, Typed, ActorTyped, SignIns, Notices,
       NoHandoff, vars
  <2>6. ShownTyped' /\ RejectTyped'
    BY <1>14 DEF HandedOver, Typed, ShownTyped, RejectTyped, page, shown, vars, verdicts
  <2> QED
    BY <2>1, <2>2, <2>3, <2>4, <2>5, <2>6 DEF Typed
<1>15. ASSUME NEW t \in Tabs, NEW x \in Sessions, HeardNews(t, x) PROVE Typed'
  <2>1. ShownTyped'
    BY <1>15, HideTyped, SessionAssumption DEF HeardNews, Typed, ShownTyped, page, shown, vars
  <2>2. RejectTyped'
    BY <1>15, RejectStays DEF HeardNews, Typed, RejectTyped, verdicts, vars
  <2>3. WorkTyped' /\ EventTyped' /\ PendTyped' /\ SavedTyped' /\ ActorTyped'
    BY <1>15 DEF HeardNews, Typed, WorkTyped, EventTyped, PendTyped, SavedTyped, ActorTyped,
       browser, page, pending, vars, verdicts, world
  <2> QED
    BY <2>1, <2>2, <2>3 DEF Typed
<1>16. ASSUME NEW u \in Users, Deactivate(u) PROVE Typed'
  <2>1. SavedTyped'
    BY <1>16, SessionAssumption DEF Deactivate, Typed, SavedTyped, Turn, Remove, browser,
       world, page, vars
  <2>2. WorkTyped' /\ ShownTyped' /\ RejectTyped' /\ EventTyped' /\ PendTyped' /\ ActorTyped'
    BY <1>16 DEF Deactivate, Typed, WorkTyped, ShownTyped, RejectTyped, EventTyped,
       PendTyped, ActorTyped, browser, page, pending, shown, vars, verdicts
  <2> QED
    BY <2>1, <2>2 DEF Typed
<1>17. ASSUME NEW t \in Tabs, Notice(t) PROVE Typed'
  <2>1. ActorTyped'
    BY <1>17, SessionAssumption DEF Notice, Typed, ActorTyped, SignIns, Notices, NoNotice,
       WorkTyped, vars
  <2>2. WorkTyped' /\ ShownTyped' /\ RejectTyped' /\ EventTyped' /\ PendTyped' /\ SavedTyped'
    BY <1>17 DEF Notice, Typed, WorkTyped, ShownTyped, RejectTyped, EventTyped, PendTyped,
       SavedTyped, browser, page, pending, shown, vars, verdicts, world
  <2> QED
    BY <2>1, <2>2 DEF Typed
<1>18. ASSUME NEW t \in Tabs, NoticeReads(t) PROVE Typed'
  <2>1. ShownTyped'
    BY <1>18, HideTyped, SessionAssumption DEF NoticeReads, Typed, ShownTyped, page, shown, vars
  <2>2. RejectTyped'
    BY <1>18, RejectStays, LookTyped DEF NoticeReads, Typed, RejectTyped
  <2>3. ActorTyped'
    <3>1. deact[t] \in Notices
      BY DEF Typed, ActorTyped
    <3>2. /\ \A cur \in Look : [deact[t] EXCEPT !.phase = "clear", !.s = cur] \in Notices
          /\ Ending(deact[t].user) \in Notices
      BY <3>1, LookTyped, EndingTyped DEF Notices, Typed
    <3>3. \/ \E cur \in Look : deact' = [deact EXCEPT ![t] =
                                  [deact[t] EXCEPT !.phase = "clear", !.s = cur]]
          \/ deact' = [deact EXCEPT ![t] = Ending(deact[t].user)]
      BY <1>18 DEF NoticeReads
    <3>4. handoff' = handoff
      BY <1>18 DEF NoticeReads
    <3> QED
      BY <3>2, <3>3, <3>4 DEF Typed, ActorTyped
  <2>4. WorkTyped' /\ EventTyped' /\ PendTyped' /\ SavedTyped'
    BY <1>18 DEF NoticeReads, Typed, WorkTyped, EventTyped, PendTyped, SavedTyped, browser,
       page, pending, vars, verdicts, world
  <2> QED
    BY <2>1, <2>2, <2>3, <2>4 DEF Typed
<1>19. ASSUME NEW t \in Tabs, NoticeClears(t) PROVE Typed'
  <2>1. WorkTyped'
    BY <1>19, WorkIsOp, SetOpTyped, AcceptTyped, RemoveTyped DEF NoticeClears, Typed,
       WorkTyped, page, vars
  <2>2. EventTyped'
    BY <1>19, BroadcastTyped, RemoveTyped DEF NoticeClears, Typed, EventTyped, browser, vars
  <2>3. SavedTyped'
    BY <1>19, SessionAssumption DEF NoticeClears, Typed, SavedTyped, Turn, Remove, browser,
       world, page, vars
  <2>4. ActorTyped'
    <3>1. deact[t] \in Notices
      BY DEF Typed, ActorTyped
    <3>2. Ending(deact[t].user) \in Notices
      BY <3>1, EndingTyped
    <3>3. [phase |-> "read", user |-> deact[t].user, s |-> 0, attempt |-> 1] \in Notices
      BY <3>1, SessionAssumption DEF Notices
    <3> QED
      BY <1>19, <3>2, <3>3 DEF NoticeClears, Typed, ActorTyped
  <2>5. ShownTyped' /\ RejectTyped' /\ PendTyped'
    BY <1>19 DEF NoticeClears, Typed, ShownTyped, RejectTyped, PendTyped, page, pending,
       shown, vars, verdicts
  <2> QED
    BY <2>1, <2>2, <2>3, <2>4, <2>5 DEF Typed
<1>20. ASSUME NEW t \in Tabs, NoticeEnds(t) PROVE Typed'
  <2>1. ShownTyped'
    BY <1>20, HideTyped, SessionAssumption DEF NoticeEnds, Typed, ShownTyped, page, shown, vars
  <2>2. RejectTyped'
    BY <1>20, RejectStays, SavedIsSession DEF NoticeEnds, Typed, RejectTyped, ShownTyped,
       verdicts, vars
  <2>3. ActorTyped'
    BY <1>20, SessionAssumption DEF NoticeEnds, Typed, ActorTyped, SignIns, Notices,
       NoNotice, vars
  <2>4. WorkTyped' /\ EventTyped' /\ PendTyped' /\ SavedTyped'
    BY <1>20 DEF NoticeEnds, Typed, WorkTyped, EventTyped, PendTyped, SavedTyped, browser,
       page, pending, vars, verdicts, world
  <2> QED
    BY <2>1, <2>2, <2>3, <2>4 DEF Typed
<1>21. ASSUME NEW t \in Tabs, Refresh(t) PROVE Typed'
  <2>1. WorkTyped'
    BY <1>21, WorkIsOp, SetOpTyped, AcceptTyped, SessionAssumption DEF Refresh, Typed,
       WorkTyped, SavedTyped, Sessions, page, vars
  <2>2. EventTyped'
    BY <1>21, BroadcastTyped DEF Refresh, Typed, EventTyped, SavedTyped, browser, vars
  <2>3. SavedTyped'
    BY <1>21, SessionAssumption DEF Refresh, Typed, SavedTyped, Turn, Remove, browser,
       world, page, vars
  <2>4. ShownTyped' /\ RejectTyped' /\ PendTyped' /\ ActorTyped'
    BY <1>21 DEF Refresh, Typed, ShownTyped, RejectTyped, PendTyped, ActorTyped, page,
       pending, shown, vars, verdicts
  <2> QED
    BY <2>1, <2>2, <2>3, <2>4 DEF Typed
<1>22. ASSUME NEW t \in Tabs, Expire(t) PROVE Typed'
  <2>1. WorkTyped'
    BY <1>22, WorkIsOp, SetOpTyped, AcceptTyped, RemoveTyped DEF Expire, Typed, WorkTyped,
       page, vars
  <2>2. RejectTyped'
    BY <1>22, RejectStays DEF Expire, Typed, RejectTyped, SavedTyped, Sessions, verdicts, vars
  <2>3. EventTyped'
    BY <1>22, BroadcastTyped, RemoveTyped DEF Expire, Typed, EventTyped, browser, vars
  <2>4. SavedTyped'
    BY <1>22, SessionAssumption DEF Expire, Typed, SavedTyped, Turn, Remove, browser, world,
       page, vars
  <2>5. ShownTyped' /\ PendTyped' /\ ActorTyped'
    BY <1>22 DEF Expire, Typed, ShownTyped, PendTyped, ActorTyped, page, pending, shown,
       vars, verdicts
  <2> QED
    BY <2>1, <2>2, <2>3, <2>4, <2>5 DEF Typed
<1>23. ASSUME NEW t \in Tabs, Reload(t) PROVE Typed'
  <2>1. WorkTyped'
    BY <1>23, WorkIsOp, SetOpTyped, AcceptTyped, LoadedTyped DEF Reload, Typed, WorkTyped,
       page, vars
  <2>2. ShownTyped'
    BY <1>23, HideTyped, SessionAssumption DEF Reload, Typed, ShownTyped, page, shown, vars
  <2>3. RejectTyped'
    BY <1>23, RejectStays DEF Reload, Typed, RejectTyped, verdicts, vars
  <2>4. EventTyped'
    BY <1>23, BroadcastTyped, LoadedTyped DEF Reload, Typed, EventTyped, browser, vars
  <2>5. PendTyped'
    BY <1>23, SessionAssumption DEF Reload, Typed, PendTyped, pending, verdicts, vars
  <2>6. SavedTyped'
    BY <1>23, SessionAssumption, LoadedTyped DEF Reload, Typed, SavedTyped, Turn, Remove,
       browser, world, page, vars
  <2>7. ActorTyped'
    BY <1>23, SessionAssumption DEF Reload, Typed, ActorTyped, SignIns, Notices, NoHandoff,
       NoNotice, vars
  <2> QED
    BY <2>1, <2>2, <2>3, <2>4, <2>5, <2>6, <2>7 DEF Typed
<1>24. CASE UNCHANGED vars
  BY <1>24 DEF Typed, WorkTyped, ShownTyped, RejectTyped, EventTyped, PendTyped, SavedTyped,
     ActorTyped, browser, world, page, shown, pending, verdicts, vars
<1> QED
  BY <1>1, <1>2, <1>3, <1>4, <1>5, <1>6, <1>7, <1>8, <1>9, <1>10, <1>11, <1>12, <1>13,
     <1>14, <1>15, <1>16, <1>17, <1>18, <1>19, <1>20, <1>21, <1>22, <1>23, <1>24
  DEF Next, TabWork, World

-----------------------------------------------------------------------------
(* Whatever is about to be removed keeps its reason: no reason is forgotten.*)

(* Every step keeps what is about to be removed deserving of it.           *)
LEMMA AccountedStep ==
    ASSUME Typed, Accounted, [Next]_vars
    PROVE  Accounted'
PROOF
<1>1. ASSUME NEW t \in Tabs, NextEvent(t) PROVE Accounted'
  BY <1>1 DEF NextEvent, Typed, PendTyped, Accounted, pending, verdicts, vars
<1>2. ASSUME NEW t \in Tabs, Observe(t) PROVE Accounted'
  BY <1>2 DEF Observe, Typed, PendTyped, Accounted, pending, verdicts, vars
<1>3. ASSUME NEW t \in Tabs, Restore(t) PROVE Accounted'
  BY <1>3 DEF Restore, Typed, PendTyped, Accounted, pending, verdicts, vars
<1>4. ASSUME NEW t \in Tabs, Answered(t) PROVE Accounted'
  BY <1>4 DEF Answered, Typed, PendTyped, Verdict, Accounted, pending, verdicts, vars
<1>5. ASSUME NEW t \in Tabs, CheckFails(t) PROVE Accounted'
  BY <1>5 DEF CheckFails, Typed, PendTyped, Verdict, Accounted, pending, verdicts, vars
<1>6. ASSUME NEW t \in Tabs, Settle(t) PROVE Accounted'
  BY <1>6, RejectStays, SettleConcerns DEF Settle, Typed, PendTyped, Accounted, pending,
     verdicts, vars
<1>7. ASSUME NEW t \in Tabs, NEW x \in Sessions, Clear(t, x) PROVE Accounted'
  BY <1>7 DEF Clear, Typed, PendTyped, Accounted, pending, verdicts, vars
<1>8. ASSUME NEW t \in Tabs, Reconsider(t) PROVE Accounted'
  BY <1>8 DEF Reconsider, Typed, PendTyped, Accounted, pending, verdicts, vars
<1>9. ASSUME NEW t \in Tabs, SignOut(t) PROVE Accounted'
  BY <1>9 DEF SignOut, Typed, PendTyped, Accounted, pending, verdicts, vars
<1>10. ASSUME NEW t \in Tabs, NEW x \in Sessions, SignOutRuns(t, x) PROVE Accounted'
  BY <1>10 DEF SignOutRuns, Typed, PendTyped, Accounted, pending, verdicts, vars
<1>11. ASSUME NEW t \in Tabs, Begin(t) PROVE Accounted'
  BY <1>11 DEF Begin, Typed, ActorTyped, page, Accounted, pending, verdicts, vars
<1>12. ASSUME NEW t \in Tabs, Store(t) PROVE Accounted'
  <2>1. \A u \in Tabs : handoff'[u].disposed => /\ handoff[u].disposed
                                              /\ handoff'[u].s = handoff[u].s
    BY <1>12 DEF Store, Typed, ActorTyped, SignIns, NoHandoff
  <2>2. unsafe \subseteq unsafe'
    BY <1>12, RejectStays DEF Store, Typed, ActorTyped, SignIns
  <2> QED
    BY <1>12, <2>1, <2>2 DEF Store, Typed, Accounted, pending
<1>13. ASSUME NEW t \in Tabs, Dispose(t) PROVE Accounted'
  BY <1>13, RejectStays DEF Dispose, Typed, ActorTyped, SignIns, Accounted, pending,
     verdicts, vars
<1>14. ASSUME NEW t \in Tabs, HandedOver(t) PROVE Accounted'
  <2>1. \A u \in Tabs : handoff'[u].disposed => /\ handoff[u].disposed
                                              /\ handoff'[u].s = handoff[u].s
    BY <1>14 DEF HandedOver, Typed, ActorTyped, SignIns, NoHandoff
  <2> QED
    BY <1>14, <2>1 DEF HandedOver, Typed, PendTyped, Accounted, pending, verdicts, vars
<1>15. ASSUME NEW t \in Tabs, NEW x \in Sessions, HeardNews(t, x) PROVE Accounted'
  BY <1>15 DEF HeardNews, Typed, PendTyped, Accounted, pending, verdicts, vars
<1>16. ASSUME NEW u \in Users, Deactivate(u) PROVE Accounted'
  BY <1>16 DEF Deactivate, Typed, PendTyped, Accounted, pending, verdicts, vars
<1>17. ASSUME NEW t \in Tabs, Notice(t) PROVE Accounted'
  BY <1>17 DEF Notice, Typed, ActorTyped, Accounted, pending, verdicts, vars
<1>18. ASSUME NEW t \in Tabs, NoticeReads(t) PROVE Accounted'
  <2>1. /\ unsafe \subseteq unsafe' /\ failed' = failed
        /\ clears' = clears /\ signOuts' = signOuts /\ handoff' = handoff
    BY <1>18, RejectStays, LookTyped DEF NoticeReads, Typed, pending
  <2>2. \A u \in Tabs \ {t} : deact'[u] = deact[u]
    BY <1>18 DEF NoticeReads, Typed, ActorTyped
  <2>3. deact'[t].phase = "clear" => deact'[t].s \in unsafe'
    <3>1. PICK cur \in Look :
            IF cur # 0 /\ UserOf[cur] = deact[t].user
            THEN /\ Reject(t, cur)
                 /\ deact' = [deact EXCEPT ![t].phase = "clear", ![t].s = cur]
            ELSE deact' = [deact EXCEPT ![t] = Ending(deact[t].user)]
      BY <1>18 DEF NoticeReads
    <3>2. Ending(deact[t].user).phase # "clear"
      BY DEF Ending
    <3> QED
      BY <3>1, <3>2, RejectStays, LookTyped DEF Typed, ActorTyped, Notices
  <2> QED
    BY <2>1, <2>2, <2>3 DEF Accounted
<1>19. ASSUME NEW t \in Tabs, NoticeClears(t) PROVE Accounted'
  <2>1. \A u \in Tabs : deact'[u].phase = "clear" => deact'[u] = deact[u]
    BY <1>19 DEF NoticeClears, Typed, ActorTyped, Notices, Ending
  <2> QED
    BY <1>19, <2>1 DEF NoticeClears, Accounted, pending, verdicts
<1>20. ASSUME NEW t \in Tabs, NoticeEnds(t) PROVE Accounted'
  BY <1>20, RejectStays, SavedIsSession DEF NoticeEnds, Typed, ShownTyped, ActorTyped,
     Notices, NoNotice, Accounted, pending, verdicts, vars
<1>21. ASSUME NEW t \in Tabs, Refresh(t) PROVE Accounted'
  BY <1>21 DEF Refresh, Typed, PendTyped, Accounted, pending, verdicts, vars
<1>22. ASSUME NEW t \in Tabs, Expire(t) PROVE Accounted'
  BY <1>22 DEF Expire, Typed, PendTyped, Accounted, pending, verdicts, vars
<1>23. ASSUME NEW t \in Tabs, Reload(t) PROVE Accounted'
  BY <1>23 DEF Reload, Typed, PendTyped, ActorTyped, NoNotice, NoHandoff, Accounted,
     pending, verdicts, vars
<1>24. CASE UNCHANGED vars
  BY <1>24 DEF Accounted, pending, verdicts, vars
<1> QED
  BY <1>1, <1>2, <1>3, <1>4, <1>5, <1>6, <1>7, <1>8, <1>9, <1>10, <1>11, <1>12, <1>13,
     <1>14, <1>15, <1>16, <1>17, <1>18, <1>19, <1>20, <1>21, <1>22, <1>23, <1>24
  DEF Next, TabWork, World

-----------------------------------------------------------------------------
(* A rejected session is hidden at once where it is rejected.              *)

(* A tab that rejects the session it shows hides it.                       *)
LEMMA RejectHides ==
    ASSUME Typed, NothingRejectedShows, NEW t \in Tabs, NEW x \in Sessions, Reject(t, x),
           IF visible[t] = x THEN Hide(t) ELSE UNCHANGED shown
    PROVE  NothingRejectedShows'
BY DEF Typed, ShownTyped, RejectTyped, NothingRejectedShows, Reject, Hide, shown, Sessions

(* No step shows a session that its tab rejected.                          *)
LEMMA RejectedStep ==
    ASSUME Typed, NothingRejectedShows, [Next]_vars
    PROVE  NothingRejectedShows'
PROOF
<1>1. ASSUME NEW t \in Tabs, NextEvent(t) PROVE NothingRejectedShows'
  BY <1>1 DEF NextEvent, NothingRejectedShows, page, shown, vars
<1>2. ASSUME NEW t \in Tabs, Observe(t) PROVE NothingRejectedShows'
  BY <1>2 DEF Observe, NothingRejectedShows, page, shown, vars
<1>3. ASSUME NEW t \in Tabs, Restore(t) PROVE NothingRejectedShows'
  BY <1>3 DEF Restore, NothingRejectedShows, page, shown, vars
<1>4. ASSUME NEW t \in Tabs, Answered(t) PROVE NothingRejectedShows'
  BY <1>4 DEF Answered, Verdict, NothingRejectedShows, page, shown, vars
<1>5. ASSUME NEW t \in Tabs, CheckFails(t) PROVE NothingRejectedShows'
  BY <1>5 DEF CheckFails, Verdict, NothingRejectedShows, page, shown, vars
<1>6. ASSUME NEW t \in Tabs, Settle(t) PROVE NothingRejectedShows'
  BY <1>6, RejectHides, SettleConcerns DEF Settle, Typed, ShownTyped, WorkTyped, Ops,
     Ignored, NothingRejectedShows, page, shown, vars
<1>7. ASSUME NEW t \in Tabs, NEW x \in Sessions, Clear(t, x) PROVE NothingRejectedShows'
  BY <1>7 DEF Clear, Typed, ShownTyped, RejectTyped, Sessions, Hide, NothingRejectedShows,
     page, shown, vars
<1>8. ASSUME NEW t \in Tabs, Reconsider(t) PROVE NothingRejectedShows'
  BY <1>8 DEF Reconsider, Typed, ShownTyped, RejectTyped, Sessions, Hide,
     NothingRejectedShows, page, shown, vars
<1>9. ASSUME NEW t \in Tabs, SignOut(t) PROVE NothingRejectedShows'
  BY <1>9 DEF SignOut, NothingRejectedShows, page, shown, vars
<1>10. ASSUME NEW t \in Tabs, NEW x \in Sessions, SignOutRuns(t, x) PROVE NothingRejectedShows'
  BY <1>10 DEF SignOutRuns, NothingRejectedShows, page, shown, vars
<1>11. ASSUME NEW t \in Tabs, Begin(t) PROVE NothingRejectedShows'
  BY <1>11 DEF Begin, NothingRejectedShows, page, shown, vars
<1>12. ASSUME NEW t \in Tabs, Store(t) PROVE NothingRejectedShows'
  BY <1>12, RejectHides DEF Store, Typed, ActorTyped, SignIns, NothingRejectedShows, shown
<1>13. ASSUME NEW t \in Tabs, Dispose(t) PROVE NothingRejectedShows'
  BY <1>13, RejectHides DEF Dispose, Typed, ActorTyped, SignIns, NothingRejectedShows, page,
     shown, vars
<1>14. ASSUME NEW t \in Tabs, HandedOver(t) PROVE NothingRejectedShows'
  BY <1>14 DEF HandedOver, NothingRejectedShows, page, shown, vars
<1>15. ASSUME NEW t \in Tabs, NEW x \in Sessions, HeardNews(t, x) PROVE NothingRejectedShows'
  BY <1>15 DEF HeardNews, Typed, ShownTyped, RejectTyped, Sessions, Hide,
     NothingRejectedShows, page, shown, vars
<1>16. ASSUME NEW u \in Users, Deactivate(u) PROVE NothingRejectedShows'
  BY <1>16 DEF Deactivate, NothingRejectedShows, page, shown, vars
<1>17. ASSUME NEW t \in Tabs, Notice(t) PROVE NothingRejectedShows'
  BY <1>17 DEF Notice, NothingRejectedShows, page, shown, vars
<1>18. ASSUME NEW t \in Tabs, NoticeReads(t) PROVE NothingRejectedShows'
  BY <1>18, RejectHides, LookTyped DEF NoticeReads, Typed, NothingRejectedShows, shown
<1>19. ASSUME NEW t \in Tabs, NoticeClears(t) PROVE NothingRejectedShows'
  BY <1>19 DEF NoticeClears, NothingRejectedShows, page, shown, vars
<1>20. ASSUME NEW t \in Tabs, NoticeEnds(t) PROVE NothingRejectedShows'
  BY <1>20, RejectHides, SavedIsSession DEF NoticeEnds, Typed, ShownTyped,
     NothingRejectedShows, page, shown, vars
<1>21. ASSUME NEW t \in Tabs, Refresh(t) PROVE NothingRejectedShows'
  BY <1>21 DEF Refresh, NothingRejectedShows, page, shown, vars
<1>22. ASSUME NEW t \in Tabs, Expire(t) PROVE NothingRejectedShows'
  BY <1>22 DEF Expire, NothingRejectedShows, page, shown, vars
<1>23. ASSUME NEW t \in Tabs, Reload(t) PROVE NothingRejectedShows'
  BY <1>23 DEF Reload, Typed, ShownTyped, RejectTyped, Hide, NothingRejectedShows, page,
     shown, vars
<1>24. CASE UNCHANGED vars
  BY <1>24 DEF NothingRejectedShows, page, shown, vars
<1> QED
  BY <1>1, <1>2, <1>3, <1>4, <1>5, <1>6, <1>7, <1>8, <1>9, <1>10, <1>11, <1>12, <1>13,
     <1>14, <1>15, <1>16, <1>17, <1>18, <1>19, <1>20, <1>21, <1>22, <1>23, <1>24
  DEF Next, TabWork, World

-----------------------------------------------------------------------------
(* What is shown is what was checked.                                      *)

(* Every step keeps what is shown confirmed.                               *)
LEMMA ConfirmedStep ==
    ASSUME Typed, ShownWasConfirmed, [Next]_vars
    PROVE  ShownWasConfirmed'
PROOF
<1>1. ASSUME NEW t \in Tabs, NextEvent(t) PROVE ShownWasConfirmed'
  BY <1>1 DEF NextEvent, ShownWasConfirmed, page, shown, vars
<1>2. ASSUME NEW t \in Tabs, Observe(t) PROVE ShownWasConfirmed'
  BY <1>2 DEF Observe, ShownWasConfirmed, page, shown, vars
<1>3. ASSUME NEW t \in Tabs, Restore(t) PROVE ShownWasConfirmed'
  BY <1>3 DEF Restore, ShownWasConfirmed, page, shown, vars
<1>4. ASSUME NEW t \in Tabs, Answered(t) PROVE ShownWasConfirmed'
  BY <1>4 DEF Answered, Verdict, ShownWasConfirmed, page, shown, vars
<1>5. ASSUME NEW t \in Tabs, CheckFails(t) PROVE ShownWasConfirmed'
  BY <1>5 DEF CheckFails, Verdict, ShownWasConfirmed, page, shown, vars
<1>6. ASSUME NEW t \in Tabs, Settle(t) PROVE ShownWasConfirmed'
  BY <1>6 DEF Settle, Typed, ShownTyped, Ignored, Hide, ShownWasConfirmed, page, shown, vars
<1>7. ASSUME NEW t \in Tabs, NEW x \in Sessions, Clear(t, x) PROVE ShownWasConfirmed'
  BY <1>7 DEF Clear, Typed, ShownTyped, Hide, ShownWasConfirmed, page, shown, vars
<1>8. ASSUME NEW t \in Tabs, Reconsider(t) PROVE ShownWasConfirmed'
  BY <1>8 DEF Reconsider, Typed, ShownTyped, Hide, ShownWasConfirmed, page, shown, vars
<1>9. ASSUME NEW t \in Tabs, SignOut(t) PROVE ShownWasConfirmed'
  BY <1>9 DEF SignOut, ShownWasConfirmed, page, shown, vars
<1>10. ASSUME NEW t \in Tabs, NEW x \in Sessions, SignOutRuns(t, x) PROVE ShownWasConfirmed'
  BY <1>10 DEF SignOutRuns, ShownWasConfirmed, page, shown, vars
<1>11. ASSUME NEW t \in Tabs, Begin(t) PROVE ShownWasConfirmed'
  BY <1>11 DEF Begin, ShownWasConfirmed, page, shown, vars
<1>12. ASSUME NEW t \in Tabs, Store(t) PROVE ShownWasConfirmed'
  BY <1>12 DEF Store, Typed, ShownTyped, Hide, ShownWasConfirmed, shown
<1>13. ASSUME NEW t \in Tabs, Dispose(t) PROVE ShownWasConfirmed'
  BY <1>13 DEF Dispose, Typed, ShownTyped, Hide, ShownWasConfirmed, page, shown, vars
<1>14. ASSUME NEW t \in Tabs, HandedOver(t) PROVE ShownWasConfirmed'
  BY <1>14 DEF HandedOver, ShownWasConfirmed, page, shown, vars
<1>15. ASSUME NEW t \in Tabs, NEW x \in Sessions, HeardNews(t, x) PROVE ShownWasConfirmed'
  BY <1>15 DEF HeardNews, Typed, ShownTyped, Hide, ShownWasConfirmed, page, shown, vars
<1>16. ASSUME NEW u \in Users, Deactivate(u) PROVE ShownWasConfirmed'
  BY <1>16 DEF Deactivate, ShownWasConfirmed, page, shown, vars
<1>17. ASSUME NEW t \in Tabs, Notice(t) PROVE ShownWasConfirmed'
  BY <1>17 DEF Notice, ShownWasConfirmed, page, shown, vars
<1>18. ASSUME NEW t \in Tabs, NoticeReads(t) PROVE ShownWasConfirmed'
  BY <1>18 DEF NoticeReads, Typed, ShownTyped, Hide, ShownWasConfirmed, page, shown, vars
<1>19. ASSUME NEW t \in Tabs, NoticeClears(t) PROVE ShownWasConfirmed'
  BY <1>19 DEF NoticeClears, ShownWasConfirmed, page, shown, vars
<1>20. ASSUME NEW t \in Tabs, NoticeEnds(t) PROVE ShownWasConfirmed'
  BY <1>20 DEF NoticeEnds, Typed, ShownTyped, Hide, ShownWasConfirmed, page, shown, vars
<1>21. ASSUME NEW t \in Tabs, Refresh(t) PROVE ShownWasConfirmed'
  BY <1>21 DEF Refresh, ShownWasConfirmed, page, shown, vars
<1>22. ASSUME NEW t \in Tabs, Expire(t) PROVE ShownWasConfirmed'
  BY <1>22 DEF Expire, ShownWasConfirmed, page, shown, vars
<1>23. ASSUME NEW t \in Tabs, Reload(t) PROVE ShownWasConfirmed'
  BY <1>23 DEF Reload, Typed, ShownTyped, Hide, ShownWasConfirmed, page, shown, vars
<1>24. CASE UNCHANGED vars
  BY <1>24 DEF ShownWasConfirmed, page, shown, vars
<1> QED
  BY <1>1, <1>2, <1>3, <1>4, <1>5, <1>6, <1>7, <1>8, <1>9, <1>10, <1>11, <1>12, <1>13,
     <1>14, <1>15, <1>16, <1>17, <1>18, <1>19, <1>20, <1>21, <1>22, <1>23, <1>24
  DEF Next, TabWork, World

-----------------------------------------------------------------------------
(* The first page fulfils the invariant.                                   *)
LEMMA InitInv == ASSUME Init PROVE Inv
PROOF
<1>1. 1 \in Sessions /\ 0 \in 0 .. MaxSessions
  BY SessionAssumption DEF Sessions
<1>2. WorkTyped /\ EventTyped
  BY LoadedTyped DEF Init, WorkTyped, EventTyped
<1>3. ShownTyped /\ RejectTyped /\ PendTyped
  BY <1>1 DEF Init, ShownTyped, RejectTyped, PendTyped
<1>4. SavedTyped
  BY SessionAssumption, LoadedTyped DEF Init, SavedTyped
<1>5. ActorTyped
  BY <1>1 DEF Init, ActorTyped, SignIns, Notices, NoHandoff, NoNotice
<1>6. Accounted /\ NothingRejectedShows /\ ShownWasConfirmed
  BY DEF Init, Accounted, NothingRejectedShows, ShownWasConfirmed, NoNotice, NoHandoff,
          Sessions
<1> QED
  BY <1>2, <1>3, <1>4, <1>5, <1>6 DEF Inv, Typed

(* Every step keeps the invariant.                                         *)
LEMMA InvStep == ASSUME Inv, [Next]_vars PROVE Inv'
BY TypedStep, AccountedStep, RejectedStep, ConfirmedStep DEF Inv

(* The invariant of the tabs.                                              *)
THEOREM InvHolds == Spec => []Inv
PROOF
<1>1. Init => Inv
  BY InitInv
<1>2. Inv /\ [Next]_vars => Inv'
  BY InvStep
<1> QED
  BY <1>1, <1>2, PTL DEF Spec

(* Every variable keeps its type, for any number of tabs and sessions.     *)
THEOREM TypeCorrect == Spec => []TypeOK
PROOF
<1>1. Inv => TypeOK
  BY TypedImpliesTypeOK DEF Inv
<1> QED
  BY <1>1, InvHolds, PTL

(* A tab never shows a session that it was told to reject.                 *)
THEOREM RejectedNeverShows == Spec => []NothingRejectedShows
PROOF
<1>1. Inv => NothingRejectedShows
  BY DEF Inv
<1> QED
  BY <1>1, InvHolds, PTL

(* A tab shows only the session whose check this very page saw succeed.    *)
THEOREM ShownIsConfirmed == Spec => []ShownWasConfirmed
PROOF
<1>1. Inv => ShownWasConfirmed
  BY DEF Inv
<1> QED
  BY <1>1, InvHolds, PTL

(* A session leaves the browser only for a reason of its own: because it   *)
(* was signed out of, rejected, found expired, or failed its check.        *)
LEMMA RemovalStep ==
    ASSUME Inv, [Next]_vars, stored # 0, stored' = 0
    PROVE  stored \in unsafe' \cup failed'
PROOF
<1>1. CASE \E t \in Tabs, x \in Sessions : Clear(t, x)
  BY <1>1 DEF Clear, Holds, Inv, Accounted, verdicts
<1>2. CASE \E t \in Tabs, x \in Sessions : SignOutRuns(t, x)
  BY <1>2 DEF SignOutRuns, Holds, Inv, Accounted, verdicts
<1>3. CASE \E t \in Tabs : NoticeClears(t)
  BY <1>3 DEF NoticeClears, Holds, Inv, Accounted, verdicts
<1>4. CASE \E t \in Tabs : Expire(t)
  BY <1>4 DEF Expire
<1>5. CASE \E t \in Tabs : Store(t)
  BY <1>5 DEF Store, Inv, Typed, ActorTyped, SignIns, Sessions
<1>6. CASE \E t \in Tabs : HandedOver(t)
  BY <1>6 DEF HandedOver
<1>7. CASE UNCHANGED stored
  BY <1>7
<1>8. ASSUME NEW t \in Tabs, \/ NextEvent(t) \/ Restore(t) \/ Settle(t) \/ Reconsider(t)
                             \/ NoticeReads(t) \/ NoticeEnds(t) \/ Observe(t) \/ Notice(t)
                             \/ SignOut(t) \/ Begin(t) \/ Dispose(t) \/ Refresh(t) \/ Reload(t)
      PROVE  UNCHANGED stored
  BY <1>8 DEF NextEvent, Restore, Settle, Reconsider, NoticeReads, NoticeEnds, Observe, Notice,
              SignOut, Begin, Dispose, Refresh, Reload, browser
<1>9. ASSUME NEW t \in Tabs, \/ Answered(t) \/ CheckFails(t)
                             \/ \E x \in Sessions : HeardNews(t, x)
      PROVE  UNCHANGED stored
  BY <1>9 DEF Answered, CheckFails, Verdict, HeardNews, browser
<1>10. ASSUME NEW u \in Users, Deactivate(u) PROVE UNCHANGED stored
  BY <1>10 DEF Deactivate, browser
<1> QED
  BY <1>1, <1>2, <1>3, <1>4, <1>5, <1>6, <1>7, <1>8, <1>9, <1>10
  DEF Next, TabWork, World, vars, browser

(* A stored session is removed only when it was found unsafe or its        *)
(* restoration failed.                                                     *)
THEOREM RemovalsAreJustified == Spec => RemovedForCause
PROOF
<1>1. Inv /\ [Next]_vars => [stored # 0 /\ stored' = 0 => stored \in unsafe' \cup failed']_vars
  BY RemovalStep
<1> QED
  BY <1>1, InvHolds, PTL DEF Spec, RemovedForCause
-----------------------------------------------------------------------------
(* Where a tab is heading.                                                 *)

(* What a page that skipped sign-in has: nothing.                          *)
Dormant(t) ==
    ~observing[t] =>
        /\ op[t] = Idle /\ visible[t] = 0 /\ events[t] = <<>>
        /\ clears[t] = {} /\ signOuts[t] = {} /\ asked[t] = {}
        /\ deact[t] = NoNotice /\ handoff[t] = NoHandoff

(* Work that ends with the tab at the saved session or at nobody.          *)
Heading(t) ==
    \/ op[t] = Reread
    \/ op[t].kind \in {"check", "settle"} /\ op[t].s = stored
    \/ op[t] = Work("clear", stored) /\ stored \in clears[t]
    \/ \E x \in signOuts[t] \ {stored} : op[t] = Work("signout", x)

(* A tab that kept track of the saved session has heard of it, shows it or *)
(* nobody, or is on its way there.                                         *)
Tracks(t) ==
    t \notin astray =>
        /\ events[t] # <<>> => events[t][Len(events[t])] \in {stored, Initial}
        /\ events[t] = <<>> /\ stored \notin rejected[t] =>
            /\ op[t].kind = "settle" => op[t].cur = stored
            /\ visible[t] \in {0, stored} \/ Heading(t)

(* Every tab tracks the saved session, and shows nobody while it restores.  *)
Tracking ==
    \A p \in Tabs :
        /\ Dormant(p) /\ Tracks(p)
        /\ op[p].kind = "restore" => visible[p] = 0

(* Only a page that observes its auth client ever has work to do.          *)
LEMMA DormantStep ==
    ASSUME Typed, \A p \in Tabs : Dormant(p), [Next]_vars
    PROVE  \A p \in Tabs : Dormant(p)'
PROOF
<1>1. ASSUME NEW t \in Tabs, NextEvent(t) PROVE \A p \in Tabs : Dormant(p)'
  BY <1>1 DEF NextEvent, SetOp, Accept, Reread, Idle, Work, Typed, WorkTyped, EventTyped,
     Dormant, browser, shown, pending
<1>2. ASSUME NEW t \in Tabs, Observe(t) PROVE \A p \in Tabs : Dormant(p)'
  BY <1>2 DEF Observe, SetOp, Work, Typed, WorkTyped, EventTyped, SavedTyped, Dormant,
     browser, shown, pending
<1>3. ASSUME NEW t \in Tabs, Restore(t) PROVE \A p \in Tabs : Dormant(p)'
  BY <1>3 DEF Restore, SetOp, Accept, Idle, Work, Typed, WorkTyped, Dormant, browser,
     shown, pending
<1>4. ASSUME NEW t \in Tabs, Answered(t) PROVE \A p \in Tabs : Dormant(p)'
  BY <1>4 DEF Answered, Verdict, SetOp, Idle, Work, Typed, WorkTyped, Dormant, shown,
     pending
<1>5. ASSUME NEW t \in Tabs, CheckFails(t) PROVE \A p \in Tabs : Dormant(p)'
  BY <1>5 DEF CheckFails, Verdict, SetOp, Idle, Work, Typed, WorkTyped, Dormant, shown,
     pending
<1>6. ASSUME NEW t \in Tabs, Settle(t) PROVE \A p \in Tabs : Dormant(p)'
  BY <1>6 DEF Settle, SetOp, Hide, Idle, Work, Typed, WorkTyped, ShownTyped, PendTyped,
     Dormant, browser, shown
<1>7. ASSUME NEW t \in Tabs, NEW x \in Sessions, Clear(t, x) PROVE \A p \in Tabs : Dormant(p)'
  BY <1>7 DEF Clear, SetOp, Hide, Remove, Idle, Work, Broadcast, Reread, Typed, WorkTyped,
     ShownTyped, EventTyped, PendTyped, Dormant, shown
<1>8. ASSUME NEW t \in Tabs, Reconsider(t) PROVE \A p \in Tabs : Dormant(p)'
  BY <1>8 DEF Reconsider, SetOp, Accept, Hide, Idle, Work, Typed, WorkTyped, ShownTyped,
     Dormant, browser, shown, pending
<1>9. ASSUME NEW t \in Tabs, SignOut(t) PROVE \A p \in Tabs : Dormant(p)'
  BY <1>9 DEF SignOut, SetOp, Work, Typed, WorkTyped, PendTyped, Dormant, browser, shown
<1>10. ASSUME NEW t \in Tabs, NEW x \in Sessions, SignOutRuns(t, x)
       PROVE  \A p \in Tabs : Dormant(p)'
  BY <1>10 DEF SignOutRuns, SetOp, Remove, Idle, Work, Reread, Broadcast, Typed,
     WorkTyped, EventTyped, PendTyped, Dormant, shown
<1>11. ASSUME NEW t \in Tabs, Begin(t) PROVE \A p \in Tabs : Dormant(p)'
  BY <1>11 DEF Begin, Typed, ActorTyped, Dormant, page, pending, shown
<1>12. ASSUME NEW t \in Tabs, Store(t) PROVE \A p \in Tabs : Dormant(p)'
  <2>1. observing[t] /\ observing' = observing
    BY <1>12 DEF Store, Dormant, NoHandoff, page
  <2>2. \A p \in Tabs \ {t} : handoff'[p] = handoff[p]
    BY <1>12 DEF Store, Typed, ActorTyped
  <2>3. \A p \in Tabs \ {t} : op'[p] = op[p] /\ asked'[p] = asked[p]
    BY <1>12 DEF Store, Typed, WorkTyped, SetOp, Accept
  <2>4. \A p \in Tabs \ {t} : ~observing[p] => events'[p] = events[p]
    BY <1>12 DEF Store, Typed, EventTyped, Broadcast
  <2>5. \A p \in Tabs \ {t} : clears'[p] = clears[p]
    BY <1>12 DEF Store, Typed, PendTyped, pending
  <2>6. \A p \in Tabs \ {t} : visible'[p] = visible[p]
    BY <1>12 DEF Store, Typed, ShownTyped, Hide, shown
  <2> QED
    BY <1>12, <2>1, <2>2, <2>3, <2>4, <2>5, <2>6 DEF Store, Dormant, pending
<1>13. ASSUME NEW t \in Tabs, Dispose(t) PROVE \A p \in Tabs : Dormant(p)'
  <2>1. observing[t] /\ observing' = observing
    BY <1>13 DEF Dispose, Dormant, NoHandoff, page
  <2>2. \A p \in Tabs \ {t} : handoff'[p] = handoff[p]
    BY <1>13 DEF Dispose, Typed, ActorTyped
  <2> QED
    BY <1>13, <2>1, <2>2 DEF Dispose, Typed, WorkTyped, ShownTyped, EventTyped, PendTyped,
       Dormant,
       Hide, shown, page, pending
<1>14. ASSUME NEW t \in Tabs, HandedOver(t) PROVE \A p \in Tabs : Dormant(p)'
  <2>1. observing[t] /\ observing' = observing
    BY <1>14 DEF HandedOver, Dormant, NoHandoff, page
  <2>2. \A p \in Tabs \ {t} : handoff'[p] = handoff[p]
    BY <1>14 DEF HandedOver, Typed, ActorTyped
  <2>3. \A p \in Tabs \ {t} : op'[p] = op[p] /\ asked'[p] = asked[p]
    BY <1>14 DEF HandedOver, Typed, WorkTyped, SetOp, Accept
  <2>4. \A p \in Tabs \ {t} : ~observing[p] => events'[p] = events[p]
    BY <1>14 DEF HandedOver, Typed, EventTyped, Broadcast
  <2>5. \A p \in Tabs \ {t} : clears'[p] = clears[p]
    BY <1>14 DEF HandedOver, Typed, PendTyped, pending
  <2> QED
    BY <1>14, <2>1, <2>2, <2>3, <2>4, <2>5 DEF HandedOver, Dormant, shown, pending
<1>15. ASSUME NEW t \in Tabs, NEW x \in Sessions, HeardNews(t, x)
       PROVE  \A p \in Tabs : Dormant(p)'
  BY <1>15 DEF HeardNews, Hide, Typed, ShownTyped, Dormant, browser, shown, pending
<1>16. ASSUME NEW u \in Users, Deactivate(u) PROVE \A p \in Tabs : Dormant(p)'
  BY <1>16 DEF Deactivate, Dormant, browser, page, pending, shown
<1>17. ASSUME NEW t \in Tabs, Notice(t) PROVE \A p \in Tabs : Dormant(p)'
  BY <1>17 DEF Notice, Typed, ActorTyped, Dormant, browser, page, pending, shown
<1>18. ASSUME NEW t \in Tabs, NoticeReads(t) PROVE \A p \in Tabs : Dormant(p)'
  BY <1>18 DEF NoticeReads, Hide, NoNotice, Typed, ShownTyped, ActorTyped, Dormant, browser,
     shown, pending
<1>19. ASSUME NEW t \in Tabs, NoticeClears(t) PROVE \A p \in Tabs : Dormant(p)'
  BY <1>19 DEF NoticeClears, Remove, SetOp, Broadcast, Reread, NoNotice, Typed, WorkTyped,
     EventTyped, ActorTyped, Dormant, shown, pending
<1>20. ASSUME NEW t \in Tabs, NoticeEnds(t) PROVE \A p \in Tabs : Dormant(p)'
  BY <1>20 DEF NoticeEnds, Hide, NoNotice, Typed, ShownTyped, ActorTyped, Dormant,
     browser, shown, pending
<1>21. ASSUME NEW t \in Tabs, Refresh(t) PROVE \A p \in Tabs : Dormant(p)'
  BY <1>21 DEF Refresh, Accept, Broadcast, SetOp, Idle, Work, Typed, WorkTyped,
     EventTyped, Dormant, shown, pending
<1>22. ASSUME NEW t \in Tabs, Expire(t) PROVE \A p \in Tabs : Dormant(p)'
  BY <1>22 DEF Expire, Remove, SetOp, Broadcast, Reread, Work, Typed, WorkTyped,
     EventTyped, Dormant, shown, pending
<1>23. ASSUME NEW t \in Tabs, Reload(t) PROVE \A p \in Tabs : Dormant(p)'
  <2>1. PICK saved : /\ observing' = [observing EXCEPT ![t] = Loaded(saved).observing]
                     /\ op' = [op EXCEPT ![t] = Loaded(saved).op]
                     /\ events' = [events EXCEPT ![t] = Loaded(saved).events]
    BY <1>23 DEF Reload, SetOp
  <2>2. ~Loaded(saved).observing => Loaded(saved).op = Idle /\ Loaded(saved).events = <<>>
    BY DEF Loaded
  <2> QED
    BY <1>23, <2>1, <2>2 DEF Reload, Hide, Typed, WorkTyped, ShownTyped, EventTyped, PendTyped,
       ActorTyped, SavedTyped, Dormant
<1>24. CASE UNCHANGED vars
  BY <1>24 DEF Dormant, browser, page, shown, pending, vars
<1> QED
  BY <1>1, <1>2, <1>3, <1>4, <1>5, <1>6, <1>7, <1>8, <1>9, <1>10, <1>11, <1>12, <1>13,
     <1>14, <1>15, <1>16, <1>17, <1>18, <1>19, <1>20, <1>21, <1>22, <1>23, <1>24
  DEF Next, TabWork, World

-----------------------------------------------------------------------------
(* A tab that keeps its work tracks the saved session as before; it may    *)
(* hide an account, reject a session, or have more to remove.              *)
LEMMA Undisturbed ==
    ASSUME NEW p \in Tabs, Tracks(p), stored' = stored, p \in astray => p \in astray',
           events'[p] = events[p], op'[p] = op[p], visible'[p] \in {visible[p], 0},
           rejected[p] \subseteq rejected'[p], clears[p] \subseteq clears'[p],
           signOuts[p] \subseteq signOuts'[p]
    PROVE  Tracks(p)'
BY DEF Tracks, Heading

(* When the saved session changes, every tab hears of it, and the one that *)
(* changed it turns to it.                                                 *)
LEMMA HearTracks ==
    ASSUME Typed, NEW t \in Tabs, Broadcast(t, stored'), stored' \in 0 .. MaxSessions,
           \A p \in Tabs : Dormant(p)', observing' = observing,
           \/ op'[t] = Reread
           \/ op'[t].kind = "check" /\ op'[t].s = stored'
           \/ stored' \in rejected'[t],
           NEW p \in Tabs
    PROVE  Tracks(p)'
<1>1. CASE p = t
  <2>1. events'[t] = events[t] /\ (t \notin astray' => events[t] = <<>>)
    BY DEF Broadcast, Typed, EventTyped
  <2>2. Reread.kind # "settle"
    BY DEF Reread, Work
  <2> QED
    BY <1>1, <2>1, <2>2 DEF Tracks, Heading
<1>2. CASE p # t /\ observing[p]
  <2>1. events'[p] = events[p] \o <<stored'>> /\ events[p] \in Seq(0 .. Initial)
    BY <1>2 DEF Broadcast, Typed, EventTyped
  <2>2. stored' \in 0 .. Initial
    BY SessionAssumption DEF Initial
  <2>3. events'[p] # <<>> /\ events'[p][Len(events'[p])] = stored'
    BY <2>1, <2>2
  <2> QED
    BY <2>3 DEF Tracks
<1>3. CASE p # t /\ ~observing[p]
  <2>1. op'[p] = Idle /\ visible'[p] = 0 /\ events'[p] = <<>>
    BY <1>3 DEF Dormant
  <2>2. Idle.kind # "settle"
    BY DEF Idle, Work
  <2> QED
    BY <2>1, <2>2 DEF Tracks
<1> QED
  BY <1>1, <1>2, <1>3

(* Accepting a session begins its check, unless it was rejected.           *)
LEMMA AcceptChecks ==
    ASSUME Typed, NEW t \in Tabs, NEW x, Accept(t, x)
    PROVE  /\ x \notin rejected[t] => op'[t].kind = "check" /\ op'[t].s = x
           /\ x \in rejected[t] => op'[t] = Idle
           /\ \A p \in Tabs \ {t} : op'[p] = op[p]
<1>1. Work("check", x).kind = "check" /\ Work("check", x).s = x
  BY DEF Work
<1> QED
  BY <1>1 DEF Accept, SetOp, Typed, WorkTyped

(* The newest event stays the newest while older ones are handled.         *)
LEMMA LastOfTail ==
    ASSUME NEW t \in Tabs, EventTyped, events[t] # <<>>
    PROVE  /\ Tail(events[t]) # <<>> =>
                Tail(events[t])[Len(Tail(events[t]))] = events[t][Len(events[t])]
           /\ Tail(events[t]) = <<>> => Head(events[t]) = events[t][Len(events[t])]
<1> DEFINE q == events[t]
<1>1. q \in Seq(0 .. Initial) /\ q # <<>>
  BY DEF EventTyped
<1> HIDE DEF q
<1>2. /\ Len(q) \in Nat /\ Len(q) >= 1
      /\ Tail(q) \in Seq(0 .. Initial) /\ Len(Tail(q)) = Len(q) - 1
      /\ Head(q) = q[1]
  BY <1>1, HeadTailProperties
<1>3. \A i \in 1 .. Len(q) - 1 : Tail(q)[i] = q[i + 1]
  BY <1>1
<1>4. CASE Tail(q) = <<>>
  <2>1. Len(q) = 1
    BY <1>2, <1>4
  <2> QED
    BY <1>2, <1>4, <2>1 DEF q
<1>5. CASE Tail(q) # <<>>
  <2>1. Len(Tail(q)) # 0
    BY <1>2, <1>5
  <2>2. Len(q) - 1 \in 1 .. Len(q) - 1 /\ Len(q) - 1 + 1 = Len(q)
    BY <1>2, <2>1
  <2>3. Tail(q)[Len(q) - 1] = q[Len(q)]
    BY <1>3, <2>2
  <2> QED
    BY <1>2, <1>5, <2>3 DEF q
<1> QED
  BY <1>4, <1>5

-----------------------------------------------------------------------------
(* The newest event leads a tab to the saved session.                      *)
LEMMA OwnNext ==
    ASSUME Typed, Tracking, NEW t \in Tabs, NextEvent(t)
    PROVE  Tracks(t)'
<1>1. /\ events'[t] = Tail(events[t]) /\ events[t] # <<>> /\ EventTyped
      /\ stored' = stored /\ rejected' = rejected /\ astray' = astray
  BY DEF NextEvent, Typed, EventTyped, browser
<1> SUFFICES ASSUME t \notin astray PROVE Tracks(t)'
  BY <1>1 DEF Tracks
<1>2. events[t][Len(events[t])] \in {stored, Initial}
  BY <1>1 DEF Tracking, Tracks
<1>3. CASE events'[t] # <<>>
  <2>1. events'[t][Len(events'[t])] \in {stored, Initial}
    BY <1>1, <1>2, <1>3, LastOfTail
  <2> QED
    BY <1>1, <1>3, <2>1 DEF Tracks
<1>4. CASE events'[t] = <<>>
  <2>1. PICK x \in {stored, 0} :
          IF x = 0 THEN SetOp(t, Reread) /\ UNCHANGED asked
          ELSE IF x \in rejected[t] THEN UNCHANGED <<op, asked>>
          ELSE Accept(t, x)
    <3>1. Head(events[t]) \in {stored, Initial}
      BY <1>1, <1>2, <1>4, LastOfTail
    <3> QED
      BY <3>1 DEF NextEvent, Look
  <2>2. CASE stored \in rejected[t]
    BY <1>1, <1>4, <2>2 DEF Tracks
  <2>3. CASE x = 0
    <3>1. op'[t] = Reread
      BY <2>1, <2>3 DEF SetOp, Typed, WorkTyped
    <3> QED
      BY <1>4, <3>1 DEF Tracks, Heading, Reread, Work
  <2>4. CASE stored \notin rejected[t] /\ x # 0
    <3>1. Accept(t, stored)
      BY <2>1, <2>4
    <3>2. op'[t].kind = "check" /\ op'[t].s = stored
      BY <2>4, <3>1, AcceptChecks
    <3> QED
      BY <1>1, <1>4, <3>2 DEF Tracks, Heading
  <2> QED
    BY <2>2, <2>3, <2>4
<1> QED
  BY <1>3, <1>4

(* A page that begins to observe will hear of the saved session.           *)
LEMMA OwnObserve ==
    ASSUME Typed, Tracking, NEW t \in Tabs, Observe(t)
    PROVE  Tracks(t)'
<1>1. events'[t] = <<Initial>>
  BY DEF Observe, Typed, EventTyped
<1> QED
  BY <1>1 DEF Tracks

(* A restoration ends with the check of the saved session or with nobody.  *)
LEMMA OwnRestore ==
    ASSUME Typed, Tracking, NEW t \in Tabs, Restore(t)
    PROVE  Tracks(t)'
<1>1. /\ visible'[t] = visible[t] /\ visible[t] = 0 /\ events' = events
      /\ stored' = stored /\ rejected' = rejected /\ astray' = astray
  BY DEF Restore, Tracking, shown, browser
<1>2. op'[t].kind # "settle"
  <2>1. CASE stored \notin rejected[t] /\ Accept(t, stored)
    BY <2>1, AcceptChecks
  <2>2. CASE SetOp(t, Idle)
    BY <2>2 DEF SetOp, Idle, Work, Typed, WorkTyped
  <2> QED
    BY <2>1, <2>2 DEF Restore
<1> QED
  BY <1>1, <1>2 DEF Tracking, Tracks

(* An answer is settled against the session found saved with it.           *)
LEMMA OwnVerdict ==
    ASSUME Typed, Tracking, NEW t \in Tabs, NEW v, Verdict(t, v)
    PROVE  Tracks(t)'
<1>1. /\ visible' = visible /\ events' = events /\ clears' = clears /\ signOuts' = signOuts
      /\ stored' = stored /\ rejected' = rejected
      /\ op[t].kind = "check" /\ astray \subseteq astray'
  BY DEF Verdict, StraysIf, shown, pending
<1>2. CASE op[t].s \in rejected[t]
  <2>1. op'[t] = Idle
    BY <1>2 DEF Verdict, SetOp, Typed, WorkTyped
  <2>2. Idle.kind # "settle"
    BY DEF Idle, Work
  <2>3. \A z : op[t] # Work("signout", z)
    BY <1>1 DEF Work
  <2>4. op[t] # Reread /\ op[t] # Work("clear", stored)
    BY <1>1 DEF Reread, Work
  <2> QED
    BY <1>1, <1>2, <2>1, <2>2, <2>3, <2>4 DEF Tracking, Tracks, Heading
<1>3. CASE op[t].s \notin rejected[t]
  <2>1. PICK cur \in Look :
          /\ op'[t] = [kind |-> "settle", s |-> op[t].s, verdict |-> v, cur |-> cur]
          /\ astray' = IF cur # stored THEN astray \cup {t} ELSE astray
    BY <1>3 DEF Verdict, StraysIf, SetOp, Typed, WorkTyped
  <2>2. op'[t].kind = "settle" /\ op'[t].s = op[t].s /\ op'[t].cur = cur
    BY <2>1
  <2>3. \A z : op[t] # Work("signout", z)
    BY <1>1 DEF Work
  <2>4. op[t] # Reread /\ op[t] # Work("clear", stored)
    BY <1>1 DEF Reread, Work
  <2> QED
    BY <1>1, <2>1, <2>2, <2>3, <2>4 DEF Tracking, Tracks, Heading
<1> QED
  BY <1>2, <1>3

(* A settled check shows the saved session, begins to remove it, or was    *)
(* about another.                                                          *)
LEMMA OwnSettle ==
    ASSUME Typed, Tracking, NEW t \in Tabs, Settle(t)
    PROVE  Tracks(t)'
<1>1. /\ events' = events /\ signOuts' = signOuts /\ stored' = stored /\ astray' = astray
      /\ op[t].kind = "settle"
  BY DEF Settle, browser
<1>2. /\ op[t] # Reread /\ op[t] # Work("clear", stored)
      /\ \A z : op[t] # Work("signout", z)
  BY <1>1 DEF Reread, Work
<1> SUFFICES ASSUME t \notin astray, events[t] = <<>>, stored \notin rejected'[t]
             PROVE  /\ op'[t].kind # "settle"
                    /\ visible'[t] \in {0, stored} \/ Heading(t)'
  BY <1>1 DEF Tracking, Tracks
<1>3. stored \notin rejected[t]
  BY DEF Settle, Reject, Typed, RejectTyped
<1>4. /\ op[t].cur = stored
      /\ visible[t] \in {0, stored} \/ op[t].s = stored
  BY <1>1, <1>2, <1>3 DEF Tracking, Tracks, Heading
<1>5. Idle.kind # "settle" /\ \A z : Work("clear", z).kind # "settle"
  BY DEF Idle, Work
<1>6. CASE Ignored(op[t], t)
  <2>1. op'[t] = Idle /\ visible' = visible /\ clears' = clears
    BY <1>6 DEF Settle, SetOp, Typed, WorkTyped, shown
  <2>2. op[t].s # stored
    BY <1>3, <1>4, <1>6 DEF Ignored
  <2> QED
    BY <1>1, <1>4, <1>5, <2>1, <2>2 DEF Heading
<1>7. CASE ~Ignored(op[t], t) /\ op[t].verdict = "ok"
  <2>1. op'[t] = Idle /\ visible'[t] = stored
    BY <1>4, <1>7 DEF Settle, SetOp, Typed, WorkTyped, ShownTyped
  <2> QED
    BY <1>5, <2>1
<1>8. CASE ~Ignored(op[t], t) /\ op[t].verdict \in {"deactivated", "failed"}
  <2>1. op'[t] = Work("clear", op[t].s) /\ op[t].s \in clears'[t]
    BY <1>8 DEF Settle, SetOp, Typed, WorkTyped, PendTyped
  <2>2. op[t].s = stored
    BY <1>4, <1>8 DEF Ignored
  <2> QED
    BY <1>1, <1>5, <2>1, <2>2 DEF Heading
<1> QED
  BY <1>6, <1>7, <1>8 DEF Settle

(* A look at the storage leads to the saved session or to nobody.          *)
LEMMA OwnReconsider ==
    ASSUME Typed, Tracking, NEW t \in Tabs, Reconsider(t)
    PROVE  Tracks(t)'
<1>1. /\ events' = events /\ stored' = stored /\ astray' = astray /\ rejected' = rejected
  BY DEF Reconsider, browser
<1>2. PICK cur \in Look : IF cur # 0 THEN Accept(t, cur) /\ UNCHANGED shown
                          ELSE Hide(t) /\ SetOp(t, Idle) /\ UNCHANGED asked
  BY DEF Reconsider
<1>3. CASE cur = 0
  <2>1. visible'[t] = 0 /\ op'[t] = Idle /\ Idle.kind # "settle"
    BY <1>2, <1>3 DEF Hide, SetOp, Typed, WorkTyped, ShownTyped, Idle, Work
  <2> QED
    BY <1>1, <2>1 DEF Tracking, Tracks
<1>4. CASE cur # 0
  <2>1. cur = stored /\ Accept(t, stored)
    BY <1>2, <1>4 DEF Look
  <2>2. stored \notin rejected[t] => op'[t].kind = "check" /\ op'[t].s = stored
    BY <2>1, AcceptChecks
  <2> QED
    BY <1>1, <2>2 DEF Tracking, Tracks, Heading
<1> QED
  BY <1>3, <1>4

(* Signing out takes the place of other work, but looks again when it is   *)
(* done.                                                                   *)
LEMMA OwnSignOut ==
    ASSUME Typed, Tracking, NEW t \in Tabs, SignOut(t)
    PROVE  Tracks(t)'
<1>1. /\ events' = events /\ stored' = stored /\ astray' = astray /\ visible' = visible
      /\ op'[t] = Work("signout", visible[t]) /\ visible[t] \in signOuts'[t]
  BY DEF SignOut, SetOp, browser, shown, Typed, WorkTyped, PendTyped
<1>2. op'[t].kind # "settle"
  BY <1>1 DEF Work
<1> QED
  BY <1>1, <1>2 DEF Tracking, Tracks, Heading

(* A reloaded page shows nobody and hears of the saved session.            *)
LEMMA OwnReload ==
    ASSUME Typed, Tracking, NEW t \in Tabs, Reload(t)
    PROVE  Tracks(t)'
<1>1. PICK saved \in Look :
        visible'[t] = 0 /\ events'[t] = Loaded(saved).events /\ op'[t] = Loaded(saved).op
  BY DEF Reload, Hide, SetOp, Typed, ShownTyped, EventTyped, WorkTyped
<1>2. Loaded(saved).op.kind # "settle" /\ Loaded(saved).events \in {<<>>, <<Initial>>}
  BY DEF Loaded, Idle, Work
<1>3. <<Initial>> # <<>> /\ <<Initial>>[Len(<<Initial>>)] = Initial
  OBVIOUS
<1> QED
  BY <1>1, <1>2, <1>3 DEF Tracks

(* A removal that removes nothing hides the session it was about, or       *)
(* leaves the tab astray if that session is still saved.                   *)
LEMMA OwnClear ==
    ASSUME Typed, Tracking, NEW t \in Tabs, NEW x \in Sessions, Clear(t, x),
           UNCHANGED <<stored, events>>, ~Remove(t)
    PROVE  Tracks(t)'
<1>1. /\ rejected' = rejected /\ signOuts' = signOuts /\ clears'[t] = clears[t] \ {x}
      /\ \/ op[t] = Work("clear", x) /\ SetOp(t, Idle)
            /\ IF visible[t] \in {0, x} THEN Hide(t) /\ UNCHANGED astray
               ELSE UNCHANGED shown /\ StraysIf(Holds(x), t)
         \/ op[t] # Work("clear", x) /\ UNCHANGED <<op, shown, astray>>
  BY DEF Clear, Typed, PendTyped
<1>2. CASE op[t] = Work("clear", x) /\ SetOp(t, Idle)
  <2>1. op'[t] = Idle /\ Idle.kind # "settle"
    BY <1>2 DEF SetOp, Idle, Work, Typed, WorkTyped
  <2>2. CASE visible[t] \in {0, x}
    <3>1. visible'[t] = 0 /\ astray' = astray
      BY <1>1, <1>2, <2>2 DEF Hide, Typed, ShownTyped
    <3> QED
      BY <1>1, <2>1, <3>1 DEF Tracking, Tracks
  <2>3. CASE visible[t] \notin {0, x} /\ x = stored
    BY <1>1, <1>2, <2>3 DEF StraysIf, Holds, Tracks
  <2>4. CASE visible[t] \notin {0, x} /\ x # stored
    <3>1. visible' = visible /\ astray' = astray
      BY <1>1, <1>2, <2>4 DEF StraysIf, Holds, shown
    <3>2. /\ op[t] # Reread /\ op[t].kind = "clear" /\ op[t] # Work("clear", stored)
          /\ \A z : op[t] # Work("signout", z)
      BY <1>2, <2>4 DEF Work, Reread
    <3> QED
      BY <1>1, <2>1, <3>1, <3>2 DEF Tracking, Tracks, Heading
  <2> QED
    BY <2>2, <2>3, <2>4
<1>3. CASE op[t] # Work("clear", x) /\ UNCHANGED <<op, shown, astray>>
  <2>1. op[t] = Work("clear", stored) => x # stored
    BY <1>3
  <2> QED
    BY <1>1, <1>3, <2>1 DEF Tracking, Tracks, Heading, shown
<1> QED
  BY <1>1, <1>2, <1>3

(* A sign-out that removes nothing looks again, or leaves the tab astray   *)
(* if it ended without learning that another session is saved.             *)
LEMMA OwnSignOutRuns ==
    ASSUME Typed, Tracking, NEW t \in Tabs, NEW x \in Sessions, SignOutRuns(t, x),
           UNCHANGED <<stored, events>>, ~Remove(t)
    PROVE  Tracks(t)'
<1>1. /\ visible' = visible /\ rejected' = rejected /\ clears' = clears
      /\ signOuts'[t] = signOuts[t] \ {x} /\ astray \subseteq astray'
      /\ \/ op[t] = Work("signout", x) /\ SetOp(t, Idle) /\ StraysIf(~Holds(x), t)
         \/ op[t] = Work("signout", x) /\ SetOp(t, Reread)
         \/ op[t] # Work("signout", x) /\ UNCHANGED op
  BY DEF SignOutRuns, StraysIf, shown, Typed, PendTyped
<1>2. CASE op[t] = Work("signout", x) /\ SetOp(t, Idle) /\ StraysIf(~Holds(x), t)
  <2>1. CASE x = stored
    <3>1. op'[t] = Idle /\ Idle.kind # "settle" /\ astray' = astray
      BY <1>2, <2>1 DEF StraysIf, Holds, SetOp, Idle, Work, Typed, WorkTyped
    <3>2. /\ op[t] # Reread /\ op[t].kind = "signout" /\ op[t] # Work("clear", stored)
          /\ \A z : op[t] = Work("signout", z) => z = x
      BY <1>2 DEF Work, Reread
    <3> QED
      BY <1>1, <2>1, <3>1, <3>2 DEF Tracking, Tracks, Heading
  <2>2. CASE x # stored
    BY <1>2, <2>2 DEF StraysIf, Holds, Tracks
  <2> QED
    BY <2>1, <2>2
<1>3. CASE op[t] = Work("signout", x) /\ SetOp(t, Reread)
  <2>1. op'[t] = Reread /\ Reread.kind # "settle"
    BY <1>3 DEF SetOp, Reread, Work, Typed, WorkTyped
  <2> QED
    BY <1>1, <2>1 DEF Tracking, Tracks, Heading
<1>4. CASE op[t] # Work("signout", x) /\ UNCHANGED op
  BY <1>1, <1>4 DEF Tracking, Tracks, Heading
<1> QED
  BY <1>1, <1>2, <1>3, <1>4

-----------------------------------------------------------------------------
(* A change of the saved session is heard by every tab.                    *)
LEMMA ChangeTracks ==
    ASSUME Typed, Tracking, \A p \in Tabs : Dormant(p)', NEW t \in Tabs,
           \/ Remove(t)
           \/ /\ stored' \in Sessions /\ Broadcast(t, stored')
              /\ IF stored' \in rejected[t] THEN UNCHANGED <<op, asked>>
                 ELSE Accept(t, stored'),
           UNCHANGED <<observing, rejected>>
    PROVE  \A p \in Tabs : Tracks(p)'
<1>1. stored' \in 0 .. MaxSessions /\ Broadcast(t, stored')
  BY SessionAssumption DEF Remove, Sessions
<1>2. \/ op'[t] = Reread
      \/ op'[t].kind = "check" /\ op'[t].s = stored'
      \/ stored' \in rejected'[t]
  BY AcceptChecks DEF Remove, SetOp, Typed, WorkTyped
<1> QED
  BY <1>1, <1>2, HearTracks

(* Every step leaves each tab on its way to the saved session.             *)
LEMMA TracksStep ==
    ASSUME Typed, Tracking, \A p \in Tabs : Dormant(p)', [Next]_vars
    PROVE  \A p \in Tabs : Tracks(p)'
<1> USE DEF Tracking
<1>1. ASSUME NEW t \in Tabs, \/ NextEvent(t) \/ Observe(t) \/ Restore(t) \/ Settle(t)
                             \/ Reconsider(t) \/ SignOut(t) \/ Reload(t)
                             \/ Answered(t) \/ CheckFails(t),
             NEW p \in Tabs
      PROVE  Tracks(p)'
  <2>1. CASE p = t
    BY <1>1, <2>1, OwnNext, OwnObserve, OwnRestore, OwnSettle, OwnReconsider, OwnSignOut,
       OwnReload, OwnVerdict DEF Answered, CheckFails
  <2>2. CASE p # t
    <3>1. /\ stored' = stored /\ (p \in astray => p \in astray')
          /\ events'[p] = events[p] /\ op'[p] = op[p] /\ visible'[p] \in {visible[p], 0}
          /\ rejected[p] \subseteq rejected'[p] /\ clears[p] \subseteq clears'[p]
          /\ signOuts[p] \subseteq signOuts'[p]
      <4>1. CASE NextEvent(t)
        BY <2>2, <4>1, AcceptChecks DEF NextEvent, SetOp, Typed, WorkTyped, EventTyped,
           browser, shown, pending
      <4>2. CASE Observe(t)
        BY <2>2, <4>2 DEF Observe, SetOp, Typed, WorkTyped, EventTyped, browser, shown,
           pending
      <4>3. CASE Restore(t)
        BY <2>2, <4>3, AcceptChecks DEF Restore, SetOp, Typed, WorkTyped, browser, shown,
           pending
      <4>4. CASE Settle(t)
        BY <2>2, <4>4 DEF Settle, Reject, Hide, SetOp, Typed, WorkTyped, ShownTyped,
           RejectTyped, PendTyped, browser, shown, pending
      <4>5. CASE Reconsider(t)
        BY <2>2, <4>5, AcceptChecks DEF Reconsider, Hide, SetOp, Typed, WorkTyped,
           ShownTyped, browser, shown, pending
      <4>6. CASE SignOut(t)
        BY <2>2, <4>6 DEF SignOut, SetOp, Typed, WorkTyped, PendTyped, browser, shown, pending
      <4>7. CASE Reload(t)
        BY <2>2, <4>7 DEF Reload, Hide, SetOp, Typed, WorkTyped, ShownTyped, RejectTyped,
           EventTyped, PendTyped
      <4>8. CASE Answered(t) \/ CheckFails(t)
        BY <2>2, <4>8 DEF Answered, CheckFails, Verdict, StraysIf, SetOp, Typed, WorkTyped, shown,
           pending
      <4> QED
        BY <1>1, <4>1, <4>2, <4>3, <4>4, <4>5, <4>6, <4>7, <4>8
    <3> QED
      BY <3>1, Undisturbed
  <2> QED
    BY <2>1, <2>2
<1>2. ASSUME NEW t \in Tabs, \/ Begin(t) \/ Dispose(t) \/ Notice(t) \/ NoticeReads(t)
                             \/ NoticeEnds(t) \/ \E x \in Sessions : HeardNews(t, x),
             NEW p \in Tabs
      PROVE  Tracks(p)'
  <2>1. /\ stored' = stored /\ astray' = astray /\ events' = events /\ op' = op
        /\ clears' = clears /\ signOuts' = signOuts
    BY <1>2 DEF Begin, Dispose, Notice, NoticeReads, NoticeEnds, HeardNews, browser, page,
       pending
  <2>2. visible' = visible \/ Hide(t)
    BY <1>2 DEF Begin, Dispose, Notice, NoticeReads, NoticeEnds, HeardNews, page, shown
  <2>3. visible'[p] \in {visible[p], 0}
    BY <2>2 DEF Hide, Typed, ShownTyped
  <2>4. rejected' = rejected \/ \E x : rejected' = [rejected EXCEPT ![t] = @ \cup {x}]
    BY <1>2 DEF Begin, Dispose, Notice, NoticeReads, NoticeEnds, HeardNews, Reject
  <2>5. rejected[p] \subseteq rejected'[p]
    BY <2>4 DEF Typed, RejectTyped
  <2> QED
    BY <2>1, <2>3, <2>5, Undisturbed
<1>3. ASSUME NEW u \in Users, Deactivate(u), NEW p \in Tabs PROVE Tracks(p)'
  BY <1>3, Undisturbed DEF Deactivate, browser, page, shown, pending
<1>4. ASSUME NEW t \in Tabs, Refresh(t) \/ Expire(t), NEW p \in Tabs PROVE Tracks(p)'
  <2>1. stored # 0 /\ stored \in Sessions
    BY <1>4, SavedIsSession DEF Refresh, Expire, Typed, SavedTyped
  <2> QED
    BY <1>4, <2>1, ChangeTracks DEF Refresh, Expire
<1>5. ASSUME NEW t \in Tabs, NEW x \in Sessions, Clear(t, x), NEW p \in Tabs PROVE Tracks(p)'
  <2>1. CASE Remove(t)
    BY <1>5, <2>1, ChangeTracks DEF Clear
  <2>2. CASE ~Remove(t) /\ p = t
    BY <1>5, <2>2, OwnClear DEF Clear
  <2>3. CASE ~Remove(t) /\ p # t
    <3>1. /\ stored' = stored /\ events' = events /\ op'[p] = op[p]
          /\ signOuts' = signOuts /\ rejected' = rejected
      BY <1>5, <2>3 DEF Clear, SetOp, Typed, WorkTyped
    <3>2. clears'[p] = clears[p]
      BY <1>5, <2>3 DEF Clear, Typed, PendTyped
    <3>3. visible'[p] = visible[p] /\ (p \in astray => p \in astray')
      BY <1>5, <2>3 DEF Clear, StraysIf, Hide, shown, Typed, ShownTyped
    <3> QED
      BY <3>1, <3>2, <3>3, Undisturbed
  <2> QED
    BY <2>1, <2>2, <2>3
<1>6. ASSUME NEW t \in Tabs, NEW x \in Sessions, SignOutRuns(t, x), NEW p \in Tabs
      PROVE  Tracks(p)'
  <2>1. CASE Remove(t)
    BY <1>6, <2>1, ChangeTracks DEF SignOutRuns
  <2>2. CASE ~Remove(t) /\ p = t
    BY <1>6, <2>2, OwnSignOutRuns DEF SignOutRuns
  <2>3. CASE ~Remove(t) /\ p # t
    <3>1. /\ stored' = stored /\ (p \in astray => p \in astray') /\ events' = events
          /\ op'[p] = op[p] /\ clears' = clears /\ signOuts'[p] = signOuts[p]
          /\ rejected' = rejected /\ visible' = visible
      BY <1>6, <2>3 DEF SignOutRuns, StraysIf, SetOp, shown, Typed, WorkTyped, PendTyped
    <3> QED
      BY <3>1, Undisturbed
  <2> QED
    BY <2>1, <2>2, <2>3
<1>7. ASSUME NEW t \in Tabs, Store(t), NEW p \in Tabs PROVE Tracks(p)'
  <2> DEFINE h == handoff[t]
  <2>1. h.s \in Sessions
    BY <1>7 DEF Store, Typed, ActorTyped, SignIns
  <2>2. CASE /\ stored' = h.s /\ Broadcast(t, h.s) /\ rejected' = rejected
             /\ IF h.s \in rejected[t] THEN UNCHANGED <<op, asked>> ELSE Accept(t, h.s)
    <3>1. observing' = observing
      BY <1>7 DEF Store
    <3> QED
      BY <2>1, <2>2, <3>1, ChangeTracks
  <2>3. CASE /\ UNCHANGED <<stored, astray, events, op>>
             /\ rejected' = rejected \/ Reject(t, h.s)
             /\ UNCHANGED shown \/ Hide(t)
    <3>1. visible'[p] \in {visible[p], 0}
      BY <2>3 DEF Hide, shown, Typed, ShownTyped
    <3>2. rejected[p] \subseteq rejected'[p]
      BY <2>3 DEF Reject, Typed, RejectTyped
    <3>3. clears' = clears /\ signOuts' = signOuts
      BY <1>7 DEF Store, pending
    <3> QED
      BY <2>3, <3>1, <3>2, <3>3, Undisturbed
  <2> QED
    BY <1>7, <2>2, <2>3 DEF Store
<1>8. ASSUME NEW t \in Tabs, HandedOver(t), NEW p \in Tabs PROVE Tracks(p)'
  <2> DEFINE h == handoff[t]
  <2>1. CASE UNCHANGED <<stored, astray, events, op>>
    <3>1. /\ clears[p] \subseteq clears'[p] /\ signOuts' = signOuts /\ rejected' = rejected
          /\ visible' = visible
      BY <1>8 DEF HandedOver, shown, Typed, PendTyped
    <3> QED
      BY <2>1, <3>1, Undisturbed
  <2>2. CASE /\ h.before # 0 /\ stored' = h.before /\ Broadcast(t, h.before)
             /\ IF h.before \in rejected[t] THEN UNCHANGED <<op, asked>>
                ELSE Accept(t, h.before)
    <3>1. h.before \in Sessions
      BY <2>2, SavedIsSession DEF Typed, ActorTyped, SignIns
    <3>2. observing' = observing /\ rejected' = rejected
      BY <1>8 DEF HandedOver
    <3> QED
      BY <2>2, <3>1, <3>2, ChangeTracks
  <2> QED
    BY <1>8, <2>1, <2>2 DEF HandedOver
<1>9. ASSUME NEW t \in Tabs, NoticeClears(t), NEW p \in Tabs PROVE Tracks(p)'
  <2>1. CASE Remove(t)
    BY <1>9, <2>1, ChangeTracks DEF NoticeClears
  <2>2. CASE ~Remove(t)
    BY <1>9, <2>2, Undisturbed DEF NoticeClears, shown, pending
  <2> QED
    BY <2>1, <2>2
<1>10. CASE UNCHANGED vars
  BY <1>10, Undisturbed DEF vars, browser, page, shown, pending
<1> QED
  BY <1>1, <1>2, <1>3, <1>4, <1>5, <1>6, <1>7, <1>8, <1>9, <1>10 DEF Next, TabWork, World

(* A tab that restores has shown nobody yet.                               *)
LEMMA RestoringStep ==
    ASSUME Typed, Tracking, [Next]_vars
    PROVE  \A p \in Tabs : op'[p].kind = "restore" => visible'[p] = 0
<1> SUFFICES ASSUME NEW p \in Tabs, op'[p].kind = "restore" PROVE visible'[p] = 0
  OBVIOUS
<1>0. /\ Idle.kind # "restore" /\ Reread.kind # "restore"
      /\ \A x : \A k \in {"check", "clear", "signout"} : Work(k, x).kind # "restore"
  BY DEF Idle, Reread, Work
<1>1. ASSUME op'[p] = op[p] PROVE visible[p] = 0
  BY <1>1 DEF Tracking
<1>2. ASSUME NEW t \in Tabs, NextEvent(t) \/ Restore(t) PROVE visible'[p] = 0
  <2>1. op'[p] = op[p]
    BY <1>0, <1>2, AcceptChecks DEF NextEvent, Restore, SetOp, Typed, WorkTyped
  <2> QED
    BY <1>1, <1>2, <2>1 DEF NextEvent, Restore, shown
<1>3. ASSUME NEW t \in Tabs, Observe(t) PROVE visible'[p] = 0
  BY <1>1, <1>3 DEF Observe, Tracking, Dormant, SetOp, Typed, WorkTyped, shown
<1>4. ASSUME NEW t \in Tabs, Answered(t) \/ CheckFails(t) PROVE visible'[p] = 0
  <2>1. PICK v : Verdict(t, v)
    BY <1>4 DEF Answered, CheckFails
  <2>2. PICK o : SetOp(t, o) /\ o.kind # "restore"
    BY <1>0, <2>1 DEF Verdict
  <2>3. op'[p] = op[p]
    BY <2>2 DEF SetOp, Typed, WorkTyped
  <2> QED
    BY <1>1, <2>1, <2>3 DEF Verdict, shown
<1>5. ASSUME NEW t \in Tabs, Settle(t) PROVE visible'[p] = 0
  <2>1. PICK o : SetOp(t, o) /\ o.kind # "restore"
    BY <1>0, <1>5 DEF Settle
  <2>2. p # t /\ op'[p] = op[p]
    BY <2>1 DEF SetOp, Typed, WorkTyped
  <2> QED
    BY <1>1, <1>5, <2>2 DEF Settle, Hide, shown, Typed, ShownTyped
<1>6. ASSUME NEW t \in Tabs, NEW x \in Sessions, Clear(t, x) \/ SignOutRuns(t, x)
      PROVE  visible'[p] = 0
  <2>1. op'[p] = op[p]
    BY <1>0, <1>6 DEF Clear, SignOutRuns, Remove, SetOp, Typed, WorkTyped
  <2> QED
    BY <1>1, <1>6, <2>1 DEF Clear, SignOutRuns, Hide, shown, Typed, ShownTyped
<1>7. ASSUME NEW t \in Tabs, Reconsider(t) PROVE visible'[p] = 0
  <2>1. op'[p] = op[p]
    BY <1>0, <1>7, AcceptChecks DEF Reconsider, SetOp, Typed, WorkTyped
  <2> QED
    BY <1>1, <1>7, <2>1 DEF Reconsider, Hide, shown, Typed, ShownTyped
<1>8. ASSUME NEW t \in Tabs, \/ SignOut(t) \/ Store(t) \/ HandedOver(t) \/ NoticeClears(t)
                             \/ Refresh(t) \/ Expire(t)
      PROVE  visible'[p] = 0
  <2>1. \/ op' = op
        \/ \E o : SetOp(t, o) /\ o.kind # "restore"
        \/ \E y : Accept(t, y)
    BY <1>0, <1>8 DEF SignOut, Store, HandedOver, NoticeClears, Refresh, Expire, Remove
  <2>2. op'[p] = op[p]
    BY <1>0, <2>1, AcceptChecks DEF SetOp, Typed, WorkTyped
  <2> QED
    BY <1>1, <1>8, <2>2 DEF SignOut, Store, HandedOver, NoticeClears, Refresh, Expire, Hide,
       shown, Typed, ShownTyped
<1>9. ASSUME NEW t \in Tabs, \/ Begin(t) \/ Dispose(t) \/ Notice(t) \/ NoticeReads(t)
                             \/ NoticeEnds(t) \/ \E x \in Sessions : HeardNews(t, x)
      PROVE  visible'[p] = 0
  <2>1. op'[p] = op[p] /\ (visible' = visible \/ Hide(t))
    BY <1>9 DEF Begin, Dispose, Notice, NoticeReads, NoticeEnds, HeardNews, page, shown
  <2> QED
    BY <1>1, <2>1 DEF Hide, Typed, ShownTyped
<1>10. ASSUME NEW u \in Users, Deactivate(u) PROVE visible'[p] = 0
  BY <1>1, <1>10 DEF Deactivate, page, shown
<1>11. ASSUME NEW t \in Tabs, Reload(t) PROVE visible'[p] = 0
  BY <1>1, <1>11 DEF Reload, Hide, SetOp, Typed, WorkTyped, ShownTyped
<1>12. CASE UNCHANGED vars
  BY <1>1, <1>12 DEF vars, page, shown
<1> QED
  BY <1>2, <1>3, <1>4, <1>5, <1>6, <1>7, <1>8, <1>9, <1>10, <1>11, <1>12
  DEF Next, TabWork, World

(* The first pages track the saved session.                                *)
LEMMA TrackingInit == ASSUME Init PROVE Tracking
<1>1. \A p \in Tabs :
        /\ events[p] = Loaded(stored).events /\ op[p] = Loaded(stored).op /\ visible[p] = 0
        /\ observing[p] = Loaded(stored).observing
        /\ clears[p] = {} /\ signOuts[p] = {} /\ asked[p] = {}
        /\ deact[p] = NoNotice /\ handoff[p] = NoHandoff
  BY DEF Init
<1>2. /\ Loaded(stored).op.kind # "settle" /\ Loaded(stored).events \in {<<>>, <<Initial>>}
      /\ ~Loaded(stored).observing => Loaded(stored).op = Idle /\ Loaded(stored).events = <<>>
  BY DEF Loaded, Idle, Work
<1>3. <<Initial>> # <<>> /\ <<Initial>>[Len(<<Initial>>)] = Initial
  OBVIOUS
<1> QED
  BY <1>1, <1>2, <1>3 DEF Tracking, Dormant, Tracks

(* Every step keeps the tabs tracking the saved session.                   *)
LEMMA TrackingStep == ASSUME Inv, Tracking, [Next]_vars PROVE Tracking'
BY DormantStep, TracksStep, RestoringStep DEF Inv, Tracking

(* A tab that tracks the saved session shows it once it has nothing left   *)
(* to do.                                                                  *)
LEMMA TrackingAgrees == ASSUME Tracking PROVE QuietTabsAgree
<1>1. /\ Idle.kind \notin {"check", "settle"} /\ Idle # Reread
      /\ \A x : Idle # Work("signout", x)
  BY DEF Idle, Reread, Work
<1> QED
  BY <1>1 DEF Tracking, Tracks, Heading, QuietTabsAgree, Quiet

(* A tab at rest shows the saved session or nobody, for any number of tabs *)
(* and turns, also when the storage sometimes cannot be read. The          *)
(* exceptions: it was told to reject the saved session, or it lost track   *)
(* of it.                                                                  *)
THEOREM QuietTabsShowTheSaved == Spec => []QuietTabsAgree
<1>1. Init => Inv /\ Tracking
  BY InitInv, TrackingInit
<1>2. Inv /\ Tracking /\ [Next]_vars => Inv' /\ Tracking'
  BY InvStep, TrackingStep
<1>3. Inv /\ Tracking => QuietTabsAgree
  BY TrackingAgrees
<1> QED
  BY <1>1, <1>2, <1>3, PTL DEF Spec
=============================================================================
