----------------------------- MODULE Discussion -----------------------------
(***************************************************************************)
(* The discussion below an article: the browser's store of drafts, pending *)
(* requests and comment rows (ReaderComments.tsx, state.ts) together with  *)
(* the API transactions that answer it (services/comments.py).             *)
(*                                                                         *)
(* A tab gives each submission a request key.  When it does not learn what *)
(* became of a submission (fifteen seconds passed, the connection broke,   *)
(* the server failed) it keeps the key with the draft and offers to check. *)
(* The check is answered under the account's row lock, and a key that has  *)
(* not been seen by then is fenced: a late original is refused.            *)
(*                                                                         *)
(* A text is a number that is fresh for each thing a reader writes; a      *)
(* version of a comment is its place in hist.                              *)
(***************************************************************************)
EXTENDS Naturals, Sequences, FiniteSets

CONSTANTS
    Tabs,         \* open tabs: one store each
    Accounts,     \* signed-in accounts
    AccountOf,    \* the account a tab is signed in to
    Admins,       \* accounts that may remove the comments of others
    MaxComments,  \* bound: comments ever posted
    MaxKeys,      \* bound: request keys ever drawn
    MaxTexts,     \* bound: texts ever written
    Boxes,        \* the composers a tab may use: <<kind, comment>>
    MaxOpen,      \* bound: drafts in use at a time
    Erasing,      \* tabs whose reader deletes or removes
    Linked,       \* tabs that may follow a link to one contribution
    Leaving,      \* tabs whose reader may sign out and in, or reload
    None

ASSUME BoundsAssumption == /\ MaxComments \in Nat \ {0} /\ MaxKeys \in Nat
                           /\ MaxTexts \in Nat \ {0}
ASSUME AccountAssumption == AccountOf \in [Tabs -> Accounts]

Comments == 1 .. MaxComments
Keys     == 1 .. MaxKeys
Texts    == 1 .. MaxTexts

ASSUME BoxAssumption ==
    Boxes \in [Tabs -> SUBSET ({<<"comment", 0>>}
                               \cup ({"reply", "edit"} \X Comments))]

(* What a tab asks of the API under a request key.                         *)
Submissions ==
    {m \in [action : {"comment", "reply", "edit", "erase"}, tab : Tabs,
            target : 0 .. MaxComments, text : 0 .. MaxTexts, expected : Nat] :
       /\ m.action # "comment" => m.target \in Comments
       /\ m.action # "erase" => m.text # 0}

ASSUME NoneAssumption == None \notin Submissions

VARIABLES
    hist,      \* comment -> its versions: [live, text]
    parent,    \* comment -> the root it answers, 0 for a root
    author,    \* comment -> account that wrote it
    mutations, \* key -> 0 unknown, Fence, or the comment it concerned
    tx,        \* account -> key of the transaction holding its row lock
    wire,      \* keys of writes under way to the API
    asking,    \* keys of checks under way to the API
    answers,   \* answers on their way back: [key, to, ok, comment, version]
    sent,      \* key -> what the tab asked for under it
    shown,     \* tab -> comment -> version displayed, 0 when absent
    drafts,    \* tab -> box -> draft
    dialog,    \* tab -> open confirmation of a deletion
    reads,     \* tab -> purpose -> read under way
    told,      \* key -> what its reader was told
    discarded, \* texts given up by their writer
    seen,      \* tab -> comment -> newest version its store ever displayed
    nextKey, nextText

server == <<hist, parent, author, mutations, tx>>
net    == <<wire, asking, answers>>
tabs   == <<shown, drafts, dialog, reads>>
past   == <<told, discarded, seen>>
vars   == <<server, net, sent, tabs, past, nextKey, nextText>>

Fence == MaxComments + 1  \* a key that can never authorise a write
AllBoxes == UNION {Boxes[t] : t \in Tabs}
Purposes == {"list", "draft", "dialog"}

(* A draft: text typed (0 none), phase, key of its submission (0 none) and *)
(* whether its target is known to be gone.                                 *)
Phases == {"idle", "sending", "refused", "unknown", "checking", "unsaved"}
NoDraft    == [text |-> 0, phase |-> "idle", key |-> 0, gone |-> FALSE, open |-> FALSE]
EmptyDraft == [NoDraft EXCEPT !.open = TRUE]
NoDialog   == [comment |-> 0, version |-> 0, key |-> 0, busy |-> FALSE]

Latest(c)  == Len(hist[c])
Exists(c)  == hist[c] # <<>>
Live(c)    == Exists(c) /\ hist[c][Latest(c)].live
Root(c)    == IF parent[c] = 0 THEN c ELSE parent[c]
IsLiveAt(c, v) == v \in DOMAIN hist[c] /\ hist[c][v].live

(* What a read of the conversation of root returns: the living             *)
(* contributions and the erased ones they depend on.                       *)
Visible(c) == Live(c) \/ \E d \in Comments : Live(d) /\ parent[d] = c
Page(root) == [c \in Comments |->
                 IF Exists(c) /\ Visible(c) /\ root \in {0, Root(c)}
                 THEN Latest(c) ELSE 0]

\* Variant: the last answer wins
MergeLast(rows, incoming) ==
    [c \in Comments |-> IF incoming[c] # 0 THEN incoming[c] ELSE rows[c]]

(* mergeComments: an older version never replaces a newer one.             *)
Merge(rows, incoming) ==
    [c \in Comments |-> IF rows[c] <= incoming[c] THEN incoming[c] ELSE rows[c]]
Only(c, v) == [d \in Comments |-> IF d = c THEN v ELSE 0]

(* refreshConversation: rows of the conversation that were not returned go *)
(* unless they changed while the answer was under way.                     *)
Dropped(rows, read) ==
    [c \in Comments |->
        IF /\ rows[c] # 0
           /\ Root(c) = read.root
           /\ read.page[c] = 0
           /\ rows[c] = read.before[c]
        THEN 0 ELSE rows[c]]
-----------------------------------------------------------------------------
Init ==
    /\ hist = [c \in Comments |->
                 IF c = 1 THEN <<[live |-> TRUE, text |-> 1]>> ELSE <<>>]
    /\ parent = [c \in Comments |-> 0]
    /\ author \in {f \in [Comments -> Accounts] : \A c, d \in Comments : f[c] = f[d]}
    /\ mutations = [k \in Keys |-> 0]
    /\ tx = [a \in Accounts |-> 0]
    /\ wire = {} /\ asking = {} /\ answers = {}
    /\ sent = [k \in Keys |-> None]
    /\ shown = [t \in Tabs |-> Only(1, 1)]
    /\ drafts = [t \in Tabs |-> [b \in AllBoxes |->
                   IF b[1] = "comment" THEN EmptyDraft ELSE NoDraft]]
    /\ dialog = [t \in Tabs |-> NoDialog]
    /\ reads = [t \in Tabs |-> [p \in Purposes |-> None]]
    /\ told = [k \in Keys |-> "nothing"]
    /\ discarded = {}
    /\ seen = [t \in Tabs |-> Only(1, 1)]
    /\ nextKey = 1
    /\ nextText = 2

Show(t, rows) ==
    /\ shown' = [shown EXCEPT ![t] = rows]
    /\ seen' = [seen EXCEPT ![t] =
                  [c \in Comments |-> IF rows[c] > @[c] THEN rows[c] ELSE @[c]]]

SetDraft(t, b, d) == drafts' = [drafts EXCEPT ![t][b] = d]
-----------------------------------------------------------------------------
(* Reading.                                                                *)

(* A read notes the rows its tab held, what the API returned and the       *)
(* dialog it is for (the key of a refused deletion, 0 for other purposes); *)
(* its answer may then take any time.                                      *)
Read(root, rows, page, key) == [root |-> root, before |-> rows, page |-> page, key |-> key]
StartRead(t, p, r) == reads' = [reads EXCEPT ![t][p] = r]
Closed(t, p)       == reads' = [reads EXCEPT ![t][p] = None]
Arrived(t, p)      == reads[t][p] # None

(* A link to one contribution reads its conversation and merges it.        *)
Load(t) ==
    /\ t \in Linked
    /\ reads[t]["list"] = None
    /\ \E c \in Comments : Exists(c) /\ StartRead(t, "list", Read(Root(c), shown[t], Page(Root(c)), 0))
    /\ UNCHANGED <<server, net, sent, shown, drafts, dialog, past, nextKey, nextText>>

LoadEnds(t) ==
    /\ Arrived(t, "list")
    /\ Show(t, Merge(shown[t], reads[t]["list"].page))
    /\ Closed(t, "list")
    /\ UNCHANGED <<server, net, sent, drafts, dialog, told, discarded, nextKey, nextText>>

LoadFails(t) ==
    /\ reads[t]["list"] # None
    /\ Closed(t, "list")
    /\ UNCHANGED <<server, net, sent, shown, drafts, dialog, past, nextKey, nextText>>

Refreshed(t, p) == Merge(Dropped(shown[t], reads[t][p]), reads[t][p].page)
-----------------------------------------------------------------------------
(* Writing.                                                                *)

Shows(t, c) == IsLiveAt(c, shown[t][c])
Mine(t, c)  == author[c] = AccountOf[t]

InUse == {tb \in Tabs \X AllBoxes :
            drafts[tb[1]][tb[2]] \notin {NoDraft, EmptyDraft}}
Room(t, b) == <<t, b>> \in InUse \/ Cardinality(InUse) < MaxOpen

OpenBox(t, b) ==
    /\ b \in Boxes[t]
    /\ Room(t, b)
    /\ b[1] # "comment"
    /\ ~drafts[t][b].open
    /\ Shows(t, b[2])
    /\ b[1] = "edit" => Mine(t, b[2])
    /\ SetDraft(t, b, [EmptyDraft EXCEPT !.text =
                         IF b[1] = "edit" THEN hist[b[2]][shown[t][b[2]]].text ELSE 0])
    /\ UNCHANGED <<server, net, sent, shown, dialog, reads, past, nextKey, nextText>>

(* The textarea is read-only while a submission or a check is under way.   *)
Write(t, b) ==
    /\ drafts[t][b].open
    /\ drafts[t][b].phase \in {"idle", "unknown"}
    /\ nextText <= MaxTexts /\ Room(t, b)
    /\ SetDraft(t, b, [drafts[t][b] EXCEPT !.text = nextText])
    /\ nextText' = nextText + 1
    /\ discarded' = discarded \cup ({drafts[t][b].text} \ {0})
    /\ UNCHANGED <<server, net, sent, shown, dialog, reads, told, seen, nextKey>>

CancelBox(t, b) ==
    /\ b[1] # "comment"
    /\ drafts[t][b].open
    /\ drafts[t][b].phase = "idle"
    /\ SetDraft(t, b, NoDraft)
    /\ discarded' = discarded \cup ({drafts[t][b].text} \ {0})
    /\ UNCHANGED <<server, net, sent, shown, dialog, reads, told, seen, nextKey, nextText>>

(* submit: a new key for every submission.                                 *)
Submit(t, b) ==
    LET d == drafts[t][b] IN
    /\ d.open /\ d.phase = "idle" /\ d.text # 0 /\ ~d.gone
    /\ b[1] # "comment" => Shows(t, b[2])
    /\ nextKey <= MaxKeys
    /\ sent' = [sent EXCEPT ![nextKey] =
                  [action |-> b[1], tab |-> t, target |-> b[2], text |-> d.text,
                   expected |-> IF b[1] = "edit" THEN shown[t][b[2]] ELSE 0]]
    /\ wire' = wire \cup {nextKey}
    /\ SetDraft(t, b, [d EXCEPT !.phase = "sending", !.key = nextKey])
    /\ nextKey' = nextKey + 1
    /\ UNCHANGED <<server, asking, answers, shown, dialog, reads, past, nextText>>

\* Variant: a success clears whatever the composer holds by then
FinishClearing(t, b, a) ==
    /\ Show(t, Merge(shown[t], Only(a.comment, a.version)))
    /\ SetDraft(t, b, IF b[1] = "comment" THEN EmptyDraft ELSE NoDraft)
    /\ told' = [told EXCEPT ![drafts[t][b].key] = "saved"]

(* finishContribution clears what was sent, not what was written since.    *)
Finish(t, b, a) ==
    LET d == drafts[t][b]
        same == d.text = sent[d.key].text
    IN  /\ Show(t, Merge(shown[t], Only(a.comment, a.version)))
        /\ SetDraft(t, b, IF same THEN IF b[1] = "comment" THEN EmptyDraft ELSE NoDraft
                          ELSE [d EXCEPT !.phase = "idle", !.key = 0])
        /\ told' = [told EXCEPT ![d.key] = "saved"]

AnswerFor(t, b, to) ==
    {a \in answers : a.to = to /\ a.key = drafts[t][b].key}

SubmitAnswered(t, b) ==
    /\ drafts[t][b].phase = "sending"
    /\ \E a \in AnswerFor(t, b, "write") :
        /\ answers' = answers \ {a}
        /\ IF a.ok
           THEN Finish(t, b, a) /\ UNCHANGED <<reads>>
           ELSE IF b[1] = "comment"
           THEN /\ SetDraft(t, b, [drafts[t][b] EXCEPT !.phase = "idle", !.key = 0])
                /\ told' = [told EXCEPT ![a.key] = "unsaved"]
                /\ UNCHANGED <<shown, seen, reads>>
           ELSE /\ reads[t]["draft"] = None
                /\ SetDraft(t, b, [drafts[t][b] EXCEPT !.phase = "refused"])
                /\ StartRead(t, "draft", Read(Root(b[2]), shown[t], Page(Root(b[2])), 0))
                /\ UNCHANGED <<shown, seen, told>>
    /\ UNCHANGED <<server, wire, asking, sent, dialog, discarded, nextKey, nextText>>

\* Variant: a wait that ran out is taken for a refusal
SubmitUnknownRefused(t, b) ==
    /\ drafts[t][b].phase = "sending"
    /\ SetDraft(t, b, [drafts[t][b] EXCEPT !.phase = "idle", !.key = 0])
    /\ told' = [told EXCEPT ![drafts[t][b].key] = "unsaved"]
    /\ answers' = answers \ AnswerFor(t, b, "write")
    /\ UNCHANGED <<server, wire, asking, sent, shown, dialog, reads, discarded, seen,
                   nextKey, nextText>>

(* Fifteen seconds, a broken connection, a failed server: the outcome is   *)
(* unknown and the request stays with the draft.                           *)
SubmitUnknown(t, b) ==
    /\ drafts[t][b].phase = "sending"
    /\ SetDraft(t, b, [drafts[t][b] EXCEPT !.phase = "unknown"])
    /\ answers' = answers \ AnswerFor(t, b, "write")
    /\ UNCHANGED <<server, wire, asking, sent, shown, dialog, reads, past, nextKey, nextText>>

Check(t, b) ==
    /\ drafts[t][b].phase = "unknown"
    /\ asking' = asking \cup {drafts[t][b].key}
    /\ SetDraft(t, b, [drafts[t][b] EXCEPT !.phase = "checking"])
    /\ UNCHANGED <<server, wire, answers, sent, shown, dialog, reads, past, nextKey, nextText>>

CheckAnswered(t, b) ==
    /\ drafts[t][b].phase = "checking"
    /\ \E a \in AnswerFor(t, b, "check") :
        /\ answers' = answers \ {a}
        /\ IF a.ok
           THEN Finish(t, b, a) /\ UNCHANGED reads
           ELSE IF b[1] = "comment"
           THEN /\ SetDraft(t, b, [drafts[t][b] EXCEPT !.phase = "idle", !.key = 0])
                /\ told' = [told EXCEPT ![a.key] = "unsaved"]
                /\ UNCHANGED <<shown, seen, reads>>
           ELSE /\ reads[t]["draft"] = None
                /\ SetDraft(t, b, [drafts[t][b] EXCEPT !.phase = "unsaved"])
                /\ StartRead(t, "draft", Read(Root(b[2]), shown[t], Page(Root(b[2])), 0))
                /\ UNCHANGED <<shown, seen, told>>
    /\ UNCHANGED <<server, wire, asking, sent, dialog, discarded, nextKey, nextText>>

CheckUnknown(t, b) ==
    /\ drafts[t][b].phase = "checking"
    /\ SetDraft(t, b, [drafts[t][b] EXCEPT !.phase = "unknown"])
    /\ answers' = answers \ AnswerFor(t, b, "check")
    /\ UNCHANGED <<server, wire, asking, sent, shown, dialog, reads, past, nextKey, nextText>>

(* A refused reply or edit looks at its conversation before it says so.    *)
(* When the look fails, a reply may know from the refusal itself that what *)
(* it answers is gone.                                                     *)
TargetChecked(t, b) ==
    LET d == drafts[t][b] IN
    /\ d.phase \in {"refused", "unsaved"}
    /\ reads[t]["draft"] # None /\ reads[t]["draft"].root = Root(b[2])
    /\ \/ /\ Arrived(t, "draft")
          /\ Show(t, Refreshed(t, "draft"))
          /\ SetDraft(t, b, [d EXCEPT !.phase = "idle", !.key = 0,
                               !.gone = ~IsLiveAt(b[2], Refreshed(t, "draft")[b[2]])])
       \/ /\ \E g \in {d.gone, d.phase = "refused" /\ b[1] = "reply"} :
               SetDraft(t, b, [d EXCEPT !.phase = "idle", !.key = 0, !.gone = g])
          /\ UNCHANGED <<shown, seen>>
    /\ told' = [told EXCEPT ![d.key] = "unsaved"]
    /\ Closed(t, "draft")
    /\ UNCHANGED <<server, net, sent, dialog, discarded, nextKey, nextText>>
-----------------------------------------------------------------------------
(* Deleting and removing, each confirmed in a dialog.                      *)

OpenDialog(t, c) ==
    /\ t \in Erasing
    /\ dialog[t] = NoDialog
    /\ Shows(t, c)
    /\ Mine(t, c) \/ AccountOf[t] \in Admins
    /\ nextKey <= MaxKeys
    /\ dialog' = [dialog EXCEPT ![t] = [comment |-> c, version |-> shown[t][c],
                                        key |-> nextKey, busy |-> FALSE]]
    /\ nextKey' = nextKey + 1
    /\ UNCHANGED <<server, net, sent, shown, drafts, reads, past, nextText>>

CloseDialog(t) ==
    /\ dialog[t] # NoDialog /\ ~dialog[t].busy
    /\ dialog' = [dialog EXCEPT ![t] = NoDialog]
    /\ UNCHANGED <<server, net, sent, shown, drafts, reads, past, nextKey, nextText>>

(* A second press after an unknown outcome repeats the same request.       *)
Confirm(t) ==
    LET d == dialog[t] IN
    /\ d # NoDialog /\ ~d.busy
    /\ sent' = [sent EXCEPT ![d.key] =
                  [action |-> "erase", tab |-> t, target |-> d.comment, text |-> 0,
                   expected |-> d.version]]
    /\ wire' = wire \cup {d.key}
    /\ dialog' = [dialog EXCEPT ![t].busy = TRUE]
    /\ UNCHANGED <<server, asking, answers, shown, drafts, reads, past, nextKey, nextText>>

ConfirmAnswered(t) ==
    LET d == dialog[t] IN
    /\ d.busy
    /\ reads[t]["dialog"] = None
    /\ \E a \in answers :
        /\ a.key = d.key /\ a.to = "write"
        /\ answers' = answers \ {a}
        /\ IF a.ok
           THEN LET rows == Merge(shown[t], Only(a.comment, a.version)) IN
                /\ Show(t, rows)
                /\ StartRead(t, "dialog", Read(Root(d.comment), rows, Page(Root(d.comment)), 0))
                /\ dialog' = [dialog EXCEPT ![t] = NoDialog]
           ELSE /\ StartRead(t, "dialog", Read(Root(d.comment), shown[t], Page(Root(d.comment)),
                                               d.key))
                /\ dialog' = [dialog EXCEPT ![t].busy = FALSE]
                /\ UNCHANGED <<shown, seen>>
    /\ UNCHANGED <<server, wire, asking, sent, drafts, told, discarded, nextKey, nextText>>

ConfirmUnknown(t) ==
    LET d == dialog[t] IN
    /\ d.busy
    /\ dialog' = [dialog EXCEPT ![t].busy = FALSE]
    /\ answers' = {a \in answers : a.key # d.key}
    /\ UNCHANGED <<server, wire, asking, sent, shown, drafts, reads, past, nextKey, nextText>>

(* The conversation is read again; a dialog that was refused then shows    *)
(* the contribution as it is now, under a new key.                         *)
DialogRefreshed(t) ==
    LET d    == dialog[t]
        r    == reads[t]["dialog"]
        rows == Refreshed(t, "dialog")
    IN
    /\ Arrived(t, "dialog")
    /\ Show(t, rows)
    /\ IF r.key # 0 /\ d.key = r.key /\ rows[d.comment] # 0
       THEN /\ nextKey <= MaxKeys
            /\ dialog' = [dialog EXCEPT ![t].version = rows[d.comment], ![t].key = nextKey]
            /\ nextKey' = nextKey + 1
       ELSE UNCHANGED <<dialog, nextKey>>
    /\ Closed(t, "dialog")
    /\ UNCHANGED <<server, net, sent, drafts, told, discarded, nextText>>

DialogRefreshFails(t) ==
    /\ reads[t]["dialog"] # None
    /\ Closed(t, "dialog")
    /\ UNCHANGED <<server, net, sent, shown, drafts, dialog, past, nextKey, nextText>>
-----------------------------------------------------------------------------
(* The account changes or the page is loaded again: a new store, without   *)
(* drafts, requests or dialogs.  A sign-in in place carries the public     *)
(* rows over.  Answers to the retired store reach nobody.                  *)
Leave(t) ==
    /\ t \in Leaving
    /\ \E rows \in {shown[t], [c \in Comments |-> 0]} :
        /\ shown' = [shown EXCEPT ![t] = rows]
        /\ seen' = [seen EXCEPT ![t] = rows]
        /\ reads' = [reads EXCEPT ![t] =
                       [p \in Purposes |-> IF p = "list" THEN Read(0, rows, Page(0), 0) ELSE None]]
    /\ discarded' = discarded \cup ({drafts[t][b].text : b \in AllBoxes} \ {0})
    /\ drafts' = [drafts EXCEPT ![t] = [b \in AllBoxes |->
                    IF b[1] = "comment" THEN EmptyDraft ELSE NoDraft]]
    /\ dialog' = [dialog EXCEPT ![t] = NoDialog]
    /\ answers' = {a \in answers : sent[a.key].tab # t}
    /\ UNCHANGED <<server, wire, asking, sent, told, nextKey, nextText>>
-----------------------------------------------------------------------------
(* The API: one transaction per request, under the account's row lock.  A  *)
(* transaction that fails or dies leaves nothing behind: it stands for a   *)
(* request that was not begun.                                             *)

AccountFor(k) == AccountOf[sent[k].tab]
Holds(k) == sent[k] # None /\ tx[AccountFor(k)] = k

Begin(k) ==
    /\ k \in wire
    /\ tx[AccountFor(k)] = 0
    /\ wire' = wire \ {k}
    /\ tx' = [tx EXCEPT ![AccountFor(k)] = k]
    /\ UNCHANGED <<hist, parent, author, mutations, asking, answers, sent, tabs, past,
                   nextKey, nextText>>

(* Nobody hears an answer that was given up.                               *)
Awaited(k, to) ==
    LET t == sent[k].tab
        phase == IF to = "check" THEN "checking" ELSE "sending"
    IN  \/ \E b \in AllBoxes : drafts[t][b].key = k /\ drafts[t][b].phase = phase
        \/ to = "write" /\ dialog[t].key = k /\ dialog[t].busy

Answered(k, to, a) ==
    answers' = IF Awaited(k, to)
               THEN answers \cup {[key |-> k, to |-> to, ok |-> a.ok,
                                    comment |-> a.comment, version |-> a.version]}
               ELSE answers
\* Variant: a result counts its own change twice
ResultNext(c) == [ok |-> TRUE, comment |-> c, version |-> Len(hist'[c]) + 1]

Result(c) == [ok |-> TRUE, comment |-> c, version |-> Len(hist'[c])]
Refusal   == [ok |-> FALSE, comment |-> 0, version |-> 0]

Saved(k) == mutations[k] \in Comments

(* A request key that is known is not acted on again: its result is        *)
(* returned as it is now, and a fenced key is refused.                     *)
Replay(k) ==
    /\ mutations[k] # 0
    /\ UNCHANGED <<hist, parent, author, mutations>>
    /\ Answered(k, "write", IF Saved(k) THEN Result(mutations[k]) ELSE Refusal)

Refuse(k) ==
    /\ UNCHANGED <<hist, parent, author, mutations>>
    /\ Answered(k, "write", Refusal)

AddVersion(c, v) == hist' = [hist EXCEPT ![c] = hist[c] \o <<v>>]
Record(k, c) ==
    /\ mutations' = [mutations EXCEPT ![k] = c]
    /\ Answered(k, "write", Result(c))

(* create_comment.  It may also decline for reasons of its own (the name,  *)
(* the length, a limit); then nothing is saved.                            *)
Create(k) ==
    LET m == sent[k]
        new == Cardinality({c \in Comments : Exists(c)}) + 1
    IN  IF m.action = "reply" /\ ~Live(m.target)
        THEN Refuse(k)
        ELSE \/ Refuse(k)
             \/ /\ new \in Comments
                /\ AddVersion(new, [live |-> TRUE, text |-> m.text])
                /\ parent' = [parent EXCEPT ![new] =
                                IF m.action = "reply" THEN Root(m.target) ELSE 0]
                /\ author' = [author EXCEPT ![new] = AccountOf[m.tab]]
                /\ Record(k, new)

(* change_comment: the version the reader acted on must be the current     *)
(* one; erasing what is already erased succeeds without a change.          *)
Edit(k) ==
    LET m == sent[k] IN
    IF ~Live(m.target) \/ m.expected # Latest(m.target)
    THEN Refuse(k)
    ELSE /\ IF m.text # hist[m.target][Latest(m.target)].text
            THEN AddVersion(m.target, [live |-> TRUE, text |-> m.text])
            ELSE UNCHANGED hist
         /\ Record(k, m.target)
         /\ UNCHANGED <<parent, author>>

Erase(k) ==
    LET m == sent[k] IN
    IF Live(m.target) /\ m.expected # Latest(m.target)
    THEN Refuse(k)
    ELSE /\ IF Live(m.target)
            THEN AddVersion(m.target, [live |-> FALSE, text |-> 0])
            ELSE UNCHANGED hist
         /\ Record(k, m.target)
         /\ UNCHANGED <<parent, author>>

Commit(k) ==
    /\ Holds(k)
    /\ \/ Replay(k)
       \/ mutations[k] = 0 /\ sent[k].action \in {"comment", "reply"} /\ Create(k)
       \/ mutations[k] = 0 /\ sent[k].action = "edit" /\ Edit(k)
       \/ mutations[k] = 0 /\ sent[k].action = "erase" /\ Erase(k)
    /\ tx' = [tx EXCEPT ![AccountFor(k)] = 0]
    /\ UNCHANGED <<wire, asking, sent, tabs, past, nextKey, nextText>>

\* Variant: the check reports an unknown key without fencing it
RequestStatusUnfenced(k) ==
    /\ k \in asking
    /\ tx[AccountFor(k)] = 0
    /\ asking' = asking \ {k}
    /\ UNCHANGED <<hist, mutations>>
    /\ Answered(k, "check", IF Saved(k) THEN Result(mutations[k]) ELSE Refusal)
    /\ UNCHANGED <<parent, author, tx, wire, sent, tabs, past, nextKey, nextText>>

(* request_status waits for the account's write and fences an unknown key. *)
RequestStatus(k) ==
    /\ k \in asking
    /\ tx[AccountFor(k)] = 0
    /\ asking' = asking \ {k}
    /\ mutations' = [mutations EXCEPT ![k] = IF @ = 0 THEN Fence ELSE @]
    /\ UNCHANGED hist
    /\ Answered(k, "check", IF Saved(k) THEN Result(mutations[k]) ELSE Refusal)
    /\ UNCHANGED <<parent, author, tx, wire, sent, tabs, past, nextKey, nextText>>
-----------------------------------------------------------------------------
TabNext(t) ==
    \/ Load(t) \/ LoadEnds(t) \/ LoadFails(t)
    \/ \E b \in Boxes[t] :
         \/ OpenBox(t, b) \/ Write(t, b) \/ CancelBox(t, b)
         \/ Submit(t, b) \/ SubmitAnswered(t, b) \/ SubmitUnknown(t, b)
         \/ Check(t, b) \/ CheckAnswered(t, b) \/ CheckUnknown(t, b)
         \/ TargetChecked(t, b)
    \/ \E c \in Comments : OpenDialog(t, c)
    \/ CloseDialog(t) \/ Confirm(t) \/ ConfirmAnswered(t) \/ ConfirmUnknown(t)
    \/ DialogRefreshed(t) \/ DialogRefreshFails(t)
    \/ Leave(t)

ServerNext ==
    \E k \in Keys : \/ Begin(k) \/ Commit(k) \/ RequestStatus(k)

Next == ServerNext \/ \E t \in Tabs : TabNext(t)

Spec == Init /\ [][Next]_vars
-----------------------------------------------------------------------------
Versions == UNION {{<<c, v>> : v \in DOMAIN hist[c]} : c \in Comments}
Publications(x) == {cv \in Versions : hist[cv[1]][cv[2]].text = x}

(* Every variable of the discussion has its type.                          *)
TypeOK ==
    /\ hist \in [Comments -> Seq([live : BOOLEAN, text : 0 .. MaxTexts])]
    /\ parent \in [Comments -> 0 .. MaxComments]
    /\ author \in [Comments -> Accounts]
    /\ mutations \in [Keys -> 0 .. Fence]
    /\ tx \in [Accounts -> 0 .. MaxKeys]
    /\ wire \subseteq Keys /\ asking \subseteq Keys
    /\ \A a \in answers : /\ a.key \in Keys /\ a.to \in {"write", "check"}
                          /\ a.ok \in BOOLEAN /\ a.comment \in 0 .. Fence
                          /\ a.version \in Nat
    /\ \A t \in Tabs : \A c \in Comments : shown[t][c] \in 0 .. Latest(c)
    /\ \A t \in Tabs : \A b \in AllBoxes :
         /\ drafts[t][b].text \in 0 .. MaxTexts
         /\ drafts[t][b].phase \in Phases
         /\ drafts[t][b].key \in 0 .. MaxKeys

(* A contribution is published at most once, however often it is           *)
(* submitted, checked and submitted again, and whatever arrives late.      *)
PublishedOnce ==
    \A c, d \in Comments :
        Exists(c) /\ Exists(d) /\ hist[c][1].text = hist[d][1].text => c = d

(* A submission that its reader was told had not been posted is never      *)
(* saved afterwards, and one reported as posted is saved.                  *)
VerdictIsTrue ==
    \A k \in Keys : /\ told[k] = "unsaved" => ~Saved(k)
                    /\ told[k] = "saved" => Saved(k)

(* No text a reader wrote is lost: it is in a draft, was published, or was *)
(* given up by the reader.                                                 *)
DraftsAreKept ==
    \A x \in 1 .. nextText - 1 :
        \/ x \in discarded
        \/ Publications(x) # {}
        \/ \E t \in Tabs : \E b \in AllBoxes : drafts[t][b].text = x

(* A late answer never takes a tab back to an older version of a           *)
(* contribution that it displays.                                          *)
NeverOlder ==
    [][\A t \in Tabs : \A c \in Comments :
         shown[t][c] # 0 /\ shown'[t][c] # 0 /\ ~Leave(t) => shown'[t][c] >= shown[t][c]]_vars

(* Text that a tab has seen deleted is not displayed again by an older     *)
(* read.                                                                   *)
DeletedStaysDeleted ==
    \A t \in Tabs : \A c \in Comments : shown[t][c] # 0 => shown[t][c] >= seen[t][c]
=============================================================================
