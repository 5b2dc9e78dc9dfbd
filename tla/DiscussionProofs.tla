-------------------------- MODULE DiscussionProofs --------------------------
(***************************************************************************)
(* Proofs about Discussion, for any number of tabs, accounts, comments,    *)
(* request keys and texts.                                                 *)
(***************************************************************************)
EXTENDS Discussion, FiniteSetTheorems, SequenceTheorems, TLAPS

Version == [live : BOOLEAN, text : 0 .. MaxTexts]
Rows    == [Comments -> Nat]
Drafts  == [text : 0 .. MaxTexts, phase : Phases, key : 0 .. MaxKeys, gone : BOOLEAN,
            open : BOOLEAN]
Dialogs == {NoDialog} \cup [comment : Comments, version : Nat, key : Keys, busy : BOOLEAN]
Reads   == [root : 0 .. MaxComments, before : Rows, page : Rows, key : 0 .. MaxKeys]
Answers == {a \in [key : Keys, to : {"write", "check"}, ok : BOOLEAN,
                   comment : 0 .. MaxComments, version : Nat] : a.ok => a.comment \in Comments}

ServerTyped == /\ hist \in [Comments -> Seq(Version)]
               /\ parent \in [Comments -> 0 .. MaxComments]
               /\ author \in [Comments -> Accounts]
               /\ mutations \in [Keys -> 0 .. Fence]
               /\ tx \in [Accounts -> 0 .. MaxKeys]
NetTyped    == /\ wire \subseteq Keys /\ asking \subseteq Keys
               /\ answers \subseteq Answers
               /\ sent \in [Keys -> Submissions \cup {None}]
ShownTyped  == /\ shown \in [Tabs -> Rows]
               /\ seen \in [Tabs -> Rows]
               /\ reads \in [Tabs -> [Purposes -> Reads \cup {None}]]
BoxTyped    == /\ drafts \in [Tabs -> [AllBoxes -> Drafts]]
               /\ dialog \in [Tabs -> Dialogs]
PastTyped   == /\ told \in [Keys -> {"nothing", "saved", "unsaved"}]
               /\ discarded \subseteq 0 .. MaxTexts
               /\ nextKey \in 1 .. MaxKeys + 1
               /\ nextText \in 2 .. MaxTexts + 1

Typed == ServerTyped /\ NetTyped /\ ShownTyped /\ BoxTyped /\ PastTyped

(* A composer that waits for an answer has sent the request it waits for.  *)
Asked ==
    \A t \in Tabs : \A b \in AllBoxes :
        LET d == drafts[t][b] IN
        /\ d.phase = "idle" => d.key = 0
        /\ d.phase # "idle" =>
             /\ d.key # 0 /\ sent[d.key] # None /\ sent[d.key].tab = t
             /\ sent[d.key].action = b[1] /\ sent[d.key].target = b[2]

Contribution(k) == sent[k] # None /\ sent[k].action # "erase"

(* What a composer holds when it is opened.                                *)
Opened(t, b) ==
    [EmptyDraft EXCEPT !.text = IF b[1] = "edit" THEN hist[b[2]][shown[t][b[2]]].text ELSE 0]

(* Whatever is under way, answered or told about was sent, under a key     *)
(* that was drawn.                                                         *)
KeysDrawn ==
    /\ \A k \in Keys : sent[k] # None => k < nextKey
    /\ \A k \in Keys : told[k] # "nothing" => sent[k] # None
    /\ \A k \in wire \cup asking : sent[k] # None
    /\ \A a \in answers : sent[a.key] # None

(* A key belongs to one dialog, and to nothing but its deletion.           *)
DialogKeys ==
    /\ \A t \in Tabs : dialog[t].key # 0 =>
         /\ dialog[t].key < nextKey
         /\ sent[dialog[t].key] # None =>
              sent[dialog[t].key].action = "erase" /\ sent[dialog[t].key].tab = t
    /\ \A t, u \in Tabs : dialog[t].key # 0 /\ dialog[t].key = dialog[u].key => t = u

(* An account's lock is held by a request of that account, which is no     *)
(* longer on its way if it is a contribution.                              *)
LocksOwned ==
    /\ \A a \in Accounts : tx[a] # 0 => sent[tx[a]] # None /\ AccountFor(tx[a]) = a
    /\ \A k \in wire : Contribution(k) => ~Holds(k)

Known == Asked /\ KeysDrawn /\ DialogKeys /\ LocksOwned

(* A request that can never be acted on any more.                          *)
Dead(k) == mutations[k] = Fence \/ (mutations[k] = 0 /\ k \notin wire /\ ~Holds(k))

(* Every answer, and everything a reader was told, is final: a success is  *)
(* recorded, and a contribution that was refused is dead.                  *)
Reported ==
    /\ \A a \in answers : IF a.ok THEN Saved(a.key) ELSE Contribution(a.key) => Dead(a.key)
    /\ \A t \in Tabs : \A b \in AllBoxes :
         drafts[t][b].phase \in {"refused", "unsaved"} => Dead(drafts[t][b].key)
    /\ \A k \in Keys : told[k] = "unsaved" => Contribution(k) /\ Dead(k)
    /\ \A k \in Keys : told[k] = "saved" => Saved(k)

(* Nothing is displayed, read or answered that the API does not hold.      *)
Bounded ==
    /\ \A t \in Tabs : \A c \in Comments : shown[t][c] <= Latest(c)
    /\ \A t \in Tabs : \A p \in Purposes : reads[t][p] # None =>
         \A c \in Comments : reads[t][p].page[c] <= Latest(c)
    /\ \A a \in answers : a.ok => a.version <= Latest(a.comment)
-----------------------------------------------------------------------------
(* What the helpers leave typed.                                           *)

(* A composer is named by what it writes and the comment it writes about.  *)
LEMMA BoxParts ==
    /\ \A t \in Tabs : Boxes[t] \subseteq AllBoxes
    /\ \A b \in AllBoxes : /\ b = <<b[1], b[2]>>
                           /\ \/ b[1] = "comment" /\ b[2] = 0
                              \/ b[1] \in {"reply", "edit"} /\ b[2] \in Comments
PROOF
<1>1. \A t \in Tabs : Boxes[t] \subseteq AllBoxes
  BY DEF AllBoxes
<1>2. \A b \in AllBoxes : b \in {<<"comment", 0>>} \cup ({"reply", "edit"} \X Comments)
  BY BoxAssumption DEF AllBoxes
<1> QED
  BY <1>1, <1>2

(* Merging, dropping and paging give rows again.                           *)
LEMMA MergeTyped ==
    ASSUME NEW rows \in Rows, NEW incoming \in Rows
    PROVE  Merge(rows, incoming) \in Rows
BY DEF Rows, Merge

(* The row of one answer is a row of the store.                            *)
LEMMA OnlyTyped ==
    ASSUME NEW c, NEW v \in Nat
    PROVE  Only(c, v) \in Rows
BY DEF Rows, Only

(* What the API returns of a conversation are rows.                        *)
LEMMA PageTyped ==
    ASSUME ServerTyped, NEW root
    PROVE  Page(root) \in Rows
BY DEF Rows, Page, ServerTyped, Latest

(* So is what a refresh leaves of the store.                               *)
LEMMA RefreshedTyped ==
    ASSUME ShownTyped, NEW t \in Tabs, NEW p \in Purposes, reads[t][p] # None
    PROVE  Refreshed(t, p) \in Rows
PROOF
<1>1. reads[t][p] \in Reads /\ shown[t] \in Rows
  BY DEF ShownTyped
<1>2. Dropped(shown[t], reads[t][p]) \in Rows /\ reads[t][p].page \in Rows
  BY <1>1 DEF Dropped, Rows, Reads
<1> QED
  BY <1>2, MergeTyped DEF Refreshed

(* Every contribution has a root, or is one.                               *)
LEMMA RootTyped ==
    ASSUME ServerTyped, NEW c \in Comments
    PROVE  Root(c) \in 0 .. MaxComments
BY BoundsAssumption DEF ServerTyped, Root, Comments

(* A read that begins is a read.                                           *)
LEMMA ReadTyped ==
    ASSUME NEW root \in 0 .. MaxComments, NEW rows \in Rows, NEW page \in Rows,
           NEW key \in 0 .. MaxKeys
    PROVE  Read(root, rows, page, key) \in Reads
BY DEF Read, Reads

(* What a tab shows, and the newest it ever showed, stay rows.             *)
LEMMA ShowTyped ==
    ASSUME ShownTyped, NEW t \in Tabs, NEW rows \in Rows, Show(t, rows)
    PROVE  shown' \in [Tabs -> Rows] /\ seen' \in [Tabs -> Rows]
PROOF
<1>1. shown' \in [Tabs -> Rows]
  BY DEF ShownTyped, Show
<1>2. [c \in Comments |-> IF rows[c] > seen[t][c] THEN rows[c] ELSE seen[t][c]] \in Rows
  BY DEF ShownTyped, Rows
<1>3. seen' \in [Tabs -> Rows]
  BY <1>2 DEF ShownTyped, Show
<1> QED
  BY <1>1, <1>3

(* Setting one composer leaves the composers drafts.                       *)
LEMMA DraftTyped ==
    ASSUME BoxTyped, NEW t \in Tabs, NEW b \in AllBoxes, NEW d \in Drafts, SetDraft(t, b, d)
    PROVE  drafts' \in [Tabs -> [AllBoxes -> Drafts]]
BY DEF BoxTyped, SetDraft

(* Empty composers are drafts, and so is a draft whose phase, key or text  *)
(* changed.                                                                *)
LEMMA DraftForms ==
    /\ NoDraft \in Drafts /\ EmptyDraft \in Drafts
    /\ \A d \in Drafts : \A p \in Phases : \A k \in 0 .. MaxKeys :
         /\ [d EXCEPT !.phase = p] \in Drafts
         /\ [d EXCEPT !.phase = p, !.key = k] \in Drafts
         /\ \A g \in BOOLEAN : [d EXCEPT !.phase = p, !.key = k, !.gone = g] \in Drafts
    /\ \A d \in Drafts : \A x \in 0 .. MaxTexts : [d EXCEPT !.text = x] \in Drafts
PROOF
<1>0. 0 \in 0 .. MaxTexts /\ 0 \in 0 .. MaxKeys /\ "idle" \in Phases
  BY BoundsAssumption DEF Phases
<1>1. NoDraft \in Drafts /\ EmptyDraft \in Drafts
  <2>1. NoDraft \in Drafts
    BY <1>0 DEF NoDraft, Drafts
  <2>2. EmptyDraft \in Drafts
    BY <2>1 DEF EmptyDraft, Drafts
  <2> QED
    BY <2>1, <2>2
<1>2. ASSUME NEW d \in Drafts, NEW p \in Phases, NEW k \in 0 .. MaxKeys
      PROVE  /\ [d EXCEPT !.phase = p] \in Drafts
             /\ [d EXCEPT !.phase = p, !.key = k] \in Drafts
  BY DEF Drafts, Phases
<1>3. ASSUME NEW d \in Drafts, NEW p \in Phases, NEW k \in 0 .. MaxKeys, NEW g \in BOOLEAN
      PROVE  [d EXCEPT !.phase = p, !.key = k, !.gone = g] \in Drafts
  BY DEF Drafts, Phases
<1>4. ASSUME NEW d \in Drafts, NEW x \in 0 .. MaxTexts
      PROVE  [d EXCEPT !.text = x] \in Drafts
  BY DEF Drafts, Phases
<1> QED
  BY <1>1, <1>2, <1>3, <1>4

(* Names of phases and purposes, and zeros, for the steps below.           *)
LEMMA PhaseNames ==
    /\ Phases = {"idle", "sending", "refused", "unknown", "checking", "unsaved"}
    /\ 0 \in 0 .. MaxKeys /\ 0 \in 0 .. MaxTexts
    /\ {"list", "draft", "dialog"} = Purposes
BY BoundsAssumption DEF Phases, Purposes

(* An answer under way is an answer.                                       *)
LEMMA AnsweredTyped ==
    ASSUME NetTyped, NEW k \in Keys, NEW to \in {"write", "check"},
           NEW a \in [ok : BOOLEAN, comment : 0 .. MaxComments, version : Nat],
           a.ok => a.comment \in Comments, Answered(k, to, a)
    PROVE  answers' \subseteq Answers
PROOF
<1>1. [key |-> k, to |-> to, ok |-> a.ok, comment |-> a.comment, version |-> a.version] \in Answers
  BY DEF Answers
<1> QED
  BY <1>1 DEF NetTyped, Answered
-----------------------------------------------------------------------------
(* An open dialog concerns a comment and has a request key.                *)
LEMMA DialogParts ==
    ASSUME BoxTyped, NEW t \in Tabs
    PROVE  /\ NoDialog \in Dialogs /\ ~NoDialog.busy /\ NoDialog.key = 0
           /\ dialog[t] # NoDialog =>
                /\ dialog[t].comment \in Comments /\ dialog[t].version \in Nat
                /\ dialog[t].key \in Keys /\ dialog[t].key # 0 /\ dialog[t].busy \in BOOLEAN
                /\ dialog[t].key \in 0 .. MaxKeys
                /\ [dialog[t] EXCEPT !.busy = TRUE] \in Dialogs
                /\ [dialog[t] EXCEPT !.busy = FALSE] \in Dialogs
                /\ \A v \in Nat, k \in Keys :
                     [dialog[t] EXCEPT !.version = v, !.key = k] \in Dialogs
PROOF
<1>1. dialog[t] \in Dialogs
  BY DEF BoxTyped
<1>2. NoDialog \in Dialogs /\ ~NoDialog.busy /\ NoDialog.key = 0
  BY DEF Dialogs, NoDialog
<1>3. CASE dialog[t] # NoDialog
  <2>1. dialog[t] \in [comment : Comments, version : Nat, key : Keys, busy : BOOLEAN]
    BY <1>1, <1>3 DEF Dialogs
  <2>2. /\ dialog[t].comment \in Comments /\ dialog[t].version \in Nat
        /\ dialog[t].key \in Keys /\ dialog[t].key # 0 /\ dialog[t].busy \in BOOLEAN
        /\ dialog[t].key \in 0 .. MaxKeys
    BY <2>1, BoundsAssumption DEF Keys
  <2>3. \A x \in BOOLEAN : [dialog[t] EXCEPT !.busy = x]
           \in [comment : Comments, version : Nat, key : Keys, busy : BOOLEAN]
    BY <2>1
  <2>4. ASSUME NEW v \in Nat, NEW k \in Keys
        PROVE  [dialog[t] EXCEPT !.version = v, !.key = k]
                 \in [comment : Comments, version : Nat, key : Keys, busy : BOOLEAN]
    BY <2>1
  <2> QED
    BY <1>2, <2>2, <2>3, <2>4 DEF Dialogs
<1> QED
  BY <1>2, <1>3

(* A new version is added to a history of versions, whatever it is.        *)
LEMMA AddTyped ==
    ASSUME ServerTyped, NEW c \in Comments, NEW v \in Version, AddVersion(c, v)
    PROVE  hist' \in [Comments -> Seq(Version)]
PROOF
<1>1. hist[c] \o <<v>> \in Seq(Version)
  BY DEF ServerTyped
<1> QED
  BY <1>1 DEF ServerTyped, AddVersion

(* The result of a change names its comment.                               *)
LEMMA ResultTyped ==
    ASSUME hist' \in [Comments -> Seq(Version)], NetTyped, NEW k \in Keys,
           NEW to \in {"write", "check"}, NEW c \in Comments, Answered(k, to, Result(c))
    PROVE  answers' \subseteq Answers
PROOF
<1>1. Len(hist'[c]) \in Nat
  BY LenProperties
<1>2. c \in 0 .. MaxComments
  BY BoundsAssumption DEF Comments
<1>3. /\ Result(c) \in [ok : BOOLEAN, comment : 0 .. MaxComments, version : Nat]
      /\ Result(c).ok => Result(c).comment \in Comments
  BY <1>1, <1>2 DEF Result
<1> QED
  BY <1>3, AnsweredTyped

(* A refusal is an answer.                                                 *)
LEMMA RefusalTyped ==
    ASSUME NetTyped, NEW k \in Keys, NEW to \in {"write", "check"}, Answered(k, to, Refusal)
    PROVE  answers' \subseteq Answers
PROOF
<1>1. 0 \in 0 .. MaxComments
  BY BoundsAssumption
<1>2. /\ Refusal \in [ok : BOOLEAN, comment : 0 .. MaxComments, version : Nat]
      /\ Refusal.ok => Refusal.comment \in Comments
  BY <1>1 DEF Refusal
<1> QED
  BY <1>2, AnsweredTyped

(* A request that was sent has the parts of a submission.                  *)
LEMMA SentParts ==
    ASSUME NetTyped, NEW k \in Keys, sent[k] # None
    PROVE  /\ sent[k].action \in {"comment", "reply", "edit", "erase"}
           /\ sent[k].tab \in Tabs /\ AccountFor(k) \in Accounts
           /\ sent[k].text \in 0 .. MaxTexts /\ sent[k].expected \in Nat
           /\ sent[k].action # "comment" => sent[k].target \in Comments
           /\ sent[k].action # "erase" => sent[k].text # 0
PROOF
<1>1. sent[k] \in Submissions
  BY DEF NetTyped
<1> QED
  BY <1>1, AccountAssumption DEF Submissions, AccountFor

(* A contribution that is created leaves the records typed.                *)
LEMMA CreateTyped ==
    ASSUME ServerTyped, NetTyped, NEW k \in Keys, sent[k] # None,
           sent[k].action \in {"comment", "reply"}, Create(k)
    PROVE  /\ hist' \in [Comments -> Seq(Version)]
           /\ parent' \in [Comments -> 0 .. MaxComments]
           /\ author' \in [Comments -> Accounts]
           /\ mutations' \in [Keys -> 0 .. Fence]
           /\ answers' \subseteq Answers
PROOF
<1> DEFINE new == Cardinality({c \in Comments : Exists(c)}) + 1
<1>1. CASE Refuse(k)
  BY <1>1, RefusalTyped DEF Refuse, ServerTyped
<1>2. CASE /\ new \in Comments
           /\ AddVersion(new, [live |-> TRUE, text |-> sent[k].text])
           /\ parent' = [parent EXCEPT ![new] =
                           IF sent[k].action = "reply" THEN Root(sent[k].target) ELSE 0]
           /\ author' = [author EXCEPT ![new] = AccountOf[sent[k].tab]]
           /\ Record(k, new)
  <2> HIDE DEF new
  <2>1. [live |-> TRUE, text |-> sent[k].text] \in Version
    BY SentParts DEF Version
  <2>2. hist' \in [Comments -> Seq(Version)]
    BY <1>2, <2>1, AddTyped
  <2>3. (IF sent[k].action = "reply" THEN Root(sent[k].target) ELSE 0) \in 0 .. MaxComments
    BY SentParts, RootTyped, BoundsAssumption
  <2>4. parent' \in [Comments -> 0 .. MaxComments]
    BY <1>2, <2>3 DEF ServerTyped
  <2>5. author' \in [Comments -> Accounts]
    BY <1>2, SentParts DEF ServerTyped, AccountFor
  <2>6. mutations' \in [Keys -> 0 .. Fence]
    BY <1>2, BoundsAssumption DEF ServerTyped, Record, Comments, Fence
  <2>7. answers' \subseteq Answers
    BY <1>2, <2>2, ResultTyped DEF Record
  <2> QED
    BY <2>2, <2>4, <2>5, <2>6, <2>7
<1> QED
  BY <1>1, <1>2 DEF Create

(* A key that is recorded leaves the results and the answers typed.        *)
LEMMA RecordTyped ==
    ASSUME ServerTyped, NetTyped, hist' \in [Comments -> Seq(Version)],
           NEW k \in Keys, NEW c \in Comments, Record(k, c)
    PROVE  mutations' \in [Keys -> 0 .. Fence] /\ answers' \subseteq Answers
PROOF
<1>1. mutations' \in [Keys -> 0 .. Fence]
  BY BoundsAssumption DEF ServerTyped, Record, Comments, Fence
<1>2. answers' \subseteq Answers
  BY ResultTyped DEF Record
<1> QED
  BY <1>1, <1>2

(* An edit leaves the records typed.                                       *)
LEMMA EditTyped ==
    ASSUME ServerTyped, NetTyped, NEW k \in Keys, sent[k] # None,
           (sent[k].action = "edit" /\ Edit(k)) \/ (sent[k].action = "erase" /\ Erase(k))
    PROVE  /\ hist' \in [Comments -> Seq(Version)]
           /\ parent' \in [Comments -> 0 .. MaxComments]
           /\ author' \in [Comments -> Accounts]
           /\ mutations' \in [Keys -> 0 .. Fence]
           /\ answers' \subseteq Answers
PROOF
<1>1. /\ sent[k].target \in Comments
      /\ [live |-> TRUE, text |-> sent[k].text] \in Version
      /\ [live |-> FALSE, text |-> 0] \in Version
  BY SentParts, BoundsAssumption DEF Version
<1>2. CASE Refuse(k)
  BY <1>2, RefusalTyped DEF Refuse, ServerTyped
<1>3. CASE /\ \/ UNCHANGED hist
              \/ \E v \in Version : AddVersion(sent[k].target, v)
           /\ Record(k, sent[k].target)
           /\ UNCHANGED <<parent, author>>
  <2>1. hist' \in [Comments -> Seq(Version)]
    BY <1>1, <1>3, AddTyped DEF ServerTyped
  <2> QED
    BY <1>1, <1>3, <2>1, RecordTyped DEF ServerTyped
<1> QED
  BY <1>1, <1>2, <1>3 DEF Edit, Erase

(* A known key leaves the records as they are.                             *)
LEMMA ReplayTyped ==
    ASSUME ServerTyped, NetTyped, NEW k \in Keys, Replay(k)
    PROVE  answers' \subseteq Answers
PROOF
<1>1. hist' \in [Comments -> Seq(Version)]
  BY DEF Replay, ServerTyped
<1>2. CASE Saved(k)
  BY <1>1, <1>2, ResultTyped DEF Replay, Saved
<1>3. CASE ~Saved(k)
  BY <1>3, RefusalTyped DEF Replay
<1> QED
  BY <1>2, <1>3

(* Whatever the transaction did, its commit leaves the records typed.      *)
LEMMA CommitTyped ==
    ASSUME ServerTyped, NetTyped, NEW k \in Keys, Commit(k)
    PROVE  ServerTyped' /\ NetTyped'
PROOF
<1>1. sent[k] # None
  BY DEF Commit, Holds
<1>2. tx' \in [Accounts -> 0 .. MaxKeys]
  BY PhaseNames DEF Commit, ServerTyped
<1>3. NetTyped' <=> answers' \subseteq Answers
  BY DEF Commit, NetTyped
<1>4. CASE Replay(k)
  BY <1>2, <1>3, <1>4, ReplayTyped DEF Replay, ServerTyped
<1>5. CASE sent[k].action \in {"comment", "reply"} /\ Create(k)
  BY <1>1, <1>2, <1>3, <1>5, CreateTyped DEF ServerTyped
<1>6. CASE (sent[k].action = "edit" /\ Edit(k)) \/ (sent[k].action = "erase" /\ Erase(k))
  BY <1>1, <1>2, <1>3, <1>6, EditTyped DEF ServerTyped
<1>7. \/ Replay(k)
      \/ sent[k].action \in {"comment", "reply"} /\ Create(k)
      \/ sent[k].action = "edit" /\ Edit(k)
      \/ sent[k].action = "erase" /\ Erase(k)
  BY DEF Commit
<1> QED
  BY <1>4, <1>5, <1>6, <1>7

(* The check of a request leaves the records typed.                        *)
LEMMA StatusTyped ==
    ASSUME ServerTyped, NetTyped, NEW k \in Keys, RequestStatus(k)
    PROVE  ServerTyped' /\ NetTyped'
PROOF
<1>1. ServerTyped'
  BY BoundsAssumption DEF RequestStatus, ServerTyped, Fence
<1>2. hist' \in [Comments -> Seq(Version)]
  BY <1>1 DEF ServerTyped
<1>3. CASE Saved(k)
  <2>1. answers' \subseteq Answers
    BY <1>2, <1>3, ResultTyped DEF RequestStatus, Saved
  <2> QED
    BY <1>1, <2>1 DEF RequestStatus, NetTyped
<1>4. CASE ~Saved(k)
  <2>1. answers' \subseteq Answers
    BY <1>4, RefusalTyped DEF RequestStatus
  <2> QED
    BY <1>1, <2>1 DEF RequestStatus, NetTyped
<1> QED
  BY <1>3, <1>4

(* What a submission and a confirmed deletion send.                        *)
SubmitSent(t, b) ==
    /\ nextKey \in Keys /\ nextKey' = nextKey + 1
    /\ wire' = wire \cup {nextKey}
    /\ sent' \in [Keys -> Submissions \cup {None}]
    /\ sent'[nextKey] # None /\ sent'[nextKey].tab = t
    /\ sent'[nextKey].action = b[1] /\ sent'[nextKey].target = b[2]
    /\ sent'[nextKey].text = drafts[t][b].text
    /\ \A k \in Keys : k # nextKey => sent'[k] = sent[k]

ConfirmSent(t) ==
    /\ dialog[t].key \in Keys /\ dialog[t].key # 0
    /\ dialog[t].comment \in Comments
    /\ [dialog[t] EXCEPT !.busy = TRUE] \in Dialogs
    /\ wire' = wire \cup {dialog[t].key}
    /\ sent' \in [Keys -> Submissions \cup {None}]
    /\ sent'[dialog[t].key] # None /\ sent'[dialog[t].key].tab = t
    /\ sent'[dialog[t].key].action = "erase"
    /\ \A k \in Keys : k # dialog[t].key => sent'[k] = sent[k]

(* A submission sends a request under the next key.                        *)
LEMMA SubmitSends ==
    ASSUME Typed, NEW t \in Tabs, NEW b \in Boxes[t], Submit(t, b)
    PROVE  SubmitSent(t, b)
PROOF
<1> DEFINE m == [action |-> b[1], tab |-> t, target |-> b[2], text |-> drafts[t][b].text,
                 expected |-> IF b[1] = "edit" THEN shown[t][b[2]] ELSE 0]
<1>1. b \in AllBoxes
  BY BoxParts
<1>2. drafts[t][b].text \in 0 .. MaxTexts /\ shown[t] \in Rows
  BY <1>1 DEF Typed, BoxTyped, Drafts, ShownTyped
<1>3. b[1] = "edit" => shown[t][b[2]] \in Nat
  BY <1>1, <1>2, BoxParts DEF Rows
<1>4. m \in Submissions
  BY <1>1, <1>2, <1>3, BoxParts, BoundsAssumption DEF Submit, Submissions, Comments
<1>5. nextKey \in Keys /\ nextKey' = nextKey + 1 /\ wire' = wire \cup {nextKey}
  BY BoundsAssumption DEF Submit, Typed, PastTyped, Keys
<1>6. sent' = [sent EXCEPT ![nextKey] = m]
  BY DEF Submit
<1>7. /\ m.tab = t /\ m.action = b[1] /\ m.target = b[2] /\ m.text = drafts[t][b].text
      /\ m # None
  BY <1>4, NoneAssumption
<1> HIDE DEF m
<1> QED
  BY <1>4, <1>5, <1>6, <1>7 DEF SubmitSent, Typed, NetTyped

(* A confirmation sends the deletion under the key of its dialog.          *)
LEMMA ConfirmSends ==
    ASSUME Typed, NEW t \in Tabs, Confirm(t)
    PROVE  ConfirmSent(t)
PROOF
<1> DEFINE m == [action |-> "erase", tab |-> t, target |-> dialog[t].comment, text |-> 0,
                 expected |-> dialog[t].version]
<1>1. /\ dialog[t].key \in Keys /\ dialog[t].key # 0
      /\ dialog[t].comment \in Comments /\ dialog[t].version \in Nat
      /\ [dialog[t] EXCEPT !.busy = TRUE] \in Dialogs
  BY DialogParts DEF Confirm, Typed
<1>2. m \in Submissions
  BY <1>1, BoundsAssumption DEF Submissions, Comments
<1>3. sent' = [sent EXCEPT ![dialog[t].key] = m] /\ wire' = wire \cup {dialog[t].key}
  BY DEF Confirm
<1>4. m.tab = t /\ m.action = "erase" /\ m # None
  BY <1>2, NoneAssumption
<1> HIDE DEF m
<1> QED
  BY <1>1, <1>2, <1>3, <1>4 DEF ConfirmSent, Typed, NetTyped
-----------------------------------------------------------------------------
(* The types are kept.                                                     *)
LEMMA TypedStep ==
    ASSUME Typed, Asked, [Next]_vars
    PROVE  Typed'
PROOF
<1>1. ASSUME NEW t \in Tabs, Load(t) PROVE Typed'
  <2>1. ShownTyped'
    BY <1>1, PageTyped, RootTyped, ReadTyped, PhaseNames DEF Load, Typed, ShownTyped,
       StartRead, tabs, past
  <2>2. ServerTyped' /\ NetTyped' /\ BoxTyped' /\ PastTyped'
    BY <1>1 DEF Load, Typed, ServerTyped, NetTyped, BoxTyped, PastTyped, net, past, server, tabs
  <2> QED
    BY <2>1, <2>2 DEF Typed
<1>2. ASSUME NEW t \in Tabs, LoadEnds(t) PROVE Typed'
  <2>1. ShownTyped'
    BY <1>2, ShowTyped, MergeTyped, PhaseNames DEF LoadEnds, Typed, ShownTyped, Closed,
       Arrived, Reads, tabs, past
  <2>2. ServerTyped' /\ NetTyped' /\ BoxTyped' /\ PastTyped'
    BY <1>2 DEF LoadEnds, Typed, ServerTyped, NetTyped, BoxTyped, PastTyped, net, past,
       server, tabs
  <2> QED
    BY <2>1, <2>2 DEF Typed
<1>3. ASSUME NEW t \in Tabs, LoadFails(t) PROVE Typed'
  <2>1. ShownTyped'
    BY <1>3, PhaseNames DEF LoadFails, Typed, ShownTyped, Closed, tabs, past
  <2>2. ServerTyped' /\ NetTyped' /\ BoxTyped' /\ PastTyped'
    BY <1>3 DEF LoadFails, Typed, ServerTyped, NetTyped, BoxTyped, PastTyped, net, past,
       server, tabs
  <2> QED
    BY <2>1, <2>2 DEF Typed
<1>4. ASSUME NEW t \in Tabs, NEW b \in Boxes[t], OpenBox(t, b) PROVE Typed'
  <2>0. b \in AllBoxes
    BY BoxParts
  <2>1. BoxTyped'
    <3>1. (IF b[1] = "edit" THEN hist[b[2]][shown[t][b[2]]].text ELSE 0) \in 0 .. MaxTexts
      <4>1. CASE b[1] = "edit"
        <5>1. b[2] \in Comments /\ shown[t][b[2]] \in DOMAIN hist[b[2]]
          BY <1>4, <2>0, <4>1, BoxParts DEF OpenBox, Shows, IsLiveAt
        <5>2. hist[b[2]] \in Seq(Version)
          BY <5>1 DEF Typed, ServerTyped
        <5>3. hist[b[2]][shown[t][b[2]]] \in Version
          BY <5>1, <5>2
        <5> QED
          BY <4>1, <5>3 DEF Version
      <4>2. CASE b[1] # "edit"
        BY <4>2, BoundsAssumption
      <4> QED
        BY <4>1, <4>2
    <3>2. Opened(t, b)
            \in Drafts
      BY <3>1, DraftForms DEF Opened
    <3>3. drafts' \in [Tabs -> [AllBoxes -> Drafts]]
      BY <1>4, <2>0, <3>2, DraftTyped DEF OpenBox, Typed, Opened
    <3> QED
      BY <1>4, <3>3 DEF OpenBox, Typed, BoxTyped
  <2>2. ServerTyped' /\ NetTyped' /\ ShownTyped' /\ PastTyped'
    BY <1>4 DEF OpenBox, Typed, ServerTyped, NetTyped, ShownTyped, PastTyped, net, past,
       server, tabs
  <2> QED
    BY <2>1, <2>2 DEF Typed
<1>5. ASSUME NEW t \in Tabs, NEW b \in Boxes[t], Write(t, b) PROVE Typed'
  <2>0. b \in AllBoxes
    BY BoxParts
  <2>1. BoxTyped'
    <3>0. nextText \in 0 .. MaxTexts
      BY <1>5, BoundsAssumption DEF Write, Typed, PastTyped
    <3>1. drafts[t][b] \in Drafts
      BY <2>0 DEF Typed, BoxTyped
    <3>2. [drafts[t][b] EXCEPT !.text = nextText] \in Drafts
      BY <3>1, <3>0 DEF Drafts, Phases
    <3>3. \A d \in Drafts : SetDraft(t, b, d) => drafts' \in [Tabs -> [AllBoxes -> Drafts]]
      BY <2>0, DraftTyped DEF Typed
    <3>4. BoxTyped
      BY DEF Typed
    <3> QED
      BY <1>5, <3>2, <3>3, <3>4, DraftForms DEF Write, BoxTyped
  <2>2. PastTyped'
    BY <1>5, <2>0, BoundsAssumption, BoxParts DEF Write, Typed, PastTyped, BoxTyped, Drafts,
       past
  <2>3. ServerTyped' /\ NetTyped' /\ ShownTyped'
    BY <1>5 DEF Write, Typed, ServerTyped, NetTyped, ShownTyped, net, past, server, tabs
  <2> QED
    BY <2>1, <2>2, <2>3 DEF Typed
<1>6. ASSUME NEW t \in Tabs, NEW b \in Boxes[t], CancelBox(t, b) PROVE Typed'
  <2>0. b \in AllBoxes
    BY BoxParts
  <2>1. BoxTyped'
    BY <1>6, <2>0, DraftTyped, DraftForms, PhaseNames, BoxParts DEF CancelBox, Typed,
       BoxTyped, tabs
  <2>2. PastTyped'
    BY <1>6, <2>0, BoxParts DEF CancelBox, Typed, PastTyped, BoxTyped, Drafts, past
  <2>3. ServerTyped' /\ NetTyped' /\ ShownTyped'
    BY <1>6 DEF CancelBox, Typed, ServerTyped, NetTyped, ShownTyped, net, past, server, tabs
  <2> QED
    BY <2>1, <2>2, <2>3 DEF Typed
<1>7. ASSUME NEW t \in Tabs, NEW b \in Boxes[t], Submit(t, b) PROVE Typed'
  <2>0. b \in AllBoxes
    BY BoxParts
  <2>1. NetTyped'
    <3>1. SubmitSent(t, b)
      BY <1>7, SubmitSends
    <3> QED
      BY <1>7, <3>1 DEF Submit, SubmitSent, Typed, NetTyped
  <2>2. BoxTyped'
    <3>0. nextKey \in 0 .. MaxKeys
      BY <1>7, BoundsAssumption DEF Submit, Typed, PastTyped
    <3>1. drafts[t][b] \in Drafts
      BY <2>0 DEF Typed, BoxTyped
    <3>2. [drafts[t][b] EXCEPT !.phase = "sending", !.key = nextKey] \in Drafts
      BY <3>1, <3>0 DEF Drafts, Phases
    <3>3. \A d \in Drafts : SetDraft(t, b, d) => drafts' \in [Tabs -> [AllBoxes -> Drafts]]
      BY <2>0, DraftTyped DEF Typed
    <3>4. BoxTyped
      BY DEF Typed
    <3> QED
      BY <1>7, <3>2, <3>3, <3>4, DraftForms DEF Submit, BoxTyped
  <2>3. PastTyped'
    BY <1>7, <2>0, BoundsAssumption DEF Submit, Typed, PastTyped, Keys, past
  <2>4. ServerTyped' /\ ShownTyped'
    BY <1>7 DEF Submit, Typed, ServerTyped, ShownTyped, past, server, tabs
  <2> QED
    BY <2>1, <2>2, <2>3, <2>4 DEF Typed
<1>8. ASSUME NEW t \in Tabs, NEW b \in Boxes[t], SubmitAnswered(t, b) PROVE Typed'
  <2>0. b \in AllBoxes
    BY BoxParts
  <2>1. NetTyped'
    BY <1>8, <2>0 DEF SubmitAnswered, Typed, NetTyped, net
  <2>2. ShownTyped'
    <3>1. /\ reads[t]["draft"] \in Reads \cup {None} /\ shown[t] \in Rows /\ "draft" \in Purposes
          /\ 0 \in 0 .. MaxKeys
      BY PhaseNames DEF Typed, ShownTyped
    <3>2. CASE UNCHANGED <<shown, seen, reads>>
      BY <3>2 DEF Typed, ShownTyped
    <3>3. CASE /\ b[1] # "comment" /\ UNCHANGED <<shown, seen>>
               /\ StartRead(t, "draft", Read(Root(b[2]), shown[t], Page(Root(b[2])), 0))
      <4>1. Root(b[2]) \in 0 .. MaxComments
        BY <2>0, <3>3, BoxParts, RootTyped DEF Typed
      <4>2. Page(Root(b[2])) \in Rows
        BY PageTyped DEF Typed
      <4>3. Read(Root(b[2]), shown[t], Page(Root(b[2])), 0) \in Reads
        BY <3>1, <4>1, <4>2, ReadTyped
      <4> QED
        BY <3>1, <3>3, <4>3 DEF StartRead, Typed, ShownTyped
    <3>4. ASSUME NEW a \in Answers, Show(t, Merge(shown[t], Only(a.comment, a.version))), UNCHANGED reads
          PROVE  ShownTyped'
      <4>1. Merge(shown[t], Only(a.comment, a.version)) \in Rows
        BY <3>1, OnlyTyped, MergeTyped DEF Answers
      <4> QED
        BY <3>4, <4>1, ShowTyped DEF Typed, ShownTyped
    <3> QED
      BY <1>8, <3>2, <3>3, <3>4 DEF SubmitAnswered, Finish, AnswerFor, Typed, NetTyped
  <2>3. BoxTyped'
    <3>1. drafts[t][b] \in Drafts
      BY <2>0 DEF Typed, BoxTyped
    <3>2. /\ [drafts[t][b] EXCEPT !.phase = "idle", !.key = 0] \in Drafts
          /\ [drafts[t][b] EXCEPT !.phase = "refused"] \in Drafts
      BY <3>1, PhaseNames DEF Drafts
    <3>3. \A d \in Drafts : SetDraft(t, b, d) => drafts' \in [Tabs -> [AllBoxes -> Drafts]]
      BY <2>0, DraftTyped DEF Typed
    <3>4. BoxTyped
      BY DEF Typed
    <3> QED
      BY <1>8, <3>2, <3>3, <3>4, DraftForms DEF SubmitAnswered, Finish, BoxTyped
  <2>4. PastTyped'
    BY <1>8, <2>0 DEF SubmitAnswered, Typed, PastTyped, Finish, AnswerFor, NetTyped,
       Answers, past
  <2>5. ServerTyped'
    BY <1>8 DEF SubmitAnswered, Typed, ServerTyped, server
  <2> QED
    BY <2>1, <2>2, <2>3, <2>4, <2>5 DEF Typed
<1>9. ASSUME NEW t \in Tabs, NEW b \in Boxes[t], SubmitUnknown(t, b) PROVE Typed'
  <2>0. b \in AllBoxes
    BY BoxParts
  <2>1. NetTyped'
    BY <1>9, <2>0 DEF SubmitUnknown, Typed, NetTyped, net
  <2>2. BoxTyped'
    <3>1. drafts[t][b] \in Drafts
      BY <2>0 DEF Typed, BoxTyped
    <3>2. [drafts[t][b] EXCEPT !.phase = "unknown"] \in Drafts
      BY <3>1 DEF Drafts, Phases
    <3>3. \A d \in Drafts : SetDraft(t, b, d) => drafts' \in [Tabs -> [AllBoxes -> Drafts]]
      BY <2>0, DraftTyped DEF Typed
    <3>4. BoxTyped
      BY DEF Typed
    <3> QED
      BY <1>9, <3>2, <3>3, <3>4, DraftForms DEF SubmitUnknown, BoxTyped
  <2>3. ServerTyped' /\ ShownTyped' /\ PastTyped'
    BY <1>9 DEF SubmitUnknown, Typed, ServerTyped, ShownTyped, PastTyped, past, server, tabs
  <2> QED
    BY <2>1, <2>2, <2>3 DEF Typed
<1>10. ASSUME NEW t \in Tabs, NEW b \in Boxes[t], Check(t, b) PROVE Typed'
  <2>0. b \in AllBoxes
    BY BoxParts
  <2>1. NetTyped'
    <3>1. drafts[t][b].key \in Keys
      BY <1>10, <2>0 DEF Check, Asked, Typed, BoxTyped, Drafts, Keys
    <3> QED
      BY <1>10, <3>1 DEF Check, Typed, NetTyped
  <2>2. BoxTyped'
    <3>1. drafts[t][b] \in Drafts
      BY <2>0 DEF Typed, BoxTyped
    <3>2. [drafts[t][b] EXCEPT !.phase = "checking"] \in Drafts
      BY <3>1 DEF Drafts, Phases
    <3>3. \A d \in Drafts : SetDraft(t, b, d) => drafts' \in [Tabs -> [AllBoxes -> Drafts]]
      BY <2>0, DraftTyped DEF Typed
    <3>4. BoxTyped
      BY DEF Typed
    <3> QED
      BY <1>10, <3>2, <3>3, <3>4, DraftForms DEF Check, BoxTyped
  <2>3. ServerTyped' /\ ShownTyped' /\ PastTyped'
    BY <1>10 DEF Check, Typed, ServerTyped, ShownTyped, PastTyped, past, server, tabs
  <2> QED
    BY <2>1, <2>2, <2>3 DEF Typed
<1>11. ASSUME NEW t \in Tabs, NEW b \in Boxes[t], CheckAnswered(t, b) PROVE Typed'
  <2>0. b \in AllBoxes
    BY BoxParts
  <2>1. NetTyped'
    BY <1>11, <2>0 DEF CheckAnswered, Typed, NetTyped, net
  <2>2. ShownTyped'
    <3>1. /\ reads[t]["draft"] \in Reads \cup {None} /\ shown[t] \in Rows /\ "draft" \in Purposes
          /\ 0 \in 0 .. MaxKeys
      BY PhaseNames DEF Typed, ShownTyped
    <3>2. CASE UNCHANGED <<shown, seen, reads>>
      BY <3>2 DEF Typed, ShownTyped
    <3>3. CASE /\ b[1] # "comment" /\ UNCHANGED <<shown, seen>>
               /\ StartRead(t, "draft", Read(Root(b[2]), shown[t], Page(Root(b[2])), 0))
      <4>1. Root(b[2]) \in 0 .. MaxComments
        BY <2>0, <3>3, BoxParts, RootTyped DEF Typed
      <4>2. Page(Root(b[2])) \in Rows
        BY PageTyped DEF Typed
      <4>3. Read(Root(b[2]), shown[t], Page(Root(b[2])), 0) \in Reads
        BY <3>1, <4>1, <4>2, ReadTyped
      <4> QED
        BY <3>1, <3>3, <4>3 DEF StartRead, Typed, ShownTyped
    <3>4. ASSUME NEW a \in Answers, Show(t, Merge(shown[t], Only(a.comment, a.version))), UNCHANGED reads
          PROVE  ShownTyped'
      <4>1. Merge(shown[t], Only(a.comment, a.version)) \in Rows
        BY <3>1, OnlyTyped, MergeTyped DEF Answers
      <4> QED
        BY <3>4, <4>1, ShowTyped DEF Typed, ShownTyped
    <3> QED
      BY <1>11, <3>2, <3>3, <3>4 DEF CheckAnswered, Finish, AnswerFor, Typed, NetTyped
  <2>3. BoxTyped'
    <3>1. drafts[t][b] \in Drafts
      BY <2>0 DEF Typed, BoxTyped
    <3>2. /\ [drafts[t][b] EXCEPT !.phase = "idle", !.key = 0] \in Drafts
          /\ [drafts[t][b] EXCEPT !.phase = "unsaved"] \in Drafts
      BY <3>1, PhaseNames DEF Drafts
    <3>3. \A d \in Drafts : SetDraft(t, b, d) => drafts' \in [Tabs -> [AllBoxes -> Drafts]]
      BY <2>0, DraftTyped DEF Typed
    <3>4. BoxTyped
      BY DEF Typed
    <3> QED
      BY <1>11, <3>2, <3>3, <3>4, DraftForms DEF CheckAnswered, Finish, BoxTyped
  <2>4. PastTyped'
    BY <1>11, <2>0 DEF CheckAnswered, Typed, PastTyped, Finish, AnswerFor, NetTyped,
       Answers, past
  <2>5. ServerTyped'
    BY <1>11 DEF CheckAnswered, Typed, ServerTyped, server
  <2> QED
    BY <2>1, <2>2, <2>3, <2>4, <2>5 DEF Typed
<1>12. ASSUME NEW t \in Tabs, NEW b \in Boxes[t], CheckUnknown(t, b) PROVE Typed'
  <2>0. b \in AllBoxes
    BY BoxParts
  <2>1. NetTyped'
    BY <1>12, <2>0 DEF CheckUnknown, Typed, NetTyped, net
  <2>2. BoxTyped'
    <3>1. drafts[t][b] \in Drafts
      BY <2>0 DEF Typed, BoxTyped
    <3>2. [drafts[t][b] EXCEPT !.phase = "unknown"] \in Drafts
      BY <3>1 DEF Drafts, Phases
    <3>3. \A d \in Drafts : SetDraft(t, b, d) => drafts' \in [Tabs -> [AllBoxes -> Drafts]]
      BY <2>0, DraftTyped DEF Typed
    <3>4. BoxTyped
      BY DEF Typed
    <3> QED
      BY <1>12, <3>2, <3>3, <3>4, DraftForms DEF CheckUnknown, BoxTyped
  <2>3. ServerTyped' /\ ShownTyped' /\ PastTyped'
    BY <1>12 DEF CheckUnknown, Typed, ServerTyped, ShownTyped, PastTyped, past, server, tabs
  <2> QED
    BY <2>1, <2>2, <2>3 DEF Typed
<1>13. ASSUME NEW t \in Tabs, NEW b \in Boxes[t], TargetChecked(t, b) PROVE Typed'
  <2>0. b \in AllBoxes
    BY BoxParts
  <2>1. ShownTyped'
    BY <1>13, <2>0, ShowTyped, RefreshedTyped, PhaseNames DEF TargetChecked, Typed,
       ShownTyped, Closed, Arrived, tabs, past
  <2>2. BoxTyped'
    <3>1. drafts[t][b] \in Drafts
      BY <2>0 DEF Typed, BoxTyped
    <3>2. \A g \in BOOLEAN : [drafts[t][b] EXCEPT !.phase = "idle", !.key = 0, !.gone = g] \in Drafts
      BY <3>1, PhaseNames DEF Drafts
    <3>3. /\ drafts[t][b].gone \in BOOLEAN
          /\ (drafts[t][b].phase = "refused" /\ b[1] = "reply") \in BOOLEAN
          /\ (~IsLiveAt(b[2], Refreshed(t, "draft")[b[2]])) \in BOOLEAN
      BY <3>1 DEF Drafts, IsLiveAt
    <3>4. \E g \in BOOLEAN :
            SetDraft(t, b, [drafts[t][b] EXCEPT !.phase = "idle", !.key = 0, !.gone = g])
      BY <1>13, <3>3 DEF TargetChecked
    <3>5. drafts' \in [Tabs -> [AllBoxes -> Drafts]]
      BY <2>0, <3>2, <3>4, DraftTyped DEF Typed
    <3> QED
      BY <1>13, <3>5 DEF TargetChecked, Typed, BoxTyped
  <2>3. PastTyped'
    BY <1>13, <2>0 DEF TargetChecked, Typed, PastTyped, past
  <2>4. ServerTyped' /\ NetTyped'
    BY <1>13 DEF TargetChecked, Typed, ServerTyped, NetTyped, net, server
  <2> QED
    BY <2>1, <2>2, <2>3, <2>4 DEF Typed
<1>14. ASSUME NEW t \in Tabs, NEW c \in Comments, OpenDialog(t, c) PROVE Typed'
  <2>1. BoxTyped'
    BY <1>14, BoundsAssumption DEF OpenDialog, Typed, BoxTyped, PastTyped, ShownTyped, Rows,
       Dialogs, Keys, tabs
  <2>2. PastTyped'
    BY <1>14, BoundsAssumption DEF OpenDialog, Typed, PastTyped, Keys, past
  <2>3. ServerTyped' /\ NetTyped' /\ ShownTyped'
    BY <1>14 DEF OpenDialog, Typed, ServerTyped, NetTyped, ShownTyped, net, past, server, tabs
  <2> QED
    BY <2>1, <2>2, <2>3 DEF Typed
<1>15. ASSUME NEW t \in Tabs, CloseDialog(t) PROVE Typed'
  <2>1. BoxTyped'
    BY <1>15 DEF CloseDialog, Typed, BoxTyped, Dialogs, tabs
  <2>2. ServerTyped' /\ NetTyped' /\ ShownTyped' /\ PastTyped'
    BY <1>15 DEF CloseDialog, Typed, ServerTyped, NetTyped, ShownTyped, PastTyped, net,
       past, server, tabs
  <2> QED
    BY <2>1, <2>2 DEF Typed
<1>16. ASSUME NEW t \in Tabs, Confirm(t) PROVE Typed'
  <2>1. NetTyped'
    <3>1. ConfirmSent(t)
      BY <1>16, ConfirmSends
    <3> QED
      BY <1>16, <3>1 DEF Confirm, ConfirmSent, Typed, NetTyped
  <2>2. BoxTyped'
    <3>1. ConfirmSent(t)
      BY <1>16, ConfirmSends
    <3> QED
      BY <1>16, <3>1 DEF Confirm, ConfirmSent, Typed, BoxTyped
  <2>3. ServerTyped' /\ ShownTyped' /\ PastTyped'
    BY <1>16 DEF Confirm, Typed, ServerTyped, ShownTyped, PastTyped, past, server, tabs
  <2> QED
    BY <2>1, <2>2, <2>3 DEF Typed
<1>17. ASSUME NEW t \in Tabs, ConfirmAnswered(t) PROVE Typed'
  <2>1. NetTyped'
    BY <1>17 DEF ConfirmAnswered, Typed, NetTyped, net
  <2>2. ShownTyped'
    <3>1. /\ shown[t] \in Rows /\ "dialog" \in Purposes /\ 0 \in 0 .. MaxKeys
          /\ \A a \in answers : a \in Answers
      BY PhaseNames DEF Typed, ShownTyped, NetTyped
    <3>2. dialog[t].comment \in Comments /\ dialog[t].key \in 0 .. MaxKeys
      BY <1>17, DialogParts DEF ConfirmAnswered, Typed
    <3>3. Root(dialog[t].comment) \in 0 .. MaxComments /\ Page(Root(dialog[t].comment)) \in Rows
      BY <3>2, RootTyped, PageTyped DEF Typed
    <3>4. \A rows \in Rows, key \in {0, dialog[t].key} :
            Read(Root(dialog[t].comment), rows, Page(Root(dialog[t].comment)), key) \in Reads
      BY <3>1, <3>2, <3>3, ReadTyped
    <3>5. ASSUME NEW r \in Reads, StartRead(t, "dialog", r)
          PROVE  reads' \in [Tabs -> [Purposes -> Reads \cup {None}]]
      BY <3>1, <3>5 DEF StartRead, Typed, ShownTyped
    <3>6. ASSUME NEW a \in answers PROVE Merge(shown[t], Only(a.comment, a.version)) \in Rows
      BY <3>1, OnlyTyped, MergeTyped DEF Answers
    <3>7. \A rows \in Rows : Show(t, rows) => shown' \in [Tabs -> Rows] /\ seen' \in [Tabs -> Rows]
      BY ShowTyped DEF Typed
    <3>8. reads' \in [Tabs -> [Purposes -> Reads \cup {None}]]
      BY <1>17, <3>1, <3>4, <3>5, <3>6 DEF ConfirmAnswered
    <3>9. shown' \in [Tabs -> Rows] /\ seen' \in [Tabs -> Rows]
      BY <1>17, <3>6, <3>7 DEF ConfirmAnswered, Typed, ShownTyped
    <3> QED
      BY <3>8, <3>9 DEF ShownTyped
  <2>3. BoxTyped'
    <3>1. [dialog[t] EXCEPT !.busy = FALSE] \in Dialogs /\ NoDialog \in Dialogs
      BY <1>17, DialogParts DEF ConfirmAnswered, Typed
    <3> QED
      BY <1>17, <3>1 DEF ConfirmAnswered, Typed, BoxTyped
  <2>4. ServerTyped' /\ PastTyped'
    BY <1>17 DEF ConfirmAnswered, Typed, ServerTyped, PastTyped, past, server
  <2> QED
    BY <2>1, <2>2, <2>3, <2>4 DEF Typed
<1>18. ASSUME NEW t \in Tabs, ConfirmUnknown(t) PROVE Typed'
  <2>1. NetTyped'
    BY <1>18 DEF ConfirmUnknown, Typed, NetTyped, net
  <2>2. BoxTyped'
    <3>1. [dialog[t] EXCEPT !.busy = FALSE] \in Dialogs
      BY <1>18, DialogParts DEF ConfirmUnknown, Typed
    <3> QED
      BY <1>18, <3>1 DEF ConfirmUnknown, Typed, BoxTyped
  <2>3. ServerTyped' /\ ShownTyped' /\ PastTyped'
    BY <1>18 DEF ConfirmUnknown, Typed, ServerTyped, ShownTyped, PastTyped, past, server, tabs
  <2> QED
    BY <2>1, <2>2, <2>3 DEF Typed
<1>19. ASSUME NEW t \in Tabs, DialogRefreshed(t) PROVE Typed'
  <2>1. ShownTyped'
    BY <1>19, ShowTyped, RefreshedTyped, PhaseNames DEF DialogRefreshed, Typed, ShownTyped,
       Closed, Arrived, tabs, past
  <2>2. BoxTyped'
    <3>1. Refreshed(t, "dialog") \in Rows
      BY <1>19, RefreshedTyped, PhaseNames DEF DialogRefreshed, Arrived, Typed
    <3>0. UNCHANGED drafts
      BY <1>19 DEF DialogRefreshed
    <3>2. CASE UNCHANGED dialog
      BY <3>0, <3>2 DEF Typed, BoxTyped
    <3>3. CASE ~UNCHANGED dialog
      <4>1. /\ dialog[t].key # 0
            /\ nextKey \in Keys
            /\ dialog' = [dialog EXCEPT ![t].version = Refreshed(t, "dialog")[dialog[t].comment],
                                        ![t].key = nextKey]
        BY <1>19, <3>3, BoundsAssumption DEF DialogRefreshed, Typed, PastTyped, Keys
      <4>2. /\ dialog[t] # NoDialog
            /\ dialog[t].comment \in Comments
        BY <4>1, DialogParts DEF Typed, NoDialog
      <4>3. Refreshed(t, "dialog")[dialog[t].comment] \in Nat
        BY <3>1, <4>2 DEF Rows
      <4>4. [dialog[t] EXCEPT !.version = Refreshed(t, "dialog")[dialog[t].comment],
                              !.key = nextKey] \in Dialogs
        BY <4>1, <4>2, <4>3, DialogParts DEF Typed
      <4> QED
        BY <3>0, <4>1, <4>4 DEF Typed, BoxTyped
    <3> QED
      BY <3>2, <3>3
  <2>3. PastTyped'
    <3>1. nextKey <= MaxKeys => nextKey + 1 \in 1 .. MaxKeys + 1
      BY BoundsAssumption DEF Typed, PastTyped
    <3> QED
      BY <1>19, <3>1 DEF DialogRefreshed, Typed, PastTyped, past
  <2>4. ServerTyped' /\ NetTyped'
    BY <1>19 DEF DialogRefreshed, Typed, ServerTyped, NetTyped, net, server
  <2> QED
    BY <2>1, <2>2, <2>3, <2>4 DEF Typed
<1>20. ASSUME NEW t \in Tabs, DialogRefreshFails(t) PROVE Typed'
  <2>1. ShownTyped'
    BY <1>20, PhaseNames DEF DialogRefreshFails, Typed, ShownTyped, Closed, tabs, past
  <2>2. ServerTyped' /\ NetTyped' /\ BoxTyped' /\ PastTyped'
    BY <1>20 DEF DialogRefreshFails, Typed, ServerTyped, NetTyped, BoxTyped, PastTyped, net,
       past, server, tabs
  <2> QED
    BY <2>1, <2>2 DEF Typed
<1>21. ASSUME NEW t \in Tabs, Leave(t) PROVE Typed'
  <2>1. NetTyped'
    BY <1>21 DEF Leave, Typed, NetTyped, net
  <2>2. ShownTyped'
    <3>1. /\ shown[t] \in Rows /\ [c \in Comments |-> 0] \in Rows
          /\ 0 \in 0 .. MaxComments /\ 0 \in 0 .. MaxKeys
      BY BoundsAssumption DEF Typed, ShownTyped, Rows
    <3>2. \A rows \in Rows : Read(0, rows, Page(0), 0) \in Reads
      BY <3>1, PageTyped, ReadTyped DEF Typed
    <3>3. PICK rows \in Rows :
            /\ shown' = [shown EXCEPT ![t] = rows]
            /\ seen' = [seen EXCEPT ![t] = rows]
            /\ reads' = [reads EXCEPT ![t] =
                 [p \in Purposes |-> IF p = "list" THEN Read(0, rows, Page(0), 0) ELSE None]]
      BY <1>21, <3>1 DEF Leave
    <3>4. [p \in Purposes |-> IF p = "list" THEN Read(0, rows, Page(0), 0) ELSE None]
            \in [Purposes -> Reads \cup {None}]
      BY <3>2, <3>3
    <3> QED
      BY <3>3, <3>4 DEF Typed, ShownTyped
  <2>3. BoxTyped'
    BY <1>21, DraftForms DEF Leave, Typed, BoxTyped, Dialogs, tabs
  <2>4. PastTyped'
    BY <1>21 DEF Leave, Typed, PastTyped, BoxTyped, Drafts, past
  <2>5. ServerTyped'
    BY <1>21 DEF Leave, Typed, ServerTyped, server
  <2> QED
    BY <2>1, <2>2, <2>3, <2>4, <2>5 DEF Typed
<1>22. ASSUME NEW k \in Keys, Begin(k) PROVE Typed'
  <2>1. ServerTyped'
    <3>1. \A a \in Accounts : tx'[a] \in 0 .. MaxKeys
      BY <1>22 DEF Begin, Typed, ServerTyped, Keys
    <3> QED
      BY <1>22, <3>1 DEF Begin, Typed, ServerTyped
  <2>2. NetTyped'
    BY <1>22 DEF Begin, Typed, NetTyped, net
  <2>3. ShownTyped' /\ BoxTyped' /\ PastTyped'
    BY <1>22 DEF Begin, Typed, ShownTyped, BoxTyped, PastTyped, past, tabs
  <2> QED
    BY <2>1, <2>2, <2>3 DEF Typed
<1>23. ASSUME NEW k \in Keys, Commit(k) PROVE Typed'
  <2>1. ServerTyped'
    BY <1>23, CommitTyped DEF Typed
  <2>2. NetTyped'
    BY <1>23, CommitTyped DEF Typed
  <2>3. ShownTyped' /\ BoxTyped' /\ PastTyped'
    BY <1>23 DEF Commit, Typed, ShownTyped, BoxTyped, PastTyped, past, tabs
  <2> QED
    BY <2>1, <2>2, <2>3 DEF Typed
<1>24. ASSUME NEW k \in Keys, RequestStatus(k) PROVE Typed'
  <2>1. ServerTyped'
    BY <1>24, StatusTyped DEF Typed
  <2>2. NetTyped'
    BY <1>24, StatusTyped DEF Typed
  <2>3. ShownTyped' /\ BoxTyped' /\ PastTyped'
    BY <1>24 DEF RequestStatus, Typed, ShownTyped, BoxTyped, PastTyped, past, tabs
  <2> QED
    BY <2>1, <2>2, <2>3 DEF Typed
<1>25. CASE UNCHANGED vars
  BY <1>25 DEF Typed, ServerTyped, NetTyped, ShownTyped, BoxTyped, PastTyped, vars, server,
     net, tabs, past
<1> QED
  BY <1>1, <1>2, <1>3, <1>4, <1>5, <1>6, <1>7, <1>8, <1>9, <1>10, <1>11, <1>12, <1>13,
     <1>14, <1>15, <1>16, <1>17, <1>18, <1>19, <1>20, <1>21, <1>22, <1>23, <1>24, <1>25
  DEF Next, TabNext, ServerNext
-----------------------------------------------------------------------------
(* A request, once sent, stays what it is; only the deletion an open       *)
(* dialog asks for may be sent again.                                      *)
SentKept ==
    /\ nextKey <= nextKey'
    /\ \A k \in Keys : sent[k] # None =>
         /\ sent'[k] # None /\ sent'[k].tab = sent[k].tab
         /\ sent[k].action = "erase" => sent'[k].action = "erase"
         /\ sent[k].action # "erase" => sent'[k] = sent[k]

(* Sending and answering keep what was sent.                               *)
LEMMA SentStays ==
    ASSUME Typed, Known, [Next]_vars
    PROVE  SentKept
PROOF
<1>1. ASSUME NEW t \in Tabs, NEW b \in Boxes[t], Submit(t, b) PROVE SentKept
  <2>0. SubmitSent(t, b)
    BY <1>1, SubmitSends
  <2>1. sent[nextKey] = None
    <3>1. sent[nextKey] # None => nextKey < nextKey
      BY <2>0 DEF SubmitSent, Known, KeysDrawn
    <3>2. nextKey \in Nat
      BY <2>0, BoundsAssumption DEF SubmitSent, Keys
    <3> QED
      BY <3>1, <3>2
  <2>2. nextKey <= nextKey'
    BY <2>0, BoundsAssumption DEF SubmitSent, Keys
  <2> QED
    BY <2>0, <2>1, <2>2 DEF SubmitSent, SentKept
<1>2. ASSUME NEW t \in Tabs, NEW c \in Comments, OpenDialog(t, c) PROVE SentKept
  BY <1>2, BoundsAssumption DEF OpenDialog, SentKept, Typed, PastTyped
<1>3. ASSUME NEW t \in Tabs, Confirm(t) PROVE SentKept
  <2>0. ConfirmSent(t)
    BY <1>3, ConfirmSends
  <2>1. sent[dialog[t].key] # None => /\ sent[dialog[t].key].action = "erase"
                                     /\ sent[dialog[t].key].tab = t
    BY <2>0 DEF ConfirmSent, Known, DialogKeys
  <2>2. nextKey <= nextKey'
    BY <1>3, BoundsAssumption DEF Confirm, Typed, PastTyped
  <2> QED
    BY <2>0, <2>1, <2>2 DEF ConfirmSent, SentKept
<1>4. ASSUME NEW t \in Tabs, DialogRefreshed(t) PROVE SentKept
  BY <1>4, BoundsAssumption DEF DialogRefreshed, SentKept, Typed, PastTyped
<1>5. ASSUME NEW t \in Tabs,
             \/ Load(t) \/ LoadEnds(t) \/ LoadFails(t) \/ CloseDialog(t)
             \/ ConfirmAnswered(t) \/ ConfirmUnknown(t) \/ DialogRefreshFails(t) \/ Leave(t)
      PROVE  SentKept
  BY <1>5 DEF Load, LoadEnds, LoadFails, CloseDialog, ConfirmAnswered, ConfirmUnknown,
     DialogRefreshFails, Leave, SentKept, Typed, PastTyped, vars, server, net, tabs, past
<1>6. ASSUME NEW t \in Tabs, NEW b \in Boxes[t],
             \/ OpenBox(t, b) \/ Write(t, b) \/ CancelBox(t, b) \/ SubmitAnswered(t, b)
             \/ SubmitUnknown(t, b) \/ Check(t, b) \/ CheckAnswered(t, b) \/ CheckUnknown(t, b)
             \/ TargetChecked(t, b)
      PROVE  SentKept
  BY <1>6 DEF OpenBox, Write, CancelBox, SubmitAnswered, SubmitUnknown, Check,
     CheckAnswered, CheckUnknown, TargetChecked, SentKept, Typed, PastTyped, vars, server,
     net, tabs, past
<1>7. ASSUME NEW k \in Keys,
             \/ Begin(k) \/ Commit(k) \/ RequestStatus(k)
      PROVE  SentKept
  BY <1>7 DEF Begin, Commit, RequestStatus, SentKept, Typed, PastTyped, vars, server, net,
     tabs, past
<1>8. CASE UNCHANGED vars
  BY <1>8 DEF SentKept, Typed, PastTyped, vars, server, net, tabs, past
<1> QED
  BY <1>1, <1>2, <1>3, <1>4, <1>5, <1>6, <1>7, <1>8
  DEF Next, TabNext, ServerNext

(* Only what was sent is under way, answered or told about.                *)
LEMMA KeysDrawnStep ==
    ASSUME Typed, Known, [Next]_vars
    PROVE  KeysDrawn'
PROOF
<1>1. ASSUME NEW t \in Tabs, NEW b \in Boxes[t], Submit(t, b) PROVE KeysDrawn'
  <2>0. SubmitSent(t, b)
    BY <1>1, SubmitSends
  <2>1. UNCHANGED <<asking, answers, told>>
    BY <1>1 DEF Submit, past
  <2>2. nextKey \in Nat /\ nextKey \in Keys /\ sent[nextKey] = None
    BY <2>0, BoundsAssumption DEF SubmitSent, Known, KeysDrawn, Keys
  <2>3. \A k \in Keys : sent'[k] # None => k < nextKey'
    BY <2>0, <2>2 DEF SubmitSent, Known, KeysDrawn, Keys
  <2>4. \A k \in Keys : sent[k] # None => sent'[k] # None
    BY <2>0, <2>2 DEF SubmitSent
  <2>5. \A k \in Keys : told'[k] # "nothing" => sent'[k] # None
    BY <2>1, <2>4 DEF Known, KeysDrawn
  <2>6. wire \subseteq Keys /\ asking \subseteq Keys
    BY DEF Typed, NetTyped
  <2>7. \A k \in wire' \cup asking' : sent'[k] # None
    BY <2>0, <2>1, <2>4, <2>6 DEF SubmitSent, Known, KeysDrawn
  <2>8. \A a \in answers : a.key \in Keys
    BY DEF Typed, NetTyped, Answers
  <2>9. \A a \in answers' : sent'[a.key] # None
    BY <2>1, <2>4, <2>8 DEF Known, KeysDrawn
  <2> QED
    BY <2>3, <2>5, <2>7, <2>9 DEF KeysDrawn
<1>2. ASSUME NEW t \in Tabs, NEW b \in Boxes[t], SubmitAnswered(t, b) PROVE KeysDrawn'
  <2>1. b \in AllBoxes
    BY BoxParts
  <2>2. sent[drafts[t][b].key] # None /\ sent' = sent /\ nextKey' = nextKey
    BY <1>2, <2>1 DEF SubmitAnswered, Known, Asked
  <2>3. \A k \in Keys : told'[k] = told[k] \/ k = drafts[t][b].key
    BY <1>2 DEF SubmitAnswered, Finish, AnswerFor, Typed, PastTyped
  <2>4. answers' \subseteq answers /\ wire' = wire /\ asking' = asking
    BY <1>2 DEF SubmitAnswered
  <2> QED
    BY <2>2, <2>3, <2>4 DEF Known, KeysDrawn
<1>3. ASSUME NEW t \in Tabs, NEW b \in Boxes[t], Check(t, b) PROVE KeysDrawn'
  <2>1. b \in AllBoxes
    BY BoxParts
  <2>2. sent[drafts[t][b].key] # None
    BY <1>3, <2>1 DEF Check, Known, Asked
  <2> QED
    BY <1>3, <2>2 DEF Check, Known, KeysDrawn, past
<1>4. ASSUME NEW t \in Tabs, NEW b \in Boxes[t], CheckAnswered(t, b) PROVE KeysDrawn'
  <2>1. b \in AllBoxes
    BY BoxParts
  <2>2. sent[drafts[t][b].key] # None /\ sent' = sent /\ nextKey' = nextKey
    BY <1>4, <2>1 DEF CheckAnswered, Known, Asked
  <2>3. \A k \in Keys : told'[k] = told[k] \/ k = drafts[t][b].key
    BY <1>4 DEF CheckAnswered, Finish, AnswerFor, Typed, PastTyped
  <2>4. answers' \subseteq answers /\ wire' = wire /\ asking' = asking
    BY <1>4 DEF CheckAnswered
  <2> QED
    BY <2>2, <2>3, <2>4 DEF Known, KeysDrawn
<1>5. ASSUME NEW t \in Tabs, NEW b \in Boxes[t], TargetChecked(t, b) PROVE KeysDrawn'
  <2>1. b \in AllBoxes
    BY BoxParts
  <2>2. sent[drafts[t][b].key] # None /\ sent' = sent /\ nextKey' = nextKey
    BY <1>5, <2>1 DEF TargetChecked, Known, Asked
  <2>3. \A k \in Keys : told'[k] = told[k] \/ k = drafts[t][b].key
    BY <1>5 DEF TargetChecked, Typed, PastTyped
  <2>4. answers' = answers /\ wire' = wire /\ asking' = asking
    BY <1>5 DEF TargetChecked, net
  <2> QED
    BY <2>2, <2>3, <2>4 DEF Known, KeysDrawn
<1>6. ASSUME NEW t \in Tabs, NEW c \in Comments, OpenDialog(t, c) PROVE KeysDrawn'
  <2>1. /\ nextKey \in Nat /\ (nextKey' = nextKey \/ nextKey' = nextKey + 1)
        /\ UNCHANGED <<sent, told, wire, asking, answers>>
    BY <1>6, BoundsAssumption DEF OpenDialog, Typed, PastTyped, net, past
  <2>2. \A k \in Keys : k < nextKey => k < nextKey'
    BY <2>1 DEF Keys
  <2> QED
    BY <2>1, <2>2 DEF Known, KeysDrawn
<1>7. ASSUME NEW t \in Tabs, Confirm(t) PROVE KeysDrawn'
  <2>0. ConfirmSent(t)
    BY <1>7, ConfirmSends
  <2>1. UNCHANGED <<asking, answers, told, nextKey>>
    BY <1>7 DEF Confirm, past
  <2>2. dialog[t].key < nextKey
    BY <2>0 DEF ConfirmSent, Known, DialogKeys
  <2> QED
    BY <2>0, <2>1, <2>2 DEF ConfirmSent, Known, KeysDrawn, Typed, NetTyped, Answers
<1>8. ASSUME NEW t \in Tabs, DialogRefreshed(t) PROVE KeysDrawn'
  <2>1. /\ nextKey \in Nat /\ (nextKey' = nextKey \/ nextKey' = nextKey + 1)
        /\ UNCHANGED <<sent, told, wire, asking, answers>>
    BY <1>8, BoundsAssumption DEF DialogRefreshed, Typed, PastTyped, net, past
  <2>2. \A k \in Keys : k < nextKey => k < nextKey'
    BY <2>1 DEF Keys
  <2> QED
    BY <2>1, <2>2 DEF Known, KeysDrawn
<1>9. ASSUME NEW k \in Keys, Begin(k) PROVE KeysDrawn'
  BY <1>9 DEF Begin, Known, KeysDrawn, past
<1>10. ASSUME NEW k \in Keys, Commit(k) PROVE KeysDrawn'
  <2>1. \A a \in answers' : a \in answers \/ a.key = k
    BY <1>10 DEF Commit, Replay, Create, Edit, Erase, Refuse, Record, Answered
  <2>2. sent[k] # None /\ UNCHANGED <<wire, asking, sent, told, nextKey>>
    BY <1>10 DEF Commit, Holds, past
  <2> QED
    BY <2>1, <2>2 DEF Known, KeysDrawn
<1>11. ASSUME NEW k \in Keys, RequestStatus(k) PROVE KeysDrawn'
  <2>1. \A a \in answers' : a \in answers \/ a.key = k
    BY <1>11 DEF RequestStatus, Answered
  <2>2. sent[k] # None /\ asking' \subseteq asking /\ UNCHANGED <<wire, sent, told, nextKey>>
    BY <1>11 DEF RequestStatus, Known, KeysDrawn, past
  <2> QED
    BY <2>1, <2>2 DEF Known, KeysDrawn
<1>12. ASSUME NEW t \in Tabs,
             \/ Load(t) \/ LoadEnds(t) \/ LoadFails(t) \/ CloseDialog(t)
             \/ ConfirmAnswered(t) \/ ConfirmUnknown(t) \/ DialogRefreshFails(t) \/ Leave(t)
      PROVE  KeysDrawn'
  BY <1>12 DEF Load, LoadEnds, LoadFails, CloseDialog, ConfirmAnswered, ConfirmUnknown,
     DialogRefreshFails, Leave, Known, KeysDrawn, vars, server, net, tabs, past
<1>13. ASSUME NEW t \in Tabs, NEW b \in Boxes[t],
             \/ OpenBox(t, b) \/ Write(t, b) \/ CancelBox(t, b) \/ SubmitUnknown(t, b)
             \/ CheckUnknown(t, b)
      PROVE  KeysDrawn'
  BY <1>13 DEF OpenBox, Write, CancelBox, SubmitUnknown, CheckUnknown, Known, KeysDrawn,
     vars, server, net, tabs, past
<1>14. CASE UNCHANGED vars
  BY <1>14 DEF Known, KeysDrawn, vars, server, net, tabs, past
<1> QED
  BY <1>1, <1>2, <1>3, <1>4, <1>5, <1>6, <1>7, <1>8, <1>9, <1>10, <1>11, <1>12, <1>13, <1>14
  DEF Next, TabNext, ServerNext

(* The request a composer waits for is not replaced.                       *)
LEMMA AskedSame ==
    ASSUME Typed, Known, SentKept
    PROVE  \A u \in Tabs : \A c \in AllBoxes :
             drafts[u][c].phase # "idle" => sent'[drafts[u][c].key] = sent[drafts[u][c].key]
PROOF
<1>1. ASSUME NEW u \in Tabs, NEW c \in AllBoxes, drafts[u][c].phase # "idle"
      PROVE  sent'[drafts[u][c].key] = sent[drafts[u][c].key]
  <2>1. c[1] # "erase"
    BY BoxParts
  <2>2. drafts[u][c].key \in Keys
    BY <1>1 DEF Known, Asked, Typed, BoxTyped, Drafts, Keys
  <2> QED
    BY <1>1, <2>1, <2>2 DEF Known, Asked, SentKept
<1> QED
  BY <1>1

(* A composer keeps its request, or lets go of it.                         *)
LEMMA AskedKept ==
    ASSUME Typed, Known, SentKept, NEW t \in Tabs, NEW b \in AllBoxes, NEW d,
           SetDraft(t, b, d),
           \/ d.phase = "idle" /\ d.key = 0
           \/ /\ d.key = drafts[t][b].key
              /\ (d.phase = "idle") <=> (drafts[t][b].phase = "idle")
    PROVE  Asked'
PROOF
<1>1. /\ \A u \in Tabs : \A c \in AllBoxes : (u # t \/ c # b) => drafts'[u][c] = drafts[u][c]
      /\ drafts'[t][b] = d
  BY DEF Typed, BoxTyped, SetDraft
<1>2. \A u \in Tabs : \A c \in AllBoxes :
        drafts[u][c].phase # "idle" => sent'[drafts[u][c].key] = sent[drafts[u][c].key]
  BY AskedSame
<1>3. ASSUME NEW u \in Tabs, NEW c \in AllBoxes
      PROVE  /\ drafts'[u][c].phase = "idle" => drafts'[u][c].key = 0
             /\ drafts'[u][c].phase # "idle" =>
                  /\ drafts[u][c].phase # "idle"
                  /\ drafts'[u][c].key = drafts[u][c].key
  <2>1. drafts[u][c].phase = "idle" => drafts[u][c].key = 0
    BY DEF Known, Asked
  <2>2. CASE u = t /\ c = b
    BY <1>1, <2>1, <2>2
  <2>3. CASE u # t \/ c # b
    BY <1>1, <2>1, <2>3
  <2> QED
    BY <2>2, <2>3
<1>4. \A u \in Tabs : \A c \in AllBoxes : drafts[u][c].phase # "idle" =>
        LET k == drafts[u][c].key IN
        /\ k # 0 /\ sent[k] # None /\ sent[k].tab = u
        /\ sent[k].action = c[1] /\ sent[k].target = c[2]
  BY DEF Known, Asked
<1> QED
  BY <1>2, <1>3, <1>4 DEF Asked

(* Where composers and requests stay, so does what composers wait for.     *)
LEMMA AskedStill ==
    ASSUME Typed, Known, SentKept, UNCHANGED drafts
    PROVE  Asked'
PROOF
<1>1. \A u \in Tabs : \A c \in AllBoxes :
        drafts[u][c].phase # "idle" => sent'[drafts[u][c].key] = sent[drafts[u][c].key]
  BY AskedSame
<1> QED
  BY <1>1 DEF Known, Asked

(* Composers and requests stay together.                                   *)
LEMMA AskedStep ==
    ASSUME Typed, Known, [Next]_vars
    PROVE  Asked'
PROOF
<1>1. ASSUME NEW t \in Tabs, NEW b \in Boxes[t], OpenBox(t, b) PROVE Asked'
  <2>0. b \in AllBoxes /\ SentKept
    BY BoxParts, SentStays
  <2>1. drafts[t][b] \in Drafts
    BY <2>0 DEF Typed, BoxTyped
  <2>2. SetDraft(t, b, Opened(t, b))
    BY <1>1 DEF OpenBox, Opened
  <2>3. Opened(t, b).phase = "idle" /\ Opened(t, b).key = 0
    BY <1>1, <2>1 DEF OpenBox, Drafts, NoDraft, EmptyDraft, Opened
  <2> QED
    BY <2>0, <2>2, <2>3, AskedKept
<1>2. ASSUME NEW t \in Tabs, NEW b \in Boxes[t], Write(t, b) PROVE Asked'
  <2>0. b \in AllBoxes /\ SentKept
    BY BoxParts, SentStays
  <2>1. drafts[t][b] \in Drafts
    BY <2>0 DEF Typed, BoxTyped
  <2>2. SetDraft(t, b, [drafts[t][b] EXCEPT !.text = nextText])
    BY <1>2 DEF Write
  <2>3. /\ ([drafts[t][b] EXCEPT !.text = nextText]).key = drafts[t][b].key
        /\ (([drafts[t][b] EXCEPT !.text = nextText]).phase = "idle") <=> (drafts[t][b].phase = "idle")
    BY <1>2, <2>1 DEF Write, Drafts, NoDraft, EmptyDraft
  <2> QED
    BY <2>0, <2>2, <2>3, AskedKept
<1>3. ASSUME NEW t \in Tabs, NEW b \in Boxes[t], CancelBox(t, b) PROVE Asked'
  <2>0. b \in AllBoxes /\ SentKept
    BY BoxParts, SentStays
  <2>1. drafts[t][b] \in Drafts
    BY <2>0 DEF Typed, BoxTyped
  <2>2. SetDraft(t, b, NoDraft)
    BY <1>3 DEF CancelBox
  <2>3. (NoDraft).phase = "idle" /\ (NoDraft).key = 0
    BY <1>3, <2>1 DEF CancelBox, Drafts, NoDraft, EmptyDraft
  <2> QED
    BY <2>0, <2>2, <2>3, AskedKept
<1>4. ASSUME NEW t \in Tabs, NEW b \in Boxes[t], Submit(t, b) PROVE Asked'
  <2>0. b \in AllBoxes /\ SentKept /\ SubmitSent(t, b)
    BY <1>4, BoxParts, SentStays, SubmitSends
  <2>1. drafts[t][b] \in Drafts
    BY <2>0 DEF Typed, BoxTyped
  <2>2. \A u \in Tabs : \A c \in AllBoxes :
          drafts[u][c].phase # "idle" => sent'[drafts[u][c].key] = sent[drafts[u][c].key]
    BY <2>0, AskedSame
  <2>3. /\ \A u \in Tabs : \A c \in AllBoxes : (u # t \/ c # b) => drafts'[u][c] = drafts[u][c]
        /\ drafts'[t][b] = [drafts[t][b] EXCEPT !.phase = "sending", !.key = nextKey]
    BY <1>4, <2>0 DEF Submit, Typed, BoxTyped, SetDraft
  <2>4. drafts'[t][b].phase = "sending" /\ drafts'[t][b].key = nextKey /\ nextKey # 0
    BY <2>0, <2>1, <2>3 DEF Drafts, SubmitSent, Keys
  <2>5. \A u \in Tabs : \A c \in AllBoxes : (u # t \/ c # b) =>
          LET d == drafts'[u][c] IN
          /\ d.phase = "idle" => d.key = 0
          /\ d.phase # "idle" =>
               /\ d.key # 0 /\ sent'[d.key] # None /\ sent'[d.key].tab = u
               /\ sent'[d.key].action = c[1] /\ sent'[d.key].target = c[2]
    BY <2>2, <2>3 DEF Known, Asked
  <2>6. LET d == drafts'[t][b] IN
          /\ d.phase = "idle" => d.key = 0
          /\ d.phase # "idle" =>
               /\ d.key # 0 /\ sent'[d.key] # None /\ sent'[d.key].tab = t
               /\ sent'[d.key].action = b[1] /\ sent'[d.key].target = b[2]
    BY <2>0, <2>4 DEF SubmitSent
  <2> QED
    BY <2>5, <2>6 DEF Asked
<1>5. ASSUME NEW t \in Tabs, NEW b \in Boxes[t], SubmitAnswered(t, b) PROVE Asked'
  <2>0. b \in AllBoxes /\ SentKept
    BY BoxParts, SentStays
  <2>1. drafts[t][b] \in Drafts
    BY <2>0 DEF Typed, BoxTyped
  <2>2. \/ SetDraft(t, b, [drafts[t][b] EXCEPT !.phase = "idle", !.key = 0])
        \/ SetDraft(t, b, [drafts[t][b] EXCEPT !.phase = "refused"])
        \/ SetDraft(t, b, NoDraft)
        \/ SetDraft(t, b, EmptyDraft)
    BY <1>5 DEF SubmitAnswered, Finish
  <2>3. /\ [drafts[t][b] EXCEPT !.phase = "idle", !.key = 0].phase = "idle"
        /\ [drafts[t][b] EXCEPT !.phase = "idle", !.key = 0].key = 0
        /\ [drafts[t][b] EXCEPT !.phase = "refused"].key = drafts[t][b].key
        /\ [drafts[t][b] EXCEPT !.phase = "refused"].phase # "idle" /\ drafts[t][b].phase # "idle"
        /\ NoDraft.phase = "idle" /\ NoDraft.key = 0
        /\ EmptyDraft.phase = "idle" /\ EmptyDraft.key = 0
    BY <1>5, <2>1 DEF SubmitAnswered, Drafts, NoDraft, EmptyDraft
  <2> QED
    BY <2>0, <2>2, <2>3, AskedKept
<1>6. ASSUME NEW t \in Tabs, NEW b \in Boxes[t], SubmitUnknown(t, b) PROVE Asked'
  <2>0. b \in AllBoxes /\ SentKept
    BY BoxParts, SentStays
  <2>1. drafts[t][b] \in Drafts
    BY <2>0 DEF Typed, BoxTyped
  <2>2. SetDraft(t, b, [drafts[t][b] EXCEPT !.phase = "unknown"])
    BY <1>6 DEF SubmitUnknown
  <2>3. /\ ([drafts[t][b] EXCEPT !.phase = "unknown"]).key = drafts[t][b].key
        /\ (([drafts[t][b] EXCEPT !.phase = "unknown"]).phase = "idle") <=> (drafts[t][b].phase = "idle")
    BY <1>6, <2>1 DEF SubmitUnknown, Drafts, NoDraft, EmptyDraft
  <2> QED
    BY <2>0, <2>2, <2>3, AskedKept
<1>7. ASSUME NEW t \in Tabs, NEW b \in Boxes[t], Check(t, b) PROVE Asked'
  <2>0. b \in AllBoxes /\ SentKept
    BY BoxParts, SentStays
  <2>1. drafts[t][b] \in Drafts
    BY <2>0 DEF Typed, BoxTyped
  <2>2. SetDraft(t, b, [drafts[t][b] EXCEPT !.phase = "checking"])
    BY <1>7 DEF Check
  <2>3. /\ ([drafts[t][b] EXCEPT !.phase = "checking"]).key = drafts[t][b].key
        /\ (([drafts[t][b] EXCEPT !.phase = "checking"]).phase = "idle") <=> (drafts[t][b].phase = "idle")
    BY <1>7, <2>1 DEF Check, Drafts, NoDraft, EmptyDraft
  <2> QED
    BY <2>0, <2>2, <2>3, AskedKept
<1>8. ASSUME NEW t \in Tabs, NEW b \in Boxes[t], CheckAnswered(t, b) PROVE Asked'
  <2>0. b \in AllBoxes /\ SentKept
    BY BoxParts, SentStays
  <2>1. drafts[t][b] \in Drafts
    BY <2>0 DEF Typed, BoxTyped
  <2>2. \/ SetDraft(t, b, [drafts[t][b] EXCEPT !.phase = "idle", !.key = 0])
        \/ SetDraft(t, b, [drafts[t][b] EXCEPT !.phase = "unsaved"])
        \/ SetDraft(t, b, NoDraft)
        \/ SetDraft(t, b, EmptyDraft)
    BY <1>8 DEF CheckAnswered, Finish
  <2>3. /\ [drafts[t][b] EXCEPT !.phase = "idle", !.key = 0].phase = "idle"
        /\ [drafts[t][b] EXCEPT !.phase = "idle", !.key = 0].key = 0
        /\ [drafts[t][b] EXCEPT !.phase = "unsaved"].key = drafts[t][b].key
        /\ [drafts[t][b] EXCEPT !.phase = "unsaved"].phase # "idle" /\ drafts[t][b].phase # "idle"
        /\ NoDraft.phase = "idle" /\ NoDraft.key = 0
        /\ EmptyDraft.phase = "idle" /\ EmptyDraft.key = 0
    BY <1>8, <2>1 DEF CheckAnswered, Drafts, NoDraft, EmptyDraft
  <2> QED
    BY <2>0, <2>2, <2>3, AskedKept
<1>9. ASSUME NEW t \in Tabs, NEW b \in Boxes[t], CheckUnknown(t, b) PROVE Asked'
  <2>0. b \in AllBoxes /\ SentKept
    BY BoxParts, SentStays
  <2>1. drafts[t][b] \in Drafts
    BY <2>0 DEF Typed, BoxTyped
  <2>2. SetDraft(t, b, [drafts[t][b] EXCEPT !.phase = "unknown"])
    BY <1>9 DEF CheckUnknown
  <2>3. /\ ([drafts[t][b] EXCEPT !.phase = "unknown"]).key = drafts[t][b].key
        /\ (([drafts[t][b] EXCEPT !.phase = "unknown"]).phase = "idle") <=> (drafts[t][b].phase = "idle")
    BY <1>9, <2>1 DEF CheckUnknown, Drafts, NoDraft, EmptyDraft
  <2> QED
    BY <2>0, <2>2, <2>3, AskedKept
<1>10. ASSUME NEW t \in Tabs, NEW b \in Boxes[t], TargetChecked(t, b) PROVE Asked'
  <2>0. b \in AllBoxes /\ SentKept
    BY BoxParts, SentStays
  <2>1. drafts[t][b] \in Drafts
    BY <2>0 DEF Typed, BoxTyped
  <2>2. PICK g : SetDraft(t, b, [drafts[t][b] EXCEPT !.phase = "idle", !.key = 0, !.gone = g])
    BY <1>10 DEF TargetChecked
  <2>3. /\ [drafts[t][b] EXCEPT !.phase = "idle", !.key = 0, !.gone = g].phase = "idle"
        /\ [drafts[t][b] EXCEPT !.phase = "idle", !.key = 0, !.gone = g].key = 0
    BY <2>1 DEF Drafts
  <2> QED
    BY <2>0, <2>2, <2>3, AskedKept
<1>11. ASSUME NEW t \in Tabs, Leave(t) PROVE Asked'
  <2>0. SentKept
    BY SentStays
  <2>1. \A u \in Tabs : \A c \in AllBoxes :
          drafts[u][c].phase # "idle" => sent'[drafts[u][c].key] = sent[drafts[u][c].key]
    BY <2>0, AskedSame
  <2>2. \A u \in Tabs : \A c \in AllBoxes :
          drafts'[u][c] = IF u = t THEN IF c[1] = "comment" THEN EmptyDraft ELSE NoDraft
                          ELSE drafts[u][c]
    BY <1>11 DEF Leave, Typed, BoxTyped
  <2>3. NoDraft.phase = "idle" /\ NoDraft.key = 0 /\ EmptyDraft.phase = "idle" /\ EmptyDraft.key = 0
    BY DEF NoDraft, EmptyDraft
  <2> QED
    BY <2>1, <2>2, <2>3 DEF Known, Asked
<1>12. ASSUME NEW t \in Tabs,
             \/ Load(t) \/ LoadEnds(t) \/ LoadFails(t) \/ CloseDialog(t)
             \/ Confirm(t) \/ ConfirmAnswered(t) \/ ConfirmUnknown(t) \/ DialogRefreshed(t)
             \/ DialogRefreshFails(t)
      PROVE  Asked'
  BY <1>12, SentStays, AskedStill DEF Load, LoadEnds, LoadFails, CloseDialog, Confirm,
     ConfirmAnswered, ConfirmUnknown, DialogRefreshed, DialogRefreshFails, tabs
<1>13. ASSUME NEW t \in Tabs, NEW c \in Comments,
             OpenDialog(t, c)
      PROVE  Asked'
  BY <1>13, SentStays, AskedStill DEF OpenDialog, tabs
<1>14. ASSUME NEW k \in Keys,
             \/ Begin(k) \/ Commit(k) \/ RequestStatus(k)
      PROVE  Asked'
  BY <1>14, SentStays, AskedStill DEF Begin, Commit, RequestStatus, tabs
<1>15. CASE UNCHANGED vars
  BY <1>15 DEF Known, Asked, vars, server, net, tabs, past
<1> QED
  BY <1>1, <1>2, <1>3, <1>4, <1>5, <1>6, <1>7, <1>8, <1>9, <1>10, <1>11, <1>12, <1>13,
     <1>14, <1>15
  DEF Next, TabNext, ServerNext

(* A dialog's key is a key, or nothing, and stays while it is only busy.   *)
LEMMA DialogNumbers ==
    ASSUME BoxTyped
    PROVE  \A u \in Tabs :
             /\ dialog[u].key \in Nat /\ dialog[u].key \in Keys \cup {0}
             /\ dialog[u].busy => dialog[u] # NoDialog
             /\ dialog[u] # NoDialog =>
                  /\ [dialog[u] EXCEPT !.busy = TRUE].key = dialog[u].key
                  /\ [dialog[u] EXCEPT !.busy = FALSE].key = dialog[u].key
PROOF
<1> SUFFICES ASSUME NEW u \in Tabs
             PROVE  /\ dialog[u].key \in Nat /\ dialog[u].key \in Keys \cup {0}
                    /\ dialog[u].busy => dialog[u] # NoDialog
                    /\ dialog[u] # NoDialog =>
                         /\ [dialog[u] EXCEPT !.busy = TRUE].key = dialog[u].key
                         /\ [dialog[u] EXCEPT !.busy = FALSE].key = dialog[u].key
  OBVIOUS
<1>1. CASE dialog[u] = NoDialog
  BY <1>1 DEF NoDialog
<1>2. CASE dialog[u] # NoDialog
  <2>1. dialog[u] \in [comment : Comments, version : Nat, key : Keys, busy : BOOLEAN]
    BY <1>2 DEF BoxTyped, Dialogs
  <2> QED
    BY <1>2, <2>1, BoundsAssumption DEF Keys
<1> QED
  BY <1>1, <1>2

(* Dialogs keep their keys to themselves.                                  *)
LEMMA DialogKeysStep ==
    ASSUME Typed, Known, [Next]_vars
    PROVE  DialogKeys'
PROOF
<1>1. ASSUME NEW t \in Tabs, NEW b \in Boxes[t], Submit(t, b) PROVE DialogKeys'
  <2>0. SubmitSent(t, b)
    BY <1>1, SubmitSends
  <2>1. dialog' = dialog
    BY <1>1 DEF Submit
  <2>2. \A u \in Tabs : dialog[u].key \in Nat /\ dialog[u].key \in Keys \cup {0}
    BY DialogNumbers DEF Typed
  <2>3. nextKey \in Nat
    BY <2>0 DEF SubmitSent, Keys
  <2> QED
    BY <2>0, <2>1, <2>2, <2>3 DEF SubmitSent, Known, DialogKeys
<1>2. ASSUME NEW t \in Tabs, NEW c \in Comments, OpenDialog(t, c) PROVE DialogKeys'
  <2>1. /\ nextKey \in Nat /\ nextKey' = nextKey + 1 /\ sent' = sent
        /\ dialog'[t].key = nextKey
        /\ \A u \in Tabs : u # t => dialog'[u] = dialog[u]
    BY <1>2, BoundsAssumption DEF OpenDialog, Typed, PastTyped, BoxTyped
  <2>2. nextKey \in Keys
    BY <1>2, BoundsAssumption DEF OpenDialog, Typed, PastTyped, Keys
  <2>3. sent[nextKey] = None
    BY <2>1, <2>2 DEF Known, KeysDrawn
  <2>4. \A u \in Tabs : dialog[u].key \in Nat
    BY DialogNumbers DEF Typed
  <2> QED
    BY <2>1, <2>3, <2>4 DEF Known, DialogKeys
<1>3. ASSUME NEW t \in Tabs, CloseDialog(t) PROVE DialogKeys'
  <2>1. /\ \A u \in Tabs : dialog'[u].key = dialog[u].key \/ dialog'[u].key = 0
        /\ UNCHANGED <<sent, nextKey>>
    <3>1. \A u \in Tabs : u # t => dialog'[u] = dialog[u]
      BY <1>3 DEF CloseDialog, Typed, BoxTyped
    <3>2. \/ dialog'[t] = NoDialog
          \/ dialog[t] # NoDialog /\ dialog'[t] = [dialog[t] EXCEPT !.busy = FALSE]
      BY <1>3, DialogNumbers DEF CloseDialog, Typed, BoxTyped
    <3>3. NoDialog.key = 0
      BY DEF NoDialog
    <3>4. dialog[t] # NoDialog => [dialog[t] EXCEPT !.busy = FALSE].key = dialog[t].key
      BY DialogNumbers DEF Typed
    <3> QED
      BY <1>3, <3>1, <3>2, <3>3, <3>4 DEF CloseDialog
  <2> QED
    BY <2>1 DEF Known, DialogKeys
<1>4. ASSUME NEW t \in Tabs, Confirm(t) PROVE DialogKeys'
  <2>0. ConfirmSent(t)
    BY <1>4, ConfirmSends
  <2>1. \A u \in Tabs : dialog'[u].key = dialog[u].key
    <3>1. dialog' = [dialog EXCEPT ![t] = [dialog[t] EXCEPT !.busy = TRUE]]
      BY <1>4 DEF Confirm
    <3>2. [dialog[t] EXCEPT !.busy = TRUE].key = dialog[t].key
      BY <1>4, DialogNumbers DEF Confirm, Typed
    <3> QED
      BY <3>1, <3>2 DEF Typed, BoxTyped
  <2>2. \A u \in Tabs : dialog[u].key \in Nat /\ dialog[u].key \in Keys \cup {0}
    BY DialogNumbers DEF Typed
  <2>3. nextKey' = nextKey
    BY <1>4 DEF Confirm
  <2> QED
    BY <2>0, <2>1, <2>2, <2>3 DEF ConfirmSent, Known, DialogKeys
<1>5. ASSUME NEW t \in Tabs, ConfirmAnswered(t) PROVE DialogKeys'
  <2>1. /\ \A u \in Tabs : dialog'[u].key = dialog[u].key \/ dialog'[u].key = 0
        /\ UNCHANGED <<sent, nextKey>>
    <3>1. \A u \in Tabs : u # t => dialog'[u] = dialog[u]
      BY <1>5 DEF ConfirmAnswered, Typed, BoxTyped
    <3>2. \/ dialog'[t] = NoDialog
          \/ dialog[t] # NoDialog /\ dialog'[t] = [dialog[t] EXCEPT !.busy = FALSE]
      BY <1>5, DialogNumbers DEF ConfirmAnswered, Typed, BoxTyped
    <3>3. NoDialog.key = 0
      BY DEF NoDialog
    <3>4. dialog[t] # NoDialog => [dialog[t] EXCEPT !.busy = FALSE].key = dialog[t].key
      BY DialogNumbers DEF Typed
    <3> QED
      BY <1>5, <3>1, <3>2, <3>3, <3>4 DEF ConfirmAnswered
  <2> QED
    BY <2>1 DEF Known, DialogKeys
<1>6. ASSUME NEW t \in Tabs, ConfirmUnknown(t) PROVE DialogKeys'
  <2>1. /\ \A u \in Tabs : dialog'[u].key = dialog[u].key \/ dialog'[u].key = 0
        /\ UNCHANGED <<sent, nextKey>>
    <3>1. \A u \in Tabs : u # t => dialog'[u] = dialog[u]
      BY <1>6 DEF ConfirmUnknown, Typed, BoxTyped
    <3>2. \/ dialog'[t] = NoDialog
          \/ dialog[t] # NoDialog /\ dialog'[t] = [dialog[t] EXCEPT !.busy = FALSE]
      BY <1>6, DialogNumbers DEF ConfirmUnknown, Typed, BoxTyped
    <3>3. NoDialog.key = 0
      BY DEF NoDialog
    <3>4. dialog[t] # NoDialog => [dialog[t] EXCEPT !.busy = FALSE].key = dialog[t].key
      BY DialogNumbers DEF Typed
    <3> QED
      BY <1>6, <3>1, <3>2, <3>3, <3>4 DEF ConfirmUnknown
  <2> QED
    BY <2>1 DEF Known, DialogKeys
<1>7. ASSUME NEW t \in Tabs, DialogRefreshed(t) PROVE DialogKeys'
  <2>1. CASE UNCHANGED <<dialog, nextKey>>
    BY <1>7, <2>1 DEF DialogRefreshed, Known, DialogKeys
  <2>2. CASE ~UNCHANGED <<dialog, nextKey>>
    <3>1. /\ nextKey \in Keys /\ nextKey' = nextKey + 1 /\ sent' = sent /\ dialog[t].key # 0
          /\ dialog' = [dialog EXCEPT ![t].version = Refreshed(t, "dialog")[dialog[t].comment],
                                      ![t].key = nextKey]
      BY <1>7, <2>2, BoundsAssumption DEF DialogRefreshed, Typed, PastTyped, Keys
    <3>2. dialog[t] \in [comment : Comments, version : Nat, key : Keys, busy : BOOLEAN]
      <4>1. dialog[t] # NoDialog
        BY <3>1, DialogParts DEF Typed
      <4> QED
        BY <4>1 DEF Typed, BoxTyped, Dialogs
    <3>3. /\ dialog'[t].key = nextKey
          /\ \A u \in Tabs : u # t => dialog'[u] = dialog[u]
      BY <3>1, <3>2 DEF Typed, BoxTyped
    <3>4. nextKey \in Nat
      BY <3>1 DEF Keys
    <3>5. sent[nextKey] = None
      BY <3>1, <3>4 DEF Known, KeysDrawn
    <3>6. \A u \in Tabs : dialog[u].key \in Nat
      BY DialogNumbers DEF Typed
    <3>7. \A u \in Tabs : dialog[u].key # nextKey
      <4> SUFFICES ASSUME NEW u \in Tabs, dialog[u].key = nextKey PROVE FALSE
        OBVIOUS
      <4>1. nextKey # 0
        BY <3>1, BoundsAssumption DEF Keys
      <4>2. nextKey < nextKey
        BY <4>1 DEF Known, DialogKeys
      <4> QED
        BY <3>4, <4>2
    <3>75. nextKey' = nextKey + 1 /\ sent' = sent /\ dialog'[t].key = nextKey
      BY <3>1, <3>3
    <3>76. \A u \in Tabs : dialog[u].key # 0 => dialog[u].key < nextKey
      BY DEF Known, DialogKeys
    <3>77. \A u, v \in Tabs : dialog[u].key # 0 /\ dialog[u].key = dialog[v].key => u = v
      BY DEF Known, DialogKeys
    <3>8. \A u \in Tabs : u # t /\ dialog'[u].key # 0 => dialog'[u].key < nextKey'
      BY <3>3, <3>4, <3>6, <3>75, <3>76
    <3>9. dialog'[t].key < nextKey'
      BY <3>1, <3>3, <3>4
    <3>10. \A u \in Tabs : dialog'[u].key # 0 /\ sent'[dialog'[u].key] # None =>
             sent'[dialog'[u].key].action = "erase" /\ sent'[dialog'[u].key].tab = u
      <4>1. \A u \in Tabs : dialog[u].key # 0 /\ sent[dialog[u].key] # None =>
              sent[dialog[u].key].action = "erase" /\ sent[dialog[u].key].tab = u
        BY DEF Known, DialogKeys
      <4>2. sent'[dialog'[t].key] = None
        BY <3>5, <3>75
      <4> QED
        BY <3>3, <3>75, <4>1, <4>2
    <3>11. \A u, v \in Tabs : dialog'[u].key # 0 /\ dialog'[u].key = dialog'[v].key => u = v
      BY <3>3, <3>7, <3>75, <3>77
    <3> QED
      BY <3>8, <3>9, <3>10, <3>11 DEF DialogKeys
  <2> QED
    BY <2>1, <2>2
<1>8. ASSUME NEW t \in Tabs, Leave(t) PROVE DialogKeys'
  <2>1. /\ \A u \in Tabs : dialog'[u].key = dialog[u].key \/ dialog'[u].key = 0
        /\ UNCHANGED <<sent, nextKey>>
    <3>1. \A u \in Tabs : u # t => dialog'[u] = dialog[u]
      BY <1>8 DEF Leave, Typed, BoxTyped
    <3>2. \/ dialog'[t] = NoDialog
          \/ dialog[t] # NoDialog /\ dialog'[t] = [dialog[t] EXCEPT !.busy = FALSE]
      BY <1>8, DialogNumbers DEF Leave, Typed, BoxTyped
    <3>3. NoDialog.key = 0
      BY DEF NoDialog
    <3>4. dialog[t] # NoDialog => [dialog[t] EXCEPT !.busy = FALSE].key = dialog[t].key
      BY DialogNumbers DEF Typed
    <3> QED
      BY <1>8, <3>1, <3>2, <3>3, <3>4 DEF Leave
  <2> QED
    BY <2>1 DEF Known, DialogKeys
<1>9. ASSUME NEW t \in Tabs,
             \/ Load(t) \/ LoadEnds(t) \/ LoadFails(t) \/ DialogRefreshFails(t)
      PROVE  DialogKeys'
  BY <1>9 DEF Load, LoadEnds, LoadFails, DialogRefreshFails, Known, DialogKeys, tabs
<1>10. ASSUME NEW t \in Tabs, NEW b \in Boxes[t],
             \/ OpenBox(t, b) \/ Write(t, b) \/ CancelBox(t, b) \/ SubmitAnswered(t, b)
             \/ SubmitUnknown(t, b) \/ Check(t, b) \/ CheckAnswered(t, b) \/ CheckUnknown(t, b)
             \/ TargetChecked(t, b)
      PROVE  DialogKeys'
  <2>1. UNCHANGED <<dialog, sent, nextKey>>
    <3>1. CASE OpenBox(t, b) \/ Write(t, b) \/ CancelBox(t, b)
      BY <3>1 DEF OpenBox, Write, CancelBox
    <3>2. CASE SubmitAnswered(t, b) \/ SubmitUnknown(t, b)
      BY <3>2 DEF SubmitAnswered, SubmitUnknown
    <3>3. CASE Check(t, b) \/ CheckAnswered(t, b) \/ CheckUnknown(t, b)
      BY <3>3 DEF Check, CheckAnswered, CheckUnknown
    <3>4. CASE TargetChecked(t, b)
      BY <3>4 DEF TargetChecked
    <3> QED
      BY <1>10, <3>1, <3>2, <3>3, <3>4
  <2> QED
    BY <2>1 DEF Known, DialogKeys
<1>11. ASSUME NEW k \in Keys,
             \/ Begin(k) \/ Commit(k) \/ RequestStatus(k)
      PROVE  DialogKeys'
  BY <1>11 DEF Begin, Commit, RequestStatus, Known, DialogKeys, tabs
<1>12. CASE UNCHANGED vars
  BY <1>12 DEF Known, DialogKeys, vars, server, net, tabs, past
<1> QED
  BY <1>1, <1>2, <1>3, <1>4, <1>5, <1>6, <1>7, <1>8, <1>9, <1>10, <1>11, <1>12
  DEF Next, TabNext, ServerNext

(* The next key has not been used.                                         *)
LEMMA FreshKey ==
    ASSUME Typed, Known, nextKey \in Keys
    PROVE  sent[nextKey] = None
PROOF
<1>1. sent[nextKey] # None => nextKey < nextKey
  BY DEF Known, KeysDrawn
<1>2. nextKey \in Nat
  BY BoundsAssumption DEF Keys
<1> QED
  BY <1>1, <1>2

(* Locks stay with the requests that hold them.                            *)
LEMMA LocksOwnedStep ==
    ASSUME Typed, Known, [Next]_vars
    PROVE  LocksOwned'
PROOF
<1>1. ASSUME NEW t \in Tabs, NEW b \in Boxes[t], Submit(t, b) PROVE LocksOwned'
  <2>0. SubmitSent(t, b) /\ SentKept
    BY <1>1, SubmitSends, SentStays
  <2>1. tx' = tx /\ AccountOf[t] \in Accounts
    BY <1>1, AccountAssumption DEF Submit, server
  <2>2. sent[nextKey] = None
    BY <2>0, FreshKey DEF SubmitSent
  <2>3. ASSUME NEW a \in Accounts, tx[a] # 0
        PROVE  tx[a] \in Keys /\ tx[a] # nextKey /\ sent'[tx[a]] = sent[tx[a]] /\ sent[tx[a]] # None
               /\ AccountFor(tx[a]) = a
    <3>1. tx[a] \in Keys
      BY <2>3, BoundsAssumption DEF Typed, ServerTyped, Keys
    <3>2. sent[tx[a]] # None /\ AccountFor(tx[a]) = a
      BY <2>3 DEF Known, LocksOwned
    <3> QED
      BY <2>0, <2>2, <3>1, <3>2 DEF SubmitSent
  <2>4. \A a \in Accounts : tx'[a] # 0 => (sent[tx[a]] # None /\ AccountFor(tx[a]) = a)'
    BY <2>1, <2>3 DEF AccountFor
  <2>5. ASSUME NEW k \in wire', Contribution(k)', Holds(k)' PROVE FALSE
    <3>1. CASE k = nextKey
      <4>1. tx[AccountOf[t]] = nextKey
        BY <2>0, <2>1, <2>5, <3>1 DEF Holds, AccountFor, SubmitSent
      <4>2. nextKey # 0
        BY <2>0 DEF SubmitSent, Keys
      <4> QED
        BY <2>1, <2>3, <4>1, <4>2
    <3>2. CASE k # nextKey
      <4>1. k \in wire /\ k \in Keys /\ sent'[k] = sent[k]
        BY <2>0, <2>5, <3>2 DEF SubmitSent, Typed, NetTyped
      <4> QED
        BY <2>1, <2>5, <4>1 DEF Holds, AccountFor, Contribution, Known, LocksOwned
    <3> QED
      BY <3>1, <3>2
  <2> QED
    BY <2>4, <2>5 DEF LocksOwned
<1>2. ASSUME NEW t \in Tabs, Confirm(t) PROVE LocksOwned'
  <2>0. ConfirmSent(t) /\ SentKept
    BY <1>2, ConfirmSends, SentStays
  <2>1. tx' = tx
    BY <1>2 DEF Confirm, server
  <2>2. ASSUME NEW a \in Accounts, tx[a] # 0
        PROVE  sent'[tx[a]] # None /\ AccountFor(tx[a])' = a
    <3>1. tx[a] \in Keys
      BY <2>2, BoundsAssumption DEF Typed, ServerTyped, Keys
    <3>2. sent[tx[a]] # None /\ AccountFor(tx[a]) = a
      BY <2>2 DEF Known, LocksOwned
    <3> QED
      BY <2>0, <2>1, <3>1, <3>2 DEF SentKept, AccountFor
  <2>3. ASSUME NEW k \in wire', Contribution(k)' PROVE ~Holds(k)'
    <3>1. k \in wire /\ k \in Keys /\ sent'[k] = sent[k]
      BY <2>0, <2>3 DEF ConfirmSent, Contribution, Typed, NetTyped
    <3> QED
      BY <2>1, <2>3, <3>1 DEF Holds, AccountFor, Contribution, Known, LocksOwned
  <2> QED
    BY <2>1, <2>2, <2>3 DEF LocksOwned
<1>3. ASSUME NEW k \in Keys, Begin(k) PROVE LocksOwned'
  <2>1. /\ k # 0 /\ sent[k] # None /\ UNCHANGED sent /\ AccountFor(k) \in Accounts
        /\ wire' = wire \ {k} /\ tx' = [tx EXCEPT ![AccountFor(k)] = k]
    BY <1>3, SentParts DEF Begin, Known, KeysDrawn, Keys, Typed
  <2>2. \A a \in Accounts : tx'[a] = IF a = AccountFor(k) THEN k ELSE tx[a]
    BY <2>1 DEF Typed, ServerTyped
  <2>3. \A j \in Keys : AccountFor(j)' = AccountFor(j)
    BY <2>1 DEF AccountFor
  <2>4. ASSUME NEW a \in Accounts, tx'[a] # 0
        PROVE  (sent[tx[a]] # None /\ AccountFor(tx[a]) = a)'
    <3>1. tx[a] # 0 => tx[a] \in Keys
      BY BoundsAssumption DEF Typed, ServerTyped, Keys
    <3> QED
      BY <2>1, <2>2, <2>3, <2>4, <3>1 DEF Known, LocksOwned, AccountFor
  <2>5. ASSUME NEW j \in wire', Contribution(j)' PROVE ~Holds(j)'
    <3>1. j \in wire /\ j \in Keys /\ j # k /\ Contribution(j)
      BY <2>1, <2>5 DEF Typed, NetTyped, Contribution
    <3>2. AccountFor(j) \in Accounts
      BY <3>1, SentParts DEF Contribution, Typed
    <3> QED
      BY <2>1, <2>2, <2>3, <3>1, <3>2 DEF Holds, Known, LocksOwned, Contribution
  <2> QED
    BY <2>4, <2>5 DEF LocksOwned
<1>4. ASSUME NEW k \in Keys, Commit(k) PROVE LocksOwned'
  <2>1. UNCHANGED <<sent, wire>> /\ tx' = [tx EXCEPT ![AccountFor(k)] = 0]
    BY <1>4 DEF Commit
  <2>2. \A a \in Accounts : tx'[a] = tx[a] \/ tx'[a] = 0
    BY <2>1 DEF Typed, ServerTyped
  <2>3. \A j \in Keys : AccountFor(j)' = AccountFor(j)
    BY <2>1 DEF AccountFor
  <2>4. ASSUME NEW a \in Accounts, tx'[a] # 0
        PROVE  (sent[tx[a]] # None /\ AccountFor(tx[a]) = a)'
    <3>1. tx[a] # 0 => tx[a] \in Keys
      BY BoundsAssumption DEF Typed, ServerTyped, Keys
    <3> QED
      BY <2>1, <2>2, <2>3, <2>4, <3>1 DEF Known, LocksOwned, AccountFor
  <2>5. ASSUME NEW j \in wire', Contribution(j)' PROVE ~Holds(j)'
    <3>1. j \in wire /\ j \in Keys /\ j # 0 /\ Contribution(j)
      BY <2>1, <2>5 DEF Typed, NetTyped, Contribution, Keys
    <3>2. AccountFor(j) \in Accounts
      BY <3>1, SentParts DEF Contribution, Typed
    <3> QED
      BY <2>1, <2>2, <2>3, <3>1, <3>2 DEF Holds, Known, LocksOwned
  <2> QED
    BY <2>4, <2>5 DEF LocksOwned
<1>5. ASSUME NEW t \in Tabs,
             \/ Load(t) \/ LoadEnds(t) \/ LoadFails(t) \/ CloseDialog(t)
             \/ ConfirmAnswered(t) \/ ConfirmUnknown(t) \/ DialogRefreshed(t)
                       \/ DialogRefreshFails(t)
             \/ Leave(t)
      PROVE  LocksOwned'
  BY <1>5 DEF Load, LoadEnds, LoadFails, CloseDialog, ConfirmAnswered, ConfirmUnknown,
     DialogRefreshed, DialogRefreshFails, Leave, Known, LocksOwned, Contribution, Holds,
     AccountFor, server, net
<1>6. ASSUME NEW t \in Tabs, NEW b \in Boxes[t],
             \/ OpenBox(t, b) \/ Write(t, b) \/ CancelBox(t, b) \/ SubmitAnswered(t, b)
             \/ SubmitUnknown(t, b) \/ Check(t, b) \/ CheckAnswered(t, b) \/ CheckUnknown(t, b)
             \/ TargetChecked(t, b)
      PROVE  LocksOwned'
  BY <1>6 DEF OpenBox, Write, CancelBox, SubmitAnswered, SubmitUnknown, Check,
     CheckAnswered, CheckUnknown, TargetChecked, Known, LocksOwned, Contribution, Holds,
     AccountFor, server, net
<1>7. ASSUME NEW t \in Tabs, NEW c \in Comments,
             OpenDialog(t, c)
      PROVE  LocksOwned'
  BY <1>7 DEF OpenDialog, Known, LocksOwned, Contribution, Holds, AccountFor, server, net
<1>8. ASSUME NEW k \in Keys,
             RequestStatus(k)
      PROVE  LocksOwned'
  BY <1>8 DEF RequestStatus, Known, LocksOwned, Contribution, Holds, AccountFor, server, net
<1>9. CASE UNCHANGED vars
  BY <1>9 DEF Known, LocksOwned, Contribution, Holds, AccountFor, vars, server, net, tabs, past
<1> QED
  BY <1>1, <1>2, <1>3, <1>4, <1>5, <1>6, <1>7, <1>8, <1>9
  DEF Next, TabNext, ServerNext

(* The four facts about keys hold after every step.                        *)
LEMMA KnownStep ==
    ASSUME Typed, Known, [Next]_vars
    PROVE  Known'
BY AskedStep, KeysDrawnStep, DialogKeysStep, LocksOwnedStep DEF Known
-----------------------------------------------------------------------------
(* A request that was acted on or fenced stays so; only the holder of its  *)
(* account's lock acts on it.                                              *)
ResultsKept ==
    \A k \in Keys :
        \/ mutations'[k] = mutations[k]
        \/ mutations[k] = 0 /\ (mutations'[k] = Fence \/ Holds(k))

(* Every step keeps results: only an unknown key gets one.                 *)
LEMMA ResultsStay ==
    ASSUME Typed, [Next]_vars
    PROVE  ResultsKept
PROOF
<1>1. ASSUME NEW k \in Keys, Commit(k) PROVE ResultsKept
  <2>1. \/ UNCHANGED mutations
        \/ mutations[k] = 0 /\ \E c : mutations' = [mutations EXCEPT ![k] = c]
    BY <1>1 DEF Commit, Replay, Create, Edit, Erase, Refuse, Record
  <2>2. Holds(k)
    BY <1>1 DEF Commit
  <2> QED
    BY <2>1, <2>2 DEF ResultsKept, Typed, ServerTyped
<1>2. ASSUME NEW k \in Keys, RequestStatus(k) PROVE ResultsKept
  BY <1>2 DEF RequestStatus, ResultsKept, Typed, ServerTyped
<1>3. ASSUME NEW t \in Tabs,
             \/ Load(t) \/ LoadEnds(t) \/ LoadFails(t) \/ CloseDialog(t)
             \/ Confirm(t) \/ ConfirmAnswered(t) \/ ConfirmUnknown(t) \/ DialogRefreshed(t)
             \/ DialogRefreshFails(t) \/ Leave(t)
      PROVE  ResultsKept
  BY <1>3 DEF Load, LoadEnds, LoadFails, CloseDialog, Confirm, ConfirmAnswered,
     ConfirmUnknown, DialogRefreshed, DialogRefreshFails, Leave, ResultsKept, server
<1>4. ASSUME NEW t \in Tabs, NEW b \in Boxes[t],
             \/ OpenBox(t, b) \/ Write(t, b) \/ CancelBox(t, b) \/ Submit(t, b)
             \/ SubmitAnswered(t, b) \/ SubmitUnknown(t, b) \/ Check(t, b) \/ CheckAnswered(t, b)
             \/ CheckUnknown(t, b) \/ TargetChecked(t, b)
      PROVE  ResultsKept
  BY <1>4 DEF OpenBox, Write, CancelBox, Submit, SubmitAnswered, SubmitUnknown, Check,
     CheckAnswered, CheckUnknown, TargetChecked, ResultsKept, server
<1>5. ASSUME NEW t \in Tabs, NEW c \in Comments,
             OpenDialog(t, c)
      PROVE  ResultsKept
  BY <1>5 DEF OpenDialog, ResultsKept, server
<1>6. ASSUME NEW k \in Keys,
             Begin(k)
      PROVE  ResultsKept
  BY <1>6 DEF Begin, ResultsKept, server
<1>7. CASE UNCHANGED vars
  BY <1>7 DEF ResultsKept, server, vars
<1> QED
  BY <1>1, <1>2, <1>3, <1>4, <1>5, <1>6, <1>7
  DEF Next, TabNext, ServerNext

(* A dead contribution stays dead, and a saved request saved.              *)
VerdictsKept ==
    /\ \A k \in Keys : Saved(k) => Saved(k)'
    /\ \A k \in Keys : Contribution(k) => Contribution(k)'
    /\ \A k \in Keys : Contribution(k) /\ Dead(k) => Dead(k)'

(* A contribution that is neither under way nor at work stays that way.    *)
LEMMA QuietStays ==
    ASSUME Typed, Known, NEW k \in Keys, Contribution(k), k \notin wire, ~Holds(k), [Next]_vars
    PROVE  k \notin wire' /\ ~Holds(k)'
PROOF
<1>1. ASSUME NEW t \in Tabs, NEW b \in Boxes[t], Submit(t, b) PROVE k \notin wire' /\ ~Holds(k)'
  <2>1. SubmitSent(t, b)
    BY <1>1, SubmitSends
  <2>2. k # nextKey /\ tx' = tx
    BY <1>1, <2>1, FreshKey DEF Submit, server, SubmitSent, Contribution
  <2> QED
    BY <2>1, <2>2 DEF SubmitSent, Holds, AccountFor
<1>2. ASSUME NEW t \in Tabs, Confirm(t) PROVE k \notin wire' /\ ~Holds(k)'
  <2>1. ConfirmSent(t)
    BY <1>2, ConfirmSends
  <2>2. k # dialog[t].key /\ tx' = tx
    BY <1>2, <2>1 DEF Confirm, server, ConfirmSent, Contribution, Known, DialogKeys
  <2> QED
    BY <2>1, <2>2 DEF ConfirmSent, Holds, AccountFor
<1>3. ASSUME NEW j \in Keys, Begin(j) PROVE k \notin wire' /\ ~Holds(k)'
  <2>1. /\ j # k /\ wire' = wire \ {j} /\ sent' = sent
        /\ tx' = [tx EXCEPT ![AccountFor(j)] = j]
    BY <1>3 DEF Begin
  <2>2. AccountFor(k) \in Accounts
    BY SentParts DEF Contribution, Typed
  <2>3. tx'[AccountFor(k)] = tx[AccountFor(k)] \/ tx'[AccountFor(k)] = j
    BY <2>1, <2>2 DEF Typed, ServerTyped
  <2> QED
    BY <2>1, <2>3 DEF Holds, AccountFor, Contribution
<1>4. ASSUME NEW j \in Keys, Commit(j) PROVE k \notin wire' /\ ~Holds(k)'
  <2>1. wire' = wire /\ sent' = sent /\ tx' = [tx EXCEPT ![AccountFor(j)] = 0] /\ k # 0
    BY <1>4 DEF Commit, Keys
  <2>2. AccountFor(k) \in Accounts
    BY SentParts DEF Contribution, Typed
  <2>3. tx'[AccountFor(k)] = tx[AccountFor(k)] \/ tx'[AccountFor(k)] = 0
    BY <2>1, <2>2 DEF Typed, ServerTyped
  <2> QED
    BY <2>1, <2>3 DEF Holds, AccountFor, Contribution
<1>5. ASSUME NEW t \in Tabs,
             \/ Load(t) \/ LoadEnds(t) \/ LoadFails(t) \/ CloseDialog(t)
             \/ ConfirmAnswered(t) \/ ConfirmUnknown(t) \/ DialogRefreshed(t)
                       \/ DialogRefreshFails(t)
             \/ Leave(t)
      PROVE  k \notin wire' /\ ~Holds(k)'
  BY <1>5 DEF Load, LoadEnds, LoadFails, CloseDialog, ConfirmAnswered, ConfirmUnknown,
     DialogRefreshed, DialogRefreshFails, Leave, server, net, Holds, AccountFor
<1>6. ASSUME NEW t \in Tabs, NEW b \in Boxes[t],
             \/ OpenBox(t, b) \/ Write(t, b) \/ CancelBox(t, b) \/ SubmitAnswered(t, b)
             \/ SubmitUnknown(t, b) \/ Check(t, b) \/ CheckAnswered(t, b) \/ CheckUnknown(t, b)
             \/ TargetChecked(t, b)
      PROVE  k \notin wire' /\ ~Holds(k)'
  BY <1>6 DEF OpenBox, Write, CancelBox, SubmitAnswered, SubmitUnknown, Check,
     CheckAnswered, CheckUnknown, TargetChecked, server, net, Holds, AccountFor
<1>7. ASSUME NEW t \in Tabs, NEW c \in Comments,
             OpenDialog(t, c)
      PROVE  k \notin wire' /\ ~Holds(k)'
  BY <1>7 DEF OpenDialog, server, net, Holds, AccountFor
<1>8. ASSUME NEW j \in Keys,
             RequestStatus(j)
      PROVE  k \notin wire' /\ ~Holds(k)'
  BY <1>8 DEF RequestStatus, server, net, Holds, AccountFor
<1>9. CASE UNCHANGED vars
  BY <1>9 DEF server, net, vars, Holds, AccountFor
<1> QED
  BY <1>1, <1>2, <1>3, <1>4, <1>5, <1>6, <1>7, <1>8, <1>9
  DEF Next, TabNext, ServerNext

(* Every step keeps what was saved saved and what was dead dead.           *)
LEMMA VerdictsStay ==
    ASSUME Typed, Known, [Next]_vars
    PROVE  VerdictsKept
PROOF
<1>1. ResultsKept /\ SentKept
  BY ResultsStay, SentStays
<1>2. ASSUME NEW k \in Keys, Saved(k) PROVE Saved(k)'
  BY <1>1, <1>2, BoundsAssumption DEF ResultsKept, Saved, Comments
<1>3. ASSUME NEW k \in Keys, Contribution(k) PROVE Contribution(k)'
  BY <1>1, <1>3 DEF SentKept, Contribution
<1>4. ASSUME NEW k \in Keys, Contribution(k), Dead(k) PROVE Dead(k)'
  <2>1. Fence # 0
    BY BoundsAssumption DEF Fence
  <2>2. CASE mutations[k] = Fence
    BY <1>1, <2>1, <2>2 DEF ResultsKept, Dead
  <2>3. CASE mutations[k] = 0 /\ k \notin wire /\ ~Holds(k)
    <3>1. k \notin wire' /\ ~Holds(k)'
      BY <1>4, <2>3, QuietStays
    <3> QED
      BY <1>1, <2>3, <3>1 DEF ResultsKept, Dead
  <2> QED
    BY <1>4, <2>2, <2>3 DEF Dead
<1> QED
  BY <1>2, <1>3, <1>4 DEF VerdictsKept

(* What was final stays final.                                             *)
Final(a) == IF a.ok THEN Saved(a.key) ELSE Contribution(a.key) => Dead(a.key)

(* A final answer stays final as long as it is under way.                  *)
LEMMA AnswerStays ==
    ASSUME Typed, Known, Reported, [Next]_vars, NEW a \in answers
    PROVE  Final(a)'
PROOF
<1>1. VerdictsKept /\ SentKept
  BY VerdictsStay, SentStays
<1>2. a.key \in Keys /\ sent[a.key] # None /\ Final(a)
  BY DEF Typed, NetTyped, Answers, Known, KeysDrawn, Reported, Final
<1>3. Contribution(a.key)' => Contribution(a.key)
  BY <1>1, <1>2 DEF SentKept, Contribution
<1> QED
  BY <1>1, <1>2, <1>3 DEF VerdictsKept, Final

(* A step that reports only what is final keeps the reports true.          *)
LEMMA ReportedKept ==
    ASSUME Typed, Known, Reported, [Next]_vars, answers' \subseteq answers,
           \A u \in Tabs : \A c \in AllBoxes :
              drafts'[u][c].phase \in {"refused", "unsaved"} =>
                 \E k \in Keys : k = drafts'[u][c].key /\ Contribution(k) /\ Dead(k),
           \A k \in Keys : \/ told'[k] = told[k]
                           \/ told'[k] = "unsaved" /\ Contribution(k) /\ Dead(k)
                           \/ told'[k] = "saved" /\ Saved(k)
    PROVE  Reported'
PROOF
<1>1. VerdictsKept
  BY VerdictsStay
<1>2. \A a \in answers' : Final(a)'
  BY AnswerStays
<1>3. ASSUME NEW u \in Tabs, NEW c \in AllBoxes, drafts'[u][c].phase \in {"refused", "unsaved"}
      PROVE  Dead(drafts[u][c].key)'
  BY <1>1, <1>3 DEF VerdictsKept
<1>4. \A k \in Keys : told'[k] = "unsaved" => Contribution(k)' /\ Dead(k)'
  BY <1>1 DEF VerdictsKept, Reported
<1>5. \A k \in Keys : told'[k] = "saved" => Saved(k)'
  BY <1>1 DEF VerdictsKept, Reported
<1> QED
  BY <1>2, <1>3, <1>4, <1>5 DEF Reported, Final

(* The request of a refused draft is a dead contribution.                  *)
LEMMA RefusedIsDead ==
    ASSUME Typed, Known, Reported, NEW u \in Tabs, NEW c \in AllBoxes
    PROVE  /\ drafts[u][c].phase # "idle" =>
                drafts[u][c].key \in Keys /\ Contribution(drafts[u][c].key)
           /\ drafts[u][c].phase \in {"refused", "unsaved"} =>
                \E k \in Keys : k = drafts[u][c].key /\ Contribution(k) /\ Dead(k)
PROOF
<1>1. c[1] # "erase"
  BY BoxParts
<1>2. drafts[u][c].phase # "idle" =>
        drafts[u][c].key \in Keys /\ Contribution(drafts[u][c].key)
  BY <1>1, BoundsAssumption DEF Known, Asked, Contribution, Typed, BoxTyped, Drafts, Keys
<1> QED
  BY <1>2 DEF Reported

(* The reports stay true.                                                  *)
LEMMA ReportedStep ==
    ASSUME Typed, Known, Reported, [Next]_vars
    PROVE  Reported'
PROOF
<1>1. ASSUME NEW t \in Tabs, NEW b \in Boxes[t], OpenBox(t, b) PROVE Reported'
  <2>0. b \in AllBoxes
    BY BoxParts
  <2>1. drafts[t][b] \in Drafts
    BY <2>0 DEF Typed, BoxTyped
  <2>2. \A u \in Tabs : \A c \in AllBoxes : (u # t \/ c # b) => drafts'[u][c] = drafts[u][c]
    BY <1>1, <2>0 DEF OpenBox, SetDraft, Typed, BoxTyped
  <2>3. drafts'[t][b].phase \notin {"refused", "unsaved"}
    BY <1>1, <2>0, <2>1 DEF OpenBox, SetDraft, Typed, BoxTyped, EmptyDraft, NoDraft, Drafts
  <2>4. told' = told /\ answers' \subseteq answers
    BY <1>1 DEF OpenBox, past, net
  <2> QED
    BY <2>2, <2>3, <2>4, RefusedIsDead, ReportedKept
<1>2. ASSUME NEW t \in Tabs, NEW b \in Boxes[t], Write(t, b) PROVE Reported'
  <2>0. b \in AllBoxes
    BY BoxParts
  <2>1. drafts[t][b] \in Drafts
    BY <2>0 DEF Typed, BoxTyped
  <2>2. \A u \in Tabs : \A c \in AllBoxes : (u # t \/ c # b) => drafts'[u][c] = drafts[u][c]
    BY <1>2, <2>0 DEF Write, SetDraft, Typed, BoxTyped
  <2>3. drafts'[t][b].phase \notin {"refused", "unsaved"}
    BY <1>2, <2>0, <2>1 DEF Write, SetDraft, Typed, BoxTyped, Drafts
  <2>4. told' = told /\ answers' \subseteq answers
    BY <1>2 DEF Write, past, net
  <2> QED
    BY <2>2, <2>3, <2>4, RefusedIsDead, ReportedKept
<1>3. ASSUME NEW t \in Tabs, NEW b \in Boxes[t], CancelBox(t, b) PROVE Reported'
  <2>0. b \in AllBoxes
    BY BoxParts
  <2>1. drafts[t][b] \in Drafts
    BY <2>0 DEF Typed, BoxTyped
  <2>2. \A u \in Tabs : \A c \in AllBoxes : (u # t \/ c # b) => drafts'[u][c] = drafts[u][c]
    BY <1>3, <2>0 DEF CancelBox, SetDraft, Typed, BoxTyped
  <2>3. drafts'[t][b].phase \notin {"refused", "unsaved"}
    BY <1>3, <2>0, <2>1 DEF CancelBox, SetDraft, Typed, BoxTyped, NoDraft, Drafts
  <2>4. told' = told /\ answers' \subseteq answers
    BY <1>3 DEF CancelBox, past, net
  <2> QED
    BY <2>2, <2>3, <2>4, RefusedIsDead, ReportedKept
<1>4. ASSUME NEW t \in Tabs, NEW b \in Boxes[t], Submit(t, b) PROVE Reported'
  <2>0. b \in AllBoxes
    BY BoxParts
  <2>1. drafts[t][b] \in Drafts
    BY <2>0 DEF Typed, BoxTyped
  <2>2. \A u \in Tabs : \A c \in AllBoxes : (u # t \/ c # b) => drafts'[u][c] = drafts[u][c]
    BY <1>4, <2>0 DEF Submit, SetDraft, Typed, BoxTyped
  <2>3. drafts'[t][b].phase \notin {"refused", "unsaved"}
    BY <1>4, <2>0, <2>1 DEF Submit, SetDraft, Typed, BoxTyped, Drafts
  <2>4. told' = told /\ answers' \subseteq answers
    BY <1>4 DEF Submit, past, net
  <2> QED
    BY <2>2, <2>3, <2>4, RefusedIsDead, ReportedKept
<1>5. ASSUME NEW t \in Tabs, NEW b \in Boxes[t], SubmitAnswered(t, b) PROVE Reported'
  <2>0. b \in AllBoxes
    BY BoxParts
  <2>1. drafts[t][b] \in Drafts /\ drafts[t][b].phase # "idle"
    BY <1>5, <2>0 DEF SubmitAnswered, Typed, BoxTyped
  <2>2. drafts[t][b].key \in Keys /\ Contribution(drafts[t][b].key)
    BY <2>0, <2>1, RefusedIsDead
  <2>3. PICK a \in AnswerFor(t, b, "write") :
          /\ answers' = answers \ {a}
          /\ \/ /\ a.ok /\ told' = [told EXCEPT ![drafts[t][b].key] = "saved"]
                /\ \/ SetDraft(t, b, [drafts[t][b] EXCEPT !.phase = "idle", !.key = 0])
                   \/ SetDraft(t, b, NoDraft)
                   \/ SetDraft(t, b, EmptyDraft)
             \/ /\ ~a.ok /\ told' = [told EXCEPT ![a.key] = "unsaved"]
                /\ SetDraft(t, b, [drafts[t][b] EXCEPT !.phase = "idle", !.key = 0])
             \/ /\ ~a.ok /\ told' = told
                /\ SetDraft(t, b, [drafts[t][b] EXCEPT !.phase = "refused"])
    BY <1>5 DEF SubmitAnswered, Finish
  <2>4. a \in answers /\ a.key = drafts[t][b].key /\ Final(a)
    BY DEF AnswerFor, Reported, Final
  <2>5. \A k \in Keys : \/ told'[k] = told[k]
                        \/ told'[k] = "unsaved" /\ Contribution(k) /\ Dead(k)
                        \/ told'[k] = "saved" /\ Saved(k)
    BY <2>2, <2>3, <2>4 DEF Final, Typed, PastTyped
  <2>6. PICK d : /\ SetDraft(t, b, d)
                 /\ \/ d = NoDraft \/ d = EmptyDraft
                           \/ d = [drafts[t][b] EXCEPT !.phase = "idle", !.key = 0]
                    \/ d = [drafts[t][b] EXCEPT !.phase = "refused"] /\ ~a.ok
    BY <2>3
  <2>70. /\ [drafts[t][b] EXCEPT !.phase = "idle", !.key = 0].phase = "idle"
         /\ [drafts[t][b] EXCEPT !.phase = "refused"].key = drafts[t][b].key
         /\ NoDraft.phase = "idle" /\ EmptyDraft.phase = "idle"
    BY <2>1 DEF Drafts, NoDraft, EmptyDraft
  <2>7. d.phase # "idle" => d.key = drafts[t][b].key /\ ~a.ok
    BY <2>6, <2>70
  <2>8. /\ \A u \in Tabs : \A c \in AllBoxes : (u # t \/ c # b) => drafts'[u][c] = drafts[u][c]
        /\ drafts'[t][b] = d
    BY <2>0, <2>6 DEF SetDraft, Typed, BoxTyped
  <2>9. drafts'[t][b].phase \in {"refused", "unsaved"} =>
          \E k \in Keys : k = drafts'[t][b].key /\ Contribution(k) /\ Dead(k)
    BY <2>2, <2>4, <2>7, <2>8 DEF Final
  <2>10. answers' \subseteq answers
    BY <2>3
  <2> QED
    BY <2>5, <2>8, <2>9, <2>10, RefusedIsDead, ReportedKept
<1>6. ASSUME NEW t \in Tabs, NEW b \in Boxes[t], SubmitUnknown(t, b) PROVE Reported'
  <2>0. b \in AllBoxes
    BY BoxParts
  <2>1. drafts[t][b] \in Drafts
    BY <2>0 DEF Typed, BoxTyped
  <2>2. \A u \in Tabs : \A c \in AllBoxes : (u # t \/ c # b) => drafts'[u][c] = drafts[u][c]
    BY <1>6, <2>0 DEF SubmitUnknown, SetDraft, Typed, BoxTyped
  <2>3. drafts'[t][b].phase \notin {"refused", "unsaved"}
    BY <1>6, <2>0, <2>1 DEF SubmitUnknown, SetDraft, Typed, BoxTyped, Drafts
  <2>4. told' = told /\ answers' \subseteq answers
    BY <1>6 DEF SubmitUnknown, past, net
  <2> QED
    BY <2>2, <2>3, <2>4, RefusedIsDead, ReportedKept
<1>7. ASSUME NEW t \in Tabs, NEW b \in Boxes[t], Check(t, b) PROVE Reported'
  <2>0. b \in AllBoxes
    BY BoxParts
  <2>1. drafts[t][b] \in Drafts
    BY <2>0 DEF Typed, BoxTyped
  <2>2. \A u \in Tabs : \A c \in AllBoxes : (u # t \/ c # b) => drafts'[u][c] = drafts[u][c]
    BY <1>7, <2>0 DEF Check, SetDraft, Typed, BoxTyped
  <2>3. drafts'[t][b].phase \notin {"refused", "unsaved"}
    BY <1>7, <2>0, <2>1 DEF Check, SetDraft, Typed, BoxTyped, Drafts
  <2>4. told' = told /\ answers' \subseteq answers
    BY <1>7 DEF Check, past, net
  <2> QED
    BY <2>2, <2>3, <2>4, RefusedIsDead, ReportedKept
<1>8. ASSUME NEW t \in Tabs, NEW b \in Boxes[t], CheckAnswered(t, b) PROVE Reported'
  <2>0. b \in AllBoxes
    BY BoxParts
  <2>1. drafts[t][b] \in Drafts /\ drafts[t][b].phase # "idle"
    BY <1>8, <2>0 DEF CheckAnswered, Typed, BoxTyped
  <2>2. drafts[t][b].key \in Keys /\ Contribution(drafts[t][b].key)
    BY <2>0, <2>1, RefusedIsDead
  <2>3. PICK a \in AnswerFor(t, b, "check") :
          /\ answers' = answers \ {a}
          /\ \/ /\ a.ok /\ told' = [told EXCEPT ![drafts[t][b].key] = "saved"]
                /\ \/ SetDraft(t, b, [drafts[t][b] EXCEPT !.phase = "idle", !.key = 0])
                   \/ SetDraft(t, b, NoDraft)
                   \/ SetDraft(t, b, EmptyDraft)
             \/ /\ ~a.ok /\ told' = [told EXCEPT ![a.key] = "unsaved"]
                /\ SetDraft(t, b, [drafts[t][b] EXCEPT !.phase = "idle", !.key = 0])
             \/ /\ ~a.ok /\ told' = told
                /\ SetDraft(t, b, [drafts[t][b] EXCEPT !.phase = "unsaved"])
    BY <1>8 DEF CheckAnswered, Finish
  <2>4. a \in answers /\ a.key = drafts[t][b].key /\ Final(a)
    BY DEF AnswerFor, Reported, Final
  <2>5. \A k \in Keys : \/ told'[k] = told[k]
                        \/ told'[k] = "unsaved" /\ Contribution(k) /\ Dead(k)
                        \/ told'[k] = "saved" /\ Saved(k)
    BY <2>2, <2>3, <2>4 DEF Final, Typed, PastTyped
  <2>6. PICK d : /\ SetDraft(t, b, d)
                 /\ \/ d = NoDraft \/ d = EmptyDraft
                           \/ d = [drafts[t][b] EXCEPT !.phase = "idle", !.key = 0]
                    \/ d = [drafts[t][b] EXCEPT !.phase = "unsaved"] /\ ~a.ok
    BY <2>3
  <2>70. /\ [drafts[t][b] EXCEPT !.phase = "idle", !.key = 0].phase = "idle"
         /\ [drafts[t][b] EXCEPT !.phase = "unsaved"].key = drafts[t][b].key
         /\ NoDraft.phase = "idle" /\ EmptyDraft.phase = "idle"
    BY <2>1 DEF Drafts, NoDraft, EmptyDraft
  <2>7. d.phase # "idle" => d.key = drafts[t][b].key /\ ~a.ok
    BY <2>6, <2>70
  <2>8. /\ \A u \in Tabs : \A c \in AllBoxes : (u # t \/ c # b) => drafts'[u][c] = drafts[u][c]
        /\ drafts'[t][b] = d
    BY <2>0, <2>6 DEF SetDraft, Typed, BoxTyped
  <2>9. drafts'[t][b].phase \in {"refused", "unsaved"} =>
          \E k \in Keys : k = drafts'[t][b].key /\ Contribution(k) /\ Dead(k)
    BY <2>2, <2>4, <2>7, <2>8 DEF Final
  <2>10. answers' \subseteq answers
    BY <2>3
  <2> QED
    BY <2>5, <2>8, <2>9, <2>10, RefusedIsDead, ReportedKept
<1>9. ASSUME NEW t \in Tabs, NEW b \in Boxes[t], CheckUnknown(t, b) PROVE Reported'
  <2>0. b \in AllBoxes
    BY BoxParts
  <2>1. drafts[t][b] \in Drafts
    BY <2>0 DEF Typed, BoxTyped
  <2>2. \A u \in Tabs : \A c \in AllBoxes : (u # t \/ c # b) => drafts'[u][c] = drafts[u][c]
    BY <1>9, <2>0 DEF CheckUnknown, SetDraft, Typed, BoxTyped
  <2>3. drafts'[t][b].phase \notin {"refused", "unsaved"}
    BY <1>9, <2>0, <2>1 DEF CheckUnknown, SetDraft, Typed, BoxTyped, Drafts
  <2>4. told' = told /\ answers' \subseteq answers
    BY <1>9 DEF CheckUnknown, past, net
  <2> QED
    BY <2>2, <2>3, <2>4, RefusedIsDead, ReportedKept
<1>10. ASSUME NEW t \in Tabs, NEW b \in Boxes[t], TargetChecked(t, b) PROVE Reported'
  <2>0. b \in AllBoxes
    BY BoxParts
  <2>1. drafts[t][b] \in Drafts /\ drafts[t][b].phase \in {"refused", "unsaved"}
    BY <1>10, <2>0 DEF TargetChecked, Typed, BoxTyped
  <2>2. drafts[t][b].key \in Keys /\ Contribution(drafts[t][b].key) /\ Dead(drafts[t][b].key)
    BY <2>0, <2>1, RefusedIsDead
  <2>3. PICK g : SetDraft(t, b, [drafts[t][b] EXCEPT !.phase = "idle", !.key = 0, !.gone = g])
    BY <1>10 DEF TargetChecked
  <2>4. [drafts[t][b] EXCEPT !.phase = "idle", !.key = 0, !.gone = g].phase = "idle"
    BY <2>1 DEF Drafts
  <2>5. /\ \A u \in Tabs : \A c \in AllBoxes : (u # t \/ c # b) => drafts'[u][c] = drafts[u][c]
        /\ drafts'[t][b].phase = "idle"
    BY <2>0, <2>3, <2>4 DEF SetDraft, Typed, BoxTyped
  <2>6. told' = [told EXCEPT ![drafts[t][b].key] = "unsaved"] /\ answers' = answers
    BY <1>10 DEF TargetChecked, net
  <2>7. \A k \in Keys : \/ told'[k] = told[k]
                        \/ told'[k] = "unsaved" /\ Contribution(k) /\ Dead(k)
                        \/ told'[k] = "saved" /\ Saved(k)
    BY <2>2, <2>6 DEF Typed, PastTyped
  <2>8. \A u \in Tabs : \A c \in AllBoxes : drafts'[u][c].phase \in {"refused", "unsaved"} =>
          \E k \in Keys : k = drafts'[u][c].key /\ Contribution(k) /\ Dead(k)
    BY <2>5, RefusedIsDead
  <2> QED
    BY <2>6, <2>7, <2>8, ReportedKept
<1>11. ASSUME NEW t \in Tabs, Leave(t) PROVE Reported'
  <2>1. \A u \in Tabs : \A c \in AllBoxes :
          drafts'[u][c] = IF u = t THEN IF c[1] = "comment" THEN EmptyDraft ELSE NoDraft
                          ELSE drafts[u][c]
    BY <1>11 DEF Leave, Typed, BoxTyped
  <2>2. NoDraft.phase = "idle" /\ EmptyDraft.phase = "idle"
    BY DEF NoDraft, EmptyDraft
  <2>3. told' = told /\ answers' \subseteq answers
    BY <1>11 DEF Leave
  <2> QED
    BY <2>1, <2>2, <2>3, RefusedIsDead, ReportedKept
<1>12. ASSUME NEW k \in Keys, Commit(k) PROVE Reported'
  <2>1. VerdictsKept
    BY VerdictsStay
  <2>2. drafts' = drafts /\ told' = told
    BY <1>12 DEF Commit, tabs, past
  <2>3. \A a \in answers' : \/ a \in answers
                            \/ /\ a.key = k /\ a.ok
                               /\ mutations'[k] \in Comments
                            \/ /\ a.key = k /\ ~a.ok
                               /\ mutations'[k] \in {0, Fence}
    <3>1. mutations[k] \in 0 .. Fence /\ mutations[k] \notin Comments => mutations[k] \in {0, Fence}
      BY BoundsAssumption DEF Typed, ServerTyped, Comments, Fence
    <3>2. CASE Replay(k)
      <4>1. mutations' = mutations
        BY <3>2 DEF Replay
      <4>2. \A a \in answers' : a \in answers \/ (a.key = k /\ (a.ok <=> Saved(k)))
        <5>1. CASE Saved(k)
          BY <3>2, <5>1 DEF Replay, Answered, Result
        <5>2. CASE ~Saved(k)
          BY <3>2, <5>2 DEF Replay, Answered, Refusal
        <5> QED
          BY <5>1, <5>2
      <4> QED
        BY <3>1, <4>1, <4>2 DEF Saved, Typed, ServerTyped
    <3>3. CASE Refuse(k) /\ mutations[k] = 0
      BY <3>3 DEF Refuse, Answered, Refusal
    <3>4. ASSUME NEW c \in Comments, Record(k, c)
          PROVE  \A a \in answers' : \/ a \in answers
                                     \/ a.key = k /\ a.ok /\ mutations'[k] \in Comments
      BY <3>4 DEF Record, Answered, Result, Typed, ServerTyped
    <3>5. sent[k] # None
      BY <1>12 DEF Commit, Holds
    <3>6. sent[k].action # "comment" => sent[k].target \in Comments
      BY <3>5, SentParts DEF Typed
    <3>7. CASE sent[k].action \in {"comment", "reply"} /\ mutations[k] = 0 /\ Create(k)
      BY <3>3, <3>4, <3>7 DEF Create
    <3>8. CASE sent[k].action = "edit" /\ mutations[k] = 0 /\ Edit(k)
      BY <3>3, <3>4, <3>6, <3>8 DEF Edit
    <3>9. CASE sent[k].action = "erase" /\ mutations[k] = 0 /\ Erase(k)
      BY <3>3, <3>4, <3>6, <3>9 DEF Erase
    <3> QED
      BY <1>12, <3>2, <3>7, <3>8, <3>9 DEF Commit
  <2>4. ASSUME NEW a \in answers', a.key = k,
               \/ a.ok /\ mutations'[k] \in Comments
               \/ ~a.ok /\ mutations'[k] \in {0, Fence}
        PROVE  Final(a)'
    <3>1. CASE a.ok
      BY <2>4, <3>1, BoundsAssumption DEF Final, Saved, Comments, Fence
    <3>2. CASE ~a.ok /\ Contribution(k)'
      <4>1. /\ wire' = wire /\ sent' = sent /\ tx' = [tx EXCEPT ![AccountFor(k)] = 0] /\ Holds(k)
            /\ k # 0
        BY <1>12 DEF Commit, Keys
      <4>2. Contribution(k) /\ AccountFor(k) \in Accounts
        BY <3>2, <4>1, SentParts DEF Contribution, Typed
      <4>3. k \notin wire
        BY <4>1, <4>2 DEF Known, LocksOwned
      <4>4. tx'[AccountFor(k)] = 0
        BY <4>1, <4>2 DEF Typed, ServerTyped
      <4>5. ~Holds(k)'
        BY <4>1, <4>4 DEF Holds, AccountFor
      <4>6. mutations'[k] \in {0, Fence}
        BY <2>4, <3>2
      <4>7. Dead(k)'
        BY <4>1, <4>3, <4>5, <4>6 DEF Dead, Fence
      <4> QED
        BY <2>4, <3>2, <4>7 DEF Final
    <3>3. CASE ~a.ok /\ ~Contribution(k)'
      BY <2>4, <3>3 DEF Final
    <3> QED
      BY <3>1, <3>2, <3>3
  <2>5. \A a \in answers' : Final(a)'
    BY <2>3, <2>4, AnswerStays
  <2>6. ASSUME NEW u \in Tabs, NEW c \in AllBoxes, drafts'[u][c].phase \in {"refused", "unsaved"}
        PROVE  Dead(drafts[u][c].key)'
    BY <2>1, <2>2, <2>6, RefusedIsDead DEF VerdictsKept
  <2>7. \A j \in Keys : /\ told'[j] = "unsaved" => Contribution(j)' /\ Dead(j)'
                        /\ told'[j] = "saved" => Saved(j)'
    BY <2>1, <2>2 DEF VerdictsKept, Reported
  <2> QED
    BY <2>5, <2>6, <2>7 DEF Reported, Final
<1>13. ASSUME NEW k \in Keys, RequestStatus(k) PROVE Reported'
  <2>1. VerdictsKept
    BY VerdictsStay
  <2>2. drafts' = drafts /\ told' = told
    BY <1>13 DEF RequestStatus, tabs, past
  <2>3. \A a \in answers' : \/ a \in answers
                            \/ a.key = k /\ (a.ok <=> Saved(k))
    BY <1>13 DEF RequestStatus, Answered, Result, Refusal
  <2>4. ASSUME NEW a \in answers', a.key = k, a.ok <=> Saved(k)
        PROVE  Final(a)'
    <3>1. CASE Saved(k)
      BY <2>1, <2>4, <3>1 DEF Final, VerdictsKept
    <3>2. CASE ~Saved(k)
      <4>1. mutations[k] \in {0, Fence}
        BY <3>2, BoundsAssumption DEF Saved, Typed, ServerTyped, Comments, Fence
      <4>2. mutations'[k] = Fence
        BY <1>13, <4>1 DEF RequestStatus, Typed, ServerTyped
      <4> QED
        BY <2>4, <3>2, <4>2 DEF Final, Dead, Fence
    <3> QED
      BY <3>1, <3>2
  <2>5. \A a \in answers' : Final(a)'
    BY <2>3, <2>4, AnswerStays
  <2>6. ASSUME NEW u \in Tabs, NEW c \in AllBoxes, drafts'[u][c].phase \in {"refused", "unsaved"}
        PROVE  Dead(drafts[u][c].key)'
    BY <2>1, <2>2, <2>6, RefusedIsDead DEF VerdictsKept
  <2>7. \A j \in Keys : /\ told'[j] = "unsaved" => Contribution(j)' /\ Dead(j)'
                        /\ told'[j] = "saved" => Saved(j)'
    BY <2>1, <2>2 DEF VerdictsKept, Reported
  <2> QED
    BY <2>5, <2>6, <2>7 DEF Reported, Final
<1>14. ASSUME NEW t \in Tabs,
             \/ Load(t) \/ LoadEnds(t) \/ LoadFails(t) \/ CloseDialog(t)
             \/ Confirm(t) \/ ConfirmAnswered(t) \/ ConfirmUnknown(t) \/ DialogRefreshed(t)
             \/ DialogRefreshFails(t)
      PROVE  Reported'
  BY <1>14, RefusedIsDead, ReportedKept DEF Load, LoadEnds, LoadFails, CloseDialog, Confirm,
     ConfirmAnswered, ConfirmUnknown, DialogRefreshed, DialogRefreshFails, tabs, past, net
<1>15. ASSUME NEW t \in Tabs, NEW c \in Comments,
             OpenDialog(t, c)
      PROVE  Reported'
  BY <1>15, RefusedIsDead, ReportedKept DEF OpenDialog, tabs, past, net
<1>16. ASSUME NEW k \in Keys,
             Begin(k)
      PROVE  Reported'
  BY <1>16, RefusedIsDead, ReportedKept DEF Begin, tabs, past, net
<1>17. CASE UNCHANGED vars
  BY <1>17 DEF Reported, Dead, Saved, Holds, Contribution, AccountFor, vars, server, net,
     tabs, past
<1> QED
  BY <1>1, <1>2, <1>3, <1>4, <1>5, <1>6, <1>7, <1>8, <1>9, <1>10, <1>11, <1>12, <1>13,
     <1>14, <1>15, <1>16, <1>17
  DEF Next, TabNext, ServerNext
-----------------------------------------------------------------------------
(* Rows that the API holds.                                                *)
Within(rows) == rows \in Rows /\ \A c \in Comments : rows[c] <= Latest(c)

(* A page holds no version that the API does not hold.                     *)
LEMMA PageWithin ==
    ASSUME ServerTyped, NEW root
    PROVE  Within(Page(root))
PROOF
<1>1. \A c \in Comments : Latest(c) \in Nat
  BY DEF ServerTyped, Latest
<1>2. \A c \in Comments : Page(root)[c] \in {0, Latest(c)}
  BY DEF Page
<1> QED
  BY <1>1, <1>2, PageTyped DEF Within

(* Merging two sets of rows within what the API holds stays within it.     *)
LEMMA MergeWithin ==
    ASSUME NEW rows, NEW incoming, Within(rows), Within(incoming)
    PROVE  Within(Merge(rows, incoming))
PROOF
<1>1. \A c \in Comments : Merge(rows, incoming)[c] \in {rows[c], incoming[c]}
  BY DEF Merge
<1> QED
  BY <1>1, MergeTyped DEF Within

(* The row of one answer is within what the API holds.                     *)
LEMMA OnlyWithin ==
    ASSUME ServerTyped, NEW c \in Comments, NEW v \in Nat, v <= Latest(c)
    PROVE  Within(Only(c, v))
PROOF
<1>1. \A d \in Comments : Latest(d) \in Nat
  BY DEF ServerTyped, Latest
<1>2. \A d \in Comments : Only(c, v)[d] = IF d = c THEN v ELSE 0
  BY DEF Only
<1> QED
  BY <1>1, <1>2, OnlyTyped DEF Within

(* Showing rows within what the API holds keeps the display within it.     *)
LEMMA ShownWithin ==
    ASSUME Typed, Bounded, NEW t \in Tabs
    PROVE  /\ Within(shown[t])
           /\ \A p \in Purposes : reads[t][p] # None => Within(reads[t][p].page)
           /\ \A p \in Purposes : reads[t][p] # None => Within(Refreshed(t, p))
           /\ \A a \in answers : a.ok => Within(Merge(shown[t], Only(a.comment, a.version)))
PROOF
<1>1. Within(shown[t])
  BY DEF Typed, ShownTyped, Bounded, Within
<1>2. \A p \in Purposes : reads[t][p] # None => Within(reads[t][p].page)
  BY DEF Typed, ShownTyped, Reads, Bounded, Within
<1>3. ASSUME NEW p \in Purposes, reads[t][p] # None PROVE Within(Refreshed(t, p))
  <2>1. \A c \in Comments : Dropped(shown[t], reads[t][p])[c] \in {0, shown[t][c]}
    BY DEF Dropped
  <2>2. Dropped(shown[t], reads[t][p]) \in Rows
    BY <1>1 DEF Within, Dropped, Rows
  <2>3. \A c \in Comments : 0 <= Latest(c)
    BY <1>1 DEF Typed, ServerTyped, Latest
  <2>4. Within(Dropped(shown[t], reads[t][p]))
    BY <1>1, <2>1, <2>2, <2>3 DEF Within
  <2> QED
    BY <1>2, <1>3, <2>4, MergeWithin DEF Refreshed
<1>4. ASSUME NEW a \in answers, a.ok PROVE Within(Merge(shown[t], Only(a.comment, a.version)))
  <2>1. a \in Answers
    BY DEF Typed, NetTyped
  <2>2. a.comment \in Comments /\ a.version \in Nat /\ a.version <= Latest(a.comment)
    BY <1>4, <2>1 DEF Bounded, Answers
  <2> QED
    BY <1>1, <2>2, OnlyWithin, MergeWithin DEF Typed
<1> QED
  BY <1>1, <1>2, <1>3, <1>4

(* A tab that displays and reads only what the API holds.                  *)
LEMMA BoundedKept ==
    ASSUME Typed, Bounded, NEW t \in Tabs, UNCHANGED hist, answers' \subseteq answers,
           shown' = shown \/ \E rows : Within(rows) /\ shown' = [shown EXCEPT ![t] = rows],
           \/ reads' = reads
           \/ \E p \in Purposes : \E r : /\ r = None \/ (r \in Reads /\ Within(r.page))
                                         /\ reads' = [reads EXCEPT ![t][p] = r]
    PROVE  Bounded'
PROOF
<1>1. \A u \in Tabs : \A c \in Comments : shown'[u][c] <= Latest(c)
  BY DEF Typed, ShownTyped, Bounded, Within
<1>2. \A u \in Tabs : \A p \in Purposes : reads'[u][p] # None =>
        \A c \in Comments : reads'[u][p].page[c] <= Latest(c)
  BY DEF Typed, ShownTyped, Bounded, Within
<1>3. \A a \in answers' : a.ok => a.version <= Latest(a.comment)
  BY DEF Bounded
<1>4. \A c : Latest(c)' = Latest(c)
  BY DEF Latest
<1> QED
  BY <1>1, <1>2, <1>3, <1>4 DEF Bounded

(* The API adds versions and takes none away.                              *)
LEMMA LatestGrows ==
    ASSUME Typed, [Next]_vars
    PROVE  \A c \in Comments : Latest(c) <= Latest(c)'
PROOF
<1>1. ASSUME NEW k \in Keys, Commit(k) PROVE \A c \in Comments : Latest(c) <= Latest(c)'
  <2>1. sent[k] # None
    BY <1>1 DEF Commit, Holds
  <2>2. sent[k].action # "comment" => sent[k].target \in Comments
    BY <2>1, SentParts DEF Typed
  <2>3. UNCHANGED hist \/ \E c \in Comments : \E v : AddVersion(c, v)
    <3>1. CASE Replay(k)
      BY <3>1 DEF Replay
    <3>2. CASE sent[k].action \in {"comment", "reply"} /\ Create(k)
      BY <3>2 DEF Create, Refuse
    <3>3. CASE sent[k].action = "edit" /\ Edit(k)
      BY <2>2, <3>3 DEF Edit, Refuse
    <3>4. CASE sent[k].action = "erase" /\ Erase(k)
      BY <2>2, <3>4 DEF Erase, Refuse
    <3> QED
      BY <1>1, <3>1, <3>2, <3>3, <3>4 DEF Commit
  <2>4. ASSUME NEW c \in Comments, NEW v, AddVersion(c, v), NEW d \in Comments
        PROVE  Latest(d) <= Latest(d)'
    <3>1. Len(hist[d] \o <<v>>) = Len(hist[d]) + 1 /\ Len(hist[d]) \in Nat
      BY ConcatProperties, LenProperties DEF Typed, ServerTyped
    <3>2. hist'[d] = IF d = c THEN hist[c] \o <<v>> ELSE hist[d]
      BY <2>4 DEF AddVersion, Typed, ServerTyped
    <3> QED
      BY <3>1, <3>2 DEF Latest
  <2>5. \A d \in Comments : Latest(d) \in Nat
    BY DEF Typed, ServerTyped, Latest
  <2> QED
    BY <2>3, <2>4, <2>5 DEF Latest
<1>2. ASSUME NEW t \in Tabs,
             \/ Load(t) \/ LoadEnds(t) \/ LoadFails(t) \/ CloseDialog(t)
             \/ Confirm(t) \/ ConfirmAnswered(t) \/ ConfirmUnknown(t) \/ DialogRefreshed(t)
             \/ DialogRefreshFails(t) \/ Leave(t)
      PROVE  \A c \in Comments : Latest(c) <= Latest(c)'
  BY <1>2 DEF Load, LoadEnds, LoadFails, CloseDialog, Confirm, ConfirmAnswered,
     ConfirmUnknown, DialogRefreshed, DialogRefreshFails, Leave, Latest, Typed, ServerTyped,
     server
<1>3. ASSUME NEW t \in Tabs, NEW b \in Boxes[t],
             \/ OpenBox(t, b) \/ Write(t, b) \/ CancelBox(t, b) \/ Submit(t, b)
             \/ SubmitAnswered(t, b) \/ SubmitUnknown(t, b) \/ Check(t, b) \/ CheckAnswered(t, b)
             \/ CheckUnknown(t, b) \/ TargetChecked(t, b)
      PROVE  \A c \in Comments : Latest(c) <= Latest(c)'
  BY <1>3 DEF OpenBox, Write, CancelBox, Submit, SubmitAnswered, SubmitUnknown, Check,
     CheckAnswered, CheckUnknown, TargetChecked, Latest, Typed, ServerTyped, server
<1>4. ASSUME NEW t \in Tabs, NEW e \in Comments,
             OpenDialog(t, e)
      PROVE  \A c \in Comments : Latest(c) <= Latest(c)'
  BY <1>4 DEF OpenDialog, Latest, Typed, ServerTyped, server
<1>5. ASSUME NEW k \in Keys,
             \/ Begin(k) \/ RequestStatus(k)
      PROVE  \A c \in Comments : Latest(c) <= Latest(c)'
  BY <1>5 DEF Begin, RequestStatus, Latest, Typed, ServerTyped, server
<1>6. CASE UNCHANGED vars
  BY <1>6 DEF Latest, Typed, ServerTyped, vars, server
<1> QED
  BY <1>1, <1>2, <1>3, <1>4, <1>5, <1>6
  DEF Next, TabNext, ServerNext

(* What tabs display, read and are answered stays within what the API      *)
(* holds.                                                                  *)
LEMMA BoundedStep ==
    ASSUME Typed, Known, Bounded, [Next]_vars
    PROVE  Bounded'
PROOF
<1>1. ASSUME NEW t \in Tabs, Load(t) PROVE Bounded'
  <2>0. UNCHANGED hist /\ answers' \subseteq answers
    BY <1>1 DEF Load, server, net
  <2>1. shown' = shown
    BY <1>1 DEF Load, tabs
  <2>10. PICK c \in Comments :
           reads' = [reads EXCEPT ![t]["list"] = Read(Root(c), shown[t], Page(Root(c)), 0)]
    BY <1>1 DEF Load, StartRead
  <2>11. Root(c) \in 0 .. MaxComments /\ shown[t] \in Rows /\ Within(Page(Root(c)))
            /\ 0 \in 0 .. MaxKeys
    BY RootTyped, PageWithin, PhaseNames DEF Typed, ShownTyped
  <2>12. /\ Read(Root(c), shown[t], Page(Root(c)), 0) \in Reads
         /\ Read(Root(c), shown[t], Page(Root(c)), 0).page = Page(Root(c))
    BY <2>11, ReadTyped DEF Within, Read
  <2>2. \/ reads' = reads
        \/ \E p \in Purposes : \E r : /\ r = None \/ (r \in Reads /\ Within(r.page))
                                      /\ reads' = [reads EXCEPT ![t][p] = r]
    BY <2>10, <2>11, <2>12, PhaseNames
  <2> QED
    BY <2>0, <2>1, <2>2, BoundedKept
<1>2. ASSUME NEW t \in Tabs, LoadEnds(t) PROVE Bounded'
  <2>0. UNCHANGED hist /\ answers' \subseteq answers
    BY <1>2 DEF LoadEnds, server, net
  <2>1. shown' = shown \/ \E rows : Within(rows) /\ shown' = [shown EXCEPT ![t] = rows]
    BY <1>2, ShownWithin, PhaseNames, MergeWithin DEF LoadEnds, Show, Arrived
  <2>2. \E p \in Purposes : \E r : r = None /\ reads' = [reads EXCEPT ![t][p] = r]
    BY <1>2, PhaseNames DEF LoadEnds, Closed
  <2> QED
    BY <2>0, <2>1, <2>2, BoundedKept
<1>3. ASSUME NEW t \in Tabs, LoadFails(t) PROVE Bounded'
  <2>0. UNCHANGED hist /\ answers' \subseteq answers
    BY <1>3 DEF LoadFails, server, net
  <2>1. shown' = shown
    BY <1>3 DEF LoadFails, tabs
  <2>2. \E p \in Purposes : \E r : r = None /\ reads' = [reads EXCEPT ![t][p] = r]
    BY <1>3, PhaseNames DEF LoadFails, Closed
  <2> QED
    BY <2>0, <2>1, <2>2, BoundedKept
<1>4. ASSUME NEW t \in Tabs, NEW b \in Boxes[t], SubmitAnswered(t, b) PROVE Bounded'
  <2>0. UNCHANGED hist /\ answers' \subseteq answers
    BY <1>4 DEF SubmitAnswered, server, net
  <2>1. shown' = shown \/ \E rows : Within(rows) /\ shown' = [shown EXCEPT ![t] = rows]
    BY <1>4, ShownWithin, PhaseNames DEF SubmitAnswered, Show, Arrived, Finish, AnswerFor
  <2>10. \/ reads' = reads
         \/ /\ b[1] # "comment"
            /\ reads' = [reads EXCEPT ![t]["draft"] = Read(Root(b[2]), shown[t], Page(Root(b[2])), 0)]
    BY <1>4 DEF SubmitAnswered, StartRead
  <2>11. b[1] # "comment" => Root(b[2]) \in 0 .. MaxComments
    BY BoxParts, RootTyped DEF Typed
  <2>12. shown[t] \in Rows /\ Within(Page(Root(b[2]))) /\ 0 \in 0 .. MaxKeys
    BY PageWithin, PhaseNames DEF Typed, ShownTyped
  <2>13. b[1] # "comment" =>
           /\ Read(Root(b[2]), shown[t], Page(Root(b[2])), 0) \in Reads
           /\ Read(Root(b[2]), shown[t], Page(Root(b[2])), 0).page = Page(Root(b[2]))
    BY <2>11, <2>12, ReadTyped DEF Within, Read
  <2>2. \/ reads' = reads
        \/ \E p \in Purposes : \E r : /\ r = None \/ (r \in Reads /\ Within(r.page))
                                      /\ reads' = [reads EXCEPT ![t][p] = r]
    BY <2>10, <2>12, <2>13, PhaseNames
  <2> QED
    BY <2>0, <2>1, <2>2, BoundedKept
<1>5. ASSUME NEW t \in Tabs, NEW b \in Boxes[t], CheckAnswered(t, b) PROVE Bounded'
  <2>0. UNCHANGED hist /\ answers' \subseteq answers
    BY <1>5 DEF CheckAnswered, server, net
  <2>1. shown' = shown \/ \E rows : Within(rows) /\ shown' = [shown EXCEPT ![t] = rows]
    BY <1>5, ShownWithin, PhaseNames DEF CheckAnswered, Show, Arrived, Finish, AnswerFor
  <2>10. \/ reads' = reads
         \/ /\ b[1] # "comment"
            /\ reads' = [reads EXCEPT ![t]["draft"] = Read(Root(b[2]), shown[t], Page(Root(b[2])), 0)]
    BY <1>5 DEF CheckAnswered, StartRead
  <2>11. b[1] # "comment" => Root(b[2]) \in 0 .. MaxComments
    BY BoxParts, RootTyped DEF Typed
  <2>12. shown[t] \in Rows /\ Within(Page(Root(b[2]))) /\ 0 \in 0 .. MaxKeys
    BY PageWithin, PhaseNames DEF Typed, ShownTyped
  <2>13. b[1] # "comment" =>
           /\ Read(Root(b[2]), shown[t], Page(Root(b[2])), 0) \in Reads
           /\ Read(Root(b[2]), shown[t], Page(Root(b[2])), 0).page = Page(Root(b[2]))
    BY <2>11, <2>12, ReadTyped DEF Within, Read
  <2>2. \/ reads' = reads
        \/ \E p \in Purposes : \E r : /\ r = None \/ (r \in Reads /\ Within(r.page))
                                      /\ reads' = [reads EXCEPT ![t][p] = r]
    BY <2>10, <2>12, <2>13, PhaseNames
  <2> QED
    BY <2>0, <2>1, <2>2, BoundedKept
<1>6. ASSUME NEW t \in Tabs, NEW b \in Boxes[t], TargetChecked(t, b) PROVE Bounded'
  <2>0. UNCHANGED hist /\ answers' \subseteq answers
    BY <1>6 DEF TargetChecked, server, net
  <2>1. shown' = shown \/ \E rows : Within(rows) /\ shown' = [shown EXCEPT ![t] = rows]
    BY <1>6, ShownWithin, PhaseNames DEF TargetChecked, Show, Arrived
  <2>2. \E p \in Purposes : \E r : r = None /\ reads' = [reads EXCEPT ![t][p] = r]
    BY <1>6, PhaseNames DEF TargetChecked, Closed
  <2> QED
    BY <2>0, <2>1, <2>2, BoundedKept
<1>7. ASSUME NEW t \in Tabs, ConfirmAnswered(t) PROVE Bounded'
  <2>0. UNCHANGED hist /\ answers' \subseteq answers
    BY <1>7 DEF ConfirmAnswered, server, net
  <2>1. shown' = shown \/ \E rows : Within(rows) /\ shown' = [shown EXCEPT ![t] = rows]
    BY <1>7, ShownWithin, PhaseNames DEF ConfirmAnswered, Show, Arrived
  <2>10. PICK rows, key : /\ rows \in Rows /\ key \in {0, dialog[t].key}
                          /\ reads' = [reads EXCEPT ![t]["dialog"] =
                                Read(Root(dialog[t].comment), rows, Page(Root(dialog[t].comment)), key)]
    <3>1. shown[t] \in Rows /\ \A a \in answers : a.ok =>
              Merge(shown[t], Only(a.comment, a.version)) \in Rows
      BY ShownWithin DEF Within
    <3> QED
      BY <1>7, <3>1 DEF ConfirmAnswered, StartRead
  <2>11. dialog[t].comment \in Comments /\ dialog[t].key \in 0 .. MaxKeys
    BY <1>7, DialogParts DEF ConfirmAnswered, Typed
  <2>12. Root(dialog[t].comment) \in 0 .. MaxComments /\ Within(Page(Root(dialog[t].comment)))
            /\ 0 \in 0 .. MaxKeys
    BY <2>11, RootTyped, PageWithin, PhaseNames DEF Typed
  <2>13. /\ Read(Root(dialog[t].comment), rows, Page(Root(dialog[t].comment)), key) \in Reads
         /\ Read(Root(dialog[t].comment), rows, Page(Root(dialog[t].comment)), key).page
              = Page(Root(dialog[t].comment))
    BY <2>10, <2>11, <2>12, ReadTyped DEF Within, Read
  <2>2. \/ reads' = reads
        \/ \E p \in Purposes : \E r : /\ r = None \/ (r \in Reads /\ Within(r.page))
                                      /\ reads' = [reads EXCEPT ![t][p] = r]
    BY <2>10, <2>12, <2>13, PhaseNames
  <2> QED
    BY <2>0, <2>1, <2>2, BoundedKept
<1>8. ASSUME NEW t \in Tabs, DialogRefreshed(t) PROVE Bounded'
  <2>0. UNCHANGED hist /\ answers' \subseteq answers
    BY <1>8 DEF DialogRefreshed, server, net
  <2>1. shown' = shown \/ \E rows : Within(rows) /\ shown' = [shown EXCEPT ![t] = rows]
    BY <1>8, ShownWithin, PhaseNames DEF DialogRefreshed, Show, Arrived
  <2>2. \E p \in Purposes : \E r : r = None /\ reads' = [reads EXCEPT ![t][p] = r]
    BY <1>8, PhaseNames DEF DialogRefreshed, Closed
  <2> QED
    BY <2>0, <2>1, <2>2, BoundedKept
<1>9. ASSUME NEW t \in Tabs, DialogRefreshFails(t) PROVE Bounded'
  <2>0. UNCHANGED hist /\ answers' \subseteq answers
    BY <1>9 DEF DialogRefreshFails, server, net
  <2>1. shown' = shown
    BY <1>9 DEF DialogRefreshFails, tabs
  <2>2. \E p \in Purposes : \E r : r = None /\ reads' = [reads EXCEPT ![t][p] = r]
    BY <1>9, PhaseNames DEF DialogRefreshFails, Closed
  <2> QED
    BY <2>0, <2>1, <2>2, BoundedKept
<1>10. ASSUME NEW t \in Tabs, Leave(t) PROVE Bounded'
  <2>1. PICK rows : /\ rows \in {shown[t], [c \in Comments |-> 0]}
                    /\ shown' = [shown EXCEPT ![t] = rows]
                    /\ reads' = [reads EXCEPT ![t] =
                         [p \in Purposes |-> IF p = "list" THEN Read(0, rows, Page(0), 0) ELSE None]]
    BY <1>10 DEF Leave
  <2>2. UNCHANGED hist /\ answers' \subseteq answers
    BY <1>10 DEF Leave, server
  <2>3. \A c \in Comments : Latest(c) \in Nat
    BY DEF Typed, ServerTyped, Latest
  <2>4. \A c \in Comments : rows[c] <= Latest(c)
    BY <2>1, <2>3, ShownWithin DEF Within
  <2>5. Read(0, rows, Page(0), 0).page = Page(0) /\ \A c \in Comments : Page(0)[c] <= Latest(c)
    BY PageWithin DEF Read, Within, Typed
  <2>6. \A u \in Tabs : \A c \in Comments : shown'[u][c] <= Latest(c)
    BY <2>1, <2>4 DEF Bounded, Typed, ShownTyped
  <2>7. \A u \in Tabs : \A p \in Purposes : reads'[u][p] # None =>
          reads'[u][p] = reads[u][p] \/ reads'[u][p] = Read(0, rows, Page(0), 0)
    BY <2>1 DEF Typed, ShownTyped
  <2>8. \A u \in Tabs : \A p \in Purposes : reads'[u][p] # None =>
          \A c \in Comments : reads'[u][p].page[c] <= Latest(c)
    BY <2>5, <2>7 DEF Bounded
  <2>9. \A c : Latest(c)' = Latest(c)
    BY <2>2 DEF Latest
  <2> QED
    BY <2>2, <2>6, <2>8, <2>9 DEF Bounded
<1>11. ASSUME NEW k \in Keys, Commit(k) PROVE Bounded'
  <2>1. \A c \in Comments : Latest(c) <= Latest(c)' /\ Latest(c) \in Nat
    BY LatestGrows DEF Typed, ServerTyped, Latest
  <2>2. UNCHANGED <<shown, reads>>
    BY <1>11 DEF Commit, tabs
  <2>3. \A a \in answers' : \/ a \in answers
                            \/ ~a.ok
                            \/ a.comment \in Comments /\ a.version = Latest(a.comment)'
    <3>1. sent[k] # None
      BY <1>11 DEF Commit, Holds
    <3>2. sent[k].action # "comment" => sent[k].target \in Comments
      BY <3>1, SentParts DEF Typed
    <3>3. ASSUME NEW c \in Comments, Answered(k, "write", Result(c))
          PROVE  \A a \in answers' : \/ a \in answers
                                     \/ a.comment \in Comments /\ a.version = Latest(a.comment)'
      BY <3>3 DEF Answered, Result, Latest
    <3>4. ASSUME Answered(k, "write", Refusal)
          PROVE  \A a \in answers' : a \in answers \/ ~a.ok
      BY <3>4 DEF Answered, Refusal
    <3>5. CASE Replay(k)
      <4>1. CASE Saved(k)
        BY <3>3, <3>5, <4>1 DEF Replay, Saved
      <4>2. CASE ~Saved(k)
        BY <3>4, <3>5, <4>2 DEF Replay
      <4> QED
        BY <4>1, <4>2
    <3>6. CASE Refuse(k)
      BY <3>4, <3>6 DEF Refuse
    <3>7. CASE \E c \in Comments : Record(k, c)
      BY <3>3, <3>7 DEF Record
    <3>8. Replay(k) \/ Refuse(k) \/ \E c \in Comments : Record(k, c)
      BY <1>11, <3>2 DEF Commit, Create, Edit, Erase
    <3> QED
      BY <3>5, <3>6, <3>7, <3>8
  <2>4. \A c \in Comments : Latest(c)' \in Nat
    BY TypedStep DEF Known, Typed, ServerTyped, Latest
  <2>5. \A a \in answers' : a.ok => a.version <= Latest(a.comment)'
    <3>1. \A a \in answers : a.ok => /\ a.comment \in Comments /\ a.version \in Nat
                                     /\ a.version <= Latest(a.comment)
      BY DEF Typed, NetTyped, Answers, Bounded
    <3> QED
      BY <2>1, <2>3, <2>4, <3>1
  <2>6. \A u \in Tabs : \A c \in Comments : shown[u][c] \in Nat
    BY DEF Typed, ShownTyped, Rows
  <2>7. \A u \in Tabs : \A c \in Comments : (shown[u][c] <= Latest(c))'
    BY <2>1, <2>2, <2>4, <2>6 DEF Bounded
  <2>8. \A u \in Tabs : \A p \in Purposes : reads[u][p] # None =>
          \A c \in Comments : reads[u][p].page[c] \in Nat
    BY DEF Typed, ShownTyped, Reads, Rows
  <2>9. \A u \in Tabs : \A p \in Purposes : reads[u][p] # None =>
          \A c \in Comments : reads[u][p].page[c] <= Latest(c)'
    BY <2>1, <2>4, <2>8 DEF Bounded
  <2> QED
    BY <2>2, <2>5, <2>7, <2>9 DEF Bounded
<1>12. ASSUME NEW k \in Keys, RequestStatus(k) PROVE Bounded'
  <2>1. \A c \in Comments : Latest(c) <= Latest(c)' /\ Latest(c) \in Nat
    BY LatestGrows DEF Typed, ServerTyped, Latest
  <2>2. UNCHANGED <<shown, reads>>
    BY <1>12 DEF RequestStatus, tabs
  <2>3. \A a \in answers' : \/ a \in answers
                            \/ ~a.ok
                            \/ a.comment \in Comments /\ a.version = Latest(a.comment)'
    <3>1. CASE Saved(k)
      BY <1>12, <3>1 DEF RequestStatus, Answered, Result, Saved, Latest
    <3>2. CASE ~Saved(k)
      BY <1>12, <3>2 DEF RequestStatus, Answered, Refusal
    <3> QED
      BY <3>1, <3>2
  <2>4. \A c \in Comments : Latest(c)' \in Nat
    BY TypedStep DEF Known, Typed, ServerTyped, Latest
  <2>5. \A a \in answers' : a.ok => a.version <= Latest(a.comment)'
    <3>1. \A a \in answers : a.ok => /\ a.comment \in Comments /\ a.version \in Nat
                                     /\ a.version <= Latest(a.comment)
      BY DEF Typed, NetTyped, Answers, Bounded
    <3> QED
      BY <2>1, <2>3, <2>4, <3>1
  <2>6. \A u \in Tabs : \A c \in Comments : shown[u][c] \in Nat
    BY DEF Typed, ShownTyped, Rows
  <2>7. \A u \in Tabs : \A c \in Comments : (shown[u][c] <= Latest(c))'
    BY <2>1, <2>2, <2>4, <2>6 DEF Bounded
  <2>8. \A u \in Tabs : \A p \in Purposes : reads[u][p] # None =>
          \A c \in Comments : reads[u][p].page[c] \in Nat
    BY DEF Typed, ShownTyped, Reads, Rows
  <2>9. \A u \in Tabs : \A p \in Purposes : reads[u][p] # None =>
          \A c \in Comments : reads[u][p].page[c] <= Latest(c)'
    BY <2>1, <2>4, <2>8 DEF Bounded
  <2> QED
    BY <2>2, <2>5, <2>7, <2>9 DEF Bounded
<1>13. ASSUME NEW t \in Tabs, NEW b \in Boxes[t],
             \/ OpenBox(t, b) \/ Write(t, b) \/ CancelBox(t, b) \/ Submit(t, b)
             \/ SubmitUnknown(t, b) \/ Check(t, b) \/ CheckUnknown(t, b)
      PROVE  Bounded'
  BY <1>13 DEF OpenBox, Write, CancelBox, Submit, SubmitUnknown, Check, CheckUnknown,
     Bounded, Latest, server, net, tabs
<1>14. ASSUME NEW t \in Tabs, NEW c \in Comments,
             OpenDialog(t, c)
      PROVE  Bounded'
  BY <1>14 DEF OpenDialog, Bounded, Latest, server, net, tabs
<1>15. ASSUME NEW t \in Tabs,
             \/ CloseDialog(t) \/ Confirm(t) \/ ConfirmUnknown(t)
      PROVE  Bounded'
  BY <1>15 DEF CloseDialog, Confirm, ConfirmUnknown, Bounded, Latest, server, net, tabs
<1>16. ASSUME NEW k \in Keys,
             Begin(k)
      PROVE  Bounded'
  BY <1>16 DEF Begin, Bounded, Latest, server, net, tabs
<1>17. CASE UNCHANGED vars
  BY <1>17 DEF Bounded, Latest, vars, server, net, tabs, past
<1> QED
  BY <1>1, <1>2, <1>3, <1>4, <1>5, <1>6, <1>7, <1>8, <1>9, <1>10, <1>11, <1>12, <1>13,
     <1>14, <1>15, <1>16, <1>17
  DEF Next, TabNext, ServerNext
-----------------------------------------------------------------------------
Inv == Typed /\ Known /\ Reported /\ Bounded

(* The first page fulfils the invariant.                                   *)
LEMMA InvInit == Init => Inv
PROOF
<1> SUFFICES ASSUME Init PROVE Inv
  OBVIOUS
<1>1. 1 \in Comments /\ 0 \in 0 .. MaxComments /\ 1 \in 0 .. MaxTexts /\ 0 \in 0 .. MaxKeys
  BY BoundsAssumption DEF Comments
<1>2. Only(1, 1) \in Rows /\ \A c \in Comments : Only(1, 1)[c] = IF c = 1 THEN 1 ELSE 0
  BY OnlyTyped DEF Only
<1>3. ServerTyped
  <2>1. [live |-> TRUE, text |-> 1] \in Version
    BY <1>1 DEF Version
  <2>2. hist \in [Comments -> Seq(Version)]
    BY <2>1 DEF Init
  <2> QED
    BY <1>1, <2>2, BoundsAssumption DEF Init, ServerTyped, Fence
<1>4. NetTyped
  BY DEF Init, NetTyped
<1>5. ShownTyped
  BY <1>2 DEF Init, ShownTyped
<1>6. BoxTyped
  BY DraftForms DEF Init, BoxTyped, Dialogs
<1>7. PastTyped
  BY <1>1, BoundsAssumption DEF Init, PastTyped
<1>8. \A t \in Tabs : \A b \in AllBoxes :
        /\ drafts[t][b] \in {EmptyDraft, NoDraft}
        /\ drafts[t][b].phase = "idle" /\ drafts[t][b].key = 0
  BY DEF Init, EmptyDraft, NoDraft
<1>9. \A t \in Tabs : dialog[t].key = 0
  BY DEF Init, NoDialog
<1>10. Known
  BY <1>8, <1>9 DEF Init, Known, Asked, KeysDrawn, DialogKeys, LocksOwned
<1>11. Reported
  BY <1>8 DEF Init, Reported
<1>12. \A c \in Comments : Latest(c) \in Nat /\ (c = 1 => Latest(c) = 1)
  BY <1>3 DEF ServerTyped, Latest, Init
<1>13. Bounded
  <2>1. \A t \in Tabs : \A c \in Comments : shown[t][c] = IF c = 1 THEN 1 ELSE 0
    BY <1>2 DEF Init
  <2>2. \A t \in Tabs : \A c \in Comments : shown[t][c] <= Latest(c)
    BY <1>12, <2>1
  <2>3. \A t \in Tabs : \A p \in Purposes : reads[t][p] = None
    BY DEF Init
  <2>4. answers = {}
    BY DEF Init
  <2> QED
    BY <2>2, <2>3, <2>4 DEF Bounded
<1> QED
  BY <1>3, <1>4, <1>5, <1>6, <1>7, <1>10, <1>11, <1>13 DEF Inv, Typed

(* Every step keeps the invariant.                                         *)
LEMMA InvStep ==
    ASSUME Inv, [Next]_vars
    PROVE  Inv'
BY TypedStep, KnownStep, ReportedStep, BoundedStep DEF Inv, Known

(* The invariant holds in every state of every behaviour.                  *)
LEMMA InvHolds == Spec => []Inv
PROOF
<1> QED
  BY InvInit, InvStep, PTL DEF Spec

(* Every variable of the discussion has its type, and nothing displayed is *)
(* newer than what the API holds.                                          *)
THEOREM TypeCorrect == Spec => []TypeOK
PROOF
<1>1. Inv => TypeOK
  <2> SUFFICES ASSUME Inv PROVE TypeOK
    OBVIOUS
  <2>1. \A c \in Comments : Latest(c) \in Nat
    BY DEF Inv, Typed, ServerTyped, Latest
  <2>2. \A t \in Tabs : \A c \in Comments : shown[t][c] \in 0 .. Latest(c)
    BY <2>1 DEF Inv, Typed, ShownTyped, Rows, Bounded
  <2>3. \A t \in Tabs : \A b \in AllBoxes :
          /\ drafts[t][b].text \in 0 .. MaxTexts
          /\ drafts[t][b].phase \in Phases
          /\ drafts[t][b].key \in 0 .. MaxKeys
    BY DEF Inv, Typed, BoxTyped, Drafts
  <2>4. \A a \in answers : /\ a.key \in Keys /\ a.to \in {"write", "check"}
                           /\ a.ok \in BOOLEAN /\ a.comment \in 0 .. Fence
                           /\ a.version \in Nat
    BY BoundsAssumption DEF Inv, Typed, NetTyped, Answers, Fence
  <2> QED
    BY <2>2, <2>3, <2>4 DEF TypeOK, Inv, Typed, ServerTyped, NetTyped, Version
<1> QED
  BY <1>1, InvHolds, PTL

(* A submission that its reader was told had not been posted is never      *)
(* saved afterwards, however late it arrives, and one reported as posted   *)
(* is saved.                                                               *)
THEOREM VerdictsAreTrue == Spec => []VerdictIsTrue
PROOF
<1>1. Inv => VerdictIsTrue
  BY BoundsAssumption DEF Inv, Reported, Dead, Saved, VerdictIsTrue, Comments, Fence
<1> QED
  BY <1>1, InvHolds, PTL
-----------------------------------------------------------------------------
(* Merging an answer never takes a row back, and a refresh at most removes *)
(* it.                                                                     *)
LEMMA MergeNewer ==
    ASSUME NEW rows \in Rows, NEW incoming \in Rows, NEW c \in Comments
    PROVE  Merge(rows, incoming)[c] >= rows[c]
BY DEF Merge, Rows

(* A row that a refresh keeps is no older than the row displayed.          *)
LEMMA RefreshedNewer ==
    ASSUME Typed, NEW t \in Tabs, NEW p \in Purposes, reads[t][p] # None, NEW c \in Comments,
           Refreshed(t, p)[c] # 0
    PROVE  Refreshed(t, p)[c] >= shown[t][c]
PROOF
<1>1. reads[t][p] \in Reads /\ shown[t] \in Rows
  BY DEF Typed, ShownTyped
<1>2. Dropped(shown[t], reads[t][p]) \in Rows /\ reads[t][p].page \in Rows
  BY <1>1 DEF Dropped, Rows, Reads
<1>3. /\ Dropped(shown[t], reads[t][p])[c] = shown[t][c] \/ reads[t][p].page[c] = 0
      /\ Dropped(shown[t], reads[t][p])[c] \in {0, shown[t][c]}
  BY DEF Dropped
<1>4. Refreshed(t, p)[c] = IF Dropped(shown[t], reads[t][p])[c] <= reads[t][p].page[c]
                           THEN reads[t][p].page[c] ELSE Dropped(shown[t], reads[t][p])[c]
  BY DEF Refreshed, Merge
<1>5. /\ shown[t][c] \in Nat /\ reads[t][p].page[c] \in Nat
      /\ Dropped(shown[t], reads[t][p])[c] \in Nat
  BY <1>1, <1>2 DEF Rows
<1> QED
  BY <1>3, <1>4, <1>5

(* Displayed versions are numbers.                                         *)
LEMMA ShownNumbers ==
    ASSUME Typed
    PROVE  \A u \in Tabs : \A c \in Comments : shown[u][c] \in Nat /\ shown[u][c] >= shown[u][c]
PROOF
<1>1. \A u \in Tabs : \A c \in Comments : shown[u][c] \in Nat
  BY DEF Typed, ShownTyped, Rows
<1> QED
  BY <1>1

(* One step of the display.                                                *)
LEMMA NewerStep ==
    ASSUME Typed, NEW u \in Tabs, NEW c \in Comments, [Next]_vars
    PROVE  shown'[u][c] # 0 /\ ~Leave(u) => shown'[u][c] >= shown[u][c]
PROOF
<1>1. ASSUME NEW t \in Tabs, LoadEnds(t)
      PROVE  shown'[u][c] # 0 /\ ~Leave(u) => shown'[u][c] >= shown[u][c]
  <2>1. reads[t]["list"] # None /\ "list" \in Purposes
    BY <1>1, PhaseNames DEF LoadEnds, Arrived
  <2>2. \A d \in Comments : Merge(shown[t], reads[t]["list"].page)[d] # 0 =>
            Merge(shown[t], reads[t]["list"].page)[d] >= shown[t][d]
    <3>1. shown[t] \in Rows /\ reads[t]["list"].page \in Rows
      BY <2>1 DEF Typed, ShownTyped, Reads
    <3> QED
      BY <3>1, MergeNewer
  <2>3. shown' = [shown EXCEPT ![t] = Merge(shown[t], reads[t]["list"].page)]
    BY <1>1 DEF LoadEnds, Show
  <2> QED
    BY <2>2, <2>3, ShownNumbers DEF Typed, ShownTyped
<1>2. ASSUME NEW t \in Tabs, NEW b \in Boxes[t], SubmitAnswered(t, b)
      PROVE  shown'[u][c] # 0 /\ ~Leave(u) => shown'[u][c] >= shown[u][c]
  <2>1. \/ UNCHANGED shown
        \/ \E a \in answers : shown' = [shown EXCEPT ![t] = Merge(shown[t], Only(a.comment, a.version))]
    BY <1>2 DEF SubmitAnswered, Show, Finish, AnswerFor
  <2>2. \A a \in answers : \A d \in Comments :
          Merge(shown[t], Only(a.comment, a.version))[d] >= shown[t][d]
    <3>1. \A a \in answers : shown[t] \in Rows /\ Only(a.comment, a.version) \in Rows
      BY OnlyTyped DEF Typed, ShownTyped, NetTyped, Answers
    <3> QED
      BY <3>1, MergeNewer
  <2> QED
    BY <2>1, <2>2, ShownNumbers DEF Typed, ShownTyped
<1>3. ASSUME NEW t \in Tabs, NEW b \in Boxes[t], CheckAnswered(t, b)
      PROVE  shown'[u][c] # 0 /\ ~Leave(u) => shown'[u][c] >= shown[u][c]
  <2>1. \/ UNCHANGED shown
        \/ \E a \in answers : shown' = [shown EXCEPT ![t] = Merge(shown[t], Only(a.comment, a.version))]
    BY <1>3 DEF CheckAnswered, Show, Finish, AnswerFor
  <2>2. \A a \in answers : \A d \in Comments :
          Merge(shown[t], Only(a.comment, a.version))[d] >= shown[t][d]
    <3>1. \A a \in answers : shown[t] \in Rows /\ Only(a.comment, a.version) \in Rows
      BY OnlyTyped DEF Typed, ShownTyped, NetTyped, Answers
    <3> QED
      BY <3>1, MergeNewer
  <2> QED
    BY <2>1, <2>2, ShownNumbers DEF Typed, ShownTyped
<1>4. ASSUME NEW t \in Tabs, NEW b \in Boxes[t], TargetChecked(t, b)
      PROVE  shown'[u][c] # 0 /\ ~Leave(u) => shown'[u][c] >= shown[u][c]
  <2>1. reads[t]["draft"] # None /\ "draft" \in Purposes
    BY <1>4, PhaseNames DEF TargetChecked, Arrived
  <2>2. \A d \in Comments : Refreshed(t, "draft")[d] # 0 => Refreshed(t, "draft")[d] >= shown[t][d]
    BY <2>1, RefreshedNewer
  <2>3. UNCHANGED shown \/ shown' = [shown EXCEPT ![t] = Refreshed(t, "draft")]
    BY <1>4 DEF TargetChecked, Show
  <2> QED
    BY <2>2, <2>3, ShownNumbers DEF Typed, ShownTyped
<1>5. ASSUME NEW t \in Tabs, ConfirmAnswered(t)
      PROVE  shown'[u][c] # 0 /\ ~Leave(u) => shown'[u][c] >= shown[u][c]
  <2>1. \/ UNCHANGED shown
        \/ \E a \in answers : shown' = [shown EXCEPT ![t] = Merge(shown[t], Only(a.comment, a.version))]
    BY <1>5 DEF ConfirmAnswered, Show
  <2>2. \A a \in answers : \A d \in Comments :
          Merge(shown[t], Only(a.comment, a.version))[d] >= shown[t][d]
    <3>1. \A a \in answers : shown[t] \in Rows /\ Only(a.comment, a.version) \in Rows
      BY OnlyTyped DEF Typed, ShownTyped, NetTyped, Answers
    <3> QED
      BY <3>1, MergeNewer
  <2> QED
    BY <2>1, <2>2, ShownNumbers DEF Typed, ShownTyped
<1>6. ASSUME NEW t \in Tabs, DialogRefreshed(t)
      PROVE  shown'[u][c] # 0 /\ ~Leave(u) => shown'[u][c] >= shown[u][c]
  <2>1. reads[t]["dialog"] # None /\ "dialog" \in Purposes
    BY <1>6, PhaseNames DEF DialogRefreshed, Arrived
  <2>2. \A d \in Comments : Refreshed(t, "dialog")[d] # 0 =>
            Refreshed(t, "dialog")[d] >= shown[t][d]
    BY <2>1, RefreshedNewer
  <2>3. shown' = [shown EXCEPT ![t] = Refreshed(t, "dialog")]
    BY <1>6 DEF DialogRefreshed, Show
  <2> QED
    BY <2>2, <2>3, ShownNumbers DEF Typed, ShownTyped
<1>7. ASSUME NEW t \in Tabs, Leave(t)
      PROVE  shown'[u][c] # 0 /\ ~Leave(u) => shown'[u][c] >= shown[u][c]
  <2>1. u # t => shown'[u] = shown[u]
    BY <1>7 DEF Leave, Typed, ShownTyped
  <2> QED
    BY <1>7, <2>1, ShownNumbers
<1>8. ASSUME NEW t \in Tabs,
             \/ Load(t) \/ LoadFails(t) \/ CloseDialog(t) \/ Confirm(t)
             \/ ConfirmUnknown(t) \/ DialogRefreshFails(t)
      PROVE  shown'[u][c] # 0 /\ ~Leave(u) => shown'[u][c] >= shown[u][c]
  BY <1>8, ShownNumbers DEF Load, LoadFails, CloseDialog, Confirm, ConfirmUnknown,
     DialogRefreshFails, tabs
<1>9. ASSUME NEW t \in Tabs, NEW b \in Boxes[t],
             \/ OpenBox(t, b) \/ Write(t, b) \/ CancelBox(t, b) \/ Submit(t, b)
             \/ SubmitUnknown(t, b) \/ Check(t, b) \/ CheckUnknown(t, b)
      PROVE  shown'[u][c] # 0 /\ ~Leave(u) => shown'[u][c] >= shown[u][c]
  BY <1>9, ShownNumbers DEF OpenBox, Write, CancelBox, Submit, SubmitUnknown, Check,
     CheckUnknown, tabs
<1>10. ASSUME NEW t \in Tabs, NEW d \in Comments,
             OpenDialog(t, d)
      PROVE  shown'[u][c] # 0 /\ ~Leave(u) => shown'[u][c] >= shown[u][c]
  BY <1>10, ShownNumbers DEF OpenDialog, tabs
<1>11. ASSUME NEW k \in Keys,
             \/ Begin(k) \/ Commit(k) \/ RequestStatus(k)
      PROVE  shown'[u][c] # 0 /\ ~Leave(u) => shown'[u][c] >= shown[u][c]
  BY <1>11, ShownNumbers DEF Begin, Commit, RequestStatus, tabs
<1>12. CASE UNCHANGED vars
  BY <1>12, ShownNumbers DEF vars, tabs
<1> QED
  BY <1>1, <1>2, <1>3, <1>4, <1>5, <1>6, <1>7, <1>8, <1>9, <1>10, <1>11, <1>12
  DEF Next, TabNext, ServerNext

(* A late answer never takes a tab back to an older version of a           *)
(* contribution that it displays.                                          *)
THEOREM DisplayNeverOlder == Spec => NeverOlder
PROOF
<1>1. ASSUME Inv, [Next]_vars
      PROVE  \A t \in Tabs : \A c \in Comments :
               shown[t][c] # 0 /\ shown'[t][c] # 0 /\ ~Leave(t) => shown'[t][c] >= shown[t][c]
  BY <1>1, NewerStep DEF Inv
<1>2. Inv /\ [Next]_vars =>
        [\A t \in Tabs : \A c \in Comments :
           shown[t][c] # 0 /\ shown'[t][c] # 0 /\ ~Leave(t) => shown'[t][c] >= shown[t][c]]_vars
  BY <1>1
<1> QED
  BY <1>2, InvHolds, PTL DEF Spec, NeverOlder
-----------------------------------------------------------------------------
(* Every text a reader posts is posted once.  A text sits in one composer; *)
(* of the requests that carried it, all but the one its composer waits for *)
(* are dead; and whatever was posted came from a request that was saved.   *)
Creating == {"comment", "reply"}
Creation(k) == sent[k] # None /\ sent[k].action \in Creating

OneComposer ==
    /\ \A t \in Tabs : \A b \in AllBoxes : b[1] \in Creating =>
         drafts[t][b].text = 0 \/ drafts[t][b].text \in 2 .. nextText - 1
    /\ \A t, u \in Tabs : \A b, c \in AllBoxes :
         /\ b[1] \in Creating /\ c[1] \in Creating
         /\ drafts[t][b].text # 0 /\ drafts[t][b].text = drafts[u][c].text
         => t = u /\ b = c

OneRequest ==
    /\ \A k \in Keys : Creation(k) => sent[k].text \in 2 .. nextText - 1
    /\ \A k \in Keys : \A t \in Tabs : \A b \in AllBoxes :
         Creation(k) /\ b[1] \in Creating /\ drafts[t][b].text = sent[k].text =>
            drafts[t][b].key = k \/ Dead(k)
    /\ \A j, k \in Keys : Creation(j) /\ Creation(k) /\ sent[j].text = sent[k].text =>
         j = k \/ Dead(j) \/ Dead(k)

Posted(c) == /\ hist[c] # <<>>
             /\ \E k \in Keys : Creation(k) /\ mutations[k] = c /\ sent[k].text = hist[c][1].text

Origins ==
    /\ hist[1] # <<>> /\ hist[1][1].text = 1
    /\ \E n \in 1 .. MaxComments : \A c \in Comments : (hist[c] = <<>>) <=> (c > n)
    /\ \A c \in Comments : hist[c] # <<>> => c = 1 \/ Posted(c)

Once == OneComposer /\ OneRequest /\ Origins

(* A composer that changes keeps its text to itself.                       *)
LEMMA ComposerKept ==
    ASSUME Typed, OneComposer, NEW t \in Tabs, NEW b \in AllBoxes, NEW d, SetDraft(t, b, d),
           nextText' = nextText, b[1] \in Creating => d.text \in {0, drafts[t][b].text}
    PROVE  OneComposer'
PROOF
<1>1. /\ \A u \in Tabs : \A c \in AllBoxes : (u # t \/ c # b) => drafts'[u][c] = drafts[u][c]
      /\ drafts'[t][b] = d
  BY DEF SetDraft, Typed, BoxTyped
<1>2. \A u \in Tabs : \A c \in AllBoxes : c[1] \in Creating =>
        drafts'[u][c].text = 0 \/ drafts'[u][c].text = drafts[u][c].text
  BY <1>1
<1> HIDE <1>1
<1> QED
  BY <1>2 DEF OneComposer

(* Where no composer changes, every text stays in its composer.            *)
LEMMA ComposersStill ==
    ASSUME OneComposer, UNCHANGED <<drafts, nextText>>
    PROVE  OneComposer'
BY DEF OneComposer

(* Requests that were sent keep their texts apart.                         *)
LEMMA RequestKept ==
    ASSUME Typed, OneRequest, SentKept, VerdictsKept,
           nextText' = nextText \/ nextText' = nextText + 1,
           \A k \in Keys : Creation(k)' => sent'[k] = sent[k],
           \A t \in Tabs : \A b \in AllBoxes : \A k \in Keys :
             Creation(k) /\ b[1] \in Creating /\ drafts'[t][b].text = sent[k].text =>
                drafts'[t][b].key = k \/ Dead(k)
    PROVE  OneRequest'
PROOF
<1>1. nextText \in Nat
  BY BoundsAssumption DEF Typed, PastTyped
<1>2. \A k \in Keys : Creation(k)' => Creation(k) /\ sent'[k] = sent[k]
  BY DEF Creation
<1>3. \A k \in Keys : Creation(k) /\ Dead(k) => Dead(k)'
  BY DEF Creation, Creating, Contribution, VerdictsKept
<1>4. \A k \in Keys : Creation(k)' => sent'[k].text \in 2 .. nextText' - 1
  BY <1>1, <1>2 DEF OneRequest
<1>5. \A k \in Keys : \A t \in Tabs : \A b \in AllBoxes :
        (Creation(k) /\ b[1] \in Creating /\ drafts[t][b].text = sent[k].text =>
            drafts[t][b].key = k \/ Dead(k))'
  BY <1>2, <1>3
<1>6. \A j, k \in Keys : (Creation(j) /\ Creation(k) /\ sent[j].text = sent[k].text =>
                            j = k \/ Dead(j) \/ Dead(k))'
  BY <1>2, <1>3 DEF OneRequest
<1> QED
  BY <1>4, <1>5, <1>6 DEF OneRequest

(* Where neither requests nor composers change, what is known of them      *)
(* stays.                                                                  *)
LEMMA RequestsStill ==
    ASSUME Typed, OneRequest, SentKept, VerdictsKept, UNCHANGED <<sent, drafts, nextText>>
    PROVE  OneRequest'
BY RequestKept DEF OneRequest

(* One composer may change as long as it waits for the request that        *)
(* carried its text, or that request is dead.                              *)
LEMMA RequestsBut ==
    ASSUME Typed, OneRequest, SentKept, VerdictsKept, UNCHANGED sent,
           nextText' = nextText \/ nextText' = nextText + 1,
           NEW t \in Tabs, NEW b \in AllBoxes, NEW d, SetDraft(t, b, d),
           \A k \in Keys : Creation(k) /\ b[1] \in Creating /\ d.text = sent[k].text =>
                             d.key = k \/ Dead(k)
    PROVE  OneRequest'
PROOF
<1>1. /\ \A u \in Tabs : \A c \in AllBoxes : (u # t \/ c # b) => drafts'[u][c] = drafts[u][c]
      /\ drafts'[t][b] = d
  BY DEF SetDraft, Typed, BoxTyped
<1>2. ASSUME NEW u \in Tabs, NEW c \in AllBoxes, NEW k \in Keys, Creation(k), c[1] \in Creating,
             drafts'[u][c].text = sent[k].text
      PROVE  drafts'[u][c].key = k \/ Dead(k)
  <2>1. CASE u = t /\ c = b
    BY <1>1, <1>2, <2>1
  <2>2. CASE u # t \/ c # b
    BY <1>1, <1>2, <2>2 DEF OneRequest
  <2> QED
    BY <2>1, <2>2
<1> QED
  BY <1>2, RequestKept

(* Each text stays in one composer.                                        *)
LEMMA OneComposerStep ==
    ASSUME Typed, OneComposer, [Next]_vars
    PROVE  OneComposer'
PROOF
<1>1. ASSUME NEW t \in Tabs, NEW b \in Boxes[t], OpenBox(t, b) PROVE OneComposer'
  <2>0. b \in AllBoxes
    BY BoxParts
  <2>1. drafts[t][b] \in Drafts
    BY <2>0 DEF Typed, BoxTyped
  <2>2. SetDraft(t, b, Opened(t, b)) /\ nextText' = nextText
    BY <1>1 DEF OpenBox, Opened
  <2>3. b[1] \in Creating => Opened(t, b).text \in {0, drafts[t][b].text}
    BY <1>1, <2>1 DEF OpenBox, Drafts, Creating, EmptyDraft, NoDraft, Opened
  <2> QED
    BY <2>0, <2>2, <2>3, ComposerKept
<1>2. ASSUME NEW t \in Tabs, NEW b \in Boxes[t], Write(t, b) PROVE OneComposer'
  <2>0. b \in AllBoxes
    BY BoxParts
  <2>1. drafts[t][b] \in Drafts
    BY <2>0 DEF Typed, BoxTyped
  <2>2. /\ SetDraft(t, b, [drafts[t][b] EXCEPT !.text = nextText])
        /\ nextText' = nextText + 1 /\ nextText \in Nat /\ nextText >= 2
    BY <1>2, BoundsAssumption DEF Write, Typed, PastTyped
  <2>3. [drafts[t][b] EXCEPT !.text = nextText].text = nextText
    BY <2>1 DEF Drafts
  <2>4. /\ \A u \in Tabs : \A c \in AllBoxes : (u # t \/ c # b) => drafts'[u][c] = drafts[u][c]
        /\ drafts'[t][b].text = nextText
    BY <2>0, <2>2, <2>3 DEF SetDraft, Typed, BoxTyped
  <2>5. \A u \in Tabs : \A c \in AllBoxes : c[1] \in Creating => drafts[u][c].text # nextText
    BY <2>2 DEF OneComposer
  <2>6. \A u \in Tabs : \A c \in AllBoxes : c[1] \in Creating =>
          drafts'[u][c].text = 0 \/ drafts'[u][c].text \in 2 .. nextText' - 1
    BY <2>2, <2>4 DEF OneComposer
  <2>7. \A u, v \in Tabs : \A c, e \in AllBoxes :
          /\ c[1] \in Creating /\ e[1] \in Creating
          /\ drafts'[u][c].text # 0 /\ drafts'[u][c].text = drafts'[v][e].text
          => u = v /\ c = e
    BY <2>4, <2>5 DEF OneComposer
  <2> QED
    BY <2>6, <2>7 DEF OneComposer
<1>3. ASSUME NEW t \in Tabs, NEW b \in Boxes[t], CancelBox(t, b) PROVE OneComposer'
  <2>0. b \in AllBoxes
    BY BoxParts
  <2>1. drafts[t][b] \in Drafts
    BY <2>0 DEF Typed, BoxTyped
  <2>2. SetDraft(t, b, NoDraft) /\ nextText' = nextText
    BY <1>3 DEF CancelBox
  <2>3. b[1] \in Creating => (NoDraft).text \in {0, drafts[t][b].text}
    BY <1>3, <2>1 DEF CancelBox, Drafts, Creating, NoDraft
  <2> QED
    BY <2>0, <2>2, <2>3, ComposerKept
<1>4. ASSUME NEW t \in Tabs, NEW b \in Boxes[t], Submit(t, b) PROVE OneComposer'
  <2>0. b \in AllBoxes
    BY BoxParts
  <2>1. drafts[t][b] \in Drafts
    BY <2>0 DEF Typed, BoxTyped
  <2>2. SetDraft(t, b, [drafts[t][b] EXCEPT !.phase = "sending", !.key = nextKey])
            /\ nextText' = nextText
    BY <1>4 DEF Submit
  <2>3. b[1] \in Creating => ([drafts[t][b] EXCEPT !.phase = "sending", !.key = nextKey]).text \in {0, drafts[t][b].text}
    BY <1>4, <2>1 DEF Submit, Drafts, Creating
  <2> QED
    BY <2>0, <2>2, <2>3, ComposerKept
<1>5. ASSUME NEW t \in Tabs, NEW b \in Boxes[t], SubmitAnswered(t, b) PROVE OneComposer'
  <2>0. b \in AllBoxes
    BY BoxParts
  <2>1. drafts[t][b] \in Drafts
    BY <2>0 DEF Typed, BoxTyped
  <2>2. PICK d : /\ SetDraft(t, b, d)
                 /\ d \in {[drafts[t][b] EXCEPT !.phase = "idle", !.key = 0], [drafts[t][b] EXCEPT !.phase = "refused"], NoDraft, EmptyDraft}
    BY <1>5 DEF SubmitAnswered, Finish
  <2>3. /\ [drafts[t][b] EXCEPT !.phase = "idle", !.key = 0].text = drafts[t][b].text
        /\ [drafts[t][b] EXCEPT !.phase = "refused"].text = drafts[t][b].text
        /\ NoDraft.text = 0 /\ EmptyDraft.text = 0
    BY <2>1 DEF Drafts, NoDraft, EmptyDraft
  <2>4. nextText' = nextText
    BY <1>5 DEF SubmitAnswered
  <2> QED
    BY <2>0, <2>2, <2>3, <2>4, ComposerKept
<1>6. ASSUME NEW t \in Tabs, NEW b \in Boxes[t], SubmitUnknown(t, b) PROVE OneComposer'
  <2>0. b \in AllBoxes
    BY BoxParts
  <2>1. drafts[t][b] \in Drafts
    BY <2>0 DEF Typed, BoxTyped
  <2>2. SetDraft(t, b, [drafts[t][b] EXCEPT !.phase = "unknown"]) /\ nextText' = nextText
    BY <1>6 DEF SubmitUnknown
  <2>3. b[1] \in Creating => ([drafts[t][b] EXCEPT !.phase = "unknown"]).text \in {0, drafts[t][b].text}
    BY <1>6, <2>1 DEF SubmitUnknown, Drafts, Creating
  <2> QED
    BY <2>0, <2>2, <2>3, ComposerKept
<1>7. ASSUME NEW t \in Tabs, NEW b \in Boxes[t], Check(t, b) PROVE OneComposer'
  <2>0. b \in AllBoxes
    BY BoxParts
  <2>1. drafts[t][b] \in Drafts
    BY <2>0 DEF Typed, BoxTyped
  <2>2. SetDraft(t, b, [drafts[t][b] EXCEPT !.phase = "checking"]) /\ nextText' = nextText
    BY <1>7 DEF Check
  <2>3. b[1] \in Creating => ([drafts[t][b] EXCEPT !.phase = "checking"]).text \in {0, drafts[t][b].text}
    BY <1>7, <2>1 DEF Check, Drafts, Creating
  <2> QED
    BY <2>0, <2>2, <2>3, ComposerKept
<1>8. ASSUME NEW t \in Tabs, NEW b \in Boxes[t], CheckAnswered(t, b) PROVE OneComposer'
  <2>0. b \in AllBoxes
    BY BoxParts
  <2>1. drafts[t][b] \in Drafts
    BY <2>0 DEF Typed, BoxTyped
  <2>2. PICK d : /\ SetDraft(t, b, d)
                 /\ d \in {[drafts[t][b] EXCEPT !.phase = "idle", !.key = 0], [drafts[t][b] EXCEPT !.phase = "unsaved"], NoDraft, EmptyDraft}
    BY <1>8 DEF CheckAnswered, Finish
  <2>3. /\ [drafts[t][b] EXCEPT !.phase = "idle", !.key = 0].text = drafts[t][b].text
        /\ [drafts[t][b] EXCEPT !.phase = "unsaved"].text = drafts[t][b].text
        /\ NoDraft.text = 0 /\ EmptyDraft.text = 0
    BY <2>1 DEF Drafts, NoDraft, EmptyDraft
  <2>4. nextText' = nextText
    BY <1>8 DEF CheckAnswered
  <2> QED
    BY <2>0, <2>2, <2>3, <2>4, ComposerKept
<1>9. ASSUME NEW t \in Tabs, NEW b \in Boxes[t], CheckUnknown(t, b) PROVE OneComposer'
  <2>0. b \in AllBoxes
    BY BoxParts
  <2>1. drafts[t][b] \in Drafts
    BY <2>0 DEF Typed, BoxTyped
  <2>2. SetDraft(t, b, [drafts[t][b] EXCEPT !.phase = "unknown"]) /\ nextText' = nextText
    BY <1>9 DEF CheckUnknown
  <2>3. b[1] \in Creating => ([drafts[t][b] EXCEPT !.phase = "unknown"]).text \in {0, drafts[t][b].text}
    BY <1>9, <2>1 DEF CheckUnknown, Drafts, Creating
  <2> QED
    BY <2>0, <2>2, <2>3, ComposerKept
<1>10. ASSUME NEW t \in Tabs, NEW b \in Boxes[t], TargetChecked(t, b) PROVE OneComposer'
  <2>0. b \in AllBoxes
    BY BoxParts
  <2>1. drafts[t][b] \in Drafts
    BY <2>0 DEF Typed, BoxTyped
  <2>2. PICK g : SetDraft(t, b, [drafts[t][b] EXCEPT !.phase = "idle", !.key = 0, !.gone = g])
    BY <1>10 DEF TargetChecked
  <2>3. [drafts[t][b] EXCEPT !.phase = "idle", !.key = 0, !.gone = g].text = drafts[t][b].text
    BY <2>1 DEF Drafts
  <2>4. nextText' = nextText
    BY <1>10 DEF TargetChecked
  <2> QED
    BY <2>0, <2>2, <2>3, <2>4, ComposerKept
<1>11. ASSUME NEW t \in Tabs, Leave(t) PROVE OneComposer'
  <2>1. \A u \in Tabs : \A c \in AllBoxes :
          drafts'[u][c] = drafts[u][c] \/ drafts'[u][c] = EmptyDraft \/ drafts'[u][c] = NoDraft
    BY <1>11 DEF Leave, Typed, BoxTyped
  <2>2. NoDraft.text = 0 /\ EmptyDraft.text = 0
    BY DEF NoDraft, EmptyDraft
  <2>3. nextText' = nextText /\ sent' = sent
    BY <1>11 DEF Leave
  <2>4. \A u \in Tabs : \A c \in AllBoxes :
          drafts'[u][c].text = drafts[u][c].text \/ drafts'[u][c].text = 0
    BY <2>1, <2>2
  <2>5. \A u \in Tabs : \A c \in AllBoxes : c[1] \in Creating =>
          drafts'[u][c].text = 0 \/ drafts'[u][c].text \in 2 .. nextText' - 1
    BY <2>3, <2>4 DEF OneComposer
  <2>6. ASSUME NEW u \in Tabs, NEW v \in Tabs, NEW c \in AllBoxes, NEW e \in AllBoxes,
               c[1] \in Creating, e[1] \in Creating,
               drafts'[u][c].text # 0, drafts'[u][c].text = drafts'[v][e].text
        PROVE  u = v /\ c = e
    <3>1. drafts'[u][c].text = drafts[u][c].text /\ drafts'[v][e].text = drafts[v][e].text
      <4>1. drafts'[u][c].text = drafts[u][c].text \/ drafts'[u][c].text = 0
        BY <2>4
      <4>2. drafts'[v][e].text = drafts[v][e].text \/ drafts'[v][e].text = 0
        BY <2>4
      <4> QED
        BY <4>1, <4>2, <2>6
    <3>2. drafts[u][c].text # 0 /\ drafts[u][c].text = drafts[v][e].text
      BY <2>6, <3>1
    <3> QED
      BY <2>6, <3>2 DEF OneComposer
  <2> QED
    BY <2>5, <2>6 DEF OneComposer
<1>12. ASSUME NEW t \in Tabs,
             \/ Load(t) \/ LoadEnds(t) \/ LoadFails(t) \/ CloseDialog(t)
             \/ Confirm(t) \/ ConfirmAnswered(t) \/ ConfirmUnknown(t) \/ DialogRefreshed(t)
             \/ DialogRefreshFails(t)
      PROVE  OneComposer'
  BY <1>12, ComposersStill DEF Load, LoadEnds, LoadFails, CloseDialog, Confirm,
     ConfirmAnswered, ConfirmUnknown, DialogRefreshed, DialogRefreshFails, tabs
<1>13. ASSUME NEW t \in Tabs, NEW c \in Comments,
             OpenDialog(t, c)
      PROVE  OneComposer'
  BY <1>13, ComposersStill DEF OpenDialog, tabs
<1>14. ASSUME NEW k \in Keys,
             \/ Begin(k) \/ Commit(k) \/ RequestStatus(k)
      PROVE  OneComposer'
  BY <1>14, ComposersStill DEF Begin, Commit, RequestStatus, tabs
<1>15. CASE UNCHANGED vars
  BY ComposersStill, <1>15 DEF vars, server, net, tabs, past
<1> QED
  BY <1>1, <1>2, <1>3, <1>4, <1>5, <1>6, <1>7, <1>8, <1>9, <1>10, <1>11, <1>12, <1>13,
     <1>14, <1>15
  DEF Next, TabNext, ServerNext

(* Of the requests that carried a text at most one is not dead.            *)
LEMMA OneRequestStep ==
    ASSUME Typed, Known, Reported, OneComposer, OneRequest, [Next]_vars
    PROVE  OneRequest'
PROOF
<1>1. ASSUME NEW t \in Tabs, NEW b \in Boxes[t], OpenBox(t, b) PROVE OneRequest'
  <2>0. b \in AllBoxes /\ SentKept /\ VerdictsKept
    BY BoxParts, SentStays, VerdictsStay
  <2>1. drafts[t][b] \in Drafts
    BY <2>0 DEF Typed, BoxTyped
  <2>2. SetDraft(t, b, Opened(t, b)) /\ sent' = sent /\ nextText' = nextText
    BY <1>1 DEF OpenBox, Opened
  <2>3. b[1] \in Creating => Opened(t, b).text = 0
    BY <1>1, <2>1 DEF OpenBox, Drafts, Creating, EmptyDraft, NoDraft, Opened
  <2>4. \A k \in Keys : Creation(k) => sent[k].text # 0
    BY BoundsAssumption DEF OneRequest, Typed, PastTyped
  <2>5. \A k \in Keys : Creation(k) /\ b[1] \in Creating
            /\ Opened(t, b).text = sent[k].text =>
                        Opened(t, b).key = k \/ Dead(k)
    BY <2>0, <2>3, <2>4 DEF OneRequest, Opened
  <2> QED
    BY <2>0, <2>2, <2>5, RequestsBut
<1>2. ASSUME NEW t \in Tabs, NEW b \in Boxes[t], Write(t, b) PROVE OneRequest'
  <2>0. b \in AllBoxes /\ SentKept /\ VerdictsKept
    BY BoxParts, SentStays, VerdictsStay
  <2>1. drafts[t][b] \in Drafts
    BY <2>0 DEF Typed, BoxTyped
  <2>2. /\ SetDraft(t, b, [drafts[t][b] EXCEPT !.text = nextText]) /\ sent' = sent
        /\ nextText' = nextText + 1 /\ nextText \in Nat
    BY <1>2, BoundsAssumption DEF Write, Typed, PastTyped
  <2>3. [drafts[t][b] EXCEPT !.text = nextText].text = nextText
    BY <2>1 DEF Drafts
  <2>4. \A k \in Keys : Creation(k) => sent[k].text # nextText
    BY <2>2 DEF OneRequest
  <2>5. PICK d : SetDraft(t, b, d) /\ d.text = nextText
    BY <2>2, <2>3
  <2>6. \A k \in Keys : Creation(k) /\ b[1] \in Creating /\ d.text = sent[k].text =>
                        d.key = k \/ Dead(k)
    BY <2>4, <2>5
  <2> QED
    BY <2>0, <2>2, <2>5, <2>6, RequestsBut
<1>3. ASSUME NEW t \in Tabs, NEW b \in Boxes[t], CancelBox(t, b) PROVE OneRequest'
  <2>0. b \in AllBoxes /\ SentKept /\ VerdictsKept
    BY BoxParts, SentStays, VerdictsStay
  <2>1. drafts[t][b] \in Drafts
    BY <2>0 DEF Typed, BoxTyped
  <2>2. SetDraft(t, b, NoDraft) /\ sent' = sent /\ nextText' = nextText
    BY <1>3 DEF CancelBox
  <2>3. b[1] \in Creating => (NoDraft).text = 0
    BY <1>3, <2>1 DEF CancelBox, Drafts, Creating, NoDraft
  <2>4. \A k \in Keys : Creation(k) => sent[k].text # 0
    BY BoundsAssumption DEF OneRequest, Typed, PastTyped
  <2>5. \A k \in Keys : Creation(k) /\ b[1] \in Creating /\ (NoDraft).text = sent[k].text =>
                        (NoDraft).key = k \/ Dead(k)
    BY <2>0, <2>3, <2>4 DEF OneRequest
  <2> QED
    BY <2>0, <2>2, <2>5, RequestsBut
<1>4. ASSUME NEW t \in Tabs, NEW b \in Boxes[t], Submit(t, b) PROVE OneRequest'
  <2>0. b \in AllBoxes /\ SentKept /\ VerdictsKept /\ SubmitSent(t, b)
    BY <1>4, BoxParts, SentStays, VerdictsStay, SubmitSends
  <2>1. drafts[t][b] \in Drafts /\ drafts[t][b].key = 0 /\ drafts[t][b].text # 0
    BY <1>4, <2>0 DEF Submit, Typed, BoxTyped, Known, Asked
  <2>2. /\ nextKey \in Keys /\ nextKey # 0 /\ sent[nextKey] = None /\ nextText' = nextText
        /\ sent'[nextKey].action = b[1] /\ sent'[nextKey].text = drafts[t][b].text
        /\ \A k \in Keys : k # nextKey => sent'[k] = sent[k]
    BY <1>4, <2>0, FreshKey DEF Submit, SubmitSent, Keys
  <2>3. /\ \A u \in Tabs : \A c \in AllBoxes : (u # t \/ c # b) => drafts'[u][c] = drafts[u][c]
        /\ drafts'[t][b] = [drafts[t][b] EXCEPT !.phase = "sending", !.key = nextKey]
    BY <1>4, <2>0 DEF Submit, SetDraft, Typed, BoxTyped
  <2>4. drafts'[t][b].text = drafts[t][b].text /\ drafts'[t][b].key = nextKey
    BY <2>1, <2>3 DEF Drafts
  <2>5. \A k \in Keys : Creation(k) /\ Dead(k) => Dead(k)'
    BY <2>0 DEF Creation, Creating, Contribution, VerdictsKept
  <2>6. \A k \in Keys : k # nextKey => (Creation(k)' <=> Creation(k))
    BY <2>2 DEF Creation
  <2>7. \A k \in Keys : k = nextKey => (Creation(k)' => b[1] \in Creating)
    BY <2>2 DEF Creation
  <2>8. \A k \in Keys : Creation(k) /\ b[1] \in Creating /\ sent[k].text = drafts[t][b].text =>
            Dead(k)
    BY <2>0, <2>1 DEF OneRequest, Keys
  <2>9. \A k \in Keys : Creation(k)' => sent'[k].text \in 2 .. nextText' - 1
    <3>1. b[1] \in Creating => drafts[t][b].text \in 2 .. nextText - 1
      BY <2>0, <2>1 DEF OneComposer
    <3> QED
      BY <2>2, <2>6, <2>7, <3>1 DEF OneRequest
  <2>10. ASSUME NEW k \in Keys, NEW u \in Tabs, NEW c \in AllBoxes, Creation(k)',
                c[1] \in Creating, drafts'[u][c].text = sent'[k].text
         PROVE  drafts'[u][c].key = k \/ Dead(k)'
    <3>1. CASE k = nextKey /\ u = t /\ c = b
      BY <2>4, <3>1
    <3>2. CASE k = nextKey /\ (u # t \/ c # b)
      <4>1. drafts[u][c].text = drafts[t][b].text /\ b[1] \in Creating
        BY <2>2, <2>3, <2>7, <2>10, <3>2
      <4> QED
        BY <2>0, <2>1, <2>10, <3>2, <4>1 DEF OneComposer
    <3>3. CASE k # nextKey /\ u = t /\ c = b
      BY <2>2, <2>4, <2>5, <2>6, <2>8, <2>10, <3>3
    <3>4. CASE k # nextKey /\ (u # t \/ c # b)
      BY <2>2, <2>3, <2>5, <2>6, <2>10, <3>4 DEF OneRequest
    <3> QED
      BY <3>1, <3>2, <3>3, <3>4
  <2>11. ASSUME NEW j \in Keys, NEW k \in Keys, Creation(j)', Creation(k)',
                sent'[j].text = sent'[k].text, j # k
         PROVE  Dead(j)' \/ Dead(k)'
    <3>1. CASE j = nextKey
      BY <2>2, <2>5, <2>6, <2>7, <2>8, <2>11, <3>1
    <3>2. CASE k = nextKey
      BY <2>2, <2>5, <2>6, <2>7, <2>8, <2>11, <3>2
    <3>3. CASE j # nextKey /\ k # nextKey
      BY <2>2, <2>5, <2>6, <2>11, <3>3 DEF OneRequest
    <3> QED
      BY <3>1, <3>2, <3>3
  <2> QED
    BY <2>9, <2>10, <2>11 DEF OneRequest
<1>5. ASSUME NEW t \in Tabs, NEW b \in Boxes[t], SubmitAnswered(t, b) PROVE OneRequest'
  <2>0. b \in AllBoxes /\ SentKept /\ VerdictsKept
    BY BoxParts, SentStays, VerdictsStay
  <2>1. drafts[t][b] \in Drafts
    BY <2>0 DEF Typed, BoxTyped
  <2>2. drafts[t][b].phase # "idle" /\ drafts[t][b].key \in Keys
    BY <1>5, <2>0, RefusedIsDead DEF SubmitAnswered
  <2>3. PICK a, d :
          /\ a \in AnswerFor(t, b, "write")
          /\ SetDraft(t, b, d)
          /\ \/ d = NoDraft
             \/ d = EmptyDraft
             \/ d = [drafts[t][b] EXCEPT !.phase = "idle", !.key = 0]
                       /\ drafts[t][b].text # sent[drafts[t][b].key].text
             \/ d = [drafts[t][b] EXCEPT !.phase = "idle", !.key = 0] /\ ~a.ok
             \/ d = [drafts[t][b] EXCEPT !.phase = "refused"]
    BY <1>5 DEF SubmitAnswered, Finish
  <2>4. /\ [drafts[t][b] EXCEPT !.phase = "idle", !.key = 0].text = drafts[t][b].text
        /\ [drafts[t][b] EXCEPT !.phase = "refused"].text = drafts[t][b].text
        /\ [drafts[t][b] EXCEPT !.phase = "refused"].key = drafts[t][b].key
        /\ NoDraft.text = 0 /\ EmptyDraft.text = 0
    BY <2>1 DEF Drafts, NoDraft, EmptyDraft
  <2>5. \A k \in Keys : Creation(k) => sent[k].text # 0
    BY BoundsAssumption DEF OneRequest, Typed, PastTyped
  <2>6. ~a.ok => Dead(drafts[t][b].key)
    <3>1. a \in answers /\ a.key = drafts[t][b].key
      BY <2>3 DEF AnswerFor
    <3> QED
      BY <2>0, <2>2, <3>1, RefusedIsDead DEF Reported
  <2>7. \A k \in Keys : Creation(k) /\ b[1] \in Creating /\ drafts[t][b].text = sent[k].text =>
                        drafts[t][b].key = k \/ Dead(k)
    BY <2>0 DEF OneRequest
  <2>8. \A k \in Keys : Creation(k) /\ b[1] \in Creating /\ d.text = sent[k].text =>
                        d.key = k \/ Dead(k)
    BY <2>3, <2>4, <2>5, <2>6, <2>7
  <2>9. sent' = sent /\ nextText' = nextText
    BY <1>5 DEF SubmitAnswered
  <2> QED
    BY <2>0, <2>3, <2>8, <2>9, RequestsBut
<1>6. ASSUME NEW t \in Tabs, NEW b \in Boxes[t], SubmitUnknown(t, b) PROVE OneRequest'
  <2>0. b \in AllBoxes /\ SentKept /\ VerdictsKept
    BY BoxParts, SentStays, VerdictsStay
  <2>1. drafts[t][b] \in Drafts
    BY <2>0 DEF Typed, BoxTyped
  <2>2. SetDraft(t, b, [drafts[t][b] EXCEPT !.phase = "unknown"]) /\ sent' = sent
            /\ nextText' = nextText
    BY <1>6 DEF SubmitUnknown
  <2>3. ([drafts[t][b] EXCEPT !.phase = "unknown"]).text = drafts[t][b].text
            /\ ([drafts[t][b] EXCEPT !.phase = "unknown"]).key = drafts[t][b].key
    BY <1>6, <2>1 DEF SubmitUnknown, Drafts, Creating
  <2>4. \A k \in Keys : Creation(k) => sent[k].text # 0
    BY BoundsAssumption DEF OneRequest, Typed, PastTyped
  <2>5. \A k \in Keys : Creation(k) /\ b[1] \in Creating
            /\ ([drafts[t][b] EXCEPT !.phase = "unknown"]).text = sent[k].text =>
                        ([drafts[t][b] EXCEPT !.phase = "unknown"]).key = k \/ Dead(k)
    BY <2>0, <2>3, <2>4 DEF OneRequest
  <2> QED
    BY <2>0, <2>2, <2>5, RequestsBut
<1>7. ASSUME NEW t \in Tabs, NEW b \in Boxes[t], Check(t, b) PROVE OneRequest'
  <2>0. b \in AllBoxes /\ SentKept /\ VerdictsKept
    BY BoxParts, SentStays, VerdictsStay
  <2>1. drafts[t][b] \in Drafts
    BY <2>0 DEF Typed, BoxTyped
  <2>2. SetDraft(t, b, [drafts[t][b] EXCEPT !.phase = "checking"]) /\ sent' = sent
            /\ nextText' = nextText
    BY <1>7 DEF Check
  <2>3. ([drafts[t][b] EXCEPT !.phase = "checking"]).text = drafts[t][b].text
            /\ ([drafts[t][b] EXCEPT !.phase = "checking"]).key = drafts[t][b].key
    BY <1>7, <2>1 DEF Check, Drafts, Creating
  <2>4. \A k \in Keys : Creation(k) => sent[k].text # 0
    BY BoundsAssumption DEF OneRequest, Typed, PastTyped
  <2>5. \A k \in Keys : Creation(k) /\ b[1] \in Creating
            /\ ([drafts[t][b] EXCEPT !.phase = "checking"]).text = sent[k].text =>
                        ([drafts[t][b] EXCEPT !.phase = "checking"]).key = k \/ Dead(k)
    BY <2>0, <2>3, <2>4 DEF OneRequest
  <2> QED
    BY <2>0, <2>2, <2>5, RequestsBut
<1>8. ASSUME NEW t \in Tabs, NEW b \in Boxes[t], CheckAnswered(t, b) PROVE OneRequest'
  <2>0. b \in AllBoxes /\ SentKept /\ VerdictsKept
    BY BoxParts, SentStays, VerdictsStay
  <2>1. drafts[t][b] \in Drafts
    BY <2>0 DEF Typed, BoxTyped
  <2>2. drafts[t][b].phase # "idle" /\ drafts[t][b].key \in Keys
    BY <1>8, <2>0, RefusedIsDead DEF CheckAnswered
  <2>3. PICK a, d :
          /\ a \in AnswerFor(t, b, "check")
          /\ SetDraft(t, b, d)
          /\ \/ d = NoDraft
             \/ d = EmptyDraft
             \/ d = [drafts[t][b] EXCEPT !.phase = "idle", !.key = 0]
                       /\ drafts[t][b].text # sent[drafts[t][b].key].text
             \/ d = [drafts[t][b] EXCEPT !.phase = "idle", !.key = 0] /\ ~a.ok
             \/ d = [drafts[t][b] EXCEPT !.phase = "unsaved"]
    BY <1>8 DEF CheckAnswered, Finish
  <2>4. /\ [drafts[t][b] EXCEPT !.phase = "idle", !.key = 0].text = drafts[t][b].text
        /\ [drafts[t][b] EXCEPT !.phase = "unsaved"].text = drafts[t][b].text
        /\ [drafts[t][b] EXCEPT !.phase = "unsaved"].key = drafts[t][b].key
        /\ NoDraft.text = 0 /\ EmptyDraft.text = 0
    BY <2>1 DEF Drafts, NoDraft, EmptyDraft
  <2>5. \A k \in Keys : Creation(k) => sent[k].text # 0
    BY BoundsAssumption DEF OneRequest, Typed, PastTyped
  <2>6. ~a.ok => Dead(drafts[t][b].key)
    <3>1. a \in answers /\ a.key = drafts[t][b].key
      BY <2>3 DEF AnswerFor
    <3> QED
      BY <2>0, <2>2, <3>1, RefusedIsDead DEF Reported
  <2>7. \A k \in Keys : Creation(k) /\ b[1] \in Creating /\ drafts[t][b].text = sent[k].text =>
                        drafts[t][b].key = k \/ Dead(k)
    BY <2>0 DEF OneRequest
  <2>8. \A k \in Keys : Creation(k) /\ b[1] \in Creating /\ d.text = sent[k].text =>
                        d.key = k \/ Dead(k)
    BY <2>3, <2>4, <2>5, <2>6, <2>7
  <2>9. sent' = sent /\ nextText' = nextText
    BY <1>8 DEF CheckAnswered
  <2> QED
    BY <2>0, <2>3, <2>8, <2>9, RequestsBut
<1>9. ASSUME NEW t \in Tabs, NEW b \in Boxes[t], CheckUnknown(t, b) PROVE OneRequest'
  <2>0. b \in AllBoxes /\ SentKept /\ VerdictsKept
    BY BoxParts, SentStays, VerdictsStay
  <2>1. drafts[t][b] \in Drafts
    BY <2>0 DEF Typed, BoxTyped
  <2>2. SetDraft(t, b, [drafts[t][b] EXCEPT !.phase = "unknown"]) /\ sent' = sent
            /\ nextText' = nextText
    BY <1>9 DEF CheckUnknown
  <2>3. ([drafts[t][b] EXCEPT !.phase = "unknown"]).text = drafts[t][b].text
            /\ ([drafts[t][b] EXCEPT !.phase = "unknown"]).key = drafts[t][b].key
    BY <1>9, <2>1 DEF CheckUnknown, Drafts, Creating
  <2>4. \A k \in Keys : Creation(k) => sent[k].text # 0
    BY BoundsAssumption DEF OneRequest, Typed, PastTyped
  <2>5. \A k \in Keys : Creation(k) /\ b[1] \in Creating
            /\ ([drafts[t][b] EXCEPT !.phase = "unknown"]).text = sent[k].text =>
                        ([drafts[t][b] EXCEPT !.phase = "unknown"]).key = k \/ Dead(k)
    BY <2>0, <2>3, <2>4 DEF OneRequest
  <2> QED
    BY <2>0, <2>2, <2>5, RequestsBut
<1>10. ASSUME NEW t \in Tabs, NEW b \in Boxes[t], TargetChecked(t, b) PROVE OneRequest'
  <2>0. b \in AllBoxes /\ SentKept /\ VerdictsKept
    BY BoxParts, SentStays, VerdictsStay
  <2>1. drafts[t][b] \in Drafts
    BY <2>0 DEF Typed, BoxTyped
  <2>2. PICK g : SetDraft(t, b, [drafts[t][b] EXCEPT !.phase = "idle", !.key = 0, !.gone = g])
    BY <1>10 DEF TargetChecked
  <2>3. [drafts[t][b] EXCEPT !.phase = "idle", !.key = 0, !.gone = g].text = drafts[t][b].text
    BY <2>1 DEF Drafts
  <2>4. Dead(drafts[t][b].key)
    BY <1>10, <2>0 DEF TargetChecked, Reported
  <2>5. \A k \in Keys : Creation(k) /\ b[1] \in Creating /\ drafts[t][b].text = sent[k].text =>
                        drafts[t][b].key = k \/ Dead(k)
    BY <2>0 DEF OneRequest
  <2>6. sent' = sent /\ nextText' = nextText
    BY <1>10 DEF TargetChecked
  <2>7. PICK d : SetDraft(t, b, d) /\ d.text = drafts[t][b].text
    BY <2>2, <2>3
  <2>8. \A k \in Keys : Creation(k) /\ b[1] \in Creating /\ d.text = sent[k].text =>
                        d.key = k \/ Dead(k)
    BY <2>0, <2>4, <2>5, <2>7, SMT DEF OneRequest
  <2> QED
    BY <2>0, <2>6, <2>7, <2>8, RequestsBut
<1>11. ASSUME NEW t \in Tabs, Confirm(t) PROVE OneRequest'
  <2>0. ConfirmSent(t) /\ SentKept /\ VerdictsKept
    BY <1>11, ConfirmSends, SentStays, VerdictsStay
  <2>1. drafts' = drafts /\ nextText' = nextText
    BY <1>11 DEF Confirm
  <2>2. \A k \in Keys : Creation(k)' => sent'[k] = sent[k]
    BY <2>0 DEF ConfirmSent, Creation, Creating
  <2>3. \A u \in Tabs : \A c \in AllBoxes : \A k \in Keys :
          Creation(k) /\ c[1] \in Creating /\ drafts'[u][c].text = sent[k].text =>
             drafts'[u][c].key = k \/ Dead(k)
    BY <2>1 DEF OneRequest
  <2> QED
    BY <2>0, <2>1, <2>2, <2>3, RequestKept
<1>12. ASSUME NEW t \in Tabs, Leave(t) PROVE OneRequest'
  <2>1. \A u \in Tabs : \A c \in AllBoxes :
          drafts'[u][c] = drafts[u][c] \/ drafts'[u][c] = EmptyDraft \/ drafts'[u][c] = NoDraft
    BY <1>12 DEF Leave, Typed, BoxTyped
  <2>2. NoDraft.text = 0 /\ EmptyDraft.text = 0
    BY DEF NoDraft, EmptyDraft
  <2>3. nextText' = nextText /\ sent' = sent
    BY <1>12 DEF Leave
  <2>4. \A k \in Keys : Creation(k) => sent[k].text # 0
    BY BoundsAssumption DEF OneRequest, Typed, PastTyped
  <2>5. \A u \in Tabs : \A c \in AllBoxes : \A k \in Keys :
          Creation(k) /\ c[1] \in Creating /\ drafts'[u][c].text = sent[k].text =>
             drafts'[u][c].key = k \/ Dead(k)
    BY <2>1, <2>2, <2>4 DEF OneRequest
  <2> QED
    BY <2>3, <2>5, SentStays, VerdictsStay, RequestKept
<1>13. ASSUME NEW t \in Tabs,
             \/ Load(t) \/ LoadEnds(t) \/ LoadFails(t) \/ CloseDialog(t)
             \/ ConfirmAnswered(t) \/ ConfirmUnknown(t) \/ DialogRefreshed(t)
                       \/ DialogRefreshFails(t)
      PROVE  OneRequest'
  BY <1>13, RequestsStill, SentStays, VerdictsStay DEF Load, LoadEnds, LoadFails,
     CloseDialog, ConfirmAnswered, ConfirmUnknown, DialogRefreshed, DialogRefreshFails, tabs
<1>14. ASSUME NEW t \in Tabs, NEW c \in Comments,
             OpenDialog(t, c)
      PROVE  OneRequest'
  BY <1>14, RequestsStill, SentStays, VerdictsStay DEF OpenDialog, tabs
<1>15. ASSUME NEW k \in Keys,
             \/ Begin(k) \/ Commit(k) \/ RequestStatus(k)
      PROVE  OneRequest'
  BY <1>15, RequestsStill, SentStays, VerdictsStay DEF Begin, Commit, RequestStatus, tabs
<1>16. CASE UNCHANGED vars
  BY RequestsStill, SentStays, VerdictsStay, <1>16 DEF vars, server, net, tabs, past
<1> QED
  BY <1>1, <1>2, <1>3, <1>4, <1>5, <1>6, <1>7, <1>8, <1>9, <1>10, <1>11, <1>12, <1>13,
     <1>14, <1>15, <1>16
  DEF Next, TabNext, ServerNext
(* Adding a version keeps those before it.                                 *)
LEMMA VersionsKept ==
    ASSUME NEW s \in Seq(Version), NEW v \in Version
    PROVE  /\ s \o <<v>> # <<>>
           /\ \A i \in DOMAIN s : i \in DOMAIN (s \o <<v>>) /\ (s \o <<v>>)[i] = s[i]
           /\ Len(s) + 1 \in DOMAIN (s \o <<v>>) /\ (s \o <<v>>)[Len(s) + 1] = v
           /\ s # <<>> => 1 \in DOMAIN s
PROOF
<1>1. <<v>> \in Seq(Version) /\ Len(<<v>>) = 1 /\ <<v>>[1] = v /\ Len(s) \in Nat
  BY LenProperties
<1>2. s \o <<v>> \in Seq(Version) /\ Len(s \o <<v>>) = Len(s) + 1
  BY <1>1, ConcatProperties
<1>3. DOMAIN s = 1 .. Len(s) /\ DOMAIN (s \o <<v>>) = 1 .. Len(s) + 1
  BY <1>1, <1>2, LenProperties
<1>4. \A i \in 1 .. Len(s) : (s \o <<v>>)[i] = s[i]
  BY <1>1, ConcatProperties
<1>5. (s \o <<v>>)[Len(s) + 1] = v
  BY <1>1, ConcatProperties
<1>6. s # <<>> => 1 \in 1 .. Len(s)
  BY <1>1, EmptySeq
<1> QED
  BY <1>1, <1>2, <1>3, <1>4, <1>5, <1>6, EmptySeq

(* Contributions are numbered without gaps, so the next one is new.        *)
LEMMA NextIsNew ==
    ASSUME NEW n \in 1 .. MaxComments, \A c \in Comments : (hist[c] = <<>>) <=> (c > n)
    PROVE  Cardinality({c \in Comments : Exists(c)}) = n
PROOF
<1>1. {c \in Comments : Exists(c)} = 1 .. n
  BY BoundsAssumption DEF Comments, Exists
<1>2. Cardinality(1 .. n) = n
  BY BoundsAssumption, FS_Interval
<1> QED
  BY <1>1, <1>2

(* What a step does to the histories: nothing, one more version of one     *)
(* contribution, or the first version of the next contribution, recorded   *)
(* under the key of the request that brought it.                           *)
Extended(c) == \A i \in DOMAIN hist[c] : i \in DOMAIN hist'[c] /\ hist'[c][i] = hist[c][i]
Changed(c) == /\ hist[c] # <<>> /\ hist'[c] # <<>> /\ hist'[c][1] = hist[c][1] /\ Extended(c)
              /\ \A d \in Comments : d # c => hist'[d] = hist[d]
Begun(k, c) == /\ Creation(k) /\ mutations'[k] = c
               /\ c = Cardinality({d \in Comments : Exists(d)}) + 1
               /\ hist'[c] = hist[c] \o <<[live |-> TRUE, text |-> sent[k].text]>>
               /\ \A d \in Comments : d # c => hist'[d] = hist[d]

(* These are all the things a step does to the histories.                  *)
LEMMA HistoryStep ==
    ASSUME Typed, [Next]_vars
    PROVE  \/ UNCHANGED hist
           \/ \E c \in Comments : Changed(c)
           \/ \E k \in Keys : \E c \in Comments : Begun(k, c)
PROOF
<1> DEFINE Goal == \/ UNCHANGED hist
                   \/ \E c \in Comments : Changed(c)
                   \/ \E k \in Keys : \E c \in Comments : Begun(k, c)
<1> HIDE DEF Goal
<1>1. ASSUME NEW k \in Keys, Commit(k) PROVE Goal
  <2>1. sent[k] # None
    BY <1>1 DEF Commit, Holds
  <2>2. /\ sent[k].action # "comment" => sent[k].target \in Comments
        /\ sent[k].text \in 0 .. MaxTexts
    BY <2>1, SentParts DEF Typed
  <2>3. /\ [live |-> TRUE, text |-> sent[k].text] \in Version
        /\ [live |-> FALSE, text |-> 0] \in Version
    BY <2>2, BoundsAssumption DEF Version
  <2>4. ASSUME NEW c \in Comments, Live(c), NEW v \in Version, AddVersion(c, v) PROVE Changed(c)
    <3>1. hist[c] \in Seq(Version) /\ hist[c] # <<>>
      BY <2>4 DEF Typed, ServerTyped, Live, Exists
    <3>2. \A d \in Comments : hist'[d] = IF d = c THEN hist[c] \o <<v>> ELSE hist[d]
      BY <2>4 DEF AddVersion, Typed, ServerTyped
    <3>3. hist'[c] = hist[c] \o <<v>>
      BY <3>2
    <3>4. /\ hist'[c] # <<>> /\ 1 \in DOMAIN hist[c]
          /\ \A i \in DOMAIN hist[c] : i \in DOMAIN hist'[c] /\ hist'[c][i] = hist[c][i]
      BY <3>1, <3>3, VersionsKept
    <3> QED
      BY <3>1, <3>2, <3>4 DEF Changed, Extended
  <2>5. CASE Replay(k)
    BY <2>5 DEF Replay, Goal
  <2>6. CASE sent[k].action \in {"comment", "reply"} /\ Create(k)
    <3> DEFINE new == Cardinality({c \in Comments : Exists(c)}) + 1
    <3>1. CASE Refuse(k)
      BY <3>1 DEF Refuse, Goal
    <3>2. CASE /\ new \in Comments
               /\ AddVersion(new, [live |-> TRUE, text |-> sent[k].text])
               /\ Record(k, new)
      <4>1. \A d \in Comments :
              hist'[d] = IF d = new THEN hist[new] \o <<[live |-> TRUE, text |-> sent[k].text]>>
                                    ELSE hist[d]
        BY <3>2 DEF AddVersion, Typed, ServerTyped
      <4>2. mutations'[k] = new
        BY <3>2 DEF Record, Typed, ServerTyped
      <4>3. Creation(k)
        BY <2>1, <2>6 DEF Creation, Creating
      <4>4. Begun(k, new)
        BY <3>2, <4>1, <4>2, <4>3 DEF Begun
      <4> QED
        BY <3>2, <4>4 DEF Goal
    <3> HIDE DEF new
    <3> QED
      BY <2>6, <3>1, <3>2 DEF Create, new
  <2>7. CASE sent[k].action = "edit" /\ Edit(k)
    <3>1. UNCHANGED hist \/
          (Live(sent[k].target) /\ AddVersion(sent[k].target, [live |-> TRUE, text |-> sent[k].text]))
      BY <2>7 DEF Edit, Refuse
    <3> QED
      BY <2>2, <2>3, <2>4, <2>7, <3>1 DEF Goal
  <2>8. CASE sent[k].action = "erase" /\ Erase(k)
    <3>1. UNCHANGED hist \/
          (Live(sent[k].target) /\ AddVersion(sent[k].target, [live |-> FALSE, text |-> 0]))
      BY <2>8 DEF Erase, Refuse
    <3> QED
      BY <2>2, <2>3, <2>4, <2>8, <3>1 DEF Goal
  <2> QED
    BY <1>1, <2>5, <2>6, <2>7, <2>8 DEF Commit
<1>2. ASSUME NEW t \in Tabs,
             \/ Load(t) \/ LoadEnds(t) \/ LoadFails(t) \/ CloseDialog(t)
             \/ Confirm(t) \/ ConfirmAnswered(t) \/ ConfirmUnknown(t) \/ DialogRefreshed(t)
             \/ DialogRefreshFails(t) \/ Leave(t)
      PROVE  Goal
  BY <1>2 DEF Load, LoadEnds, LoadFails, CloseDialog, Confirm, ConfirmAnswered, ConfirmUnknown,
              DialogRefreshed, DialogRefreshFails, Leave, server, Goal
<1>3. ASSUME NEW t \in Tabs, NEW b \in Boxes[t],
             \/ OpenBox(t, b) \/ Write(t, b) \/ CancelBox(t, b) \/ Submit(t, b)
             \/ SubmitAnswered(t, b) \/ SubmitUnknown(t, b) \/ Check(t, b) \/ CheckAnswered(t, b)
             \/ CheckUnknown(t, b) \/ TargetChecked(t, b)
      PROVE  Goal
  BY <1>3 DEF OpenBox, Write, CancelBox, Submit, SubmitAnswered, SubmitUnknown, Check,
              CheckAnswered, CheckUnknown, TargetChecked, server, Goal
<1>4. ASSUME NEW t \in Tabs, NEW c \in Comments, OpenDialog(t, c)
      PROVE  Goal
  BY <1>4 DEF OpenDialog, server, Goal
<1>5. ASSUME NEW k \in Keys, Begin(k) \/ RequestStatus(k)
      PROVE  Goal
  BY <1>5 DEF Begin, RequestStatus, Goal
<1>6. ASSUME UNCHANGED vars PROVE Goal
  BY <1>6 DEF vars, server, Goal
<1>7. Goal
  BY <1>1, <1>2, <1>3, <1>4, <1>5, <1>6 DEF Next, TabNext, ServerNext
<1> QED
  BY <1>7 DEF Goal

(* Whatever was posted came from a request that was saved.                 *)
LEMMA OriginsStep ==
    ASSUME Typed, Known, Origins, [Next]_vars
    PROVE  Origins'
PROOF
<1>1. SentKept /\ ResultsKept
  BY SentStays, ResultsStay
<1>2. ASSUME NEW c \in Comments, Posted(c), hist'[c] # <<>>, hist'[c][1] = hist[c][1]
      PROVE  Posted(c)'
  <2>1. PICK k \in Keys : Creation(k) /\ mutations[k] = c /\ sent[k].text = hist[c][1].text
    BY <1>2 DEF Posted
  <2>2. mutations'[k] = c
    BY <1>1, <2>1, BoundsAssumption DEF ResultsKept, Comments
  <2>3. Creation(k)' /\ sent'[k] = sent[k]
    BY <1>1, <2>1 DEF SentKept, Creation, Creating
  <2> QED
    BY <1>2, <2>1, <2>2, <2>3 DEF Posted
<1>3. PICK n \in 1 .. MaxComments : \A c \in Comments : (hist[c] = <<>>) <=> (c > n)
  BY DEF Origins
<1>4. 1 \in Comments /\ n \in Comments
  BY BoundsAssumption DEF Comments
<1>5. CASE UNCHANGED hist
  BY <1>2, <1>5 DEF Origins
<1>6. ASSUME NEW c \in Comments, Changed(c) PROVE Origins'
  <2>1. \A d \in Comments : /\ (hist'[d] = <<>>) <=> (hist[d] = <<>>)
                            /\ hist[d] # <<>> => hist'[d][1] = hist[d][1]
    BY <1>6 DEF Changed
  <2>2. hist'[1] # <<>> /\ hist'[1][1].text = 1
    BY <1>4, <2>1 DEF Origins
  <2>3. \A d \in Comments : hist'[d] # <<>> => d = 1 \/ Posted(d)'
    BY <1>2, <2>1 DEF Origins
  <2>4. \E m \in 1 .. MaxComments : \A d \in Comments : (hist'[d] = <<>>) <=> (d > m)
    BY <1>3, <2>1
  <2> QED
    BY <2>2, <2>3, <2>4 DEF Origins
<1>7. ASSUME NEW k \in Keys, NEW c \in Comments, Begun(k, c) PROVE Origins'
  <2>1. c = n + 1 /\ n \in Nat
    BY <1>3, <1>7, NextIsNew, BoundsAssumption DEF Begun
  <2>2. hist[c] = <<>>
    BY <1>3, <2>1
  <2>3. hist'[c] = <<[live |-> TRUE, text |-> sent[k].text]>>
    BY <1>7, <2>2 DEF Begun
  <2>4. hist'[c] # <<>> /\ hist'[c][1].text = sent[k].text
    BY <2>3
  <2>5. \A d \in Comments : d # c => hist'[d] = hist[d]
    BY <1>7 DEF Begun
  <2>6. \A d \in Comments : (hist'[d] = <<>>) <=> (d > n + 1)
    BY <1>3, <2>1, <2>4, <2>5 DEF Comments
  <2>7. hist'[1] # <<>> /\ hist'[1][1].text = 1
    BY <1>4, <2>2, <2>5 DEF Origins
  <2>8. Posted(c)'
    <3>1. mutations'[k] = c /\ Creation(k)
      BY <1>7 DEF Begun
    <3>2. Creation(k)' /\ sent'[k] = sent[k]
      BY <1>1, <3>1 DEF SentKept, Creation, Creating
    <3> QED
      BY <2>4, <3>1, <3>2 DEF Posted
  <2>9. \A d \in Comments : hist'[d] # <<>> => d = 1 \/ Posted(d)'
    BY <1>2, <2>5, <2>8 DEF Origins
  <2>10. n + 1 \in 1 .. MaxComments
    BY <2>1 DEF Comments
  <2> QED
    BY <2>6, <2>7, <2>9, <2>10 DEF Origins
<1> QED
  BY <1>5, <1>6, <1>7, HistoryStep

(* The first page has one contribution and empty composers.                *)
LEMMA OnceInit == Init => Once
PROOF
<1> SUFFICES ASSUME Init PROVE Once
  OBVIOUS
<1>1. 1 \in Comments /\ 1 \in 1 .. MaxComments
  BY BoundsAssumption DEF Comments
<1>2. \A c \in Comments : hist[c] = IF c = 1 THEN <<[live |-> TRUE, text |-> 1]>> ELSE <<>>
  BY DEF Init
<1>3. \A t \in Tabs : \A b \in AllBoxes : drafts[t][b].text = 0
  BY DEF Init, EmptyDraft, NoDraft
<1>4. OneComposer
  BY <1>3 DEF OneComposer
<1>5. OneRequest
  BY DEF Init, OneRequest, Creation
<1>6. <<[live |-> TRUE, text |-> 1]>> # <<>> /\ <<[live |-> TRUE, text |-> 1]>>[1].text = 1
  OBVIOUS
<1>7. \A c \in Comments : (hist[c] = <<>>) <=> (c > 1)
  BY <1>2, <1>6 DEF Comments
<1>8. Origins
  BY <1>1, <1>2, <1>6, <1>7 DEF Origins
<1> QED
  BY <1>4, <1>5, <1>8 DEF Once

(* Every step keeps the three.                                             *)
LEMMA OnceStep ==
    ASSUME Inv, Once, [Next]_vars
    PROVE  Once'
BY OneComposerStep, OneRequestStep, OriginsStep DEF Inv, Once

(* A contribution is published at most once, however often it is           *)
(* submitted, checked and submitted again, and whatever arrives late.      *)
THEOREM PublishedAtMostOnce == Spec => []PublishedOnce
PROOF
<1>1. Inv /\ Once => PublishedOnce
  <2> SUFFICES ASSUME Inv, Once, NEW c \in Comments, NEW d \in Comments, Exists(c), Exists(d),
                      hist[c][1].text = hist[d][1].text, c # d
               PROVE  FALSE
    BY DEF PublishedOnce
  <2>1. \A k \in Keys : Creation(k) => sent[k].text # 1
    BY BoundsAssumption DEF Once, OneRequest, Inv, Typed, PastTyped
  <2>2. hist[1][1].text = 1
    BY DEF Once, Origins
  <2>3. \A e \in Comments : Exists(e) /\ e # 1 => Posted(e)
    BY DEF Once, Origins, Exists
  <2>4. \A e \in Comments : Posted(e) => hist[e][1].text # 1
    BY <2>1 DEF Posted
  <2>5. Posted(c) /\ Posted(d)
    BY <2>2, <2>3, <2>4
  <2>6. PICK j \in Keys : Creation(j) /\ mutations[j] = c /\ sent[j].text = hist[c][1].text
    BY <2>5 DEF Posted
  <2>7. PICK k \in Keys : Creation(k) /\ mutations[k] = d /\ sent[k].text = hist[d][1].text
    BY <2>5 DEF Posted
  <2>8. ~Dead(j) /\ ~Dead(k)
    BY <2>6, <2>7, BoundsAssumption DEF Dead, Fence, Comments
  <2> QED
    BY <2>6, <2>7, <2>8 DEF Once, OneRequest
<1>2. Inv /\ Once /\ [Next]_vars => Once'
  BY OnceStep
<1> QED
  BY <1>1, <1>2, OnceInit, InvHolds, PTL DEF Spec
-----------------------------------------------------------------------------
(* What a reader wrote is never lost: a saved request has published its    *)
(* text, and a composer that is closed holds none.                         *)
Published(x) == \E c \in Comments : \E v \in DOMAIN hist[c] : hist[c][v].text = x

SavedIsPublished ==
    \A k \in Keys : Saved(k) =>
        sent[k] # None /\ (sent[k].action # "erase" => Published(sent[k].text))
ClosedIsEmpty ==
    \A t \in Tabs : \A b \in AllBoxes : drafts[t][b].open \/ drafts[t][b].text = 0
NothingLost ==
    \A x \in 1 .. nextText - 1 :
        x \in discarded \/ Published(x) \/ \E t \in Tabs : \E b \in AllBoxes : drafts[t][b].text = x

Kept == SavedIsPublished /\ ClosedIsEmpty /\ NothingLost

(* Histories only grow.                                                    *)
LEMMA HistoryGrows ==
    ASSUME Typed, [Next]_vars
    PROVE  \A c \in Comments : Extended(c)
PROOF
<1>1. CASE UNCHANGED hist
  BY <1>1 DEF Extended
<1>2. ASSUME NEW d \in Comments, Changed(d) PROVE \A c \in Comments : Extended(c)
  BY <1>2 DEF Changed, Extended
<1>3. ASSUME NEW k \in Keys, NEW d \in Comments, Begun(k, d)
      PROVE  \A c \in Comments : Extended(c)
  <2>1. sent[k] # None /\ hist[d] \in Seq(Version)
    BY <1>3 DEF Begun, Creation, Typed, ServerTyped
  <2>2. [live |-> TRUE, text |-> sent[k].text] \in Version
    BY <2>1, SentParts DEF Typed, Version
  <2>3. Extended(d)
    BY <1>3, <2>1, <2>2, VersionsKept DEF Begun, Extended
  <2> QED
    BY <1>3, <2>3 DEF Begun, Extended
<1> QED
  BY <1>1, <1>2, <1>3, HistoryStep

(* What was published stays so.                                            *)
LEMMA PublishedStays ==
    ASSUME Typed, [Next]_vars
    PROVE  \A x : Published(x) => Published(x)'
PROOF
<1>1. \A c \in Comments : Extended(c)
  BY HistoryGrows
<1> QED
  BY <1>1 DEF Published, Extended

(* A commit that records a contribution has published its text.            *)
LEMMA CommitPublishes ==
    ASSUME Typed, [Next]_vars, NEW k \in Keys, Commit(k), mutations[k] = 0, mutations'[k] # 0,
           sent[k].action # "erase"
    PROVE  Published(sent[k].text)'
PROOF
<1>1. sent[k] # None
  BY DEF Commit, Holds
<1>2. /\ sent[k].action # "comment" => sent[k].target \in Comments
      /\ sent[k].text \in 0 .. MaxTexts
  BY <1>1, SentParts DEF Typed
<1>3. [live |-> TRUE, text |-> sent[k].text] \in Version
  BY <1>2 DEF Version
<1>4. ASSUME NEW c \in Comments, AddVersion(c, [live |-> TRUE, text |-> sent[k].text])
      PROVE  Published(sent[k].text)'
  <2> DEFINE new == [live |-> TRUE, text |-> sent[k].text]
  <2>1. hist'[c] = hist[c] \o <<new>> /\ hist[c] \in Seq(Version)
    BY <1>4 DEF AddVersion, Typed, ServerTyped
  <2>2. Len(hist[c]) + 1 \in DOMAIN hist'[c] /\ hist'[c][Len(hist[c]) + 1] = new
    BY <1>3, <2>1, VersionsKept
  <2>3. \E v \in DOMAIN hist'[c] : hist'[c][v].text = sent[k].text
    BY <2>2
  <2>4. sent' = sent
    BY DEF Commit
  <2> QED
    BY <2>3, <2>4 DEF Published
<1>5. CASE sent[k].action \in {"comment", "reply"} /\ Create(k)
  <2>1. \E c \in Comments : AddVersion(c, [live |-> TRUE, text |-> sent[k].text])
    BY <1>5 DEF Create, Refuse
  <2> QED
    BY <1>4, <2>1
<1>6. CASE sent[k].action = "edit" /\ Edit(k)
  <2>1. sent[k].target \in Comments /\ Live(sent[k].target)
    BY <1>2, <1>6 DEF Edit, Refuse
  <2>2. CASE AddVersion(sent[k].target, [live |-> TRUE, text |-> sent[k].text])
    BY <1>4, <2>1, <2>2
  <2>3. CASE sent[k].text = hist[sent[k].target][Latest(sent[k].target)].text
    <3>1. hist[sent[k].target] \in Seq(Version) /\ hist[sent[k].target] # <<>>
      BY <2>1 DEF Typed, ServerTyped, Live, Exists
    <3>2. Latest(sent[k].target) \in DOMAIN hist[sent[k].target]
      BY <3>1, LenProperties, EmptySeq DEF Latest
    <3>3. Published(sent[k].text)
      BY <2>1, <2>3, <3>2 DEF Published
    <3>4. sent' = sent
      BY DEF Commit
    <3> QED
      BY <3>3, <3>4, PublishedStays
  <2> QED
    BY <1>6, <2>2, <2>3 DEF Edit, Refuse
<1> QED
  BY <1>1, <1>5, <1>6, SentParts DEF Commit, Replay, Typed

(* Only its own commit records what became of a request.                   *)
LEMMA CommitRecords ==
    ASSUME NEW k \in Keys, Typed, [Next]_vars
    PROVE  mutations[k] = 0 /\ mutations'[k] # 0 /\ mutations'[k] # Fence => Commit(k)
PROOF
<1>1. ASSUME NEW j \in Keys, Commit(j)
      PROVE  mutations[k] = 0 /\ mutations'[k] # 0 /\ mutations'[k] # Fence => Commit(k)
  <2>1. \/ UNCHANGED mutations
        \/ \E c : mutations' = [mutations EXCEPT ![j] = c]
    BY <1>1 DEF Commit, Replay, Create, Edit, Erase, Refuse, Record
  <2> QED
    BY <1>1, <2>1 DEF Typed, ServerTyped
<1>2. ASSUME NEW j \in Keys, RequestStatus(j)
      PROVE  mutations[k] = 0 /\ mutations'[k] # 0 /\ mutations'[k] # Fence => Commit(k)
  BY <1>2 DEF RequestStatus, Typed, ServerTyped
<1>3. ASSUME NEW t \in Tabs,
             \/ Load(t) \/ LoadEnds(t) \/ LoadFails(t) \/ CloseDialog(t)
             \/ Confirm(t) \/ ConfirmAnswered(t) \/ ConfirmUnknown(t) \/ DialogRefreshed(t)
             \/ DialogRefreshFails(t) \/ Leave(t)
      PROVE  mutations[k] = 0 /\ mutations'[k] # 0 /\ mutations'[k] # Fence => Commit(k)
  BY <1>3 DEF Load, LoadEnds, LoadFails, CloseDialog, Confirm, ConfirmAnswered,
     ConfirmUnknown, DialogRefreshed, DialogRefreshFails, Leave, server
<1>4. ASSUME NEW t \in Tabs, NEW b \in Boxes[t],
             \/ OpenBox(t, b) \/ Write(t, b) \/ CancelBox(t, b) \/ Submit(t, b)
             \/ SubmitAnswered(t, b) \/ SubmitUnknown(t, b) \/ Check(t, b) \/ CheckAnswered(t, b)
             \/ CheckUnknown(t, b) \/ TargetChecked(t, b)
      PROVE  mutations[k] = 0 /\ mutations'[k] # 0 /\ mutations'[k] # Fence => Commit(k)
  BY <1>4 DEF OpenBox, Write, CancelBox, Submit, SubmitAnswered, SubmitUnknown, Check,
     CheckAnswered, CheckUnknown, TargetChecked, server
<1>5. ASSUME NEW t \in Tabs, NEW c \in Comments,
             OpenDialog(t, c)
      PROVE  mutations[k] = 0 /\ mutations'[k] # 0 /\ mutations'[k] # Fence => Commit(k)
  BY <1>5 DEF OpenDialog, server
<1>6. ASSUME NEW j \in Keys,
             Begin(j)
      PROVE  mutations[k] = 0 /\ mutations'[k] # 0 /\ mutations'[k] # Fence => Commit(k)
  BY <1>6 DEF Begin, server
<1>7. CASE UNCHANGED vars
  BY <1>7 DEF vars, server, net, tabs, past
<1> QED
  BY <1>1, <1>2, <1>3, <1>4, <1>5, <1>6, <1>7
  DEF Next, TabNext, ServerNext

(* A request that did not change stays published.                          *)
LEMMA PublishedSame ==
    ASSUME Typed, [Next]_vars, NEW k \in Keys, sent'[k] = sent[k], Published(sent[k].text)
    PROVE  Published(sent[k].text)'
PROOF
<1>1. PICK c \in Comments : \E v \in DOMAIN hist[c] : hist[c][v].text = sent[k].text
  BY DEF Published
<1>2. PICK v \in DOMAIN hist[c] : hist[c][v].text = sent[k].text
  BY <1>1
<1>3. v \in DOMAIN hist'[c] /\ hist'[c][v].text = sent'[k].text
  BY <1>2, HistoryGrows DEF Extended
<1> QED
  BY <1>3 DEF Published

(* A saved request stays published.                                        *)
LEMMA SavedIsPublishedStep ==
    ASSUME Typed, Known, SavedIsPublished, [Next]_vars
    PROVE  SavedIsPublished'
PROOF
<1>1. SentKept /\ ResultsKept /\ \A x : Published(x) => Published(x)'
  BY SentStays, ResultsStay, PublishedStays
<1>2. ASSUME NEW k \in Keys, Saved(k)'
      PROVE  sent'[k] # None /\ (sent'[k].action # "erase" => Published(sent[k].text)')
  <2>1. CASE Saved(k)
    <3>1. sent[k] # None /\ (sent[k].action # "erase" => Published(sent[k].text))
      BY <2>1 DEF SavedIsPublished
    <3>2. sent'[k] # None /\ (sent'[k].action # "erase" => sent'[k] = sent[k])
      BY <1>1, <3>1 DEF SentKept
    <3>3. sent'[k].action # "erase" => Published(sent[k].text)'
      BY <3>1, <3>2, PublishedSame
    <3> QED
      BY <3>2, <3>3
  <2>2. CASE ~Saved(k)
    <3>1. mutations[k] = 0 /\ mutations'[k] # 0 /\ mutations'[k] # Fence
      BY <1>1, <1>2, <2>2, BoundsAssumption DEF ResultsKept, Saved, Comments, Fence
    <3>2. Commit(k)
      BY <3>1, CommitRecords
    <3>3. sent[k] # None /\ sent' = sent
      BY <3>2 DEF Commit, Holds
    <3> QED
      BY <3>1, <3>2, <3>3, CommitPublishes
  <2> QED
    BY <2>1, <2>2
<1> QED
  BY <1>2 DEF SavedIsPublished

(* A composer that changes leaves its text somewhere.                      *)
LEMMA TextKept ==
    ASSUME Typed, [Next]_vars, ClosedIsEmpty, NothingLost, NEW t \in Tabs, NEW b \in AllBoxes,
           NEW d, SetDraft(t, b, d), discarded \subseteq discarded', nextText' = nextText,
           \/ d.open = drafts[t][b].open /\ d.text = drafts[t][b].text
           \/ /\ d.open \/ d.text = 0
              /\ \/ drafts[t][b].text = 0
                 \/ drafts[t][b].text \in discarded'
                 \/ Published(drafts[t][b].text)
    PROVE  ClosedIsEmpty' /\ NothingLost'
PROOF
<1>1. /\ \A u \in Tabs : \A c \in AllBoxes : (u # t \/ c # b) => drafts'[u][c] = drafts[u][c]
      /\ drafts'[t][b] = d
  BY DEF SetDraft, Typed, BoxTyped
<1>2. \A x : Published(x) => Published(x)'
  BY PublishedStays
<1>3. ClosedIsEmpty'
  BY <1>1 DEF ClosedIsEmpty
<1>4. ASSUME NEW x \in 1 .. nextText - 1
      PROVE  x \in discarded' \/ Published(x)'
             \/ \E u \in Tabs : \E c \in AllBoxes : drafts'[u][c].text = x
  <2>1. CASE x \in discarded \/ Published(x)
    BY <1>2, <2>1
  <2>2. ASSUME NEW u \in Tabs, NEW c \in AllBoxes, drafts[u][c].text = x
        PROVE  x \in discarded' \/ Published(x)'
               \/ \E w \in Tabs : \E e \in AllBoxes : drafts'[w][e].text = x
    <3>1. CASE u # t \/ c # b
      BY <1>1, <2>2, <3>1
    <3>2. CASE u = t /\ c = b
      <4>1. x # 0
        BY DEF Typed, PastTyped
      <4>2. d.text = x \/ x \in discarded' \/ Published(x)
        BY <2>2, <3>2, <4>1
      <4> QED
        BY <1>1, <1>2, <4>2
    <3> QED
      BY <3>1, <3>2
  <2> QED
    BY <2>1, <2>2 DEF NothingLost
<1>5. NothingLost'
  BY <1>4 DEF NothingLost
<1> QED
  BY <1>3, <1>5

(* Nothing is lost where no composer changes.                              *)
LEMMA TextsStill ==
    ASSUME Typed, [Next]_vars, ClosedIsEmpty, NothingLost,
           drafts' = drafts, discarded \subseteq discarded', nextText' = nextText
    PROVE  ClosedIsEmpty' /\ NothingLost'
PROOF
<1>1. \A x : Published(x) => Published(x)'
  BY PublishedStays
<1> QED
  BY <1>1 DEF ClosedIsEmpty, NothingLost

(* No step loses what a reader wrote.                                      *)
LEMMA NothingLostStep ==
    ASSUME Typed, Known, Reported, Kept, [Next]_vars
    PROVE  ClosedIsEmpty' /\ NothingLost'
PROOF
<1>0. SavedIsPublished /\ ClosedIsEmpty /\ NothingLost
  BY DEF Kept
<1>1. ASSUME NEW t \in Tabs, NEW b \in Boxes[t], OpenBox(t, b)
      PROVE  ClosedIsEmpty' /\ NothingLost'
  <2>0. b \in AllBoxes
    BY BoxParts
  <2>1. drafts[t][b] \in Drafts
    BY <2>0 DEF Typed, BoxTyped
  <2>2. /\ SetDraft(t, b, Opened(t, b))
        /\ nextText' = nextText /\ discarded \subseteq discarded'
    BY <1>1 DEF OpenBox, past, Opened
  <2>3. Opened(t, b).open
    BY DEF EmptyDraft, NoDraft, Opened
  <2>4. drafts[t][b].text = 0
    BY <1>0, <1>1, <2>0 DEF OpenBox, ClosedIsEmpty
  <2>5. PICK d : SetDraft(t, b, d) /\ d.open
    BY <2>2, <2>3
  <2> QED
    BY <2>0, <2>2, <2>4, <2>5, <1>0, TextKept
<1>2. ASSUME NEW t \in Tabs, NEW b \in Boxes[t], Write(t, b)
      PROVE  ClosedIsEmpty' /\ NothingLost'
  <2>0. b \in AllBoxes
    BY BoxParts
  <2>1. drafts[t][b] \in Drafts
    BY <2>0 DEF Typed, BoxTyped
  <2>2. /\ SetDraft(t, b, [drafts[t][b] EXCEPT !.text = nextText])
        /\ nextText' = nextText + 1 /\ nextText \in Nat /\ drafts[t][b].open
        /\ discarded' = discarded \cup ({drafts[t][b].text} \ {0})
    BY <1>2, BoundsAssumption DEF Write, Typed, PastTyped
  <2>3. [drafts[t][b] EXCEPT !.text = nextText].text = nextText
    BY <2>1 DEF Drafts
  <2>4. [drafts[t][b] EXCEPT !.text = nextText].open = drafts[t][b].open
    BY <2>1 DEF Drafts
  <2>5. /\ \A u \in Tabs : \A c \in AllBoxes : (u # t \/ c # b) => drafts'[u][c] = drafts[u][c]
        /\ drafts'[t][b].text = nextText /\ drafts'[t][b].open
    BY <2>0, <2>2, <2>3, <2>4 DEF SetDraft, Typed, BoxTyped
  <2>6. ClosedIsEmpty'
    BY <1>0, <2>5 DEF ClosedIsEmpty
  <2>7. \A x : Published(x) => Published(x)'
    BY PublishedStays
  <2>8. ASSUME NEW x \in 1 .. nextText' - 1
        PROVE  x \in discarded' \/ Published(x)'
               \/ \E u \in Tabs : \E c \in AllBoxes : drafts'[u][c].text = x
    <3>1. CASE x = nextText
      BY <2>0, <2>5, <3>1
    <3>2. CASE x # nextText
      <4>1. x \in 1 .. nextText - 1 /\ x # 0
        BY <2>2, <3>2
      <4>2. CASE x \in discarded \/ Published(x)
        BY <2>2, <2>7, <4>2
      <4>3. ASSUME NEW u \in Tabs, NEW c \in AllBoxes, drafts[u][c].text = x
            PROVE  x \in discarded' \/ \E w \in Tabs : \E e \in AllBoxes : drafts'[w][e].text = x
        BY <2>2, <2>5, <4>1, <4>3
      <4> QED
        BY <1>0, <4>1, <4>2, <4>3 DEF NothingLost
    <3> QED
      BY <3>1, <3>2
  <2>9. NothingLost'
    BY <1>0, <2>8 DEF NothingLost
  <2> QED
    BY <2>6, <2>9
<1>3. ASSUME NEW t \in Tabs, NEW b \in Boxes[t], CancelBox(t, b)
      PROVE  ClosedIsEmpty' /\ NothingLost'
  <2>0. b \in AllBoxes
    BY BoxParts
  <2>1. drafts[t][b] \in Drafts
    BY <2>0 DEF Typed, BoxTyped
  <2>2. /\ SetDraft(t, b, NoDraft)
        /\ nextText' = nextText /\ discarded \subseteq discarded'
    BY <1>3 DEF CancelBox, past
  <2>3. NoDraft.text = 0
    BY DEF NoDraft
  <2>4. drafts[t][b].text = 0 \/ drafts[t][b].text \in discarded'
    BY <1>3 DEF CancelBox
  <2> QED
    BY <2>0, <2>2, <2>3, <2>4, <1>0, TextKept
<1>4. ASSUME NEW t \in Tabs, NEW b \in Boxes[t], Submit(t, b)
      PROVE  ClosedIsEmpty' /\ NothingLost'
  <2>0. b \in AllBoxes
    BY BoxParts
  <2>1. drafts[t][b] \in Drafts
    BY <2>0 DEF Typed, BoxTyped
  <2>2. /\ SetDraft(t, b, [drafts[t][b] EXCEPT !.phase = "sending", !.key = nextKey])
        /\ nextText' = nextText /\ discarded \subseteq discarded'
    BY <1>4 DEF Submit, past
  <2>3. [drafts[t][b] EXCEPT !.phase = "sending", !.key = nextKey].open = drafts[t][b].open
    BY <2>1 DEF Drafts
  <2>4. [drafts[t][b] EXCEPT !.phase = "sending", !.key = nextKey].text = drafts[t][b].text
    BY <2>1 DEF Drafts
  <2> QED
    BY <2>0, <2>2, <2>3, <2>4, <1>0, TextKept
<1>5. ASSUME NEW t \in Tabs, NEW b \in Boxes[t], SubmitAnswered(t, b)
      PROVE  ClosedIsEmpty' /\ NothingLost'
  <2>0. b \in AllBoxes
    BY BoxParts
  <2>1. drafts[t][b] \in Drafts
    BY <2>0 DEF Typed, BoxTyped
  <2>2. nextText' = nextText /\ discarded \subseteq discarded'
    BY <1>5 DEF SubmitAnswered
  <2>3. PICK a, d :
          /\ a \in AnswerFor(t, b, "write")
          /\ SetDraft(t, b, d)
          /\ \/ d \in {NoDraft, EmptyDraft} /\ a.ok
                    /\ drafts[t][b].text = sent[drafts[t][b].key].text
             \/ d \in {[drafts[t][b] EXCEPT !.phase = "idle", !.key = 0], [drafts[t][b] EXCEPT !.phase = "refused"]}
    BY <1>5 DEF SubmitAnswered, Finish
  <2>4. /\ [drafts[t][b] EXCEPT !.phase = "idle", !.key = 0].open = drafts[t][b].open
        /\ [drafts[t][b] EXCEPT !.phase = "idle", !.key = 0].text = drafts[t][b].text
        /\ [drafts[t][b] EXCEPT !.phase = "refused"].open = drafts[t][b].open
        /\ [drafts[t][b] EXCEPT !.phase = "refused"].text = drafts[t][b].text
        /\ NoDraft.text = 0 /\ EmptyDraft.text = 0
    BY <2>1 DEF Drafts, NoDraft, EmptyDraft
  <2>5. CASE d \in {[drafts[t][b] EXCEPT !.phase = "idle", !.key = 0], [drafts[t][b] EXCEPT !.phase = "refused"]}
    <3>1. d.open = drafts[t][b].open /\ d.text = drafts[t][b].text
      BY <2>4, <2>5
    <3> QED
      BY <2>0, <2>2, <2>3, <3>1, <1>0, TextKept
  <2>6. CASE d \in {NoDraft, EmptyDraft} /\ a.ok /\ drafts[t][b].text = sent[drafts[t][b].key].text
    <3>1. drafts[t][b].phase # "idle"
      BY <1>5 DEF SubmitAnswered
    <3>2. sent[drafts[t][b].key].action = b[1] /\ b[1] # "erase"
      BY <2>0, <3>1, BoxParts DEF Known, Asked
    <3>3. a \in answers /\ a.key = drafts[t][b].key
      BY <2>3 DEF AnswerFor
    <3>4. a.key \in Keys
      BY <3>3 DEF Typed, NetTyped, Answers
    <3>5. Saved(drafts[t][b].key)
      BY <2>6, <3>3 DEF Reported
    <3>6. Published(drafts[t][b].text)
      BY <2>6, <3>2, <3>3, <3>4, <3>5, <1>0 DEF SavedIsPublished
    <3>7. d.text = 0
      BY <2>4, <2>6
    <3> QED
      BY <2>0, <2>2, <2>3, <3>6, <3>7, <1>0, TextKept
  <2> QED
    BY <2>3, <2>5, <2>6
<1>6. ASSUME NEW t \in Tabs, NEW b \in Boxes[t], SubmitUnknown(t, b)
      PROVE  ClosedIsEmpty' /\ NothingLost'
  <2>0. b \in AllBoxes
    BY BoxParts
  <2>1. drafts[t][b] \in Drafts
    BY <2>0 DEF Typed, BoxTyped
  <2>2. /\ SetDraft(t, b, [drafts[t][b] EXCEPT !.phase = "unknown"])
        /\ nextText' = nextText /\ discarded \subseteq discarded'
    BY <1>6 DEF SubmitUnknown, past
  <2>3. [drafts[t][b] EXCEPT !.phase = "unknown"].open = drafts[t][b].open
    BY <2>1 DEF Drafts
  <2>4. [drafts[t][b] EXCEPT !.phase = "unknown"].text = drafts[t][b].text
    BY <2>1 DEF Drafts
  <2> QED
    BY <2>0, <2>2, <2>3, <2>4, <1>0, TextKept
<1>7. ASSUME NEW t \in Tabs, NEW b \in Boxes[t], Check(t, b)
      PROVE  ClosedIsEmpty' /\ NothingLost'
  <2>0. b \in AllBoxes
    BY BoxParts
  <2>1. drafts[t][b] \in Drafts
    BY <2>0 DEF Typed, BoxTyped
  <2>2. /\ SetDraft(t, b, [drafts[t][b] EXCEPT !.phase = "checking"])
        /\ nextText' = nextText /\ discarded \subseteq discarded'
    BY <1>7 DEF Check, past
  <2>3. [drafts[t][b] EXCEPT !.phase = "checking"].open = drafts[t][b].open
    BY <2>1 DEF Drafts
  <2>4. [drafts[t][b] EXCEPT !.phase = "checking"].text = drafts[t][b].text
    BY <2>1 DEF Drafts
  <2> QED
    BY <2>0, <2>2, <2>3, <2>4, <1>0, TextKept
<1>8. ASSUME NEW t \in Tabs, NEW b \in Boxes[t], CheckAnswered(t, b)
      PROVE  ClosedIsEmpty' /\ NothingLost'
  <2>0. b \in AllBoxes
    BY BoxParts
  <2>1. drafts[t][b] \in Drafts
    BY <2>0 DEF Typed, BoxTyped
  <2>2. nextText' = nextText /\ discarded \subseteq discarded'
    BY <1>8 DEF CheckAnswered
  <2>3. PICK a, d :
          /\ a \in AnswerFor(t, b, "check")
          /\ SetDraft(t, b, d)
          /\ \/ d \in {NoDraft, EmptyDraft} /\ a.ok
                    /\ drafts[t][b].text = sent[drafts[t][b].key].text
             \/ d \in {[drafts[t][b] EXCEPT !.phase = "idle", !.key = 0], [drafts[t][b] EXCEPT !.phase = "unsaved"]}
    BY <1>8 DEF CheckAnswered, Finish
  <2>4. /\ [drafts[t][b] EXCEPT !.phase = "idle", !.key = 0].open = drafts[t][b].open
        /\ [drafts[t][b] EXCEPT !.phase = "idle", !.key = 0].text = drafts[t][b].text
        /\ [drafts[t][b] EXCEPT !.phase = "unsaved"].open = drafts[t][b].open
        /\ [drafts[t][b] EXCEPT !.phase = "unsaved"].text = drafts[t][b].text
        /\ NoDraft.text = 0 /\ EmptyDraft.text = 0
    BY <2>1 DEF Drafts, NoDraft, EmptyDraft
  <2>5. CASE d \in {[drafts[t][b] EXCEPT !.phase = "idle", !.key = 0], [drafts[t][b] EXCEPT !.phase = "unsaved"]}
    <3>1. d.open = drafts[t][b].open /\ d.text = drafts[t][b].text
      BY <2>4, <2>5
    <3> QED
      BY <2>0, <2>2, <2>3, <3>1, <1>0, TextKept
  <2>6. CASE d \in {NoDraft, EmptyDraft} /\ a.ok /\ drafts[t][b].text = sent[drafts[t][b].key].text
    <3>1. drafts[t][b].phase # "idle"
      BY <1>8 DEF CheckAnswered
    <3>2. sent[drafts[t][b].key].action = b[1] /\ b[1] # "erase"
      BY <2>0, <3>1, BoxParts DEF Known, Asked
    <3>3. a \in answers /\ a.key = drafts[t][b].key
      BY <2>3 DEF AnswerFor
    <3>4. a.key \in Keys
      BY <3>3 DEF Typed, NetTyped, Answers
    <3>5. Saved(drafts[t][b].key)
      BY <2>6, <3>3 DEF Reported
    <3>6. Published(drafts[t][b].text)
      BY <2>6, <3>2, <3>3, <3>4, <3>5, <1>0 DEF SavedIsPublished
    <3>7. d.text = 0
      BY <2>4, <2>6
    <3> QED
      BY <2>0, <2>2, <2>3, <3>6, <3>7, <1>0, TextKept
  <2> QED
    BY <2>3, <2>5, <2>6
<1>9. ASSUME NEW t \in Tabs, NEW b \in Boxes[t], CheckUnknown(t, b)
      PROVE  ClosedIsEmpty' /\ NothingLost'
  <2>0. b \in AllBoxes
    BY BoxParts
  <2>1. drafts[t][b] \in Drafts
    BY <2>0 DEF Typed, BoxTyped
  <2>2. /\ SetDraft(t, b, [drafts[t][b] EXCEPT !.phase = "unknown"])
        /\ nextText' = nextText /\ discarded \subseteq discarded'
    BY <1>9 DEF CheckUnknown, past
  <2>3. [drafts[t][b] EXCEPT !.phase = "unknown"].open = drafts[t][b].open
    BY <2>1 DEF Drafts
  <2>4. [drafts[t][b] EXCEPT !.phase = "unknown"].text = drafts[t][b].text
    BY <2>1 DEF Drafts
  <2> QED
    BY <2>0, <2>2, <2>3, <2>4, <1>0, TextKept
<1>10. ASSUME NEW t \in Tabs, NEW b \in Boxes[t], TargetChecked(t, b)
       PROVE  ClosedIsEmpty' /\ NothingLost'
  <2>0. b \in AllBoxes
    BY BoxParts
  <2>1. drafts[t][b] \in Drafts
    BY <2>0 DEF Typed, BoxTyped
  <2>2. PICK g : SetDraft(t, b, [drafts[t][b] EXCEPT !.phase = "idle", !.key = 0, !.gone = g])
    BY <1>10 DEF TargetChecked
  <2>3. /\ [drafts[t][b] EXCEPT !.phase = "idle", !.key = 0, !.gone = g].open = drafts[t][b].open
        /\ [drafts[t][b] EXCEPT !.phase = "idle", !.key = 0, !.gone = g].text = drafts[t][b].text
    BY <2>1 DEF Drafts
  <2>4. nextText' = nextText /\ discarded \subseteq discarded'
    BY <1>10 DEF TargetChecked
  <2>5. PICK d : SetDraft(t, b, d) /\ d.open = drafts[t][b].open /\ d.text = drafts[t][b].text
    BY <2>2, <2>3
  <2> QED
    BY <2>0, <2>4, <2>5, <1>0, TextKept
<1>11. ASSUME NEW t \in Tabs, Leave(t) PROVE ClosedIsEmpty' /\ NothingLost'
  <2>1. /\ \A u \in Tabs : \A c \in AllBoxes : u # t => drafts'[u][c] = drafts[u][c]
        /\ \A c \in AllBoxes : drafts'[t][c] = EmptyDraft \/ drafts'[t][c] = NoDraft
    BY <1>11 DEF Leave, Typed, BoxTyped
  <2>2. NoDraft.text = 0 /\ EmptyDraft.text = 0
    BY DEF NoDraft, EmptyDraft
  <2>3. /\ nextText' = nextText
        /\ discarded' = discarded \cup ({drafts[t][c].text : c \in AllBoxes} \ {0})
    BY <1>11 DEF Leave
  <2>4. ClosedIsEmpty'
    BY <1>0, <2>1, <2>2 DEF ClosedIsEmpty
  <2>5. \A x : Published(x) => Published(x)'
    BY PublishedStays
  <2>6. ASSUME NEW x \in 1 .. nextText - 1
        PROVE  x \in discarded' \/ Published(x)'
               \/ \E u \in Tabs : \E c \in AllBoxes : drafts'[u][c].text = x
    <3>1. x # 0
      BY DEF Typed, PastTyped
    <3>2. CASE x \in discarded \/ Published(x)
      BY <2>3, <2>5, <3>2
    <3>3. ASSUME NEW u \in Tabs, NEW c \in AllBoxes, drafts[u][c].text = x
          PROVE  x \in discarded' \/ \E w \in Tabs : \E e \in AllBoxes : drafts'[w][e].text = x
      <4>1. CASE u = t
        BY <2>3, <3>1, <3>3, <4>1
      <4>2. CASE u # t
        BY <2>1, <3>3, <4>2
      <4> QED
        BY <4>1, <4>2
    <3> QED
      BY <1>0, <3>2, <3>3 DEF NothingLost
  <2>7. NothingLost'
    BY <1>0, <2>3, <2>6 DEF NothingLost
  <2> QED
    BY <2>4, <2>7
<1>12. ASSUME NEW t \in Tabs,
             \/ Load(t) \/ LoadEnds(t) \/ LoadFails(t) \/ CloseDialog(t)
             \/ Confirm(t) \/ ConfirmAnswered(t) \/ ConfirmUnknown(t) \/ DialogRefreshed(t)
             \/ DialogRefreshFails(t)
      PROVE  ClosedIsEmpty' /\ NothingLost'
  BY <1>12, <1>0, TextsStill DEF Load, LoadEnds, LoadFails, CloseDialog, Confirm,
     ConfirmAnswered, ConfirmUnknown, DialogRefreshed, DialogRefreshFails, tabs, past
<1>13. ASSUME NEW t \in Tabs, NEW c \in Comments,
             OpenDialog(t, c)
      PROVE  ClosedIsEmpty' /\ NothingLost'
  BY <1>13, <1>0, TextsStill DEF OpenDialog, tabs, past
<1>14. ASSUME NEW k \in Keys,
             \/ Begin(k) \/ Commit(k) \/ RequestStatus(k)
      PROVE  ClosedIsEmpty' /\ NothingLost'
  BY <1>14, <1>0, TextsStill DEF Begin, Commit, RequestStatus, tabs, past
<1>15. CASE UNCHANGED vars
  BY <1>0, TextsStill, <1>15 DEF vars, server, net, tabs, past
<1> QED
  BY <1>1, <1>2, <1>3, <1>4, <1>5, <1>6, <1>7, <1>8, <1>9, <1>10, <1>11, <1>12, <1>13,
     <1>14, <1>15
  DEF Next, TabNext, ServerNext

(* No text a reader wrote is lost: it is in a draft, was published, or was *)
(* given up by the reader.                                                 *)
THEOREM NoDraftIsLost == Spec => []DraftsAreKept
PROOF
<1>1. Init => Kept
  <2> SUFFICES ASSUME Init PROVE Kept
    OBVIOUS
  <2>1. SavedIsPublished
    BY DEF Init, SavedIsPublished, Saved, Comments
  <2>2. ClosedIsEmpty
    <3>1. NoDraft.text = 0 /\ EmptyDraft.text = 0
      BY DEF NoDraft, EmptyDraft
    <3>2. \A t \in Tabs : \A b \in AllBoxes : drafts[t][b] \in {EmptyDraft, NoDraft}
      BY DEF Init
    <3> QED
      BY <3>1, <3>2 DEF ClosedIsEmpty
  <2>3. hist[1] = <<[live |-> TRUE, text |-> 1]>> /\ 1 \in Comments
    <3>1. 1 \in Comments
      BY BoundsAssumption DEF Comments
    <3>2. hist = [c \in Comments |->
                    IF c = 1 THEN <<[live |-> TRUE, text |-> 1]>> ELSE <<>>]
      BY DEF Init
    <3> QED
      BY <3>1, <3>2, Zenon
  <2>4. 1 \in DOMAIN hist[1] /\ hist[1][1].text = 1
    BY <2>3
  <2>5. Published(1)
    BY <2>3, <2>4 DEF Published
  <2>6. \A x \in 1 .. nextText - 1 : x = 1
    BY DEF Init
  <2> QED
    BY <2>1, <2>2, <2>5, <2>6 DEF Kept, NothingLost
<1>2. ASSUME Inv, Kept, [Next]_vars PROVE Kept'
  BY <1>2, SavedIsPublishedStep, NothingLostStep DEF Inv, Kept
<1>3. Kept => DraftsAreKept
  <2>1. \A x : Published(x) => Publications(x) # {}
    <3> SUFFICES ASSUME NEW x, NEW c \in Comments, NEW v \in DOMAIN hist[c], hist[c][v].text = x
                 PROVE  Publications(x) # {}
      BY DEF Published
    <3>1. <<c, v>> \in Versions
      BY DEF Versions
    <3>2. <<c, v>> \in Publications(x)
      BY <3>1 DEF Publications
    <3> QED
      BY <3>2
  <2> QED
    BY <2>1 DEF Kept, NothingLost, DraftsAreKept
<1> QED
  BY <1>1, <1>2, <1>3, InvHolds, PTL DEF Spec
=============================================================================
