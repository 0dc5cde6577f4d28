--------------------------- MODULE BookmarksProofs ---------------------------
(***************************************************************************)
(* Setting the tags of bookmarks implements Labels, blocked URLs are kept  *)
(* out, turning the pages shows every bookmark and the tables hold what    *)
(* they should: for any users, URLs, requests and number of requests at a  *)
(* time.                                                                   *)
(***************************************************************************)
EXTENDS Bookmarks, SequenceTheorems, TLAPS

Busy(s) == call[s] \in Calls /\ item[s] \in 1 .. Len(call[s].items)

\* A request that is not idle is at an entry of its call, and only requests that
\* are setting tags are alone in it.
RequestInv ==
  /\ pc \in [Slots -> Points]
  /\ call \in [Slots -> Calls \cup {NoCall}] /\ item \in [Slots -> Nat]
  /\ names \in [Slots -> Seq(Names)]
  /\ \A s \in Slots : ~At(s, "idle") => Busy(s)
  /\ \A s \in alone : s \in Slots /\ At(s, "tag")

\* What a step of s leaves alone.
OthersKept(s) ==
  \A t \in Slots \ {s} :
    /\ pc'[t] = pc[t] /\ call'[t] = call[t] /\ item'[t] = item[t]
    /\ names'[t] = names[t]

\* A step of s that has nothing to do with tags.
Quiet(s) ==
  /\ ~At(s, "tag") /\ pc'[s] # "tag" /\ OthersKept(s)
  /\ UNCHANGED <<url_tags, settled, alone>>

LEMMA RequestInit == Init => RequestInv
  BY DEF Init, RequestInv, At, Points

LEMMA BusyFacts ==
  ASSUME RequestInv, NEW s \in Slots, ~At(s, "idle")
  PROVE  /\ call[s] \in Calls /\ item[s] \in 1 .. Len(call[s].items)
         /\ User(s) \in Users /\ Url(s) \in Urls /\ Mark(s) \in Users \X Urls
         /\ call[s].via \in Vias
         /\ ToSet(names[s]) \in SUBSET Names
  BY BookmarksAssumption DEF RequestInv, Busy, User, Url, Mark, ToSet

LEMMA ReachFacts ==
  ASSUME RequestInv, NEW s \in Slots, NEW c \in Calls, NEW i \in 1 .. Len(c.items),
         Reach(s, c, i), \A t \in alone' : t \in alone /\ t # s
  PROVE  RequestInv' /\ pc'[s] # "tag" /\ OthersKept(s)
<1>1. First(c) \in {"check", "owner"}
  BY DEF First
<1>2. Given(c, i) \in Seq(Names)
  BY TagsAreNames
<1>3. i \in Nat
  OBVIOUS
<1>4. pc' \in [Slots -> Points] /\ pc'[s] \in {"check", "owner"}
  BY <1>1 DEF Reach, GoTo, RequestInv, Points
<1>5. call' \in [Slots -> Calls \cup {NoCall}] /\ item' \in [Slots -> Nat]
  BY <1>3 DEF Reach, RequestInv
<1>6. names' \in [Slots -> Seq(Names)]
  BY <1>2 DEF Reach, RequestInv
<1>7. OthersKept(s)
  BY DEF Reach, GoTo, RequestInv, OthersKept
<1>8. \A t \in Slots : ~At(t, "idle")' => Busy(t)'
  <2>1. call'[s] = c /\ item'[s] = i
    BY DEF Reach, RequestInv
  <2>2. Busy(s)'
    BY <2>1 DEF Busy
  <2>3. ASSUME NEW t \in Slots \ {s}, ~At(t, "idle")' PROVE Busy(t)'
    BY <1>7, <2>3 DEF RequestInv, OthersKept, Busy, At
  <2> QED BY <2>2, <2>3
<1>9. \A t \in alone' : t \in Slots /\ At(t, "tag")'
  BY <1>7 DEF RequestInv, OthersKept, At
<1> QED BY <1>4, <1>5, <1>6, <1>7, <1>8, <1>9 DEF RequestInv

LEMMA AnswerFacts ==
  ASSUME RequestInv, NEW s \in Slots, Answer(s), \A t \in alone' : t \in alone /\ t # s
  PROVE  RequestInv' /\ pc'[s] # "tag" /\ OthersKept(s)
<1>1. pc' \in [Slots -> Points] /\ pc'[s] = "idle"
  BY DEF Answer, GoTo, RequestInv, Points
<1>2. call' \in [Slots -> Calls \cup {NoCall}] /\ item' \in [Slots -> Nat]
  BY DEF Answer, RequestInv
<1>3. names' \in [Slots -> Seq(Names)]
  <2>1. <<>> \in Seq(Names)
    OBVIOUS
  <2> QED BY <2>1 DEF Answer, RequestInv
<1>4. OthersKept(s)
  BY DEF Answer, GoTo, RequestInv, OthersKept
<1>5. \A t \in Slots : ~At(t, "idle")' => Busy(t)'
  BY <1>1, <1>4 DEF RequestInv, OthersKept, Busy, At
<1>6. \A t \in alone' : t \in Slots /\ At(t, "tag")'
  BY <1>4 DEF RequestInv, OthersKept, At
<1> QED BY <1>1, <1>2, <1>3, <1>4, <1>5, <1>6 DEF RequestInv

LEMMA LeaveFacts ==
  ASSUME RequestInv, NEW s \in Slots, ~At(s, "idle"), Leave(s),
         \A t \in alone' : t \in alone /\ t # s
  PROVE  RequestInv' /\ pc'[s] # "tag" /\ OthersKept(s)
<1>1. CASE item[s] < Len(call[s].items)
  <2>1. call[s] \in Calls /\ item[s] + 1 \in 1 .. Len(call[s].items)
    BY <1>1, BusyFacts, BookmarksAssumption
  <2>2. Reach(s, call[s], item[s] + 1)
    BY <1>1 DEF Leave
  <2> QED BY <2>1, <2>2, ReachFacts
<1>2. CASE ~(item[s] < Len(call[s].items))
  BY <1>2, AnswerFacts DEF Leave
<1> QED BY <1>1, <1>2

\* A step from one statement to another of the same entry.
LEMMA MoveFacts ==
  ASSUME RequestInv, NEW s \in Slots, ~At(s, "idle"), NEW p \in Points, GoTo(s, p),
         UNCHANGED <<call, item>>, names' \in [Slots -> Seq(Names)],
         \A t \in Slots \ {s} : names'[t] = names[t],
         \A t \in alone' : t \in Slots /\ At(t, "tag")'
  PROVE  RequestInv' /\ pc'[s] = p /\ OthersKept(s)
<1>1. pc' \in [Slots -> Points] /\ pc'[s] = p
  BY DEF GoTo, RequestInv
<1>2. OthersKept(s)
  BY DEF GoTo, RequestInv, OthersKept
<1>3. \A t \in Slots : ~At(t, "idle")' => Busy(t)'
  BY <1>2 DEF RequestInv, OthersKept, Busy, At
<1> QED BY <1>1, <1>2, <1>3 DEF RequestInv

-----------------------------------------------------------------------------
\* The steps of a request that have nothing to do with tags.

LEMMA BeginQuiet ==
  ASSUME RequestInv, NEW s \in Slots, NEW c \in Calls, Begin(s, c)
  PROVE  RequestInv' /\ Quiet(s)
<1>1. At(s, "idle") /\ Reach(s, c, 1) /\ alone' = alone
  BY DEF Begin
<1>2. 1 \in 1 .. Len(c.items)
  BY BookmarksAssumption
<1>3. \A t \in alone' : t \in alone /\ t # s
  BY <1>1 DEF RequestInv, At
<1> QED BY <1>1, <1>2, <1>3, ReachFacts DEF Quiet, Begin, At, tables

LEMMA LeaveQuiet ==
  ASSUME RequestInv, NEW s \in Slots, ~At(s, "idle"), ~At(s, "tag"), Leave(s),
         UNCHANGED <<url_tags, settled, alone>>
  PROVE  RequestInv' /\ Quiet(s)
<1>1. \A t \in alone' : t \in alone /\ t # s
  BY DEF RequestInv, At
<1> QED BY <1>1, LeaveFacts DEF Quiet

LEMMA MoveQuiet ==
  ASSUME RequestInv, NEW s \in Slots, ~At(s, "idle"), ~At(s, "tag"),
         NEW p \in Points \ {"tag"}, GoTo(s, p), UNCHANGED <<call, item>>,
         names' \in [Slots -> Seq(Names)],
         \A t \in Slots \ {s} : names'[t] = names[t],
         UNCHANGED <<url_tags, settled, alone>>
  PROVE  RequestInv' /\ Quiet(s)
<1>1. \A t \in alone' : t \in Slots /\ At(t, "tag")'
  BY DEF RequestInv, At, GoTo
<1> QED BY <1>1, MoveFacts DEF Quiet

LEMMA ProceedQuiet ==
  ASSUME RequestInv, NEW s \in Slots, At(s, "check"), NEW answer, Proceed(s, answer),
         UNCHANGED <<url_tags, settled, alone>>
  PROVE  RequestInv' /\ Quiet(s)
<1>1. PICK page \in BOOLEAN :
        names' = IF names[s] = <<>> /\ call[s].via # "import"
                 THEN [names EXCEPT ![s] = FetchTags(Url(s), page)] ELSE names
  BY DEF Proceed
<1>2. Url(s) \in Urls
  BY BusyFacts DEF At
<1>3. FetchTags(Url(s), page) \in Seq(Names)
  BY <1>2, TagsAreNames
<1>4. /\ names' \in [Slots -> Seq(Names)]
      /\ \A t \in Slots \ {s} : names'[t] = names[t]
  BY <1>1, <1>3 DEF RequestInv
<1>5. GoTo(s, "upsert") /\ UNCHANGED <<call, item>>
  BY DEF Proceed
<1>6. "upsert" \in Points \ {"tag"}
  BY DEF Points
<1> QED BY <1>4, <1>5, <1>6, MoveQuiet DEF At

LEMMA QuietSteps ==
  ASSUME RequestInv, NEW s \in Slots,
         \/ Reject(s) \/ Admit(s) \/ CheckFails(s) \/ UpsertURL(s) \/ AddURLToUser(s)
         \/ EnqueueDiscussionJob(s) \/ GetURL(s) \/ SetURLFeedURL(s)
         \/ RequireURLOwner(s) \/ UpdateUserURL(s) \/ RemoveURLFromUser(s)
         \/ StatementFails(s)
  PROVE  RequestInv' /\ Quiet(s)
<1>1. names \in [Slots -> Seq(Names)]
  BY DEF RequestInv
<1>2. CASE Admit(s) \/ CheckFails(s)
  BY <1>2, ProceedQuiet DEF Admit, CheckFails, tables, history
<1>3. CASE UpsertURL(s) \/ AddURLToUser(s) \/ EnqueueDiscussionJob(s)
  <2>1. PICK p \in {"add", "clear", "get"} : GoTo(s, p)
    BY <1>3 DEF UpsertURL, AddURLToUser, EnqueueDiscussionJob
  <2>2. /\ ~At(s, "idle") /\ ~At(s, "tag")
        /\ UNCHANGED <<call, item, names, url_tags, settled, alone>>
    BY <1>3 DEF UpsertURL, AddURLToUser, EnqueueDiscussionJob, At, tables, history
  <2> QED BY <1>1, <2>1, <2>2, MoveQuiet DEF Points
<1>4. CASE Reject(s) \/ SetURLFeedURL(s) \/ RemoveURLFromUser(s) \/ StatementFails(s)
  <2>1. /\ ~At(s, "idle") /\ ~At(s, "tag") /\ Leave(s)
        /\ UNCHANGED <<url_tags, settled, alone>>
    BY <1>4 DEF Reject, SetURLFeedURL, RemoveURLFromUser, StatementFails, At, tables
  <2> QED BY <2>1, LeaveQuiet
<1>5. CASE GetURL(s) \/ RequireURLOwner(s) \/ UpdateUserURL(s)
  <2>1. /\ ~At(s, "idle") /\ ~At(s, "tag")
        /\ UNCHANGED <<url_tags, settled, alone>>
        /\ \/ Leave(s)
           \/ \E p \in {"feed", "update", "remove", "clear"} :
                GoTo(s, p) /\ UNCHANGED <<call, item, names>>
    BY <1>5 DEF GetURL, RequireURLOwner, UpdateUserURL, At, tables
  <2> QED BY <1>1, <2>1, LeaveQuiet, MoveQuiet DEF Points
<1> QED BY <1>2, <1>3, <1>4, <1>5

-----------------------------------------------------------------------------
\* The edits that Labels sees.

LEMMA EditFacts ==
  ASSUME NEW s \in Slots
  PROVE  /\ EditOf(s).by = s /\ EditOf(s).object = Mark(s)
         /\ EditOf(s).want = ToSet(names[s]) /\ EditOf(s).left = ToSet(names[s])
         /\ EditOf(s).alone = (s \in alone)
  BY Zenon DEF EditOf

LEMMA SameEdit ==
  ASSUME NEW s \in Slots, call'[s] = call[s], item'[s] = item[s], names'[s] = names[s],
         (s \in alone') = (s \in alone)
  PROVE  EditOf(s)' = EditOf(s)
<1>1. Mark(s)' = Mark(s)
  BY DEF Mark, User, Url
<1> QED BY <1>1, Zenon DEF EditOf

LEMMA QuietEdits ==
  ASSUME NEW s \in Slots, Quiet(s)
  PROVE  Edits' = Edits
<1>1. \A t \in Slots : At(t, "tag")' <=> At(t, "tag")
  BY DEF Quiet, OthersKept, At
<1>2. \A t \in Slots : At(t, "tag") => EditOf(t)' = EditOf(t)
  BY SameEdit DEF Quiet, OthersKept
<1> QED BY <1>1, <1>2, Zenon DEF Edits

\* The edit of s ends, and those of the others go on.
LEMMA EndOfEdit ==
  ASSUME NEW s \in Slots, At(s, "tag"), pc'[s] # "tag", OthersKept(s),
         alone' = alone \ {s}
  PROVE  Edits' = Edits \ {EditOf(s)}
<1>1. \A t \in Slots : At(t, "tag")' <=> (At(t, "tag") /\ t # s)
  BY DEF OthersKept, At
<1>2. \A t \in Slots \ {s} : EditOf(t)' = EditOf(t)
  BY SameEdit DEF OthersKept
<1>3. \A t \in Slots : EditOf(t) = EditOf(s) => t = s
  BY EditFacts
<1> QED BY <1>1, <1>2, <1>3 DEF Edits

LEMMA TagStepMoves ==
  ASSUME RequestInv, NEW s \in Slots, At(s, "tag"), NEW p \in Points \ {"tag"},
         GoTo(s, p), UNCHANGED <<call, item, names>>, alone' = alone \ {s}
  PROVE  RequestInv' /\ pc'[s] # "tag" /\ OthersKept(s)
<1>1. \A t \in alone' : t \in Slots /\ At(t, "tag")'
  BY DEF RequestInv, At, GoTo
<1> QED BY <1>1, MoveFacts DEF At, RequestInv

LEMMA ClearStep ==
  ASSUME RequestInv, NEW s \in Slots, RemoveAllTagsFromURL(s)
  PROVE  RequestInv' /\ Tags!Clear(s, Mark(s), ToSet(names[s]))
<1> DEFINE o == Mark(s)
<1>1. /\ At(s, "clear") /\ GoTo(s, "tag") /\ UNCHANGED <<call, item, names>>
      /\ url_tags' = [url_tags EXCEPT ![o] = {}]
      /\ settled' = [settled EXCEPT ![o] = {}]
      /\ alone' = IF Tagging(o) = {} THEN alone \cup {s} ELSE alone \ Tagging(o)
  BY DEF RemoveAllTagsFromURL
<1>2. Tagging(o) = {t \in Slots : At(t, "tag") /\ Mark(t) = o}
  BY DEF Tagging
<1>3. s \notin alone /\ ~At(s, "idle") /\ ~At(s, "tag") /\ At(s, "tag")'
  BY <1>1 DEF RequestInv, At, GoTo
<1>4. \A t \in Slots \ {s} : At(t, "tag")' <=> At(t, "tag")
  BY <1>1 DEF RequestInv, At, GoTo
<1>5. \A t \in alone' : t \in Slots /\ At(t, "tag")'
  BY <1>1, <1>3, <1>4 DEF RequestInv
<1>6. RequestInv' /\ OthersKept(s)
  BY <1>1, <1>3, <1>5, MoveFacts DEF RequestInv, Points
<1> HIDE DEF o
<1>7. Tags!Idle(s)
  BY <1>3, EditFacts DEF Tags!Idle, Edits
<1>8. ASSUME NEW t \in Slots, At(t, "tag")
      PROVE  EditOf(t)' = Tags!Disturb(EditOf(t), o)
  <2>1. t # s /\ call'[t] = call[t] /\ item'[t] = item[t] /\ names'[t] = names[t]
    BY <1>3, <1>6, <1>8 DEF OthersKept
  <2>2. (t \in alone') <=> (t \in alone /\ Mark(t) # o)
    BY <1>1, <1>2, <1>8, <2>1
  <2>3. (t \in alone') = (t \in alone /\ Mark(t) # o)
    BY <2>2
  <2>4. ToSet(names[t])' = ToSet(names[t]) /\ Mark(t)' = Mark(t)
    BY <2>1 DEF ToSet, Mark, User, Url
  <2>5. EditOf(t)' = [by |-> t, object |-> Mark(t), want |-> ToSet(names[t]),
                      left |-> ToSet(names[t]), alone |-> t \in alone /\ Mark(t) # o]
    BY <2>3, <2>4, Zenon DEF EditOf
  <2> QED BY <2>5, EditFacts, Zenon DEF Tags!Disturb
<1>9. EditOf(s)' = [by |-> s, object |-> o, want |-> ToSet(names[s]),
                    left |-> ToSet(names[s]), alone |-> \A x \in Edits : x.object # o]
  <2>1. Mark(s)' = o
    BY <1>1 DEF o, Mark, User, Url
  <2>2. (s \in alone') = (\A x \in Edits : x.object # o)
    <3>1. (\A x \in Edits : x.object # o) <=> Tagging(o) = {}
      BY <1>2, EditFacts DEF Edits
    <3>2. (s \in alone') <=> Tagging(o) = {}
      BY <1>1, <1>3
    <3> DEFINE lone == \A x \in Edits : x.object # o
    <3>3. lone <=> s \in alone'
      BY <3>1, <3>2
    <3> HIDE DEF lone
    <3>4. (s \in alone') = lone
      BY <3>3
    <3> QED BY <3>4 DEF lone
  <2> QED BY <1>1, <2>1, <2>2 DEF EditOf
<1>10. Edits' = {EditOf(t)' : t \in {r \in Slots : At(r, "tag")'}}
  BY DEF Edits
<1>11. Edits' = {Tags!Disturb(x, o) : x \in Edits} \cup {EditOf(s)'}
  BY <1>3, <1>4, <1>8, <1>10 DEF Edits
<1> QED BY <1>1, <1>6, <1>7, <1>9, <1>11 DEF Tags!Clear, o

LEMMA LockStep ==
  ASSUME RequestInv, NEW s \in Slots, LockTag(s)
  PROVE  RequestInv' /\ UNCHANGED <<url_tags, Edits, settled>>
  BY DEF LockTag, RequestInv, Busy, At, Edits, EditOf, Mark, User, Url, tables, history

LEMMA SetStep ==
  ASSUME RequestInv, NEW s \in Slots, SetURLTags(s)
  PROVE  RequestInv' /\ Tags!Finish(EditOf(s)) /\ EditOf(s) \in Edits
<1>1. PICK p \in {"get", "enqueue"} : GoTo(s, p)
  BY DEF SetURLTags
<1>2. At(s, "tag") /\ UNCHANGED <<call, item, names>> /\ alone' = alone \ {s}
  BY DEF SetURLTags
<1>3. RequestInv' /\ Edits' = Edits \ {EditOf(s)}
  BY <1>1, <1>2, TagStepMoves, EndOfEdit DEF Points
<1>4. EditOf(s) \in Edits
  BY <1>2 DEF Edits
<1> QED BY <1>3, <1>4, EditFacts DEF Tags!Finish, SetURLTags

LEMMA GiveUpStep ==
  ASSUME RequestInv, NEW s \in Slots, At(s, "tag"), GiveUpTags(s)
  PROVE  RequestInv' /\ Tags!Fail(EditOf(s)) /\ EditOf(s) \in Edits
<1>1. \A t \in alone' : t \in alone /\ t # s
  BY DEF GiveUpTags
<1>2. RequestInv' /\ pc'[s] # "tag" /\ OthersKept(s)
  BY <1>1, LeaveFacts DEF GiveUpTags, At
<1>3. Edits' = Edits \ {EditOf(s)}
  BY <1>2, EndOfEdit DEF GiveUpTags
<1>4. EditOf(s) \in Edits
  BY DEF Edits
<1> QED BY <1>2, <1>3, <1>4 DEF Tags!Fail, GiveUpTags, tables

-----------------------------------------------------------------------------
LEMMA BeginStep ==
  ASSUME RequestInv, NEW s \in Slots, NEW c \in Calls, Begin(s, c)
  PROVE  RequestInv' /\ UNCHANGED <<url_tags, Edits, settled>>
  BY BeginQuiet, QuietEdits DEF Quiet

LEMMA RequestStep ==
  ASSUME RequestInv, NEW s \in Slots, Step(s)
  PROVE  RequestInv' /\ (Tags!Next \/ UNCHANGED <<url_tags, Edits, settled>>)
<1>1. CASE \/ Reject(s) \/ Admit(s) \/ CheckFails(s) \/ UpsertURL(s) \/ AddURLToUser(s)
           \/ EnqueueDiscussionJob(s) \/ GetURL(s) \/ SetURLFeedURL(s)
           \/ RequireURLOwner(s) \/ UpdateUserURL(s) \/ RemoveURLFromUser(s)
           \/ StatementFails(s)
  BY <1>1, QuietSteps, QuietEdits DEF Quiet
<1>2. CASE RemoveAllTagsFromURL(s)
  <2>1. At(s, "clear")
    BY <1>2 DEF RemoveAllTagsFromURL
  <2>2. Mark(s) \in Users \X Urls /\ ToSet(names[s]) \in SUBSET Names
    BY <2>1, BusyFacts DEF At
  <2> QED BY <1>2, <2>2, ClearStep DEF Tags!Next
<1>3. CASE LockTag(s)
  BY <1>3, LockStep
<1>4. CASE SetURLTags(s)
  BY <1>4, SetStep DEF Tags!Next
<1>5. CASE RefusedTwice(s) \/ DeadlockVictim(s) \/ TagsFail(s)
  <2>1. At(s, "tag") /\ GiveUpTags(s)
    BY <1>5 DEF RefusedTwice, DeadlockVictim, TagsFail, Upserting, Deadlocked
  <2> QED BY <2>1, GiveUpStep DEF Tags!Next
<1> QED BY <1>1, <1>2, <1>3, <1>4, <1>5 DEF Step

LEMMA NextStep ==
  ASSUME RequestInv, [Next]_vars
  PROVE  RequestInv' /\ [Tags!Next]_(Tags!vars)
<1>1. CASE UNCHANGED vars
  BY <1>1 DEF vars, tables, request, bounds, history, RequestInv, Busy, At, Tags!vars,
              Edits, EditOf, Mark, User, Url
<1>2. ASSUME NEW s \in Slots, Step(s)
      PROVE  RequestInv' /\ [Tags!Next]_(Tags!vars)
  BY <1>2, RequestStep DEF Tags!vars
<1>3. ASSUME NEW s \in Slots, NEW c \in Calls, Begin(s, c)
      PROVE  RequestInv' /\ [Tags!Next]_(Tags!vars)
  BY <1>3, BeginStep DEF Tags!vars
<1>4. CASE \/ \E p \in Patterns : CreateBlocklistEntry(p) \/ DeleteBlocklistEntry(p)
           \/ \E u \in Users : FirstPage(u) \/ TurnPage(u)
  <2>1. UNCHANGED <<pc, call, item, names, url_tags, settled, alone>>
    BY <1>4 DEF CreateBlocklistEntry, DeleteBlocklistEntry, FirstPage, TurnPage, tables,
                request, history
  <2> QED BY <2>1 DEF RequestInv, Busy, At, Tags!vars, Edits, EditOf, Mark, User, Url
<1> QED BY <1>1, <1>2, <1>3, <1>4 DEF Next

\* A request that is not idle is at an entry of a call, and its tags are as they
\* are stored.
THEOREM RequestInvariant == Spec => []RequestInv
  BY RequestInit, NextStep, PTL DEF Spec

\* However requests overlap and fail, setting the tags of bookmarks is replacing
\* labels as Labels describes it: every statement of setURLTags is a step of an
\* edit, and no other statement touches tags.
THEOREM BookmarksImplementLabels == Spec => ImplementsLabels
<1>1. Init => Tags!Init
  BY BookmarksAssumption DEF Init, Tags!Init, Edits, At
<1> QED BY <1>1, RequestInit, NextStep, PTL DEF Spec, ImplementsLabels, Tags!Spec

Promise ==
  INSTANCE LabelsProofs WITH
    Editors <- Slots, Objects <- Users \X Urls, labels <- url_tags, edits <- Edits

\* A request that set the tags of a bookmark without another one on the bookmark
\* in between leaves exactly the tags it was given.
THEOREM LoneTagsStick == Spec => []LoneEditSticks
<1>1. Promise!Spec => []Promise!LoneEditSticks
  BY Promise!LoneEditsStick
<1>2. Promise!LoneEditSticks => LoneEditSticks
  BY DEF Promise!LoneEditSticks, LoneEditSticks
<1>3. Tags!Init => Promise!Init
  BY DEF Tags!Init, Promise!Init
<1>4. [Tags!Next]_(Tags!vars) => [Promise!Next]_(Promise!vars)
  BY DEF Tags!Next, Tags!vars, Tags!Forget, Tags!Clear, Tags!Idle, Tags!Disturb, Tags!Put, Tags!Less,
         Tags!Finish, Tags!Fail, Promise!Next, Promise!vars, Promise!Forget, Promise!Clear, Promise!Idle,
         Promise!Disturb, Promise!Put, Promise!Less, Promise!Finish, Promise!Fail
<1> QED
  BY <1>1, <1>2, <1>3, <1>4, BookmarksImplementLabels, PTL
  DEF ImplementsLabels, Tags!Spec, Promise!Spec

-----------------------------------------------------------------------------
\* A request in shut has its URL on the blocklist, and only an administrator's has
\* come past the check.
BlockInv ==
  /\ shut \subseteq Slots
  /\ \A s \in shut : /\ ~At(s, "idle") /\ IsBlocked(Url(s), blocklist)
                     /\ (At(s, "upsert") \/ At(s, "add")) => User(s) \in Admins

LEMMA BlockInit == Init => BlockInv
  BY DEF Init, BlockInv

\* What BlockInv says of the requests other than s, whatever s does.
LEMMA BlockOthers ==
  ASSUME BlockInv, NEW s \in Slots, NEW t \in Slots \ {s}, t \in shut,
         pc'[t] = pc[t], call'[t] = call[t], item'[t] = item[t], UNCHANGED blocklist
  PROVE  /\ ~At(t, "idle")' /\ IsBlocked(Url(t), blocklist)'
         /\ (At(t, "upsert") \/ At(t, "add"))' => User(t)' \in Admins
<1>1. /\ IsBlocked(Url(t), blocklist)' <=> IsBlocked(Url(t), blocklist)
      /\ User(t)' = User(t)
  BY DEF Url, User, IsBlocked
<1> QED BY <1>1 DEF BlockInv, At

LEMMA BlockReach ==
  ASSUME RequestInv, BlockInv, NEW s \in Slots, NEW c \in Calls,
         NEW i \in 1 .. Len(c.items), Reach(s, c, i), UNCHANGED blocklist
  PROVE  BlockInv'
<1>1. /\ pc'[s] = First(c) /\ call'[s] = c /\ item'[s] = i
      /\ \A t \in Slots \ {s} : pc'[t] = pc[t] /\ call'[t] = call[t] /\ item'[t] = item[t]
  BY DEF Reach, GoTo, RequestInv
<1>2. /\ shut' \subseteq shut \cup {s}
      /\ s \in shut' => IsBlocked(c.items[i].url, blocklist)
  BY DEF Reach
<1>3. First(c) \in {"check", "owner"}
  BY DEF First
<1>4. s \in shut' => /\ ~At(s, "idle")' /\ IsBlocked(Url(s), blocklist)'
                     /\ ~At(s, "upsert")' /\ ~At(s, "add")'
  BY <1>1, <1>2, <1>3 DEF At, Url, IsBlocked
<1>5. \A t \in shut' \ {s} :
        /\ ~At(t, "idle")' /\ IsBlocked(Url(t), blocklist)'
        /\ (At(t, "upsert") \/ At(t, "add"))' => User(t)' \in Admins
  BY <1>1, <1>2, BlockOthers DEF BlockInv
<1> QED BY <1>2, <1>4, <1>5 DEF BlockInv

LEMMA BlockLeave ==
  ASSUME RequestInv, BlockInv, NEW s \in Slots, ~At(s, "idle"), Leave(s),
         UNCHANGED blocklist
  PROVE  BlockInv'
<1>1. CASE item[s] < Len(call[s].items)
  <2>1. call[s] \in Calls /\ item[s] + 1 \in 1 .. Len(call[s].items)
    BY <1>1, BusyFacts, BookmarksAssumption
  <2>2. Reach(s, call[s], item[s] + 1)
    BY <1>1 DEF Leave
  <2> QED BY <2>1, <2>2, BlockReach
<1>2. CASE ~(item[s] < Len(call[s].items))
  <2>1. Answer(s)
    BY <1>2 DEF Leave
  <2>2. /\ shut' = shut \ {s}
        /\ \A t \in Slots \ {s} : pc'[t] = pc[t] /\ call'[t] = call[t] /\ item'[t] = item[t]
    BY <2>1 DEF Answer, GoTo, RequestInv
  <2>3. \A t \in shut' :
          /\ ~At(t, "idle")' /\ IsBlocked(Url(t), blocklist)'
          /\ (At(t, "upsert") \/ At(t, "add"))' => User(t)' \in Admins
    BY <2>2, BlockOthers DEF BlockInv
  <2> QED BY <2>2, <2>3 DEF BlockInv
<1> QED BY <1>1, <1>2

\* A step to another statement of the same entry, which keeps an administrator's
\* requests only on the way to saving a blocked URL.
LEMMA BlockMove ==
  ASSUME RequestInv, BlockInv, NEW s \in Slots, NEW p \in Points \ {"idle"}, GoTo(s, p),
         UNCHANGED <<call, item, blocklist>>,
         \/ shut' = shut \ {s}
         \/ /\ UNCHANGED shut
            /\ (s \in shut /\ p \in {"upsert", "add"}) => User(s) \in Admins
  PROVE  BlockInv'
<1>1. pc'[s] = p /\ \A t \in Slots \ {s} : pc'[t] = pc[t]
  BY DEF GoTo, RequestInv
<1>2. s \in shut' => /\ ~At(s, "idle")' /\ IsBlocked(Url(s), blocklist)'
                     /\ (At(s, "upsert") \/ At(s, "add"))' => User(s)' \in Admins
  <2>1. /\ IsBlocked(Url(s), blocklist)' <=> IsBlocked(Url(s), blocklist)
        /\ User(s)' = User(s)
    BY DEF Url, User, IsBlocked
  <2> QED BY <1>1, <2>1 DEF BlockInv, At
<1>3. \A t \in shut' \ {s} :
        /\ ~At(t, "idle")' /\ IsBlocked(Url(t), blocklist)'
        /\ (At(t, "upsert") \/ At(t, "add"))' => User(t)' \in Admins
  BY <1>1, BlockOthers DEF BlockInv
<1> QED BY <1>2, <1>3 DEF BlockInv

LEMMA BlockStep ==
  ASSUME RequestInv, BlockInv, NEW s \in Slots, Step(s)
  PROVE  BlockInv'
<1>1. CASE \/ Reject(s) \/ RefusedTwice(s) \/ DeadlockVictim(s) \/ TagsFail(s)
           \/ SetURLFeedURL(s) \/ RemoveURLFromUser(s) \/ StatementFails(s)
  <2>1. ~At(s, "idle") /\ Leave(s) /\ UNCHANGED blocklist
    BY <1>1 DEF Reject, RefusedTwice, DeadlockVictim, TagsFail, GiveUpTags, Upserting,
                Deadlocked, SetURLFeedURL, RemoveURLFromUser, StatementFails, At
  <2> QED BY <2>1, BlockLeave
<1>2. CASE Admit(s)
  <2>1. /\ At(s, "check") /\ GoTo(s, "upsert") /\ UNCHANGED <<call, item, blocklist, shut>>
        /\ IsBlocked(Url(s), blocklist) => User(s) \in Admins
    BY <1>2 DEF Admit, Proceed, history
  <2>2. s \in shut => User(s) \in Admins
    BY <2>1 DEF BlockInv
  <2> QED BY <2>1, <2>2, BlockMove DEF Points
<1>3. CASE CheckFails(s)
  BY <1>3, BlockMove DEF CheckFails, Proceed, Points
<1>4. CASE UpsertURL(s)
  <2>1. /\ At(s, "upsert") /\ GoTo(s, "add") /\ UNCHANGED <<call, item, blocklist, shut>>
    BY <1>4 DEF UpsertURL, history
  <2>2. s \in shut => User(s) \in Admins
    BY <2>1 DEF BlockInv
  <2> QED BY <2>1, <2>2, BlockMove DEF Points
<1>5. CASE AddURLToUser(s) \/ EnqueueDiscussionJob(s)
  <2>1. PICK p \in {"clear", "get"} : GoTo(s, p)
    BY <1>5 DEF AddURLToUser, EnqueueDiscussionJob
  <2>2. UNCHANGED <<call, item, blocklist, shut>>
    BY <1>5 DEF AddURLToUser, EnqueueDiscussionJob, history
  <2> QED BY <2>1, <2>2, BlockMove DEF Points
<1>6. CASE RemoveAllTagsFromURL(s) \/ SetURLTags(s)
  <2>1. PICK p \in {"tag", "get", "enqueue"} : GoTo(s, p)
    BY <1>6 DEF RemoveAllTagsFromURL, SetURLTags
  <2>2. UNCHANGED <<call, item, blocklist, shut>>
    BY <1>6 DEF RemoveAllTagsFromURL, SetURLTags
  <2> QED BY <2>1, <2>2, BlockMove DEF Points
<1>7. CASE LockTag(s)
  BY <1>7 DEF LockTag, BlockInv, At, Url, User, IsBlocked, history
<1>8. CASE GetURL(s) \/ RequireURLOwner(s) \/ UpdateUserURL(s)
  <2>1. /\ ~At(s, "idle") /\ UNCHANGED blocklist
        /\ \/ Leave(s)
           \/ \E p \in {"feed", "update", "remove", "clear"} :
                GoTo(s, p) /\ UNCHANGED <<call, item, shut>>
    BY <1>8 DEF GetURL, RequireURLOwner, UpdateUserURL, At
  <2> QED BY <2>1, BlockLeave, BlockMove DEF Points
<1> QED BY <1>1, <1>2, <1>3, <1>4, <1>5, <1>6, <1>7, <1>8 DEF Step

LEMMA BlockNext ==
  ASSUME RequestInv, BlockInv, [Next]_vars
  PROVE  BlockInv'
<1>1. ASSUME NEW s \in Slots, NEW c \in Calls, Begin(s, c)
      PROVE  BlockInv'
  <2>1. 1 \in 1 .. Len(c.items)
    BY BookmarksAssumption
  <2> QED BY <1>1, <2>1, BlockReach DEF Begin
<1>2. ASSUME NEW p \in Patterns, CreateBlocklistEntry(p)
      PROVE  BlockInv'
  <2>1. /\ blocklist \subseteq blocklist'
        /\ UNCHANGED <<pc, call, item, shut>>
    BY <1>2 DEF CreateBlocklistEntry, request, history
  <2>2. \A t \in Slots : /\ IsBlocked(Url(t), blocklist) => IsBlocked(Url(t), blocklist)'
                         /\ User(t)' = User(t)
    BY <2>1 DEF Url, User, IsBlocked
  <2> QED BY <2>1, <2>2 DEF BlockInv, At
<1>3. ASSUME NEW p \in Patterns, DeleteBlocklistEntry(p)
      PROVE  BlockInv'
  BY <1>3 DEF DeleteBlocklistEntry, BlockInv, At, Url, User, IsBlocked, request
<1>4. CASE UNCHANGED vars \/ \E u \in Users : FirstPage(u) \/ TurnPage(u)
  BY <1>4 DEF FirstPage, TurnPage, vars, BlockInv, At, Url, User, IsBlocked, request, history
<1> QED BY <1>1, <1>2, <1>3, <1>4, BlockStep DEF Next

\* A URL that has been blocked for as long as the request runs does not become a
\* bookmark of a user who is no administrator: the one entry of a long import as
\* little as the one URL of a form.
THEOREM BlockedUrlsKeptOut == Spec => BlockedKeptOut
<1>1. ASSUME BlockInv, NEW s \in Slots, AddURLToUser(s), User(s) \notin Admins
      PROVE  s \notin shut
  <2>1. At(s, "add")
    BY <1>1 DEF AddURLToUser
  <2> QED BY <1>1, <2>1 DEF BlockInv
<1>2. BlockInv => \A s \in Slots :
        (AddURLToUser(s) /\ library' # library /\ User(s) \notin Admins) => s \notin shut
  BY <1>1
<1> QED
  BY <1>2, RequestInit, NextStep, BlockInit, BlockNext, PTL DEF Spec, BlockedKeptOut

-----------------------------------------------------------------------------
(***************************************************************************)
(* Turning the pages.  The place of a bookmark is the number of those      *)
(* above it in the list, which a new bookmark can only raise.              *)
(***************************************************************************)
Beyond(u, n, b) ==
  \E k \in 1 .. Len(library[u]) : library[u][k] = b /\ Len(library[u]) - k >= n

\* What is due to a user and was not shown is beyond the pages turned so far.
WalkInv ==
  /\ library \in [Users -> Seq(Urls)]
  /\ walk \in [Users -> [page : Nat, shown : SUBSET Urls, due : SUBSET Urls]]
  /\ \A u \in Users : \A b \in walk[u].due \ walk[u].shown :
       walk[u].page > 0 /\ Beyond(u, walk[u].page * PageSize, b)

LEMMA NextOffset ==
  ASSUME NEW n \in Nat
  PROVE  /\ n * PageSize \in Nat /\ (n + 1) * PageSize = n * PageSize + PageSize
         /\ (n + 1) - 1 = n
<1>1. PageSize \in Nat
  BY BookmarksAssumption
<1> QED BY <1>1

\* The rows of a page, one more than it shows.
LEMMA ListFacts ==
  ASSUME NEW u \in Users, NEW n \in Nat, library[u] \in Seq(Urls)
  PROVE  LET rows == ListURLs(u, n + 1)
             off  == n * PageSize
             all  == Len(library[u])
         IN  /\ rows \in Seq(Urls)
             /\ Len(rows) = IF off >= all THEN 0
                            ELSE IF all <= off + PageSize + 1 THEN all - off
                            ELSE PageSize + 1
             /\ \A i \in 1 .. Len(rows) : rows[i] = library[u][all - off - i + 1]
<1> DEFINE rows == ListURLs(u, n + 1)
           off  == n * PageSize
           all  == Len(library[u])
           back == Reverse(library[u])
           last == IF off + PageSize + 1 < all THEN off + PageSize + 1 ELSE all
<1>1. PageSize \in Nat \ {0} /\ off \in Nat /\ all \in Nat /\ (n + 1) - 1 = n
  BY NextOffset, BookmarksAssumption
<1>2. back \in Seq(Urls) /\ Len(back) = all /\ \A i \in 1 .. all : back[i] = library[u][all - i + 1]
  BY DEF Reverse
<1>3. rows = IF off >= all THEN <<>> ELSE SubSeq(back, off + 1, last)
  BY <1>1, <1>2 DEF ListURLs
<1> HIDE DEF rows, off, back
<1>4. ASSUME off >= all
      PROVE  rows \in Seq(Urls) /\ Len(rows) = 0
  BY <1>1, <1>3, <1>4
<1>5. ASSUME ~(off >= all)
      PROVE  /\ rows \in Seq(Urls) /\ Len(rows) = last - off
             /\ \A i \in 1 .. Len(rows) : rows[i] = library[u][all - off - i + 1]
  <2>1. rows = SubSeq(back, off + 1, last) /\ last \in Nat /\ off < last /\ last <= all
    BY <1>1, <1>3, <1>5
  <2>2. /\ rows \in Seq(Urls) /\ Len(rows) = last - off
        /\ \A i \in 1 .. Len(rows) : rows[i] = back[off + i]
    BY <1>1, <1>2, <2>1
  <2>3. \A i \in 1 .. Len(rows) : rows[i] = library[u][all - off - i + 1]
    BY <1>1, <1>2, <2>1, <2>2
  <2> QED BY <2>2, <2>3
<1>6. /\ rows \in Seq(Urls)
      /\ Len(rows) = IF off >= all THEN 0
                     ELSE IF all <= off + PageSize + 1 THEN all - off ELSE PageSize + 1
      /\ \A i \in 1 .. Len(rows) : rows[i] = library[u][all - off - i + 1]
  BY <1>1, <1>4, <1>5
<1> QED BY <1>6 DEF rows, off

\* A page shows what is due next and leaves the rest beyond it, or is the last one.
LEMMA OpenPageFacts ==
  ASSUME NEW u \in Users, NEW n \in Nat, WalkInv, UNCHANGED library,
         NEW w, w.shown \subseteq Urls, w.due \subseteq Urls,
         \A b \in w.due \ w.shown : Beyond(u, n * PageSize, b),
         OpenPage(u, n + 1, w)
  PROVE  WalkInv'
<1> DEFINE rows  == ListURLs(u, n + 1)
           off   == n * PageSize
           all   == Len(library[u])
           shown == {rows[i] : i \in DOMAIN rows \cap 1 .. PageSize}
<1>1. PageSize \in Nat \ {0} /\ off \in Nat /\ (n + 1) * PageSize = off + PageSize
  BY NextOffset, BookmarksAssumption
<1>2. library[u] \in Seq(Urls) /\ all \in Nat
  BY DEF WalkInv
<1>3. /\ rows \in Seq(Urls)
      /\ Len(rows) = IF off >= all THEN 0
                     ELSE IF all <= off + PageSize + 1 THEN all - off ELSE PageSize + 1
      /\ \A i \in 1 .. Len(rows) : rows[i] = library[u][all - off - i + 1]
  BY <1>2, ListFacts
<1>4. walk' = [walk EXCEPT ![u] =
                 IF Len(rows) > PageSize
                 THEN [page |-> n + 1, shown |-> w.shown \cup shown, due |-> w.due]
                 ELSE [page |-> 0, shown |-> w.shown \cup shown, due |-> w.due]]
  BY DEF OpenPage
<1> HIDE DEF rows, off
<1>5. shown \subseteq Urls
  BY <1>3
<1>6. ASSUME NEW b \in w.due \ (w.shown \cup shown)
      PROVE  Len(rows) > PageSize /\ Beyond(u, off + PageSize, b)
  <2>1. PICK k \in 1 .. all : library[u][k] = b /\ all - k >= off
    BY <1>6 DEF Beyond, off
  <2>2. ~(all - k < off + PageSize)
    <3>1. SUFFICES ASSUME all - k < off + PageSize PROVE FALSE
      OBVIOUS
    <3> DEFINE i == all - k - off + 1
    <3>0. i \in 1 .. PageSize /\ all - off - i + 1 = k /\ i <= all - off
      BY <1>1, <1>2, <2>1, <3>1
    <3>2. i \in 1 .. PageSize /\ i <= Len(rows) /\ all - off - i + 1 = k
      BY <1>1, <1>2, <1>3, <3>0
    <3>3. i \in DOMAIN rows \cap 1 .. PageSize /\ rows[i] = b
      BY <1>3, <2>1, <3>2
    <3> QED BY <1>6, <3>3
  <2>3. all - k >= off + PageSize /\ all > off
    BY <1>1, <1>2, <2>1, <2>2
  <2>4. Len(rows) > PageSize
    BY <1>1, <1>2, <1>3, <2>3
  <2> QED BY <2>1, <2>3, <2>4 DEF Beyond
<1> HIDE DEF shown
<1>7. /\ walk' \in [Users -> [page : Nat, shown : SUBSET Urls, due : SUBSET Urls]]
      /\ \A v \in Users \ {u} : walk'[v] = walk[v]
      /\ walk'[u].shown = w.shown \cup shown /\ walk'[u].due = w.due
      /\ Len(rows) > PageSize => walk'[u].page = n + 1
  BY <1>4, <1>5 DEF WalkInv
<1>8. \A b \in walk'[u].due \ walk'[u].shown :
        walk'[u].page > 0 /\ Beyond(u, walk'[u].page * PageSize, b)
  <2> SUFFICES ASSUME NEW b \in walk'[u].due \ walk'[u].shown
               PROVE  walk'[u].page > 0 /\ Beyond(u, walk'[u].page * PageSize, b)
    OBVIOUS
  <2>1. Len(rows) > PageSize /\ Beyond(u, off + PageSize, b)
    BY <1>6, <1>7
  <2>2. walk'[u].page = n + 1 /\ walk'[u].page * PageSize = off + PageSize
    BY <1>1, <1>7, <2>1
  <2> QED BY <2>1, <2>2
<1>9. ASSUME NEW v \in Users, NEW b \in walk'[v].due \ walk'[v].shown
      PROVE  walk'[v].page > 0 /\ Beyond(v, walk'[v].page * PageSize, b)
  BY <1>7, <1>8 DEF WalkInv
<1>10. ASSUME NEW v \in Users, NEW b \in walk'[v].due \ walk'[v].shown
       PROVE  walk'[v].page > 0 /\ (Beyond(v, walk[v].page * PageSize, b))'
  BY <1>9 DEF Beyond
<1> QED BY <1>7, <1>10 DEF WalkInv

\* Whatever changes a list without a page being turned.
LEMMA ListGrows ==
  ASSUME WalkInv, library' \in [Users -> Seq(Urls)], UNCHANGED walk,
         \A u \in Users, n \in Nat, b \in Urls : Beyond(u, n, b) => Beyond(u, n, b)'
  PROVE  WalkInv'
<1>1. ASSUME NEW u \in Users, NEW b \in walk[u].due \ walk[u].shown
      PROVE  walk[u].page > 0 /\ Beyond(u, walk[u].page * PageSize, b)'
  <2>1. walk[u].page * PageSize \in Nat /\ b \in Urls
    BY NextOffset DEF WalkInv
  <2>2. walk[u].page > 0 /\ Beyond(u, walk[u].page * PageSize, b)
    BY DEF WalkInv
  <2> QED BY <2>1, <2>2
<1> QED BY <1>1 DEF WalkInv, Beyond

LEMMA RemoveAtFacts ==
  ASSUME NEW l \in Seq(Urls), NEW k \in DOMAIN l
  PROVE  /\ RemoveAt(l, k) \in Seq(Urls)
         /\ IsInjective(l) => IsInjective(RemoveAt(l, k))
<1>1. k \in 1 .. Len(l) /\ Len(l) \in Nat
  OBVIOUS
<1> DEFINE head == SubSeq(l, 1, k - 1)
           tail == SubSeq(l, k + 1, Len(l))
           r    == RemoveAt(l, k)
<1>2. /\ head \in Seq(Urls) /\ Len(head) = k - 1
      /\ \A i \in 1 .. k - 1 : head[i] = l[i]
  BY <1>1
<1>3. /\ tail \in Seq(Urls) /\ Len(tail) = Len(l) - k
      /\ \A i \in 1 .. Len(l) - k : tail[i] = l[k + i]
  BY <1>1
<1>4. r = head \o tail
  BY DEF RemoveAt
<1> HIDE DEF head, tail, r
<1>5. r \in Seq(Urls) /\ Len(r) = Len(l) - 1
  BY <1>1, <1>2, <1>3, <1>4
<1>6. \A i \in 1 .. Len(l) - 1 : i < k => r[i] = l[i]
  BY <1>1, <1>2, <1>3, <1>4
<1>7. ASSUME NEW i \in 1 .. Len(l) - 1, ~(i < k)
      PROVE  r[i] = l[i + 1]
  <2>1. r[i] = tail[i - (k - 1)]
    <3>1. i \in 1 .. Len(head) + Len(tail) /\ i > Len(head)
      BY <1>1, <1>2, <1>3, <1>7
    <3>2. r[i] = tail[i - Len(head)]
      BY <1>2, <1>3, <1>4, <3>1, ConcatProperties
    <3> QED BY <1>2, <3>2
  <2>2. i - (k - 1) \in 1 .. Len(l) - k /\ k + (i - (k - 1)) = i + 1
    BY <1>1, <1>7
  <2> QED BY <1>3, <2>1, <2>2
<1>8. ASSUME IsInjective(l), NEW a \in DOMAIN r, NEW b \in DOMAIN r, r[a] = r[b]
      PROVE  a = b
  <2>1. a \in 1 .. Len(l) - 1 /\ b \in 1 .. Len(l) - 1
    BY <1>5
  <2>2. PICK c \in DOMAIN l : r[a] = l[c] /\ c = IF a < k THEN a ELSE a + 1
    BY <1>1, <1>6, <1>7, <2>1
  <2>3. PICK d \in DOMAIN l : r[b] = l[d] /\ d = IF b < k THEN b ELSE b + 1
    BY <1>1, <1>6, <1>7, <2>1
  <2>4. c = d
    BY <1>8, <2>2, <2>3 DEF IsInjective
  <2> QED BY <1>1, <2>1, <2>2, <2>3, <2>4
<1> QED BY <1>5, <1>8 DEF r, IsInjective

LEMMA WalkStep ==
  ASSUME RequestInv, WalkInv, [Next]_vars
  PROVE  WalkInv'
<1>1. ASSUME NEW s \in Slots, AddURLToUser(s), ~Has(User(s), Url(s))
      PROVE  WalkInv'
  <2>1. User(s) \in Users /\ Url(s) \in Urls
    BY <1>1, BusyFacts DEF AddURLToUser, At
  <2>2. library' = [library EXCEPT ![User(s)] = Append(@, Url(s))] /\ UNCHANGED walk
    BY <1>1 DEF AddURLToUser
  <2>3. library' \in [Users -> Seq(Urls)]
    BY <2>1, <2>2 DEF WalkInv
  <2>4. ASSUME NEW u \in Users, NEW n \in Nat, NEW b \in Urls, Beyond(u, n, b)
        PROVE  Beyond(u, n, b)'
    <3>1. PICK k \in 1 .. Len(library[u]) : library[u][k] = b /\ Len(library[u]) - k >= n
      BY <2>4 DEF Beyond
    <3>2. /\ Len(library'[u]) \in {Len(library[u]), Len(library[u]) + 1}
          /\ library'[u][k] = library[u][k]
      BY <2>1, <2>2, <3>1 DEF WalkInv
    <3>3. Len(library[u]) \in Nat
      BY DEF WalkInv
    <3> QED BY <3>1, <3>2, <3>3 DEF Beyond
  <2> QED BY <2>2, <2>3, <2>4, ListGrows
<1>2. ASSUME NEW s \in Slots, RemoveURLFromUser(s)
      PROVE  WalkInv'
  <2>1. User(s) \in Users /\ Url(s) \in Urls
    BY <1>2, BusyFacts DEF RemoveURLFromUser, At
  <2>2. /\ walk' = [walk EXCEPT ![User(s)].due = {}]
        /\ \/ UNCHANGED library
           \/ \E k \in DOMAIN library[User(s)] :
                library' = [library EXCEPT ![User(s)] = RemoveAt(@, k)]
    BY <1>2 DEF RemoveURLFromUser
  <2>3. /\ library' \in [Users -> Seq(Urls)]
        /\ \A u \in Users \ {User(s)} : library'[u] = library[u]
    <3>1. CASE UNCHANGED library
      BY <3>1 DEF WalkInv
    <3>2. ASSUME NEW k \in DOMAIN library[User(s)],
                 library' = [library EXCEPT ![User(s)] = RemoveAt(@, k)]
          PROVE  /\ library' \in [Users -> Seq(Urls)]
                 /\ \A u \in Users \ {User(s)} : library'[u] = library[u]
      <4>1. library[User(s)] \in Seq(Urls)
        BY <2>1 DEF WalkInv
      <4>2. RemoveAt(library[User(s)], k) \in Seq(Urls)
        BY <4>1, RemoveAtFacts
      <4> QED BY <2>1, <3>2, <4>2 DEF WalkInv
    <3> QED BY <2>2, <3>1, <3>2
  <2>4. /\ walk' \in [Users -> [page : Nat, shown : SUBSET Urls, due : SUBSET Urls]]
        /\ walk'[User(s)].due = {}
        /\ \A u \in Users \ {User(s)} : walk'[u] = walk[u]
    BY <2>1, <2>2 DEF WalkInv
  <2>5. ASSUME NEW u \in Users, NEW b \in walk'[u].due \ walk'[u].shown
        PROVE  walk'[u].page > 0 /\ (Beyond(u, walk[u].page * PageSize, b))'
    <3>1. walk'[u] = walk[u] /\ library'[u] = library[u] /\ b \in walk[u].due \ walk[u].shown
      BY <2>3, <2>4, <2>5
    <3>2. walk[u].page > 0 /\ Beyond(u, walk[u].page * PageSize, b)
      BY <3>1 DEF WalkInv
    <3> QED BY <3>1, <3>2 DEF Beyond
  <2> QED BY <2>3, <2>4, <2>5 DEF WalkInv
<1>3. ASSUME NEW u \in Users, FirstPage(u)
      PROVE  WalkInv'
  <2> DEFINE w == [shown |-> {}, due |-> ToSet(library[u])]
  <2>1. OpenPage(u, 0 + 1, w) /\ UNCHANGED library
    BY <1>3 DEF FirstPage, tables
  <2>2. 0 * PageSize = 0
    BY BookmarksAssumption
  <2>3. w.due \subseteq Urls /\ \A b \in w.due : Beyond(u, 0 * PageSize, b)
    <3>1. library[u] \in Seq(Urls)
      BY DEF WalkInv
    <3>2. \A b \in ToSet(library[u]) : b \in Urls /\ Beyond(u, 0, b)
      BY <3>1 DEF ToSet, Beyond
    <3> QED BY <2>2, <3>2
  <2> HIDE DEF w
  <2>4. w.shown = {}
    BY DEF w
  <2> QED BY <2>1, <2>3, <2>4, OpenPageFacts
<1>4. ASSUME NEW u \in Users, TurnPage(u)
      PROVE  WalkInv'
  <2>1. walk[u].page > 0 /\ OpenPage(u, walk[u].page + 1, walk[u]) /\ UNCHANGED library
    BY <1>4 DEF TurnPage, tables
  <2>2. /\ walk[u].page \in Nat
        /\ walk[u].shown \subseteq Urls /\ walk[u].due \subseteq Urls
        /\ \A b \in walk[u].due \ walk[u].shown : Beyond(u, walk[u].page * PageSize, b)
    BY DEF WalkInv
  <2> QED BY <2>1, <2>2, OpenPageFacts
<1>5. ASSUME UNCHANGED <<library, walk>>
      PROVE  WalkInv'
  BY <1>5 DEF WalkInv, Beyond
<1>6. ASSUME NEW s \in Slots, Step(s)
      PROVE  \/ UNCHANGED <<library, walk>> \/ RemoveURLFromUser(s)
             \/ AddURLToUser(s) /\ ~Has(User(s), Url(s))
  BY <1>6 DEF Step, Reject, Admit, CheckFails, UpsertURL, AddURLToUser,
      RemoveAllTagsFromURL, LockTag, SetURLTags, RefusedTwice, DeadlockVictim, TagsFail,
      GiveUpTags, EnqueueDiscussionJob, GetURL, SetURLFeedURL, RequireURLOwner,
      UpdateUserURL, StatementFails, tables
<1>7. CASE \/ UNCHANGED vars
           \/ \E s \in Slots, c \in Calls : Begin(s, c)
           \/ \E p \in Patterns : CreateBlocklistEntry(p) \/ DeleteBlocklistEntry(p)
  BY <1>5, <1>7 DEF vars, Begin, CreateBlocklistEntry, DeleteBlocklistEntry, tables
<1> QED BY <1>1, <1>2, <1>3, <1>4, <1>5, <1>6, <1>7 DEF Next

LEMMA WalkInit == Init => WalkInv
  BY BookmarksAssumption DEF Init, WalkInv

\* Turning the pages of the list shows every bookmark there was when the first was
\* opened, however many are added meanwhile and whatever the size of a page.
THEOREM PagesShowAll == Spec => []WalkShowsAll
<1>1. WalkInv => WalkShowsAll
  BY DEF WalkInv, WalkShowsAll
<1> QED
  BY <1>1, RequestInit, NextStep, WalkInit, WalkStep, PTL DEF Spec

-----------------------------------------------------------------------------
(***************************************************************************)
(* The types, that a user has no bookmark twice, and that no row of tags   *)
(* is locked twice.                                                        *)
(***************************************************************************)
\* Locks are held within SetURLTags only.
LockInv ==
  /\ locked \in [Slots -> Nat]
  /\ \A s \in Slots : ~At(s, "tag") => locked[s] = 0
  /\ \A s, t \in Slots : s # t => Locked(s) \cap Locked(t) = {}

TablesInv ==
  /\ url_tags \in [Users \X Urls -> SUBSET Names]
  /\ settled \in [Users \X Urls -> SUBSET SUBSET Names]
  /\ bypass \subseteq Urls /\ feed_url \subseteq Urls /\ blocklist \subseteq Patterns
  /\ blocked \in [Slots -> BOOLEAN] /\ fetched \in [Slots -> BOOLEAN]
  /\ started \in 0 .. MaxRequests /\ blocks \in 0 .. MaxBlocks /\ faults \in 0 .. MaxFaults
  /\ \A u \in Users : IsInjective(library[u])

LEMMA LeaveLocks ==
  ASSUME RequestInv, LockInv, TablesInv, NEW s \in Slots, Leave(s)
  PROVE  /\ locked' \in [Slots -> Nat] /\ locked'[s] = 0
         /\ \A t \in Slots \ {s} : /\ locked'[t] = locked[t] /\ names'[t] = names[t]
                                  /\ pc'[t] = pc[t]
         /\ blocked' \in [Slots -> BOOLEAN] /\ fetched' \in [Slots -> BOOLEAN]
<1>1. ASSUME NEW c, NEW i, Reach(s, c, i)
      PROVE  /\ locked' \in [Slots -> Nat] /\ locked'[s] = 0
             /\ \A t \in Slots \ {s} : /\ locked'[t] = locked[t] /\ names'[t] = names[t]
                                      /\ pc'[t] = pc[t]
             /\ blocked' \in [Slots -> BOOLEAN] /\ fetched' \in [Slots -> BOOLEAN]
  BY <1>1 DEF Reach, GoTo, RequestInv, LockInv, TablesInv
<1>2. CASE Answer(s)
  BY <1>2 DEF Answer, GoTo, RequestInv, LockInv, TablesInv
<1> QED BY <1>1, <1>2 DEF Leave

\* A step of s after which it holds no locks.
LEMMA LocksFree ==
  ASSUME LockInv, NEW s \in Slots, locked' \in [Slots -> Nat], locked'[s] = 0,
         \A t \in Slots \ {s} : /\ locked'[t] = locked[t] /\ names'[t] = names[t]
                              /\ pc'[t] = pc[t]
  PROVE  LockInv'
<1>1. Locked(s)' = {}
  BY DEF Locked
<1>2. \A t \in Slots \ {s} : Locked(t)' = Locked(t)
  BY DEF Locked
<1>3. \A t \in Slots : ~At(t, "tag")' => locked'[t] = 0
  BY DEF LockInv, At
<1>4. \A r, t \in Slots : r # t => Locked(r)' \cap Locked(t)' = {}
  BY <1>1, <1>2 DEF LockInv
<1> QED BY <1>3, <1>4 DEF LockInv

LEMMA LockTagFacts ==
  ASSUME RequestInv, LockInv, NEW s \in Slots, LockTag(s)
  PROVE  LockInv'
<1>1. /\ At(s, "tag") /\ locked' = [locked EXCEPT ![s] = @ + 1] /\ UNCHANGED <<pc, names>>
      /\ \A t \in Slots : NextName(s) \notin Locked(t)
  BY DEF LockTag, Upserting
<1>2. locked' \in [Slots -> Nat] /\ locked'[s] = locked[s] + 1 /\ locked[s] \in Nat
  BY <1>1 DEF LockInv
<1>3. Locked(s)' = Locked(s) \cup {NextName(s)}
  BY <1>1, <1>2 DEF Locked, NextName
<1>4. \A t \in Slots \ {s} : Locked(t)' = Locked(t)
  BY <1>1 DEF Locked, LockInv
<1>5. \A r, t \in Slots : r # t => Locked(r)' \cap Locked(t)' = {}
  BY <1>1, <1>3, <1>4 DEF LockInv
<1>6. \A t \in Slots : ~At(t, "tag")' => locked'[t] = 0
  BY <1>1, <1>2 DEF LockInv, At
<1> QED BY <1>2, <1>5, <1>6 DEF LockInv

\* What a request knows and holds.
LEMMA LocksStep ==
  ASSUME RequestInv, LockInv, TablesInv, NEW s \in Slots, Step(s)
  PROVE  LockInv' /\ blocked' \in [Slots -> BOOLEAN] /\ fetched' \in [Slots -> BOOLEAN]
<1>1. CASE Leave(s)
  BY <1>1, LeaveLocks, LocksFree
<1>2. CASE LockTag(s)
  BY <1>2, LockTagFacts DEF LockTag, TablesInv
<1>3. CASE SetURLTags(s)
  BY <1>3, LocksFree DEF SetURLTags, GoTo, RequestInv, LockInv, TablesInv
<1>4. CASE Admit(s) \/ CheckFails(s)
  <2>1. PICK answer \in BOOLEAN, page \in BOOLEAN :
          /\ At(s, "check") /\ GoTo(s, "upsert") /\ UNCHANGED locked
          /\ blocked' = [blocked EXCEPT ![s] = answer]
          /\ fetched' = [fetched EXCEPT ![s] = page]
          /\ names' = IF names[s] = <<>> /\ call[s].via # "import"
                      THEN [names EXCEPT ![s] = FetchTags(Url(s), page)] ELSE names
    BY <1>4 DEF Admit, CheckFails, Proceed, IsBlocked
  <2>2. locked'[s] = 0 /\ locked' \in [Slots -> Nat]
    BY <2>1 DEF LockInv, At
  <2>3. \A t \in Slots \ {s} : /\ locked'[t] = locked[t] /\ names'[t] = names[t]
                             /\ pc'[t] = pc[t]
    BY <2>1 DEF GoTo, RequestInv
  <2> QED BY <2>1, <2>2, <2>3, LocksFree DEF TablesInv
<1>5. ASSUME ~Leave(s), ~LockTag(s), ~SetURLTags(s), ~Admit(s), ~CheckFails(s)
      PROVE  /\ ~At(s, "tag") /\ UNCHANGED <<names, locked, blocked, fetched>>
             /\ \E p \in Points : GoTo(s, p)
  BY <1>5 DEF Step, Reject, UpsertURL, AddURLToUser, RemoveAllTagsFromURL, RefusedTwice,
      DeadlockVictim, TagsFail, GiveUpTags, EnqueueDiscussionJob, GetURL, SetURLFeedURL,
      RequireURLOwner, UpdateUserURL, RemoveURLFromUser, StatementFails, At, Points
<1>6. ASSUME ~At(s, "tag"), UNCHANGED <<names, locked, blocked, fetched>>,
             \E p \in Points : GoTo(s, p)
      PROVE  LockInv' /\ blocked' \in [Slots -> BOOLEAN] /\ fetched' \in [Slots -> BOOLEAN]
  BY <1>6, LocksFree DEF GoTo, RequestInv, LockInv, TablesInv
<1> QED BY <1>1, <1>2, <1>3, <1>4, <1>5, <1>6

\* Lists: nothing is appended that is there, and what is taken out leaves the rest.
LEMMA ListsStep ==
  ASSUME RequestInv, WalkInv, TablesInv, NEW s \in Slots, Step(s)
  PROVE  \A u \in Users : IsInjective(library'[u])
<1>1. CASE AddURLToUser(s)
  <2>1. User(s) \in Users /\ Url(s) \in Urls /\ library[User(s)] \in Seq(Urls)
    BY <1>1, BusyFacts DEF AddURLToUser, At, WalkInv
  <2>2. CASE Has(User(s), Url(s))
    BY <1>1, <2>2 DEF AddURLToUser, TablesInv
  <2>3. CASE ~Has(User(s), Url(s))
    <3> DEFINE l == library[User(s)]
    <3>1. \A k \in 1 .. Len(l) : l[k] # Url(s)
      BY <2>3 DEF Has, Contains
    <3>2. l \in Seq(Urls) /\ IsInjective(l)
      BY <2>1 DEF TablesInv
    <3> HIDE DEF l
    <3>3. IsInjective(Append(l, Url(s)))
      BY <2>1, <3>1, <3>2 DEF IsInjective
    <3>4. library' = [library EXCEPT ![User(s)] = Append(l, Url(s))]
      BY <1>1, <2>3 DEF AddURLToUser, l
    <3> QED BY <2>1, <3>3, <3>4 DEF TablesInv, WalkInv
  <2> QED BY <2>2, <2>3
<1>2. CASE RemoveURLFromUser(s)
  <2>1. User(s) \in Users /\ Url(s) \in Urls /\ library[User(s)] \in Seq(Urls)
    BY <1>2, BusyFacts DEF RemoveURLFromUser, At, WalkInv
  <2>2. CASE UNCHANGED library
    BY <2>2 DEF TablesInv
  <2>3. ASSUME NEW k \in DOMAIN library[User(s)],
               library' = [library EXCEPT ![User(s)] = RemoveAt(@, k)]
        PROVE  \A u \in Users : IsInjective(library'[u])
    <3>1. IsInjective(RemoveAt(library[User(s)], k))
      BY <2>1, RemoveAtFacts DEF TablesInv
    <3> QED BY <2>1, <2>3, <3>1 DEF TablesInv, WalkInv
  <2> QED BY <1>2, <2>2, <2>3 DEF RemoveURLFromUser
<1>3. ASSUME ~AddURLToUser(s), ~RemoveURLFromUser(s)
      PROVE  UNCHANGED library
  BY <1>3 DEF Step, Reject, Admit, CheckFails, UpsertURL, RemoveAllTagsFromURL, LockTag,
      SetURLTags, RefusedTwice, DeadlockVictim, TagsFail, GiveUpTags,
      EnqueueDiscussionJob, GetURL, SetURLFeedURL, RequireURLOwner, UpdateUserURL,
      StatementFails, tables
<1>4. CASE UNCHANGED library
  BY <1>4 DEF TablesInv
<1> QED BY <1>1, <1>2, <1>3, <1>4

\* The tables of the database and the counters.
LEMMA TablesStep ==
  ASSUME RequestInv, TablesInv, NEW s \in Slots, Step(s)
  PROVE  /\ url_tags' \in [Users \X Urls -> SUBSET Names]
         /\ settled' \in [Users \X Urls -> SUBSET SUBSET Names]
         /\ bypass' \subseteq Urls /\ feed_url' \subseteq Urls /\ UNCHANGED blocklist
         /\ UNCHANGED <<started, blocks>> /\ faults' \in 0 .. MaxFaults
<1>1. CASE RemoveAllTagsFromURL(s)
  <2>1. Mark(s) \in Users \X Urls
    BY <1>1, BusyFacts DEF RemoveAllTagsFromURL, At
  <2> QED BY <1>1, <2>1 DEF RemoveAllTagsFromURL, TablesInv, bounds
<1>2. CASE SetURLTags(s)
  <2>1. Mark(s) \in Users \X Urls /\ ToSet(names[s]) \in SUBSET Names
    BY <1>2, BusyFacts DEF SetURLTags, At
  <2> QED BY <1>2, <2>1 DEF SetURLTags, TablesInv, bounds
<1>3. CASE UpsertURL(s) \/ SetURLFeedURL(s)
  <2>1. Url(s) \in Urls
    BY <1>3, BusyFacts DEF UpsertURL, SetURLFeedURL, At
  <2> QED BY <1>3, <2>1 DEF UpsertURL, SetURLFeedURL, TablesInv, bounds, history
<1>4. CASE \/ Reject(s) \/ Admit(s) \/ CheckFails(s) \/ AddURLToUser(s) \/ LockTag(s)
           \/ RefusedTwice(s) \/ DeadlockVictim(s) \/ TagsFail(s)
           \/ EnqueueDiscussionJob(s) \/ GetURL(s) \/ RequireURLOwner(s)
           \/ UpdateUserURL(s) \/ RemoveURLFromUser(s) \/ StatementFails(s)
  <2>1. /\ UNCHANGED <<url_tags, settled, bypass, feed_url, blocklist, started, blocks>>
        /\ faults' = faults \/ Fault
    BY <1>4 DEF Reject, Admit, CheckFails, AddURLToUser, LockTag, RefusedTwice,
        DeadlockVictim, TagsFail, GiveUpTags, EnqueueDiscussionJob, GetURL,
        RequireURLOwner, UpdateUserURL, RemoveURLFromUser, StatementFails, tables, bounds,
        history
  <2>2. faults' \in 0 .. MaxFaults
    BY <2>1, BookmarksAssumption DEF Fault, TablesInv
  <2> QED BY <2>1, <2>2 DEF TablesInv
<1> QED BY <1>1, <1>2, <1>3, <1>4 DEF Step

LEMMA TypeInit == Init => LockInv /\ TablesInv
<1>1. Init => LockInv
  BY DEF Init, LockInv, Locked
<1>2. Init => TablesInv
  BY BookmarksAssumption DEF Init, TablesInv
<1> QED BY <1>1, <1>2

LEMMA TypeStep ==
  ASSUME RequestInv, WalkInv, LockInv, TablesInv, [Next]_vars
  PROVE  LockInv' /\ TablesInv'
<1>1. ASSUME NEW s \in Slots, Step(s)
      PROVE  LockInv' /\ TablesInv'
  BY <1>1, LocksStep, ListsStep, TablesStep DEF TablesInv
<1>2. ASSUME NEW s \in Slots, NEW c \in Calls, Begin(s, c)
      PROVE  LockInv' /\ TablesInv'
  <2>1. /\ locked' \in [Slots -> Nat] /\ locked'[s] = 0
        /\ \A t \in Slots \ {s} : /\ locked'[t] = locked[t] /\ names'[t] = names[t]
                                 /\ pc'[t] = pc[t]
        /\ blocked' \in [Slots -> BOOLEAN] /\ fetched' \in [Slots -> BOOLEAN]
    BY <1>2 DEF Begin, Reach, GoTo, RequestInv, LockInv, TablesInv
  <2>2. started' \in 0 .. MaxRequests
    BY <1>2, BookmarksAssumption DEF Begin, TablesInv
  <2> QED BY <1>2, <2>1, <2>2, LocksFree DEF Begin, TablesInv, tables
<1>3. CASE UNCHANGED vars \/ \E u \in Users : FirstPage(u) \/ TurnPage(u)
  <2>1. UNCHANGED <<tables, blocklist, request, bounds, history>>
    BY <1>3 DEF vars, FirstPage, TurnPage
  <2>2. LockInv'
    BY <2>1 DEF request, LockInv, Locked, At
  <2>3. TablesInv'
    BY <2>1 DEF tables, request, bounds, history, TablesInv
  <2> QED BY <2>2, <2>3
<1>4. ASSUME NEW p \in Patterns, CreateBlocklistEntry(p) \/ DeleteBlocklistEntry(p)
      PROVE  LockInv' /\ TablesInv'
  <2>1. LockInv'
    BY <1>4 DEF CreateBlocklistEntry, DeleteBlocklistEntry, request, LockInv, Locked, At
  <2>2. blocks' \in 0 .. MaxBlocks
    BY <1>4, BookmarksAssumption DEF CreateBlocklistEntry, DeleteBlocklistEntry, TablesInv,
       bounds
  <2> QED
    BY <1>4, <2>1, <2>2
    DEF CreateBlocklistEntry, DeleteBlocklistEntry, TablesInv, tables, request, bounds,
        history
<1> QED BY <1>1, <1>2, <1>3, <1>4 DEF Next

\* The types; no user has a bookmark twice, whatever is saved and deleted at the same
\* time; and no two requests have locked the same row of tags.
THEOREM TypeCorrect == Spec => []TypeOK
<1>1. RequestInv /\ BlockInv /\ WalkInv /\ LockInv /\ TablesInv => TypeOK
  BY DEF RequestInv, BlockInv, WalkInv, LockInv, TablesInv, TypeOK
<1> QED
  BY <1>1, RequestInit, NextStep, BlockInit, BlockNext, WalkInit, WalkStep, TypeInit,
     TypeStep, PTL DEF Spec

=============================================================================
