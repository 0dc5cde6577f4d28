------------------------- MODULE SubscriptionsProofs --------------------------
(***************************************************************************)
(* Setting the tags of subscriptions implements Labels, a blocked feed is  *)
(* kept out, what was read stays read, and no row refers to one that is    *)
(* not there: for any users, feeds, items, requests and number of requests *)
(* at a time.                                                              *)
(***************************************************************************)
EXTENDS Subscriptions, FiniteSetTheorems, SequenceTheorems, WellFoundedInduction, TLAPS

\* A request that is not idle has a call, and until it begins to insert tags it has
\* all of them to insert; only requests that are setting tags are alone in it.
RequestInv ==
  /\ pc \in [Slots -> Points]
  /\ call \in [Slots -> Calls \cup {NoCall}]
  /\ left \in [Slots -> SUBSET Names]
  /\ feed_tags \in [Users \X Feeds -> SUBSET Names]
  /\ \A s \in Slots : ~At(s, "idle") => call[s] \in Calls
  /\ \A s \in Slots : ~At(s, "idle") /\ ~At(s, "tag") => left[s] = TagsFor(call[s])
  /\ \A s \in alone : s \in Slots /\ At(s, "tag")

\* What a step of s leaves alone.
OthersKept(s) ==
  \A t \in Slots \ {s} : pc'[t] = pc[t] /\ call'[t] = call[t] /\ left'[t] = left[t]

\* A step of s that has nothing to do with tags.
Quiet(s) ==
  /\ ~At(s, "tag") /\ pc'[s] # "tag" /\ OthersKept(s)
  /\ UNCHANGED <<feed_tags, settled, alone>>

LEMMA TagsForFacts ==
  ASSUME NEW c \in Calls
  PROVE  TagsFor(c) \in SUBSET Names
  BY SubscriptionsAssumption DEF TagsFor, ParseTags

LEMMA RequestInit == Init => RequestInv
  BY DEF Init, RequestInv, At, Points

LEMMA BusyFacts ==
  ASSUME RequestInv, NEW s \in Slots, ~At(s, "idle")
  PROVE  /\ call[s] \in Calls /\ User(s) \in Users /\ Feed(s) \in Feeds
         /\ Sub(s) \in Users \X Feeds /\ left[s] \in SUBSET Names
         /\ TagsFor(call[s]) \in SUBSET Names
  BY SubscriptionsAssumption, TagsForFacts DEF RequestInv, User, Feed, Sub

\* A request that is answered.
LEMMA AnswerFacts ==
  ASSUME RequestInv, NEW s \in Slots, Answer(s), UNCHANGED feed_tags
  PROVE  RequestInv' /\ pc'[s] # "tag" /\ OthersKept(s) /\ alone' = alone \ {s}
<1>1. /\ pc' \in [Slots -> Points] /\ pc'[s] = "idle"
      /\ call' \in [Slots -> Calls \cup {NoCall}]
      /\ left' \in [Slots -> SUBSET Names]
  BY DEF Answer, GoTo, RequestInv, Points
<1>2. OthersKept(s) /\ alone' = alone \ {s}
  BY DEF Answer, GoTo, RequestInv, OthersKept
<1>3. \A t \in Slots : ~At(t, "idle")' =>
         call'[t] \in Calls /\ (~At(t, "tag")' => left'[t] = TagsFor(call'[t]))
  BY <1>1, <1>2 DEF RequestInv, OthersKept, At
<1>4. \A t \in alone' : t \in Slots /\ At(t, "tag")'
  BY <1>2 DEF RequestInv, OthersKept, At
<1> QED BY <1>1, <1>2, <1>3, <1>4 DEF RequestInv, TagsFor

\* A step from one statement to the next.
LEMMA MoveFacts ==
  ASSUME RequestInv, NEW s \in Slots, ~At(s, "idle"), ~At(s, "tag"), NEW p \in Points,
         GoTo(s, p), UNCHANGED <<call, left>>,
         feed_tags' \in [Users \X Feeds -> SUBSET Names],
         \A t \in alone' : t \in Slots /\ At(t, "tag")'
  PROVE  RequestInv' /\ pc'[s] = p /\ OthersKept(s)
<1>1. pc' \in [Slots -> Points] /\ pc'[s] = p /\ OthersKept(s)
  BY DEF GoTo, RequestInv, OthersKept
<1>2. \A t \in Slots : ~At(t, "idle")' =>
         call'[t] \in Calls /\ (~At(t, "tag")' => left'[t] = TagsFor(call'[t]))
  BY <1>1 DEF RequestInv, OthersKept, At
<1> QED BY <1>1, <1>2 DEF RequestInv, TagsFor

-----------------------------------------------------------------------------
\* The steps of a request that have nothing to do with tags.

LEMMA BeginQuiet ==
  ASSUME RequestInv, NEW s \in Slots, NEW c \in Calls, Begin(s, c)
  PROVE  RequestInv' /\ Quiet(s)
<1>1. /\ At(s, "idle") /\ UNCHANGED <<feed_tags, settled, alone>>
      /\ call' = [call EXCEPT ![s] = c] /\ left' = [left EXCEPT ![s] = TagsFor(c)]
  BY DEF Begin, tables
<1>2. PICK p \in {"check", "owner"} : GoTo(s, p)
  BY DEF Begin
<1>3. TagsFor(c) \in SUBSET Names
  BY TagsForFacts
<1>4. pc' \in [Slots -> Points] /\ pc'[s] = p
  BY <1>2 DEF GoTo, RequestInv, Points
<1>5. call' \in [Slots -> Calls \cup {NoCall}] /\ call'[s] = c
  BY <1>1 DEF RequestInv
<1>6. left' \in [Slots -> SUBSET Names] /\ left'[s] = TagsFor(c)
  BY <1>1, <1>3 DEF RequestInv
<1>7. OthersKept(s)
  BY <1>1, <1>2 DEF GoTo, RequestInv, OthersKept
<1>8. \A t \in Slots : ~At(t, "idle")' =>
         call'[t] \in Calls /\ (~At(t, "tag")' => left'[t] = TagsFor(call'[t]))
  BY <1>4, <1>5, <1>6, <1>7 DEF RequestInv, OthersKept, At
<1>9. \A t \in alone' : t \in Slots /\ At(t, "tag")'
  BY <1>1, <1>7 DEF RequestInv, OthersKept, At
<1>10. RequestInv'
  BY <1>1, <1>4, <1>5, <1>6, <1>8, <1>9 DEF RequestInv, TagsFor
<1> QED BY <1>1, <1>2, <1>4, <1>7, <1>10 DEF Quiet, At

LEMMA AnswerQuiet ==
  ASSUME RequestInv, NEW s \in Slots, ~At(s, "tag"), Answer(s),
         UNCHANGED <<feed_tags, settled>>
  PROVE  RequestInv' /\ Quiet(s)
<1>1. alone \ {s} = alone
  BY DEF RequestInv
<1> QED BY <1>1, AnswerFacts DEF Quiet

LEMMA MoveQuiet ==
  ASSUME RequestInv, NEW s \in Slots, ~At(s, "idle"), ~At(s, "tag"),
         NEW p \in Points \ {"tag"}, GoTo(s, p), UNCHANGED <<call, left>>,
         UNCHANGED <<feed_tags, settled, alone>>
  PROVE  RequestInv' /\ Quiet(s)
<1>1. \A t \in alone' : t \in Slots /\ At(t, "tag")'
  BY DEF RequestInv, At, GoTo
<1>2. feed_tags' \in [Users \X Feeds -> SUBSET Names]
  BY DEF RequestInv
<1> QED BY <1>1, <1>2, MoveFacts DEF Quiet

LEMMA QuietSteps ==
  ASSUME RequestInv, NEW s \in Slots,
         \/ Reject(s) \/ Admit(s) \/ CheckFails(s) \/ UpsertFeed(s) \/ AddFeedToUser(s)
         \/ RequireFeedOwner(s) \/ RemoveFeedFromUser(s)
         \/ StatementFails(s) /\ ~At(s, "tag")
  PROVE  RequestInv' /\ Quiet(s)
<1>1. CASE Admit(s) \/ CheckFails(s) \/ UpsertFeed(s) \/ AddFeedToUser(s)
  <2>1. PICK p \in {"upsert", "add", "clear"} : GoTo(s, p)
    BY <1>1 DEF Admit, CheckFails, UpsertFeed, AddFeedToUser
  <2>2. /\ ~At(s, "idle") /\ ~At(s, "tag")
        /\ UNCHANGED <<call, left, feed_tags, settled, alone>>
    BY <1>1 DEF Admit, CheckFails, UpsertFeed, AddFeedToUser, At, tables, history
  <2> QED BY <2>1, <2>2, MoveQuiet DEF Points
<1>2. CASE Reject(s) \/ RemoveFeedFromUser(s) \/ (StatementFails(s) /\ ~At(s, "tag"))
  <2>1. ~At(s, "tag") /\ Answer(s) /\ UNCHANGED <<feed_tags, settled>>
    BY <1>2 DEF Reject, RemoveFeedFromUser, StatementFails, At, tables
  <2> QED BY <2>1, AnswerQuiet
<1>3. CASE RequireFeedOwner(s)
  <2>1. ~At(s, "idle") /\ ~At(s, "tag") /\ UNCHANGED <<feed_tags, settled>>
    BY <1>3 DEF RequireFeedOwner, At, tables
  <2>2. \/ Answer(s)
        \/ \E p \in {"clear", "remove"} : GoTo(s, p) /\ UNCHANGED <<call, left, alone>>
    BY <1>3 DEF RequireFeedOwner
  <2>3. CASE Answer(s)
    BY <2>1, <2>3, AnswerQuiet
  <2>4. ASSUME NEW p \in {"clear", "remove"}, GoTo(s, p), UNCHANGED <<call, left, alone>>
        PROVE  RequestInv' /\ Quiet(s)
    <3>1. p \in Points \ {"tag"}
      BY DEF Points
    <3> QED BY <2>1, <2>4, <3>1, MoveQuiet
  <2> QED BY <2>2, <2>3, <2>4
<1> QED BY <1>1, <1>2, <1>3

-----------------------------------------------------------------------------
\* The edits that Labels sees.

LEMMA EditFacts ==
  ASSUME NEW s \in Slots
  PROVE  /\ EditOf(s).by = s /\ EditOf(s).object = Sub(s)
         /\ EditOf(s).want = TagsFor(call[s]) /\ EditOf(s).left = left[s]
         /\ EditOf(s).alone = (s \in alone)
  BY Zenon DEF EditOf

LEMMA SameCall ==
  ASSUME NEW s \in Slots, call'[s] = call[s]
  PROVE  Sub(s)' = Sub(s) /\ TagsFor(call[s])' = TagsFor(call[s])
  BY DEF Sub, User, Feed, TagsFor, ParseTags

LEMMA SameEdit ==
  ASSUME NEW s \in Slots, call'[s] = call[s], left'[s] = left[s],
         (s \in alone') = (s \in alone)
  PROVE  EditOf(s)' = EditOf(s)
  BY SameCall, Zenon DEF EditOf

LEMMA QuietEdits ==
  ASSUME NEW s \in Slots, Quiet(s)
  PROVE  Edits' = Edits
<1>1. \A t \in Slots : At(t, "tag")' <=> At(t, "tag")
  BY DEF Quiet, OthersKept, At
<1>2. \A t \in Slots : At(t, "tag") => EditOf(t)' = EditOf(t)
  BY SameEdit DEF Quiet, OthersKept
<1> QED BY <1>1, <1>2, Zenon DEF Edits

\* The edit of s ends, and those of the others go on.
LEMMA EndOfEdit ==
  ASSUME NEW s \in Slots, At(s, "tag"), pc'[s] # "tag", OthersKept(s),
         alone' = alone \ {s}
  PROVE  Edits' = Edits \ {EditOf(s)}
<1>1. \A t \in Slots : At(t, "tag")' <=> (At(t, "tag") /\ t # s)
  BY DEF OthersKept, At
<1>2. \A t \in Slots \ {s} : EditOf(t)' = EditOf(t)
  BY SameEdit DEF OthersKept
<1>3. \A t \in Slots : EditOf(t) = EditOf(s) => t = s
  BY EditFacts
<1> QED BY <1>1, <1>2, <1>3 DEF Edits

LEMMA ClearStep ==
  ASSUME RequestInv, NEW s \in Slots, RemoveAllTagsFromFeed(s)
  PROVE  RequestInv' /\ Tags!Clear(s, Sub(s), TagsFor(call[s]))
<1> DEFINE o == Sub(s)
<1>1. /\ At(s, "clear") /\ GoTo(s, "tag") /\ UNCHANGED <<call, left>>
      /\ feed_tags' = [feed_tags EXCEPT ![o] = {}]
      /\ settled' = [settled EXCEPT ![o] = {}]
      /\ alone' = IF Tagging(o) = {} THEN alone \cup {s} ELSE alone \ Tagging(o)
  BY DEF RemoveAllTagsFromFeed
<1>2. Tagging(o) = {t \in Slots : At(t, "tag") /\ Sub(t) = o}
  BY DEF Tagging
<1>3. s \notin alone /\ ~At(s, "idle") /\ ~At(s, "tag") /\ At(s, "tag")'
  BY <1>1 DEF RequestInv, At, GoTo
<1>4. \A t \in Slots \ {s} : At(t, "tag")' <=> At(t, "tag")
  BY <1>1 DEF RequestInv, At, GoTo
<1>5. \A t \in alone' : t \in Slots /\ At(t, "tag")'
  BY <1>1, <1>3, <1>4 DEF RequestInv
<1>6. left[s] = TagsFor(call[s])
  BY <1>3 DEF RequestInv
<1>7. RequestInv' /\ OthersKept(s)
  <2>1. feed_tags' \in [Users \X Feeds -> SUBSET Names]
    BY <1>1 DEF RequestInv
  <2> QED BY <1>1, <1>3, <1>5, <2>1, MoveFacts DEF Points
<1> HIDE DEF o
<1>8. Tags!Idle(s)
  BY <1>3, EditFacts DEF Tags!Idle, Edits
<1>9. ASSUME NEW t \in Slots, At(t, "tag")
      PROVE  EditOf(t)' = Tags!Disturb(EditOf(t), o)
  <2>1. t # s /\ call'[t] = call[t] /\ left'[t] = left[t]
    BY <1>3, <1>7, <1>9 DEF OthersKept
  <2>2. (t \in alone') <=> (t \in alone /\ Sub(t) # o)
    BY <1>1, <1>2, <1>9, <2>1
  <2>3. (t \in alone') = (t \in alone /\ Sub(t) # o)
    BY <2>2
  <2>4. TagsFor(call[t])' = TagsFor(call[t]) /\ Sub(t)' = Sub(t)
    BY <2>1, SameCall
  <2>5. EditOf(t)' = [by |-> t, object |-> Sub(t), want |-> TagsFor(call[t]),
                      left |-> left[t], alone |-> t \in alone /\ Sub(t) # o]
    BY <2>1, <2>3, <2>4, Zenon DEF EditOf
  <2> QED BY <2>5, EditFacts, Zenon DEF Tags!Disturb
<1>10. EditOf(s)' = [by |-> s, object |-> o, want |-> TagsFor(call[s]),
                     left |-> TagsFor(call[s]), alone |-> \A x \in Edits : x.object # o]
  <2>1. Sub(s)' = o /\ TagsFor(call[s])' = TagsFor(call[s]) /\ left'[s] = TagsFor(call[s])
    BY <1>1, <1>6, SameCall DEF o
  <2>2. (s \in alone') = (\A x \in Edits : x.object # o)
    <3>1. (\A x \in Edits : x.object # o) <=> Tagging(o) = {}
      BY <1>2, EditFacts DEF Edits
    <3>2. (s \in alone') <=> Tagging(o) = {}
      BY <1>1, <1>3
    <3> DEFINE lone == \A x \in Edits : x.object # o
    <3>3. lone <=> s \in alone'
      BY <3>1, <3>2
    <3> HIDE DEF lone
    <3>4. (s \in alone') = lone
      BY <3>3
    <3> QED BY <3>4 DEF lone
  <2> QED BY <2>1, <2>2, Zenon DEF EditOf
<1>11. Edits' = {EditOf(t)' : t \in {r \in Slots : At(r, "tag")'}}
  BY DEF Edits
<1>12. Edits' = {Tags!Disturb(x, o) : x \in Edits} \cup {EditOf(s)'}
  BY <1>3, <1>4, <1>9, <1>11 DEF Edits
<1> QED BY <1>1, <1>7, <1>8, <1>10, <1>12 DEF Tags!Clear, o

LEMMA PutStep ==
  ASSUME RequestInv, NEW s \in Slots, NEW n \in Names, AddTagToFeed(s, n)
  PROVE  RequestInv' /\ EditOf(s) \in Edits /\ n \in EditOf(s).left
         /\ Tags!Put(EditOf(s), n)
<1>1. /\ At(s, "tag") /\ n \in left[s] /\ UNCHANGED <<pc, call, alone, settled>>
      /\ feed_tags' = [feed_tags EXCEPT ![Sub(s)] = @ \cup {n}]
      /\ left' = [left EXCEPT ![s] = @ \ {n}]
  BY DEF AddTagToFeed, history
<1>2. Sub(s) \in Users \X Feeds
  BY <1>1, BusyFacts DEF At
<1>3. RequestInv'
  <2>1. feed_tags' \in [Users \X Feeds -> SUBSET Names] /\ left' \in [Slots -> SUBSET Names]
    BY <1>1, <1>2 DEF RequestInv
  <2>2. \A t \in Slots \ {s} : left'[t] = left[t]
    BY <1>1 DEF RequestInv
  <2> QED BY <1>1, <2>1, <2>2 DEF RequestInv, At, TagsFor
<1>4. EditOf(s) \in Edits /\ n \in EditOf(s).left
  BY <1>1, EditFacts DEF Edits
<1>5. \A t \in Slots \ {s} : EditOf(t)' = EditOf(t)
  BY <1>1, SameEdit DEF RequestInv
<1>6. EditOf(s)' = Tags!Less(EditOf(s), n)
  <2>1. /\ Sub(s)' = Sub(s) /\ TagsFor(call[s])' = TagsFor(call[s])
        /\ left'[s] = left[s] \ {n} /\ alone' = alone
    BY <1>1, SameCall DEF RequestInv
  <2>2. EditOf(s)' = [by |-> s, object |-> Sub(s), want |-> TagsFor(call[s]),
                      left |-> left[s] \ {n}, alone |-> s \in alone]
    BY <2>1, Zenon DEF EditOf
  <2> QED BY <2>2, EditFacts, Zenon DEF Tags!Less
<1>7. \A t \in Slots : EditOf(t) = EditOf(s) => t = s
  BY EditFacts
<1>8. Edits' = {EditOf(t)' : t \in {r \in Slots : At(r, "tag")}}
  BY <1>1 DEF Edits, At
<1>9. Edits' = (Edits \ {EditOf(s)}) \cup {Tags!Less(EditOf(s), n)}
  BY <1>1, <1>5, <1>6, <1>7, <1>8 DEF Edits
<1> QED BY <1>1, <1>3, <1>4, <1>9, EditFacts DEF Tags!Put

LEMMA EndStep ==
  ASSUME RequestInv, NEW s \in Slots, EndOfTags(s)
  PROVE  RequestInv' /\ Tags!Finish(EditOf(s)) /\ EditOf(s) \in Edits
<1>1. /\ At(s, "tag") /\ left[s] = {} /\ Answer(s) /\ UNCHANGED feed_tags
      /\ settled' = IF s \in alone THEN [settled EXCEPT ![Sub(s)] = {TagsFor(call[s])}]
                    ELSE settled
  BY DEF EndOfTags, tables
<1>2. RequestInv' /\ Edits' = Edits \ {EditOf(s)}
  BY <1>1, AnswerFacts, EndOfEdit
<1>3. EditOf(s) \in Edits
  BY <1>1 DEF Edits
<1>4. feed_tags' = [feed_tags EXCEPT ![Sub(s)] = @ \cup left[s]]
  BY <1>1 DEF RequestInv
<1> QED BY <1>1, <1>2, <1>3, <1>4, EditFacts DEF Tags!Finish

LEMMA FailStep ==
  ASSUME RequestInv, NEW s \in Slots, At(s, "tag"), StatementFails(s)
  PROVE  RequestInv' /\ Tags!Fail(EditOf(s)) /\ EditOf(s) \in Edits
<1>1. Answer(s) /\ UNCHANGED <<feed_tags, settled>>
  BY DEF StatementFails, tables
<1>2. RequestInv' /\ Edits' = Edits \ {EditOf(s)}
  BY <1>1, AnswerFacts, EndOfEdit
<1> QED BY <1>1, <1>2 DEF Tags!Fail, Edits

-----------------------------------------------------------------------------
LEMMA RequestStep ==
  ASSUME RequestInv, NEW s \in Slots, Step(s)
  PROVE  RequestInv' /\ (Tags!Next \/ UNCHANGED <<feed_tags, Edits, settled>>)
<1>1. CASE \/ Reject(s) \/ Admit(s) \/ CheckFails(s) \/ UpsertFeed(s) \/ AddFeedToUser(s)
           \/ RequireFeedOwner(s) \/ RemoveFeedFromUser(s)
           \/ StatementFails(s) /\ ~At(s, "tag")
  BY <1>1, QuietSteps, QuietEdits DEF Quiet
<1>2. CASE RemoveAllTagsFromFeed(s)
  <2>1. At(s, "clear")
    BY <1>2 DEF RemoveAllTagsFromFeed
  <2>2. Sub(s) \in Users \X Feeds /\ TagsFor(call[s]) \in SUBSET Names
    BY <2>1, BusyFacts DEF At
  <2> QED BY <1>2, <2>2, ClearStep DEF Tags!Next
<1>3. ASSUME NEW n \in Names, AddTagToFeed(s, n)
      PROVE  RequestInv' /\ Tags!Next
  BY <1>3, PutStep DEF Tags!Next
<1>4. CASE EndOfTags(s)
  BY <1>4, EndStep DEF Tags!Next
<1>5. CASE StatementFails(s) /\ At(s, "tag")
  BY <1>5, FailStep DEF Tags!Next
<1> QED BY <1>1, <1>2, <1>3, <1>4, <1>5 DEF Step

LEMMA NextStep ==
  ASSUME RequestInv, [Next]_vars
  PROVE  RequestInv' /\ [Tags!Next]_(Tags!vars)
<1>1. ASSUME UNCHANGED <<pc, call, left, feed_tags, settled, alone>>
      PROVE  RequestInv' /\ [Tags!Next]_(Tags!vars)
  BY <1>1 DEF RequestInv, At, TagsFor, Tags!vars, Edits, EditOf, Sub, User, Feed, ParseTags
<1>2. ASSUME NEW s \in Slots, Step(s)
      PROVE  RequestInv' /\ [Tags!Next]_(Tags!vars)
  BY <1>2, RequestStep DEF Tags!vars
<1>3. ASSUME NEW s \in Slots, NEW c \in Calls, Begin(s, c)
      PROVE  RequestInv' /\ [Tags!Next]_(Tags!vars)
  BY <1>3, BeginQuiet, QuietEdits DEF Quiet, Tags!vars
<1>4. ASSUME NEW u \in Users, Read(u)
      PROVE  UNCHANGED <<pc, call, left, feed_tags, settled, alone>>
  BY <1>4 DEF Read, MarkItemRead, MarkItemUnread, MarkAllItemsRead, MarkFeedItemsRead,
              FirstPage, TurnPage, tables, request, history
<1>5. CASE \/ \E S \in SUBSET Feeds : ChangeBlocklist(S)
           \/ \E i \in Items, d \in Dates \cup {Undated} : UpsertFeedItem(i, d)
           \/ TimePasses \/ UNCHANGED vars
  <2>1. UNCHANGED <<pc, call, left, feed_tags, settled, alone>>
    BY <1>5 DEF ChangeBlocklist, UpsertFeedItem, TimePasses, vars, tables, request, history
  <2> QED BY <1>1, <2>1
<1> QED BY <1>1, <1>2, <1>3, <1>4, <1>5 DEF Next

\* However requests overlap and fail, setting the tags of subscriptions is replacing
\* labels as Labels describes it, one label at a time: every statement of
\* setFeedTags is a step of an edit, and no other statement touches tags.
THEOREM SubscriptionsImplementLabels == Spec => ImplementsLabels
<1>1. Init => Tags!Init
  BY DEF Init, Tags!Init, Edits, At
<1> QED BY <1>1, RequestInit, NextStep, PTL DEF Spec, ImplementsLabels, Tags!Spec

Promise ==
  INSTANCE LabelsProofs WITH
    Editors <- Slots, Objects <- Users \X Feeds, labels <- feed_tags, edits <- Edits

\* A request that set the tags of a subscription without another one on the
\* subscription in between leaves exactly the tags it was given.
THEOREM LoneTagsStick == Spec => []LoneEditSticks
<1>1. Promise!Spec => []Promise!LoneEditSticks
  BY Promise!LoneEditsStick
<1>2. Promise!LoneEditSticks => LoneEditSticks
  BY DEF Promise!LoneEditSticks, LoneEditSticks
<1>3. Tags!Init => Promise!Init
  BY DEF Tags!Init, Promise!Init
<1>4. [Tags!Next]_(Tags!vars) => [Promise!Next]_(Promise!vars)
  BY DEF Tags!Next, Tags!vars, Tags!Forget, Tags!Clear, Tags!Idle, Tags!Disturb, Tags!Put, Tags!Less,
         Tags!Finish, Tags!Fail, Promise!Next, Promise!vars, Promise!Forget, Promise!Clear, Promise!Idle,
         Promise!Disturb, Promise!Put, Promise!Less, Promise!Finish, Promise!Fail
<1> QED
  BY <1>1, <1>2, <1>3, <1>4, SubscriptionsImplementLabels, PTL
  DEF ImplementsLabels, Tags!Spec, Promise!Spec

-----------------------------------------------------------------------------
\* The URL of a feed in shut is blocked now, so that Admit lets only administrators
\* go on with it; what IsBlocked answered says the same of the time it was asked.
BlockInv ==
  /\ pc \in [Slots -> Points] /\ call \in [Slots -> Calls \cup {NoCall}]
  /\ blocked \in [Slots -> BOOLEAN]
  /\ \A s \in shut : s \in Slots /\ ~At(s, "idle") /\ Feed(s) \in blocklist
  /\ \A s \in Slots : At(s, "upsert") \/ At(s, "add") => (s \in shut => User(s) \in Admins)
  /\ \A s \in Slots : blocked[s] => ~At(s, "idle") /\ User(s) \in Admins

LEMMA BlockInit == Init => BlockInv
  BY DEF Init, BlockInv, At, Points

LEMMA BlockAnswer ==
  ASSUME BlockInv, NEW s \in Slots, Answer(s), UNCHANGED blocklist
  PROVE  BlockInv'
<1>1. /\ pc' \in [Slots -> Points] /\ pc'[s] = "idle"
      /\ call' \in [Slots -> Calls \cup {NoCall}]
      /\ blocked' \in [Slots -> BOOLEAN] /\ ~blocked'[s] /\ s \notin shut'
  BY DEF Answer, GoTo, BlockInv, Points
<1>2. \A t \in Slots \ {s} : /\ pc'[t] = pc[t] /\ call'[t] = call[t]
                            /\ blocked'[t] = blocked[t] /\ (t \in shut' <=> t \in shut)
  BY DEF Answer, GoTo, BlockInv
<1> QED BY <1>1, <1>2 DEF BlockInv, At, User, Feed, Answer

\* A step from one statement to the next, with the same call.
LEMMA BlockMove ==
  ASSUME BlockInv, NEW s \in Slots, ~At(s, "idle"), NEW p \in Points \ {"idle"}, GoTo(s, p),
         shut' \subseteq shut, UNCHANGED <<call, blocklist>>,
         blocked' \in [Slots -> BOOLEAN],
         \A t \in Slots \ {s} : blocked'[t] = blocked[t],
         blocked'[s] => User(s) \in Admins,
         p \in {"upsert", "add"} => (s \in shut' => User(s) \in Admins)
  PROVE  BlockInv'
<1>1. pc' \in [Slots -> Points] /\ pc'[s] = p
  BY DEF GoTo, BlockInv
<1>2. \A t \in Slots \ {s} : pc'[t] = pc[t]
  BY DEF GoTo, BlockInv
<1> QED BY <1>1, <1>2 DEF BlockInv, At, User, Feed

LEMMA BlockStep ==
  ASSUME BlockInv, NEW s \in Slots, Step(s)
  PROVE  BlockInv'
<1>1. CASE \/ Reject(s) \/ RemoveFeedFromUser(s) \/ EndOfTags(s) \/ StatementFails(s)
           \/ RequireFeedOwner(s) /\ Answer(s)
  BY <1>1, BlockAnswer DEF Reject, RemoveFeedFromUser, EndOfTags, StatementFails,
                           RequireFeedOwner
<1>2. CASE Admit(s)
  <2>1. /\ ~At(s, "idle") /\ GoTo(s, "upsert") /\ UNCHANGED <<call, blocklist, shut>>
        /\ blocked' = [blocked EXCEPT ![s] = Feed(s) \in blocklist]
        /\ Feed(s) \in blocklist => User(s) \in Admins
    BY <1>2 DEF Admit, At, history
  <2> DEFINE b == Feed(s) \in blocklist
  <2>2. blocked' = [blocked EXCEPT ![s] = b] /\ b \in BOOLEAN
    BY <2>1
  <2> HIDE DEF b
  <2>3. /\ blocked' \in [Slots -> BOOLEAN] /\ blocked'[s] = b
        /\ \A t \in Slots \ {s} : blocked'[t] = blocked[t]
    BY <2>2 DEF BlockInv
  <2>4. /\ blocked' \in [Slots -> BOOLEAN] /\ (blocked'[s] => Feed(s) \in blocklist)
        /\ \A t \in Slots \ {s} : blocked'[t] = blocked[t]
    BY <2>3 DEF b
  <2>5. s \in shut => Feed(s) \in blocklist
    BY DEF BlockInv
  <2> QED BY <2>1, <2>4, <2>5, BlockMove DEF Points
<1>3. CASE CheckFails(s)
  BY <1>3, BlockMove DEF CheckFails, At, Points, BlockInv
<1>4. CASE UpsertFeed(s)
  BY <1>4, BlockMove DEF UpsertFeed, At, Points, BlockInv, history
<1>5. CASE AddFeedToUser(s) \/ RemoveAllTagsFromFeed(s)
  <2>1. PICK p \in {"clear", "tag"} : GoTo(s, p)
    BY <1>5 DEF AddFeedToUser, RemoveAllTagsFromFeed
  <2>2. ~At(s, "idle") /\ UNCHANGED <<call, blocklist, shut, blocked>>
    BY <1>5 DEF AddFeedToUser, RemoveAllTagsFromFeed, At, history
  <2> QED BY <2>1, <2>2, BlockMove DEF Points, BlockInv
<1>6. CASE RequireFeedOwner(s) /\ ~Answer(s)
  <2>1. PICK p \in {"clear", "remove"} : GoTo(s, p)
    BY <1>6 DEF RequireFeedOwner
  <2>2. ~At(s, "idle") /\ UNCHANGED <<call, blocklist, shut, blocked>>
    BY <1>6 DEF RequireFeedOwner, At
  <2> QED BY <2>1, <2>2, BlockMove DEF Points, BlockInv
<1>7. ASSUME NEW n \in Names, AddTagToFeed(s, n)
      PROVE  BlockInv'
  BY <1>7 DEF AddTagToFeed, BlockInv, At, User, Feed, history
<1> QED BY <1>1, <1>2, <1>3, <1>4, <1>5, <1>6, <1>7 DEF Step

LEMMA BlockBegin ==
  ASSUME BlockInv, NEW s \in Slots, NEW c \in Calls, Begin(s, c)
  PROVE  BlockInv'
<1>1. /\ At(s, "idle") /\ call' = [call EXCEPT ![s] = c] /\ UNCHANGED <<blocklist, blocked>>
      /\ shut' = IF c.feed \in blocklist THEN shut \cup {s} ELSE shut
  BY DEF Begin
<1>2. PICK p \in {"check", "owner"} : GoTo(s, p)
  BY DEF Begin
<1>3. pc' \in [Slots -> Points] /\ pc'[s] = p /\ \A t \in Slots \ {s} : pc'[t] = pc[t]
  BY <1>2 DEF GoTo, BlockInv, Points
<1>4. /\ call' \in [Slots -> Calls \cup {NoCall}] /\ call'[s] = c
      /\ \A t \in Slots \ {s} : call'[t] = call[t]
  BY <1>1 DEF BlockInv
<1>5. s \notin shut /\ ~blocked[s]
  BY <1>1 DEF BlockInv
<1> QED BY <1>1, <1>3, <1>4, <1>5 DEF BlockInv, At, User, Feed

LEMMA BlockNext ==
  ASSUME BlockInv, [Next]_vars
  PROVE  BlockInv'
<1>1. ASSUME NEW S \in SUBSET Feeds, ChangeBlocklist(S)
      PROVE  BlockInv'
  BY <1>1 DEF ChangeBlocklist, BlockInv, At, User, Feed, request
<1>2. CASE UNCHANGED <<pc, call, blocked, blocklist, shut>>
  BY <1>2 DEF BlockInv, At, User, Feed
<1>3. ASSUME NEW u \in Users, Read(u)
      PROVE  UNCHANGED <<pc, call, blocked, blocklist, shut>>
  BY <1>3 DEF Read, MarkItemRead, MarkItemUnread, MarkAllItemsRead, MarkFeedItemsRead,
              FirstPage, TurnPage, request, history
<1>4. CASE \/ \E i \in Items, d \in Dates \cup {Undated} : UpsertFeedItem(i, d)
           \/ TimePasses \/ UNCHANGED vars
  BY <1>2, <1>4 DEF UpsertFeedItem, TimePasses, vars, request, history
<1> QED BY <1>1, <1>2, <1>3, <1>4, BlockStep, BlockBegin DEF Next

\* Only administrators subscribe to a feed that has been blocked since their request
\* began, unless the blocklist could not be read, and only their requests set the
\* is_blocked_bypass of a feed.
THEOREM BlockedFeedsKeptOut == Spec => BlockedKeptOut
<1>1. ASSUME BlockInv
      PROVE  \A s \in Slots :
               /\ (user_feeds' # user_feeds /\ AddFeedToUser(s) /\ User(s) \notin Admins)
                    => s \notin shut
               /\ (bypass' # bypass /\ UpsertFeed(s)) => User(s) \in Admins
  <2> SUFFICES ASSUME NEW s \in Slots
               PROVE  /\ AddFeedToUser(s) => (s \in shut => User(s) \in Admins)
                      /\ UpsertFeed(s) /\ bypass' # bypass => User(s) \in Admins
    OBVIOUS
  <2>1. AddFeedToUser(s) => (s \in shut => User(s) \in Admins)
    BY <1>1 DEF AddFeedToUser, BlockInv
  <2>2. UpsertFeed(s) /\ bypass' # bypass => User(s) \in Admins
    BY <1>1 DEF UpsertFeed, BlockInv
  <2> QED BY <2>1, <2>2
<1> QED BY <1>1, BlockInit, BlockNext, PTL DEF Spec, BlockedKeptOut

-----------------------------------------------------------------------------
\* ClearedStaysRead is inductive by itself.
ClearedInv == cleared \in [Users -> SUBSET Items] /\ ClearedStaysRead

LEMMA ClearedStep ==
  ASSUME ClearedInv, [Next]_vars
  PROVE  ClearedInv'
<1>1. CASE UNCHANGED cleared /\ feed_item_reads \subseteq feed_item_reads'
  BY <1>1 DEF ClearedInv, ClearedStaysRead, IsRead
<1>2. ASSUME NEW s \in Slots, Step(s) \/ \E c \in Calls : Begin(s, c)
      PROVE  UNCHANGED <<cleared, feed_item_reads>>
  BY <1>2 DEF Step, Begin, Reject, Admit, CheckFails, UpsertFeed, AddFeedToUser,
              RequireFeedOwner, RemoveFeedFromUser, RemoveAllTagsFromFeed, AddTagToFeed,
              EndOfTags, StatementFails, content, history
<1>3. CASE \/ \E S \in SUBSET Feeds : ChangeBlocklist(S)
           \/ \E i \in Items, d \in Dates \cup {Undated} : UpsertFeedItem(i, d)
           \/ TimePasses \/ UNCHANGED vars
  BY <1>1, <1>3 DEF ChangeBlocklist, UpsertFeedItem, TimePasses, vars, content, history
<1>4. ASSUME NEW u \in Users,
             \/ \E i \in Items : MarkItemRead(u, i)
             \/ \E t \in TieBreaks : FirstPage(u, t) \/ TurnPage(u, t)
      PROVE  UNCHANGED cleared /\ feed_item_reads \subseteq feed_item_reads'
  BY <1>4 DEF MarkItemRead, FirstPage, TurnPage, content, history
<1>5. ASSUME NEW u \in Users, NEW i \in Items, MarkItemUnread(u, i)
      PROVE  ClearedInv'
  BY <1>5 DEF MarkItemUnread, ClearedInv, ClearedStaysRead, IsRead
<1>6. ASSUME NEW u \in Users, MarkAllItemsRead(u)
      PROVE  ClearedInv'
  BY <1>6 DEF MarkAllItemsRead, MarkRead, Rows, ClearedInv, ClearedStaysRead, IsRead
<1>7. ASSUME NEW u \in Users, NEW f \in Feeds, MarkFeedItemsRead(u, f)
      PROVE  ClearedInv'
  <2>1. \A i \in Items : i[1] = f => i \in {f} \X Guids
    BY DEF Items
  <2> QED BY <1>7, <2>1 DEF MarkFeedItemsRead, MarkRead, Rows, ClearedInv,
                            ClearedStaysRead, IsRead
<1> QED BY <1>1, <1>2, <1>3, <1>4, <1>5, <1>6, <1>7 DEF Next, Read

LEMMA ClearedInit == Init => ClearedInv
  BY DEF Init, ClearedInv, ClearedStaysRead

\* What a user has marked read as a whole stays read until marked unread, whatever
\* the polls and the subscriptions do.
THEOREM ClearedItemsStayRead == Spec => []ClearedStaysRead
<1>1. ClearedInv => ClearedStaysRead
  BY DEF ClearedInv
<1> QED BY <1>1, ClearedInit, ClearedStep, PTL DEF Spec

-----------------------------------------------------------------------------
(***************************************************************************)
(* What refers to what.  No statement checks more than the foreign keys    *)
(* do: a request that is about to subscribe has seen to the feed's row.    *)
(***************************************************************************)
ReferenceInv ==
  /\ feeds \subseteq Feeds /\ bypass \subseteq feeds /\ user_feeds \subseteq Users \X feeds
  /\ \A s \in Slots : At(s, "add") => Feed(s) \in feeds
  /\ feed_items \in [Items -> Dates \cup {Undated, Absent}]
  /\ \A i \in Items : feed_items[i] # Absent => i[1] \in feeds
  /\ feed_item_reads \subseteq Users \X {i \in Items : feed_items[i] # Absent}
  /\ settled \in [Users \X Feeds -> SUBSET SUBSET Names]
  /\ now \in Nat /\ events \in 0 .. MaxEvents /\ blocklist \subseteq Feeds

LEMMA ReferenceInit == Init => ReferenceInv
<1> SUFFICES ASSUME Init PROVE ReferenceInv
  OBVIOUS
<1>1. feeds \subseteq Feeds /\ user_feeds \subseteq Users \X feeds /\ bypass = {}
  <2>1. /\ feeds = {f \in Feeds : \E u \in Users : <<u, f>> \in user_feeds} /\ bypass = {}
        /\ user_feeds \subseteq Users \X Feeds
    BY SubscriptionsAssumption DEF Init
  <2>2. ASSUME NEW u \in Users, NEW f \in Feeds, <<u, f>> \in user_feeds
        PROVE  <<u, f>> \in Users \X feeds
    BY <2>1, <2>2
  <2> QED BY <2>1, <2>2
<1>2. /\ feed_items \in [Items -> Dates \cup {Undated, Absent}]
      /\ \A i \in Items : feed_items[i] # Absent => i[1] \in feeds
  BY SubscriptionsAssumption DEF Init, Items
<1>3. /\ feed_item_reads = {} /\ settled \in [Users \X Feeds -> SUBSET SUBSET Names]
      /\ now \in Nat /\ events \in 0 .. MaxEvents /\ blocklist = {}
      /\ \A s \in Slots : ~At(s, "add")
  BY SubscriptionsAssumption DEF Init, At
<1> QED BY <1>1, <1>2, <1>3 DEF ReferenceInv

\* The steps of a request keep what the rows refer to.
LEMMA ReferenceStep ==
  ASSUME RequestInv, ReferenceInv, NEW s \in Slots,
         Step(s) \/ \E c \in Calls : Begin(s, c)
  PROVE  ReferenceInv'
<1>0. events' = events \/ Event => events' \in 0 .. MaxEvents
  BY SubscriptionsAssumption DEF Event, ReferenceInv
<1>1. CASE UpsertFeed(s)
  <2>1. Feed(s) \in Feeds /\ At(s, "upsert")
    BY <1>1, BusyFacts DEF UpsertFeed, At
  <2>2. \A t \in Slots : At(t, "add")' => Feed(t)' \in feeds'
    BY <1>1 DEF UpsertFeed, GoTo, At, Feed, RequestInv, ReferenceInv
  <2> QED BY <1>1, <2>1, <2>2 DEF UpsertFeed, ReferenceInv, content, history
<1>2. CASE AddFeedToUser(s)
  <2>1. Sub(s) \in Users \X feeds /\ ~At(s, "idle")
    BY <1>2, BusyFacts DEF AddFeedToUser, At, Sub, ReferenceInv
  <2>2. \A t \in Slots : At(t, "add")' => Feed(t)' \in feeds'
    BY <1>2 DEF AddFeedToUser, GoTo, At, Feed, RequestInv, ReferenceInv
  <2> QED BY <1>2, <2>1, <2>2 DEF AddFeedToUser, ReferenceInv, content, history
<1>3. ASSUME ~UpsertFeed(s), ~AddFeedToUser(s)
      PROVE  /\ UNCHANGED <<feeds, bypass, feed_items, feed_item_reads, now, blocklist>>
             /\ user_feeds' \subseteq user_feeds
             /\ events' = events \/ Event
             /\ \/ UNCHANGED settled
                \/ RemoveAllTagsFromFeed(s)
                \/ EndOfTags(s)
             /\ \/ Answer(s)
                \/ UNCHANGED <<pc, call>>
                \/ \E p \in {"upsert", "clear", "remove", "tag"} : GoTo(s, p) /\ UNCHANGED call
                \/ \E c \in Calls, p \in {"check", "owner"} :
                     GoTo(s, p) /\ call' = [call EXCEPT ![s] = c]
  BY <1>3 DEF Step, Begin, Reject, Admit, CheckFails, RequireFeedOwner, RemoveFeedFromUser,
      RemoveAllTagsFromFeed, AddTagToFeed, EndOfTags, StatementFails, tables, content,
      history
<1>4. ASSUME ~UpsertFeed(s), ~AddFeedToUser(s)
      PROVE  ReferenceInv'
  <2>1. \A t \in Slots : At(t, "add")' => At(t, "add") /\ call'[t] = call[t]
    BY <1>3, <1>4 DEF Answer, GoTo, At, RequestInv
  <2>2. settled' \in [Users \X Feeds -> SUBSET SUBSET Names]
    <3>1. CASE RemoveAllTagsFromFeed(s) \/ EndOfTags(s)
      <4>1. Sub(s) \in Users \X Feeds /\ TagsFor(call[s]) \in SUBSET Names
        BY <3>1, BusyFacts DEF RemoveAllTagsFromFeed, EndOfTags, At
      <4> QED BY <3>1, <4>1 DEF RemoveAllTagsFromFeed, EndOfTags, ReferenceInv
    <3> QED BY <1>3, <1>4, <3>1 DEF ReferenceInv
  <2> QED BY <1>0, <1>3, <1>4, <2>1, <2>2 DEF ReferenceInv, Feed
<1> QED BY <1>1, <1>2, <1>4

LEMMA ReferenceNext ==
  ASSUME RequestInv, ReferenceInv, [Next]_vars
  PROVE  ReferenceInv'
<1>0. events' = events \/ Event => events' \in 0 .. MaxEvents
  BY SubscriptionsAssumption DEF Event, ReferenceInv
<1>1. ASSUME UNCHANGED <<tables, content, request, blocklist, events, settled>>
      PROVE  ReferenceInv'
  BY <1>1 DEF tables, content, request, ReferenceInv, At, Feed
<1>2. ASSUME NEW S \in SUBSET Feeds, ChangeBlocklist(S)
      PROVE  ReferenceInv'
  BY <1>0, <1>2 DEF ChangeBlocklist, tables, content, request, ReferenceInv, At, Feed
<1>3. ASSUME NEW i \in Items, NEW d \in Dates \cup {Undated}, UpsertFeedItem(i, d)
      PROVE  ReferenceInv'
  <2>1. i[1] \in feeds /\ feed_items' = [feed_items EXCEPT ![i] = d] /\ d # Absent
    BY <1>3, SubscriptionsAssumption DEF UpsertFeedItem
  <2>2. /\ feed_items' \in [Items -> Dates \cup {Undated, Absent}]
        /\ \A j \in Items : feed_items'[j] # Absent => feed_items[j] # Absent \/ j = i
        /\ \A j \in Items : feed_items[j] # Absent => feed_items'[j] # Absent
    BY <2>1 DEF ReferenceInv
  <2>3. UNCHANGED <<tables, feed_item_reads, now, blocklist, request, settled>>
    BY <1>3 DEF UpsertFeedItem, history
  <2> QED
    BY <1>0, <1>3, <2>1, <2>2, <2>3
    DEF UpsertFeedItem, tables, request, ReferenceInv, At, Feed
<1>4. CASE TimePasses
  BY <1>0, <1>4 DEF TimePasses, tables, request, history, ReferenceInv, At, Feed
<1>5. ASSUME NEW u \in Users, Read(u)
      PROVE  ReferenceInv'
  <2>1. /\ UNCHANGED <<tables, feed_items, now, blocklist, request, settled>>
        /\ events' = events \/ Event
    BY <1>5 DEF Read, MarkItemRead, MarkItemUnread, MarkAllItemsRead, MarkFeedItemsRead,
                MarkRead, FirstPage, TurnPage, content, history
  <2>2. \A r \in feed_item_reads' \ feed_item_reads :
          \E i \in Items : r = <<u, i>> /\ feed_items[i] # Absent
    <3>1. \A S \in SUBSET Items : MarkRead(u, S) =>
            \A r \in feed_item_reads' \ feed_item_reads :
              \E i \in Items : r = <<u, i>> /\ feed_items[i] # Absent
      BY DEF MarkRead, Visible
    <3>2. \A f \in Feeds : {f} \X Guids \subseteq Items
      BY DEF Items
    <3> QED
      BY <1>5, <3>1, <3>2
      DEF Read, MarkItemRead, MarkItemUnread, MarkAllItemsRead, MarkFeedItemsRead,
          FirstPage, TurnPage, content
  <2> QED BY <1>0, <2>1, <2>2 DEF tables, request, ReferenceInv, At, Feed
<1>6. CASE UNCHANGED vars
  BY <1>1, <1>6 DEF vars, history
<1> QED BY <1>2, <1>3, <1>4, <1>5, <1>6, ReferenceStep DEF Next

\* The types, and with them that a subscription, a bypass and an item always have
\* their feed and what is read its item, whatever overlaps and fails.
THEOREM ReferencesHold == Spec => []TypeOK
<1>1. RequestInv /\ BlockInv /\ ClearedInv /\ ReferenceInv => TypeOK
  BY DEF RequestInv, BlockInv, ClearedInv, ReferenceInv, TypeOK
<1> QED
  BY <1>1, RequestInit, NextStep, BlockInit, BlockNext, ClearedInit, ClearedStep,
     ReferenceInit, ReferenceNext, PTL DEF Spec

-----------------------------------------------------------------------------
(***************************************************************************)
(* The order of the timeline.  There are finitely many rows, one after the *)
(* other, and the place of a row tells how many are before it.             *)
(***************************************************************************)
There == {i \in Items : feed_items[i] # Absent}

OrderInv == feed_items \in [Items -> Dates \cup {Undated, Absent}] /\ IsFiniteSet(There)

LEMMA NewerFacts ==
  ASSUME OrderInv, NEW i \in There, NEW j \in There
  PROVE  /\ ~(Newer(i, j) /\ Newer(j, i))
         /\ feed_items[i] # feed_items[j] => Newer(i, j) \/ Newer(j, i)
         /\ feed_items[i] = feed_items[j] => ~Newer(i, j)
         /\ \A k \in There : Newer(i, j) => Newer(i, k) \/ Newer(k, j)
<1>1. \A k \in There : feed_items[k] \in Dates \cup {Undated}
  BY DEF OrderInv, There
<1>2. (\A d \in Dates : d \in Int) /\ Undated \notin Dates
  BY SubscriptionsAssumption
<1>3. \A k \in There : feed_items[k] # Undated => feed_items[k] \in Int
  BY <1>1, <1>2
<1>4. /\ ~(Newer(i, j) /\ Newer(j, i))
      /\ feed_items[i] # feed_items[j] => Newer(i, j) \/ Newer(j, i)
      /\ feed_items[i] = feed_items[j] => ~Newer(i, j)
  BY <1>3 DEF Newer
<1>5. ASSUME NEW k \in There, Newer(i, j) PROVE Newer(i, k) \/ Newer(k, j)
  BY <1>3, <1>5 DEF Newer
<1> QED BY <1>4, <1>5

LEMMA BeforeFacts ==
  ASSUME OrderInv, NEW t \in TieBreaks, NEW i \in There, NEW j \in There
  PROVE  /\ ~Before(i, i, t)
         /\ ~(Before(i, j, t) /\ Before(j, i, t))
         /\ i # j => Before(i, j, t) \/ Before(j, i, t)
         /\ \A k \in There : Before(i, j, t) /\ Before(j, k, t) => Before(i, k, t)
<1>1. /\ \A k \in There : k \in Items /\ t[k] \in Nat
      /\ i # j => t[i] # t[j]
  BY SubscriptionsAssumption DEF There, IsInjective
<1>2. ~Before(i, i, t) /\ ~(Before(i, j, t) /\ Before(j, i, t))
  BY <1>1, NewerFacts DEF Before
<1>3. i # j => Before(i, j, t) \/ Before(j, i, t)
  BY <1>1, NewerFacts DEF Before
<1>4. ASSUME NEW k \in There, Before(i, j, t), Before(j, k, t)
      PROVE  Before(i, k, t)
  <2>1. CASE Newer(i, k)
    BY <2>1 DEF Before
  <2>2. CASE ~Newer(i, k)
    <3>1. ~Newer(k, j) /\ ~Newer(j, i)
      BY <1>4, NewerFacts DEF Before
    <3>2. ~Newer(k, i)
      BY <3>1, NewerFacts
    <3>3. ~Newer(i, j) /\ ~Newer(j, k)
      BY <2>2, <3>1, NewerFacts
    <3>4. t[i] < t[k]
      BY <1>1, <1>4, <3>3 DEF Before
    <3> QED BY <3>2, <3>4 DEF Before
  <2> QED BY <2>1, <2>2
<1> QED BY <1>2, <1>3, <1>4

\* The number of rows before i among those of S.
Rank(S, t, i) == Cardinality({j \in S : Before(j, i, t)})

LEMMA RankFacts ==
  ASSUME OrderInv, NEW t \in TieBreaks, NEW S \in SUBSET There
  PROVE  /\ IsFiniteSet(S) /\ Cardinality(S) \in Nat
         /\ \A i \in S : Rank(S, t, i) \in 0 .. Cardinality(S) - 1
         /\ \A i, j \in S : Before(i, j, t) => Rank(S, t, i) < Rank(S, t, j)
         /\ \A n \in 0 .. Cardinality(S) - 1 : \E i \in S : Rank(S, t, i) = n
<1>1. IsFiniteSet(S) /\ Cardinality(S) \in Nat
  BY FS_Subset, FS_CardinalityType DEF OrderInv
<1> DEFINE B(i) == {j \in S : Before(j, i, t)}
<1>2. \A i \in S : IsFiniteSet(B(i)) /\ Cardinality(B(i)) \in Nat
  BY <1>1, FS_Subset, FS_CardinalityType
<1>3. \A i \in S : Cardinality(B(i)) < Cardinality(S)
  <2> SUFFICES ASSUME NEW i \in S PROVE Cardinality(B(i)) < Cardinality(S)
    OBVIOUS
  <2>1. B(i) \subseteq S \ {i}
    BY BeforeFacts
  <2>2. IsFiniteSet(S \ {i}) /\ Cardinality(S \ {i}) = Cardinality(S) - 1
    BY <1>1, FS_RemoveElement
  <2>3. Cardinality(B(i)) <= Cardinality(S) - 1
    BY <2>1, <2>2, FS_Subset
  <2> QED BY <1>1, <1>2, <2>3
<1>4. ASSUME NEW i \in S, NEW j \in S, Before(i, j, t)
      PROVE  Cardinality(B(i)) < Cardinality(B(j))
  <2>1. B(i) \subseteq B(j) \ {i}
    BY <1>4, BeforeFacts
  <2>2. IsFiniteSet(B(j) \ {i}) /\ Cardinality(B(j) \ {i}) = Cardinality(B(j)) - 1
    BY <1>2, <1>4, FS_RemoveElement
  <2>3. Cardinality(B(i)) <= Cardinality(B(j)) - 1
    BY <2>1, <2>2, FS_Subset
  <2> QED BY <1>2, <2>3
<1>5. \A n \in 0 .. Cardinality(S) - 1 : \E i \in S : Cardinality(B(i)) = n
  <2> DEFINE T == 0 .. Cardinality(S) - 1
             f == [i \in S |-> Cardinality(B(i))]
  <2>1. f \in [S -> T]
    BY <1>1, <1>2, <1>3
  <2>2. \A i, j \in S : f[i] = f[j] => i = j
    <3> SUFFICES ASSUME NEW i \in S, NEW j \in S, i # j PROVE f[i] # f[j]
      OBVIOUS
    <3>1. Before(i, j, t) \/ Before(j, i, t)
      BY BeforeFacts
    <3>2. Cardinality(B(i)) < Cardinality(B(j)) \/ Cardinality(B(j)) < Cardinality(B(i))
      BY <1>4, <3>1
    <3>3. Cardinality(B(i)) \in Int /\ Cardinality(B(j)) \in Int
      BY <1>2
    <3>4. f[i] = Cardinality(B(i)) /\ f[j] = Cardinality(B(j))
      OBVIOUS
    <3> HIDE DEF f, B
    <3> QED BY <3>2, <3>3, <3>4
  <2>3. IsFiniteSet(T) /\ Cardinality(T) = Cardinality(S)
    BY <1>1, FS_Interval
  <2> HIDE DEF f, T
  <2>4. f \in Injection(S, T)
    BY <2>1, <2>2 DEF Injection, IsInjective
  <2>5. f \in Surjection(S, T)
    BY <2>3, <2>4, FS_Injection
  <2>6. \A n \in T : \E i \in S : f[i] = n
    BY <2>5 DEF Surjection
  <2> QED BY <2>6 DEF f, T
<1>6. \A i : Rank(S, t, i) = Cardinality(B(i))
  BY DEF Rank
<1> HIDE DEF B
<1>7. \A i \in S : Cardinality(B(i)) \in 0 .. Cardinality(S) - 1
  BY <1>1, <1>2, <1>3
<1> QED BY <1>1, <1>4, <1>5, <1>6, <1>7

\* Sorted puts every row of S in its place and nothing else.
LEMMA SortedFacts ==
  ASSUME OrderInv, NEW t \in TieBreaks, NEW S \in SUBSET There
  PROVE  /\ Cardinality(S) \in Nat
         /\ Sorted(S, t) \in [1 .. Cardinality(S) -> S]
         /\ Len(Sorted(S, t)) = Cardinality(S) /\ Sorted(S, t) \in Seq(S)
         /\ \A i \in S : /\ Rank(S, t, i) + 1 \in 1 .. Cardinality(S)
                         /\ Sorted(S, t)[Rank(S, t, i) + 1] = i
         /\ \A j, k \in 1 .. Cardinality(S) :
              j < k => Before(Sorted(S, t)[j], Sorted(S, t)[k], t)
<1> DEFINE n == Cardinality(S)
           s == Sorted(S, t)
<1>1. n \in Nat /\ \A i \in S : Rank(S, t, i) \in 0 .. n - 1
  BY RankFacts
<1>2. s = [k \in 1 .. n |-> CHOOSE i \in S : Rank(S, t, i) = k - 1]
  BY DEF Sorted, Rank
<1>3. ASSUME NEW k \in 1 .. n
      PROVE  s[k] \in S /\ Rank(S, t, s[k]) = k - 1
  <2>1. \E i \in S : Rank(S, t, i) = k - 1
    BY <1>1, RankFacts
  <2>2. s[k] = CHOOSE i \in S : Rank(S, t, i) = k - 1
    BY <1>2
  <2> HIDE DEF s
  <2> QED BY <2>1, <2>2
<1>4. \A i, j \in S : i # j => Rank(S, t, i) # Rank(S, t, j)
  <2> SUFFICES ASSUME NEW i \in S, NEW j \in S, i # j PROVE Rank(S, t, i) # Rank(S, t, j)
    OBVIOUS
  <2>1. Before(i, j, t) \/ Before(j, i, t)
    BY BeforeFacts
  <2> QED BY <1>1, <2>1, RankFacts
<1> HIDE DEF s, n
<1>5. s \in [1 .. n -> S]
  BY <1>2, <1>3
<1>6. Len(s) = n /\ s \in Seq(S)
  BY <1>1, <1>5
<1>7. \A i \in S : Rank(S, t, i) + 1 \in 1 .. n /\ s[Rank(S, t, i) + 1] = i
  <2> SUFFICES ASSUME NEW i \in S
               PROVE  Rank(S, t, i) + 1 \in 1 .. n /\ s[Rank(S, t, i) + 1] = i
    OBVIOUS
  <2>1. Rank(S, t, i) + 1 \in 1 .. n /\ (Rank(S, t, i) + 1) - 1 = Rank(S, t, i)
    BY <1>1
  <2> QED BY <1>3, <1>4, <2>1
<1>8. ASSUME NEW j \in 1 .. n, NEW k \in 1 .. n, j < k
      PROVE  Before(s[j], s[k], t)
  <2>1. Rank(S, t, s[j]) < Rank(S, t, s[k]) /\ s[j] # s[k]
    BY <1>1, <1>3, <1>8
  <2>2. Before(s[k], s[j], t) => Rank(S, t, s[k]) < Rank(S, t, s[j])
    BY <1>3, RankFacts
  <2>3. Rank(S, t, s[j]) \in Int /\ Rank(S, t, s[k]) \in Int
    BY <1>1, <1>3
  <2> QED BY <1>3, <2>1, <2>2, <2>3, BeforeFacts
<1> QED BY <1>1, <1>5, <1>6, <1>7, <1>8 DEF s, n

-----------------------------------------------------------------------------
(***************************************************************************)
(* Turning the pages.  What is due and was not shown yet stands below the  *)
(* rows of the pages so far, because a certain place is the number of rows *)
(* above and that number has not become smaller.                           *)
(***************************************************************************)
Walks == [page : Nat, shown : SUBSET Items, due : SUBSET Items]

WalkInv ==
  /\ OrderInv
  /\ walk \in [Users -> Walks]
  /\ \A u \in Users : \A i \in walk[u].due :
       /\ Certain(u, i)
       /\ i \notin walk[u].shown =>
            walk[u].page > 0 /\ Above(u, i) >= walk[u].page * PageSize

LEMMA RowsThere ==
  OrderInv => \A u \in Users : /\ Rows(u) \in SUBSET There /\ IsFiniteSet(Rows(u))
                             /\ \A i \in Rows(u) : Above(u, i) \in Nat
<1> SUFFICES ASSUME OrderInv, NEW u \in Users
             PROVE  /\ Rows(u) \in SUBSET There /\ IsFiniteSet(Rows(u))
                    /\ \A i \in Rows(u) : Above(u, i) \in Nat
  OBVIOUS
<1>1. Rows(u) \in SUBSET There
  BY DEF Rows, Visible, There
<1>2. IsFiniteSet(Rows(u))
  BY <1>1, FS_Subset DEF OrderInv
<1>3. ASSUME NEW i \in Rows(u) PROVE Above(u, i) \in Nat
  <2>1. {j \in Rows(u) : Newer(j, i)} \in SUBSET Rows(u)
    OBVIOUS
  <2> QED BY <1>2, <2>1, FS_Subset, FS_CardinalityType DEF Above
<1> QED BY <1>1, <1>2, <1>3

\* A row that is the only one of its date has its place whatever the tie-break.
LEMMA CertainPlace ==
  ASSUME OrderInv, NEW u \in Users, NEW t \in TieBreaks, NEW i, Certain(u, i)
  PROVE  i \in Rows(u) /\ Rank(Rows(u), t, i) = Above(u, i)
<1>1. i \in Rows(u) /\ \A j \in Rows(u) \ {i} : feed_items[j] # feed_items[i]
  BY DEF Certain
<1>2. \A j \in Rows(u) : j \in There
  BY RowsThere
<1>3. ASSUME NEW j \in Rows(u) PROVE Before(j, i, t) <=> Newer(j, i)
  <2>1. CASE j = i
    BY <1>1, <1>2, <2>1, BeforeFacts, NewerFacts
  <2>2. CASE j # i
    BY <1>1, <1>2, <2>2, NewerFacts DEF Before
  <2> QED BY <2>1, <2>2
<1>4. {j \in Rows(u) : Before(j, i, t)} = {j \in Rows(u) : Newer(j, i)}
  BY <1>3
<1> QED BY <1>1, <1>4 DEF Rank, Above

LEMMA SliceFacts ==
  ASSUME NEW A, NEW rows \in Seq(A), NEW limit \in Nat, NEW offset \in Nat
  PROVE  LET s == Slice(rows, limit, offset)
         IN  /\ s \in Seq(A)
             /\ Len(s) = IF offset + limit < Len(rows) THEN limit
                         ELSE IF offset < Len(rows) THEN Len(rows) - offset ELSE 0
             /\ \A k \in 1 .. Len(s) : s[k] = rows[offset + k]
<1> DEFINE hi == IF offset + limit < Len(rows) THEN offset + limit ELSE Len(rows)
           s == Slice(rows, limit, offset)
<1>1. Len(rows) \in Nat /\ hi \in Nat /\ hi <= Len(rows)
  OBVIOUS
<1>2. s = SubSeq(rows, offset + 1, hi)
  BY DEF Slice
<1>3. \A k \in offset + 1 .. hi : rows[k] \in A
  OBVIOUS
<1> HIDE DEF hi
<1>4. /\ SubSeq(rows, offset + 1, hi) \in Seq(A)
      /\ Len(SubSeq(rows, offset + 1, hi)) = IF offset + 1 <= hi THEN hi - offset ELSE 0
      /\ \A k \in 1 .. hi - offset : SubSeq(rows, offset + 1, hi)[k] = rows[offset + k]
  BY <1>1, <1>3, SubSeqProperties
<1> QED BY <1>1, <1>2, <1>4 DEF hi

\* A page shows what stands in its places, and the last one ends with the rows.
LEMMA PageShows ==
  ASSUME OrderInv, NEW u \in Users, NEW t \in TieBreaks, NEW o \in Nat
  PROVE  LET rows  == ListTimelineItems(u, PageSize + 1, o, t)
             shown == {rows[k] : k \in DOMAIN rows \cap 1 .. PageSize}
         IN  /\ shown \subseteq Rows(u) /\ Len(rows) \in Nat
             /\ \A i \in Items : Certain(u, i) /\ Above(u, i) >= o =>
                  /\ Above(u, i) < o + PageSize => i \in shown
                  /\ Len(rows) <= PageSize => Above(u, i) < o + PageSize
<1> DEFINE all   == Sorted(Rows(u), t)
           rows  == ListTimelineItems(u, PageSize + 1, o, t)
           shown == {rows[k] : k \in DOMAIN rows \cap 1 .. PageSize}
           n     == Cardinality(Rows(u))
<1>1. PageSize \in Nat /\ PageSize > 0
  BY SubscriptionsAssumption
<1>2. /\ n \in Nat /\ all \in Seq(Rows(u)) /\ Len(all) = n
      /\ \A i \in Rows(u) : /\ Rank(Rows(u), t, i) + 1 \in 1 .. n
                            /\ all[Rank(Rows(u), t, i) + 1] = i
  BY RowsThere, SortedFacts
<1>3. rows = Slice(all, PageSize + 1, o)
  BY DEF ListTimelineItems
<1> HIDE DEF all, rows, n
<1>4. /\ rows \in Seq(Rows(u)) /\ Len(rows) \in Nat
      /\ Len(rows) = IF o + (PageSize + 1) < n THEN PageSize + 1
                     ELSE IF o < n THEN n - o ELSE 0
      /\ \A k \in 1 .. Len(rows) : rows[k] = all[o + k]
  <2>1. PageSize + 1 \in Nat
    BY <1>1
  <2> QED BY <1>2, <1>3, <2>1, SliceFacts
<1>5. shown \subseteq Rows(u)
  BY <1>4
<1>6. ASSUME NEW i \in Items, Certain(u, i), Above(u, i) >= o
      PROVE  /\ Above(u, i) < o + PageSize => i \in shown
             /\ Len(rows) <= PageSize => Above(u, i) < o + PageSize
  <2>1. /\ i \in Rows(u) /\ Above(u, i) \in Nat
        /\ Above(u, i) + 1 <= n /\ all[Above(u, i) + 1] = i
    BY <1>2, <1>6, CertainPlace, RowsThere
  <2>2. ASSUME Above(u, i) < o + PageSize PROVE i \in shown
    <3> DEFINE a == Above(u, i)
               k == a + 1 - o
    <3>0. a \in Nat /\ a >= o /\ a < o + PageSize /\ a + 1 <= n /\ all[a + 1] = i
      BY <1>6, <2>1, <2>2
    <3> HIDE DEF a
    <3>1. k \in 1 .. PageSize /\ k \in 1 .. Len(rows) /\ o + k = a + 1
      BY <1>1, <1>2, <1>4, <3>0
    <3>2. rows[k] = i
      BY <1>4, <3>0, <3>1
    <3> HIDE DEF k
    <3> QED BY <1>4, <3>1, <3>2
  <2>3. Len(rows) <= PageSize => Above(u, i) < o + PageSize
    BY <1>1, <1>2, <1>4, <2>1
  <2> QED BY <2>2, <2>3
<1> QED BY <1>4, <1>5, <1>6 DEF rows

LEMMA OpenPageStep ==
  ASSUME WalkInv, OrderInv', NEW u \in Users, NEW t \in TieBreaks, NEW page \in Nat \ {0},
         NEW w \in Walks, OpenPage(u, page, w, t), UNCHANGED <<user_feeds, feed_items, now>>,
         \A i \in w.due : /\ Certain(u, i)
                          /\ i \notin w.shown => Above(u, i) >= (page - 1) * PageSize
  PROVE  WalkInv'
<1> DEFINE o     == (page - 1) * PageSize
           rows  == ListTimelineItems(u, PageSize + 1, o, t)
           shown == {rows[k] : k \in DOMAIN rows \cap 1 .. PageSize}
           x     == [page |-> IF Len(rows) > PageSize THEN page ELSE 0,
                     shown |-> w.shown \cup shown, due |-> w.due]
<1>1. PageSize \in Nat /\ o \in Nat /\ page * PageSize = o + PageSize
  BY SubscriptionsAssumption
<1>2. walk' = [walk EXCEPT ![u] = x]
  BY DEF OpenPage
<1>3. /\ shown \subseteq Rows(u) /\ Len(rows) \in Nat
      /\ \A i \in Items : Certain(u, i) /\ Above(u, i) >= o =>
           /\ Above(u, i) < o + PageSize => i \in shown
           /\ Len(rows) <= PageSize => Above(u, i) < o + PageSize
  BY <1>1, PageShows DEF WalkInv
<1> HIDE DEF o, rows, shown
<1>4. x \in Walks
  BY <1>3, RowsThere DEF Walks, Rows
<1>5. ASSUME NEW i \in w.due
      PROVE  /\ Certain(u, i)
             /\ i \notin x.shown => x.page > 0 /\ Above(u, i) >= x.page * PageSize
  <2>1. Certain(u, i) /\ i \in Items /\ Above(u, i) \in Nat
    BY <1>5, RowsThere DEF Walks, WalkInv, Certain
  <2>2. CASE i \in w.shown
    BY <2>1, <2>2
  <2>3. CASE i \notin w.shown
    <3>1. /\ Above(u, i) >= o
          /\ Above(u, i) < o + PageSize => i \in shown
          /\ Len(rows) <= PageSize => Above(u, i) < o + PageSize
      BY <1>3, <1>5, <2>1, <2>3 DEF o
    <3>2. CASE Len(rows) > PageSize
      <4>1. x.page = page
        BY <3>2
      <4> QED BY <1>1, <2>1, <3>1, <4>1
    <3>3. CASE ~(Len(rows) > PageSize)
      BY <1>1, <1>3, <2>1, <3>1, <3>3
    <3> QED BY <3>2, <3>3
  <2> QED BY <2>2, <2>3
<1>6. x.due = w.due
  OBVIOUS
<1> HIDE DEF x
<1>7. /\ walk' \in [Users -> Walks] /\ walk'[u] = x
      /\ \A v \in Users \ {u} : walk'[v] = walk[v]
  BY <1>2, <1>4 DEF WalkInv
<1>8. \A v \in Users, i \in Items : Certain(v, i)' = Certain(v, i) /\ Above(v, i)' = Above(v, i)
  BY DEF Certain, Above, Rows, Visible, Newer
<1>9. \A v \in Users : \A i \in walk'[v].due : i \in Items
  BY <1>7 DEF Walks
<1> QED BY <1>5, <1>6, <1>7, <1>8, <1>9 DEF WalkInv

\* What becomes less certain or moves up is due no more.
LEMMA RowsMoveStep ==
  ASSUME WalkInv, OrderInv', RowsMove
  PROVE  WalkInv'
<1>0. \A u \in Users : \A i \in Rows(u)' : Above(u, i)' \in Nat
  <2>1. (OrderInv => \A u \in Users : /\ Rows(u) \in SUBSET There /\ IsFiniteSet(Rows(u))
                                     /\ \A i \in Rows(u) : Above(u, i) \in Nat)'
    BY RowsThere, PTL
  <2> QED BY <2>1
<1>1. walk' = [u \in Users |->
                 [walk[u] EXCEPT !.due = {i \in @ : Certain(u, i)' /\ Above(u, i)' >= Above(u, i)}]]
  BY DEF RowsMove
<1> DEFINE kept(u) == {i \in walk[u].due : Certain(u, i)' /\ Above(u, i)' >= Above(u, i)}
<1>2. ASSUME NEW u \in Users
      PROVE  /\ walk'[u] \in Walks /\ walk'[u].page = walk[u].page
             /\ walk'[u].shown = walk[u].shown /\ walk'[u].due = kept(u)
  <2>1. walk[u] \in Walks
    BY DEF WalkInv
  <2>2. walk'[u] = [walk[u] EXCEPT !.due = kept(u)]
    BY <1>1
  <2>3. kept(u) \subseteq Items
    BY <2>1 DEF Walks
  <2> HIDE DEF kept
  <2> QED BY <2>1, <2>2, <2>3 DEF Walks
<1>3. walk' \in [Users -> Walks]
  BY <1>1, <1>2
<1>4. ASSUME NEW u \in Users, NEW i \in kept(u), i \notin walk[u].shown
      PROVE  walk[u].page > 0 /\ Above(u, i)' >= walk[u].page * PageSize
  <2>1. /\ walk[u].page > 0 /\ Above(u, i) >= walk[u].page * PageSize
        /\ i \in Rows(u)
    BY <1>4 DEF WalkInv, Certain
  <2>2. Above(u, i) \in Nat
    BY <2>1, RowsThere DEF WalkInv
  <2>3. i \in Rows(u)'
    BY <1>4 DEF Certain
  <2>4. Above(u, i)' \in Nat
    BY <1>0, <2>3
  <2>5. walk[u].page * PageSize \in Int
    BY SubscriptionsAssumption DEF WalkInv, Walks
  <2> QED BY <1>4, <2>1, <2>2, <2>4, <2>5
<1> QED BY <1>2, <1>3, <1>4 DEF WalkInv

LEMMA OrderNext ==
  ASSUME OrderInv, [Next]_vars
  PROVE  OrderInv'
<1>1. CASE UNCHANGED feed_items
  BY <1>1 DEF OrderInv, There
<1>2. ASSUME NEW i \in Items, NEW d \in Dates \cup {Undated}, UpsertFeedItem(i, d)
      PROVE  OrderInv'
  <2>1. feed_items' = [feed_items EXCEPT ![i] = d]
    BY <1>2 DEF UpsertFeedItem
  <2>2. There' \subseteq There \cup {i}
    BY <2>1 DEF There, OrderInv
  <2>3. IsFiniteSet(There \cup {i})
    BY FS_AddElement DEF OrderInv
  <2> QED BY <2>1, <2>2, <2>3, FS_Subset DEF OrderInv
<1>3. ASSUME NEW s \in Slots, Step(s) \/ \E c \in Calls : Begin(s, c)
      PROVE  UNCHANGED feed_items
  BY <1>3 DEF Step, Begin, Reject, Admit, CheckFails, UpsertFeed, AddFeedToUser,
              RequireFeedOwner, RemoveFeedFromUser, RemoveAllTagsFromFeed, AddTagToFeed,
              EndOfTags, StatementFails, content
<1>4. ASSUME NEW u \in Users, Read(u)
      PROVE  UNCHANGED feed_items
  BY <1>4 DEF Read, MarkItemRead, MarkItemUnread, MarkAllItemsRead, MarkFeedItemsRead,
              FirstPage, TurnPage, content
<1>5. CASE (\E S \in SUBSET Feeds : ChangeBlocklist(S)) \/ TimePasses \/ UNCHANGED vars
  BY <1>1, <1>5 DEF ChangeBlocklist, TimePasses, vars, content
<1> QED BY <1>1, <1>2, <1>3, <1>4, <1>5 DEF Next

LEMMA WalkNext ==
  ASSUME WalkInv, [Next]_vars
  PROVE  WalkInv'
<1>0. OrderInv'
  BY OrderNext DEF WalkInv
<1>1. CASE UNCHANGED <<walk, user_feeds, feed_items, now>>
  BY <1>0, <1>1 DEF WalkInv, Certain, Above, Rows, Visible, Newer
<1>2. CASE RowsMove
  BY <1>0, <1>2, RowsMoveStep
<1>3. ASSUME NEW s \in Slots, Step(s) \/ \E c \in Calls : Begin(s, c)
      PROVE  RowsMove \/ UNCHANGED <<walk, user_feeds, feed_items, now>>
  BY <1>3 DEF Step, Begin, Reject, Admit, CheckFails, UpsertFeed, AddFeedToUser,
              RequireFeedOwner, RemoveFeedFromUser, RemoveAllTagsFromFeed, AddTagToFeed,
              EndOfTags, StatementFails, content, tables
<1>4. ASSUME NEW u \in Users, NEW t \in TieBreaks, FirstPage(u, t)
      PROVE  WalkInv'
  <2> DEFINE w == [shown |-> {}, due |-> {i \in Rows(u) : Certain(u, i)}]
             x == [page |-> 0, shown |-> {}, due |-> {i \in Rows(u) : Certain(u, i)}]
  <2>1. OpenPage(u, 1, w, t) /\ UNCHANGED <<user_feeds, feed_items, now>>
    BY <1>4 DEF FirstPage, content, tables
  <2>2. OpenPage(u, 1, x, t)
    BY <2>1 DEF OpenPage
  <2>3. x \in Walks
    BY DEF Walks, Rows
  <2>4. \A i \in x.due : Certain(u, i) /\ Above(u, i) >= (1 - 1) * PageSize
    BY RowsThere, SubscriptionsAssumption DEF WalkInv
  <2> HIDE DEF x
  <2> QED BY <1>0, <2>1, <2>2, <2>3, <2>4, OpenPageStep
<1>5. ASSUME NEW u \in Users, NEW t \in TieBreaks, TurnPage(u, t)
      PROVE  WalkInv'
  <2>1. /\ walk[u].page > 0 /\ OpenPage(u, walk[u].page + 1, walk[u], t)
        /\ UNCHANGED <<user_feeds, feed_items, now>>
    BY <1>5 DEF TurnPage, content, tables
  <2>2. walk[u] \in Walks /\ walk[u].page \in Nat
    BY DEF WalkInv, Walks
  <2>3. \A i \in walk[u].due :
          Certain(u, i) /\ (i \notin walk[u].shown => Above(u, i) >= walk[u].page * PageSize)
    BY DEF WalkInv
  <2>4. walk[u].page + 1 \in Nat \ {0} /\ (walk[u].page + 1) - 1 = walk[u].page
    BY <2>1, <2>2
  <2> QED BY <1>0, <2>1, <2>2, <2>3, <2>4, OpenPageStep
<1>6. ASSUME NEW u \in Users, Read(u), ~\E t \in TieBreaks : FirstPage(u, t) \/ TurnPage(u, t)
      PROVE  UNCHANGED <<walk, user_feeds, feed_items, now>>
  BY <1>6 DEF Read, MarkItemRead, MarkItemUnread, MarkAllItemsRead, MarkFeedItemsRead, tables
<1>7. CASE \/ \E S \in SUBSET Feeds : ChangeBlocklist(S)
           \/ \E i \in Items, d \in Dates \cup {Undated} : UpsertFeedItem(i, d)
           \/ TimePasses \/ UNCHANGED vars
  BY <1>1, <1>2, <1>7 DEF ChangeBlocklist, UpsertFeedItem, TimePasses, vars, content, tables
<1> QED BY <1>1, <1>2, <1>3, <1>4, <1>5, <1>6, <1>7 DEF Next

LEMMA WalkInit == Init => WalkInv
<1> SUFFICES ASSUME Init PROVE WalkInv
  OBVIOUS
<1>1. OrderInv
  BY SubscriptionsAssumption DEF Init, OrderInv, There
<1>2. walk \in [Users -> Walks] /\ \A u \in Users : walk[u].due = {}
  BY DEF Init, Walks
<1> QED BY <1>1, <1>2 DEF WalkInv

\* A user who turns the pages to the last has seen what was there at the beginning and
\* did not move up, for any items, dates, page size and orders of rows of one date.
THEOREM WalksShowAll == Spec => []WalkShowsAll
<1>1. WalkInv => WalkShowsAll
  BY DEF WalkInv, WalkShowsAll
<1> QED BY <1>1, WalkInit, WalkNext, PTL DEF Spec

-----------------------------------------------------------------------------
(***************************************************************************)
(* What a loop over rows computes is proved by induction over the rows:    *)
(* there is no least number of rows for which it fails.                    *)
(***************************************************************************)
LEMMA LeastNumber ==
  ASSUME NEW S \in SUBSET Nat, S # {}
  PROVE  \E m \in S : \A k \in S : m <= k
<1> DEFINE R == {p \in Nat \X Nat : p[1] < p[2]}
<1>1. IsWellFoundedOn(R, Nat)
  BY NatLessThanWellFounded DEF OpToRel
<1>2. \A x, y \in Nat : y < x => <<y, x>> \in R
  OBVIOUS
<1> HIDE DEF R
<1>3. PICK m \in S : \A y \in S : <<y, m>> \notin R
  BY <1>1, WFMin
<1>4. \A y \in S : ~(y < m)
  BY <1>2, <1>3
<1> QED BY <1>4

LEMMA Induction ==
  ASSUME NEW S, 0 \in S, \A n \in Nat : n \in S => n + 1 \in S
  PROVE  Nat \subseteq S
<1> SUFFICES ASSUME Nat \ S # {} PROVE FALSE
  OBVIOUS
<1>1. PICK m \in Nat \ S : \A k \in Nat \ S : m <= k
  BY LeastNumber
<1>2. m # 0 /\ m - 1 \in Nat
  BY <1>1
<1> QED BY <1>1, <1>2

\* A loop of n rounds that turns members of A into members of A has its results.
LEMMA LoopExists ==
  ASSUME NEW A, NEW base \in A, NEW n \in Nat, NEW round \in [1 .. n -> [A -> A]]
  PROVE  \E f \in [0 .. n -> A] : f[0] = base /\ \A k \in 1 .. n : f[k] = round[k][f[k - 1]]
<1> DEFINE Runs(m) ==
      {f \in [0 .. m -> A] : f[0] = base /\ \A k \in 1 .. m : f[k] = round[k][f[k - 1]]}
           S == {m \in Nat : m <= n => Runs(m) # {}}
<1>1. 0 \in S
  <2>1. [k \in 0 .. 0 |-> base] \in Runs(0)
    OBVIOUS
  <2> QED BY <2>1
<1>2. ASSUME NEW m \in Nat, m \in S PROVE m + 1 \in S
  <2> SUFFICES ASSUME m + 1 <= n PROVE Runs(m + 1) # {}
    OBVIOUS
  <2>1. PICK f \in Runs(m) : TRUE
    BY <1>2
  <2>2. /\ f \in [0 .. m -> A] /\ f[0] = base
        /\ \A k \in 1 .. m : f[k] = round[k][f[k - 1]]
    BY <2>1
  <2> DEFINE g == [k \in 0 .. m + 1 |-> IF k = m + 1 THEN round[m + 1][f[m]] ELSE f[k]]
  <2>3. m + 1 \in 1 .. n /\ round[m + 1] \in [A -> A] /\ f[m] \in A
    BY <2>2
  <2>4. g \in [0 .. m + 1 -> A] /\ g[0] = base /\ g[m + 1] = round[m + 1][f[m]]
    BY <2>2, <2>3
  <2>5. \A k \in 0 .. m : g[k] = f[k]
    OBVIOUS
  <2> HIDE DEF g
  <2>6. \A k \in 1 .. m + 1 : g[k] = round[k][g[k - 1]]
    BY <2>2, <2>4, <2>5
  <2> QED BY <2>4, <2>6
<1>3. n \in S
  <2> HIDE DEF S
  <2> QED BY <1>1, <1>2, Induction
<1>4. Runs(n) # {}
  BY <1>3
<1>5. PICK f \in Runs(n) : TRUE
  BY <1>4
<1> QED BY <1>5

-----------------------------------------------------------------------------
(***************************************************************************)
(* The labels.  In the order of the rows those of one date label are       *)
(* together, because the days between midnights do not decrease and the    *)
(* names of weekdays stand for no more than five days in a row.            *)
(***************************************************************************)
LEMMA DaysInOrder ==
  ASSUME NEW a \in Nat, NEW b \in Nat, a <= b
  PROVE  a \div PerDay \in Int /\ b \div PerDay \in Int /\ a \div PerDay <= b \div PerDay
<1> DEFINE P == PerDay
           q == a \div P
           r == b \div P
<1>1. P \in Nat \ {0}
  BY SubscriptionsAssumption
<1> HIDE DEF P
<1>2. /\ q \in Int /\ a = P * q + (a % P) /\ a % P \in 0 .. P - 1
      /\ r \in Int /\ b = P * r + (b % P) /\ b % P \in 0 .. P - 1
  BY <1>1
<1> HIDE DEF q, r
<1>3. ASSUME r + 1 <= q PROVE FALSE
  <2>1. P * r + P <= P * q
    BY <1>1, <1>2, <1>3
  <2> QED BY <1>1, <1>2, <2>1
<1>4. q \in Int /\ r \in Int
  BY <1>2
<1>5. ~(r + 1 <= q)
  BY <1>3
<1>6. q <= r
  BY <1>4, <1>5
<1> QED BY <1>4, <1>6 DEF q, r, P

\* What LabelOf answers, day by day.
LEMMA LabelValues ==
  ASSUME NEW day \in Int, NEW days \in Int
  PROVE  /\ days <= 0 => LabelOf(day, days) = "today"
         /\ days = 1 => LabelOf(day, days) = "yesterday"
         /\ days \in 2 .. 6 => LabelOf(day, days) = Weekday[(day % 7) + 1]
         /\ days \in 7 .. 13 => LabelOf(day, days) = "last week"
         /\ days \in 14 .. 59 => LabelOf(day, days) = "last month"
         /\ days >= 60 => LabelOf(day, days) = "older"
<1>1. ASSUME days <= 0 PROVE LabelOf(day, days) = "today"
  <2>1. days # 1 /\ days \notin 2 .. 6 /\ days \notin 7 .. 13 /\ days \notin 14 .. 59
    BY <1>1
  <2> QED BY <1>1, <2>1, Zenon DEF LabelOf
<1>2. ASSUME days = 1 PROVE LabelOf(day, days) = "yesterday"
  <2>1. ~(1 <= 0) /\ 1 \notin 2 .. 6 /\ 1 \notin 7 .. 13 /\ 1 \notin 14 .. 59
    OBVIOUS
  <2> QED BY <1>2, <2>1, Zenon DEF LabelOf
<1>3. ASSUME days \in 2 .. 6 PROVE LabelOf(day, days) = Weekday[(day % 7) + 1]
  <2>1. ~(days <= 0) /\ days # 1 /\ days \notin 7 .. 13 /\ days \notin 14 .. 59
    BY <1>3
  <2> QED BY <1>3, <2>1, Zenon DEF LabelOf
<1>4. ASSUME days \in 7 .. 13 PROVE LabelOf(day, days) = "last week"
  <2>1. ~(days <= 0) /\ days # 1 /\ days \notin 2 .. 6 /\ days \notin 14 .. 59
    BY <1>4
  <2> QED BY <1>4, <2>1, Zenon DEF LabelOf
<1>5. ASSUME days \in 14 .. 59 PROVE LabelOf(day, days) = "last month"
  <2>1. ~(days <= 0) /\ days # 1 /\ days \notin 2 .. 6 /\ days \notin 7 .. 13
    BY <1>5
  <2> QED BY <1>5, <2>1, Zenon DEF LabelOf
<1>6. ASSUME days >= 60 PROVE LabelOf(day, days) = "older"
  <2>1. /\ ~(days <= 0) /\ days # 1
        /\ days \notin 2 .. 6 /\ days \notin 7 .. 13 /\ days \notin 14 .. 59
    BY <1>6
  <2> QED BY <2>1, Zenon DEF LabelOf
<1> QED BY <1>1, <1>2, <1>3, <1>4, <1>5, <1>6

WeekdayNames == {"monday", "tuesday", "wednesday", "thursday", "friday", "saturday", "sunday"}

LEMMA WeekdayFacts ==
  /\ \A d \in Int : Weekday[(d % 7) + 1] \in WeekdayNames
  /\ \A d, e \in Int : Weekday[(d % 7) + 1] = Weekday[(e % 7) + 1] => d % 7 = e % 7
<1>1. \A k \in 1 .. 7 : Weekday[k] \in WeekdayNames
  BY DEF Weekday, WeekdayNames
<1>2. \A k, l \in 1 .. 7 : Weekday[k] = Weekday[l] => k = l
  BY DEF Weekday
<1>3. \A d \in Int : d % 7 \in Int /\ (d % 7) + 1 \in 1 .. 7
  OBVIOUS
<1> HIDE DEF Weekday
<1>4. \A d \in Int : Weekday[(d % 7) + 1] \in WeekdayNames
  BY <1>1, <1>3
<1>5. ASSUME NEW d \in Int, NEW e \in Int, Weekday[(d % 7) + 1] = Weekday[(e % 7) + 1]
      PROVE  d % 7 = e % 7
  <2>1. (d % 7) + 1 = (e % 7) + 1
    BY <1>2, <1>3, <1>5
  <2> QED BY <1>3, <2>1
<1> QED BY <1>4, <1>5

\* The kinds of labels differ, and so do their days.
Kinds(n, l) ==
  /\ l \in WeekdayNames <=> n \in 2 .. 6
  /\ l = "today" <=> n <= 0
  /\ l = "yesterday" <=> n = 1
  /\ l = "last week" <=> n \in 7 .. 13
  /\ l = "last month" <=> n \in 14 .. 59
  /\ l = "older" <=> n >= 60

LEMMA LabelKinds ==
  ASSUME NEW day \in Int, NEW days \in Int
  PROVE  Kinds(days, LabelOf(day, days))
<1> DEFINE v == LabelOf(day, days)
<1>0. \A w \in {"today", "yesterday", "last week", "last month", "older"} : w \notin WeekdayNames
  BY DEF WeekdayNames
<1>1. CASE days <= 0
  <2>1. v = "today"
    BY <1>1, LabelValues
  <2>2. v \notin WeekdayNames /\ v # "yesterday" /\ v # "last week" /\ v # "last month" /\ v # "older"
    BY <1>0, <2>1
  <2>3. ~(days = 1) /\ ~(days \in 2 .. 6) /\ ~(days \in 7 .. 13) /\ ~(days \in 14 .. 59) /\ ~(days >= 60)
    BY <1>1
  <2> QED BY <1>1, <2>1, <2>2, <2>3, Zenon DEF Kinds
<1>2. CASE days = 1
  <2>1. v = "yesterday"
    BY <1>2, LabelValues
  <2>2. v \notin WeekdayNames /\ v # "today" /\ v # "last week" /\ v # "last month" /\ v # "older"
    BY <1>0, <2>1
  <2>3. ~(days <= 0) /\ ~(days \in 2 .. 6) /\ ~(days \in 7 .. 13) /\ ~(days \in 14 .. 59) /\ ~(days >= 60)
    BY <1>2
  <2> QED BY <1>2, <2>1, <2>2, <2>3, Zenon DEF Kinds
<1>3. CASE days \in 2 .. 6
  <2>1. v \in WeekdayNames
    BY <1>3, LabelValues, WeekdayFacts
  <2>2. v # "today" /\ v # "yesterday" /\ v # "last week" /\ v # "last month" /\ v # "older"
    BY <1>0, <2>1
  <2>3. ~(days <= 0) /\ ~(days = 1) /\ ~(days \in 7 .. 13) /\ ~(days \in 14 .. 59) /\ ~(days >= 60)
    BY <1>3
  <2> QED BY <1>3, <2>1, <2>2, <2>3, Zenon DEF Kinds
<1>4. CASE days \in 7 .. 13
  <2>1. v = "last week"
    BY <1>4, LabelValues
  <2>2. v \notin WeekdayNames /\ v # "today" /\ v # "yesterday" /\ v # "last month" /\ v # "older"
    BY <1>0, <2>1
  <2>3. ~(days <= 0) /\ ~(days = 1) /\ ~(days \in 2 .. 6) /\ ~(days \in 14 .. 59) /\ ~(days >= 60)
    BY <1>4
  <2> QED BY <1>4, <2>1, <2>2, <2>3, Zenon DEF Kinds
<1>5. CASE days \in 14 .. 59
  <2>1. v = "last month"
    BY <1>5, LabelValues
  <2>2. v \notin WeekdayNames /\ v # "today" /\ v # "yesterday" /\ v # "last week" /\ v # "older"
    BY <1>0, <2>1
  <2>3. ~(days <= 0) /\ ~(days = 1) /\ ~(days \in 2 .. 6) /\ ~(days \in 7 .. 13) /\ ~(days >= 60)
    BY <1>5
  <2> QED BY <1>5, <2>1, <2>2, <2>3, Zenon DEF Kinds
<1>6. CASE days >= 60
  <2>1. v = "older"
    BY <1>6, LabelValues
  <2>2. v \notin WeekdayNames /\ v # "today" /\ v # "yesterday" /\ v # "last week" /\ v # "last month"
    BY <1>0, <2>1
  <2>3. ~(days <= 0) /\ ~(days = 1) /\ ~(days \in 2 .. 6) /\ ~(days \in 7 .. 13) /\ ~(days \in 14 .. 59)
    BY <1>6
  <2> QED BY <1>6, <2>1, <2>2, <2>3, Zenon DEF Kinds
<1> QED BY <1>1, <1>2, <1>3, <1>4, <1>5, <1>6

LEMMA SameWeekday ==
  ASSUME NEW a \in Int, NEW c \in Int, a - c \in 0 .. 4, a % 7 = c % 7
  PROVE  a = c
OBVIOUS

\* A label stands for days in a row: of five days no two have the same name.
LEMMA LabelsTogether ==
  ASSUME NEW today \in Int, NEW a \in Int, NEW b \in Int, NEW c \in Int, a >= b, b >= c
  PROVE  /\ LabelOf(a, today - a) = LabelOf(c, today - c)
              => LabelOf(b, today - b) = LabelOf(a, today - a)
         /\ LabelOf(a, today - a) = "older" => LabelOf(b, today - b) = "older"
<1> DEFINE m == today - a
           n == today - b
           o == today - c
           la == LabelOf(a, m)
           lb == LabelOf(b, n)
           lc == LabelOf(c, o)
<1>1. m \in Int /\ n \in Int /\ o \in Int /\ m <= n /\ n <= o /\ a - c = o - m
  OBVIOUS
<1>2. Kinds(m, la) /\ Kinds(n, lb) /\ Kinds(o, lc)
  <2> HIDE DEF m, n, o
  <2> QED BY <1>1, LabelKinds
<1>3. ASSUME m \in 2 .. 6, la = lc PROVE a = c
  <2>1. o \in 2 .. 6
    BY <1>2, <1>3, Zenon DEF Kinds
  <2>2. a % 7 = c % 7
    <3> HIDE DEF m, n, o
    <3>1. la = Weekday[(a % 7) + 1] /\ lc = Weekday[(c % 7) + 1]
      BY <1>1, <1>3, <2>1, LabelValues
    <3> QED BY <1>3, <3>1, WeekdayFacts
  <2>3. a - c \in 0 .. 4
    BY <1>1, <1>3, <2>1
  <2> QED BY <2>2, <2>3, SameWeekday
<1>4. ASSUME la = lc PROVE lb = la
  <2>1. CASE m \in 2 .. 6
    <3>1. b = a
      BY <1>3, <1>4, <2>1
    <3> QED BY <3>1
  <2> HIDE DEF m, n, o, la, lb, lc
  <2>2. CASE m <= 0
    <3>1. lc = "today"
      BY <1>2, <1>4, <2>2, Zenon DEF Kinds
    <3>2. o <= 0
      BY <1>2, <3>1, Zenon DEF Kinds
    <3>3. n <= 0
      BY <1>1, <2>2, <3>2
    <3> QED BY <1>2, <1>4, <3>1, <3>3, Zenon DEF Kinds
  <2>3. CASE m = 1
    <3>1. lc = "yesterday"
      BY <1>2, <1>4, <2>3, Zenon DEF Kinds
    <3>2. o = 1
      BY <1>2, <3>1, Zenon DEF Kinds
    <3>3. n = 1
      BY <1>1, <2>3, <3>2
    <3> QED BY <1>2, <1>4, <3>1, <3>3, Zenon DEF Kinds
  <2>4. CASE m \in 7 .. 13
    <3>1. lc = "last week"
      BY <1>2, <1>4, <2>4, Zenon DEF Kinds
    <3>2. o \in 7 .. 13
      BY <1>2, <3>1, Zenon DEF Kinds
    <3>3. n \in 7 .. 13
      BY <1>1, <2>4, <3>2
    <3> QED BY <1>2, <1>4, <3>1, <3>3, Zenon DEF Kinds
  <2>5. CASE m \in 14 .. 59
    <3>1. lc = "last month"
      BY <1>2, <1>4, <2>5, Zenon DEF Kinds
    <3>2. o \in 14 .. 59
      BY <1>2, <3>1, Zenon DEF Kinds
    <3>3. n \in 14 .. 59
      BY <1>1, <2>5, <3>2
    <3> QED BY <1>2, <1>4, <3>1, <3>3, Zenon DEF Kinds
  <2>6. CASE m >= 60
    <3>1. lc = "older"
      BY <1>2, <1>4, <2>6, Zenon DEF Kinds
    <3>2. o >= 60
      BY <1>2, <3>1, Zenon DEF Kinds
    <3>3. n >= 60
      BY <1>1, <2>6, <3>2
    <3> QED BY <1>2, <1>4, <3>1, <3>3, Zenon DEF Kinds
  <2> QED BY <1>1, <2>1, <2>2, <2>3, <2>4, <2>5, <2>6
<1>5. ASSUME la = "older" PROVE lb = "older"
  <2> HIDE DEF m, n, o, la, lb, lc
  <2>1. m >= 60
    BY <1>2, <1>5, Zenon DEF Kinds
  <2>2. n >= 60
    BY <1>1, <2>1
  <2> QED BY <1>2, <2>2, Zenon DEF Kinds
<1> QED BY <1>4, <1>5

LEMMA LabelsInOrder ==
  ASSUME OrderInv, now \in Nat, NEW i \in There, NEW j \in There, NEW k \in There,
         ~Newer(j, i), ~Newer(k, j), DateLabel(i) = DateLabel(k)
  PROVE  DateLabel(j) = DateLabel(i)
<1> DEFINE day(x) == feed_items[x] \div PerDay
           today == now \div PerDay
<1>1. /\ \A x \in There : feed_items[x] # Undated => feed_items[x] \in Nat
      /\ \A x \in There : feed_items[x] # Undated => day(x) \in Int
      /\ today \in Int
  <2>1. \A x \in There : feed_items[x] \in Dates \cup {Undated} /\ Dates \subseteq Nat
    BY SubscriptionsAssumption DEF OrderInv, There
  <2>2. \A x \in There : feed_items[x] # Undated => feed_items[x] \in Nat
    BY <2>1
  <2> QED BY <2>2, DaysInOrder
<1>2. \A x \in There : DateLabel(x) = IF feed_items[x] = Undated THEN "older"
                                      ELSE LabelOf(day(x), today - day(x))
  BY DEF DateLabel
<1>3. \A x, y \in There :
        ~Newer(y, x) /\ feed_items[y] # Undated =>
          feed_items[x] # Undated /\ day(x) >= day(y)
  <2> SUFFICES ASSUME NEW x \in There, NEW y \in There, ~Newer(y, x), feed_items[y] # Undated
               PROVE  feed_items[x] # Undated /\ day(x) >= day(y)
    OBVIOUS
  <2>1. feed_items[x] # Undated /\ ~(feed_items[y] > feed_items[x])
    BY DEF Newer
  <2>2. feed_items[x] \in Nat /\ feed_items[y] \in Nat /\ feed_items[y] <= feed_items[x]
    BY <1>1, <2>1
  <2> QED BY <2>1, <2>2, DaysInOrder
<1> HIDE DEF day, today
<1>4. CASE feed_items[k] # Undated
  <2>1. /\ feed_items[j] # Undated /\ feed_items[i] # Undated
        /\ day(i) >= day(j) /\ day(j) >= day(k)
    BY <1>3, <1>4
  <2>2. day(i) \in Int /\ day(j) \in Int /\ day(k) \in Int
    BY <1>1, <1>4, <2>1
  <2>3. LabelOf(day(i), today - day(i)) = LabelOf(day(k), today - day(k))
    BY <1>2, <1>4, <2>1
  <2>4. LabelOf(day(j), today - day(j)) = LabelOf(day(i), today - day(i))
    BY <1>1, <2>1, <2>2, <2>3, LabelsTogether
  <2> QED BY <1>2, <2>1, <2>4
<1>5. CASE feed_items[k] = Undated /\ feed_items[j] # Undated
  <2>1. feed_items[i] # Undated /\ day(i) >= day(j)
    BY <1>3, <1>5
  <2>2. LabelOf(day(i), today - day(i)) = "older"
    BY <1>2, <1>5, <2>1
  <2>3. day(j) >= day(j) /\ day(i) \in Int /\ day(j) \in Int
    BY <1>1, <1>5, <2>1
  <2>4. LabelOf(day(j), today - day(j)) = "older"
    BY <1>1, <2>1, <2>2, <2>3, LabelsTogether
  <2> QED BY <1>2, <1>5, <2>4
<1>6. CASE feed_items[k] = Undated /\ feed_items[j] = Undated
  BY <1>2, <1>6
<1> QED BY <1>4, <1>5, <1>6

-----------------------------------------------------------------------------
(***************************************************************************)
(* The groups of a page.  FeedsHold says what the groups of one label are  *)
(* of a set of items, TimelineHolds what all groups are of the rows so     *)
(* far; a row is added to both as the loops add it.                        *)
(***************************************************************************)
FeedGroups == [feed : Feeds, items : Seq(Items), unread : Nat]

OfFeed(S, f) == {i \in S : i[1] = f}

FeedsHold(groups, S, u) ==
  /\ groups \in Seq(FeedGroups)
  /\ \A h, k \in 1 .. Len(groups) : groups[h].feed = groups[k].feed => h = k
  /\ \A i \in S : \E h \in 1 .. Len(groups) : groups[h].feed = i[1]
  /\ \A h \in 1 .. Len(groups) :
       /\ ToSet(groups[h].items) = OfFeed(S, groups[h].feed)
       /\ groups[h].unread = Cardinality({j \in OfFeed(S, groups[h].feed) : ~IsRead(u, j)})

LEMMA AppendToSet ==
  ASSUME NEW A, NEW s \in Seq(A), NEW e \in A
  PROVE  ToSet(Append(s, e)) = ToSet(s) \cup {e}
<1> DEFINE r == Append(s, e)
<1>1. /\ r \in Seq(A) /\ Len(r) = Len(s) + 1
      /\ \A k \in 1 .. Len(s) : r[k] = s[k]
      /\ r[Len(s) + 1] = e
  BY AppendProperties
<1>2. Len(s) \in Nat /\ DOMAIN s = 1 .. Len(s) /\ DOMAIN r = 1 .. Len(s) + 1
  BY <1>1, LenProperties
<1> HIDE DEF r
<1>3. ASSUME NEW x \in ToSet(r) PROVE x \in ToSet(s) \cup {e}
  <2>1. PICK k \in 1 .. Len(s) + 1 : x = r[k]
    BY <1>2, <1>3 DEF ToSet
  <2>2. CASE k = Len(s) + 1
    BY <1>1, <2>1, <2>2
  <2>3. CASE k \in 1 .. Len(s)
    BY <1>1, <1>2, <2>1, <2>3 DEF ToSet
  <2> QED BY <1>2, <2>2, <2>3
<1>4. ASSUME NEW x \in ToSet(s) PROVE x \in ToSet(r)
  <2>1. PICK k \in 1 .. Len(s) : x = s[k]
    BY <1>2, <1>4 DEF ToSet
  <2>2. k \in 1 .. Len(s) + 1 /\ r[k] = x
    BY <1>1, <1>2, <2>1
  <2> QED BY <1>2, <2>2 DEF ToSet
<1>5. e \in ToSet(r)
  <2>1. Len(s) + 1 \in 1 .. Len(s) + 1
    BY <1>2
  <2> QED BY <1>1, <1>2, <2>1 DEF ToSet
<1> QED BY <1>3, <1>4, <1>5 DEF r

LEMMA EmptyFeeds == ASSUME NEW u PROVE FeedsHold(<<>>, {}, u)
<1>1. <<>> \in Seq(FeedGroups) /\ Len(<<>>) = 0
  BY EmptySeq
<1> QED BY <1>1 DEF FeedsHold

LEMMA CountUnread ==
  ASSUME NEW u, NEW S, IsFiniteSet(S), NEW i, i \notin S
  PROVE  Cardinality({j \in S \cup {i} : ~IsRead(u, j)})
           = Cardinality({j \in S : ~IsRead(u, j)}) + (IF IsRead(u, i) THEN 0 ELSE 1)
<1> DEFINE T == {j \in S : ~IsRead(u, j)}
<1>1. IsFiniteSet(T) /\ Cardinality(T) \in Nat /\ i \notin T
  BY FS_Subset, FS_CardinalityType
<1>2. CASE IsRead(u, i)
  <2>1. {j \in S \cup {i} : ~IsRead(u, j)} = T
    BY <1>2
  <2> HIDE DEF T
  <2>2. Cardinality(T) = Cardinality(T) + 0
    BY <1>1
  <2> QED BY <1>2, <2>1, <2>2 DEF T
<1>3. CASE ~IsRead(u, i)
  <2>1. {j \in S \cup {i} : ~IsRead(u, j)} = T \cup {i}
    BY <1>3
  <2>2. Cardinality(T \cup {i}) = Cardinality(T) + 1
    BY <1>1, FS_AddElement
  <2> QED BY <1>3, <2>1, <2>2
<1> QED BY <1>2, <1>3

LEMMA AddToFeedType ==
  ASSUME NEW groups \in Seq(FeedGroups), NEW u, NEW i \in Items
  PROVE  AddToFeed(groups, u, i) \in Seq(FeedGroups)
<1> DEFINE n == IF IsRead(u, i) THEN 0 ELSE 1
           new == [feed |-> i[1], items |-> <<i>>, unread |-> n]
           more == [k \in DOMAIN groups |->
                      IF groups[k].feed # i[1] THEN groups[k]
                      ELSE [feed |-> i[1], items |-> Append(groups[k].items, i),
                            unread |-> groups[k].unread + n]]
<1>1. i[1] \in Feeds /\ n \in Nat /\ <<i>> \in Seq(Items)
  BY DEF Items
<1>2. Append(groups, new) \in Seq(FeedGroups)
  BY <1>1, AppendProperties DEF FeedGroups
<1>3. more \in Seq(FeedGroups)
  <2>1. Len(groups) \in Nat /\ DOMAIN groups = 1 .. Len(groups)
    BY LenProperties
  <2>2. ASSUME NEW k \in DOMAIN groups PROVE more[k] \in FeedGroups
    <3>1. groups[k] \in FeedGroups
      BY <2>1, <2>2, ElementOfSeq
    <3>2. Append(groups[k].items, i) \in Seq(Items) /\ groups[k].unread + n \in Nat
      BY <1>1, <3>1, AppendProperties DEF FeedGroups
    <3> QED BY <1>1, <3>1, <3>2 DEF FeedGroups
  <2>3. more \in [1 .. Len(groups) -> FeedGroups]
    BY <2>1, <2>2
  <2> QED BY <2>1, <2>3, SeqDef
<1> QED BY <1>2, <1>3 DEF AddToFeed

\* An item that is new to the groups joins that of its feed.
LEMMA AddToFeedHolds ==
  ASSUME NEW groups, NEW S \in SUBSET Items, IsFiniteSet(S), NEW u,
         NEW i \in Items, i \notin S, FeedsHold(groups, S, u)
  PROVE  FeedsHold(AddToFeed(groups, u, i), S \cup {i}, u)
<1> DEFINE n == IF IsRead(u, i) THEN 0 ELSE 1
           after == AddToFeed(groups, u, i)
           Unread(f) == Cardinality({j \in OfFeed(S, f) : ~IsRead(u, j)})
           UnreadNow(f) == Cardinality({j \in OfFeed(S \cup {i}, f) : ~IsRead(u, j)})
<1>1. /\ groups \in Seq(FeedGroups) /\ Len(groups) \in Nat
      /\ DOMAIN groups = 1 .. Len(groups)
      /\ \A h \in 1 .. Len(groups) : groups[h] \in FeedGroups
  BY LenProperties, ElementOfSeq DEF FeedsHold
<1>2. after \in Seq(FeedGroups)
  BY <1>1, AddToFeedType
<1>3. \A f : f # i[1] => OfFeed(S \cup {i}, f) = OfFeed(S, f)
  BY DEF OfFeed
<1>4. /\ OfFeed(S \cup {i}, i[1]) = OfFeed(S, i[1]) \cup {i}
      /\ UnreadNow(i[1]) = Unread(i[1]) + n
  <2>1. OfFeed(S \cup {i}, i[1]) = OfFeed(S, i[1]) \cup {i}
    BY DEF OfFeed
  <2>2. IsFiniteSet(OfFeed(S, i[1])) /\ i \notin OfFeed(S, i[1])
    BY FS_Subset DEF OfFeed
  <2> HIDE DEF OfFeed
  <2> QED BY <2>1, <2>2, CountUnread
<1>5. /\ \A h, k \in 1 .. Len(groups) : groups[h].feed = groups[k].feed => h = k
      /\ \A j \in S : \E h \in 1 .. Len(groups) : groups[h].feed = j[1]
      /\ \A h \in 1 .. Len(groups) : /\ ToSet(groups[h].items) = OfFeed(S, groups[h].feed)
                                     /\ groups[h].unread = Unread(groups[h].feed)
  BY DEF FeedsHold
<1>6. ASSUME NEW m \in 1 .. Len(groups), groups[m].feed = i[1]
      PROVE  FeedsHold(after, S \cup {i}, u)
  <2>1. after = [k \in DOMAIN groups |->
                   IF groups[k].feed # i[1] THEN groups[k]
                   ELSE [feed |-> i[1], items |-> Append(groups[k].items, i),
                         unread |-> groups[k].unread + n]]
    BY <1>1, <1>6 DEF AddToFeed
  <2>2. Len(after) = Len(groups)
    BY <1>1, <1>2, <2>1, LenProperties
  <2>3. \A h \in 1 .. Len(groups) : after[h].feed = groups[h].feed
    BY <1>1, <2>1
  <2>4. ASSUME NEW h \in 1 .. Len(groups), groups[h].feed # i[1]
        PROVE  /\ ToSet(after[h].items) = OfFeed(S \cup {i}, after[h].feed)
               /\ after[h].unread = UnreadNow(after[h].feed)
    <3>1. after[h] = groups[h]
      BY <1>1, <2>1, <2>4
    <3>2. OfFeed(S \cup {i}, groups[h].feed) = OfFeed(S, groups[h].feed)
      BY <1>3, <2>4
    <3> HIDE DEF after
    <3> QED BY <1>5, <3>1, <3>2
  <2>5. ASSUME NEW h \in 1 .. Len(groups), groups[h].feed = i[1]
        PROVE  /\ ToSet(after[h].items) = OfFeed(S \cup {i}, after[h].feed)
               /\ after[h].unread = UnreadNow(after[h].feed)
    <3>1. /\ after[h].feed = i[1] /\ after[h].items = Append(groups[h].items, i)
          /\ after[h].unread = groups[h].unread + n
      BY <1>1, <2>1, <2>5
    <3>2. ToSet(after[h].items) = OfFeed(S, i[1]) \cup {i}
      <4>1. groups[h].items \in Seq(Items)
        BY <1>1 DEF FeedGroups
      <4>2. ToSet(Append(groups[h].items, i)) = ToSet(groups[h].items) \cup {i}
        BY <4>1, AppendToSet
      <4> QED BY <1>5, <2>5, <3>1, <4>2
    <3> HIDE DEF after, n, Unread, UnreadNow
    <3> QED BY <1>4, <1>5, <2>5, <3>1, <3>2
  <2>6. \A j \in S \cup {i} : \E h \in 1 .. Len(groups) : groups[h].feed = j[1]
    BY <1>5, <1>6
  <2> HIDE DEF after
  <2> QED BY <1>2, <1>5, <2>2, <2>3, <2>4, <2>5, <2>6 DEF FeedsHold
<1>7. ASSUME \A m \in 1 .. Len(groups) : groups[m].feed # i[1]
      PROVE  FeedsHold(after, S \cup {i}, u)
  <2> DEFINE new == [feed |-> i[1], items |-> <<i>>, unread |-> n]
  <2>1. after = Append(groups, new)
    BY <1>1, <1>7 DEF AddToFeed
  <2>2. i[1] \in Feeds /\ n \in Nat /\ new \in FeedGroups
    BY DEF Items, FeedGroups
  <2>3. /\ Len(after) = Len(groups) + 1
        /\ \A h \in 1 .. Len(groups) : after[h] = groups[h]
        /\ after[Len(groups) + 1] = new
    BY <1>1, <2>1, <2>2, AppendProperties
  <2>4. OfFeed(S, i[1]) = {} /\ Unread(i[1]) = 0
    <3>1. OfFeed(S, i[1]) = {}
      BY <1>5, <1>7 DEF OfFeed
    <3> QED BY <3>1, FS_EmptySet
  <2>5. ToSet(<<i>>) = {i}
    BY DEF ToSet
  <2>6. /\ ToSet(new.items) = OfFeed(S \cup {i}, new.feed)
        /\ new.unread = UnreadNow(new.feed) /\ new.feed = i[1]
    <3> HIDE DEF Unread, UnreadNow, n
    <3> QED BY <1>4, <2>2, <2>4, <2>5
  <2> HIDE DEF after, new, Unread, UnreadNow
  <2>7. ASSUME NEW h \in 1 .. Len(groups) + 1
        PROVE  /\ ToSet(after[h].items) = OfFeed(S \cup {i}, after[h].feed)
               /\ after[h].unread = UnreadNow(after[h].feed)
    <3>1. CASE h = Len(groups) + 1
      BY <2>3, <2>6, <3>1
    <3>2. CASE h \in 1 .. Len(groups)
      <4>1. after[h] = groups[h] /\ groups[h].feed # i[1]
        BY <1>7, <2>3, <3>2
      <4>2. OfFeed(S \cup {i}, groups[h].feed) = OfFeed(S, groups[h].feed)
        BY <1>3, <4>1
      <4> QED BY <1>5, <3>2, <4>1, <4>2 DEF Unread, UnreadNow
    <3> QED BY <1>1, <3>1, <3>2
  <2>8. \A h, k \in 1 .. Len(groups) + 1 : after[h].feed = after[k].feed => h = k
    BY <1>1, <1>5, <1>7, <2>3, <2>6
  <2>9. \A j \in S \cup {i} : \E h \in 1 .. Len(groups) + 1 : after[h].feed = j[1]
    <3>1. Len(groups) + 1 \in 1 .. Len(groups) + 1
          /\ 1 .. Len(groups) \subseteq 1 .. Len(groups) + 1
      BY <1>1
    <3> QED BY <1>5, <2>3, <2>6, <3>1
  <2> QED BY <1>2, <2>3, <2>7, <2>8, <2>9 DEF FeedsHold, UnreadNow
<1> QED BY <1>6, <1>7

\* Those of the first rows that bear a label.
UpTo(rows, k, label) == {rows[m] : m \in {x \in 1 .. k : DateLabel(rows[x]) = label}}

DateLabels == {DateLabel(i) : i \in Items}

\* Rows of which no two are the same and those of one label are together.
InRuns(rows) ==
  /\ rows \in Seq(Items)
  /\ \A j, k \in 1 .. Len(rows) : j # k => rows[j] # rows[k]
  /\ \A j, k, m \in 1 .. Len(rows) :
       j < k /\ k < m /\ DateLabel(rows[j]) = DateLabel(rows[m])
         => DateLabel(rows[k]) = DateLabel(rows[j])

LEMMA UpToFacts ==
  ASSUME NEW rows, InRuns(rows), NEW k \in 1 .. Len(rows)
  PROVE  LET l == DateLabel(rows[k])
         IN  /\ rows[k] \in Items /\ l \in DateLabels
             /\ \A label : label # l => UpTo(rows, k, label) = UpTo(rows, k - 1, label)
             /\ UpTo(rows, k, l) = UpTo(rows, k - 1, l) \cup {rows[k]}
             /\ \A label : /\ UpTo(rows, k - 1, label) \in SUBSET Items
                           /\ IsFiniteSet(UpTo(rows, k - 1, label))
                           /\ rows[k] \notin UpTo(rows, k - 1, label)
<1> DEFINE l == DateLabel(rows[k])
<1>1. /\ Len(rows) \in Nat /\ \A m \in 1 .. Len(rows) : rows[m] \in Items
      /\ \A m \in 1 .. k - 1 : m \in 1 .. Len(rows) /\ m # k /\ m \in 1 .. k
      /\ k \in 1 .. k
      /\ \A m \in 1 .. k : m \in 1 .. k - 1 \/ m = k
  BY LenProperties, ElementOfSeq DEF InRuns
<1>2. \A label : label # l => UpTo(rows, k, label) = UpTo(rows, k - 1, label)
  BY <1>1 DEF UpTo
<1>3. UpTo(rows, k, l) = UpTo(rows, k - 1, l) \cup {rows[k]}
  BY <1>1 DEF UpTo
<1>4. ASSUME NEW label
      PROVE  /\ UpTo(rows, k - 1, label) \in SUBSET Items
             /\ IsFiniteSet(UpTo(rows, k - 1, label))
             /\ rows[k] \notin UpTo(rows, k - 1, label)
  <2> DEFINE D == {x \in 1 .. k - 1 : DateLabel(rows[x]) = label}
  <2>1. IsFiniteSet(1 .. k - 1)
    BY FS_Interval
  <2>2. IsFiniteSet(D)
    BY <2>1, FS_Subset
  <2>3. IsFiniteSet({rows[m] : m \in D})
    <3> DEFINE f == [m \in D |-> rows[m]]
               T == {rows[m] : m \in D}
    <3>1. f \in Surjection(D, T)
      BY DEF Surjection
    <3> HIDE DEF D, f, T
    <3>2. IsFiniteSet(T)
      BY <2>2, <3>1, FS_Surjection
    <3> QED BY <3>2 DEF T
  <2>4. \A m \in D : m \in 1 .. Len(rows) /\ m # k
    BY <1>1
  <2>5. UpTo(rows, k - 1, label) = {rows[m] : m \in D}
    BY DEF UpTo
  <2> HIDE DEF D
  <2> QED BY <1>1, <2>3, <2>4, <2>5 DEF InRuns
<1>5. l \in DateLabels
  BY <1>1 DEF DateLabels
<1> QED BY <1>1, <1>2, <1>3, <1>4, <1>5

\* What the groups have in common, of the timeline and of the page of a feed: one
\* for every label up to the k-th row, the last for the label of that.
LabelsHold(groups, rows, k) ==
  /\ IF k = 0 THEN Len(groups) = 0
     ELSE Len(groups) > 0 /\ groups[Len(groups)].label = DateLabel(rows[k])
  /\ \A g, h \in 1 .. Len(groups) : groups[g].label = groups[h].label => g = h
  /\ \A g \in 1 .. Len(groups) : \E m \in 1 .. k : groups[g].label = DateLabel(rows[m])
  /\ \A m \in 1 .. k : \E g \in 1 .. Len(groups) : groups[g].label = DateLabel(rows[m])

\* The row joins the last group or opens a new one.
Same(groups, row) == Len(groups) > 0 /\ groups[Len(groups)].label = DateLabel(row)

Joined(groups, after, row) ==
  /\ Len(groups) \in Nat
  /\ Len(after) = IF Same(groups, row) THEN Len(groups) ELSE Len(groups) + 1
  /\ \A g \in 1 .. Len(groups) : after[g].label = groups[g].label
  /\ after[Len(after)].label = DateLabel(row)

LEMMA LabelsStep ==
  ASSUME NEW rows, InRuns(rows), NEW k \in 1 .. Len(rows), NEW j, j = k - 1,
         NEW groups, NEW after, LabelsHold(groups, rows, j), Joined(groups, after, rows[k])
  PROVE  /\ LabelsHold(after, rows, k)
         /\ ~Same(groups, rows[k]) => UpTo(rows, j, DateLabel(rows[k])) = {}
         /\ \A g \in 1 .. Len(after) : g # Len(after) =>
              g \in 1 .. Len(groups) /\ groups[g].label # DateLabel(rows[k])
<1> DEFINE l == DateLabel(rows[k])
           L(m) == DateLabel(rows[m])
<1>0. /\ Len(groups) \in Nat
      /\ Len(after) = IF Same(groups, rows[k]) THEN Len(groups) ELSE Len(groups) + 1
      /\ \A g \in 1 .. Len(groups) : after[g].label = groups[g].label
      /\ after[Len(after)].label = DateLabel(rows[k])
  BY DEF Joined
<1>1. /\ Len(rows) \in Nat /\ k # 0 /\ k - 1 \in Nat
      /\ 1 .. k - 1 \subseteq 1 .. k /\ 1 .. k - 1 \subseteq 1 .. Len(rows) /\ k \in 1 .. k
      /\ \A m \in 1 .. k : m \in 1 .. k - 1 \/ m = k
  BY LenProperties DEF InRuns
<1>2. /\ k - 1 = 0 => Len(groups) = 0
      /\ k - 1 # 0 => Len(groups) > 0 /\ groups[Len(groups)].label = L(k - 1)
      /\ \A g, h \in 1 .. Len(groups) : groups[g].label = groups[h].label => g = h
      /\ \A g \in 1 .. Len(groups) : \E m \in 1 .. k - 1 : groups[g].label = L(m)
      /\ \A m \in 1 .. k - 1 : \E g \in 1 .. Len(groups) : groups[g].label = L(m)
  BY DEF LabelsHold
<1>3. ASSUME ~Same(groups, rows[k]), NEW m \in 1 .. k - 1, L(m) = l
      PROVE  FALSE
  <2>1. k - 1 # 0 /\ k - 1 \in 1 .. Len(rows) /\ k - 1 < k
    BY <1>1
  <2>2. L(k - 1) # l
    BY <1>2, <1>3, <2>1 DEF Same
  <2>3. m # k - 1
    BY <1>3, <2>2
  <2>4. m < k - 1 /\ m \in 1 .. Len(rows)
    BY <1>1, <2>3
  <2>5. L(k - 1) = L(m)
    BY <1>3, <2>1, <2>4 DEF InRuns
  <2> QED BY <1>3, <2>2, <2>5
<1>4. ASSUME ~Same(groups, rows[k]) PROVE UpTo(rows, k - 1, l) = {}
  BY <1>3, <1>4 DEF UpTo
<1> HIDE DEF l, L
<1>5. l = L(k)
  BY DEF l, L
<1>6. /\ Len(after) \in Nat /\ Len(after) > 0 /\ Len(after) \in 1 .. Len(after)
      /\ 1 .. Len(groups) \subseteq 1 .. Len(after)
      /\ after[Len(after)].label = l
  BY <1>0 DEF Same, l
<1>7. ASSUME NEW g \in 1 .. Len(after), g # Len(after)
      PROVE  g \in 1 .. Len(groups) /\ groups[g].label # l
  <2>1. CASE Same(groups, rows[k])
    <3>1. /\ Len(after) = Len(groups) /\ Len(groups) \in 1 .. Len(groups)
          /\ groups[Len(groups)].label = l
      BY <1>0, <1>6, <2>1 DEF Same, l
    <3> QED BY <1>2, <1>7, <3>1
  <2>2. CASE ~Same(groups, rows[k])
    <3>1. g \in 1 .. Len(groups)
      BY <1>0, <1>7, <2>2
    <3>2. PICK m \in 1 .. k - 1 : groups[g].label = L(m)
      BY <1>2, <3>1
    <3>3. L(m) # l
      BY <1>3, <2>2
    <3> QED BY <3>1, <3>2, <3>3
  <2> QED BY <2>1, <2>2
<1>8. \A g, h \in 1 .. Len(after) : after[g].label = after[h].label => g = h
  BY <1>0, <1>2, <1>6, <1>7
<1>9. ASSUME NEW g \in 1 .. Len(after) PROVE \E m \in 1 .. k : after[g].label = L(m)
  <2>1. CASE g = Len(after)
    BY <1>1, <1>5, <1>6, <2>1
  <2>2. CASE g # Len(after)
    <3>1. g \in 1 .. Len(groups) /\ after[g].label = groups[g].label
      BY <1>0, <1>7, <2>2
    <3>2. PICK m \in 1 .. k - 1 : groups[g].label = L(m)
      BY <1>2, <3>1
    <3>3. m \in 1 .. k /\ after[g].label = L(m)
      BY <1>1, <3>1, <3>2
    <3> QED BY <3>3
  <2> QED BY <2>1, <2>2
<1>10. ASSUME NEW m \in 1 .. k PROVE \E g \in 1 .. Len(after) : after[g].label = L(m)
  <2>1. CASE m = k
    BY <1>5, <1>6, <2>1
  <2>2. CASE m \in 1 .. k - 1
    <3>1. PICK g \in 1 .. Len(groups) : groups[g].label = L(m)
      BY <1>2, <2>2
    <3>2. g \in 1 .. Len(after) /\ after[g].label = L(m)
      BY <1>0, <1>6, <3>1
    <3> QED BY <3>2
  <2> QED BY <1>1, <2>1, <2>2
<1>11. LabelsHold(after, rows, k)
  BY <1>1, <1>6, <1>8, <1>9, <1>10 DEF LabelsHold, l, L
<1> QED BY <1>4, <1>7, <1>11 DEF l

-----------------------------------------------------------------------------
TimelineGroups == [label : DateLabels, feeds : Seq(FeedGroups)]

TimelineHolds(groups, rows, k, u) ==
  /\ groups \in Seq(TimelineGroups)
  /\ LabelsHold(groups, rows, k)
  /\ \A g \in 1 .. Len(groups) : FeedsHold(groups[g].feeds, UpTo(rows, k, groups[g].label), u)

LEMMA AddToTimelineType ==
  ASSUME NEW groups \in Seq(TimelineGroups), NEW u, NEW i \in Items
  PROVE  AddToTimeline(groups, u, i) \in Seq(TimelineGroups)
<1> DEFINE n == Len(groups)
           more == AddToFeed(groups[n].feeds, u, i)
<1>1. /\ n \in Nat /\ DOMAIN groups = 1 .. n /\ groups # <<>> => n \in 1 .. n
      /\ \A g \in 1 .. n : groups[g] \in TimelineGroups
  BY LenProperties, ElementOfSeq, EmptySeq
<1>2. CASE Same(groups, i)
  <2>1. n \in 1 .. n /\ groups # <<>> /\ groups[n] \in TimelineGroups
    BY <1>1, <1>2 DEF Same
  <2>2. more \in Seq(FeedGroups)
    BY <2>1, AddToFeedType DEF TimelineGroups
  <2>3. [groups[n] EXCEPT !.feeds = more] \in TimelineGroups
    BY <2>1, <2>2 DEF TimelineGroups
  <2>4. AddToTimeline(groups, u, i)
          = [groups EXCEPT ![n] = [groups[n] EXCEPT !.feeds = more]]
    BY <1>2, <2>1 DEF AddToTimeline, Same
  <2> HIDE DEF more
  <2> QED BY <2>1, <2>3, <2>4, ExceptSeq
<1>3. CASE ~Same(groups, i)
  <2> DEFINE new == [label |-> DateLabel(i), feeds |-> AddToFeed(<<>>, u, i)]
  <2>1. AddToTimeline(groups, u, i) = Append(groups, new)
    BY <1>1, <1>3 DEF AddToTimeline, Same
  <2>2. <<>> \in Seq(FeedGroups)
    BY EmptySeq
  <2>3. new \in TimelineGroups
    BY <2>2, AddToFeedType DEF TimelineGroups, DateLabels
  <2> HIDE DEF new
  <2> QED BY <2>1, <2>3, AppendProperties
<1> QED BY <1>2, <1>3

LEMMA AddToTimelineHolds ==
  ASSUME NEW rows, InRuns(rows), NEW k \in 1 .. Len(rows), NEW u, NEW groups,
         TimelineHolds(groups, rows, k - 1, u)
  PROVE  TimelineHolds(AddToTimeline(groups, u, rows[k]), rows, k, u)
<1> DEFINE i == rows[k]
           l == DateLabel(i)
           n == Len(groups)
           j == k - 1
           after == AddToTimeline(groups, u, i)
<1>0. j = k - 1
  OBVIOUS
<1>1. /\ i \in Items /\ l \in DateLabels
      /\ \A label : label # l => UpTo(rows, k, label) = UpTo(rows, j, label)
      /\ UpTo(rows, k, l) = UpTo(rows, j, l) \cup {i}
      /\ \A label : /\ UpTo(rows, j, label) \in SUBSET Items
                    /\ IsFiniteSet(UpTo(rows, j, label))
                    /\ i \notin UpTo(rows, j, label)
  BY UpToFacts
<1>2. /\ groups \in Seq(TimelineGroups) /\ n \in Nat /\ DOMAIN groups = 1 .. n
      /\ groups # <<>> => n \in 1 .. n
      /\ LabelsHold(groups, rows, j)
      /\ \A g \in 1 .. n : FeedsHold(groups[g].feeds, UpTo(rows, j, groups[g].label), u)
  BY LenProperties, EmptySeq DEF TimelineHolds
<1> HIDE DEF j
<1>3. after \in Seq(TimelineGroups)
  BY <1>1, <1>2, AddToTimelineType
<1>4. ASSUME NEW S \in SUBSET Items, IsFiniteSet(S), i \notin S, NEW feedgroups,
             FeedsHold(feedgroups, S, u)
      PROVE  FeedsHold(AddToFeed(feedgroups, u, i), S \cup {i}, u)
  BY <1>1, <1>4, AddToFeedHolds
<1>5. CASE Same(groups, i)
  <2> DEFINE last == [groups[n] EXCEPT !.feeds = AddToFeed(groups[n].feeds, u, i)]
  <2>1. n \in 1 .. n /\ groups # <<>> /\ groups[n] \in TimelineGroups /\ groups[n].label = l
    BY <1>2, <1>5, ElementOfSeq DEF Same
  <2>2. after = [groups EXCEPT ![n] = last]
    BY <1>5, <2>1 DEF AddToTimeline, Same
  <2>3. last.label = l /\ last.feeds = AddToFeed(groups[n].feeds, u, i)
    BY <2>1 DEF TimelineGroups
  <2>4. Len(after) = n /\ \A g \in 1 .. n : after[g] = IF g = n THEN last ELSE groups[g]
    <3> HIDE DEF last, after
    <3>1. Len(after) = Len(groups)
      BY <1>2, <2>1, <2>2, <1>3, LenProperties
    <3> QED BY <1>2, <2>2, <3>1
  <2>5. FeedsHold(last.feeds, UpTo(rows, k, l), u)
    <3>1. FeedsHold(groups[n].feeds, UpTo(rows, j, l), u)
      BY <1>2, <2>1
    <3> HIDE DEF last, i, l
    <3> QED BY <1>1, <1>4, <2>3, <3>1
  <2> HIDE DEF after, last, l, i
  <2>6. Joined(groups, after, rows[k])
    <3>1. Same(groups, rows[k]) /\ DateLabel(rows[k]) = l
      BY <1>5 DEF i, l
    <3> QED BY <1>2, <2>1, <2>3, <2>4, <3>1 DEF Joined
  <2>7. /\ LabelsHold(after, rows, k)
        /\ \A g \in 1 .. Len(after) : g # Len(after) => groups[g].label # l
    <3>1. /\ LabelsHold(after, rows, k)
          /\ \A g \in 1 .. Len(after) : g # Len(after) =>
               g \in 1 .. Len(groups) /\ groups[g].label # DateLabel(rows[k])
      BY <1>0, <1>2, <2>6, LabelsStep
    <3> QED BY <3>1 DEF i, l
  <2>8. ASSUME NEW g \in 1 .. n
        PROVE  FeedsHold(after[g].feeds, UpTo(rows, k, after[g].label), u)
    <3>1. CASE g = n
      BY <2>1, <2>3, <2>4, <2>5, <3>1
    <3>2. CASE g # n
      BY <1>1, <1>2, <2>4, <2>7, <3>2
    <3> QED BY <3>1, <3>2
  <2> QED BY <1>3, <2>4, <2>7, <2>8 DEF TimelineHolds, i, after
<1>6. CASE ~Same(groups, i)
  <2> DEFINE new == [label |-> l, feeds |-> AddToFeed(<<>>, u, i)]
  <2>1. after = Append(groups, new)
    <3>1. ~(groups # <<>> /\ groups[Len(groups)].label = DateLabel(i))
      BY <1>2, <1>6 DEF Same
    <3> QED BY <3>1, Zenon DEF AddToTimeline
  <2>2. new \in TimelineGroups
    <3>1. <<>> \in Seq(FeedGroups)
      BY EmptySeq
    <3> QED BY <1>1, <3>1, AddToFeedType DEF TimelineGroups
  <2>3. new.label = l /\ new.feeds = AddToFeed(<<>>, u, i)
    OBVIOUS
  <2> HIDE DEF new, l, i
  <2>4. Len(after) = n + 1 /\ after[n + 1] = new /\ \A g \in 1 .. n : after[g] = groups[g]
    BY <1>2, <2>1, <2>2, AppendProperties
  <2> HIDE DEF after
  <2>5. Joined(groups, after, rows[k])
    <3>1. ~Same(groups, rows[k]) /\ DateLabel(rows[k]) = l
      BY <1>6 DEF i, l
    <3> QED BY <1>2, <2>3, <2>4, <3>1 DEF Joined
  <2>6. /\ LabelsHold(after, rows, k) /\ UpTo(rows, j, l) = {}
        /\ \A g \in 1 .. Len(after) : g # Len(after) =>
             g \in 1 .. n /\ groups[g].label # l
    <3>1. ~Same(groups, rows[k])
      BY <1>6 DEF i
    <3>2. /\ LabelsHold(after, rows, k) /\ UpTo(rows, j, DateLabel(rows[k])) = {}
          /\ \A g \in 1 .. Len(after) : g # Len(after) =>
               g \in 1 .. Len(groups) /\ groups[g].label # DateLabel(rows[k])
      BY <1>0, <1>2, <2>5, <3>1, LabelsStep
    <3> QED BY <3>2 DEF i, l
  <2>7. FeedsHold(new.feeds, UpTo(rows, k, l), u)
    <3>1. FeedsHold(AddToFeed(<<>>, u, i), UpTo(rows, j, l) \cup {i}, u)
      BY <1>1, <1>4, <2>6, EmptyFeeds
    <3> QED BY <1>1, <2>3, <3>1
  <2>8. ASSUME NEW g \in 1 .. Len(after)
        PROVE  FeedsHold(after[g].feeds, UpTo(rows, k, after[g].label), u)
    <3>1. CASE g = Len(after)
      BY <2>3, <2>4, <2>7, <3>1
    <3>2. CASE g # Len(after)
      <4>1. g \in 1 .. n /\ groups[g].label # l
        BY <2>6, <3>2
      <4> QED BY <1>1, <1>2, <2>4, <4>1
    <3> QED BY <3>1, <3>2
  <2> QED BY <1>3, <2>6, <2>8 DEF TimelineHolds, i, after
<1> QED BY <1>5, <1>6

\* What the loop computes.
LEMMA GroupTimelineHolds ==
  ASSUME NEW rows, InRuns(rows), NEW u
  PROVE  TimelineHolds(GroupTimeline(rows, u), rows, Len(rows), u)
<1> DEFINE A == Seq(TimelineGroups)
           n == Len(rows)
           Loop(f) == f = [k \in 0 .. n |->
                             IF k = 0 THEN <<>> ELSE AddToTimeline(f[k - 1], u, rows[k])]
           round == [k \in 1 .. n |-> [gs \in A |-> AddToTimeline(gs, u, rows[k])]]
           groups == CHOOSE f : Loop(f)
<1>1. n \in Nat /\ \A k \in 1 .. n : rows[k] \in Items
  BY LenProperties, ElementOfSeq DEF InRuns
<1>2. \E f : Loop(f)
  <2>1. \A k \in 1 .. n : [gs \in A |-> AddToTimeline(gs, u, rows[k])] \in [A -> A]
    BY <1>1, AddToTimelineType
  <2> DEFINE start == <<>>
  <2>2. round \in [1 .. n -> [A -> A]] /\ start \in A /\ n \in Nat
    BY <1>1, <2>1, EmptySeq
  <2>3. \A k \in 1 .. n : \A gs \in A : round[k][gs] = AddToTimeline(gs, u, rows[k])
    OBVIOUS
  <2> HIDE DEF round, A, n, start
  <2>4. PICK f \in [0 .. n -> A] : f[0] = start /\ \A k \in 1 .. n : f[k] = round[k][f[k - 1]]
    BY <2>2, LoopExists
  <2>5. \A k \in 1 .. n : k - 1 \in 0 .. n /\ f[k - 1] \in A
    BY <1>1 DEF n
  <2>6. \A k \in 0 .. n : f[k] = IF k = 0 THEN <<>> ELSE AddToTimeline(f[k - 1], u, rows[k])
    BY <1>1, <2>3, <2>4, <2>5 DEF start, n
  <2>7. Loop(f)
    BY <2>6 DEF n
  <2> QED BY <2>7
<1>3. Loop(groups)
  BY <1>2
<1>4. GroupTimeline(rows, u) = groups[n]
  BY DEF GroupTimeline
<1> HIDE DEF groups
<1>5. /\ groups[0] = <<>>
      /\ \A k \in 1 .. n : groups[k] = AddToTimeline(groups[k - 1], u, rows[k])
  BY <1>1, <1>3
<1> DEFINE S == {k \in Nat : k <= n => TimelineHolds(groups[k], rows, k, u)}
<1>6. 0 \in S
  <2>1. <<>> \in A /\ Len(<<>>) = 0
    BY EmptySeq
  <2>2. TimelineHolds(<<>>, rows, 0, u)
    BY <2>1 DEF TimelineHolds, LabelsHold
  <2> QED BY <1>5, <2>2
<1>7. ASSUME NEW k \in Nat, k \in S PROVE k + 1 \in S
  <2> SUFFICES ASSUME k + 1 <= n PROVE TimelineHolds(groups[k + 1], rows, k + 1, u)
    OBVIOUS
  <2>1. k + 1 \in 1 .. n /\ (k + 1) - 1 = k /\ TimelineHolds(groups[k], rows, k, u)
    BY <1>1, <1>7
  <2>2. groups[k + 1] = AddToTimeline(groups[k], u, rows[k + 1])
    BY <1>5, <2>1
  <2> QED BY <2>1, <2>2, AddToTimelineHolds
<1>8. n \in S
  <2> HIDE DEF S
  <2> QED BY <1>1, <1>6, <1>7, Induction
<1> QED BY <1>4, <1>8

-----------------------------------------------------------------------------
PageGroups == [label : DateLabels, items : Seq(Items)]

PageHolds(groups, rows, k) ==
  /\ groups \in Seq(PageGroups)
  /\ LabelsHold(groups, rows, k)
  /\ \A g \in 1 .. Len(groups) : ToSet(groups[g].items) = UpTo(rows, k, groups[g].label)

LEMMA AddToPageType ==
  ASSUME NEW groups \in Seq(PageGroups), NEW i \in Items
  PROVE  AddToPage(groups, i) \in Seq(PageGroups)
<1> DEFINE n == Len(groups)
           more == Append(groups[n].items, i)
<1>1. /\ n \in Nat /\ DOMAIN groups = 1 .. n /\ groups # <<>> => n \in 1 .. n
      /\ \A g \in 1 .. n : groups[g] \in PageGroups
  BY LenProperties, ElementOfSeq, EmptySeq
<1>2. CASE Same(groups, i)
  <2>1. n \in 1 .. n /\ groups # <<>> /\ groups[n] \in PageGroups
    BY <1>1, <1>2 DEF Same
  <2>2. more \in Seq(Items)
    BY <2>1, AppendProperties DEF PageGroups
  <2>3. [groups[n] EXCEPT !.items = more] \in PageGroups
    BY <2>1, <2>2 DEF PageGroups
  <2>4. AddToPage(groups, i) = [groups EXCEPT ![n] = [groups[n] EXCEPT !.items = more]]
    BY <1>2, <2>1 DEF AddToPage, Same
  <2> HIDE DEF more
  <2> QED BY <2>1, <2>3, <2>4, ExceptSeq
<1>3. CASE ~Same(groups, i)
  <2> DEFINE new == [label |-> DateLabel(i), items |-> <<i>>]
  <2>1. AddToPage(groups, i) = Append(groups, new)
    <3>1. ~(groups # <<>> /\ groups[Len(groups)].label = DateLabel(i))
      BY <1>1, <1>3 DEF Same
    <3> QED BY <3>1, Zenon DEF AddToPage
  <2>2. new \in PageGroups
    BY DEF PageGroups, DateLabels
  <2> HIDE DEF new
  <2> QED BY <2>1, <2>2, AppendProperties
<1> QED BY <1>2, <1>3

LEMMA AddToPageHolds ==
  ASSUME NEW rows, InRuns(rows), NEW k \in 1 .. Len(rows), NEW groups,
         PageHolds(groups, rows, k - 1)
  PROVE  PageHolds(AddToPage(groups, rows[k]), rows, k)
<1> DEFINE i == rows[k]
           l == DateLabel(i)
           n == Len(groups)
           j == k - 1
           after == AddToPage(groups, i)
<1>0. j = k - 1
  OBVIOUS
<1>1. /\ i \in Items /\ l \in DateLabels
      /\ \A label : label # l => UpTo(rows, k, label) = UpTo(rows, j, label)
      /\ UpTo(rows, k, l) = UpTo(rows, j, l) \cup {i}
  BY UpToFacts
<1>2. /\ groups \in Seq(PageGroups) /\ n \in Nat /\ DOMAIN groups = 1 .. n
      /\ groups # <<>> => n \in 1 .. n
      /\ LabelsHold(groups, rows, j)
      /\ \A g \in 1 .. n : ToSet(groups[g].items) = UpTo(rows, j, groups[g].label)
  BY LenProperties, EmptySeq DEF PageHolds
<1> HIDE DEF j
<1>3. after \in Seq(PageGroups)
  BY <1>1, <1>2, AddToPageType
<1>4. CASE Same(groups, i)
  <2> DEFINE last == [groups[n] EXCEPT !.items = Append(groups[n].items, i)]
  <2>1. n \in 1 .. n /\ groups # <<>> /\ groups[n] \in PageGroups /\ groups[n].label = l
    BY <1>2, <1>4, ElementOfSeq DEF Same
  <2>2. after = [groups EXCEPT ![n] = last]
    BY <1>4, <2>1 DEF AddToPage, Same
  <2>3. last.label = l /\ last.items = Append(groups[n].items, i)
    BY <2>1 DEF PageGroups
  <2>4. Len(after) = n /\ \A g \in 1 .. n : after[g] = IF g = n THEN last ELSE groups[g]
    <3> HIDE DEF last, after
    <3>1. Len(after) = Len(groups)
      BY <1>2, <2>1, <2>2, <1>3, LenProperties
    <3> QED BY <1>2, <2>2, <3>1
  <2>5. ToSet(last.items) = UpTo(rows, k, l)
    <3>1. ToSet(groups[n].items) = UpTo(rows, j, l) /\ groups[n].items \in Seq(Items)
      BY <1>2, <2>1 DEF PageGroups
    <3>2. ToSet(Append(groups[n].items, i)) = ToSet(groups[n].items) \cup {i}
      BY <1>1, <3>1, AppendToSet
    <3> HIDE DEF last, i, l
    <3> QED BY <1>1, <2>3, <3>1, <3>2
  <2> HIDE DEF after, last, l, i
  <2>6. Joined(groups, after, rows[k])
    <3>1. Same(groups, rows[k]) /\ DateLabel(rows[k]) = l
      BY <1>4 DEF i, l
    <3> QED BY <1>2, <2>1, <2>3, <2>4, <3>1 DEF Joined
  <2>7. /\ LabelsHold(after, rows, k)
        /\ \A g \in 1 .. Len(after) : g # Len(after) => groups[g].label # l
    BY <1>0, <1>2, <2>6, LabelsStep DEF i, l
  <2>8. ASSUME NEW g \in 1 .. n
        PROVE  ToSet(after[g].items) = UpTo(rows, k, after[g].label)
    <3>1. CASE g = n
      BY <2>1, <2>3, <2>4, <2>5, <3>1
    <3>2. CASE g # n
      BY <1>1, <1>2, <2>4, <2>7, <3>2
    <3> QED BY <3>1, <3>2
  <2> QED BY <1>3, <2>4, <2>7, <2>8 DEF PageHolds, i, after
<1>5. CASE ~Same(groups, i)
  <2> DEFINE new == [label |-> l, items |-> <<i>>]
  <2>1. after = Append(groups, new)
    <3>1. ~(groups # <<>> /\ groups[Len(groups)].label = DateLabel(i))
      BY <1>2, <1>5 DEF Same
    <3> QED BY <3>1, Zenon DEF AddToPage
  <2>2. new \in PageGroups
    BY <1>1 DEF PageGroups
  <2>3. new.label = l /\ ToSet(new.items) = {i}
    BY DEF ToSet
  <2> HIDE DEF new, l, i
  <2>4. Len(after) = n + 1 /\ after[n + 1] = new /\ \A g \in 1 .. n : after[g] = groups[g]
    BY <1>2, <2>1, <2>2, AppendProperties
  <2> HIDE DEF after
  <2>5. Joined(groups, after, rows[k])
    <3>1. ~Same(groups, rows[k]) /\ DateLabel(rows[k]) = l
      BY <1>5 DEF i, l
    <3> QED BY <1>2, <2>3, <2>4, <3>1 DEF Joined
  <2>6. /\ LabelsHold(after, rows, k) /\ UpTo(rows, j, l) = {}
        /\ \A g \in 1 .. Len(after) : g # Len(after) =>
             g \in 1 .. n /\ groups[g].label # l
    BY <1>0, <1>2, <1>5, <2>5, LabelsStep DEF i, l
  <2>7. ToSet(new.items) = UpTo(rows, k, l)
    BY <1>1, <2>3, <2>6
  <2>8. ASSUME NEW g \in 1 .. Len(after)
        PROVE  ToSet(after[g].items) = UpTo(rows, k, after[g].label)
    <3>1. CASE g = Len(after)
      BY <2>3, <2>4, <2>7, <3>1
    <3>2. CASE g # Len(after)
      <4>1. g \in 1 .. n /\ groups[g].label # l
        BY <2>6, <3>2
      <4> QED BY <1>1, <1>2, <2>4, <4>1
    <3> QED BY <3>1, <3>2
  <2> QED BY <1>3, <2>6, <2>8 DEF PageHolds, i, after
<1> QED BY <1>4, <1>5

LEMMA GroupFeedItemsHolds ==
  ASSUME NEW rows, InRuns(rows)
  PROVE  PageHolds(GroupFeedItems(rows), rows, Len(rows))
<1> DEFINE A == Seq(PageGroups)
           n == Len(rows)
           Loop(f) == f = [k \in 0 .. n |->
                             IF k = 0 THEN <<>> ELSE AddToPage(f[k - 1], rows[k])]
           round == [k \in 1 .. n |-> [gs \in A |-> AddToPage(gs, rows[k])]]
           groups == CHOOSE f : Loop(f)
<1>1. n \in Nat /\ \A k \in 1 .. n : rows[k] \in Items
  BY LenProperties, ElementOfSeq DEF InRuns
<1>2. \E f : Loop(f)
  <2>1. \A k \in 1 .. n : [gs \in A |-> AddToPage(gs, rows[k])] \in [A -> A]
    BY <1>1, AddToPageType
  <2> DEFINE start == <<>>
  <2>2. round \in [1 .. n -> [A -> A]] /\ start \in A /\ n \in Nat
    BY <1>1, <2>1, EmptySeq
  <2>3. \A k \in 1 .. n : \A gs \in A : round[k][gs] = AddToPage(gs, rows[k])
    OBVIOUS
  <2> HIDE DEF round, A, n, start
  <2>4. PICK f \in [0 .. n -> A] : f[0] = start /\ \A k \in 1 .. n : f[k] = round[k][f[k - 1]]
    BY <2>2, LoopExists
  <2>5. \A k \in 1 .. n : k - 1 \in 0 .. n /\ f[k - 1] \in A
    BY <1>1 DEF n
  <2>6. \A k \in 0 .. n : f[k] = IF k = 0 THEN <<>> ELSE AddToPage(f[k - 1], rows[k])
    BY <1>1, <2>3, <2>4, <2>5 DEF start, n
  <2>7. Loop(f)
    BY <2>6 DEF n
  <2> QED BY <2>7
<1>3. Loop(groups)
  BY <1>2
<1>4. GroupFeedItems(rows) = groups[n]
  BY DEF GroupFeedItems
<1> HIDE DEF groups
<1>5. /\ groups[0] = <<>>
      /\ \A k \in 1 .. n : groups[k] = AddToPage(groups[k - 1], rows[k])
  BY <1>1, <1>3
<1> DEFINE S == {k \in Nat : k <= n => PageHolds(groups[k], rows, k)}
<1>6. 0 \in S
  <2>1. <<>> \in A /\ Len(<<>>) = 0
    BY EmptySeq
  <2>2. PageHolds(<<>>, rows, 0)
    BY <2>1 DEF PageHolds, LabelsHold
  <2> QED BY <1>5, <2>2
<1>7. ASSUME NEW k \in Nat, k \in S PROVE k + 1 \in S
  <2> SUFFICES ASSUME k + 1 <= n PROVE PageHolds(groups[k + 1], rows, k + 1)
    OBVIOUS
  <2>1. k + 1 \in 1 .. n /\ (k + 1) - 1 = k /\ PageHolds(groups[k], rows, k)
    BY <1>1, <1>7
  <2>2. groups[k + 1] = AddToPage(groups[k], rows[k + 1])
    BY <1>5, <2>1
  <2> QED BY <2>1, <2>2, AddToPageHolds
<1>8. n \in S
  <2> HIDE DEF S
  <2> QED BY <1>1, <1>6, <1>7, Induction
<1> QED BY <1>4, <1>8

-----------------------------------------------------------------------------
\* The rows of a timeline, and of a page of them, are in runs.
LEMMA SortedInRuns ==
  ASSUME OrderInv, now \in Nat, NEW t \in TieBreaks, NEW S \in SUBSET There, NEW limit \in Nat
  PROVE  InRuns(Sorted(S, t)) /\ InRuns(Slice(Sorted(S, t), limit, 0))
<1> DEFINE s == Sorted(S, t)
           p == Slice(s, limit, 0)
           n == Cardinality(S)
<1>1. /\ n \in Nat /\ Len(s) = n /\ s \in Seq(S) /\ s \in [1 .. n -> S]
      /\ \A j, k \in 1 .. n : j < k => Before(s[j], s[k], t)
  BY SortedFacts
<1>2. There \subseteq Items /\ S \subseteq There
  BY DEF There
<1> HIDE DEF s, n
<1>3. s \in Seq(Items)
  BY <1>1, <1>2, SeqMonotonic
<1>4. \A k \in 1 .. n : s[k] \in There
  BY <1>1, <1>2
<1>5. ASSUME NEW j \in 1 .. n, NEW k \in 1 .. n, j < k
      PROVE  s[j] # s[k] /\ ~Newer(s[k], s[j])
  <2>1. Before(s[j], s[k], t) /\ s[j] \in There /\ s[k] \in There
    BY <1>1, <1>4, <1>5
  <2>2. ~Before(s[j], s[j], t)
    BY <2>1, BeforeFacts
  <2>3. ~(Newer(s[j], s[k]) /\ Newer(s[k], s[j]))
    BY <2>1, NewerFacts
  <2>4. Newer(s[j], s[k]) \/ ~Newer(s[k], s[j])
    BY <2>1 DEF Before
  <2> QED BY <2>1, <2>2, <2>3, <2>4
<1>6. \A j, k \in 1 .. n : j # k => s[j] # s[k]
  <2>1. \A j, k \in 1 .. n : j # k => j < k \/ k < j
    BY <1>1
  <2> QED BY <1>5, <2>1
<1>7. ASSUME NEW j \in 1 .. n, NEW k \in 1 .. n, NEW m \in 1 .. n, j < k, k < m,
             DateLabel(s[j]) = DateLabel(s[m])
      PROVE  DateLabel(s[k]) = DateLabel(s[j])
  <2>1. ~Newer(s[k], s[j]) /\ ~Newer(s[m], s[k])
    BY <1>5, <1>7
  <2>2. s[j] \in There /\ s[k] \in There /\ s[m] \in There
    BY <1>4
  <2> QED BY <1>7, <2>1, <2>2, LabelsInOrder
<1>8. InRuns(s)
  BY <1>1, <1>3, <1>6, <1>7 DEF InRuns
<1>9. /\ p \in Seq(Items) /\ Len(p) \in Nat /\ Len(p) <= n
      /\ \A k \in 1 .. Len(p) : k \in 1 .. n /\ p[k] = s[k]
  <2>1. /\ p \in Seq(Items)
        /\ Len(p) = IF 0 + limit < Len(s) THEN limit ELSE IF 0 < Len(s) THEN Len(s) - 0 ELSE 0
        /\ \A k \in 1 .. Len(p) : p[k] = s[0 + k]
    BY <1>3, SliceFacts
  <2> HIDE DEF p
  <2>2. Len(p) \in Nat /\ Len(p) <= n
    BY <1>1, <2>1
  <2>3. \A k \in 1 .. Len(p) : k \in 1 .. n /\ 0 + k = k
    BY <1>1, <2>2
  <2> QED BY <2>1, <2>2, <2>3
<1> HIDE DEF p
<1>10. InRuns(p)
  BY <1>1, <1>8, <1>9 DEF InRuns
<1> QED BY <1>8, <1>10 DEF s, p

\* Of the rows that there are, those up to the last are all that bear a label.
LEMMA AllUpTo ==
  ASSUME NEW rows, InRuns(rows), NEW label
  PROVE  UpTo(rows, Len(rows), label) = {j \in ToSet(rows) : DateLabel(j) = label}
<1>1. DOMAIN rows = 1 .. Len(rows)
  BY LenProperties DEF InRuns
<1> QED BY <1>1 DEF UpTo, ToSet

LEMMA TimelineGrouped ==
  ASSUME OrderInv, now \in Nat, NEW u \in Users, NEW t \in TieBreaks
  PROVE  TimelineGroupsOnce(u, t)
<1> DEFINE rows == Sorted(Rows(u), t)
           groups == GroupTimeline(rows, u)
           Members(label, f) == {i \in Rows(u) : DateLabel(i) = label /\ i[1] = f}
<1>1. Rows(u) \in SUBSET There
  BY RowsThere
<1>2. InRuns(rows)
  BY <1>1, SortedInRuns
<1>3. TimelineHolds(groups, rows, Len(rows), u)
  BY <1>2, GroupTimelineHolds
<1>4. ToSet(rows) = Rows(u) /\ DOMAIN rows = 1 .. Len(rows)
  <2>1. /\ rows \in [1 .. Cardinality(Rows(u)) -> Rows(u)]
        /\ Len(rows) = Cardinality(Rows(u))
        /\ \A i \in Rows(u) : /\ Rank(Rows(u), t, i) + 1 \in 1 .. Cardinality(Rows(u))
                              /\ rows[Rank(Rows(u), t, i) + 1] = i
    BY <1>1, SortedFacts
  <2> HIDE DEF rows
  <2> QED BY <2>1 DEF ToSet
<1> HIDE DEF rows, groups
<1>5. \A label : UpTo(rows, Len(rows), label) = {j \in Rows(u) : DateLabel(j) = label}
  BY <1>2, <1>4, AllUpTo
<1>6. /\ groups \in Seq(TimelineGroups) /\ DOMAIN groups = 1 .. Len(groups)
      /\ LabelsHold(groups, rows, Len(rows))
      /\ \A g \in 1 .. Len(groups) :
           FeedsHold(groups[g].feeds, {j \in Rows(u) : DateLabel(j) = groups[g].label}, u)
  BY <1>3, <1>5, LenProperties DEF TimelineHolds
<1>7. \A g, h \in DOMAIN groups : groups[g].label = groups[h].label => g = h
  BY <1>6 DEF LabelsHold
<1>8. ASSUME NEW g \in DOMAIN groups
      PROVE  LET fs == groups[g].feeds
                 S  == {j \in Rows(u) : DateLabel(j) = groups[g].label}
             IN  /\ DOMAIN fs = 1 .. Len(fs)
                 /\ \A h, k \in DOMAIN fs : fs[h].feed = fs[k].feed => h = k
                 /\ \A i \in S : \E h \in DOMAIN fs : fs[h].feed = i[1]
                 /\ \A h \in DOMAIN fs :
                      /\ ToSet(fs[h].items) = OfFeed(S, fs[h].feed)
                      /\ fs[h].unread = Cardinality({j \in OfFeed(S, fs[h].feed) : ~IsRead(u, j)})
  <2> DEFINE fs == groups[g].feeds
             S == {j \in Rows(u) : DateLabel(j) = groups[g].label}
  <2>1. FeedsHold(fs, S, u)
    BY <1>6
  <2> HIDE DEF fs, S
  <2>2. DOMAIN fs = 1 .. Len(fs)
    BY <2>1, LenProperties DEF FeedsHold
  <2>3. /\ \A h, k \in DOMAIN fs : fs[h].feed = fs[k].feed => h = k
        /\ \A i \in S : \E h \in DOMAIN fs : fs[h].feed = i[1]
        /\ \A h \in DOMAIN fs :
             /\ ToSet(fs[h].items) = OfFeed(S, fs[h].feed)
             /\ fs[h].unread = Cardinality({j \in OfFeed(S, fs[h].feed) : ~IsRead(u, j)})
    BY <2>1, <2>2 DEF FeedsHold
  <2> QED BY <2>2, <2>3 DEF fs, S
<1>9. ASSUME NEW i \in Rows(u)
      PROVE  \E g \in DOMAIN groups : \E h \in DOMAIN groups[g].feeds :
               /\ groups[g].label = DateLabel(i) /\ groups[g].feeds[h].feed = i[1]
               /\ ToSet(groups[g].feeds[h].items) = Members(DateLabel(i), i[1])
               /\ groups[g].feeds[h].unread =
                    Cardinality({j \in Members(DateLabel(i), i[1]) : ~IsRead(u, j)})
  <2>1. PICK m \in 1 .. Len(rows) : rows[m] = i
    BY <1>4 DEF ToSet
  <2>2. PICK g \in DOMAIN groups : groups[g].label = DateLabel(i)
    BY <1>6, <2>1 DEF LabelsHold
  <2> DEFINE fs == groups[g].feeds
             S == {j \in Rows(u) : DateLabel(j) = groups[g].label}
  <2>3. i \in S /\ OfFeed(S, i[1]) = Members(DateLabel(i), i[1])
    BY <2>2 DEF OfFeed
  <2>4. PICK h \in DOMAIN fs : fs[h].feed = i[1]
    BY <1>8, <2>3
  <2>5. /\ ToSet(fs[h].items) = OfFeed(S, i[1])
        /\ fs[h].unread = Cardinality({j \in OfFeed(S, i[1]) : ~IsRead(u, j)})
    <3>1. /\ ToSet(fs[h].items) = OfFeed(S, fs[h].feed)
          /\ fs[h].unread = Cardinality({j \in OfFeed(S, fs[h].feed) : ~IsRead(u, j)})
      BY <1>8, <2>4, Zenon
    <3> HIDE DEF fs, S
    <3> QED BY <2>4, <3>1
  <2> HIDE DEF S, Members
  <2> QED BY <2>2, <2>3, <2>4, <2>5
<1>10. \A g \in DOMAIN groups : \A h, k \in DOMAIN groups[g].feeds :
         groups[g].feeds[h].feed = groups[g].feeds[k].feed => h = k
  BY <1>8
<1> QED BY <1>7, <1>9, <1>10, Zenon DEF groups, rows, TimelineGroupsOnce

LEMMA FeedPageGrouped ==
  ASSUME OrderInv, now \in Nat, NEW f \in Feeds, NEW t \in TieBreaks
  PROVE  FeedPageGroupsOnce(f, t)
<1> DEFINE S == {i \in {f} \X Guids : Visible(i)}
           s == Sorted(S, t)
           rows == ListFeedItems(f, t)
           groups == GroupFeedItems(rows)
<1>1. S \in SUBSET There
  BY DEF There, Visible, Items
<1>2. rows = Slice(s, FeedLimit, 0) /\ FeedLimit \in Nat
  BY SubscriptionsAssumption DEF ListFeedItems
<1> HIDE DEF S
<1>3. InRuns(rows) /\ InRuns(s)
  BY <1>1, <1>2, SortedInRuns
<1>4. PageHolds(groups, rows, Len(rows))
  BY <1>3, GroupFeedItemsHolds
<1>5. /\ Cardinality(S) \in Nat /\ Len(s) = Cardinality(S)
      /\ s \in [1 .. Cardinality(S) -> S]
      /\ \A i \in S : /\ Rank(S, t, i) + 1 \in 1 .. Cardinality(S)
                      /\ s[Rank(S, t, i) + 1] = i
      /\ \A j, k \in 1 .. Cardinality(S) : j < k => Before(s[j], s[k], t)
  BY <1>1, SortedFacts
<1>6. /\ DOMAIN rows = 1 .. Len(rows) /\ Len(rows) \in Nat
      /\ Len(rows) <= Cardinality(S)
      /\ \A k \in 1 .. Len(rows) : rows[k] = s[k]
      /\ Len(rows) = Cardinality(S) \/ Len(rows) = FeedLimit
  <2>1. s \in Seq(Items)
    BY <1>3 DEF InRuns
  <2>2. /\ rows \in Seq(Items)
        /\ Len(rows) = IF 0 + FeedLimit < Len(s) THEN FeedLimit
                       ELSE IF 0 < Len(s) THEN Len(s) - 0 ELSE 0
        /\ \A k \in 1 .. Len(rows) : rows[k] = s[0 + k]
    BY <1>2, <2>1, SliceFacts
  <2> HIDE DEF rows, s
  <2>3. DOMAIN rows = 1 .. Len(rows) /\ Len(rows) \in Nat
    BY <2>2, LenProperties
  <2>4. \A k \in 1 .. Len(rows) : 0 + k = k
    BY <2>3
  <2> QED BY <1>2, <1>5, <2>2, <2>3, <2>4
<1> HIDE DEF rows, s, groups
<1>7. ASSUME NEW i \in {f} \X Guids, NEW j \in ToSet(rows), Visible(i), Newer(i, j)
      PROVE  i \in ToSet(rows)
  <2>1. i \in S
    BY <1>7 DEF S
  <2>2. PICK k \in 1 .. Len(rows) : j = rows[k]
    BY <1>6, <1>7 DEF ToSet
  <2>3. k \in 1 .. Cardinality(S) /\ j = s[k] /\ j \in S
    BY <1>5, <1>6, <2>2
  <2>4. PICK m \in 1 .. Cardinality(S) : s[m] = i
    BY <1>5, <2>1
  <2>5. m \in Int /\ k \in Int /\ ~(k < m) /\ k # m
    <3>1. Before(i, j, t) /\ i \in There /\ j \in There
      BY <1>1, <1>7, <2>1, <2>3 DEF Before
    <3>2. ~Before(j, i, t) /\ ~Before(i, i, t)
      BY <3>1, BeforeFacts
    <3>3. k < m => Before(s[k], s[m], t)
      BY <1>5, <2>3
    <3> QED BY <1>5, <2>3, <2>4, <3>1, <3>2, <3>3
  <2>6. m \in 1 .. Len(rows)
    BY <1>5, <1>6, <2>2, <2>5
  <2>7. rows[m] = i
    BY <1>6, <2>4, <2>6
  <2> QED BY <1>6, <2>6, <2>7 DEF ToSet
<1>8. /\ groups \in Seq(PageGroups) /\ DOMAIN groups = 1 .. Len(groups)
      /\ LabelsHold(groups, rows, Len(rows))
      /\ \A g \in 1 .. Len(groups) :
           ToSet(groups[g].items) = {j \in ToSet(rows) : DateLabel(j) = groups[g].label}
  BY <1>3, <1>4, AllUpTo, LenProperties DEF PageHolds
<1>9. \A g, h \in DOMAIN groups : groups[g].label = groups[h].label => g = h
  BY <1>8 DEF LabelsHold
<1>10. ASSUME NEW i \in ToSet(rows)
       PROVE  \E g \in DOMAIN groups :
                /\ groups[g].label = DateLabel(i)
                /\ ToSet(groups[g].items) = {j \in ToSet(rows) : DateLabel(j) = DateLabel(i)}
  <2>1. PICK m \in 1 .. Len(rows) : rows[m] = i
    BY <1>6 DEF ToSet
  <2>2. PICK g \in DOMAIN groups : groups[g].label = DateLabel(i)
    BY <1>8, <2>1 DEF LabelsHold
  <2> QED BY <1>8, <2>2
<1> QED BY <1>7, <1>9, <1>10, Zenon DEF groups, rows, FeedPageGroupsOnce

\* The pages group what they show, each label once and in it each feed once, with the
\* right number of unread items, for any items, dates and orders of rows of one date:
\* items of one label follow each other because the rows are in the order of the dates.
THEOREM PagesAreGrouped == Spec => []PagesGroupOnce
<1>1. OrderInv /\ TypeOK => PagesGroupOnce
  <2>1. TypeOK => now \in Nat /\ feeds \subseteq Feeds
    BY DEF TypeOK
  <2> QED BY <2>1, TimelineGrouped, FeedPageGrouped DEF PagesGroupOnce
<1>2. Init => OrderInv
  BY WalkInit DEF WalkInv
<1> QED BY <1>1, <1>2, OrderNext, ReferencesHold, PTL DEF Spec

=============================================================================
