----------------------------- MODULE PoolProofs ------------------------------
(***************************************************************************)
(* Proofs about Pool, for any number of items and any concurrency, about   *)
(* Fetchers, which runs in it, for any times and lives of tokens, and      *)
(* about Discuss, what is done with the results, for any URLs and threads. *)
(***************************************************************************)
EXTENDS Fetchers, Discuss, FiniteSetTheorems, TLAPS

LEMMA SlotsType == Slots \in Nat /\ Slots >= 1
BY PoolAssumption DEF Slots

LEMMA ItemsFinite ==
  /\ IsFiniteSet(Items)
  /\ IsFiniteSet(Running) /\ IsFiniteSet(Holding) /\ IsFiniteSet(Unfinished)
<1>1. IsFiniteSet(Items)
  BY PoolAssumption, FS_Interval DEF Items
<1>2. Running \subseteq Items /\ Holding \subseteq Items /\ Unfinished \subseteq Items
  BY DEF Running, Holding, Unfinished
<1> QED
  BY <1>1, <1>2, FS_Subset

LEMMA InitPoolInv == Init => PoolInv
<1> SUFFICES ASSUME Init PROVE PoolInv
  OBVIOUS
<1>1. Holding = {} /\ Unfinished = {}
  BY DEF Init, Holding, Unfinished
<1>2. Cardinality({}) = 0
  BY FS_EmptySet
<1>3. TypeOK
  BY SlotsType, PoolAssumption DEF Init, TypeOK, Items
<1>4. LoopInv
  BY DEF Init, LoopInv, Items
<1> QED
  BY <1>1, <1>2, <1>3, <1>4 DEF Init, PoolInv, SemInv, WaitGroupInv

LEMMA NextPoolInv == PoolInv /\ [Next]_vars => PoolInv'
<1> SUFFICES ASSUME PoolInv, [Next]_vars PROVE PoolInv'
  OBVIOUS
<1> USE DEF PoolInv
<1>n. N \in Nat /\ Slots \in Nat /\ Slots >= 1
  BY SlotsType, PoolAssumption
<1>f. /\ IsFiniteSet(Holding) /\ IsFiniteSet(Unfinished)
      /\ Cardinality(Holding) \in Nat /\ Cardinality(Unfinished) \in Nat
  BY ItemsFinite, FS_CardinalityType
<1>1. CASE Add
  <2>1. Holding' = Holding /\ Unfinished' = Unfinished
    BY <1>1 DEF Add, Holding, Unfinished
  <2>2. TypeOK'
    BY <1>1, <1>n DEF Add, TypeOK
  <2>3. LoopInv'
    BY <1>1, <1>n DEF Add, LoopInv, TypeOK
  <2>4. SemInv' /\ WaitGroupInv'
    BY <1>1, <1>f, <2>1 DEF Add, SemInv, WaitGroupInv, TypeOK
  <2> QED
    BY <2>2, <2>3, <2>4
<1>2. CASE Acquire
  <2>1. next \in Items /\ worker[next] = "none"
    BY <1>2 DEF Acquire, LoopInv, TypeOK, Items
  <2>2. Holding' = Holding \cup {next} /\ next \notin Holding
    BY <1>2, <2>1 DEF Acquire, Holding, TypeOK
  <2>3. Unfinished' = Unfinished \cup {next} /\ next \notin Unfinished
    BY <1>2, <2>1 DEF Acquire, Unfinished, TypeOK
  <2>4. /\ Cardinality(Holding') = Cardinality(Holding) + 1
        /\ Cardinality(Unfinished') = Cardinality(Unfinished) + 1
    BY <1>f, <2>2, <2>3, FS_AddElement
  <2>5. TypeOK'
    BY <1>2, <1>n, <2>1 DEF Acquire, TypeOK, Items
  <2>6. LoopInv'
    BY <1>2, <1>n, <2>1 DEF Acquire, LoopInv, TypeOK, Items
  <2>7. SemInv' /\ WaitGroupInv'
    BY <1>2, <1>f, <2>4 DEF Acquire, SemInv, WaitGroupInv, TypeOK
  <2> QED
    BY <2>5, <2>6, <2>7
<1>3. CASE LoopEnds
  <2>1. Holding' = Holding /\ Unfinished' = Unfinished
    BY <1>3 DEF LoopEnds, Holding, Unfinished
  <2>2. next = N + 1
    BY <1>3, <1>n DEF LoopEnds, TypeOK, Items
  <2>3. TypeOK' /\ LoopInv'
    BY <1>3, <2>2 DEF LoopEnds, TypeOK, LoopInv
  <2>4. SemInv' /\ WaitGroupInv'
    BY <1>3, <2>1 DEF LoopEnds, SemInv, WaitGroupInv
  <2> QED
    BY <2>3, <2>4
<1>4. CASE WaitReturns
  <2>1. Holding' = Holding /\ Unfinished' = Unfinished
    BY <1>4 DEF WaitReturns, Holding, Unfinished
  <2>2. TypeOK' /\ LoopInv'
    BY <1>4 DEF WaitReturns, TypeOK, LoopInv
  <2>3. SemInv' /\ WaitGroupInv'
    BY <1>4, <2>1 DEF WaitReturns, SemInv, WaitGroupInv
  <2> QED
    BY <2>2, <2>3
<1>5. CASE TimePasses
  <2>1. Holding' = Holding /\ Unfinished' = Unfinished
    BY <1>5 DEF TimePasses, Elapse, Holding, Unfinished
  <2>2. TypeOK' /\ LoopInv'
    BY <1>5 DEF TimePasses, Elapse, TypeOK, LoopInv
  <2>3. SemInv' /\ WaitGroupInv'
    BY <1>5, <2>1 DEF TimePasses, Elapse, SemInv, WaitGroupInv
  <2> QED
    BY <2>2, <2>3
<1>6. ASSUME NEW i \in Items, FnReturns(i) PROVE PoolInv'
  <2>1. Holding' = Holding /\ Unfinished' = Unfinished
    BY <1>6 DEF FnReturns, Holding, Unfinished, TypeOK
  <2>2. TypeOK' /\ LoopInv'
    BY <1>6 DEF FnReturns, TypeOK, LoopInv
  <2>3. SemInv' /\ WaitGroupInv'
    BY <1>6, <2>1 DEF FnReturns, SemInv, WaitGroupInv
  <2> QED
    BY <2>2, <2>3
<1>7. ASSUME NEW i \in Items, Release(i) PROVE PoolInv'
  <2>1. Holding' = Holding \ {i} /\ i \in Holding /\ Unfinished' = Unfinished
    BY <1>7 DEF Release, Holding, Unfinished, TypeOK
  <2>2. Cardinality(Holding') = Cardinality(Holding) - 1
    BY <1>f, <2>1, FS_RemoveElement
  <2>3. Cardinality(Holding) # 0
    BY <1>f, <2>1, FS_EmptySet
  <2>4. TypeOK' /\ LoopInv'
    BY <1>7, <1>n, <1>f, <2>3 DEF Release, TypeOK, LoopInv, SemInv
  <2>5. SemInv' /\ WaitGroupInv'
    BY <1>7, <1>f, <2>1, <2>2 DEF Release, SemInv, WaitGroupInv
  <2> QED
    BY <2>4, <2>5
<1>8. ASSUME NEW i \in Items, Done(i) PROVE PoolInv'
  <2>1. Unfinished' = Unfinished \ {i} /\ i \in Unfinished /\ Holding' = Holding
    BY <1>8 DEF Done, Holding, Unfinished, TypeOK
  <2>2. Cardinality(Unfinished') = Cardinality(Unfinished) - 1
    BY <1>f, <2>1, FS_RemoveElement
  <2>3. Cardinality(Unfinished) # 0
    BY <1>f, <2>1, FS_EmptySet
  <2>4. wg # 0 /\ wg - 1 \in Nat
    BY <1>f, <2>3 DEF WaitGroupInv, TypeOK
  <2>5. TypeOK' /\ LoopInv'
    BY <1>8, <2>4 DEF Done, TypeOK, LoopInv
  <2>6. SemInv' /\ WaitGroupInv'
    BY <1>8, <1>f, <2>1, <2>2 DEF Done, SemInv, WaitGroupInv
  <2> QED
    BY <2>5, <2>6
<1>9. CASE UNCHANGED vars
  BY <1>9 DEF vars, TypeOK, SemInv, WaitGroupInv, LoopInv, Holding, Unfinished
<1> QED
  BY <1>1, <1>2, <1>3, <1>4, <1>5, <1>6, <1>7, <1>8, <1>9 DEF Next

LEMMA PoolInvariant == Spec => []PoolInv
BY InitPoolInv, NextPoolInv, PTL DEF Spec

\* fn never runs for more items at a time than there are slots.
THEOREM PoolIsBounded == Spec => []BoundedConcurrency
<1>1. PoolInv => BoundedConcurrency
  <2> SUFFICES ASSUME PoolInv PROVE Cardinality(Running) <= Slots
    BY DEF BoundedConcurrency
  <2>1. Running \subseteq Holding /\ IsFiniteSet(Holding)
    BY ItemsFinite DEF Running, Holding
  <2>2. Cardinality(Running) <= Cardinality(Holding)
    BY <2>1, FS_Subset
  <2>3. Cardinality(Holding) = sem /\ sem \in 0 .. Slots
    BY DEF PoolInv, SemInv, TypeOK
  <2>4. Cardinality(Running) \in Nat /\ Slots \in Nat
    BY ItemsFinite, FS_CardinalityType, SlotsType
  <2> QED
    BY <2>2, <2>3, <2>4
<1> QED
  BY <1>1, PoolInvariant, PTL

\* When Pool has returned, fn has ended for every item.
THEOREM PoolWaitsForAll == Spec => []ReturnsAfterLast
<1>1. PoolInv => ReturnsAfterLast
  <2> SUFFICES ASSUME PoolInv, caller = "returned", NEW i \in Items
               PROVE  worker[i] = "done"
    BY DEF ReturnsAfterLast
  <2>1. Cardinality(Unfinished) = 0
    BY ItemsFinite, FS_CardinalityType DEF PoolInv, WaitGroupInv, LoopInv
  <2>2. Unfinished = {}
    BY <2>1, ItemsFinite, FS_EmptySet
  <2>3. worker[i] # "none"
    BY PoolAssumption DEF PoolInv, LoopInv, TypeOK, Items
  <2> QED
    BY <2>2, <2>3 DEF PoolInv, TypeOK, Unfinished
<1> QED
  BY <1>1, PoolInvariant, PTL

-----------------------------------------------------------------------------
(***************************************************************************)
(* How long a batch lasts.  Group(k) is the number of full groups before   *)
(* item k.                                                                 *)
(***************************************************************************)
Group(k) == (k - 1) \div Slots

\* An item that runs has not come to its deadline, and the loop comes to the next
\* item no later than the item may start.
TimeInv ==
  /\ \A i \in Items : worker[i] # "none" => started[i] <= Group(i) * Timeout
  /\ \A i \in Items : worker[i] = "running" => clock <= started[i] + Timeout
  /\ next \in Items => clock <= Group(next) * Timeout
  /\ clock <= BatchLength

LEMMA GroupFacts ==
  ASSUME NEW i \in Items, NEW k \in Items
  PROVE  /\ Group(i) \in Nat /\ Group(i) * Timeout \in Nat /\ BatchLength \in Nat
         /\ i <= k => Group(i) * Timeout <= Group(k) * Timeout
         /\ i + Slots <= k => Group(i) * Timeout + Timeout <= Group(k) * Timeout
         /\ Group(i) * Timeout + Timeout <= BatchLength
<1> DEFINE T == Timeout
<1>n. N \in Nat /\ Slots \in Nat /\ Slots >= 1 /\ T \in Nat
  BY SlotsType, PoolAssumption
<1>1. \A a, b \in Nat : a <= b => a * T <= b * T /\ a * T \in Nat /\ (a + 1) * T = a * T + T
  BY <1>n
<1>2. ASSUME NEW a \in Nat, NEW b \in Nat, a <= b
      PROVE  a \div Slots \in Nat /\ a \div Slots <= b \div Slots
  BY <1>n, <1>2
<1>3. ASSUME NEW a \in Nat
      PROVE  (a + Slots) \div Slots = a \div Slots + 1
  BY <1>n
<1>4. /\ i - 1 \in Nat /\ k - 1 \in Nat /\ N + Slots - 1 \in Nat
      /\ (i - 1) + Slots <= N + Slots - 1
      /\ i <= k => i - 1 <= k - 1
      /\ i + Slots <= k => (i - 1) + Slots <= k - 1
  BY <1>n DEF Items
<1>5. Group(i) \in Nat /\ Group(k) \in Nat /\ (i <= k => Group(i) <= Group(k))
  BY <1>2, <1>4 DEF Group
<1>6. i + Slots <= k => Group(i) + 1 <= Group(k)
  BY <1>2, <1>3, <1>4, <1>n DEF Group
<1>7. /\ (N + Slots - 1) \div Slots \in Nat
      /\ Group(i) + 1 <= (N + Slots - 1) \div Slots
  <2>1. (i - 1) + Slots \in Nat
    BY <1>4, <1>n
  <2>2. ((i - 1) + Slots) \div Slots = Group(i) + 1
    BY <1>3, <1>4 DEF Group
  <2>3. ((i - 1) + Slots) \div Slots <= (N + Slots - 1) \div Slots
    BY <1>2, <1>4, <2>1
  <2>4. (N + Slots - 1) \div Slots \in Nat
    BY <1>2, <1>4
  <2> QED BY <2>2, <2>3, <2>4
<1> HIDE DEF T
<1>8. BatchLength = ((N + Slots - 1) \div Slots) * T
  BY DEF BatchLength, T
<1> QED BY <1>1, <1>5, <1>6, <1>7, <1>8 DEF T

\* Of as many items as there are slots, all before item k, one is a group before it.
LEMMA EarlierGroup ==
  ASSUME NEW k \in Items, NEW R \in SUBSET (1 .. k - 1), Cardinality(R) = Slots
  PROVE  \E i \in R : i + Slots <= k
<1>n. Slots \in Nat /\ Slots >= 1 /\ k \in Nat
  BY SlotsType, PoolAssumption DEF Items
<1> SUFFICES ASSUME \A i \in R : ~(i + Slots <= k) PROVE FALSE
  OBVIOUS
<1> DEFINE I == (k - Slots + 1) .. (k - 1)
<1>1. R \subseteq I
  BY <1>n
<1>2. IsFiniteSet(I) /\ Cardinality(I) = Slots - 1
  <2>1. k - Slots + 1 \in Int /\ k - 1 \in Int
    BY <1>n
  <2>2. /\ IsFiniteSet(I)
        /\ Cardinality(I) = IF k - Slots + 1 > k - 1 THEN 0
                            ELSE (k - 1) - (k - Slots + 1) + 1
    BY <2>1, FS_Interval
  <2> QED BY <1>n, <2>2
<1>3. Cardinality(R) <= Cardinality(I)
  BY <1>1, <1>2, FS_Subset
<1> QED BY <1>n, <1>2, <1>3

\* While the loop waits for a slot and time passes, all slots are held by running items.
LEMMA SlotsRunning ==
  ASSUME PoolInv, TimePasses, caller = "send"
  PROVE  \E i \in Items : worker[i] = "running" /\ i + Slots <= next
<1>1. sem = Slots /\ \A i \in Items : worker[i] \notin {"release", "finish"}
  BY DEF TimePasses, Elapse
<1>2. Holding = Running
  BY <1>1 DEF Holding, Running
<1>3. next \in Items /\ \A i \in Items : worker[i] = "running" => i < next
  BY PoolAssumption DEF PoolInv, LoopInv, Items, TypeOK
<1>4. Running \in SUBSET (1 .. next - 1)
  BY <1>3, PoolAssumption DEF Running, Items
<1>5. Cardinality(Running) = Slots
  BY <1>1, <1>2 DEF PoolInv, SemInv
<1>6. PICK i \in Running : i + Slots <= next
  BY <1>3, <1>4, <1>5, EarlierGroup
<1> QED BY <1>6 DEF Running

LEMMA TimeStep == PoolInv /\ TimeInv /\ [Next]_vars => TimeInv'
<1> SUFFICES ASSUME PoolInv, TimeInv, [Next]_vars PROVE TimeInv'
  OBVIOUS
<1>n. /\ N \in Nat /\ Timeout \in Nat /\ clock \in Nat /\ next \in 1 .. N + 1
      /\ started \in [Items -> Nat]
      /\ worker \in [Items -> {"none", "running", "release", "finish", "done"}]
  BY PoolAssumption DEF PoolInv, TypeOK
<1>1. CASE Acquire
  <2>1. /\ next \in Items /\ worker[next] = "none"
        /\ worker' = [worker EXCEPT ![next] = "running"]
        /\ started' = [started EXCEPT ![next] = clock]
        /\ next' = next + 1 /\ clock' = clock
    BY <1>1, <1>n DEF Acquire, PoolInv, LoopInv, Items
  <2>2. next' \in Items => clock <= Group(next') * Timeout
    BY <1>n, <2>1, GroupFacts DEF TimeInv, Items
  <2>3. clock <= Group(next) * Timeout
    BY <2>1 DEF TimeInv
  <2> QED BY <1>n, <2>1, <2>2, <2>3 DEF TimeInv, BatchLength
<1>2. CASE TimePasses
  <2>1. /\ UNCHANGED <<caller, next, worker, started>> /\ clock' = clock + 1
        /\ caller \in {"send", "wait"}
        /\ \A i \in Items : worker[i] = "running" => clock < started[i] + Timeout
    BY <1>2 DEF TimePasses, Elapse
  <2>2. next \in Items => clock' <= Group(next) * Timeout
    <3>1. SUFFICES ASSUME next \in Items PROVE clock' <= Group(next) * Timeout
      OBVIOUS
    <3>2. caller = "send"
      BY <1>n, <2>1, <3>1 DEF PoolInv, LoopInv, Items
    <3>3. PICK i \in Items : worker[i] = "running" /\ i + Slots <= next
      BY <1>2, <3>2, SlotsRunning
    <3>4. clock < started[i] + Timeout /\ started[i] <= Group(i) * Timeout
      BY <2>1, <3>3 DEF TimeInv
    <3>5. Group(i) * Timeout + Timeout <= Group(next) * Timeout
      BY <3>1, <3>3, GroupFacts
    <3> QED BY <1>n, <2>1, <3>1, <3>4, <3>5, GroupFacts
  <2>3. clock' <= BatchLength
    <3>1. PICK i \in Items : worker[i] = "running"
      BY <1>2 DEF TimePasses, Elapse
    <3>2. clock < started[i] + Timeout /\ started[i] <= Group(i) * Timeout
      BY <2>1, <3>1 DEF TimeInv
    <3> QED BY <1>n, <2>1, <3>2, GroupFacts
  <2> QED BY <1>n, <2>1, <2>2, <2>3 DEF TimeInv, BatchLength
<1>3. ASSUME NEW i \in Items, FnReturns(i) \/ Release(i) \/ Done(i)
      PROVE  TimeInv'
  <2>1. /\ UNCHANGED <<next, started, clock>>
        /\ worker[i] # "none" /\ \A j \in Items : worker'[j] = "running" => worker[j] = "running"
        /\ \A j \in Items : worker'[j] # "none" => worker[j] # "none"
    BY <1>3, <1>n DEF FnReturns, Release, Done
  <2> QED BY <2>1 DEF TimeInv, BatchLength
<1>4. CASE Add \/ LoopEnds \/ WaitReturns \/ UNCHANGED vars
  BY <1>4 DEF Add, LoopEnds, WaitReturns, vars, TimeInv, BatchLength
<1> QED BY <1>1, <1>2, <1>3, <1>4 DEF Next

LEMMA TimeInit == Init => TimeInv
<1> SUFFICES ASSUME Init PROVE TimeInv
  OBVIOUS
<1>1. clock = 0 /\ \A i \in Items : worker[i] = "none"
  BY DEF Init
<1>2. next \in Items => Group(next) * Timeout \in Nat
  BY GroupFacts
<1>3. BatchLength \in Nat
  <2>1. N + Slots - 1 \in Nat /\ Slots \in Nat /\ Slots >= 1 /\ Timeout \in Nat
    BY SlotsType, PoolAssumption
  <2>2. (N + Slots - 1) \div Slots \in Nat
    BY <2>1
  <2> QED BY <2>1, <2>2 DEF BatchLength
<1> QED BY <1>1, <1>2, <1>3 DEF TimeInv

\* The batch is worked off without idling: each item starts no later than after the
\* full groups before it, and the batch lasts no longer than all groups do.
THEOREM PoolStartsInTurn == Spec => []StartsInTurn
<1>1. TimeInv => StartsInTurn
  BY DEF TimeInv, StartsInTurn, Group
<1> QED
  BY <1>1, InitPoolInv, NextPoolInv, TimeInit, TimeStep, PTL DEF Spec

-----------------------------------------------------------------------------
\* Fetchers.  Its steps are those of the pool but for Tick, which is bound by the
\* deadlines of requests and not by that of fn.
LEMMA ElapsePoolInv == PoolInv /\ Elapse => PoolInv'
<1> SUFFICES ASSUME PoolInv, Elapse PROVE PoolInv'
  OBVIOUS
<1>1. Holding' = Holding /\ Unfinished' = Unfinished
  BY DEF Elapse, Holding, Unfinished
<1>2. TypeOK' /\ LoopInv' /\ SemInv' /\ WaitGroupInv'
  BY <1>1 DEF Elapse, PoolInv, TypeOK, LoopInv, SemInv, WaitGroupInv
<1> QED BY <1>2 DEF PoolInv

\* Where processURL may be for an item, and the types of what Fetchers adds.
Stages == {"idle", "hackernews", "check", "lock", "waiting", "renewing", "issued", "asking",
           "refused", "ended"}

FetchTypeOK ==
  /\ at \in [Items -> Stages] /\ began \in [Items -> Nat] /\ since \in [Items -> Nat]
  /\ bearer \in [Items -> Nat \cup {None}]
  /\ token \in [id : Nat \cup {None}, expiry : Int]
  /\ holder \in Items \cup {0} /\ queue \in Seq(Items) /\ starving \in BOOLEAN
  /\ grounds \in Int

\* What the proofs need to know of numbers.
LEMMA ItemFacts ==
  ASSUME PoolInv
  PROVE  /\ N \in Nat /\ Items \subseteq Nat \ {0} /\ 0 \notin Items
         /\ clock \in Nat /\ ClientTimeout \in Nat \ {0} /\ ContextTimeout \in Nat \ {0}
         /\ Margin \in Nat /\ Life \in Nat /\ None = -1
         /\ caller = "send" => next \in Items /\ worker[next] = "none"
  BY PoolAssumption, FetchersAssumption DEF Items, None, PoolInv, TypeOK, LoopInv

\* Steps keep the types.
LEMMA TypeStart ==
  ASSUME PoolInv, FetchTypeOK, Start
  PROVE  FetchTypeOK'
<1>1. next \in Items /\ clock \in Nat
  BY ItemFacts DEF Start, Acquire
<1> QED BY <1>1 DEF Start, GoTo, Stamp, mu, FetchTypeOK, Stages

LEMMA TypeAsk ==
  ASSUME PoolInv, FetchTypeOK, NEW i \in Items, Ask(i), UNCHANGED holder,
         queue' \in Seq(Items), starving' \in BOOLEAN
  PROVE  FetchTypeOK'
<1>1. clock \in Nat /\ token.id \in Nat \cup {None}
  BY ItemFacts DEF FetchTypeOK
<1> QED BY <1>1 DEF Ask, GoTo, Stamp, FetchTypeOK, Stages

LEMMA TypeRenew ==
  ASSUME PoolInv, FetchTypeOK, NEW i \in Items, Renew(i),
         queue' \in Seq(Items), starving' \in BOOLEAN
  PROVE  FetchTypeOK'
  BY ItemFacts DEF Renew, GoTo, Stamp, FetchTypeOK, Stages

LEMMA TypeCheckAgain ==
  ASSUME PoolInv, FetchTypeOK, NEW i \in Items, CheckAgain(i),
         queue' \in Seq(Items), starving' \in BOOLEAN
  PROVE  FetchTypeOK'
  BY TypeAsk, TypeRenew DEF CheckAgain

LEMMA TypeStep ==
  ASSUME PoolInv, FetchTypeOK, NEW i \in Items, Step(i)
  PROVE  FetchTypeOK'
<1>0. clock \in Nat /\ Life \in Nat /\ Margin \in Nat
  BY ItemFacts
<1>1. CASE HackerNewsEnds(i)
  BY <1>0, <1>1 DEF HackerNewsEnds, GoTo, mu, FetchTypeOK, Stages
<1>2. CASE CheckToken(i)
  <2>1. CASE Ask(i) /\ UNCHANGED mu
    BY <2>1, TypeAsk DEF mu, FetchTypeOK
  <2>2. CASE GoTo(i, "lock") /\ UNCHANGED <<vars, began, since, bearer, token, mu, revoked, grounds>>
    BY <2>2 DEF GoTo, mu, FetchTypeOK, Stages
  <2> QED BY <1>2, <2>1, <2>2 DEF CheckToken
<1>3. CASE Lock(i)
  BY <1>3, TypeCheckAgain DEF Lock, FetchTypeOK
<1>4. CASE Wait(i)
  BY <1>0, <1>4 DEF Wait, GoTo, Stamp, FetchTypeOK, Stages
<1>5. CASE Issue(i)
  BY <1>0, <1>5 DEF Issue, GoTo, mu, FetchTypeOK, Stages
<1>6. CASE TokenArrives(i)
  <2>1. bearer[i] \in Nat \cup {None} /\ clock + Life - Margin \in Int
    BY <1>0 DEF FetchTypeOK
  <2> QED BY <1>0, <1>6, <2>1 DEF TokenArrives, StoreAndAsk, Unlock, GoTo, Stamp, FetchTypeOK, Stages
<1>7. CASE RenewalFails(i)
  BY <1>7 DEF RenewalFails, Unlock, GoTo, FetchTypeOK, Stages
<1>8. CASE Refuse(i) \/ AskingEnds(i)
  BY <1>8 DEF Refuse, AskingEnds, GoTo, mu, FetchTypeOK, Stages
<1>9. CASE Refused(i)
  <2>1. NoToken \in [id : Nat \cup {None}, expiry : Int]
    BY DEF NoToken
  <2> QED BY <1>9, <2>1 DEF Refused, GoTo, mu, FetchTypeOK, Stages
<1>10. CASE Return(i)
  BY <1>10 DEF Return, GoTo, mu, FetchTypeOK, Stages
<1> QED BY <1>1, <1>2, <1>3, <1>4, <1>5, <1>6, <1>7, <1>8, <1>9, <1>10 DEF Step

LEMMA TypeFirst ==
  ASSUME PoolInv, FetchTypeOK, LockFirst
  PROVE  FetchTypeOK' /\ Head(queue) \in Items
<1>1. Head(queue) \in Items /\ Tail(queue) \in Seq(Items)
  BY DEF LockFirst, FetchTypeOK
<1>2. starving' \in BOOLEAN
  BY Zenon DEF LockFirst
<1> QED BY <1>1, <1>2, TypeCheckAgain DEF LockFirst, FetchTypeOK


-----------------------------------------------------------------------------
\* Who holds the mutex is renewing the token, and who waits for it is in the queue,
\* once, behind those who have waited longer.
MutexInv ==
  /\ \A i \in Items : at[i] \in {"renewing", "issued"} <=> holder = i
  /\ \A i \in Items : at[i] = "waiting" <=> \E a \in 1 .. Len(queue) : queue[a] = i
  /\ \A a, b \in 1 .. Len(queue) :
       a < b => queue[a] # queue[b] /\ since[queue[a]] <= since[queue[b]]

\* The times of a fetch: a request lasts no longer than its client allows, and
\* nothing but requests and the wait for the mutex takes time.
DeadlineInv ==
  \A i \in Items :
    /\ at[i] = "idle" <=> worker[i] # "running"
    /\ at[i] # "idle" => began[i] <= clock /\ began[i] <= started[i] + ClientTimeout
    /\ at[i] = "hackernews" => began[i] = since[i] /\ began[i] = started[i]
    /\ at[i] \in {"check", "lock"} => began[i] = clock
    /\ at[i] = "waiting" => since[i] = began[i]
    /\ InFlight(i) => since[i] <= clock /\ clock <= since[i] + ClientTimeout

\* A step of i that leaves the queue alone and starts or ends no wait.
LEMMA MutexKept ==
  ASSUME FetchTypeOK, MutexInv, NEW i \in Items, NEW s \in Stages,
         at[i] # "waiting", s # "waiting", GoTo(i, s), UNCHANGED queue,
         \A j \in Items \ {i} : since'[j] = since[j],
         s \in {"renewing", "issued"} <=> holder' = i,
         \A j \in Items \ {i} : holder' = j <=> holder = j
  PROVE  MutexInv'
<1>1. at'[i] = s /\ \A j \in Items \ {i} : at'[j] = at[j]
  BY DEF GoTo, FetchTypeOK
<1>2. \A a \in 1 .. Len(queue) : queue[a] \in Items \ {i}
  BY DEF FetchTypeOK, MutexInv
<1>3. (\A j \in Items : at[j] \in {"renewing", "issued"} <=> holder = j)'
  BY <1>1 DEF MutexInv
<1>4. (\A j \in Items : at[j] = "waiting" <=> \E a \in 1 .. Len(queue) : queue[a] = j)'
  BY <1>1, <1>2 DEF MutexInv
<1>5. (\A a, b \in 1 .. Len(queue) :
         a < b => queue[a] # queue[b] /\ since[queue[a]] <= since[queue[b]])'
  BY <1>2 DEF MutexInv
<1> QED BY <1>3, <1>4, <1>5 DEF MutexInv

LEMMA MutexWait ==
  ASSUME PoolInv, FetchTypeOK, MutexInv, DeadlineInv, NEW i \in Items, Wait(i)
  PROVE  MutexInv'
<1>0. clock \in Nat
  BY ItemFacts
<1>1. at[i] = "lock" /\ at'[i] = "waiting" /\ since'[i] = clock
  BY DEF Wait, GoTo, Stamp, FetchTypeOK
<1>2. \A j \in Items \ {i} : at'[j] = at[j] /\ since'[j] = since[j]
  BY DEF Wait, GoTo, Stamp, FetchTypeOK
<1>3. \A a \in 1 .. Len(queue) : queue[a] \in Items \ {i}
  <2> SUFFICES ASSUME NEW a \in 1 .. Len(queue) PROVE queue[a] \in Items /\ at[queue[a]] = "waiting"
    BY <1>1
  <2>1. queue[a] \in Items
    BY DEF FetchTypeOK
  <2> QED BY <2>1 DEF MutexInv
<1>4. Len(queue) \in Nat /\ Len(queue') = Len(queue) + 1 /\ queue'[Len(queue) + 1] = i
  BY DEF Wait, FetchTypeOK
<1>5. \A a \in 1 .. Len(queue) : queue'[a] = queue[a]
  BY DEF Wait, FetchTypeOK
<1>6. \A j \in Items \ {i} : at[j] = "waiting" => since[j] <= clock
  BY DEF DeadlineInv
<1>7. (\A j \in Items : at[j] \in {"renewing", "issued"} <=> holder = j)'
  BY <1>1, <1>2 DEF MutexInv, Wait
<1>8. (\A j \in Items : at[j] = "waiting" <=> \E a \in 1 .. Len(queue) : queue[a] = j)'
  BY <1>1, <1>2, <1>3, <1>4, <1>5 DEF MutexInv
<1>9. (\A a, b \in 1 .. Len(queue) :
         a < b => queue[a] # queue[b] /\ since[queue[a]] <= since[queue[b]])'
  <2> SUFFICES ASSUME NEW a \in 1 .. Len(queue) + 1, NEW b \in 1 .. Len(queue) + 1, a < b
               PROVE  queue'[a] # queue'[b] /\ since'[queue'[a]] <= since'[queue'[b]]
    BY <1>4
  <2>1. a \in 1 .. Len(queue) /\ queue'[a] = queue[a] /\ queue[a] \in Items \ {i}
    BY <1>3, <1>4, <1>5
  <2>2. CASE b \in 1 .. Len(queue)
    BY <1>2, <1>3, <1>5, <2>1, <2>2 DEF MutexInv
  <2>3. CASE b = Len(queue) + 1
    <3>1. at[queue[a]] = "waiting"
      BY <2>1 DEF MutexInv
    <3> QED BY <1>1, <1>2, <1>4, <1>6, <2>1, <2>3, <3>1
  <2> QED BY <1>4, <2>2, <2>3
<1> QED BY <1>7, <1>8, <1>9 DEF MutexInv

\* The first waiter leaves the queue.
LEMMA MutexFirst ==
  ASSUME FetchTypeOK, MutexInv, queue # <<>>, queue' = Tail(queue),
         NEW s \in Stages, s # "waiting", GoTo(Head(queue), s),
         \A j \in Items \ {Head(queue)} : since'[j] = since[j],
         s \in {"renewing", "issued"} <=> holder' = Head(queue),
         \A j \in Items \ {Head(queue)} : holder' = j <=> holder = j
  PROVE  MutexInv'
<1> DEFINE i == Head(queue)
<1>1. i \in Items /\ Len(queue) \in Nat \ {0} /\ i = queue[1]
  BY DEF FetchTypeOK
<1>2. Len(queue') = Len(queue) - 1 /\ \A a \in 1 .. Len(queue) - 1 : queue'[a] = queue[a + 1]
  BY DEF FetchTypeOK
<1>3. at'[i] = s /\ \A j \in Items \ {i} : at'[j] = at[j]
  BY <1>1 DEF GoTo, FetchTypeOK
<1>4. \A a \in 1 .. Len(queue) : queue[a] \in Items /\ (a # 1 => queue[a] # i)
  <2> SUFFICES ASSUME NEW a \in 1 .. Len(queue) PROVE queue[a] \in Items /\ (a # 1 => queue[a] # i)
    OBVIOUS
  <2>1. queue[a] \in Items
    BY DEF FetchTypeOK
  <2>2. a # 1 => 1 < a /\ 1 \in 1 .. Len(queue)
    BY <1>1
  <2> QED BY <1>1, <2>1, <2>2 DEF MutexInv
<1> HIDE DEF i
<1>5. (\A j \in Items : at[j] \in {"renewing", "issued"} <=> holder = j)'
  BY <1>1, <1>3 DEF MutexInv, i
<1>6. (\A j \in Items : at[j] = "waiting" <=> \E a \in 1 .. Len(queue) : queue[a] = j)'
  <2> SUFFICES ASSUME NEW j \in Items
               PROVE  at'[j] = "waiting" <=> \E a \in 1 .. Len(queue') : queue'[a] = j
    OBVIOUS
  <2>1. CASE j = i
    <3>1. \A a \in 1 .. Len(queue') : queue'[a] # i
      BY <1>1, <1>2, <1>4
    <3> QED BY <1>3, <2>1, <3>1
  <2>2. CASE j # i
    <3>1. at'[j] = "waiting" <=> \E a \in 1 .. Len(queue) : queue[a] = j
      BY <1>3, <2>2 DEF MutexInv
    <3>2. ASSUME NEW a \in 1 .. Len(queue), queue[a] = j
          PROVE  \E b \in 1 .. Len(queue') : queue'[b] = j
      <4>1. a # 1
        BY <1>1, <2>2, <3>2
      <4>2. a - 1 \in 1 .. Len(queue') /\ queue'[a - 1] = queue[a]
        BY <1>1, <1>2, <4>1
      <4> QED BY <3>2, <4>2
    <3>3. ASSUME NEW b \in 1 .. Len(queue'), queue'[b] = j
          PROVE  \E a \in 1 .. Len(queue) : queue[a] = j
      <4>1. b + 1 \in 1 .. Len(queue) /\ queue'[b] = queue[b + 1]
        BY <1>1, <1>2
      <4> QED BY <3>3, <4>1
    <3> QED BY <3>1, <3>2, <3>3
  <2> QED BY <2>1, <2>2
<1>7. (\A a, b \in 1 .. Len(queue) :
         a < b => queue[a] # queue[b] /\ since[queue[a]] <= since[queue[b]])'
  <2> SUFFICES ASSUME NEW a \in 1 .. Len(queue'), NEW b \in 1 .. Len(queue'), a < b
               PROVE  queue'[a] # queue'[b] /\ since'[queue'[a]] <= since'[queue'[b]]
    OBVIOUS
  <2>1. /\ a + 1 \in 1 .. Len(queue) /\ b + 1 \in 1 .. Len(queue)
        /\ queue'[a] = queue[a + 1] /\ queue'[b] = queue[b + 1]
    BY <1>1, <1>2
  <2>2. queue[a + 1] \in Items \ {i} /\ queue[b + 1] \in Items \ {i}
    BY <1>1, <1>4, <2>1
  <2>3. since'[queue[a + 1]] = since[queue[a + 1]] /\ since'[queue[b + 1]] = since[queue[b + 1]]
    BY <2>2 DEF i
  <2> QED BY <2>1, <2>3 DEF MutexInv
<1> QED BY <1>5, <1>6, <1>7 DEF MutexInv


\* Only the fields of i change in a step of i.
LEMMA OthersStay ==
  ASSUME FetchTypeOK, NEW i \in Items, Step(i) \/ CheckAgain(i)
  PROVE  \A j \in Items \ {i} :
           at'[j] = at[j] /\ began'[j] = began[j] /\ since'[j] = since[j] /\ bearer'[j] = bearer[j]
<1>1. CASE CheckAgain(i)
  BY <1>1 DEF CheckAgain, Ask, Renew, GoTo, Stamp, FetchTypeOK
<1>2. CASE Step(i) /\ ~CheckAgain(i)
  <2>1. CASE HackerNewsEnds(i) \/ CheckToken(i) \/ Wait(i)
    BY <2>1 DEF HackerNewsEnds, CheckToken, Ask, Wait, GoTo, Stamp, FetchTypeOK
  <2>2. CASE Lock(i)
    BY <1>2, <2>2 DEF Lock
  <2>3. CASE Issue(i) \/ TokenArrives(i) \/ RenewalFails(i)
    BY <2>3 DEF Issue, TokenArrives, StoreAndAsk, RenewalFails, GoTo, Stamp, FetchTypeOK
  <2>4. CASE Refuse(i) \/ Refused(i) \/ AskingEnds(i) \/ Return(i)
    BY <2>4 DEF Refuse, Refused, AskingEnds, Return, GoTo, FetchTypeOK
  <2> QED BY <1>2, <2>1, <2>2, <2>3, <2>4 DEF Step
<1> QED BY <1>1, <1>2

LEMMA MutexStep ==
  ASSUME PoolInv, FetchTypeOK, MutexInv, DeadlineInv, NEW i \in Items, Step(i)
  PROVE  MutexInv'
<1>0. \A j \in Items \ {i} : since'[j] = since[j]
  BY OthersStay
<1>1. 0 \notin Items /\ (at[i] \in {"renewing", "issued"} <=> holder = i)
  BY ItemFacts DEF MutexInv
<1>2. CASE HackerNewsEnds(i) \/ Refuse(i) \/ Refused(i) \/ AskingEnds(i) \/ Return(i)
  <2>1. \E s \in {"check", "refused", "ended", "idle"} :
          GoTo(i, s) /\ at[i] \in {"hackernews", "asking", "refused", "ended"}
    BY <1>2 DEF HackerNewsEnds, Refuse, Refused, AskingEnds, Return
  <2>2. UNCHANGED mu
    BY <1>2 DEF HackerNewsEnds, Refuse, Refused, AskingEnds, Return
  <2> QED BY <1>0, <1>1, <2>1, <2>2, MutexKept DEF mu, Stages
<1>3. CASE CheckToken(i)
  <2>1. \E s \in {"asking", "lock"} : GoTo(i, s) /\ at[i] = "check"
    BY <1>3 DEF CheckToken, Ask
  <2>2. UNCHANGED mu
    BY <1>3 DEF CheckToken
  <2> QED BY <1>0, <1>1, <2>1, <2>2, MutexKept DEF mu, Stages
<1>4. CASE Lock(i)
  <2>1. at[i] = "lock" /\ holder = 0 /\ UNCHANGED queue
    BY <1>4 DEF Lock
  <2>2. CASE Ask(i) /\ UNCHANGED holder
    BY <1>0, <1>1, <2>1, <2>2, MutexKept DEF Ask, Stages
  <2>3. CASE Renew(i)
    BY <1>0, <1>1, <2>1, <2>3, MutexKept DEF Renew, Stages
  <2> QED BY <1>4, <2>2, <2>3 DEF Lock, CheckAgain
<1>5. CASE Wait(i)
  BY <1>5, MutexWait
<1>6. CASE Issue(i)
  BY <1>0, <1>1, <1>6, MutexKept DEF Issue, mu, Stages
<1>7. CASE TokenArrives(i) \/ RenewalFails(i)
  <2>1. \E s \in {"asking", "ended"} : GoTo(i, s) /\ at[i] \in {"renewing", "issued"}
    BY <1>7 DEF TokenArrives, StoreAndAsk, RenewalFails
  <2>2. holder' = 0 /\ UNCHANGED queue
    BY <1>7 DEF TokenArrives, StoreAndAsk, RenewalFails, Unlock
  <2> QED BY <1>0, <1>1, <2>1, <2>2, MutexKept DEF Stages
<1> QED BY <1>2, <1>3, <1>4, <1>5, <1>6, <1>7 DEF Step

LEMMA MutexLockFirst ==
  ASSUME PoolInv, FetchTypeOK, MutexInv, LockFirst
  PROVE  MutexInv'
<1>1. Head(queue) \in Items /\ 0 \notin Items
  BY ItemFacts, TypeFirst
<1>2. holder = 0 /\ queue # <<>> /\ queue' = Tail(queue) /\ CheckAgain(Head(queue))
  BY DEF LockFirst
<1>3. \A j \in Items \ {Head(queue)} : since'[j] = since[j]
  BY <1>1, <1>2, OthersStay
<1>4. CASE Ask(Head(queue)) /\ UNCHANGED holder
  BY <1>1, <1>2, <1>3, <1>4, MutexFirst DEF Ask, Stages
<1>5. CASE Renew(Head(queue))
  BY <1>1, <1>2, <1>3, <1>5, MutexFirst DEF Renew, Stages
<1> QED BY <1>2, <1>4, <1>5 DEF CheckAgain

LEMMA MutexStart ==
  ASSUME PoolInv, FetchTypeOK, MutexInv, DeadlineInv, Start
  PROVE  MutexInv'
<1>1. next \in Items /\ at[next] = "idle"
  BY ItemFacts DEF Start, Acquire, DeadlineInv
<1>2. \A j \in Items \ {next} : since'[j] = since[j]
  BY <1>1 DEF Start, Stamp, FetchTypeOK
<1>3. holder # next
  BY <1>1 DEF MutexInv
<1> QED BY <1>1, <1>2, <1>3, MutexKept DEF Start, mu, Stages

\* What no step of a fetch and no change of the pool disturbs.
Elsewhere == UNCHANGED <<calls, token, mu, grounds>>

LEMMA FetchSteps ==
  ASSUME FetchNext \/ UNCHANGED fvars
  PROVE  \/ Start \/ LockFirst \/ \E i \in Items : Step(i)
         \/ Elsewhere /\ (Tick \/ PoolStep \/ UNCHANGED vars)
<1>1. (PoolStep \/ Tick \/ UNCHANGED fvars) => Elsewhere
  BY DEF PoolStep, Tick, fvars, Elsewhere
<1>2. ASSUME NEW t, Revoke(t) PROVE Elsewhere /\ UNCHANGED vars
  BY <1>2 DEF Revoke, Elsewhere
<1> QED BY <1>1, <1>2 DEF FetchNext, fvars


-----------------------------------------------------------------------------
\* Unless a renewal is under way, a request for a token would have a reason.
GroundsInv ==
  /\ grounds >= 0
  /\ token.id = None /\ holder = 0 => grounds >= 1
  /\ \A i \in Items : at[i] = "issued" => bearer[i] # None

LEMMA GroundsCheckAgain ==
  ASSUME PoolInv, FetchTypeOK, GroundsInv, NEW i \in Items, holder = 0, CheckAgain(i)
  PROVE  GroundsInv'
<1>0. 0 \notin Items
  BY ItemFacts
<1>1. CASE Ask(i) /\ UNCHANGED holder
  BY <1>1 DEF Ask, GoTo, FetchTypeOK, GroundsInv
<1>2. CASE ~Fresh /\ Renew(i)
  BY <1>0, <1>2 DEF Renew, GoTo, FetchTypeOK, GroundsInv
<1> QED BY <1>1, <1>2 DEF CheckAgain

LEMMA GroundsStep ==
  ASSUME PoolInv, FetchTypeOK, GroundsInv, NEW i \in Items, Step(i)
  PROVE  GroundsInv'
<1>0. clock \in Nat /\ None = -1
  BY ItemFacts
<1>1. CASE HackerNewsEnds(i) \/ CheckToken(i)
  BY <1>1 DEF HackerNewsEnds, CheckToken, Ask, GoTo, mu, FetchTypeOK, GroundsInv
<1>2. CASE Lock(i)
  BY <1>2, GroundsCheckAgain DEF Lock
<1>3. CASE Wait(i)
  BY <1>3 DEF Wait, GoTo, FetchTypeOK, GroundsInv
<1>4. CASE Issue(i)
  BY <1>0, <1>4 DEF Issue, GoTo, mu, FetchTypeOK, GroundsInv
<1>5. CASE TokenArrives(i)
  BY <1>5 DEF TokenArrives, StoreAndAsk, Unlock, GoTo, FetchTypeOK, GroundsInv
<1>6. CASE RenewalFails(i)
  BY <1>6 DEF RenewalFails, Unlock, GoTo, FetchTypeOK, GroundsInv
<1>7. CASE Refused(i)
  BY <1>7 DEF Refused, GoTo, mu, FetchTypeOK, GroundsInv
<1>8. CASE Refuse(i) \/ AskingEnds(i)
  BY <1>8 DEF Refuse, AskingEnds, GoTo, mu, FetchTypeOK, GroundsInv
<1>9. CASE Return(i)
  BY <1>9 DEF Return, GoTo, mu, FetchTypeOK, GroundsInv
<1> QED BY <1>1, <1>2, <1>3, <1>4, <1>5, <1>6, <1>7, <1>8, <1>9 DEF Step

LEMMA GroundsNext ==
  ASSUME PoolInv, FetchTypeOK, GroundsInv, FetchNext \/ UNCHANGED fvars
  PROVE  GroundsInv'
<1>1. CASE Start
  <2>1. next \in Items
    BY <1>1, ItemFacts DEF Start, Acquire
  <2> QED BY <1>1, <2>1 DEF Start, GoTo, mu, FetchTypeOK, GroundsInv
<1>2. CASE LockFirst
  BY <1>2, TypeFirst, GroundsCheckAgain DEF LockFirst
<1>3. CASE Elsewhere
  BY <1>3 DEF Elsewhere, calls, mu, GroundsInv
<1> QED BY <1>1, <1>2, <1>3, FetchSteps, GroundsStep

-----------------------------------------------------------------------------
\* The times of a fetch in each step.  Start, the end of a wait and the passing of
\* time come first.
LEMMA DeadlinesStart ==
  ASSUME PoolInv, FetchTypeOK, DeadlineInv, Start
  PROVE  DeadlineInv'
<1>1. next \in Items /\ clock \in Nat /\ ClientTimeout \in Nat
  BY ItemFacts DEF Start, Acquire
<1>2. worker \in [Items -> {"none", "running", "release", "finish", "done"}] /\ started \in [Items -> Nat]
  BY DEF PoolInv, TypeOK
<1> SUFFICES ASSUME NEW j \in Items
             PROVE  (/\ at[j] = "idle" <=> worker[j] # "running"
                     /\ at[j] # "idle" => began[j] <= clock /\ began[j] <= started[j] + ClientTimeout
                     /\ at[j] = "hackernews" => began[j] = since[j] /\ began[j] = started[j]
                     /\ at[j] \in {"check", "lock"} => began[j] = clock
                     /\ at[j] = "waiting" => since[j] = began[j]
                     /\ InFlight(j) => since[j] <= clock /\ clock <= since[j] + ClientTimeout)'
  BY DEF DeadlineInv
<1>3. CASE j = next
  BY <1>1, <1>2, <1>3 DEF Start, Acquire, GoTo, Stamp, FetchTypeOK, InFlight
<1>4. CASE j # next
  BY <1>1, <1>2, <1>4 DEF Start, Acquire, GoTo, Stamp, FetchTypeOK, InFlight, DeadlineInv
<1> QED BY <1>3, <1>4

\* What a step of i, which is not idle, has to keep of its times.
LEMMA DeadlinesKept ==
  ASSUME PoolInv, FetchTypeOK, DeadlineInv, NEW i \in Items, UNCHANGED <<clock, started>>,
         \A j \in Items \ {i} :
           at'[j] = at[j] /\ began'[j] = began[j] /\ since'[j] = since[j] /\ worker'[j] = worker[j],
         at'[i] = "idle" <=> worker'[i] # "running",
         at'[i] # "idle" => began'[i] <= clock /\ began'[i] <= started[i] + ClientTimeout,
         at'[i] # "hackernews",
         at'[i] \in {"check", "lock"} => began'[i] = clock,
         at'[i] = "waiting" => since'[i] = began'[i],
         InFlight(i)' => since'[i] <= clock /\ clock <= since'[i] + ClientTimeout
  PROVE  DeadlineInv'
<1> SUFFICES ASSUME NEW j \in Items
             PROVE  (/\ at[j] = "idle" <=> worker[j] # "running"
                     /\ at[j] # "idle" => began[j] <= clock /\ began[j] <= started[j] + ClientTimeout
                     /\ at[j] = "hackernews" => began[j] = since[j] /\ began[j] = started[j]
                     /\ at[j] \in {"check", "lock"} => began[j] = clock
                     /\ at[j] = "waiting" => since[j] = began[j]
                     /\ InFlight(j) => since[j] <= clock /\ clock <= since[j] + ClientTimeout)'
  BY DEF DeadlineInv
<1>1. CASE j = i
  BY <1>1
<1>2. CASE j # i
  BY <1>2 DEF DeadlineInv, InFlight
<1> QED BY <1>1, <1>2

LEMMA DeadlinesCheckAgain ==
  ASSUME PoolInv, FetchTypeOK, DeadlineInv, NEW i \in Items, at[i] \in {"lock", "waiting"},
         CheckAgain(i)
  PROVE  DeadlineInv'
<1>1. clock \in Nat /\ ClientTimeout \in Nat
  BY ItemFacts
<1>2. UNCHANGED vars /\ began' = began /\ at'[i] \in {"asking", "renewing"} /\ since'[i] = clock
  BY DEF CheckAgain, Ask, Renew, GoTo, Stamp, FetchTypeOK
<1>3. UNCHANGED <<clock, started, worker>>
  BY <1>2 DEF vars
<1>4. worker[i] = "running" /\ began[i] <= clock /\ began[i] <= started[i] + ClientTimeout
  BY DEF DeadlineInv
<1> QED BY <1>1, <1>2, <1>3, <1>4, OthersStay, DeadlinesKept

LEMMA DeadlinesStep ==
  ASSUME PoolInv, FetchTypeOK, DeadlineInv, NEW i \in Items, Step(i)
  PROVE  DeadlineInv'
<1>1. clock \in Nat /\ ClientTimeout \in Nat /\ began[i] \in Nat /\ since[i] \in Nat
  BY ItemFacts DEF FetchTypeOK
<1>2. CASE Lock(i)
  BY <1>2, DeadlinesCheckAgain DEF Lock
<1>3. CASE Return(i)
  <2>1. at'[i] = "idle" /\ UNCHANGED <<clock, started>>
    BY <1>3 DEF Return, FnReturns, GoTo, FetchTypeOK
  <2>2. worker'[i] = "release" /\ \A j \in Items \ {i} : worker'[j] = worker[j]
    BY <1>3 DEF Return, FnReturns, PoolInv, TypeOK
  <2> QED BY <1>1, <2>1, <2>2, OthersStay, DeadlinesKept DEF InFlight
<1>4. CASE ~Lock(i) /\ ~Return(i)
  <2>1. UNCHANGED vars
    BY <1>4 DEF Step, HackerNewsEnds, CheckToken, Ask, Wait, Issue, TokenArrives, StoreAndAsk,
           RenewalFails, Refuse, Refused, AskingEnds
  <2>2. UNCHANGED <<clock, started, worker>>
    BY <2>1 DEF vars
  <2>3. worker[i] = "running" /\ at[i] # "idle"
    BY <1>4 DEF Step, HackerNewsEnds, CheckToken, Wait, Issue, TokenArrives, StoreAndAsk,
           RenewalFails, Refuse, Refused, AskingEnds, DeadlineInv
  <2>4. began[i] <= clock /\ began[i] <= started[i] + ClientTimeout
    BY <2>3 DEF DeadlineInv
  <2>5. CASE HackerNewsEnds(i)
    <3>1. at'[i] = "check" /\ began'[i] = clock
      BY <2>5 DEF HackerNewsEnds, GoTo, FetchTypeOK
    <3>2. clock <= started[i] + ClientTimeout
      BY <2>5 DEF HackerNewsEnds, DeadlineInv, InFlight
    <3> QED BY <1>1, <2>2, <2>3, <3>1, <3>2, OthersStay, DeadlinesKept DEF InFlight
  <2>6. CASE CheckToken(i)
    <3>1. at'[i] \in {"asking", "lock"} /\ began' = began /\ began[i] = clock
      BY <2>6 DEF CheckToken, Ask, GoTo, FetchTypeOK, DeadlineInv
    <3>2. at'[i] = "asking" => since'[i] = clock
      BY <2>6 DEF CheckToken, Ask, GoTo, Stamp, FetchTypeOK
    <3> QED BY <1>1, <2>2, <2>3, <2>4, <3>1, <3>2, OthersStay, DeadlinesKept DEF InFlight
  <2>7. CASE Wait(i)
    <3>1. at'[i] = "waiting" /\ began' = began /\ began[i] = clock /\ since'[i] = clock
      BY <2>7 DEF Wait, GoTo, Stamp, FetchTypeOK, DeadlineInv
    <3> QED BY <1>1, <2>2, <2>3, <2>4, <3>1, OthersStay, DeadlinesKept DEF InFlight
  <2>8. CASE TokenArrives(i)
    <3>1. at'[i] = "asking" /\ began' = began /\ since'[i] = clock
      BY <2>8 DEF TokenArrives, StoreAndAsk, GoTo, Stamp, FetchTypeOK
    <3> QED BY <1>1, <2>2, <2>3, <2>4, <3>1, OthersStay, DeadlinesKept DEF InFlight
  <2>9. CASE Issue(i) \/ RenewalFails(i) \/ Refuse(i) \/ Refused(i) \/ AskingEnds(i)
    <3>1. at'[i] \in {"issued", "refused", "ended"} /\ UNCHANGED <<began, since>> /\ InFlight(i)
      BY <2>9 DEF Issue, RenewalFails, Refuse, Refused, AskingEnds, GoTo, FetchTypeOK, InFlight
    <3>2. since[i] <= clock /\ clock <= since[i] + ClientTimeout
      BY <3>1 DEF DeadlineInv
    <3> QED BY <1>1, <2>2, <2>3, <2>4, <3>1, <3>2, OthersStay, DeadlinesKept DEF InFlight
  <2> QED BY <1>4, <2>5, <2>6, <2>7, <2>8, <2>9 DEF Step
<1> QED BY <1>2, <1>3, <1>4

LEMMA DeadlineFacts ==
  ASSUME PoolInv, FetchTypeOK, NEW i \in Items, clock < Deadline(i)
  PROVE  clock + 1 <= since[i] + ClientTimeout /\ clock + 1 <= began[i] + ContextTimeout
<1>1. /\ clock \in Nat /\ ClientTimeout \in Nat /\ ContextTimeout \in Nat
      /\ began[i] \in Nat /\ since[i] \in Nat
  BY ItemFacts DEF FetchTypeOK
<1> QED BY <1>1 DEF Deadline, AtMost

LEMMA DeadlinesTick ==
  ASSUME PoolInv, FetchTypeOK, DeadlineInv, Tick
  PROVE  DeadlineInv'
<1>1. clock \in Nat /\ clock' = clock + 1 /\ UNCHANGED <<at, began, since, worker, started>>
  BY ItemFacts DEF Tick, Elapse, calls
<1>2. \A j \in Items : began[j] \in Nat /\ since[j] \in Nat /\ started[j] \in Nat
  BY DEF FetchTypeOK, PoolInv, TypeOK
<1>3. \A j \in Items : at[j] \notin {"check", "lock"}
  BY DEF Tick, InFlight
<1>4. \A j \in Items : InFlight(j) => clock + 1 <= since[j] + ClientTimeout
  BY DeadlineFacts DEF Tick, InFlight
<1>5. \A j \in Items : InFlight(j)' <=> InFlight(j)
  BY <1>1 DEF InFlight
<1> QED BY <1>1, <1>2, <1>3, <1>4, <1>5 DEF DeadlineInv

LEMMA DeadlinesNext ==
  ASSUME PoolInv, FetchTypeOK, MutexInv, DeadlineInv, FetchNext \/ UNCHANGED fvars
  PROVE  DeadlineInv'
<1>1. CASE LockFirst
  <2>1. Head(queue) \in Items
    BY <1>1, TypeFirst
  <2>2. at[Head(queue)] = "waiting"
    <3>1. queue # <<>>
      BY <1>1 DEF LockFirst
    <3>2. 1 \in 1 .. Len(queue) /\ Head(queue) = queue[1]
      BY <3>1 DEF FetchTypeOK
    <3> QED BY <2>1, <3>2 DEF MutexInv
  <2> QED BY <1>1, <2>1, <2>2, DeadlinesCheckAgain DEF LockFirst
<1>2. CASE Elsewhere /\ (PoolStep \/ UNCHANGED vars)
  <2>1. UNCHANGED <<at, began, since, clock, started>>
    BY <1>2 DEF Elsewhere, calls, PoolStep, Add, LoopEnds, WaitReturns, Release, Done, vars
  <2>2. \A j \in Items : worker'[j] = "running" <=> worker[j] = "running"
    BY <1>2 DEF PoolStep, Add, LoopEnds, WaitReturns, Release, Done, vars, PoolInv, TypeOK
  <2> QED BY <2>1, <2>2 DEF DeadlineInv, InFlight
<1> QED BY <1>1, <1>2, FetchSteps, DeadlinesStart, DeadlinesStep, DeadlinesTick


-----------------------------------------------------------------------------
\* What a fetch waits for: the mutex is with one that came no later, or, when it was
\* overtaken, with one that got it in time.
WaitInv ==
  \A i \in Items : at[i] = "waiting" =>
    /\ clock <= began[i] + ContextTimeout + (IF starving THEN ClientTimeout ELSE 0)
    /\ holder # 0 =>
         \/ began[holder] <= began[i]
         \/ starving /\ since[holder] <= began[i] + ContextTimeout

\* The first in the queue has waited longest, and nobody before he was called.
LEMMA QueueFacts ==
  ASSUME PoolInv, FetchTypeOK, MutexInv, DeadlineInv, queue # <<>>
  PROVE  /\ Head(queue) \in Items /\ at[Head(queue)] = "waiting"
         /\ since[Head(queue)] = began[Head(queue)] /\ began[Head(queue)] <= clock
         /\ \A j \in Items : at[j] = "waiting" =>
              /\ began[Head(queue)] <= began[j] /\ began[j] <= clock
              /\ j # Head(queue) => Tail(queue) # <<>>
<1>1. 1 \in 1 .. Len(queue) /\ Head(queue) = queue[1] /\ queue[1] \in Items
  BY DEF FetchTypeOK
<1>2. at[queue[1]] = "waiting"
  BY <1>1 DEF MutexInv
<1>3. since[queue[1]] = began[queue[1]] /\ began[queue[1]] <= clock
  BY <1>1, <1>2 DEF DeadlineInv
<1>4. ASSUME NEW j \in Items, at[j] = "waiting"
      PROVE  /\ began[queue[1]] <= began[j] /\ began[j] <= clock
             /\ j # queue[1] => Tail(queue) # <<>>
  <2>1. PICK b \in 1 .. Len(queue) : queue[b] = j
    BY <1>4 DEF MutexInv
  <2>2. since[j] = began[j] /\ began[j] <= clock
    BY <1>4 DEF DeadlineInv
  <2>3. CASE b = 1
    BY <1>1, <2>1, <2>2, <2>3 DEF FetchTypeOK
  <2>4. CASE b # 1
    <3>1. 1 < b
      BY <2>4
    <3>2. since[queue[1]] <= since[j]
      BY <1>1, <2>1, <3>1 DEF MutexInv
    <3>3. Tail(queue) # <<>>
      <4>1. Len(queue) >= 2 /\ queue \in Seq(Items)
        BY <3>1 DEF FetchTypeOK
      <4>2. Len(Tail(queue)) = Len(queue) - 1
        BY <1>1, <4>1
      <4>3. Len(Tail(queue)) # 0
        BY <4>1, <4>2
      <4>4. Len(<<>>) = 0
        OBVIOUS
      <4>5. ASSUME Tail(queue) = <<>> PROVE Len(Tail(queue)) = 0
        BY <4>4, <4>5, Zenon
      <4> QED BY <4>3, <4>5, Zenon
    <3> QED BY <1>3, <2>2, <3>2, <3>3
  <2> QED BY <2>3, <2>4
<1> QED BY <1>1, <1>2, <1>3, <1>4

\* A step that lets i have the mutex while others wait.
LEMMA WaitRenew ==
  ASSUME PoolInv, FetchTypeOK, NEW i \in Items, Renew(i),
         \A j \in Items \ {i} : at[j] = "waiting" =>
           /\ clock <= began[j] + ContextTimeout + (IF starving' THEN ClientTimeout ELSE 0)
           /\ \/ began[i] <= began[j]
              \/ starving' /\ clock <= began[j] + ContextTimeout
  PROVE  WaitInv'
<1>1. /\ at'[i] = "renewing" /\ since'[i] = clock /\ holder' = i
      /\ began' = began /\ \A j \in Items \ {i} : at'[j] = at[j]
  BY DEF Renew, GoTo, Stamp, FetchTypeOK
<1>2. clock' = clock
  BY DEF Renew, vars
<1> QED BY <1>1, <1>2 DEF WaitInv

LEMMA WaitAsk ==
  ASSUME PoolInv, FetchTypeOK, NEW i \in Items, Ask(i), UNCHANGED holder, holder = 0,
         \A j \in Items \ {i} : at[j] = "waiting" =>
           clock <= began[j] + ContextTimeout + (IF starving' THEN ClientTimeout ELSE 0)
  PROVE  WaitInv'
<1>1. at'[i] = "asking" /\ began' = began /\ \A j \in Items \ {i} : at'[j] = at[j]
  BY DEF Ask, GoTo, FetchTypeOK
<1>2. clock' = clock
  BY DEF Ask, vars
<1> QED BY <1>1, <1>2 DEF WaitInv

\* The mutex is free and goes to one that asks.
LEMMA WaitLock ==
  ASSUME PoolInv, FetchTypeOK, MutexInv, DeadlineInv, WaitInv, NEW i \in Items, Lock(i)
  PROVE  WaitInv'
<1>1. clock \in Nat /\ ClientTimeout \in Nat /\ ContextTimeout \in Nat /\ \A j \in Items : began[j] \in Nat
  BY ItemFacts DEF FetchTypeOK
<1>2. holder = 0 /\ ~starving /\ at[i] = "lock" /\ began[i] <= clock
  BY DEF Lock, DeadlineInv
<1>3. \A j \in Items : at[j] = "waiting" =>
        queue # <<>> /\ clock <= began[j] + ContextTimeout
  BY <1>1, <1>2 DEF WaitInv, MutexInv, FetchTypeOK
<1>4. ASSUME NEW j \in Items, at[j] = "waiting"
      PROVE  starving' \/ began[i] <= began[j]
  <2>1. CASE starving'
    BY <2>1
  <2>2. CASE ~starving'
    <3>1. since[Head(queue)] = clock
      BY <1>2, <1>3, <1>4, <2>2 DEF Lock
    <3>2. since[Head(queue)] <= began[j]
      BY <1>3, <1>4, QueueFacts
    <3> QED BY <1>1, <1>2, <3>1, <3>2
  <2> QED BY <2>1, <2>2
<1>5. \A j \in Items : at[j] = "waiting" =>
        clock <= began[j] + ContextTimeout + (IF starving' THEN ClientTimeout ELSE 0)
  BY <1>1, <1>3
<1>6. CASE Ask(i) /\ UNCHANGED holder
  BY <1>2, <1>5, <1>6, WaitAsk
<1>7. CASE Renew(i)
  BY <1>3, <1>4, <1>5, <1>7, WaitRenew
<1> QED BY <1>6, <1>7 DEF Lock, CheckAgain

\* The mutex goes to its first waiter.
LEMMA WaitFirst ==
  ASSUME PoolInv, FetchTypeOK, MutexInv, DeadlineInv, WaitInv, LockFirst
  PROVE  WaitInv'
<1> DEFINE i == Head(queue)
<1>1. clock \in Nat /\ ClientTimeout \in Nat /\ ContextTimeout \in Nat /\ \A j \in Items : began[j] \in Nat
  BY ItemFacts DEF FetchTypeOK
<1>2. holder = 0 /\ queue # <<>> /\ CheckAgain(i)
      /\ starving' = (starving /\ Tail(queue) # <<>> /\ since[i] < clock)
  BY DEF LockFirst
<1>3. /\ i \in Items /\ since[i] = began[i] /\ began[i] <= clock
      /\ \A j \in Items \ {i} : at[j] = "waiting" =>
           began[i] <= began[j] /\ began[j] <= clock /\ Tail(queue) # <<>>
  BY <1>2, QueueFacts
<1> HIDE DEF i
<1>4. ASSUME NEW j \in Items \ {i}, at[j] = "waiting"
      PROVE  clock <= began[j] + ContextTimeout + (IF starving' THEN ClientTimeout ELSE 0)
  <2>1. clock <= began[j] + ContextTimeout + (IF starving THEN ClientTimeout ELSE 0)
    BY <1>4 DEF WaitInv
  <2>2. CASE starving' <=> starving
    BY <2>1, <2>2
  <2>3. CASE ~(starving' <=> starving)
    <3>1. ~starving' /\ ~(since[i] < clock)
      BY <1>2, <1>3, <1>4, <2>3
    <3> QED BY <1>1, <1>3, <1>4, <3>1
  <2> QED BY <2>2, <2>3
<1>5. CASE Ask(i) /\ UNCHANGED holder
  BY <1>2, <1>3, <1>4, <1>5, WaitAsk
<1>6. CASE Renew(i)
  BY <1>3, <1>4, <1>6, WaitRenew
<1> QED BY <1>2, <1>5, <1>6 DEF CheckAgain

\* A step that gives nobody the mutex and lets nobody wait.
LEMMA WaitKept ==
  ASSUME FetchTypeOK, WaitInv, NEW i \in Items, UNCHANGED <<clock, starving>>,
         \A j \in Items \ {i} : at'[j] = at[j] /\ began'[j] = began[j] /\ since'[j] = since[j],
         at'[i] # "waiting", holder' = 0 \/ (holder' = holder /\ holder \in Items),
         holder' = i => since'[i] = since[i] /\ began'[i] = began[i]
  PROVE  WaitInv'
<1>1. holder' # 0 =>
        holder' = holder /\ since'[holder] = since[holder] /\ began'[holder] = began[holder]
  OBVIOUS
<1>2. \A j \in Items : at'[j] = "waiting" => at[j] = "waiting" /\ began'[j] = began[j]
  OBVIOUS
<1> QED BY <1>1, <1>2 DEF WaitInv

LEMMA WaitStep ==
  ASSUME PoolInv, FetchTypeOK, MutexInv, DeadlineInv, WaitInv, NEW i \in Items, Step(i)
  PROVE  WaitInv'
<1>0. 0 \notin Items /\ clock \in Nat /\ ClientTimeout \in Nat /\ ContextTimeout \in Nat
  BY ItemFacts
<1>1. CASE Lock(i)
  BY <1>1, WaitLock
<1>2. CASE Wait(i)
  <2>1. /\ at'[i] = "waiting" /\ began' = began /\ began[i] = clock
        /\ \A j \in Items \ {i} : at'[j] = at[j] /\ since'[j] = since[j]
    BY <1>2 DEF Wait, GoTo, Stamp, FetchTypeOK, DeadlineInv
  <2>2. UNCHANGED <<clock, starving, holder>> /\ at[i] = "lock"
    BY <1>2 DEF Wait, vars
  <2>3. holder # i /\ (holder # 0 => holder \in Items /\ at[holder] \in {"renewing", "issued"})
    BY <2>2 DEF MutexInv, FetchTypeOK
  <2>4. holder # 0 => began[holder] <= clock
    BY <2>3 DEF DeadlineInv
  <2>5. ASSUME NEW j \in Items, at'[j] = "waiting", j # i
        PROVE  /\ clock <= began[j] + ContextTimeout + (IF starving THEN ClientTimeout ELSE 0)
               /\ holder # 0 =>
                    \/ began[holder] <= began[j]
                    \/ starving /\ since'[holder] <= began[j] + ContextTimeout
    BY <2>1, <2>3, <2>5 DEF WaitInv
  <2>6. clock <= began[i] + ContextTimeout + (IF starving THEN ClientTimeout ELSE 0)
    BY <1>0, <2>1
  <2> QED BY <2>1, <2>2, <2>4, <2>5, <2>6 DEF WaitInv
<1>3. CASE ~Lock(i) /\ ~Wait(i)
  <2>1. UNCHANGED <<clock, starving>>
    BY <1>3 DEF Step, HackerNewsEnds, CheckToken, Ask, Issue, TokenArrives, StoreAndAsk, Unlock,
           RenewalFails, Refuse, Refused, AskingEnds, Return, FnReturns, vars, mu
  <2>2. at'[i] # "waiting"
    BY <1>3 DEF Step, HackerNewsEnds, CheckToken, Ask, Issue, TokenArrives, StoreAndAsk,
           RenewalFails, Refuse, Refused, AskingEnds, Return, GoTo, FetchTypeOK
  <2>3. holder' = 0 \/ (holder' = holder /\ holder \in Items)
    BY <1>3 DEF Step, HackerNewsEnds, CheckToken, Issue, TokenArrives, StoreAndAsk, Unlock,
           RenewalFails, Refuse, Refused, AskingEnds, Return, mu, FetchTypeOK
  <2>4. holder' = i => since'[i] = since[i] /\ began'[i] = began[i]
    <3> SUFFICES ASSUME holder' = i PROVE since'[i] = since[i] /\ began'[i] = began[i]
      OBVIOUS
    <3>1. holder = i /\ at[i] \in {"renewing", "issued"}
      BY <1>0, <2>3 DEF MutexInv
    <3>2. ~TokenArrives(i) /\ ~RenewalFails(i)
      BY <1>0 DEF TokenArrives, StoreAndAsk, RenewalFails, Unlock
    <3>3. Issue(i)
      BY <1>3, <3>1, <3>2 DEF Step, HackerNewsEnds, CheckToken, Refuse, Refused, AskingEnds, Return
    <3> QED BY <3>3 DEF Issue
  <2> QED BY <2>1, <2>2, <2>3, <2>4, OthersStay, WaitKept
<1> QED BY <1>1, <1>2, <1>3

\* Time passes only while whoever holds the mutex is within its deadlines.
LEMMA WaitTick ==
  ASSUME PoolInv, FetchTypeOK, MutexInv, DeadlineInv, WaitInv, Tick
  PROVE  WaitInv'
<1>1. /\ clock \in Nat /\ ClientTimeout \in Nat /\ ContextTimeout \in Nat
      /\ \A j \in Items : began[j] \in Nat /\ since[j] \in Nat
  BY ItemFacts DEF FetchTypeOK
<1>2. clock' = clock + 1 /\ UNCHANGED <<at, began, since, holder, starving>>
  BY DEF Tick, Elapse, calls, mu
<1> SUFFICES ASSUME NEW i \in Items, at[i] = "waiting"
             PROVE  /\ clock + 1 <= began[i] + ContextTimeout + (IF starving THEN ClientTimeout ELSE 0)
                    /\ holder # 0 =>
                         \/ began[holder] <= began[i]
                         \/ starving /\ since[holder] <= began[i] + ContextTimeout
  BY <1>2 DEF WaitInv
<1>3. holder \in Items
  <2>1. queue # <<>>
    BY DEF MutexInv, FetchTypeOK
  <2> QED BY <2>1 DEF Tick, FetchTypeOK
<1>4. at[holder] \in {"renewing", "issued"}
  BY <1>3 DEF MutexInv
<1>5. clock < Deadline(holder)
  BY <1>3, <1>4 DEF Tick
<1>6. clock + 1 <= since[holder] + ClientTimeout /\ clock + 1 <= began[holder] + ContextTimeout
  BY <1>3, <1>5, DeadlineFacts
<1>7. holder # 0 => \/ began[holder] <= began[i]
                    \/ starving /\ since[holder] <= began[i] + ContextTimeout
  BY DEF WaitInv
<1>8. holder # 0
  BY <1>3, ItemFacts
<1> QED BY <1>1, <1>3, <1>6, <1>7, <1>8

LEMMA WaitNext ==
  ASSUME PoolInv, FetchTypeOK, MutexInv, DeadlineInv, WaitInv, FetchNext \/ UNCHANGED fvars
  PROVE  WaitInv'
<1>1. CASE Start
  <2>1. next \in Items /\ at[next] = "idle" /\ 0 \notin Items
    BY <1>1, ItemFacts DEF Start, Acquire, DeadlineInv
  <2>2. holder # next /\ UNCHANGED <<clock, starving, holder>>
    BY <1>1, <2>1 DEF Start, Acquire, MutexInv, mu
  <2>3. /\ at'[next] = "hackernews"
        /\ \A j \in Items \ {next} : at'[j] = at[j] /\ began'[j] = began[j] /\ since'[j] = since[j]
    BY <1>1, <2>1 DEF Start, GoTo, Stamp, FetchTypeOK
  <2>4. holder = 0 \/ holder \in Items
    BY DEF FetchTypeOK
  <2> QED BY <2>1, <2>2, <2>3, <2>4, WaitKept
<1>2. CASE Elsewhere /\ (PoolStep \/ UNCHANGED vars)
  <2>1. UNCHANGED <<at, began, since, clock, holder, starving>>
    BY <1>2 DEF Elsewhere, calls, mu, PoolStep, Add, LoopEnds, WaitReturns, Release, Done, vars
  <2> QED BY <2>1 DEF WaitInv
<1> QED BY <1>1, <1>2, FetchSteps, WaitFirst, WaitStep, WaitTick


-----------------------------------------------------------------------------
\* All steps keep all parts of the invariant.
LEMMA FetchInits ==
  FetchInit => PoolInv /\ FetchTypeOK /\ MutexInv /\ DeadlineInv /\ WaitInv /\ GroundsInv
<1> SUFFICES ASSUME FetchInit
             PROVE  PoolInv /\ FetchTypeOK /\ MutexInv /\ DeadlineInv /\ WaitInv /\ GroundsInv
  OBVIOUS
<1>1. PoolInv
  BY InitPoolInv DEF FetchInit
<1>2. 0 \notin Items /\ None = -1
  BY <1>1, ItemFacts
<1>3. FetchTypeOK
  <2>1. token \in [id : Nat \cup {None}, expiry : Int]
    BY DEF FetchInit, NoToken
  <2>2. queue \in Seq(Items)
    BY DEF FetchInit
  <2>3. at \in [Items -> Stages] /\ bearer \in [Items -> Nat \cup {None}]
    BY DEF FetchInit, Stages
  <2>4. began \in [Items -> Nat] /\ since \in [Items -> Nat]
    BY DEF FetchInit
  <2>5. holder = 0 /\ grounds = 1 /\ starving = FALSE
    BY Zenon DEF FetchInit
  <2>6. holder \in Items \cup {0} /\ grounds \in Int
    BY <2>5
  <2>7. starving \in BOOLEAN
    BY <2>5, Zenon
  <2> QED BY <2>1, <2>2, <2>3, <2>4, <2>6, <2>7, Zenon DEF FetchTypeOK
<1>4. MutexInv
  BY <1>2 DEF FetchInit, MutexInv
<1>5. DeadlineInv
  BY DEF FetchInit, Init, DeadlineInv, InFlight
<1>6. WaitInv /\ GroundsInv
  BY DEF FetchInit, WaitInv, GroundsInv
<1> QED BY <1>1, <1>3, <1>4, <1>5, <1>6

\* Each step is one of the pool or none; of the passing of time this is known apart
\* from the deadline of fn.
LEMMA PoolSteps ==
  ASSUME PoolInv, FetchNext \/ UNCHANGED fvars
  PROVE  [Next]_vars \/ (Tick /\ Elapse)
<1>1. Start => Next
  BY DEF Start, Next
<1>2. PoolStep => Next
  BY DEF PoolStep, Next
<1>3. ASSUME NEW i \in Items, Step(i)
      PROVE  Next \/ UNCHANGED vars
  <2>1. CASE Return(i)
    BY <2>1 DEF Return, Next
  <2>2. CASE ~Return(i)
    BY <1>3, <2>2 DEF Step, HackerNewsEnds, CheckToken, Lock, CheckAgain, Ask, Renew, Wait, Issue,
           TokenArrives, StoreAndAsk, RenewalFails, Refuse, Refused, AskingEnds
  <2> QED BY <2>1, <2>2
<1>4. LockFirst => UNCHANGED vars
  BY DEF LockFirst, CheckAgain, Ask, Renew
<1> QED BY <1>1, <1>2, <1>3, <1>4, FetchSteps DEF Tick

LEMMA PoolInvKept ==
  ASSUME PoolInv, FetchNext \/ UNCHANGED fvars
  PROVE  PoolInv'
  BY PoolSteps, NextPoolInv, ElapsePoolInv

LEMMA TypeNext ==
  ASSUME PoolInv, FetchTypeOK, FetchNext \/ UNCHANGED fvars
  PROVE  FetchTypeOK'
<1>1. CASE Elsewhere
  BY <1>1 DEF Elsewhere, calls, mu, FetchTypeOK
<1> QED BY <1>1, FetchSteps, TypeStart, TypeStep, TypeFirst

LEMMA MutexNext ==
  ASSUME PoolInv, FetchTypeOK, MutexInv, DeadlineInv, FetchNext \/ UNCHANGED fvars
  PROVE  MutexInv'
<1>1. CASE Elsewhere
  BY <1>1 DEF Elsewhere, calls, mu, MutexInv
<1> QED BY <1>1, FetchSteps, MutexStart, MutexStep, MutexLockFirst

FetchInv == PoolInv /\ FetchTypeOK /\ MutexInv /\ DeadlineInv /\ WaitInv /\ GroundsInv

\* The inductive invariant of Fetchers: it holds from the start and every step keeps it.
THEOREM FetchInvariant == FetchSpec => []FetchInv
<1>1. FetchInit => FetchInv
  BY FetchInits DEF FetchInv
<1>2. FetchInv /\ [FetchNext]_fvars => FetchInv'
  BY PoolInvKept, TypeNext, MutexNext, DeadlinesNext, WaitNext, GroundsNext DEF FetchInv
<1> QED BY <1>1, <1>2, PTL DEF FetchSpec

\* Each request for a token has a reason of its own, for any number of URLs and
\* fetches at a time, however late answers come and tokens are withdrawn.
THEOREM RenewalsFollowGrounds == FetchSpec => []RenewalsHaveGrounds
<1>1. FetchInv => RenewalsHaveGrounds
  BY DEF FetchInv, GroundsInv, RenewalsHaveGrounds
<1> QED BY <1>1, FetchInvariant, PTL

\* A running fn is within Timeout when time passes.
LEMMA TickTimePasses ==
  ASSUME FetchesFit, FetchInv, Tick
  PROVE  TimePasses
<1>0. PoolInv /\ FetchTypeOK /\ MutexInv /\ DeadlineInv /\ WaitInv
  BY DEF FetchInv
<1>1. /\ clock \in Nat /\ ClientTimeout \in Nat /\ ContextTimeout \in Nat /\ Timeout \in Nat
      /\ \A i \in Items : began[i] \in Nat /\ since[i] \in Nat /\ started[i] \in Nat
  BY <1>0, ItemFacts, PoolAssumption DEF FetchTypeOK, PoolInv, TypeOK
<1>2. ASSUME NEW i \in Items, worker[i] = "running"
      PROVE  clock < started[i] + Timeout
  <2>1. at[i] # "idle" /\ began[i] <= started[i] + ClientTimeout
    BY <1>0, <1>2 DEF DeadlineInv
  <2>2. CASE at[i] = "waiting"
    <3>1. WaitInv' /\ clock' = clock + 1 /\ UNCHANGED <<at, began>>
      BY <1>0, WaitTick DEF Tick, Elapse, calls
    <3>2. clock + 1 <= began[i] + ContextTimeout + (IF starving' THEN ClientTimeout ELSE 0)
      BY <2>2, <3>1 DEF WaitInv
    <3>3. clock + 1 <= began[i] + ContextTimeout + ClientTimeout
      BY <1>1, <3>2
    <3> QED BY <1>1, <2>1, <3>3 DEF FetchesFit
  <2>3. CASE at[i] # "waiting"
    <3>1. clock < Deadline(i)
      BY <2>1, <2>3 DEF Tick
    <3>2. clock + 1 <= began[i] + ContextTimeout
      BY <1>0, <3>1, DeadlineFacts
    <3> QED BY <1>1, <2>1, <3>2 DEF FetchesFit
  <2> QED BY <2>2, <2>3
<1> QED BY <1>2 DEF Tick, TimePasses

\* The pool with the fetchers of Hacker News and Reddit is Pool: each call of fn ends
\* within Timeout, if that has room for both fetches and for one renewal of the token
\* that got ahead of the wait for the mutex.
THEOREM FetchersImplementPool == ASSUME FetchesFit PROVE FetchSpec => ImplementsPool
<1>1. FetchInit => Init
  BY DEF FetchInit
<1>2. FetchInv /\ [FetchNext]_fvars => [Next]_vars
  <2>1. ASSUME FetchInv, FetchNext \/ UNCHANGED fvars
        PROVE  Next \/ UNCHANGED vars
    BY <2>1, PoolSteps, TickTimePasses DEF FetchInv, Next
  <2> QED BY <2>1
<1> QED BY <1>1, <1>2, FetchInvariant, PTL DEF FetchSpec, Spec, ImplementsPool

\* So what is proved of Pool holds of it: the batch of URLs lasts no longer than its
\* groups of full timeouts.
THEOREM FetchersStartInTurn == ASSUME FetchesFit PROVE FetchSpec => []StartsInTurn
BY FetchersImplementPool, PoolStartsInTurn, PTL DEF ImplementsPool

-----------------------------------------------------------------------------
\* A token is used no longer than Reddit honours it.
TokenInv ==
  /\ token.id # None => token.expiry <= token.id + ClientTimeout + Life - Margin
  /\ \A i \in Items :
       /\ at[i] = "issued" => since[i] <= bearer[i] /\ bearer[i] <= clock
       /\ at[i] = "asking" => bearer[i] # None /\ since[i] + ClientTimeout <= bearer[i] + Life
       /\ at[i] = "refused" => bearer[i] \in revoked

LEMMA TokenAsk ==
  ASSUME MarginCovers, PoolInv, FetchTypeOK, TokenInv, NEW i \in Items, Fresh, Ask(i)
  PROVE  TokenInv'
<1>1. /\ clock \in Nat /\ ClientTimeout \in Nat /\ Life \in Nat /\ Margin \in Nat
      /\ token.id \in Nat \cup {None} /\ token.expiry \in Int
  BY ItemFacts DEF FetchTypeOK
<1>2. token.id # None /\ clock < token.expiry
  BY DEF Fresh
<1>3. token.id \in Nat /\ clock + ClientTimeout <= token.id + Life
  BY <1>1, <1>2 DEF TokenInv, MarginCovers
<1>4. /\ at'[i] = "asking" /\ bearer'[i] = token.id /\ since'[i] = clock
      /\ \A j \in Items \ {i} : at'[j] = at[j] /\ bearer'[j] = bearer[j] /\ since'[j] = since[j]
  BY DEF Ask, GoTo, Stamp, FetchTypeOK
<1>5. UNCHANGED <<clock, token, revoked>>
  BY DEF Ask, vars
<1> QED BY <1>2, <1>3, <1>4, <1>5 DEF TokenInv

LEMMA TokenCheckAgain ==
  ASSUME MarginCovers, PoolInv, FetchTypeOK, TokenInv, NEW i \in Items, CheckAgain(i)
  PROVE  TokenInv'
<1>1. CASE Fresh /\ Ask(i)
  BY <1>1, TokenAsk
<1>2. CASE Renew(i)
  <2>1. /\ at'[i] = "renewing" /\ UNCHANGED <<clock, token, bearer, revoked>>
        /\ \A j \in Items \ {i} : at'[j] = at[j] /\ since'[j] = since[j]
    BY <1>2 DEF Renew, GoTo, Stamp, FetchTypeOK, vars
  <2> QED BY <2>1 DEF TokenInv
<1> QED BY <1>1, <1>2 DEF CheckAgain

LEMMA TokenStep ==
  ASSUME MarginCovers, PoolInv, FetchTypeOK, DeadlineInv, TokenInv, NEW i \in Items, Step(i)
  PROVE  TokenInv'
<1>1. /\ clock \in Nat /\ ClientTimeout \in Nat \ {0} /\ Life \in Nat /\ Margin \in Nat
      /\ bearer[i] \in Nat \cup {None} /\ since[i] \in Nat /\ None = -1
  BY ItemFacts DEF FetchTypeOK
<1>2. CASE CheckToken(i)
  <2>1. CASE Fresh /\ Ask(i)
    BY <2>1, TokenAsk
  <2>2. CASE GoTo(i, "lock") /\ UNCHANGED <<vars, began, since, bearer, token, mu, revoked, grounds>>
    BY <2>2 DEF GoTo, vars, FetchTypeOK, TokenInv
  <2> QED BY <1>2, <2>1, <2>2 DEF CheckToken
<1>3. CASE Lock(i)
  BY <1>3, TokenCheckAgain DEF Lock
<1>4. CASE Issue(i)
  <2>1. since[i] <= clock
    BY <1>4 DEF Issue, DeadlineInv, InFlight
  <2> QED BY <1>1, <1>4, <2>1 DEF Issue, GoTo, vars, FetchTypeOK, TokenInv
<1>5. CASE TokenArrives(i)
  <2>1. since[i] <= bearer[i] /\ bearer[i] <= clock /\ clock <= since[i] + ClientTimeout
    BY <1>5 DEF TokenArrives, StoreAndAsk, DeadlineInv, InFlight, TokenInv
  <2>2. clock + Life - Margin <= bearer[i] + ClientTimeout + Life - Margin
    BY <1>1, <2>1
  <2>3. bearer[i] # None /\ clock + ClientTimeout <= bearer[i] + Life
    BY <1>1, <2>1 DEF MarginCovers
  <2>4. /\ at'[i] = "asking" /\ since'[i] = clock /\ UNCHANGED <<clock, bearer, revoked>>
        /\ \A j \in Items \ {i} : at'[j] = at[j] /\ since'[j] = since[j]
    BY <1>5 DEF TokenArrives, StoreAndAsk, GoTo, Stamp, vars, FetchTypeOK
  <2>5. token' = [id |-> bearer[i], expiry |-> clock + Life - Margin]
    BY <1>5 DEF TokenArrives, StoreAndAsk
  <2> QED BY <2>2, <2>3, <2>4, <2>5 DEF TokenInv
<1>6. CASE Refuse(i)
  <2>1. clock + 1 <= since[i] + ClientTimeout
    BY <1>6, DeadlineFacts DEF Refuse
  <2>2. since[i] + ClientTimeout <= bearer[i] + Life
    BY <1>6 DEF Refuse, TokenInv
  <2>3. bearer[i] \in revoked
    BY <1>1, <1>6, <2>1, <2>2 DEF Refuse
  <2> QED BY <1>6, <2>3 DEF Refuse, GoTo, vars, FetchTypeOK, TokenInv
<1>7. CASE Refused(i)
  BY <1>7 DEF Refused, GoTo, vars, NoToken, FetchTypeOK, TokenInv
<1>8. CASE Return(i)
  <2>1. /\ at'[i] = "idle" /\ UNCHANGED <<clock, token, revoked>>
    BY <1>8 DEF Return, FnReturns, GoTo, FetchTypeOK
  <2> QED BY <1>8, <2>1, OthersStay DEF TokenInv
<1>9. CASE HackerNewsEnds(i) \/ RenewalFails(i) \/ AskingEnds(i)
  BY <1>9 DEF HackerNewsEnds, RenewalFails, AskingEnds, GoTo, vars, FetchTypeOK, TokenInv
<1>10. CASE Wait(i)
  BY <1>10 DEF Wait, GoTo, Stamp, vars, FetchTypeOK, TokenInv
<1> QED BY <1>2, <1>3, <1>4, <1>5, <1>6, <1>7, <1>8, <1>9, <1>10 DEF Step

LEMMA TokenNext ==
  ASSUME MarginCovers, FetchInv, TokenInv, FetchNext \/ UNCHANGED fvars
  PROVE  TokenInv'
<1>0. PoolInv /\ FetchTypeOK /\ DeadlineInv /\ clock \in Nat
  BY ItemFacts DEF FetchInv
<1>1. CASE Start
  <2>1. next \in Items
    BY <1>0, <1>1, ItemFacts DEF Start, Acquire
  <2> QED BY <1>0, <1>1, <2>1 DEF Start, Acquire, GoTo, Stamp, FetchTypeOK, TokenInv
<1>2. CASE LockFirst
  BY <1>0, <1>2, TypeFirst, TokenCheckAgain DEF LockFirst
<1>3. CASE Elsewhere /\ ~Start /\ ~LockFirst /\ ~\E i \in Items : Step(i)
  <2>1. revoked \subseteq revoked'
    BY <1>3 DEF FetchNext, PoolStep, Tick, Revoke, fvars
  <2>2. clock' \in Nat /\ clock <= clock'
    BY <1>0, <1>3 DEF FetchNext, PoolStep, Add, LoopEnds, WaitReturns, Release, Done, Tick, Elapse,
           Revoke, fvars, vars
  <2>3. UNCHANGED <<at, since, bearer, token>>
    BY <1>3 DEF Elsewhere, calls
  <2>4. \A i \in Items : bearer[i] \in Nat \cup {None} /\ None = -1
    BY <1>0, ItemFacts DEF FetchTypeOK
  <2> QED BY <1>0, <2>1, <2>2, <2>3, <2>4 DEF TokenInv
<1> QED BY <1>0, <1>1, <1>2, <1>3, FetchSteps, TokenStep

\* A token that Reddit has not withdrawn is never refused, for any times a renewal and
\* a request may take that the margin and the life of a token have room for.
THEOREM OnlyRevokedAreRefused == ASSUME MarginCovers PROVE FetchSpec => []OnlyRevokedRefused
<1>1. FetchInit => TokenInv
  BY DEF FetchInit, NoToken, TokenInv
<1>2. FetchInv /\ TokenInv /\ [FetchNext]_fvars => TokenInv'
  BY TokenNext
<1>3. TokenInv => OnlyRevokedRefused
  BY DEF TokenInv, OnlyRevokedRefused
<1> QED BY <1>1, <1>2, <1>3, FetchInvariant, PTL DEF FetchSpec

-----------------------------------------------------------------------------
(***************************************************************************)
(* Discuss.  Its counters matter only when a check is recorded; what the   *)
(* invariant has to say is what a check in progress knows by then.         *)
(***************************************************************************)
Tasks ==
  [pc : {"none", "queued", "fetching", "saving"}, check_count : Nat, empty_count : Nat,
   fetcher : Nat, found : BOOLEAN, left : SUBSET Threads]

DiscussTypeOK ==
  /\ today \in Int
  /\ next_check_at \in [Urls -> Int] /\ checked_at \in [Urls -> Int]
  /\ check_count \in [Urls -> Nat] /\ empty_count \in [Urls -> Nat]
  /\ stored \in [Urls -> SUBSET Threads] /\ seen \in [Urls -> SUBSET Threads]
  /\ excused \in [Urls -> BOOLEAN]
  /\ task \in [Urls -> Tasks]

Checking(u) == At(u, "fetching") \/ At(u, "saving")

\* A check that was called has told nothing before it asks, and knows whether it was
\* told of anything; while it lasts, what is recorded is of the check before it.
CheckInv ==
  \A u \in Urls :
    /\ At(u, "queued") => ~task[u].found
    /\ Checking(u) => excused[u] /\ (task[u].found <=> seen[u] # {})

\* What was recorded of the last check, until it is asked for again or begun anew.
RecordInv ==
  \A u \in Urls : ~excused[u] =>
    /\ seen[u] # {} <=> empty_count[u] = 0
    /\ empty_count[u] = 0 => next_check_at[u] = checked_at[u] + 1
    /\ empty_count[u] <= 30 =>
         checked_at[u] + 1 <= next_check_at[u] /\ next_check_at[u] <= checked_at[u] + 30

SearchInv == DiscussTypeOK /\ CheckInv /\ RecordInv

\* "Starts at 1 day, caps at 30", as long as the shift stays within its 32 bits.
BackOffInBounds ==
  \A u \in Urls :
    (~excused[u] /\ empty_count[u] <= 30) =>
      checked_at[u] + 1 <= next_check_at[u] /\ next_check_at[u] <= checked_at[u] + 30

LEMMA PowersOfTwo == \A n \in 0..30 : 1 <= 2 ^ n
<1> SUFFICES ASSUME NEW n \in 0..30 PROVE 1 <= 2 ^ n
  OBVIOUS
<1>1. /\ 1 <= 2 ^ 0 /\ 1 <= 2 ^ 1 /\ 1 <= 2 ^ 2 /\ 1 <= 2 ^ 3 /\ 1 <= 2 ^ 4 /\ 1 <= 2 ^ 5
      /\ 1 <= 2 ^ 6 /\ 1 <= 2 ^ 7 /\ 1 <= 2 ^ 8 /\ 1 <= 2 ^ 9 /\ 1 <= 2 ^ 10
  OBVIOUS
<1>2. /\ 1 <= 2 ^ 11 /\ 1 <= 2 ^ 12 /\ 1 <= 2 ^ 13 /\ 1 <= 2 ^ 14 /\ 1 <= 2 ^ 15
      /\ 1 <= 2 ^ 16 /\ 1 <= 2 ^ 17 /\ 1 <= 2 ^ 18 /\ 1 <= 2 ^ 19 /\ 1 <= 2 ^ 20
  OBVIOUS
<1>3. /\ 1 <= 2 ^ 21 /\ 1 <= 2 ^ 22 /\ 1 <= 2 ^ 23 /\ 1 <= 2 ^ 24 /\ 1 <= 2 ^ 25
      /\ 1 <= 2 ^ 26 /\ 1 <= 2 ^ 27 /\ 1 <= 2 ^ 28 /\ 1 <= 2 ^ 29 /\ 1 <= 2 ^ 30
  OBVIOUS
<1>4. CASE n <= 10
  <2>1. \/ n = 0 \/ n = 1 \/ n = 2 \/ n = 3 \/ n = 4 \/ n = 5
        \/ n = 6 \/ n = 7 \/ n = 8 \/ n = 9 \/ n = 10
    BY <1>4
  <2> QED BY <1>1, <2>1, Zenon
<1>5. CASE n > 10 /\ n <= 20
  <2>1. \/ n = 11 \/ n = 12 \/ n = 13 \/ n = 14 \/ n = 15
        \/ n = 16 \/ n = 17 \/ n = 18 \/ n = 19 \/ n = 20
    BY <1>5
  <2> QED BY <1>2, <2>1, Zenon
<1>6. CASE n > 20
  <2>1. \/ n = 21 \/ n = 22 \/ n = 23 \/ n = 24 \/ n = 25
        \/ n = 26 \/ n = 27 \/ n = 28 \/ n = 29 \/ n = 30
    BY <1>6
  <2> QED BY <1>3, <2>1, Zenon
<1> QED BY <1>4, <1>5, <1>6

\* The delay after any number of empty checks is a number of days; after at most 30 of
\* them it is one of the 1 to 30 that nextScheduledAt announces, and after a find it is 1.
LEMMA DelayFacts ==
  /\ \A n \in Nat : NextScheduledAt(n) = today + Duration(Days(n)) /\ Duration(Days(n)) \in Int
  /\ \A n \in 0..30 : 1 <= Duration(Days(n)) /\ Duration(Days(n)) <= 30
  /\ Duration(Days(0)) = 1
<1>1. \A n \in Nat : ShiftedOne(n) \in Int
  BY DEF ShiftedOne, MinInt32
<1>2. \A n \in Nat : Days(n) \in Int
  BY <1>1 DEF Days
<1>3. \A n \in Nat : Duration(Days(n)) \in Int
  BY <1>2 DEF Duration
<1>4. \A n \in 0..30 : 1 <= Days(n) /\ Days(n) <= 30
  <2>1. \A n \in 0..30 : ShiftedOne(n) = 2 ^ n
    BY DEF ShiftedOne, MinInt32
  <2>2. \A n \in 0..30 : ShiftedOne(n) \in Int /\ 1 <= ShiftedOne(n)
    BY <1>1, <2>1, PowersOfTwo
  <2> QED BY <2>2 DEF Days
<1>5. \A n \in 0..30 : Duration(Days(n)) = Days(n)
  BY <1>2, <1>4 DEF Duration, MinInt32
<1>6. Days(0) = 1
  BY DEF Days, ShiftedOne
<1> QED BY <1>3, <1>4, <1>5, <1>6 DEF NextScheduledAt

LEMMA InitSearchInv == DiscussInit => SearchInv
<1> SUFFICES ASSUME DiscussInit PROVE SearchInv
  OBVIOUS
<1>1. DiscussTypeOK
  BY DEF DiscussInit, DiscussTypeOK, Tasks, Task, NoTask, Never
<1> QED BY <1>1 DEF DiscussInit, SearchInv, CheckInv, RecordInv, Checking, At, Task, NoTask

\* A step of the check of u that records nothing: what changes is the task, what the
\* check was told, what is stored, and that u is excused.
LEMMA TaskStep ==
  ASSUME SearchInv, NEW u \in Urls, NEW t \in Tasks, NEW S \in SUBSET Threads,
         SetTask(u, t), UNCHANGED <<today, row, checked_at>>,
         stored' \in [Urls -> SUBSET Threads],
         \/ seen' = [seen EXCEPT ![u] = S] /\ excused' = [excused EXCEPT ![u] = TRUE]
         \/ seen' = seen /\ S = seen[u] /\ excused' = excused,
         t.pc = "queued" => ~t.found,
         t.pc \in {"fetching", "saving"} => excused'[u] /\ (t.found <=> S # {})
  PROVE  SearchInv'
<1> USE DEF SearchInv
<1>1. DiscussTypeOK'
  BY DEF SetTask, DiscussTypeOK, row
<1>2. task'[u] = t /\ \A v \in Urls \ {u} : task'[v] = task[v]
  BY DEF SetTask, DiscussTypeOK
<1>3. /\ seen'[u] = S /\ (excused'[u] = TRUE \/ (S = seen[u] /\ excused'[u] = excused[u]))
      /\ \A v \in Urls \ {u} : seen'[v] = seen[v] /\ excused'[v] = excused[v]
  BY DEF DiscussTypeOK
<1>4. CheckInv'
  BY <1>2, <1>3 DEF CheckInv, Checking, At
<1>5. RecordInv'
  BY <1>3 DEF RecordInv, row
<1> QED BY <1>1, <1>4, <1>5

LEMMA UrlSteps ==
  ASSUME SearchInv, NEW u \in Urls,
         \/ ProcessURL(u) \/ FetchFails(u) \/ AllSaved(u) \/ CompleteLost(u)
         \/ \E S \in SUBSET Threads : Fetched(u, S)
         \/ \E d \in Threads : SaveDiscussion(u, d) \/ SaveFails(u, d)
  PROVE  SearchInv'
<1>1. /\ task[u] \in Tasks /\ seen[u] \in SUBSET Threads /\ NoTask \in Tasks
      /\ stored \in [Urls -> SUBSET Threads] /\ excused[u] \in BOOLEAN
      /\ \A S \in SUBSET Threads : seen = [seen EXCEPT ![u] = seen[u]]
      /\ At(u, "queued") => ~task[u].found
      /\ Checking(u) => excused[u] /\ (task[u].found <=> seen[u] # {})
  BY DEF SearchInv, DiscussTypeOK, CheckInv, NoTask, Task, Tasks
<1>2. CASE ProcessURL(u)
  <2>1. [task[u] EXCEPT !.pc = "fetching"] \in Tasks
    BY <1>1 DEF Tasks
  <2>2. excused'[u] /\ [task[u] EXCEPT !.pc = "fetching"].pc = "fetching"
    BY <1>1, <1>2 DEF ProcessURL, SearchInv, DiscussTypeOK, Tasks
  <2>3. [task[u] EXCEPT !.pc = "fetching"].found = FALSE
    BY <1>1, <1>2 DEF ProcessURL, Tasks
  <2>4. {} \in SUBSET Threads
    OBVIOUS
  <2> QED BY <1>1, <1>2, <2>1, <2>2, <2>3, <2>4, TaskStep DEF ProcessURL
<1>3. CASE FetchFails(u)
  <2>1. [task[u] EXCEPT !.fetcher = @ + 1] \in Tasks
    BY <1>1 DEF Tasks
  <2> QED BY <1>1, <1>3, <2>1, TaskStep DEF FetchFails, At, Tasks, Checking, history
<1>4. CASE AllSaved(u)
  <2>1. [task[u] EXCEPT !.pc = "fetching"] \in Tasks
    BY <1>1 DEF Tasks
  <2> QED BY <1>1, <1>4, <2>1, TaskStep DEF AllSaved, At, Tasks, Checking, history
<1>5. CASE CompleteLost(u)
  BY <1>1, <1>5, TaskStep DEF CompleteLost, NoTask, Task, history
<1>6. ASSUME NEW S \in SUBSET Threads, Fetched(u, S) PROVE SearchInv'
  <2> DEFINE t == Task("saving", task[u].check_count, task[u].empty_count, task[u].fetcher + 1,
                       task[u].found \/ S # {}, S)
  <2>1. t \in Tasks
    BY <1>1 DEF Tasks, Task
  <2>2. t.pc = "saving" /\ (t.found <=> task[u].found \/ S # {})
    BY DEF Task
  <2>3. excused[u] /\ excused = [excused EXCEPT ![u] = TRUE]
    BY <1>1, <1>6 DEF Fetched, Checking, SearchInv, DiscussTypeOK
  <2>4. /\ SetTask(u, t) /\ seen' = [seen EXCEPT ![u] = seen[u] \cup S]
        /\ excused' = excused /\ UNCHANGED <<today, row, checked_at, stored>> /\ Checking(u)
    BY <1>6 DEF Fetched, Checking, history
  <2>5. excused'[u] /\ (t.found <=> seen[u] \cup S # {}) /\ t.pc # "queued"
    BY <1>1, <2>2, <2>3, <2>4
  <2>6. stored' \in [Urls -> SUBSET Threads] /\ seen[u] \cup S \in SUBSET Threads
    BY <1>1, <2>4
  <2>7. seen' = [seen EXCEPT ![u] = seen[u] \cup S] /\ excused' = [excused EXCEPT ![u] = TRUE]
    BY <2>3, <2>4
  <2> HIDE DEF t
  <2> QED BY <2>1, <2>4, <2>5, <2>6, <2>7, TaskStep
<1>7. ASSUME NEW d \in Threads, SaveDiscussion(u, d) PROVE SearchInv'
  <2>1. [task[u] EXCEPT !.left = @ \ {d}] \in Tasks
    BY <1>1 DEF Tasks
  <2>2. stored' \in [Urls -> SUBSET Threads]
    BY <1>1, <1>7 DEF SaveDiscussion
  <2> QED BY <1>1, <1>7, <2>1, <2>2, TaskStep DEF SaveDiscussion, At, Tasks, Checking, history
<1>8. ASSUME NEW d \in Threads, SaveFails(u, d) PROVE SearchInv'
  <2>1. [task[u] EXCEPT !.left = @ \ {d}] \in Tasks
    BY <1>1 DEF Tasks
  <2> QED BY <1>1, <1>8, <2>1, TaskStep DEF SaveFails, At, Tasks, Checking, history
<1> QED BY <1>2, <1>3, <1>4, <1>5, <1>6, <1>7, <1>8

LEMMA CompleteStep ==
  ASSUME SearchInv, NEW u \in Urls, Complete(u)
  PROVE  SearchInv'
<1> DEFINE n == IF task[u].found THEN 0 ELSE task[u].empty_count + 1
<1> USE DEF SearchInv
<1>1. /\ task[u] \in Tasks /\ n \in Nat /\ (task[u].found <=> seen[u] # {})
      /\ n = 0 <=> seen[u] # {}
  BY DEF Complete, DiscussTypeOK, Tasks, CheckInv, Checking
<1>2. /\ next_check_at' = [next_check_at EXCEPT ![u] = today + Duration(Days(n))]
      /\ empty_count' = [empty_count EXCEPT ![u] = n]
      /\ check_count' = [check_count EXCEPT ![u] = task[u].check_count + 1]
      /\ SetTask(u, NoTask)
      /\ checked_at' = [checked_at EXCEPT ![u] = today]
      /\ excused' = [excused EXCEPT ![u] = FALSE]
      /\ UNCHANGED <<today, stored, seen>>
  BY DEF Complete, NextScheduledAt
<1>3. Duration(Days(n)) \in Int
  BY <1>1, DelayFacts
<1>4. n = 0 => Duration(Days(n)) = 1
  BY DelayFacts
<1>5. n <= 30 => 1 <= Duration(Days(n)) /\ Duration(Days(n)) <= 30
  BY <1>1, DelayFacts
<1> HIDE DEF n
<1>6. DiscussTypeOK'
  BY <1>1, <1>2, <1>3 DEF DiscussTypeOK, SetTask, NoTask, Task, Tasks
<1>7. CheckInv'
  BY <1>2 DEF DiscussTypeOK, CheckInv, Checking, At, SetTask, NoTask, Task
<1>8. RecordInv'
  <2>1. \A v \in Urls \ {u} : /\ next_check_at'[v] = next_check_at[v]
                              /\ empty_count'[v] = empty_count[v]
                              /\ checked_at'[v] = checked_at[v] /\ excused'[v] = excused[v]
    BY <1>2 DEF DiscussTypeOK
  <2>2. /\ next_check_at'[u] = today + Duration(Days(n)) /\ empty_count'[u] = n
        /\ checked_at'[u] = today
    BY <1>2 DEF DiscussTypeOK
  <2>3. today \in Int
    BY DEF DiscussTypeOK
  <2> QED BY <1>1, <1>2, <1>3, <1>4, <1>5, <2>1, <2>2, <2>3 DEF RecordInv
<1> QED BY <1>6, <1>7, <1>8

LEMMA NextSearchInv == SearchInv /\ [DiscussNext]_dvars => SearchInv'
<1> SUFFICES ASSUME SearchInv, [DiscussNext]_dvars PROVE SearchInv'
  OBVIOUS
<1> USE DEF SearchInv
<1>1. CASE ListDue
  <2>1. PICK S \in SUBSET Due :
          task' = [u \in Urls |->
                     IF u \in S THEN Task("queued", check_count[u], empty_count[u], 1, FALSE, {})
                     ELSE NoTask]
    BY <1>1 DEF ListDue
  <2>2. DiscussTypeOK'
    BY <1>1, <2>1 DEF ListDue, DiscussTypeOK, Task, NoTask, Tasks, row, history
  <2>3. CheckInv'
    BY <2>1 DEF CheckInv, Checking, At, Task, NoTask
  <2> QED BY <1>1, <2>2, <2>3 DEF ListDue, RecordInv, row, history
<1>2. CASE Crash
  <2>1. DiscussTypeOK'
    BY <1>2 DEF Crash, DiscussTypeOK, Task, NoTask, Tasks, row, history
  <2>2. CheckInv'
    BY <1>2 DEF Crash, CheckInv, Checking, At, Task, NoTask
  <2> QED BY <1>2, <2>1, <2>2 DEF Crash, RecordInv, row, history
<1>3. CASE DaysPass
  <2>1. today' \in Int
    BY <1>3 DEF DaysPass, DiscussTypeOK
  <2> QED BY <1>3, <2>1 DEF DaysPass, DiscussTypeOK, CheckInv, Checking, At, RecordInv, row, history
<1>4. ASSUME NEW u \in Urls, EnqueueDiscussionJob(u) PROVE SearchInv'
  <2>1. DiscussTypeOK'
    BY <1>4 DEF EnqueueDiscussionJob, DiscussTypeOK
  <2>2. excused'[u] /\ \A v \in Urls \ {u} : /\ excused'[v] = excused[v]
                                              /\ next_check_at'[v] = next_check_at[v]
    BY <1>4 DEF EnqueueDiscussionJob, DiscussTypeOK
  <2> QED BY <1>4, <2>1, <2>2 DEF EnqueueDiscussionJob, CheckInv, Checking, At, RecordInv
<1>5. ASSUME NEW u \in Urls, Complete(u) PROVE SearchInv'
  BY <1>5, CompleteStep
<1>6. CASE UNCHANGED dvars
  BY <1>6 DEF dvars, row, history, DiscussTypeOK, CheckInv, Checking, At, RecordInv
<1> QED BY <1>1, <1>2, <1>3, <1>4, <1>5, <1>6, UrlSteps DEF DiscussNext

\* What Discuss records of a check, and what a check in progress knows, is as described
\* in every reachable state: the inductive invariant.
THEOREM SearchInvariant == DiscussSpec => []SearchInv
BY InitSearchInv, NextSearchInv, PTL DEF DiscussSpec

\* The counter of empty checks is 0 exactly when the last check was told of a
\* discussion, for any fetchers, in whatever order they fail, find and find nothing.
THEOREM FindsEndBackOff == DiscussSpec => []FindEndsBackOff
<1>1. SearchInv => FindEndsBackOff
  BY DEF SearchInv, RecordInv, FindEndsBackOff
<1> QED BY <1>1, SearchInvariant, PTL

\* What a check found and could not store is looked for again within a day of it.
THEOREM MissingAreRetried == DiscussSpec => []MissingIsRetried
<1>1. ASSUME SearchInv, NEW u \in Urls, ~excused[u], ~(seen[u] \subseteq stored[u])
      PROVE  next_check_at[u] <= checked_at[u] + 1
  <2>1. seen[u] # {} /\ checked_at[u] + 1 \in Int
    BY <1>1 DEF SearchInv, DiscussTypeOK
  <2> QED BY <1>1, <2>1 DEF SearchInv, RecordInv
<1>2. SearchInv => MissingIsRetried
  BY <1>1 DEF MissingIsRetried
<1> QED BY <1>2, SearchInvariant, PTL

\* The next check comes 1 to 30 days after the last one while no more than 30 checks in
\* a row were empty: what BackOffAlwaysInBounds says of any number of them.
THEOREM BackOffStaysInBounds == DiscussSpec => []BackOffInBounds
<1>1. SearchInv => BackOffInBounds
  BY DEF SearchInv, RecordInv, BackOffInBounds
<1> QED BY <1>1, SearchInvariant, PTL

=============================================================================
