--------------------------------- MODULE Pool --------------------------------
(***************************************************************************)
(* jobrunner.Pool: run fn over N items with at most `concurrency' of them  *)
(* at a time, and return when all have ended.  The caller's goroutine      *)
(* takes a slot of the semaphore for each item before it starts the item's *)
(* goroutine; that goroutine runs fn, then its deferred functions give the *)
(* slot back and count the item as done, in this order.                    *)
(*                                                                         *)
(* fn is cut off after Timeout (the workers give every fetch a context     *)
(* with a deadline); all other steps take no time, so that `clock' tells   *)
(* how long a batch lasts: the RunMax of JobRunner.                        *)
(***************************************************************************)
EXTENDS Integers, FiniteSets

CONSTANTS
  N,            \* number of items
  Concurrency,  \* the argument of that name, any integer
  Timeout       \* longest time fn takes

ASSUME PoolAssumption ==
  /\ N \in Nat
  /\ Concurrency \in Int
  /\ Timeout \in Nat

Items == 1 .. N

\* Fewer than one is taken for one.
Slots == IF Concurrency < 1 THEN 1 ELSE Concurrency

VARIABLES
  caller,   \* "add", "send", "wait" or "returned"
  next,     \* the item the loop has come to
  sem,      \* number of values in the channel sem
  wg,       \* counter of the wait group
  worker,   \* what the goroutine of an item does
  started,  \* when fn was called for an item
  clock

vars == <<caller, next, sem, wg, worker, started, clock>>

Init ==
  /\ caller = "add"
  /\ next = 1
  /\ sem = 0
  /\ wg = 0
  /\ worker = [i \in Items |-> "none"]
  /\ started = [i \in Items |-> 0]
  /\ clock = 0

-----------------------------------------------------------------------------
\* wg.Add(1) for the next item.
Add ==
  /\ caller = "add"
  /\ next \in Items
  /\ wg' = wg + 1
  /\ caller' = "send"
  /\ UNCHANGED <<next, sem, worker, started, clock>>

\* The send to sem goes through, and the item's goroutine starts.
Acquire ==
  /\ caller = "send"
  /\ sem < Slots
  /\ sem' = sem + 1
  /\ worker' = [worker EXCEPT ![next] = "running"]
  /\ started' = [started EXCEPT ![next] = clock]
  /\ next' = next + 1
  /\ caller' = "add"
  /\ UNCHANGED <<wg, clock>>

LoopEnds ==
  /\ caller = "add"
  /\ next \notin Items
  /\ caller' = "wait"
  /\ UNCHANGED <<next, sem, wg, worker, started, clock>>

\* wg.Wait() returns, and with it Pool.
WaitReturns ==
  /\ caller = "wait"
  /\ wg = 0
  /\ caller' = "returned"
  /\ UNCHANGED <<next, sem, wg, worker, started, clock>>

FnReturns(i) ==
  /\ worker[i] = "running"
  /\ worker' = [worker EXCEPT ![i] = "release"]
  /\ UNCHANGED <<caller, next, sem, wg, started, clock>>

\* Faulty variant of Release: the slot is given back by nobody.
ReleaseNothing(i) ==
  /\ worker[i] = "release"
  /\ worker' = [worker EXCEPT ![i] = "finish"]
  /\ UNCHANGED <<caller, next, sem, wg, started, clock>>

\* The receive from sem.
Release(i) ==
  /\ worker[i] = "release"
  /\ sem' = sem - 1
  /\ worker' = [worker EXCEPT ![i] = "finish"]
  /\ UNCHANGED <<caller, next, wg, started, clock>>

\* wg.Done().
Done(i) ==
  /\ worker[i] = "finish"
  /\ wg' = wg - 1
  /\ worker' = [worker EXCEPT ![i] = "done"]
  /\ UNCHANGED <<caller, next, sem, started, clock>>

\* Time passes while fn runs and nothing else can happen,
Elapse ==
  /\ caller \in {"send", "wait"}
  /\ caller = "send" => sem = Slots
  /\ \A i \in Items : worker[i] \notin {"release", "finish"}
  /\ \E i \in Items : worker[i] = "running"
  /\ clock' = clock + 1
  /\ UNCHANGED <<caller, next, sem, wg, worker, started>>

\* and never beyond the deadline of a running fn.
TimePasses ==
  /\ Elapse
  /\ \A i \in Items : worker[i] = "running" => clock < started[i] + Timeout

Next ==
  \/ Add \/ Acquire \/ LoopEnds \/ WaitReturns \/ TimePasses
  \/ \E i \in Items : FnReturns(i) \/ Release(i) \/ Done(i)

Spec == Init /\ [][Next]_vars

-----------------------------------------------------------------------------
TypeOK ==
  /\ caller \in {"add", "send", "wait", "returned"}
  /\ next \in 1 .. N + 1
  /\ sem \in 0 .. Slots
  /\ wg \in Nat
  /\ worker \in [Items -> {"none", "running", "release", "finish", "done"}]
  /\ started \in [Items -> Nat]
  /\ clock \in Nat

Running  == {i \in Items : worker[i] = "running"}
Holding  == {i \in Items : worker[i] \in {"running", "release"}}
Unfinished == {i \in Items : worker[i] \in {"running", "release", "finish"}}

\* fn never runs for more items at a time than asked for, and for one when less
\* than one is asked for.
BoundedConcurrency == Cardinality(Running) <= Slots

\* When Pool returns, fn has ended for every item: what a job reports after
\* Pool (counts of feeds, of errors) and the completion of its run come after
\* the last write of the last item.
ReturnsAfterLast ==
  caller = "returned" => \A i \in Items : worker[i] = "done"

\* The batch is worked off without idling: the k-th item starts no later than
\* after as many full timeouts as there are full groups before it, so that a
\* batch of N items lasts at most ceil(N / Slots) timeouts.  For 200 feeds, 5 at
\* a time, 20 s each, this is 800 s of a claim of 900 s; for 500 URLs, 10 at a
\* time, 35 s each (see Fetchers), 1750 s of a claim of 1800 s.
BatchLength == ((N + Slots - 1) \div Slots) * Timeout

StartsInTurn ==
  /\ \A i \in Items :
       worker[i] # "none" => started[i] <= ((i - 1) \div Slots) * Timeout
  /\ clock <= BatchLength

\* Pool returns.
Returns == <>(caller = "returned")

\* The inductive invariant behind BoundedConcurrency and ReturnsAfterLast: the
\* channel holds one value per slot in use, and the wait group counts the items
\* that have been added and are not done.
SemInv == sem = Cardinality(Holding)

WaitGroupInv ==
  wg = Cardinality(Unfinished) + (IF caller = "send" THEN 1 ELSE 0)

LoopInv ==
  /\ \A i \in Items : worker[i] = "none" <=> i >= next
  /\ caller = "send" => next \in Items
  /\ caller \in {"wait", "returned"} => next = N + 1
  /\ caller = "returned" => wg = 0

PoolInv == TypeOK /\ SemInv /\ WaitGroupInv /\ LoopInv

=============================================================================
