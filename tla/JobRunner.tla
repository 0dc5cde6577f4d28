------------------------------ MODULE JobRunner ------------------------------
(***************************************************************************)
(* The periodic job runners of the booksmk servers (internal/jobrunner)    *)
(* and the two tables they share (job_configs, job_runs).                  *)
(*                                                                         *)
(* Every server process runs one goroutine per job.  A goroutine polls     *)
(* job_configs with one conditional UPDATE (ClaimJobRun); the process      *)
(* whose UPDATE matches inserts a job_runs row, runs the job, and fills in *)
(* the row.  Nothing releases or renews a claim: it lapses when            *)
(* locked_until is passed, so that everything rests on time.               *)
(*                                                                         *)
(* `clock' is the database's now().  A process reads its own clock, which  *)
(* is Skew[p] away from it.  A statement reaches the database at most      *)
(* MaxDelay after the call that sends it, and a run of job j returns       *)
(* within RunMax[j]; Pool says where RunMax comes from.                    *)
(***************************************************************************)
EXTENDS Integers, Sequences, FiniteSets

CONSTANTS
  Procs,      \* server processes
  Jobs,       \* names of the jobs, one job_configs row each
  Interval,   \* Job.Interval(): the claim's length and the polling interval
  RunMax,     \* longest time a call of Job.Run takes
  MaxJitter,  \* the offset given to Jitter
  MaxDelay,   \* longest time between a call and its statement's execution
  Skew,       \* clock of a process minus the clock of the database
  MaxSkew,    \* bound on the absolute value of Skew
  MaxClock,   \* bound on clock, for model checking
  MaxFaults   \* bound on the number of faults, for model checking

ASSUME JobRunnerAssumption ==
  /\ Interval \in [Jobs -> Nat]
  /\ RunMax \in [Jobs -> Nat]
  /\ MaxJitter \in Nat \ {0} /\ MaxDelay \in Nat /\ MaxSkew \in Nat
  /\ MaxClock \in Nat /\ MaxFaults \in Nat
  /\ Skew \in [Procs -> Int]
  /\ \A p \in Procs : -MaxSkew <= Skew[p] /\ Skew[p] <= MaxSkew

\* The margin the deployment must leave between a job's longest run and its
\* claim.  It is no assumption of the behaviour, only of the theorems.
LeaseOutlivesRun ==
  \A j \in Jobs : RunMax[j] + 2 * MaxDelay + MaxSkew < Interval[j]

VARIABLES
  clock,        \* now() of the database
  next_run_at,  \* job_configs.next_run_at
  locked_until, \* job_configs.locked_until
  job_runs,     \* the rows of job_runs; a row's id is its index
  proc,         \* "up", "stopping" (context cancelled) or "down"
  runner,       \* what the goroutine of a process for a job is doing
  last_claim,   \* history: clock of the last claim that took effect
  faults        \* number of faults so far

db   == <<next_run_at, locked_until, last_claim>>
vars == <<clock, next_run_at, locked_until, job_runs, proc, runner,
          last_claim, faults>>

-----------------------------------------------------------------------------
NoTime == -MaxSkew - 1          \* completed_at is null

\* The local state of a goroutine: where it is, the time by which the call it
\* waits for has returned, its last reading of the process's clock, and the id
\* of the row it fills in.
Local(pc, deadline, at, run) ==
  [pc |-> pc, deadline |-> deadline, at |-> at, run |-> run]

Idle    == Local("idle", 0, 0, 0)
Stopped == Local("stopped", 0, 0, 0)

Busy == {"claiming", "creating", "running", "completing"}

Now(p) == clock + Skew[p]

GoTo(p, j, r) == runner' = [runner EXCEPT ![p][j] = r]
At(p, j, pc)  == runner[p][j].pc = pc

\* A fault is charged to the budget unless the context is already cancelled,
\* when every call fails of itself.
Fault(p) ==
  IF proc[p] = "stopping" THEN UNCHANGED faults
  ELSE faults < MaxFaults /\ faults' = faults + 1

Init ==
  /\ clock = 0
  /\ next_run_at  = [j \in Jobs |-> 0]
  /\ locked_until = [j \in Jobs |-> 0]
  /\ last_claim   = [j \in Jobs |-> -Interval[j]]
  /\ job_runs = << >>
  /\ proc   = [p \in Procs |-> "up"]
  /\ runner = [p \in Procs |-> [j \in Jobs |-> Idle]]
  /\ faults = 0

-----------------------------------------------------------------------------
\* Run: the first call of tick or one that the ticker fires.  tick reads the
\* clock for next_run_at and ClaimJobRun reads it for locked_until, with
\* nothing that waits in between; the jitter is drawn here and chosen in Claim,
\* where it is first seen.  (A tick that select picks after the context
\* is cancelled claims nothing and changes nothing.)
Tick(p, j) ==
  /\ proc[p] = "up"
  /\ At(p, j, "idle")
  /\ GoTo(p, j, Local("claiming", clock + MaxDelay, Now(p), 0))
  /\ UNCHANGED <<clock, db, job_runs, proc, faults>>

\* Faulty variant of Claimable: the lock is not looked at.
ClaimableUnlocked(j) == next_run_at[j] <= clock

Claimable(j) == next_run_at[j] <= clock /\ locked_until[j] <= clock

\* Faulty variant of Claim: the lock lapses when the job is due again.
ClaimUntilNextRun(p, j) ==
  /\ At(p, j, "claiming")
  /\ Claimable(j)
  /\ \E jitter \in -MaxJitter .. MaxJitter - 1 :
       next_run_at' = [next_run_at EXCEPT ![j] = runner[p][j].at + Interval[j] + jitter]
  /\ locked_until' = next_run_at'
  /\ last_claim'   = [last_claim   EXCEPT ![j] = clock]
  /\ UNCHANGED <<clock, job_runs, proc>>

\* The UPDATE of ClaimJobRun finds the row due and unlocked.  What it writes
\* comes from the clock that tick read before.
Claim(p, j) ==
  /\ At(p, j, "claiming")
  /\ Claimable(j)
  /\ \E jitter \in -MaxJitter .. MaxJitter - 1 :
       next_run_at' = [next_run_at EXCEPT ![j] = runner[p][j].at + Interval[j] + jitter]
  /\ locked_until' = [locked_until EXCEPT ![j] = runner[p][j].at + Interval[j]]
  /\ last_claim'   = [last_claim   EXCEPT ![j] = clock]
  /\ UNCHANGED <<clock, job_runs, proc>>

\* The claim is granted: tick reads started_at and calls CreateJobRun.
ClaimGranted(p, j) ==
  /\ proc[p] = "up"
  /\ Claim(p, j)
  /\ GoTo(p, j, Local("creating", clock + MaxDelay, Now(p), 0))
  /\ UNCHANGED faults

\* The UPDATE took effect but its answer is lost, or the context is cancelled
\* before CreateJobRun is sent: ClaimJobRun reports "not claimed", or
\* CreateJobRun an error, and tick returns.
ClaimWasted(p, j) ==
  /\ Claim(p, j)
  /\ GoTo(p, j, Idle)
  /\ Fault(p)

\* Faulty variant of ClaimRefused: the error of the query ends the runner.
ClaimRefusedEnds(p, j) ==
  /\ At(p, j, "claiming")
  /\ ~Claimable(j)
  /\ GoTo(p, j, Stopped)
  /\ UNCHANGED <<clock, db, job_runs, proc, faults>>

\* No row matches: pgx.ErrNoRows, which ClaimJobRun takes for "not claimed".
ClaimRefused(p, j) ==
  /\ At(p, j, "claiming")
  /\ ~Claimable(j)
  /\ GoTo(p, j, Idle)
  /\ UNCHANGED <<clock, db, job_runs, proc, faults>>

\* Any other error of the statement, taken for "not claimed" as well.
ClaimFails(p, j) ==
  /\ At(p, j, "claiming")
  /\ GoTo(p, j, Idle)
  /\ Fault(p)
  /\ UNCHANGED <<clock, db, job_runs, proc>>

Row(job, started_at, completed_at) ==
  [job |-> job, started_at |-> started_at, completed_at |-> completed_at]

NewRow(p, j) == Row(j, runner[p][j].at, NoTime)

\* CreateJobRun inserts the row and tick calls Job.Run.
CreateJobRun(p, j) ==
  /\ At(p, j, "creating")
  /\ job_runs' = Append(job_runs, NewRow(p, j))
  /\ GoTo(p, j, Local("running", clock + RunMax[j], 0, Len(job_runs) + 1))
  /\ UNCHANGED <<clock, db, proc, faults>>

\* CreateJobRun returns an error, the row inserted or not: tick returns, and
\* the claim stays until it lapses.
CreateFails(p, j) ==
  /\ At(p, j, "creating")
  /\ job_runs' \in {job_runs, Append(job_runs, NewRow(p, j))}
  /\ GoTo(p, j, Idle)
  /\ Fault(p)
  /\ UNCHANGED <<clock, db, proc>>

\* Job.Run returns, with an error or without, and CompleteJobRun is called.
RunReturns(p, j) ==
  /\ proc[p] = "up"
  /\ At(p, j, "running")
  /\ GoTo(p, j, Local("completing", clock + MaxDelay, Now(p), runner[p][j].run))
  /\ UNCHANGED <<clock, db, job_runs, proc, faults>>

\* Job.Run returns after the context is cancelled.  CompleteJobRun is called
\* with that context and fails: the row is never completed.
RunCancelled(p, j) ==
  /\ proc[p] = "stopping"
  /\ At(p, j, "running")
  /\ GoTo(p, j, Idle)
  /\ UNCHANGED <<clock, db, job_runs, proc, faults>>

\* Faulty variant of CompleteJobRun: the newest row is completed.
CompleteNewestRun(p, j) ==
  /\ At(p, j, "completing")
  /\ job_runs' = [job_runs EXCEPT ![Len(job_runs)] =
                     Row(@.job, @.started_at, runner[p][j].at)]
  /\ GoTo(p, j, Idle)
  /\ UNCHANGED <<clock, db, proc, faults>>

CompleteJobRun(p, j) ==
  /\ At(p, j, "completing")
  /\ job_runs' = [job_runs EXCEPT ![runner[p][j].run] =
                     Row(@.job, @.started_at, runner[p][j].at)]
  /\ GoTo(p, j, Idle)
  /\ UNCHANGED <<clock, db, proc, faults>>

\* The error of CompleteJobRun is logged and nothing else is done.
CompleteFails(p, j) ==
  /\ At(p, j, "completing")
  /\ GoTo(p, j, Idle)
  /\ Fault(p)
  /\ UNCHANGED <<clock, db, job_runs, proc>>

\* Faulty variant of RunnerReturns: the context is not looked at.
RunnerNeverReturns(p, j) ==
  /\ proc[p] = "down"
  /\ At(p, j, "idle")
  /\ GoTo(p, j, Stopped)
  /\ UNCHANGED <<clock, db, job_runs, proc, faults>>

\* Run sees the cancelled context and returns.
RunnerReturns(p, j) ==
  /\ proc[p] = "stopping"
  /\ At(p, j, "idle")
  /\ GoTo(p, j, Stopped)
  /\ UNCHANGED <<clock, db, job_runs, proc, faults>>

-----------------------------------------------------------------------------
\* handleDispatchRun and handleDispatchFeedPoll: an administrator makes the
\* job due now, whoever holds it.
Dispatch(p, j) ==
  /\ proc[p] = "up"
  /\ next_run_at' = [next_run_at EXCEPT ![j] = Now(p)]
  /\ UNCHANGED <<clock, locked_until, job_runs, proc, runner, last_claim, faults>>

\* A signal cancels the context of the process.
Cancel(p) ==
  /\ proc[p] = "up"
  /\ proc' = [proc EXCEPT ![p] = "stopping"]
  /\ Fault(p)
  /\ UNCHANGED <<clock, db, job_runs, runner>>

\* The process ends: by a crash, or because Server.Run has returned from
\* Shutdown, which does not wait for the runners.
Exit(p) ==
  /\ proc[p] # "down"
  /\ proc' = [proc EXCEPT ![p] = "down"]
  /\ runner' = [runner EXCEPT ![p] = [j \in Jobs |-> Stopped]]
  /\ Fault(p)
  /\ UNCHANGED <<clock, db, job_runs>>

Restart(p) ==
  /\ proc[p] = "down"
  /\ proc' = [proc EXCEPT ![p] = "up"]
  /\ runner' = [runner EXCEPT ![p] = [j \in Jobs |-> Idle]]
  /\ UNCHANGED <<clock, db, job_runs, faults>>

TimePasses ==
  /\ clock < MaxClock
  /\ \A p \in Procs, j \in Jobs :
       runner[p][j].pc \in Busy => clock < runner[p][j].deadline
  /\ clock' = clock + 1
  /\ UNCHANGED <<db, job_runs, proc, runner, faults>>

\* What ends the call a goroutine waits for.
Returns(p, j) ==
  \/ ClaimGranted(p, j) \/ ClaimWasted(p, j) \/ ClaimRefused(p, j) \/ ClaimFails(p, j)
  \/ CreateJobRun(p, j) \/ CreateFails(p, j)
  \/ RunReturns(p, j) \/ RunCancelled(p, j)
  \/ CompleteJobRun(p, j) \/ CompleteFails(p, j)

Next ==
  \/ TimePasses
  \/ \E p \in Procs :
       \/ Cancel(p) \/ Exit(p) \/ Restart(p)
       \/ \E j \in Jobs : \/ Tick(p, j) \/ Returns(p, j)
                          \/ RunnerReturns(p, j) \/ Dispatch(p, j)

Spec == Init /\ [][Next]_vars

\* Time goes on, the ticker of a running process fires again and again, every
\* call returns, and the select of Run sees a cancelled context.  Nothing
\* makes a process stop, exit or restart, or an administrator act.
FairSpec ==
  /\ Spec
  /\ WF_vars(TimePasses)
  /\ \A p \in Procs, j \in Jobs :
       WF_vars(Tick(p, j)) /\ WF_vars(Returns(p, j)) /\ WF_vars(RunnerReturns(p, j))

-----------------------------------------------------------------------------
\* The values the variables take.
Locals == [pc : Busy \cup {"idle", "stopped"}, deadline : Int, at : Int, run : Nat]
Rows   == [job : Jobs, started_at : Int, completed_at : Int]

TypeOK ==
  /\ clock \in Nat
  /\ next_run_at \in [Jobs -> Int]
  /\ locked_until \in [Jobs -> Int]
  /\ last_claim \in [Jobs -> Int]
  /\ job_runs \in Seq(Rows)
  /\ proc \in [Procs -> {"up", "stopping", "down"}]
  /\ runner \in [Procs -> [Jobs -> Locals]]
  /\ faults \in 0 .. MaxFaults
  /\ \A p \in Procs, j \in Jobs :
       /\ runner[p][j].pc \in {"running", "completing"} =>
            runner[p][j].run \in DOMAIN job_runs
       /\ (runner[p][j].pc = "stopped") => (proc[p] # "up")

\* The processes that act on a claim of job j: they hold the right to run it.
Holders(j) == {p \in Procs : runner[p][j].pc \in {"creating", "running"}}

\* No two processes run the same job at the same time, whatever statements are
\* lost, whoever crashes and restarts, and however often an administrator
\* dispatches the job in the middle of a run: nothing but the passing of time
\* protects a claim, so that this rests on LeaseOutlivesRun.
OneRunAtATime ==
  \A j \in Jobs : \A p, q \in Holders(j) : p = q

\* Rows of job_runs that nobody will complete any more.
Abandoned(j) ==
  {r \in DOMAIN job_runs :
     /\ job_runs[r].job = j
     /\ job_runs[r].completed_at = NoTime
     /\ \A p \in Procs : ~ /\ runner[p][j].pc \in {"running", "completing"}
                           /\ runner[p][j].run = r}

\* A row stays without completed_at only when its run was hit by a fault, and
\* one fault costs a job at most one row: a run that returns is recorded, and
\* never in the row of another run.
AbandonedRowsAreFaults ==
  \A j \in Jobs : Cardinality(Abandoned(j)) <= faults

\* The time that lies between two claims of a job.
MinGap == [j \in Jobs |-> Interval[j] - MaxDelay - MaxSkew]

\* A claim of a job takes effect no sooner than Interval after the one before
\* it (less the time lost on the way to the database and between the clocks),
\* although Dispatch makes the job due at any time.
ClaimsAreSpaced ==
  [][\A j \in Jobs :
       last_claim'[j] # last_claim[j] =>
         clock - last_claim[j] >= MinGap[j]]_vars

\* As long as some process stays up, a job that is due and unlocked is claimed
\* again: a claim that was wasted, or whose holder crashed, delays the next run
\* but never prevents it.
DueJobIsClaimed ==
  (\E p \in Procs : <>[](proc[p] = "up")) =>
    \A j \in Jobs : Claimable(j) ~> ~Claimable(j)

\* A runner whose process is told to stop returns, from wherever it is, unless
\* the process is gone first.
RunnersStop ==
  \A p \in Procs, j \in Jobs :
    (proc[p] = "stopping") ~> (At(p, j, "stopped") \/ proc[p] # "stopping")

\* The inductive invariant behind OneRunAtATime and ClaimsAreSpaced.  A call
\* has not outstayed its deadline; the clock reading that a claim carries is no
\* older than the call that sends it; locked_until is where the last claim put
\* it, not earlier; and a process that acts on a claim will have finished its
\* run before locked_until.
DeadlinesKept ==
  \A p \in Procs, j \in Jobs :
    runner[p][j].pc \in Busy => clock <= runner[p][j].deadline

ReadingsAreRecent ==
  \A p \in Procs, j \in Jobs :
    At(p, j, "claiming") =>
      runner[p][j].deadline - MaxDelay <= runner[p][j].at + MaxSkew

LockFollowsClaim ==
  \A j \in Jobs : last_claim[j] + MinGap[j] <= locked_until[j]

HoldersFinishInTime ==
  \A p \in Procs, j \in Jobs :
    /\ At(p, j, "creating") => runner[p][j].deadline + RunMax[j] < locked_until[j]
    /\ At(p, j, "running")  => runner[p][j].deadline < locked_until[j]

ClaimInv == TypeOK /\ DeadlinesKept /\ ReadingsAreRecent /\ LockFollowsClaim

RunInv == ClaimInv /\ HoldersFinishInTime /\ OneRunAtATime

-----------------------------------------------------------------------------
\* The abstract specification: what is said of claims above, as one machine.
Lease == INSTANCE JobLease
           WITH now <- clock, last <- last_claim, holder <- [j \in Jobs |-> Holders(j)]

\* Every step of the runners is a step of JobLease or leaves it alone: a
\* conditional UPDATE, a deadline nobody renews and the polling of all
\* processes amount to a lock with one holder.
ImplementsLease == Lease!LeaseSpec

=============================================================================
