----------------------------- MODULE ServerProofs ----------------------------
(***************************************************************************)
(* Proofs about what a server runs besides its handlers.                   *)
(*                                                                         *)
(* JobRunner, for any processes, jobs and times: the type invariant, the   *)
(* spacing of claims, mutual exclusion of runs when claims outlive runs,   *)
(* the refinement of JobLease, and that nothing but faults leaves rows of  *)
(* job_runs open.  Migrate, for any processes of any releases, at the end. *)
(***************************************************************************)
EXTENDS JobRunner, Migrate, FiniteSetTheorems, TLAPS

\* The types of what the proofs compute with.
LEMMA ConstantTypes ==
  ASSUME NEW p \in Procs, NEW j \in Jobs
  PROVE  /\ Interval[j] \in Nat /\ RunMax[j] \in Nat
         /\ MaxJitter \in Nat /\ MaxDelay \in Nat /\ MaxSkew \in Nat
         /\ Skew[p] \in Int /\ -MaxSkew <= Skew[p] /\ Skew[p] <= MaxSkew
BY JobRunnerAssumption

LEMMA LocalTypes ==
  ASSUME TypeOK, NEW p \in Procs, NEW j \in Jobs
  PROVE  /\ clock \in Nat /\ locked_until[j] \in Int /\ last_claim[j] \in Int
         /\ runner[p][j].deadline \in Int /\ runner[p][j].at \in Int
         /\ runner[p][j].run \in Nat /\ Len(job_runs) + 1 \in Nat
<1>1. runner[p][j] \in Locals
  BY DEF TypeOK
<1>2. Len(job_runs) \in Nat
  BY DEF TypeOK
<1> QED
  BY <1>1, <1>2 DEF TypeOK, Locals

\* What GoTo does: one goroutine's local state is replaced, the others stay.
LEMMA GoToLocals ==
  ASSUME TypeOK, NEW p \in Procs, NEW j \in Jobs, NEW r \in Locals, GoTo(p, j, r)
  PROVE  /\ runner' \in [Procs -> [Jobs -> Locals]]
         /\ runner'[p][j] = r
         /\ \A q \in Procs, k \in Jobs :
              (q # p \/ k # j) => runner'[q][k] = runner[q][k]
BY DEF TypeOK, GoTo

LEMMA LocalsType ==
  /\ Idle \in Locals /\ Idle.pc = "idle"
  /\ Stopped \in Locals /\ Stopped.pc = "stopped"
BY DEF Idle, Stopped, Local, Locals, Busy

LEMMA FaultType ==
  ASSUME TypeOK, NEW p \in Procs, Fault(p)
  PROVE  faults' \in 0 .. MaxFaults
BY JobRunnerAssumption DEF TypeOK, Fault

-----------------------------------------------------------------------------
(***************************************************************************)
(* Type correctness.                                                       *)
(***************************************************************************)
LEMMA InitType == Init => TypeOK
BY LocalsType, JobRunnerAssumption DEF Init, TypeOK, Rows

\* A step of one goroutine that leaves its process as it is.
LEMMA LocalStepType ==
  ASSUME TypeOK, NEW p \in Procs, NEW j \in Jobs, NEW r \in Locals,
         GoTo(p, j, r), UNCHANGED proc,
         job_runs' \in Seq(Rows), DOMAIN job_runs \subseteq DOMAIN job_runs',
         r.pc \in {"running", "completing"} => r.run \in DOMAIN job_runs',
         r.pc = "stopped" => proc[p] # "up",
         clock' \in Nat,
         next_run_at' \in [Jobs -> Int], locked_until' \in [Jobs -> Int],
         last_claim' \in [Jobs -> Int], faults' \in 0 .. MaxFaults
  PROVE  TypeOK'
<1>1. /\ runner' \in [Procs -> [Jobs -> Locals]]
      /\ runner'[p][j] = r
      /\ \A q \in Procs, k \in Jobs :
           (q # p \/ k # j) => runner'[q][k] = runner[q][k]
  BY GoToLocals
<1>2. proc' \in [Procs -> {"up", "stopping", "down"}]
  BY DEF TypeOK
<1>3. ASSUME NEW q \in Procs, NEW k \in Jobs
      PROVE  /\ runner'[q][k].pc \in {"running", "completing"} =>
                  runner'[q][k].run \in DOMAIN job_runs'
             /\ runner'[q][k].pc = "stopped" => proc'[q] # "up"
  <2>1. CASE q = p /\ k = j
    BY <1>1, <2>1
  <2>2. CASE q # p \/ k # j
    BY <1>1, <2>2 DEF TypeOK
  <2> QED
    BY <2>1, <2>2
<1> QED
  BY <1>1, <1>2, <1>3 DEF TypeOK

LEMMA RunnerStepType ==
  ASSUME TypeOK, NEW p \in Procs, NEW j \in Jobs,
         Tick(p, j) \/ Returns(p, j) \/ RunnerReturns(p, j)
  PROVE  TypeOK'
<1>n. /\ clock \in Nat /\ Now(p) \in Int /\ MaxDelay \in Nat
      /\ RunMax[j] \in Nat /\ Interval[j] \in Nat /\ MaxJitter \in Nat
  BY JobRunnerAssumption DEF TypeOK, Now
<1>r. runner[p][j].at \in Int /\ runner[p][j].run \in Nat
  BY DEF TypeOK, Locals
<1>a. /\ runner[p][j] \in Locals
      /\ clock \in Nat /\ Now(p) \in Int
      /\ next_run_at \in [Jobs -> Int] /\ locked_until \in [Jobs -> Int]
      /\ last_claim \in [Jobs -> Int] /\ job_runs \in Seq(Rows)
      /\ faults \in 0 .. MaxFaults
  BY JobRunnerAssumption DEF TypeOK, Now
<1>b. NewRow(p, j) \in Rows
  BY <1>r, JobRunnerAssumption DEF NewRow, Row, Rows, NoTime
<1>c. Append(job_runs, NewRow(p, j)) \in Seq(Rows)
  BY <1>a, <1>b
<1>d. DOMAIN job_runs \subseteq DOMAIN Append(job_runs, NewRow(p, j))
      /\ Len(job_runs) + 1 \in DOMAIN Append(job_runs, NewRow(p, j))
      /\ Len(job_runs) + 1 \in Nat
  BY <1>a, <1>b
<1>1. ASSUME Tick(p, j) PROVE TypeOK'
  <2> DEFINE r == Local("claiming", clock + MaxDelay, Now(p), 0)
  <2>1. r \in Locals /\ r.pc = "claiming"
    BY <1>n DEF Local, Locals, Busy
  <2>2. GoTo(p, j, r)
    BY <1>1 DEF Tick
  <2> HIDE DEF r
  <2> QED
    BY <2>1, <2>2, <1>1, <1>a, LocalStepType DEF Tick, db
<1>2. ASSUME Claim(p, j)
      PROVE  /\ next_run_at' \in [Jobs -> Int] /\ locked_until' \in [Jobs -> Int]
             /\ last_claim' \in [Jobs -> Int]
             /\ UNCHANGED <<clock, job_runs, proc>>
  <2>1. PICK jitter \in -MaxJitter .. MaxJitter - 1 :
          next_run_at' = [next_run_at EXCEPT ![j] = runner[p][j].at + Interval[j] + jitter]
    BY <1>2 DEF Claim
  <2>2. /\ runner[p][j].at + Interval[j] + jitter \in Int
        /\ runner[p][j].at + Interval[j] \in Int
    BY <1>n, <1>r
  <2>3. next_run_at' \in [Jobs -> Int]
    BY <2>1, <2>2, <1>a
  <2>4. /\ locked_until' = [locked_until EXCEPT ![j] = runner[p][j].at + Interval[j]]
        /\ last_claim' = [last_claim EXCEPT ![j] = clock]
        /\ UNCHANGED <<clock, job_runs, proc>>
    BY <1>2 DEF Claim
  <2>5. locked_until' \in [Jobs -> Int]
    BY <2>2, <2>4, <1>a
  <2>6. last_claim' \in [Jobs -> Int]
    BY <2>4, <1>n, <1>a
  <2> QED
    BY <2>3, <2>4, <2>5, <2>6
<1>3. ASSUME ClaimGranted(p, j) PROVE TypeOK'
  <2> DEFINE r == Local("creating", clock + MaxDelay, Now(p), 0)
  <2>1. r \in Locals /\ r.pc = "creating"
    BY <1>n DEF Local, Locals, Busy
  <2>2. GoTo(p, j, r)
    BY <1>3 DEF ClaimGranted
  <2>3. Claim(p, j) /\ UNCHANGED faults
    BY <1>3 DEF ClaimGranted
  <2> HIDE DEF r
  <2> QED
    BY <2>1, <2>2, <2>3, <1>2, <1>a, LocalStepType
<1>4. ASSUME ClaimWasted(p, j) PROVE TypeOK'
  BY <1>2, <1>4, <1>a, LocalStepType, LocalsType, FaultType DEF ClaimWasted
<1>5. ASSUME ClaimRefused(p, j) PROVE TypeOK'
  BY <1>5, <1>a, LocalStepType, LocalsType DEF ClaimRefused, db
<1>6. ASSUME ClaimFails(p, j) PROVE TypeOK'
  BY <1>6, <1>a, LocalStepType, LocalsType, FaultType DEF ClaimFails, db
<1>7. ASSUME CreateJobRun(p, j) PROVE TypeOK'
  <2> DEFINE r == Local("running", clock + RunMax[j], 0, Len(job_runs) + 1)
  <2>1. r \in Locals /\ r.pc = "running" /\ r.run = Len(job_runs) + 1
    BY <1>n, <1>d DEF Local, Locals, Busy
  <2>2. GoTo(p, j, r)
    BY <1>7 DEF CreateJobRun
  <2> HIDE DEF r
  <2> QED
    BY <2>1, <2>2, <1>7, <1>a, <1>c, <1>d, LocalStepType DEF CreateJobRun, db
<1>8. ASSUME CreateFails(p, j) PROVE TypeOK'
  BY <1>8, <1>a, <1>c, <1>d, LocalStepType, LocalsType, FaultType DEF CreateFails, db
<1>9. ASSUME RunReturns(p, j) PROVE TypeOK'
  <2> DEFINE r == Local("completing", clock + MaxDelay, Now(p), runner[p][j].run)
  <2>1. r \in Locals /\ r.pc = "completing" /\ r.run = runner[p][j].run
    BY <1>n, <1>r DEF Local, Locals, Busy
  <2>2. GoTo(p, j, r)
    BY <1>9 DEF RunReturns
  <2> HIDE DEF r
  <2>3. runner[p][j].run \in DOMAIN job_runs
    BY <1>9 DEF RunReturns, At, TypeOK
  <2> QED
    BY <2>1, <2>2, <2>3, <1>9, <1>a, LocalStepType DEF RunReturns, db
<1>10. ASSUME RunCancelled(p, j) PROVE TypeOK'
  BY <1>10, <1>a, LocalStepType, LocalsType DEF RunCancelled, db
<1>11. ASSUME CompleteJobRun(p, j) PROVE TypeOK'
  <2>1. runner[p][j].run \in DOMAIN job_runs
    BY <1>11 DEF CompleteJobRun, At, TypeOK
  <2>2. job_runs' \in Seq(Rows) /\ DOMAIN job_runs' = DOMAIN job_runs
    <3>1. DEFINE k == runner[p][j].run
                 row == Row(job_runs[k].job, job_runs[k].started_at, runner[p][j].at)
    <3>2. row \in Rows
      <4>1. job_runs[k] \in Rows
        BY <2>1, <1>a
      <4> QED
        BY <4>1, <1>r DEF Row, Rows
    <3>3. job_runs' = [job_runs EXCEPT ![k] = row]
      BY <1>11 DEF CompleteJobRun
    <3> QED
      BY <3>2, <3>3, <2>1, <1>a
  <2> QED
    BY <2>2, <1>11, <1>a, LocalStepType, LocalsType DEF CompleteJobRun, db
<1>12. ASSUME CompleteFails(p, j) PROVE TypeOK'
  BY <1>12, <1>a, LocalStepType, LocalsType, FaultType DEF CompleteFails, db
<1>13. ASSUME RunnerReturns(p, j) PROVE TypeOK'
  BY <1>13, <1>a, LocalStepType, LocalsType DEF RunnerReturns, db
<1> QED
  BY <1>1, <1>3, <1>4, <1>5, <1>6, <1>7, <1>8, <1>9, <1>10, <1>11, <1>12, <1>13
  DEF Returns

LEMMA ProcessStepType ==
  ASSUME TypeOK, NEW p \in Procs, Cancel(p) \/ Exit(p) \/ Restart(p)
  PROVE  TypeOK'
<1>1. CASE Cancel(p)
  BY <1>1, FaultType DEF Cancel, db, TypeOK
<1>2. CASE Exit(p)
  <2>1. runner' \in [Procs -> [Jobs -> Locals]]
    BY <1>2, LocalsType DEF Exit, TypeOK
  <2>2. \A q \in Procs, k \in Jobs :
          runner'[q][k] = IF q = p THEN Stopped ELSE runner[q][k]
    BY <1>2, LocalsType DEF Exit, TypeOK
  <2>3. proc' \in [Procs -> {"up", "stopping", "down"}] /\ proc'[p] = "down"
        /\ \A q \in Procs : q # p => proc'[q] = proc[q]
    BY <1>2 DEF Exit, TypeOK
  <2> QED
    BY <1>2, <2>1, <2>2, <2>3, FaultType, LocalsType DEF Exit, db, TypeOK
<1>3. CASE Restart(p)
  <2>1. runner' \in [Procs -> [Jobs -> Locals]]
    BY <1>3, LocalsType DEF Restart, TypeOK
  <2>2. \A q \in Procs, k \in Jobs :
          runner'[q][k] = IF q = p THEN Idle ELSE runner[q][k]
    BY <1>3, LocalsType DEF Restart, TypeOK
  <2>3. proc' \in [Procs -> {"up", "stopping", "down"}] /\ proc'[p] = "up"
        /\ \A q \in Procs : q # p => proc'[q] = proc[q]
    BY <1>3 DEF Restart, TypeOK
  <2> QED
    BY <1>3, <2>1, <2>2, <2>3, LocalsType DEF Restart, db, TypeOK
<1> QED
  BY <1>1, <1>2, <1>3

LEMMA NextType == TypeOK /\ [Next]_vars => TypeOK'
<1> SUFFICES ASSUME TypeOK, [Next]_vars PROVE TypeOK'
  OBVIOUS
<1>1. CASE TimePasses
  BY <1>1, JobRunnerAssumption DEF TimePasses, db, TypeOK
<1>2. ASSUME NEW p \in Procs, NEW j \in Jobs, Dispatch(p, j) PROVE TypeOK'
  BY <1>2, JobRunnerAssumption DEF Dispatch, Now, TypeOK
<1>3. CASE UNCHANGED vars
  BY <1>3 DEF vars, TypeOK
<1> QED
  BY <1>1, <1>2, <1>3, RunnerStepType, ProcessStepType DEF Next

\* Every reachable state is of its type: in particular a goroutine that runs or
\* completes a run refers to a row that CreateJobRun inserted.
THEOREM TypeCorrect == Spec => []TypeOK
BY InitType, NextType, PTL DEF Spec

-----------------------------------------------------------------------------
(***************************************************************************)
(* Claims are spaced, whatever runs do.                                    *)
(***************************************************************************)
LEMMA InitClaimInv == Init => ClaimInv
<1> SUFFICES ASSUME Init PROVE ClaimInv
  OBVIOUS
<1>1. \A p \in Procs, j \in Jobs : runner[p][j].pc = "idle"
  BY LocalsType DEF Init
<1>2. LockFollowsClaim
  BY JobRunnerAssumption DEF Init, LockFollowsClaim, MinGap
<1> QED
  BY <1>1, <1>2, InitType DEF ClaimInv, DeadlinesKept, ReadingsAreRecent, At, Busy

\* A step of one goroutine that leaves the database's row and the clock alone.
LEMMA LocalStepClaimInv ==
  ASSUME ClaimInv, TypeOK', NEW p \in Procs, NEW j \in Jobs, NEW r \in Locals,
         GoTo(p, j, r), UNCHANGED <<clock, locked_until, last_claim>>,
         r.pc \in Busy => clock <= r.deadline,
         r.pc = "claiming" => r.deadline - MaxDelay <= r.at + MaxSkew
  PROVE  ClaimInv'
<1>1. /\ runner'[p][j] = r
      /\ \A q \in Procs, k \in Jobs :
           (q # p \/ k # j) => runner'[q][k] = runner[q][k]
  BY GoToLocals DEF ClaimInv
<1>2. DeadlinesKept' /\ ReadingsAreRecent'
  <2> SUFFICES ASSUME NEW q \in Procs, NEW k \in Jobs
               PROVE  /\ runner'[q][k].pc \in Busy => clock <= runner'[q][k].deadline
                      /\ runner'[q][k].pc = "claiming" =>
                           runner'[q][k].deadline - MaxDelay <= runner'[q][k].at + MaxSkew
    BY DEF DeadlinesKept, ReadingsAreRecent, At
  <2>1. CASE q = p /\ k = j
    BY <1>1, <2>1
  <2>2. CASE q # p \/ k # j
    BY <1>1, <2>2 DEF ClaimInv, DeadlinesKept, ReadingsAreRecent, At
  <2> QED
    BY <2>1, <2>2
<1>3. LockFollowsClaim'
  BY DEF ClaimInv, LockFollowsClaim, MinGap
<1> QED
  BY <1>2, <1>3 DEF ClaimInv

\* What the UPDATE of ClaimJobRun does to the row it matches and to no other.
LEMMA ClaimEffect ==
  ASSUME TypeOK, NEW p \in Procs, NEW j \in Jobs, Claim(p, j)
  PROVE  /\ locked_until'[j] = runner[p][j].at + Interval[j]
         /\ last_claim'[j] = clock
         /\ \A k \in Jobs : k # j => /\ locked_until'[k] = locked_until[k]
                                    /\ last_claim'[k] = last_claim[k]
         /\ clock' = clock
         /\ locked_until[j] <= clock
         /\ runner[p][j].pc = "claiming"
BY DEF TypeOK, Claim, Claimable, At

LEMMA ClaimKeepsClaimInv ==
  ASSUME ClaimInv, TypeOK', NEW p \in Procs, NEW j \in Jobs, NEW r \in Locals,
         Claim(p, j), GoTo(p, j, r),
         r.pc \in Busy => clock <= r.deadline, r.pc # "claiming"
  PROVE  ClaimInv'
<1>1. /\ runner'[p][j] = r
      /\ \A q \in Procs, k \in Jobs :
           (q # p \/ k # j) => runner'[q][k] = runner[q][k]
  BY GoToLocals DEF ClaimInv
<1>2. DeadlinesKept' /\ ReadingsAreRecent'
  <2> SUFFICES ASSUME NEW q \in Procs, NEW k \in Jobs
               PROVE  /\ runner'[q][k].pc \in Busy => clock' <= runner'[q][k].deadline
                      /\ runner'[q][k].pc = "claiming" =>
                           runner'[q][k].deadline - MaxDelay <= runner'[q][k].at + MaxSkew
    BY DEF DeadlinesKept, ReadingsAreRecent, At
  <2>1. CASE q = p /\ k = j
    BY <1>1, <2>1, ClaimEffect DEF ClaimInv
  <2>2. CASE q # p \/ k # j
    BY <1>1, <2>2, ClaimEffect DEF ClaimInv, DeadlinesKept, ReadingsAreRecent, At
  <2> QED
    BY <2>1, <2>2
<1>3. LockFollowsClaim'
  <2> SUFFICES ASSUME NEW k \in Jobs
               PROVE  last_claim'[k] + MinGap[k] <= locked_until'[k]
    BY DEF LockFollowsClaim, MinGap
  <2>a. MinGap[k] = Interval[k] - MaxDelay - MaxSkew
    BY DEF MinGap
  <2>1. CASE k = j
    <3>1. /\ clock <= runner[p][j].deadline
          /\ runner[p][j].deadline - MaxDelay <= runner[p][j].at + MaxSkew
      BY ClaimEffect DEF ClaimInv, DeadlinesKept, ReadingsAreRecent, At, Busy
    <3>2. /\ clock \in Int /\ MaxDelay \in Int /\ MaxSkew \in Int /\ Interval[j] \in Int
          /\ runner[p][j].deadline \in Int /\ runner[p][j].at \in Int
      BY ConstantTypes, LocalTypes DEF ClaimInv
    <3>3. clock + (Interval[j] - MaxDelay - MaxSkew) <= runner[p][j].at + Interval[j]
      BY <3>1, <3>2
    <3> QED
      <4>1. last_claim'[j] = clock /\ locked_until'[j] = runner[p][j].at + Interval[j]
        BY ClaimEffect DEF ClaimInv
      <4> QED
        BY <2>1, <2>a, <3>3, <4>1
  <2>2. CASE k # j
    BY <2>2, ClaimEffect DEF ClaimInv, LockFollowsClaim
  <2> QED
    BY <2>1, <2>2
<1> QED
  BY <1>2, <1>3 DEF ClaimInv

LEMMA RunnerStepClaimInv ==
  ASSUME ClaimInv, TypeOK', NEW p \in Procs, NEW j \in Jobs,
         Tick(p, j) \/ Returns(p, j) \/ RunnerReturns(p, j)
  PROVE  ClaimInv'
<1>n. /\ clock \in Nat /\ Now(p) \in Int /\ MaxDelay \in Nat /\ RunMax[j] \in Nat
      /\ MaxSkew \in Nat /\ clock <= Now(p) + MaxSkew
      /\ runner[p][j].run \in Nat /\ Len(job_runs) + 1 \in Nat
  BY ConstantTypes, LocalTypes DEF ClaimInv, Now
<1>1. CASE Tick(p, j)
  <2> DEFINE r == Local("claiming", clock + MaxDelay, Now(p), 0)
  <2>1. r \in Locals /\ clock <= r.deadline /\ r.deadline - MaxDelay <= r.at + MaxSkew
    <3>1. /\ r.deadline = clock + MaxDelay /\ r.at = Now(p)
          /\ r.deadline - MaxDelay = clock
      BY <1>n DEF Local
    <3> QED
      BY <3>1, <1>n DEF Local, Locals, Busy
  <2>2. GoTo(p, j, r) /\ UNCHANGED <<clock, locked_until, last_claim>>
    BY <1>1 DEF Tick, db
  <2> HIDE DEF r
  <2> QED
    BY <2>1, <2>2, LocalStepClaimInv
<1>2. CASE ClaimGranted(p, j)
  <2> DEFINE r == Local("creating", clock + MaxDelay, Now(p), 0)
  <2>1. r \in Locals /\ clock <= r.deadline /\ r.pc # "claiming"
    BY <1>n DEF Local, Locals, Busy
  <2>2. GoTo(p, j, r) /\ Claim(p, j)
    BY <1>2 DEF ClaimGranted
  <2> HIDE DEF r
  <2> QED
    BY <2>1, <2>2, ClaimKeepsClaimInv
<1>3. CASE ClaimWasted(p, j)
  BY <1>3, ClaimKeepsClaimInv, LocalsType DEF ClaimWasted, Busy
<1>4. CASE CreateJobRun(p, j)
  <2> DEFINE r == Local("running", clock + RunMax[j], 0, Len(job_runs) + 1)
  <2>1. r \in Locals /\ clock <= r.deadline /\ r.pc # "claiming"
    BY <1>n DEF Local, Locals, Busy
  <2>2. GoTo(p, j, r) /\ UNCHANGED <<clock, locked_until, last_claim>>
    BY <1>4 DEF CreateJobRun, db
  <2> HIDE DEF r
  <2> QED
    BY <2>1, <2>2, LocalStepClaimInv
<1>5. CASE RunReturns(p, j)
  <2> DEFINE r == Local("completing", clock + MaxDelay, Now(p), runner[p][j].run)
  <2>1. r \in Locals /\ clock <= r.deadline /\ r.pc # "claiming"
    BY <1>n DEF Local, Locals, Busy
  <2>2. GoTo(p, j, r) /\ UNCHANGED <<clock, locked_until, last_claim>>
    BY <1>5 DEF RunReturns, db
  <2> HIDE DEF r
  <2> QED
    BY <2>1, <2>2, LocalStepClaimInv
<1>6. ASSUME NEW r \in {Idle, Stopped}, GoTo(p, j, r),
             UNCHANGED <<clock, locked_until, last_claim>>
      PROVE  ClaimInv'
  BY <1>6, LocalsType, LocalStepClaimInv DEF Busy
<1>7. CASE ClaimRefused(p, j) \/ ClaimFails(p, j) \/ CreateFails(p, j)
  BY <1>6, <1>7 DEF ClaimRefused, ClaimFails, CreateFails, db
<1>8. CASE RunCancelled(p, j) \/ CompleteJobRun(p, j) \/ CompleteFails(p, j)
  BY <1>6, <1>8 DEF RunCancelled, CompleteJobRun, CompleteFails, db
<1>9. CASE RunnerReturns(p, j)
  BY <1>6, <1>9 DEF RunnerReturns, db
<1> QED
  BY <1>1, <1>2, <1>3, <1>4, <1>5, <1>7, <1>8, <1>9 DEF Returns

\* The local states of a process that ends or starts: none waits for a call.
LEMMA NewProcessLocals ==
  ASSUME TypeOK, NEW p \in Procs, Exit(p) \/ Restart(p)
  PROVE  \A q \in Procs, k \in Jobs :
           /\ q = p => runner'[q][k].pc \in {"idle", "stopped"}
           /\ q # p => runner'[q][k] = runner[q][k]
<1>1. CASE Exit(p)
  BY <1>1, LocalsType DEF Exit, TypeOK
<1>2. CASE Restart(p)
  BY <1>2, LocalsType DEF Restart, TypeOK
<1> QED
  BY <1>1, <1>2

LEMMA NextClaimInv == ClaimInv /\ [Next]_vars => ClaimInv'
<1> SUFFICES ASSUME ClaimInv, [Next]_vars PROVE ClaimInv'
  OBVIOUS
<1>t. TypeOK /\ TypeOK'
  BY NextType DEF ClaimInv
<1>1. CASE TimePasses
  <2>1. DeadlinesKept'
    <3> SUFFICES ASSUME NEW p \in Procs, NEW j \in Jobs, runner'[p][j].pc \in Busy
                 PROVE  clock' <= runner'[p][j].deadline
      BY DEF DeadlinesKept
    <3>1. /\ clock' = clock + 1 /\ clock < runner[p][j].deadline
          /\ runner'[p][j] = runner[p][j]
      BY <1>1 DEF TimePasses
    <3>2. clock \in Int /\ runner[p][j].deadline \in Int
      BY <1>t DEF TypeOK, Locals
    <3> QED
      BY <3>1, <3>2
  <2> QED
    BY <1>1, <1>t, <2>1
    DEF TimePasses, db, ClaimInv, ReadingsAreRecent, LockFollowsClaim, MinGap, At
<1>2. ASSUME NEW p \in Procs, NEW j \in Jobs, Dispatch(p, j) PROVE ClaimInv'
  BY <1>2, <1>t DEF Dispatch, ClaimInv, DeadlinesKept, ReadingsAreRecent,
                    LockFollowsClaim, MinGap, At
<1>3. ASSUME NEW p \in Procs, Cancel(p) PROVE ClaimInv'
  BY <1>3, <1>t DEF Cancel, db, ClaimInv, DeadlinesKept, ReadingsAreRecent,
                    LockFollowsClaim, MinGap, At
<1>4. ASSUME NEW p \in Procs, Exit(p) \/ Restart(p) PROVE ClaimInv'
  <2>1. UNCHANGED <<clock, locked_until, last_claim>>
    BY <1>4 DEF Exit, Restart, db
  <2>2. DeadlinesKept' /\ ReadingsAreRecent'
    BY <1>4, <1>t, <2>1, NewProcessLocals
    DEF ClaimInv, DeadlinesKept, ReadingsAreRecent, At, Busy
  <2> QED
    BY <1>t, <2>1, <2>2 DEF ClaimInv, LockFollowsClaim, MinGap
<1>5. CASE UNCHANGED vars
  BY <1>5, <1>t DEF vars, ClaimInv, DeadlinesKept, ReadingsAreRecent,
                    LockFollowsClaim, MinGap, At
<1> QED
  BY <1>1, <1>2, <1>3, <1>4, <1>5, <1>t, RunnerStepClaimInv DEF Next

THEOREM ClaimInvariant == Spec => []ClaimInv
BY InitClaimInv, NextClaimInv, PTL DEF Spec

\* Only the UPDATE of ClaimJobRun moves last_claim, and only of its own job.
LEMMA OnlyClaimsMoveLastClaim ==
  ASSUME TypeOK, [Next]_vars, NEW k \in Jobs, last_claim'[k] # last_claim[k]
  PROVE  \E p \in Procs : Claim(p, k)
<1>1. PICK p \in Procs, j \in Jobs : ClaimGranted(p, j) \/ ClaimWasted(p, j)
  BY DEF Next, vars, db, Returns, TimePasses, Cancel, Exit, Restart, Dispatch, Tick,
         RunnerReturns, ClaimRefused, ClaimFails, CreateJobRun, CreateFails,
         RunReturns, RunCancelled, CompleteJobRun, CompleteFails
<1>2. Claim(p, j)
  BY <1>1 DEF ClaimGranted, ClaimWasted
<1> QED
  BY <1>2, ClaimEffect

\* Two claims of a job are at least MinGap apart, for any number of processes,
\* faults and dispatches, and however long the runs take.
THEOREM ClaimsSpaced == Spec => ClaimsAreSpaced
<1> DEFINE Spaced == \A j \in Jobs : last_claim'[j] # last_claim[j] =>
                       clock - last_claim[j] >= MinGap[j]
<1>1. ClaimInv /\ [Next]_vars => [Spaced]_vars
  <2> SUFFICES ASSUME ClaimInv, [Next]_vars, NEW j \in Jobs,
                      last_claim'[j] # last_claim[j]
               PROVE  clock - last_claim[j] >= MinGap[j]
    OBVIOUS
  <2>1. PICK p \in Procs : Claim(p, j)
    BY OnlyClaimsMoveLastClaim DEF ClaimInv
  <2>2. locked_until[j] <= clock /\ last_claim[j] + MinGap[j] <= locked_until[j]
    BY <2>1, ClaimEffect DEF ClaimInv, LockFollowsClaim
  <2>3. /\ MinGap[j] \in Int /\ clock \in Int
        /\ locked_until[j] \in Int /\ last_claim[j] \in Int
    BY <2>1, ConstantTypes, LocalTypes DEF ClaimInv, MinGap
  <2> QED
    BY <2>2, <2>3
<1>2. ClaimsAreSpaced <=> [][Spaced]_vars
  BY PTL DEF ClaimsAreSpaced
<1> QED
  BY <1>1, <1>2, ClaimInvariant, PTL DEF Spec

-----------------------------------------------------------------------------
(***************************************************************************)
(* One run at a time, when claims outlive runs.                            *)
(***************************************************************************)
\* What GoTo does to the processes that act on a claim.
LEMMA HoldersAfterGoTo ==
  ASSUME TypeOK, NEW p \in Procs, NEW j \in Jobs, NEW r \in Locals, GoTo(p, j, r)
  PROVE  /\ Holders(j)' = IF r.pc \in {"creating", "running"}
                           THEN Holders(j) \cup {p} ELSE Holders(j) \ {p}
         /\ \A k \in Jobs : k # j => Holders(k)' = Holders(k)
BY GoToLocals DEF Holders

\* A job that can be claimed has no holder: its claim would not have lapsed.
LEMMA ClaimableHasNoHolder ==
  ASSUME RunInv, NEW j \in Jobs, locked_until[j] <= clock
  PROVE  Holders(j) = {}
<1> SUFFICES ASSUME NEW q \in Holders(j) PROVE FALSE
  OBVIOUS
<1>1. q \in Procs /\ runner[q][j].pc \in {"creating", "running"}
  BY DEF Holders
<1>2. clock <= runner[q][j].deadline
  BY <1>1 DEF RunInv, ClaimInv, DeadlinesKept, Busy
<1>3. /\ runner[q][j].pc = "creating" => runner[q][j].deadline + RunMax[j] < locked_until[j]
      /\ runner[q][j].pc = "running" => runner[q][j].deadline < locked_until[j]
  BY <1>1 DEF RunInv, HoldersFinishInTime, At
<1>4. /\ clock \in Nat /\ locked_until[j] \in Int /\ RunMax[j] \in Nat
      /\ runner[q][j].deadline \in Int
  BY <1>1, ConstantTypes, LocalTypes DEF RunInv, ClaimInv
<1> QED
  BY <1>1, <1>2, <1>3, <1>4

\* A step of one goroutine that claims nothing.
LEMMA LocalStepRunInv ==
  ASSUME RunInv, ClaimInv', NEW p \in Procs, NEW j \in Jobs, NEW r \in Locals,
         GoTo(p, j, r), UNCHANGED locked_until,
         r.pc # "creating",
         r.pc = "running" => /\ runner[p][j].pc = "creating"
                             /\ r.deadline < locked_until[j]
  PROVE  RunInv'
<1>1. /\ runner'[p][j] = r
      /\ \A q \in Procs, k \in Jobs :
           (q # p \/ k # j) => runner'[q][k] = runner[q][k]
  BY GoToLocals DEF RunInv, ClaimInv
<1>2. HoldersFinishInTime'
  <2> SUFFICES ASSUME NEW q \in Procs, NEW k \in Jobs
               PROVE  /\ runner'[q][k].pc = "creating" =>
                           runner'[q][k].deadline + RunMax[k] < locked_until[k]
                      /\ runner'[q][k].pc = "running" =>
                           runner'[q][k].deadline < locked_until[k]
    BY DEF HoldersFinishInTime, At
  <2>1. CASE q = p /\ k = j
    BY <1>1, <2>1
  <2>2. CASE q # p \/ k # j
    BY <1>1, <2>2 DEF RunInv, HoldersFinishInTime, At
  <2> QED
    BY <2>1, <2>2
<1>3. \A k \in Jobs : Holders(k)' \subseteq Holders(k)
  BY <1>1 DEF Holders
<1> QED
  BY <1>2, <1>3 DEF RunInv, OneRunAtATime

LEMMA ClaimKeepsRunInv ==
  ASSUME LeaseOutlivesRun, RunInv, ClaimInv', NEW p \in Procs, NEW j \in Jobs,
         NEW r \in Locals, Claim(p, j), GoTo(p, j, r),
         r.pc # "running",
         r.pc = "creating" => r.deadline = clock + MaxDelay
  PROVE  RunInv'
<1>t. TypeOK
  BY DEF RunInv, ClaimInv
<1>1. /\ runner'[p][j] = r
      /\ \A q \in Procs, k \in Jobs :
           (q # p \/ k # j) => runner'[q][k] = runner[q][k]
  BY <1>t, GoToLocals
<1>2. /\ locked_until'[j] = runner[p][j].at + Interval[j]
      /\ \A k \in Jobs : k # j => locked_until'[k] = locked_until[k]
      /\ locked_until[j] <= clock
      /\ runner[p][j].pc = "claiming"
  BY <1>t, ClaimEffect
<1>3. Holders(j) = {}
  BY <1>2, ClaimableHasNoHolder
<1>4. clock + MaxDelay + RunMax[j] < locked_until'[j]
  <2>1. /\ clock <= runner[p][j].deadline
        /\ runner[p][j].deadline - MaxDelay <= runner[p][j].at + MaxSkew
    BY <1>2 DEF RunInv, ClaimInv, DeadlinesKept, ReadingsAreRecent, At, Busy
  <2>2. RunMax[j] + 2 * MaxDelay + MaxSkew < Interval[j]
    BY DEF LeaseOutlivesRun
  <2>3. /\ clock \in Int /\ MaxDelay \in Int /\ MaxSkew \in Int /\ Interval[j] \in Int
        /\ RunMax[j] \in Int /\ runner[p][j].deadline \in Int /\ runner[p][j].at \in Int
    BY <1>t, ConstantTypes, LocalTypes
  <2>4. clock + MaxDelay + RunMax[j] < runner[p][j].at + Interval[j]
    BY <2>1, <2>2, <2>3
  <2> QED
    BY <1>2, <2>4
<1>5. HoldersFinishInTime'
  <2> SUFFICES ASSUME NEW q \in Procs, NEW k \in Jobs
               PROVE  /\ runner'[q][k].pc = "creating" =>
                           runner'[q][k].deadline + RunMax[k] < locked_until'[k]
                      /\ runner'[q][k].pc = "running" =>
                           runner'[q][k].deadline < locked_until'[k]
    BY DEF HoldersFinishInTime, At
  <2>1. CASE q = p /\ k = j
    BY <1>1, <1>4, <2>1
  <2>2. CASE k # j
    BY <1>1, <1>2, <2>2 DEF RunInv, HoldersFinishInTime, At
  <2>3. CASE q # p /\ k = j
    BY <1>1, <1>3, <2>3 DEF Holders
  <2> QED
    BY <2>1, <2>2, <2>3
<1>6. Holders(j)' \subseteq {p} /\ \A k \in Jobs : k # j => Holders(k)' = Holders(k)
  BY <1>t, <1>3, HoldersAfterGoTo
<1> QED
  BY <1>5, <1>6 DEF RunInv, OneRunAtATime

LEMMA InitRunInv == Init => RunInv
<1> SUFFICES ASSUME Init PROVE RunInv
  OBVIOUS
<1>1. \A p \in Procs, j \in Jobs : runner[p][j].pc = "idle"
  BY LocalsType DEF Init
<1> QED
  BY <1>1, InitClaimInv DEF RunInv, HoldersFinishInTime, OneRunAtATime, Holders, At

LEMMA RunnerStepRunInv ==
  ASSUME LeaseOutlivesRun, RunInv, ClaimInv', NEW p \in Procs, NEW j \in Jobs,
         Tick(p, j) \/ Returns(p, j) \/ RunnerReturns(p, j)
  PROVE  RunInv'
<1>n. /\ clock \in Nat /\ Now(p) \in Int /\ MaxDelay \in Nat /\ RunMax[j] \in Nat
      /\ runner[p][j].run \in Nat /\ Len(job_runs) + 1 \in Nat
  BY ConstantTypes, LocalTypes DEF RunInv, ClaimInv, Now
<1>1. CASE Tick(p, j)
  <2> DEFINE r == Local("claiming", clock + MaxDelay, Now(p), 0)
  <2>1. r \in Locals /\ r.pc = "claiming"
    BY <1>n DEF Local, Locals, Busy
  <2>2. GoTo(p, j, r) /\ UNCHANGED locked_until
    BY <1>1 DEF Tick, db
  <2> HIDE DEF r
  <2> QED
    BY <2>1, <2>2, LocalStepRunInv
<1>2. CASE ClaimGranted(p, j)
  <2> DEFINE r == Local("creating", clock + MaxDelay, Now(p), 0)
  <2>1. r \in Locals /\ r.pc = "creating" /\ r.deadline = clock + MaxDelay
    BY <1>n DEF Local, Locals, Busy
  <2>2. GoTo(p, j, r) /\ Claim(p, j)
    BY <1>2 DEF ClaimGranted
  <2> HIDE DEF r
  <2> QED
    BY <2>1, <2>2, ClaimKeepsRunInv
<1>3. CASE ClaimWasted(p, j)
  BY <1>3, ClaimKeepsRunInv, LocalsType DEF ClaimWasted
<1>4. CASE CreateJobRun(p, j)
  <2> DEFINE r == Local("running", clock + RunMax[j], 0, Len(job_runs) + 1)
  <2>1. r \in Locals /\ r.pc = "running" /\ r.deadline = clock + RunMax[j]
    BY <1>n DEF Local, Locals, Busy
  <2>2. GoTo(p, j, r) /\ UNCHANGED locked_until /\ runner[p][j].pc = "creating"
    BY <1>4 DEF CreateJobRun, db, At
  <2>3. r.deadline < locked_until[j]
    <3>1. /\ clock <= runner[p][j].deadline
          /\ runner[p][j].deadline + RunMax[j] < locked_until[j]
      BY <2>2 DEF RunInv, ClaimInv, DeadlinesKept, HoldersFinishInTime, At, Busy
    <3>2. runner[p][j].deadline \in Int /\ locked_until[j] \in Int
      BY LocalTypes DEF RunInv, ClaimInv
    <3> QED
      BY <2>1, <3>1, <3>2, <1>n
  <2> HIDE DEF r
  <2> QED
    BY <2>1, <2>2, <2>3, LocalStepRunInv
<1>5. CASE RunReturns(p, j)
  <2> DEFINE r == Local("completing", clock + MaxDelay, Now(p), runner[p][j].run)
  <2>1. r \in Locals /\ r.pc = "completing"
    BY <1>n DEF Local, Locals, Busy
  <2>2. GoTo(p, j, r) /\ UNCHANGED locked_until
    BY <1>5 DEF RunReturns, db
  <2> HIDE DEF r
  <2> QED
    BY <2>1, <2>2, LocalStepRunInv
<1>6. ASSUME NEW r \in {Idle, Stopped}, GoTo(p, j, r), UNCHANGED locked_until
      PROVE  RunInv'
  BY <1>6, LocalsType, LocalStepRunInv
<1>7. CASE ClaimRefused(p, j) \/ ClaimFails(p, j) \/ CreateFails(p, j)
  BY <1>6, <1>7 DEF ClaimRefused, ClaimFails, CreateFails, db
<1>8. CASE RunCancelled(p, j) \/ CompleteJobRun(p, j) \/ CompleteFails(p, j)
  BY <1>6, <1>8 DEF RunCancelled, CompleteJobRun, CompleteFails, db
<1>9. CASE RunnerReturns(p, j)
  BY <1>6, <1>9 DEF RunnerReturns, db
<1> QED
  BY <1>1, <1>2, <1>3, <1>4, <1>5, <1>7, <1>8, <1>9 DEF Returns

LEMMA NextRunInv ==
  ASSUME LeaseOutlivesRun
  PROVE  RunInv /\ [Next]_vars => RunInv'
<1> SUFFICES ASSUME RunInv, [Next]_vars PROVE RunInv'
  OBVIOUS
<1>c. ClaimInv'
  BY NextClaimInv DEF RunInv
<1>1. CASE UNCHANGED <<runner, locked_until>>
  BY <1>1, <1>c DEF RunInv, HoldersFinishInTime, OneRunAtATime, Holders, At
<1>2. ASSUME NEW p \in Procs, Exit(p) \/ Restart(p) PROVE RunInv'
  <2>1. UNCHANGED locked_until
    BY <1>2 DEF Exit, Restart, db
  <2> QED
    BY <1>2, <1>c, <2>1, NewProcessLocals
    DEF RunInv, ClaimInv, HoldersFinishInTime, OneRunAtATime, Holders, At
<1>3. TimePasses => UNCHANGED <<runner, locked_until>>
  BY DEF TimePasses, db
<1>4. \A p \in Procs : Cancel(p) => UNCHANGED <<runner, locked_until>>
  BY DEF Cancel, db
<1>5. \A p \in Procs, j \in Jobs : Dispatch(p, j) => UNCHANGED <<runner, locked_until>>
  BY DEF Dispatch
<1>6. UNCHANGED vars => UNCHANGED <<runner, locked_until>>
  BY DEF vars
<1> QED
  BY <1>1, <1>2, <1>3, <1>4, <1>5, <1>6, <1>c, RunnerStepRunInv DEF Next

LEMMA RunInvariant ==
  ASSUME LeaseOutlivesRun
  PROVE  Spec => []RunInv
BY InitRunInv, NextRunInv, PTL DEF Spec

\* No two processes run a job at the same time, for any number of processes
\* and jobs, as long as a run and the calls around it fit into its claim.
THEOREM RunsExclusive ==
  ASSUME LeaseOutlivesRun
  PROVE  Spec => []OneRunAtATime
<1>1. RunInv => OneRunAtATime
  BY DEF RunInv
<1> QED
  BY <1>1, RunInvariant, PTL

-----------------------------------------------------------------------------
(***************************************************************************)
(* JobRunner implements JobLease.                                          *)
(***************************************************************************)
LEMMA LeaseInitial == Init => Lease!LeaseInit
<1> SUFFICES ASSUME Init PROVE Lease!LeaseInit
  OBVIOUS
<1>1. \A p \in Procs, j \in Jobs : runner[p][j].pc = "idle"
  BY LocalsType DEF Init
<1>2. \A j \in Jobs : Holders(j) = {}
  BY <1>1 DEF Holders
<1>3. \A j \in Jobs : clock - last_claim[j] >= MinGap[j]
  BY JobRunnerAssumption DEF Init, MinGap
<1> QED
  BY <1>2, <1>3, JobRunnerAssumption DEF Init, Lease!LeaseInit

\* A step of one goroutine after which it holds the job only if it did before.
LEMMA LocalStepLeaves ==
  ASSUME TypeOK, NEW p \in Procs, NEW j \in Jobs, NEW r \in Locals,
         GoTo(p, j, r), UNCHANGED <<clock, last_claim>>,
         r.pc \in {"creating", "running"} => p \in Holders(j)
  PROVE  Lease!Leave(p)
<1>1. /\ Holders(j)' \in {Holders(j), Holders(j) \ {p}}
      /\ \A k \in Jobs : k # j => Holders(k)' = Holders(k)
  BY HoldersAfterGoTo
<1>2. PICK S \in SUBSET Jobs :
        \A k \in Jobs : Holders(k)' = IF k \in S THEN Holders(k) \ {p} ELSE Holders(k)
  <2> DEFINE S == IF Holders(j)' = Holders(j) THEN {} ELSE {j}
  <2>1. S \in SUBSET Jobs
    OBVIOUS
  <2>2. \A k \in Jobs : Holders(k)' = IF k \in S THEN Holders(k) \ {p} ELSE Holders(k)
    BY <1>1
  <2> HIDE DEF S
  <2> QED
    BY <2>1, <2>2
<1> QED
  BY <1>2 DEF Lease!Leave

LEMMA ClaimIsGranted ==
  ASSUME RunInv, NEW p \in Procs, NEW j \in Jobs, Claim(p, j)
  PROVE  Lease!Granted(j) /\ Holders(j) = {}
<1>t. TypeOK /\ ClaimInv
  BY DEF RunInv, ClaimInv
<1>1. Holders(j) = {}
  BY <1>t, ClaimEffect, ClaimableHasNoHolder
<1>2. clock - last_claim[j] >= MinGap[j]
  <2>1. locked_until[j] <= clock /\ last_claim[j] + MinGap[j] <= locked_until[j]
    BY <1>t, ClaimEffect DEF ClaimInv, LockFollowsClaim
  <2>2. /\ MinGap[j] \in Int /\ clock \in Int
        /\ locked_until[j] \in Int /\ last_claim[j] \in Int
    BY <1>t, ConstantTypes, LocalTypes DEF MinGap
  <2> QED
    BY <2>1, <2>2
<1>3. last_claim' = [last_claim EXCEPT ![j] = clock] /\ UNCHANGED clock
  BY DEF Claim
<1> QED
  BY <1>1, <1>2, <1>3 DEF Lease!Granted

LEMMA RunnerStepRefines ==
  ASSUME RunInv, NEW p \in Procs, NEW j \in Jobs,
         Tick(p, j) \/ Returns(p, j) \/ RunnerReturns(p, j)
  PROVE  Lease!LeaseNext
<1>t. TypeOK
  BY DEF RunInv, ClaimInv
<1>n. /\ clock \in Nat /\ Now(p) \in Int /\ MaxDelay \in Nat /\ RunMax[j] \in Nat
      /\ runner[p][j].run \in Nat /\ Len(job_runs) + 1 \in Nat
  BY <1>t, ConstantTypes, LocalTypes DEF Now
<1>l. Lease!Leave(p) => Lease!LeaseNext
  BY DEF Lease!LeaseNext
<1>1. CASE Tick(p, j)
  <2> DEFINE r == Local("claiming", clock + MaxDelay, Now(p), 0)
  <2>1. r \in Locals /\ r.pc = "claiming"
    BY <1>n DEF Local, Locals, Busy
  <2>2. GoTo(p, j, r) /\ UNCHANGED <<clock, last_claim>>
    BY <1>1 DEF Tick, db
  <2> HIDE DEF r
  <2> QED
    BY <2>1, <2>2, <1>t, <1>l, LocalStepLeaves
<1>2. CASE ClaimGranted(p, j)
  <2> DEFINE r == Local("creating", clock + MaxDelay, Now(p), 0)
  <2>1. r \in Locals /\ r.pc = "creating"
    BY <1>n DEF Local, Locals, Busy
  <2>2. GoTo(p, j, r) /\ Claim(p, j)
    BY <1>2 DEF ClaimGranted
  <2> HIDE DEF r
  <2>3. Lease!Granted(j) /\ Holders(j) = {}
    BY <2>2, ClaimIsGranted
  <2>4. \A k \in Jobs : Holders(k)' = IF k = j THEN {p} ELSE Holders(k)
    BY <2>1, <2>2, <2>3, <1>t, HoldersAfterGoTo
  <2>5. Lease!Grant(p, j)
    BY <2>3, <2>4 DEF Lease!Grant
  <2> QED
    BY <2>5 DEF Lease!LeaseNext
<1>3. CASE ClaimWasted(p, j)
  <2>1. GoTo(p, j, Idle) /\ Claim(p, j)
    BY <1>3 DEF ClaimWasted
  <2>2. Lease!Granted(j) /\ Holders(j) = {}
    BY <2>1, ClaimIsGranted
  <2>3. \A k \in Jobs : Holders(k)' = Holders(k)
    BY <2>1, <2>2, <1>t, LocalsType, HoldersAfterGoTo
  <2>4. Lease!Waste(j)
    BY <2>2, <2>3 DEF Lease!Waste
  <2> QED
    BY <2>4 DEF Lease!LeaseNext
<1>4. CASE CreateJobRun(p, j)
  <2> DEFINE r == Local("running", clock + RunMax[j], 0, Len(job_runs) + 1)
  <2>1. r \in Locals
    BY <1>n DEF Local, Locals, Busy
  <2>2. GoTo(p, j, r) /\ UNCHANGED <<clock, last_claim>> /\ p \in Holders(j)
    BY <1>4 DEF CreateJobRun, db, At, Holders
  <2> HIDE DEF r
  <2> QED
    BY <2>1, <2>2, <1>t, <1>l, LocalStepLeaves
<1>5. CASE RunReturns(p, j)
  <2> DEFINE r == Local("completing", clock + MaxDelay, Now(p), runner[p][j].run)
  <2>1. r \in Locals /\ r.pc = "completing"
    BY <1>n DEF Local, Locals, Busy
  <2>2. GoTo(p, j, r) /\ UNCHANGED <<clock, last_claim>>
    BY <1>5 DEF RunReturns, db
  <2> HIDE DEF r
  <2> QED
    BY <2>1, <2>2, <1>t, <1>l, LocalStepLeaves
<1>6. ASSUME NEW r \in {Idle, Stopped}, GoTo(p, j, r), UNCHANGED <<clock, last_claim>>
      PROVE  Lease!LeaseNext
  BY <1>6, <1>t, <1>l, LocalsType, LocalStepLeaves
<1>7. CASE ClaimRefused(p, j) \/ ClaimFails(p, j) \/ CreateFails(p, j)
  BY <1>6, <1>7 DEF ClaimRefused, ClaimFails, CreateFails, db
<1>8. CASE RunCancelled(p, j) \/ CompleteJobRun(p, j) \/ CompleteFails(p, j)
  BY <1>6, <1>8 DEF RunCancelled, CompleteJobRun, CompleteFails, db
<1>9. CASE RunnerReturns(p, j)
  BY <1>6, <1>9 DEF RunnerReturns, db
<1> QED
  BY <1>1, <1>2, <1>3, <1>4, <1>5, <1>7, <1>8, <1>9 DEF Returns

\* The runners of all processes, sharing nothing but two timestamps per job,
\* implement a lock with one holder that is granted at most once per MinGap.
THEOREM RefinesLease ==
  ASSUME LeaseOutlivesRun
  PROVE  Spec => ImplementsLease
<1>1. RunInv /\ [Next]_vars => [Lease!LeaseNext]_(Lease!leaseVars)
  <2> SUFFICES ASSUME RunInv, [Next]_vars
               PROVE  Lease!LeaseNext \/ UNCHANGED Lease!leaseVars
    OBVIOUS
  <2>1. CASE TimePasses
    <3>1. clock' = clock + 1 /\ UNCHANGED <<runner, last_claim>>
      BY <2>1 DEF TimePasses, db
    <3> QED
      BY <3>1 DEF Lease!LeaseNext, Lease!Wait, Holders
  <2>2. CASE UNCHANGED <<clock, runner, last_claim>>
    BY <2>2 DEF Lease!leaseVars, Holders
  <2>3. ASSUME NEW p \in Procs, Exit(p) \/ Restart(p) PROVE Lease!LeaseNext
    <3>1. UNCHANGED <<clock, last_claim>>
      BY <2>3 DEF Exit, Restart, db
    <3>2. \A k \in Jobs : Holders(k)' = Holders(k) \ {p}
      BY <2>3, NewProcessLocals DEF RunInv, ClaimInv, Holders
    <3>3. Lease!Leave(p)
      <4>1. [k \in Jobs |-> Holders(k)'] =
              [k \in Jobs |-> IF k \in Jobs THEN Holders(k) \ {p} ELSE Holders(k)]
        BY <3>2
      <4> QED
        BY <3>1, <4>1 DEF Lease!Leave
    <3> QED
      BY <3>3 DEF Lease!LeaseNext
  <2>4. /\ \A p \in Procs : Cancel(p) => UNCHANGED <<clock, runner, last_claim>>
        /\ \A p \in Procs, j \in Jobs :
             Dispatch(p, j) => UNCHANGED <<clock, runner, last_claim>>
        /\ UNCHANGED vars => UNCHANGED <<clock, runner, last_claim>>
    BY DEF Cancel, Dispatch, vars, db
  <2> QED
    BY <2>1, <2>2, <2>3, <2>4, RunnerStepRefines DEF Next
<1> QED
  BY <1>1, LeaseInitial, RunInvariant, PTL DEF Spec, ImplementsLease, Lease!LeaseSpec

-----------------------------------------------------------------------------
(***************************************************************************)
(* Rows of job_runs are left open by faults only.                          *)
(***************************************************************************)
InRun == {"creating", "running", "completing"}

\* The processes whose runs of j will not be recorded: their context is cancelled.
Doomed(j) == {p \in Procs : proc[p] = "stopping" /\ runner[p][j].pc \in InRun}

\* An open row nobody will complete has cost a fault, and so will a doomed run.
Cost(j) ==
  /\ IsFiniteSet(Doomed(j))
  /\ Cardinality(Abandoned(j)) + Cardinality(Doomed(j)) <= faults

FaultInv ==
  /\ \A j \in Jobs : Cost(j)
  /\ \A p \in Procs, j \in Jobs :
       /\ proc[p] = "down" => runner[p][j].pc = "stopped"
       /\ runner[p][j].pc = "completing" => runner[p][j].at # NoTime

\* A goroutine with the local state x fills in row r.
Refers(x, r) == x.pc \in {"running", "completing"} /\ x.run = r

LEMMA AbandonedFinite ==
  ASSUME TypeOK, NEW j \in Jobs
  PROVE  IsFiniteSet(Abandoned(j))
<1>1. DOMAIN job_runs = 1 .. Len(job_runs) /\ Len(job_runs) \in Nat
  BY DEF TypeOK
<1>2. Abandoned(j) \subseteq DOMAIN job_runs
  BY DEF Abandoned
<1>3. IsFiniteSet(DOMAIN job_runs)
  BY <1>1, FS_Interval
<1> QED BY <1>2, <1>3, FS_Subset

\* A row may be lost for a fault or for a doomed run, and a run doomed for a fault.
LEMMA CostKept ==
  ASSUME TypeOK, TypeOK', NEW j \in Jobs, Cost(j), NEW r, NEW p,
         \/ Abandoned(j)' \subseteq Abandoned(j) /\ Doomed(j)' \subseteq Doomed(j) /\ faults <= faults'
         \/ /\ Abandoned(j)' \subseteq Abandoned(j) \cup {r} /\ Doomed(j)' \subseteq Doomed(j)
            /\ faults' = faults + 1
         \/ /\ Abandoned(j)' \subseteq Abandoned(j) \cup {r}
            /\ p \in Doomed(j) /\ Doomed(j)' \subseteq Doomed(j) \ {p} /\ faults' = faults
         \/ /\ Abandoned(j)' \subseteq Abandoned(j) /\ Doomed(j)' \subseteq Doomed(j) \cup {p}
            /\ faults' = faults + 1
  PROVE  Cost(j)'
<1> DEFINE A == Abandoned(j)
           B == Abandoned(j)'
           D == Doomed(j)
           E == Doomed(j)'
<1>1. IsFiniteSet(A) /\ IsFiniteSet(D)
  BY AbandonedFinite DEF Cost
<1>2. faults \in Nat /\ faults' \in Nat /\ Cardinality(A) + Cardinality(D) <= faults
  BY JobRunnerAssumption DEF TypeOK, Cost
<1> HIDE DEF A, B, D, E
<1>3. Cardinality(A) \in Nat /\ Cardinality(D) \in Nat
  BY <1>1, FS_CardinalityType
<1>4. ASSUME NEW S, IsFiniteSet(S), NEW T, T \subseteq S
      PROVE  IsFiniteSet(T) /\ Cardinality(T) \in Nat /\ Cardinality(T) <= Cardinality(S)
  BY <1>4, FS_Subset, FS_CardinalityType
<1>5. ASSUME NEW S, IsFiniteSet(S), NEW x
      PROVE  IsFiniteSet(S \cup {x}) /\ Cardinality(S \cup {x}) <= Cardinality(S) + 1
  <2>1. Cardinality(S) \in Nat
    BY <1>5, FS_CardinalityType
  <2>2. /\ IsFiniteSet(S \cup {x})
        /\ Cardinality(S \cup {x}) = IF x \in S THEN Cardinality(S) ELSE Cardinality(S) + 1
    BY <1>5, FS_AddElement, Zenon
  <2> QED BY <2>1, <2>2
<1>6. IsFiniteSet(E) /\ Cardinality(B) + Cardinality(E) <= faults'
  <2>1. CASE B \subseteq A /\ E \subseteq D /\ faults <= faults'
    BY <1>1, <1>2, <1>3, <1>4, <2>1
  <2>2. CASE B \subseteq A \cup {r} /\ E \subseteq D /\ faults' = faults + 1
    <3>1. IsFiniteSet(A \cup {r}) /\ Cardinality(A \cup {r}) <= Cardinality(A) + 1
      BY <1>1, <1>5
    <3>2. Cardinality(B) \in Nat /\ Cardinality(B) <= Cardinality(A \cup {r}) /\ Cardinality(A \cup {r}) \in Nat
      BY <1>4, <2>2, <3>1, FS_CardinalityType
    <3>3. IsFiniteSet(E) /\ Cardinality(E) \in Nat /\ Cardinality(E) <= Cardinality(D)
      BY <1>1, <1>4, <2>2
    <3> QED BY <1>2, <1>3, <2>2, <3>1, <3>2, <3>3
  <2>3. CASE B \subseteq A \cup {r} /\ p \in D /\ E \subseteq D \ {p} /\ faults' = faults
    <3>1. IsFiniteSet(A \cup {r}) /\ Cardinality(A \cup {r}) <= Cardinality(A) + 1
      BY <1>1, <1>5
    <3>2. Cardinality(B) \in Nat /\ Cardinality(B) <= Cardinality(A \cup {r}) /\ Cardinality(A \cup {r}) \in Nat
      BY <1>4, <2>3, <3>1, FS_CardinalityType
    <3>3. IsFiniteSet(D \ {p}) /\ Cardinality(D \ {p}) = Cardinality(D) - 1
      BY <1>1, <2>3, FS_RemoveElement
    <3>4. IsFiniteSet(E) /\ Cardinality(E) \in Nat /\ Cardinality(E) <= Cardinality(D \ {p})
      BY <1>4, <2>3, <3>3
    <3> QED BY <1>2, <1>3, <2>3, <3>1, <3>2, <3>3, <3>4
  <2>4. CASE B \subseteq A /\ E \subseteq D \cup {p} /\ faults' = faults + 1
    <3>1. IsFiniteSet(D \cup {p}) /\ Cardinality(D \cup {p}) <= Cardinality(D) + 1
      BY <1>1, <1>5
    <3>2. /\ IsFiniteSet(E) /\ Cardinality(E) \in Nat /\ Cardinality(E) <= Cardinality(D \cup {p})
          /\ Cardinality(D \cup {p}) \in Nat
      BY <1>4, <2>4, <3>1, FS_CardinalityType
    <3>3. Cardinality(B) \in Nat /\ Cardinality(B) <= Cardinality(A)
      BY <1>1, <1>4, <2>4
    <3> QED BY <1>2, <1>3, <2>4, <3>1, <3>2, <3>3
  <2> QED BY <2>1, <2>2, <2>3, <2>4 DEF A, B, D, E
<1> QED BY <1>6 DEF Cost, B, E

\* A step of one goroutine that loses no row: what it fills in it goes on filling in,
\* or has filled in.
LEMMA NothingLost ==
  ASSUME TypeOK, TypeOK', FaultInv, NEW p \in Procs, NEW j \in Jobs, NEW x \in Locals,
         GoTo(p, j, x), UNCHANGED proc, faults <= faults',
         proc[p] = "stopping" /\ x.pc \in InRun => runner[p][j].pc \in InRun,
         x.pc = "completing" => x.at # NoTime,
         proc[p] = "down" => x.pc = "stopped",
         \A r \in DOMAIN job_runs' : job_runs'[r].completed_at = NoTime =>
           \/ Refers(x, r) /\ job_runs'[r].job = j
           \/ /\ r \in DOMAIN job_runs /\ job_runs[r].completed_at = NoTime
              /\ job_runs'[r].job = job_runs[r].job
              /\ ~Refers(runner[p][j], r)
           \/ /\ r \in DOMAIN job_runs /\ job_runs[r].completed_at = NoTime
              /\ job_runs'[r].job = job_runs[r].job /\ job_runs[r].job # j
  PROVE  FaultInv'
<1>1. /\ runner'[p][j] = x
      /\ \A q \in Procs, k \in Jobs : (q # p \/ k # j) => runner'[q][k] = runner[q][k]
  BY GoToLocals
<1>2. ASSUME NEW k \in Jobs PROVE Cost(k)'
  <2>1. Doomed(k)' \subseteq Doomed(k)
    BY <1>1 DEF Doomed
  <2>2. Abandoned(k)' \subseteq Abandoned(k)
    BY <1>1 DEF Abandoned, Refers
  <2> QED BY <2>1, <2>2, CostKept DEF FaultInv
<1>3. \A q \in Procs, k \in Jobs :
        /\ proc'[q] = "down" => runner'[q][k].pc = "stopped"
        /\ runner'[q][k].pc = "completing" => runner'[q][k].at # NoTime
  BY <1>1 DEF FaultInv
<1> QED BY <1>2, <1>3 DEF FaultInv

\* A step by which one goroutine gives its run up: one row stays open, which is a fault
\* or what the cancelled context has been charged for.
LEMMA OneLost ==
  ASSUME TypeOK, TypeOK', FaultInv, NEW p \in Procs, NEW j \in Jobs, GoTo(p, j, Idle),
         UNCHANGED proc, Fault(p), runner[p][j].pc \in InRun, NEW n,
         \A r \in DOMAIN job_runs' : r # n =>
           /\ r \in DOMAIN job_runs /\ job_runs'[r] = job_runs[r]
           /\ ~Refers(runner[p][j], r),
         n \in DOMAIN job_runs' => job_runs'[n].job = j \/
           (n \in DOMAIN job_runs /\ job_runs'[n] = job_runs[n])
  PROVE  FaultInv'
<1>1. /\ runner'[p][j] = Idle /\ Idle.pc = "idle"
      /\ \A q \in Procs, k \in Jobs : (q # p \/ k # j) => runner'[q][k] = runner[q][k]
  BY GoToLocals, LocalsType
<1>2. proc[p] # "down"
  BY DEF FaultInv, InRun
<1>3. faults \in Nat
  BY JobRunnerAssumption DEF TypeOK
<1>4. ASSUME NEW k \in Jobs PROVE Cost(k)'
  <2>1. CASE k = j
    <3>1. Abandoned(k)' \subseteq Abandoned(k) \cup {n}
      BY <1>1, <2>1 DEF Abandoned, Refers
    <3>2. Doomed(k)' \subseteq Doomed(k) \ {p}
      BY <1>1, <2>1 DEF Doomed, InRun
    <3>3. CASE proc[p] = "stopping"
      <4>1. p \in Doomed(k) /\ faults' = faults
        BY <2>1, <3>3 DEF Doomed, Fault
      <4> QED BY <3>1, <3>2, <4>1, CostKept DEF FaultInv
    <3>4. CASE proc[p] # "stopping"
      <4>1. faults' = faults + 1
        BY <3>4 DEF Fault
      <4> QED BY <3>1, <3>2, <4>1, CostKept DEF FaultInv
    <3> QED BY <3>3, <3>4
  <2>2. CASE k # j
    <3>1. Abandoned(k)' \subseteq Abandoned(k) /\ Doomed(k)' \subseteq Doomed(k)
      BY <1>1, <2>2 DEF Abandoned, Doomed
    <3>2. faults <= faults'
      BY <1>3 DEF Fault
    <3> QED BY <3>1, <3>2, CostKept DEF FaultInv
  <2> QED BY <2>1, <2>2
<1>5. \A q \in Procs, k \in Jobs :
        /\ proc'[q] = "down" => runner'[q][k].pc = "stopped"
        /\ runner'[q][k].pc = "completing" => runner'[q][k].at # NoTime
  BY <1>1, <1>2 DEF FaultInv
<1> QED BY <1>4, <1>5 DEF FaultInv

LEMMA FaultGrows ==
  ASSUME TypeOK, NEW p \in Procs
  PROVE  /\ Fault(p) => faults <= faults'
         /\ UNCHANGED faults => faults <= faults'
BY JobRunnerAssumption DEF TypeOK, Fault

\* The steps of one goroutine.
LEMMA RunnerStepFaults ==
  ASSUME TypeOK, TypeOK', FaultInv, NEW p \in Procs, NEW j \in Jobs,
         Tick(p, j) \/ Returns(p, j) \/ RunnerReturns(p, j)
  PROVE  FaultInv'
<1> DEFINE x == runner[p][j]
<1>0. /\ x \in Locals /\ clock \in Nat /\ MaxDelay \in Nat /\ MaxSkew \in Nat /\ RunMax[j] \in Nat
      /\ Skew[p] \in Int /\ -MaxSkew <= Skew[p]
      /\ DOMAIN job_runs = 1 .. Len(job_runs) /\ Len(job_runs) \in Nat
  BY ConstantTypes DEF TypeOK
<1>n. Now(p) \in Int /\ Now(p) # NoTime
  BY <1>0 DEF Now, NoTime
<1>d. proc[p] = "down" => x.pc = "stopped"
  BY DEF FaultInv
<1>1. CASE Tick(p, j)
  <2> DEFINE y == Local("claiming", clock + MaxDelay, Now(p), 0)
  <2>1. y \in Locals /\ y.pc = "claiming"
    BY <1>0, <1>n DEF Local, Locals, Busy
  <2>2. GoTo(p, j, y) /\ UNCHANGED <<proc, job_runs, faults>> /\ x.pc = "idle"
    BY <1>1 DEF Tick, At
  <2> HIDE DEF y
  <2> QED BY <1>d, <2>1, <2>2, FaultGrows, NothingLost DEF Refers, InRun
<1>2. CASE ClaimGranted(p, j)
  <2> DEFINE y == Local("creating", clock + MaxDelay, Now(p), 0)
  <2>1. y \in Locals /\ y.pc = "creating"
    BY <1>0, <1>n DEF Local, Locals, Busy
  <2>2. GoTo(p, j, y) /\ UNCHANGED <<proc, job_runs, faults>> /\ x.pc = "claiming" /\ proc[p] = "up"
    BY <1>2 DEF ClaimGranted, Claim, At
  <2> HIDE DEF y
  <2> QED BY <2>1, <2>2, FaultGrows, NothingLost DEF Refers, InRun
<1>3. CASE ClaimWasted(p, j) \/ ClaimRefused(p, j) \/ ClaimFails(p, j)
  <2>1. GoTo(p, j, Idle) /\ UNCHANGED <<proc, job_runs>> /\ x.pc = "claiming" /\ faults <= faults'
    BY <1>3, FaultGrows DEF ClaimWasted, ClaimRefused, ClaimFails, Claim, At
  <2> QED BY <1>d, <2>1, LocalsType, NothingLost DEF Refers, InRun
<1>4. CASE CreateJobRun(p, j)
  <2> DEFINE y == Local("running", clock + RunMax[j], 0, Len(job_runs) + 1)
             n == Len(job_runs) + 1
  <2>1. y \in Locals /\ y.pc = "running" /\ y.run = n
    BY <1>0 DEF Local, Locals, Busy
  <2>2. GoTo(p, j, y) /\ UNCHANGED <<proc, faults>> /\ x.pc = "creating"
    BY <1>4 DEF CreateJobRun, At
  <2>3. /\ DOMAIN job_runs' = 1 .. n /\ job_runs'[n].job = j
        /\ \A r \in 1 .. Len(job_runs) : job_runs'[r] = job_runs[r]
    BY <1>0, <1>4 DEF CreateJobRun, NewRow, Row, TypeOK
  <2>4. \A r \in DOMAIN job_runs' : r = n \/ r \in DOMAIN job_runs
    BY <1>0, <2>3
  <2> HIDE DEF y, n
  <2> QED BY <1>0, <1>d, <2>1, <2>2, <2>3, <2>4, FaultGrows, NothingLost DEF Refers, InRun
<1>5. CASE CreateFails(p, j)
  <2> DEFINE n == Len(job_runs) + 1
  <2>1. GoTo(p, j, Idle) /\ UNCHANGED proc /\ x.pc = "creating" /\ Fault(p)
    BY <1>5 DEF CreateFails, At
  <2>2. /\ \A r \in DOMAIN job_runs' : r # n => r \in DOMAIN job_runs /\ job_runs'[r] = job_runs[r]
        /\ n \in DOMAIN job_runs' => job_runs'[n].job = j
    <3>1. CASE job_runs' = job_runs
      BY <1>0, <3>1
    <3>2. CASE job_runs' = Append(job_runs, NewRow(p, j))
      <4>1. /\ DOMAIN job_runs' = 1 .. n /\ job_runs'[n] = NewRow(p, j)
            /\ \A r \in 1 .. Len(job_runs) : job_runs'[r] = job_runs[r]
        BY <1>0, <3>2 DEF TypeOK
      <4> QED BY <1>0, <4>1 DEF NewRow, Row
    <3> QED BY <1>5, <3>1, <3>2 DEF CreateFails
  <2> HIDE DEF n
  <2> QED BY <2>1, <2>2, OneLost DEF Refers, InRun
<1>6. CASE RunReturns(p, j)
  <2> DEFINE y == Local("completing", clock + MaxDelay, Now(p), x.run)
  <2>1. y \in Locals /\ y.pc = "completing" /\ y.at = Now(p) /\ y.run = x.run
    BY <1>0, <1>n DEF Local, Locals, Busy
  <2>2. GoTo(p, j, y) /\ UNCHANGED <<proc, job_runs, faults>> /\ x.pc = "running" /\ proc[p] = "up"
    BY <1>6 DEF RunReturns, At
  <2>3. \A r \in DOMAIN job_runs : Refers(x, r) => Refers(y, r)
    BY <2>1 DEF Refers
  <2> HIDE DEF y
  <2> QED BY <1>n, <2>1, <2>2, <2>3, FaultGrows, NothingLost DEF Refers, InRun
<1>7. CASE RunCancelled(p, j)
  <2>1. /\ GoTo(p, j, Idle) /\ UNCHANGED <<proc, job_runs, faults>> /\ x.pc = "running"
        /\ proc[p] = "stopping"
    BY <1>7 DEF RunCancelled, At
  <2> QED BY <2>1, OneLost DEF Refers, InRun, Fault
<1>8. CASE CompleteFails(p, j)
  <2>1. /\ GoTo(p, j, Idle) /\ UNCHANGED <<proc, job_runs>> /\ x.pc = "completing" /\ Fault(p)
    BY <1>8 DEF CompleteFails, At
  <2> QED BY <2>1, OneLost DEF Refers, InRun
<1>9. CASE CompleteJobRun(p, j)
  <2>1. /\ GoTo(p, j, Idle) /\ UNCHANGED <<proc, faults>> /\ x.pc = "completing"
        /\ x.run \in DOMAIN job_runs /\ x.at # NoTime
    BY <1>9 DEF CompleteJobRun, At, TypeOK, FaultInv
  <2>2. /\ DOMAIN job_runs' = DOMAIN job_runs /\ job_runs'[x.run].completed_at = x.at
        /\ \A r \in DOMAIN job_runs : r # x.run => job_runs'[r] = job_runs[r]
    BY <1>9, <2>1 DEF CompleteJobRun, Row, TypeOK
  <2> QED BY <1>d, <2>1, <2>2, FaultGrows, LocalsType, NothingLost DEF Refers, InRun
<1>10. CASE RunnerReturns(p, j)
  <2>1. GoTo(p, j, Stopped) /\ UNCHANGED <<proc, job_runs, faults>> /\ x.pc = "idle"
    BY <1>10 DEF RunnerReturns, At
  <2> QED BY <2>1, FaultGrows, LocalsType, NothingLost DEF Refers, InRun
<1> QED
  BY <1>1, <1>2, <1>3, <1>4, <1>5, <1>6, <1>7, <1>8, <1>9, <1>10 DEF Returns

\* The steps of a process as a whole.
LEMMA ProcessStepFaults ==
  ASSUME TypeOK, TypeOK', FaultInv, NEW p \in Procs, Cancel(p) \/ Exit(p) \/ Restart(p)
  PROVE  FaultInv'
<1>0. faults \in Nat /\ proc \in [Procs -> {"up", "stopping", "down"}]
  BY JobRunnerAssumption DEF TypeOK
<1>1. CASE Cancel(p)
  <2>1. /\ UNCHANGED <<job_runs, runner>> /\ faults' = faults + 1
        /\ proc[p] = "up" /\ proc'[p] = "stopping" /\ \A q \in Procs : q # p => proc'[q] = proc[q]
    BY <1>0, <1>1 DEF Cancel, Fault
  <2>2. ASSUME NEW k \in Jobs PROVE Cost(k)'
    <3>1. Abandoned(k)' \subseteq Abandoned(k) /\ Doomed(k)' \subseteq Doomed(k) \cup {p}
      BY <2>1 DEF Abandoned, Doomed
    <3> QED BY <2>1, <3>1, CostKept DEF FaultInv
  <2>3. \A q \in Procs, k \in Jobs :
          /\ proc'[q] = "down" => runner'[q][k].pc = "stopped"
          /\ runner'[q][k].pc = "completing" => runner'[q][k].at # NoTime
    BY <2>1 DEF FaultInv
  <2> QED BY <2>2, <2>3 DEF FaultInv
<1>2. CASE Exit(p)
  <2>1. /\ UNCHANGED job_runs /\ Fault(p) /\ proc[p] # "down" /\ proc'[p] = "down"
        /\ \A q \in Procs : q # p => proc'[q] = proc[q] /\ runner'[q] = runner[q]
        /\ \A k \in Jobs : runner'[p][k] = Stopped
    BY <1>0, <1>2 DEF Exit, TypeOK
  <2>2. Stopped.pc = "stopped"
    BY LocalsType
  <2>3. ASSUME NEW k \in Jobs PROVE Cost(k)'
    <3>1. Doomed(k)' \subseteq Doomed(k) \ {p}
      BY <2>1 DEF Doomed
    <3>2. Abandoned(k)' \subseteq Abandoned(k) \cup {runner[p][k].run}
      BY <2>1 DEF Abandoned
    <3>3. CASE proc[p] # "stopping"
      <4>1. faults' = faults + 1
        BY <2>1, <3>3 DEF Fault
      <4> QED BY <3>1, <3>2, <4>1, CostKept DEF FaultInv
    <3>4. CASE proc[p] = "stopping" /\ runner[p][k].pc \in InRun
      <4>1. faults' = faults /\ p \in Doomed(k)
        BY <2>1, <3>4 DEF Fault, Doomed
      <4> QED BY <3>1, <3>2, <4>1, CostKept DEF FaultInv
    <3>5. CASE proc[p] = "stopping" /\ runner[p][k].pc \notin InRun
      <4>1. faults' = faults
        BY <2>1, <3>5 DEF Fault
      <4>2. Abandoned(k)' \subseteq Abandoned(k)
        BY <2>1, <3>5 DEF Abandoned, InRun
      <4>3. Doomed(k)' \subseteq Doomed(k) /\ faults <= faults' /\ Cost(k)
        BY <1>0, <3>1, <4>1 DEF FaultInv
      <4> QED BY <4>2, <4>3, CostKept
    <3> QED BY <3>3, <3>4, <3>5
  <2>4. \A q \in Procs, k \in Jobs :
          /\ proc'[q] = "down" => runner'[q][k].pc = "stopped"
          /\ runner'[q][k].pc = "completing" => runner'[q][k].at # NoTime
    BY <2>1, <2>2 DEF FaultInv
  <2> QED BY <2>3, <2>4 DEF FaultInv
<1>3. CASE Restart(p)
  <2>1. /\ UNCHANGED <<job_runs, faults>> /\ proc[p] = "down" /\ proc'[p] = "up"
        /\ \A q \in Procs : q # p => proc'[q] = proc[q] /\ runner'[q] = runner[q]
        /\ \A k \in Jobs : runner'[p][k] = Idle
    BY <1>0, <1>3 DEF Restart, TypeOK
  <2>2. Idle.pc = "idle"
    BY LocalsType
  <2>3. ASSUME NEW k \in Jobs PROVE Cost(k)'
    <3>1. runner[p][k].pc = "stopped"
      BY <2>1 DEF FaultInv
    <3>2. Abandoned(k)' \subseteq Abandoned(k) /\ Doomed(k)' \subseteq Doomed(k)
      BY <2>1, <3>1 DEF Abandoned, Doomed
    <3> QED BY <1>0, <2>1, <3>2, CostKept DEF FaultInv
  <2>4. \A q \in Procs, k \in Jobs :
          /\ proc'[q] = "down" => runner'[q][k].pc = "stopped"
          /\ runner'[q][k].pc = "completing" => runner'[q][k].at # NoTime
    BY <2>1, <2>2 DEF FaultInv
  <2> QED BY <2>3, <2>4 DEF FaultInv
<1> QED BY <1>1, <1>2, <1>3

LEMMA FaultNext == TypeOK /\ FaultInv /\ [Next]_vars => FaultInv'
<1> SUFFICES ASSUME TypeOK, FaultInv, [Next]_vars PROVE FaultInv'
  OBVIOUS
<1>0. TypeOK'
  BY NextType
<1>1. CASE UNCHANGED <<job_runs, proc, runner, faults>>
  BY <1>1 DEF FaultInv, Cost, Doomed, Abandoned
<1>2. TimePasses \/ UNCHANGED vars \/ (\E p \in Procs, j \in Jobs : Dispatch(p, j))
        => UNCHANGED <<job_runs, proc, runner, faults>>
  BY DEF TimePasses, Dispatch, vars
<1> QED BY <1>0, <1>1, <1>2, RunnerStepFaults, ProcessStepFaults DEF Next

LEMMA FaultInit == Init => FaultInv
<1> SUFFICES ASSUME Init PROVE FaultInv
  OBVIOUS
<1>1. \A p \in Procs, j \in Jobs : runner[p][j].pc = "idle" /\ proc[p] = "up"
  BY LocalsType DEF Init
<1>2. ASSUME NEW j \in Jobs PROVE Abandoned(j) = {} /\ Doomed(j) = {}
  <2>1. DOMAIN job_runs = {}
    BY DEF Init
  <2> QED BY <1>1, <2>1 DEF Abandoned, Doomed
<1>3. faults = 0
  BY DEF Init
<1> QED BY <1>1, <1>2, <1>3, FS_EmptySet DEF FaultInv, Cost

\* A run that no fault hits is recorded, and in its own row: for any processes, jobs
\* and times, one lost statement, crash or cancelled context leaves at most one row of
\* each job open.
THEOREM OpenRowsAreFaults == Spec => []AbandonedRowsAreFaults
<1>1. TypeOK /\ FaultInv => AbandonedRowsAreFaults
  <2> SUFFICES ASSUME TypeOK, FaultInv, NEW j \in Jobs
               PROVE  Cardinality(Abandoned(j)) <= faults
    BY DEF AbandonedRowsAreFaults
  <2>1. Cardinality(Abandoned(j)) \in Nat
    BY AbandonedFinite, FS_CardinalityType
  <2>2. IsFiniteSet(Doomed(j)) /\ Cardinality(Abandoned(j)) + Cardinality(Doomed(j)) <= faults
    BY DEF FaultInv, Cost
  <2>3. Cardinality(Doomed(j)) \in Nat /\ faults \in Nat
    BY <2>2, FS_CardinalityType, JobRunnerAssumption DEF TypeOK
  <2> QED BY <2>1, <2>2, <2>3
<1> QED BY <1>1, InitType, NextType, FaultInit, FaultNext, PTL DEF Spec

-----------------------------------------------------------------------------
(***************************************************************************)
(* Migrate.                                                                *)
(*                                                                         *)
(* MigrateInv is inductive.  Its heart is LockInv: one process at a time   *)
(* is past the lock, so that what it read of `versions' stays true.  The   *)
(* steps of one process are therefore looked at with all others outside.   *)
(***************************************************************************)
\* At most one process is past the lock.
LEMMA Alone ==
  ASSUME LockInv, NEW p \in Starters, pc[p] \in Holding,
         NEW q \in Starters, pc[q] \in Holding
  PROVE  p = q
  BY DEF LockInv

LEMMA InvInit == MigrateInit => MigrateInv
<1>1. ASSUME MigrateInit PROVE MigrateTypeOK
  BY <1>1, MigrateAssumption DEF MigrateInit, MigrateTypeOK
<1>2. ASSUME MigrateInit PROVE LockInv /\ LoopInv /\ AppliedOnce /\ ServesOnFullSchema /\ FailsForItself
  BY <1>2 DEF MigrateInit, LockInv, LoopInv, AppliedOnce, ServesOnFullSchema, FailsForItself, AtStage, Holding
<1> QED BY <1>1, <1>2 DEF MigrateInv

\* The steps that leave the tables alone and keep what the loop knows.
LEMMA StartStep ==
  ASSUME MigrateInv, NEW p \in Starters, Start(p) PROVE MigrateInv'
<1> USE DEF MigrateInv
<1>1. MigrateTypeOK' BY DEF Start, MigrateTypeOK, schema, ToStage
<1>2. LockInv' BY DEF Start, MigrateTypeOK, LockInv, ToStage, Holding
<1>3. LoopInv' BY DEF Start, MigrateTypeOK, LoopInv, schema, ToStage, AtStage, First
<1>4. AppliedOnce' /\ ServesOnFullSchema' /\ FailsForItself'
  BY DEF Start, MigrateTypeOK, AppliedOnce, ServesOnFullSchema, FailsForItself, schema, ToStage, AtStage
<1> QED BY <1>1, <1>2, <1>3, <1>4

LEMMA TakeLockStep ==
  ASSUME MigrateInv, NEW p \in Starters, TakeLock(p) PROVE MigrateInv'
<1> USE DEF MigrateInv
<1>1. MigrateTypeOK' BY DEF TakeLock, MigrateTypeOK, schema, ToStage, Holding
<1>2. LockInv' BY MigrateAssumption DEF TakeLock, MigrateTypeOK, LockInv, ToStage, Holding
<1>3. LoopInv' BY DEF TakeLock, MigrateTypeOK, LoopInv, schema, ToStage, AtStage, First
<1>4. AppliedOnce' /\ ServesOnFullSchema' /\ FailsForItself'
  BY DEF TakeLock, MigrateTypeOK, AppliedOnce, ServesOnFullSchema, FailsForItself, schema, ToStage, AtStage
<1> QED BY <1>1, <1>2, <1>3, <1>4

LEMMA ReadVersionsStep ==
  ASSUME MigrateInv, NEW p \in Starters, ReadVersions(p) PROVE MigrateInv'
<1> USE DEF MigrateInv
<1>1. MigrateTypeOK' BY MigrateAssumption DEF ReadVersions, MigrateTypeOK, schema, ToStage, Holding
<1>2. LockInv' BY DEF ReadVersions, MigrateTypeOK, LockInv, ToStage, AtStage, Holding
<1>3. LoopInv' BY DEF ReadVersions, MigrateTypeOK, LoopInv, schema, ToStage, AtStage, First
<1>4. AppliedOnce' /\ ServesOnFullSchema' /\ FailsForItself'
  BY DEF ReadVersions, MigrateTypeOK, AppliedOnce, ServesOnFullSchema, FailsForItself, schema, ToStage, AtStage
<1> QED BY <1>1, <1>2, <1>3, <1>4

LEMMA ExecStep ==
  ASSUME MigrateInv, NEW p \in Starters, Exec(p) PROVE MigrateInv'
<1> USE DEF MigrateInv
<1>0. PICK v \in todo[p] : First(v, todo[p]) /\ cur' = [cur EXCEPT ![p] = v]
  BY DEF Exec
<1>1. MigrateTypeOK' BY <1>0 DEF Exec, MigrateTypeOK, schema, ToStage, Holding
<1>2. LockInv' BY DEF Exec, MigrateTypeOK, LockInv, ToStage, AtStage, Holding
<1>3. LoopInv' BY <1>0 DEF Exec, MigrateTypeOK, LoopInv, schema, ToStage, AtStage, First
<1>4. AppliedOnce' /\ ServesOnFullSchema' /\ FailsForItself'
  BY DEF Exec, MigrateTypeOK, AppliedOnce, ServesOnFullSchema, FailsForItself, schema, ToStage, AtStage
<1> QED BY <1>1, <1>2, <1>3, <1>4

LEMMA RecordStep ==
  ASSUME MigrateInv, NEW p \in Starters, Record(p) PROVE MigrateInv'
<1> USE DEF MigrateInv
<1>1. MigrateTypeOK' BY DEF Record, MigrateTypeOK, schema, ToStage, Holding
<1>2. LockInv' BY DEF Record, MigrateTypeOK, LockInv, ToStage, AtStage, Holding
<1>3. LoopInv' BY DEF Record, MigrateTypeOK, LoopInv, schema, ToStage, AtStage, First
<1>4. AppliedOnce' /\ ServesOnFullSchema' /\ FailsForItself'
  BY DEF Record, MigrateTypeOK, AppliedOnce, ServesOnFullSchema, FailsForItself, schema, ToStage, AtStage
<1> QED BY <1>1, <1>2, <1>3, <1>4

\* A transaction of the only process past the lock keeps the tables in step.
LEMMA EffectStep ==
  ASSUME MigrateInv, NEW p \in Starters, AtStage(p, "committing"), TakesEffect(p)
  PROVE  /\ cur[p] \in todo[p] /\ cur[p] \in Versions /\ cur[p] \notin versions
         /\ versions' \subseteq Versions /\ effects' \in [Versions -> Nat]
         /\ versions \subseteq versions'
         /\ AppliedOnce'
<1> USE DEF MigrateInv
<1>1. cur[p] \in todo[p] /\ todo[p] = Files[p] \ versions
  BY DEF LoopInv, First, AtStage
<1>2. cur[p] \in Versions /\ cur[p] \notin versions
  BY <1>1, MigrateAssumption
<1>3. effects[cur[p]] = 0
  BY <1>2 DEF AppliedOnce
<1>4. AppliedOnce'
  BY <1>2, <1>3 DEF AppliedOnce, TakesEffect, MigrateTypeOK
<1> QED BY <1>1, <1>2, <1>4 DEF TakesEffect, MigrateTypeOK

LEMMA CommitStep ==
  ASSUME MigrateInv, NEW p \in Starters, Commit(p) PROVE MigrateInv'
<1> USE DEF MigrateInv
<1>0. AtStage(p, "committing") /\ TakesEffect(p) BY DEF Commit
<1>1. MigrateTypeOK' BY <1>0, EffectStep DEF Commit, MigrateTypeOK, ToStage, Holding
<1>2. LockInv' BY DEF Commit, MigrateTypeOK, LockInv, ToStage, AtStage, Holding
<1>3. LoopInv'
  <2> SUFFICES ASSUME NEW q \in Starters
      PROVE /\ pc'[q] \in {"looping", "inserting", "committing", "ending"} =>
                 todo'[q] = Files[q] \ versions'
            /\ pc'[q] \in {"inserting", "committing"} => First(cur'[q], todo'[q])
            /\ pc'[q] = "ending" => todo'[q] = {}
    BY DEF LoopInv, AtStage, First
  <2>1. CASE q = p
    BY <2>1, <1>0 DEF Commit, MigrateTypeOK, LoopInv, ToStage, AtStage, TakesEffect
  <2>2. CASE q # p
    <3>1. pc[q] \notin Holding BY <2>2, <1>0, Alone DEF AtStage, Holding
    <3> QED BY <3>1, <2>2 DEF Commit, MigrateTypeOK, ToStage, Holding
  <2> QED BY <2>1, <2>2
<1>4. AppliedOnce' BY <1>0, EffectStep
<1>5. ServesOnFullSchema' /\ FailsForItself'
  BY <1>0, EffectStep DEF Commit, MigrateTypeOK, ServesOnFullSchema, FailsForItself, ToStage, AtStage
<1> QED BY <1>1, <1>2, <1>3, <1>4, <1>5

LEMMA LoopEndsStep ==
  ASSUME MigrateInv, NEW p \in Starters, LoopEnds(p) PROVE MigrateInv'
<1> USE DEF MigrateInv
<1>1. MigrateTypeOK' BY DEF LoopEnds, MigrateTypeOK, schema, ToStage, Holding
<1>2. LockInv' BY DEF LoopEnds, MigrateTypeOK, LockInv, ToStage, AtStage, Holding
<1>3. LoopInv' BY DEF LoopEnds, MigrateTypeOK, LoopInv, schema, ToStage, AtStage, First
<1>4. AppliedOnce' /\ ServesOnFullSchema' /\ FailsForItself'
  BY DEF LoopEnds, MigrateTypeOK, AppliedOnce, ServesOnFullSchema, FailsForItself, schema, ToStage, AtStage
<1> QED BY <1>1, <1>2, <1>3, <1>4

LEMMA CommitFailsStep ==
  ASSUME MigrateInv, NEW p \in Starters, CommitFails(p) PROVE MigrateInv'
<1> USE DEF MigrateInv
<1>0. AtStage(p, "committing") /\ (TakesEffect(p) \/ UNCHANGED schema) BY DEF CommitFails
<1>a. /\ versions' \subseteq Versions /\ effects' \in [Versions -> Nat]
      /\ versions \subseteq versions' /\ AppliedOnce'
  <2>1. CASE TakesEffect(p) BY <2>1, <1>0, EffectStep
  <2>2. CASE UNCHANGED schema BY <2>2 DEF schema, MigrateTypeOK, AppliedOnce
  <2> QED BY <2>1, <2>2, <1>0
<1>1. MigrateTypeOK' BY <1>a DEF CommitFails, MigrateTypeOK, ToStage, Holding
<1>2. LockInv' BY DEF CommitFails, MigrateTypeOK, LockInv, ToStage, AtStage, Holding
<1>3. LoopInv'
  <2> SUFFICES ASSUME NEW q \in Starters
      PROVE pc'[q] \notin {"looping", "inserting", "committing", "ending"}
    BY DEF LoopInv, AtStage
  <2>1. CASE q = p BY <2>1 DEF CommitFails, MigrateTypeOK, ToStage
  <2>2. CASE q # p
    <3>1. pc[q] \notin Holding BY <2>2, <1>0, Alone DEF AtStage, Holding
    <3> QED BY <3>1, <2>2 DEF CommitFails, MigrateTypeOK, ToStage, Holding
  <2> QED BY <2>1, <2>2
<1>4. ServesOnFullSchema' /\ FailsForItself'
  BY <1>a DEF CommitFails, MigrateTypeOK, ServesOnFullSchema, FailsForItself, ToStage, AtStage
<1> QED BY <1>a, <1>1, <1>2, <1>3, <1>4

\* Nothing in the database stands in the way of the process that has the lock.
LEMMA NoConflict ==
  ASSUME MigrateInv, NEW p \in Starters PROVE ~Conflicting(p)
<1> USE DEF MigrateInv
<1>1. ASSUME AtStage(p, "looping"), NEW v \in todo[p] PROVE ~(effects[v] > 0)
  <2>1. v \in Versions /\ v \notin versions
    BY <1>1, MigrateAssumption DEF LoopInv, AtStage
  <2> QED BY <2>1 DEF AppliedOnce
<1>2. ASSUME AtStage(p, "inserting") PROVE cur[p] \notin versions
  BY <1>2 DEF LoopInv, First, AtStage
<1> QED BY <1>1, <1>2 DEF Conflicting

LEMMA StatementFailsStep ==
  ASSUME MigrateInv, NEW p \in Starters, StatementFails(p) PROVE MigrateInv'
<1> USE DEF MigrateInv
<1>0. hit' = [hit EXCEPT ![p] = TRUE]
  BY NoConflict DEF StatementFails, MigrateTypeOK
<1>1. MigrateTypeOK' BY <1>0 DEF StatementFails, MigrateTypeOK, schema, ToStage, Holding
<1>2. LockInv' BY DEF StatementFails, MigrateTypeOK, LockInv, ToStage, AtStage, Holding
<1>3. LoopInv' BY DEF StatementFails, MigrateTypeOK, LoopInv, schema, ToStage, AtStage, First
<1>4. AppliedOnce' BY DEF StatementFails, AppliedOnce, schema
<1>5. ServesOnFullSchema' BY DEF StatementFails, MigrateTypeOK, ServesOnFullSchema, schema, ToStage, AtStage
<1>6. FailsForItself' BY <1>0 DEF StatementFails, MigrateTypeOK, FailsForItself, ToStage, AtStage
<1> QED BY <1>1, <1>2, <1>3, <1>4, <1>5, <1>6

LEMMA UnlockStep ==
  ASSUME MigrateInv, NEW p \in Starters, Unlock(p) PROVE MigrateInv'
<1> USE DEF MigrateInv
<1>0. pc[p] \in {"ending", "failing"} BY DEF Unlock
<1>1. MigrateTypeOK' BY DEF Unlock, MigrateTypeOK, schema, ToStage, AtStage
<1>2. LockInv'
  <2> SUFFICES ASSUME NEW q \in Starters PROVE pc'[q] \notin Holding
    BY DEF LockInv
  <2>1. CASE q = p BY <2>1 DEF Unlock, MigrateTypeOK, ToStage, Holding
  <2>2. CASE q # p
    <3>1. pc[q] \notin Holding BY <2>2, <1>0, Alone DEF Holding
    <3> QED BY <3>1, <2>2 DEF Unlock, MigrateTypeOK, ToStage
  <2> QED BY <2>1, <2>2
<1>3. LoopInv' BY DEF Unlock, MigrateTypeOK, LoopInv, schema, ToStage, AtStage, First
<1>4. AppliedOnce' BY DEF Unlock, AppliedOnce, schema
<1>5. ServesOnFullSchema'
  <2>1. AtStage(p, "ending") => Files[p] \subseteq versions
    BY DEF LoopInv, AtStage
  <2> QED BY <2>1, <1>0 DEF Unlock, MigrateTypeOK, ServesOnFullSchema, schema, ToStage, AtStage
<1>6. FailsForItself' BY <1>0 DEF Unlock, MigrateTypeOK, FailsForItself, ToStage, AtStage
<1> QED BY <1>1, <1>2, <1>3, <1>4, <1>5, <1>6

LEMMA CrashStep ==
  ASSUME MigrateInv, NEW p \in Starters, Crash(p) PROVE MigrateInv'
<1> USE DEF MigrateInv
<1>1. MigrateTypeOK' BY DEF Crash, MigrateTypeOK, schema, ToStage, AtStage
<1>2. LockInv' BY DEF Crash, MigrateTypeOK, LockInv, ToStage, AtStage, Holding
<1>3. LoopInv' BY DEF Crash, MigrateTypeOK, LoopInv, schema, ToStage, AtStage, First
<1>4. AppliedOnce' /\ ServesOnFullSchema' /\ FailsForItself'
  BY DEF Crash, MigrateTypeOK, AppliedOnce, ServesOnFullSchema, FailsForItself, schema, ToStage, AtStage
<1> QED BY <1>1, <1>2, <1>3, <1>4

LEMMA StutterStep == ASSUME MigrateInv, UNCHANGED mvars PROVE MigrateInv'
  BY DEF MigrateInv, mvars, MigrateTypeOK, LockInv, LoopInv, AppliedOnce, ServesOnFullSchema,
         FailsForItself, AtStage, First

LEMMA InvNext == ASSUME MigrateInv, [MigrateNext]_mvars PROVE MigrateInv'
<1>1. ASSUME NEW p \in Starters, Step(p) PROVE MigrateInv'
  BY <1>1, ReadVersionsStep, ExecStep, RecordStep, CommitStep, LoopEndsStep,
     CommitFailsStep, UnlockStep DEF Step
<1>2. ASSUME NEW p \in Starters, Start(p) \/ TakeLock(p) \/ StatementFails(p) \/ Crash(p)
      PROVE MigrateInv'
  BY <1>2, StartStep, TakeLockStep, StatementFailsStep, CrashStep
<1> QED BY <1>1, <1>2, StutterStep DEF MigrateNext

\* The invariant, and with it type correctness, holds in every behaviour.
THEOREM MigrateInvariant == MigrateSpec => []MigrateInv
<1>1. MigrateInit => MigrateInv BY InvInit
<1>2. MigrateInv /\ [MigrateNext]_mvars => MigrateInv' BY InvNext
<1> QED BY <1>1, <1>2, PTL DEF MigrateSpec

\* A migration that is recorded has taken effect exactly once, and no other has:
\* the transaction around both statements in migrate.Run is enough for this.
THEOREM MigrationsApplyOnce == MigrateSpec => []AppliedOnce
<1>1. MigrateInv => AppliedOnce BY DEF MigrateInv
<1> QED BY <1>1, MigrateInvariant, PTL

\* A server that serves has every migration its binary knows.
THEOREM SchemaIsComplete == MigrateSpec => []ServesOnFullSchema
<1>1. MigrateInv => ServesOnFullSchema BY DEF MigrateInv
<1> QED BY <1>1, MigrateInvariant, PTL

\* No process fails because another one migrates at the same time.
THEOREM NoFailureByOthers == MigrateSpec => []FailsForItself
<1>1. MigrateInv => FailsForItself BY DEF MigrateInv
<1> QED BY <1>1, MigrateInvariant, PTL

-----------------------------------------------------------------------------
\* A transaction records the first version its process has and the table has
\* not; since releases extend each other nothing before it is missing.
LEMMA OrderStep ==
  ASSUME ReleasesExtend, MigrateInv, InOrder, [MigrateNext]_mvars PROVE InOrder'
<1> USE DEF MigrateInv
<1>1. ASSUME NEW p \in Starters, AtStage(p, "committing"), TakesEffect(p) PROVE InOrder'
  <2>1. /\ cur[p] \in Files[p] /\ cur[p] \in Versions
        /\ \A w \in Files[p] : w \in versions \/ cur[p] <= w
    BY <1>1, EffectStep DEF LoopInv, First, AtStage
  <2>2. ASSUME NEW w \in Versions, w < cur[p] PROVE w \in versions
    <3>1. w \in Files[p] BY <2>1, <2>2 DEF ReleasesExtend
    <3>2. w \in Nat /\ cur[p] \in Nat BY <2>1, MigrateAssumption
    <3>3. ~(cur[p] <= w) BY <2>2, <3>2
    <3> QED BY <3>1, <3>3, <2>1
  <2> QED BY <1>1, <2>1, <2>2 DEF InOrder, TakesEffect
<1>2. CASE UNCHANGED versions BY <1>2 DEF InOrder
<1>3. ASSUME NEW p \in Starters, Commit(p) \/ CommitFails(p) PROVE InOrder'
  BY <1>1, <1>2, <1>3 DEF Commit, CommitFails, schema
<1>4. ASSUME NEW p \in Starters,
             \/ Start(p) \/ TakeLock(p) \/ ReadVersions(p) \/ Exec(p) \/ Record(p)
             \/ LoopEnds(p) \/ StatementFails(p) \/ Unlock(p) \/ Crash(p)
      PROVE UNCHANGED versions
  BY <1>4 DEF Start, TakeLock, ReadVersions, Exec, Record, LoopEnds, StatementFails,
     Unlock, Crash, schema
<1> QED BY <1>2, <1>3, <1>4 DEF MigrateNext, Step, mvars

\* Migrations take effect in the order of their names, when every release has
\* the migrations of those before it and adds its own at the end.
THEOREM MigrationsInOrder == ASSUME ReleasesExtend PROVE MigrateSpec => []InOrder
<1>1. MigrateInit => InOrder BY DEF MigrateInit, InOrder
<1>2. MigrateInv /\ InOrder /\ [MigrateNext]_mvars => InOrder' BY OrderStep
<1> QED BY <1>1, <1>2, MigrateInvariant, PTL DEF MigrateSpec

=============================================================================
