------------------------------- MODULE Migrate -------------------------------
(***************************************************************************)
(* migrate.Run: every server and every booksmkctl brings the schema up to  *)
(* date when it starts, several of them at the same time, of different     *)
(* releases, and any of them may crash.  A session lock of the database    *)
(* (pg_advisory_lock) serialises them; each migration and the record of it *)
(* are one transaction.                                                    *)
(*                                                                         *)
(* A version is the place of its file in the sorted order of names.        *)
(* `effects' counts how often a migration's SQL has been committed.        *)
(***************************************************************************)
EXTENDS Integers, FiniteSets

CONSTANTS
  Starters, \* processes that start
  Versions, \* places of all migrations there are
  Files,    \* the migrations compiled into the binary of a process
  Nobody

ASSUME MigrateAssumption ==
  /\ Versions \subseteq Nat /\ IsFiniteSet(Versions)
  /\ Files \in [Starters -> SUBSET Versions]
  /\ Nobody \notin Starters

\* A release contains every migration of the ones before it, and adds its own
\* at the end.  Only the order of application needs this.
ReleasesExtend ==
  \A p \in Starters : \A v \in Files[p] : \A w \in Versions : w < v => w \in Files[p]

VARIABLES
  versions, \* the rows of schema_migrations
  effects,  \* how often the SQL of a version has taken effect
  lock,     \* the session that holds the advisory lock
  pc,       \* where a process is in Run
  todo,     \* files the loop of a process has not dealt with
  cur,      \* the version of the open transaction
  hit       \* history: a statement of the process has failed since it started

schema == <<versions, effects>>
mvars  == <<versions, effects, lock, pc, todo, cur, hit>>

-----------------------------------------------------------------------------
AtStage(p, where) == pc[p] = where
ToStage(p, where) == pc' = [pc EXCEPT ![p] = where]

Holding == {"locked", "looping", "inserting", "committing", "ending", "failing"}

MigrateInit ==
  /\ versions = {}
  /\ effects = [v \in Versions |-> 0]
  /\ lock = Nobody
  /\ pc = [p \in Starters |-> "down"]
  /\ todo = [p \in Starters |-> {}]
  /\ cur = [p \in Starters |-> 0]
  /\ hit = [p \in Starters |-> FALSE]

\* A process starts, for the first time or again, and asks for the lock.
Start(p) ==
  /\ pc[p] \in {"down", "failed", "done"}
  /\ ToStage(p, "waiting")
  /\ hit' = [hit EXCEPT ![p] = FALSE]
  /\ UNCHANGED <<schema, lock, todo, cur>>

\* Faulty variant of TakeLock: it does not wait.
TakeLockAnyway(p) ==
  /\ AtStage(p, "waiting")
  /\ lock' = p
  /\ ToStage(p, "locked")
  /\ UNCHANGED <<schema, todo, cur, hit>>

\* pg_advisory_lock returns.
TakeLock(p) ==
  /\ AtStage(p, "waiting")
  /\ lock = Nobody
  /\ lock' = p
  /\ ToStage(p, "locked")
  /\ UNCHANGED <<schema, todo, cur, hit>>

\* The table is created unless it exists, the recorded versions are read, and
\* the files among them are skipped.
ReadVersions(p) ==
  /\ AtStage(p, "locked")
  /\ todo' = [todo EXCEPT ![p] = Files[p] \ versions]
  /\ ToStage(p, "looping")
  /\ UNCHANGED <<schema, lock, cur, hit>>

First(v, S) == v \in S /\ \A w \in S : v <= w

\* Faulty variants of Exec: without a transaction, and with the files unsorted.
ExecCommitted(p) ==
  /\ AtStage(p, "looping")
  /\ \E v \in todo[p] :
       /\ First(v, todo[p])
       /\ cur' = [cur EXCEPT ![p] = v]
       /\ effects' = [effects EXCEPT ![v] = @ + 1]
  /\ ToStage(p, "inserting")
  /\ UNCHANGED <<versions, lock, todo, hit>>

ExecUnsorted(p) ==
  /\ AtStage(p, "looping")
  /\ \E v \in todo[p] : cur' = [cur EXCEPT ![p] = v]
  /\ ToStage(p, "inserting")
  /\ UNCHANGED <<schema, lock, todo, hit>>

\* A transaction is begun for the next file and its SQL goes through.
Exec(p) ==
  /\ AtStage(p, "looping")
  /\ \E v \in todo[p] : First(v, todo[p]) /\ cur' = [cur EXCEPT ![p] = v]
  /\ ToStage(p, "inserting")
  /\ UNCHANGED <<schema, lock, todo, hit>>

\* The version is inserted, which its primary key allows once.
Record(p) ==
  /\ AtStage(p, "inserting")
  /\ cur[p] \notin versions
  /\ ToStage(p, "committing")
  /\ UNCHANGED <<schema, lock, todo, cur, hit>>

TakesEffect(p) ==
  /\ versions' = versions \cup {cur[p]}
  /\ effects' = [effects EXCEPT ![cur[p]] = @ + 1]

Commit(p) ==
  /\ AtStage(p, "committing")
  /\ TakesEffect(p)
  /\ todo' = [todo EXCEPT ![p] = @ \ {cur[p]}]
  /\ ToStage(p, "looping")
  /\ UNCHANGED <<lock, cur, hit>>

LoopEnds(p) ==
  /\ AtStage(p, "looping")
  /\ todo[p] = {}
  /\ ToStage(p, "ending")
  /\ UNCHANGED <<schema, lock, todo, cur, hit>>

\* What is in the database makes the next statement fail: the SQL was applied
\* before, or the version is recorded already.
Conflicting(p) ==
  \/ AtStage(p, "looping") /\ \E v \in todo[p] : First(v, todo[p]) /\ effects[v] > 0
  \/ AtStage(p, "inserting") /\ cur[p] \in versions

\* A statement fails: the connection, the disk, a mistake in the SQL, or because
\* of what others did.  An open transaction is rolled back and Run returns the
\* error.  (While it waits it has nothing to unlock.)
StatementFails(p) ==
  /\ pc[p] \in {"waiting", "locked", "looping", "inserting"}
  /\ \E own \in {TRUE} \cup {~Conflicting(p)} :
       hit' = [hit EXCEPT ![p] = @ \/ own]
  /\ ToStage(p, IF AtStage(p, "waiting") THEN "failed" ELSE "failing")
  /\ UNCHANGED <<schema, lock, todo, cur>>

\* Faulty variant of CommitFails: the loop goes on.
CommitIgnored(p) ==
  /\ AtStage(p, "committing")
  /\ TakesEffect(p) \/ UNCHANGED schema
  /\ hit' = [hit EXCEPT ![p] = TRUE]
  /\ todo' = [todo EXCEPT ![p] = @ \ {cur[p]}]
  /\ ToStage(p, "looping")
  /\ UNCHANGED <<lock, cur>>

\* Commit returns an error: the transaction took effect or it did not.
CommitFails(p) ==
  /\ AtStage(p, "committing")
  /\ TakesEffect(p) \/ UNCHANGED schema
  /\ hit' = [hit EXCEPT ![p] = TRUE]
  /\ ToStage(p, "failing")
  /\ UNCHANGED <<lock, todo, cur>>

\* Faulty variant of Unlock: only the way that succeeds unlocks.
UnlockAfterSuccess(p) ==
  /\ pc[p] \in {"ending", "failing"}
  /\ lock' = IF AtStage(p, "ending") THEN Nobody ELSE lock
  /\ ToStage(p, IF AtStage(p, "ending") THEN "done" ELSE "failed")
  /\ UNCHANGED <<schema, todo, cur, hit>>

\* The deferred pg_advisory_unlock, and Run returns.
Unlock(p) ==
  /\ pc[p] \in {"ending", "failing"}
  /\ lock' = Nobody
  /\ ToStage(p, IF AtStage(p, "ending") THEN "done" ELSE "failed")
  /\ UNCHANGED <<schema, todo, cur, hit>>

\* The process ends; its session, its transaction and its lock end with it.
Crash(p) ==
  /\ ~AtStage(p, "down")
  /\ ToStage(p, "down")
  /\ lock' = IF lock = p THEN Nobody ELSE lock
  /\ UNCHANGED <<schema, todo, cur, hit>>

\* What a process that has the lock does next.
Step(p) ==
  \/ ReadVersions(p) \/ Exec(p) \/ Record(p) \/ Commit(p) \/ LoopEnds(p)
  \/ CommitFails(p) \/ Unlock(p)

MigrateNext ==
  \E p \in Starters : Start(p) \/ TakeLock(p) \/ Step(p) \/ StatementFails(p) \/ Crash(p)

MigrateSpec == MigrateInit /\ [][MigrateNext]_mvars

\* Statements return, and the database serves those who wait for a lock in turn.
FairMigrateSpec ==
  MigrateSpec /\ \A p \in Starters : WF_mvars(Step(p)) /\ SF_mvars(TakeLock(p))

-----------------------------------------------------------------------------
MigrateTypeOK ==
  /\ versions \subseteq Versions
  /\ effects \in [Versions -> Nat]
  /\ lock \in Starters \cup {Nobody}
  /\ pc \in [Starters -> Holding \cup {"down", "waiting", "done", "failed"}]
  /\ todo \in [Starters -> SUBSET Versions]
  /\ cur \in [Starters -> Versions \cup {0}]
  /\ hit \in [Starters -> BOOLEAN]

\* Every migration that is recorded has taken effect exactly once and no other
\* has, whoever crashed or lost an answer in the middle.
AppliedOnce ==
  \A v \in Versions : effects[v] = IF v \in versions THEN 1 ELSE 0

\* Migrations take effect in the order of their names.
InOrder == \A v \in versions : \A w \in Versions : w < v => w \in versions

\* Run returns without an error only when all that the binary knows is applied:
\* no server serves on a schema that is behind it.
ServesOnFullSchema ==
  \A p \in Starters : AtStage(p, "done") => Files[p] \subseteq versions

\* Run fails only when a statement of its own was hit, never because another
\* process migrates at the same time.
FailsForItself == \A p \in Starters : pc[p] \in {"failing", "failed"} => hit[p]

\* A process that waits for the lock gets it or is gone, whatever becomes of the
\* processes before it.
WaitersProceed == \A p \in Starters : AtStage(p, "waiting") ~> ~AtStage(p, "waiting")

\* The inductive invariant: the lock keeps others out, so that what a process
\* has read of the versions stays true until it unlocks.
LockInv == \A p \in Starters : pc[p] \in Holding => lock = p

LoopInv ==
  \A p \in Starters :
    /\ pc[p] \in {"looping", "inserting", "committing", "ending"} =>
         todo[p] = Files[p] \ versions
    /\ pc[p] \in {"inserting", "committing"} => First(cur[p], todo[p])
    /\ AtStage(p, "ending") => todo[p] = {}

MigrateInv ==
  MigrateTypeOK /\ LockInv /\ LoopInv /\ AppliedOnce /\ ServesOnFullSchema /\ FailsForItself

=============================================================================
