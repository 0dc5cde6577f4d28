------------------------------ MODULE JobLease -------------------------------
(***************************************************************************)
(* What the runners of all booksmk servers promise together about a job:   *)
(* at most one process holds the right to run it, and two grants of that   *)
(* right are at least MinGap apart.  The right may be granted to nobody    *)
(* (the claim of a process that never learns of it), and its holder may    *)
(* leave at any moment, several jobs at once when it is a process that     *)
(* ends.                                                                   *)
(***************************************************************************)
EXTENDS Integers

CONSTANTS Procs, Jobs, MinGap

VARIABLES
  now,     \* time
  holder,  \* the processes that hold the right to run a job
  last     \* when that right was granted last

leaseVars == <<now, holder, last>>

LeaseInit ==
  /\ now = 0
  /\ holder = [j \in Jobs |-> {}]
  /\ last \in [Jobs -> Int]
  /\ \A j \in Jobs : now - last[j] >= MinGap[j]

Granted(j) ==
  /\ holder[j] = {}
  /\ now - last[j] >= MinGap[j]
  /\ last' = [last EXCEPT ![j] = now]
  /\ UNCHANGED now

Grant(p, j) == Granted(j) /\ holder' = [holder EXCEPT ![j] = {p}]

Waste(j) == Granted(j) /\ UNCHANGED holder

Leave(p) ==
  /\ \E S \in SUBSET Jobs :
       holder' = [j \in Jobs |-> IF j \in S THEN holder[j] \ {p} ELSE holder[j]]
  /\ UNCHANGED <<now, last>>

Wait == now' = now + 1 /\ UNCHANGED <<holder, last>>

LeaseNext ==
  \/ Wait
  \/ \E p \in Procs : Leave(p)
  \/ \E j \in Jobs : Waste(j) \/ \E p \in Procs : Grant(p, j)

LeaseSpec == LeaseInit /\ [][LeaseNext]_leaseVars

=============================================================================
