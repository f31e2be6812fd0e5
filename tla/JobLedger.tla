------------------------------ MODULE JobLedger ------------------------------
(***************************************************************************)
(* What the durable job queue promises, without clocks, leases, workers or *)
(* transactions: POKA_YOKE.md JOB-001 .. JOB-004.                           *)
(*                                                                         *)
(* A unit of work is enqueued once, is leased a bounded number of times,   *)
(* and ends SUCCEEDED or DEAD.  A lease is identified by its number alone. *)
(* Only the lease that is current may record a result, so the results of a *)
(* unit of work are recorded in the order of its leases, and never after   *)
(* the unit has ended.                                                     *)
(*                                                                         *)
(* JobQueue implements this module; ScopeSync is built on top of it.       *)
(***************************************************************************)
EXTENDS Naturals

CONSTANTS
    Jobs,           \* identities of units of work
    MaxAttempts     \* retry budget of a unit of work (job.max_attempts)

VARIABLES
    status,         \* [Jobs -> state of the unit of work]
    attempts,       \* [Jobs -> leases handed out so far]
    results         \* [Jobs -> lease numbers under which a result committed]

ledgerVars == <<status, attempts, results>>

Terminal == {"SUCCEEDED", "DEAD"}
Live     == {"PENDING", "RUNNING"}
Statuses == {"ABSENT"} \cup Live \cup Terminal

\* Lease n of job j is the one that may write.
Current(j, n) == status[j] = "RUNNING" /\ attempts[j] = n

Init ==
    /\ status   = [j \in Jobs |-> "ABSENT"]
    /\ attempts = [j \in Jobs |-> 0]
    /\ results  = [j \in Jobs |-> {}]

Enqueue(j) ==
    /\ status[j] = "ABSENT"
    /\ status' = [status EXCEPT ![j] = "PENDING"]
    /\ UNCHANGED <<attempts, results>>

Lease(j) ==
    /\ status[j] = "PENDING"
    /\ attempts[j] < MaxAttempts
    /\ status'   = [status EXCEPT ![j] = "RUNNING"]
    /\ attempts' = [attempts EXCEPT ![j] = @ + 1]
    /\ UNCHANGED results

\* The current lease commits a result (possibly one of several).
Record(j) ==
    /\ status[j] = "RUNNING"
    /\ results' = [results EXCEPT ![j] = @ \cup {attempts[j]}]
    /\ UNCHANGED <<status, attempts>>

Finish(j) ==
    /\ status[j] = "RUNNING"
    /\ status' = [status EXCEPT ![j] = "SUCCEEDED"]
    /\ UNCHANGED <<attempts, results>>

\* Where a unit of work goes when lease number n ends without success.
AfterLoss(n) == IF n < MaxAttempts THEN "PENDING" ELSE "DEAD"

\* Leases end without success one by one, or several in one step.
Release(S) ==
    /\ S # {}
    /\ \A j \in S : status[j] = "RUNNING"
    /\ status' = [j \in Jobs |-> IF j \in S THEN AfterLoss(attempts[j])
                                            ELSE status[j]]
    /\ UNCHANGED <<attempts, results>>

Next ==
    \/ \E j \in Jobs : Enqueue(j) \/ Lease(j) \/ Record(j) \/ Finish(j)
    \/ \E S \in SUBSET Jobs : Release(S)

Spec == Init /\ [][Next]_ledgerVars
=============================================================================
