----------------------------- MODULE JobLifecycle -----------------------------
(***************************************************************************)
(* What the job queue promises to those who enqueue a job, without Redis,  *)
(* goroutines or time: a job is taken by one runner at a time, a failed    *)
(* run is repeated until MAX_RETRIES runs have failed, a success is final. *)
(* The five states are those of JobStatus in                               *)
(* internal/scraper/queues/job.go, and "absent" before the job exists.     *)
(***************************************************************************)
EXTENDS Naturals

CONSTANTS Jobs, MAX_RETRIES

VARIABLES status, failures

vars == <<status, failures>>

States == {"absent", "ready", "inflight", "done", "dead"}

TypeOK == /\ status \in [Jobs -> States]
          /\ failures \in [Jobs -> 0..MAX_RETRIES]

Init == /\ status = [j \in Jobs |-> "absent"]
        /\ failures = [j \in Jobs |-> 0]

Submit(j) == /\ status[j] = "absent"
             /\ status' = [status EXCEPT ![j] = "ready"]
             /\ UNCHANGED failures

Start(j) == /\ status[j] = "ready"
            /\ status' = [status EXCEPT ![j] = "inflight"]
            /\ UNCHANGED failures

(* A success ends the count of failures.                                   *)
Succeed(j) == /\ status[j] = "inflight"
              /\ status' = [status EXCEPT ![j] = "done"]
              /\ failures' = [failures EXCEPT ![j] = 0]

Fail(j) == /\ status[j] = "inflight"
           /\ failures[j] < MAX_RETRIES
           /\ failures' = [failures EXCEPT ![j] = @ + 1]
           /\ status' = [status EXCEPT ![j] =
                           IF failures[j] + 1 = MAX_RETRIES THEN "dead" ELSE "ready"]

Next == \E j \in Jobs : Submit(j) \/ Start(j) \/ Succeed(j) \/ Fail(j)

Spec == Init /\ [][Next]_vars
=============================================================================
