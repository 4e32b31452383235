------------------------------- MODULE Retries -------------------------------
(***************************************************************************)
(* A queue as its jobs see it: how many copies of each job wait, told      *)
(* apart by their RetryCount, and the failed list.  JobQueue has the       *)
(* priority lists, the retry set and the keys behind it; a copy that waits *)
(* in a list or in the retry set is here a copy that waits.                *)
(***************************************************************************)
EXTENDS Integers, FiniteSets

CONSTANT MAX_RETRIES   \* queues.MAX_RETRIES

ASSUME RetryAssumption == MAX_RETRIES \in Nat \ {0}

(* The RetryCount of a copy that waits or is run.                          *)
Attempts == 0 .. MAX_RETRIES - 1

NoCopy == [n \in Attempts |-> 0]

HasCopy(queue, job) == \E n \in Attempts : queue[job][n] > 0

(* Enqueue of k new jobs, among the copies of one.                         *)
WithNew(copies, k) == [copies EXCEPT ![0] = @ + k]

(* BLPOP of one copy.                                                      *)
Taken(queue, job, n) == [queue EXCEPT ![job][n] = @ - 1]

(* One copy more with each of these RetryCounts.  One that has come to     *)
(* MAX_RETRIES does not wait: CompleteJob puts it into the failed list,    *)
(* which nothing ever reads.                                               *)
PutBackNever(queue, job, counts) == queue

PutBack(queue, job, counts) ==
  [queue EXCEPT ![job] =
     [n \in Attempts |-> IF n \in counts THEN queue[job][n] + 1 ELSE queue[job][n]]]

WithFailedNever(list, job, counts) == list

WithFailed(list, job, counts) == IF MAX_RETRIES \in counts THEN list \union {job} ELSE list

(* The same for several runs at once: each of them brings back a copy of   *)
(* its job with a RetryCount one higher.                                   *)
AllPutBack(queue, runs, jobOf, countOf) ==
  [job \in DOMAIN queue |-> [n \in Attempts |->
     queue[job][n] + Cardinality({r \in runs : jobOf[r] = job /\ countOf[r] + 1 = n})]]

AllFailed(list, runs, jobOf, countOf) ==
  list \union {jobOf[r] : r \in {x \in runs : countOf[x] + 1 = MAX_RETRIES}}
=============================================================================
