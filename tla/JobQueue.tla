------------------------------- MODULE JobQueue -------------------------------
(***************************************************************************)
(* One namespace of the priority job queue and the worker that serves it:  *)
(* internal/scraper/queues/queue.go, job.go and                            *)
(* internal/scraper/worker/worker.go, run by cmd/scraper/main.go.          *)
(*                                                                         *)
(* A job lives in Redis as JSON text, so it is modelled as a VALUE (a      *)
(* Copy) that the queue moves between lists; nothing in the code prevents  *)
(* two copies of one job.  Every go-redis Pipeline is a list of commands   *)
(* sent together: it is one action, and a connection that breaks inside it *)
(* leaves a prefix of the commands done (the parameter k of the action).   *)
(* Left out: log lines, the stats counters, the error and duration texts,  *)
(* Job.Status (written, never read) and the 24 h life of a result (never   *)
(* read).  The due time of a retry is left open: any member of the retry   *)
(* set may be due at any time.                                             *)
(***************************************************************************)
EXTENDS Scoring, Sequences, FiniteSets, BagsExt, Bags

CONSTANTS
  Jobs,               \* the job IDs (uuid.NewString, never reused)
  Procs,              \* the goroutines of the worker: Start launches one per unit of concurrency
  MAX_RETRIES,        \* job.go: 5
  ProcessingTimeout,  \* queue.go: 5 minutes, in ticks
  TaskTimeout,        \* worker.go: 5 minutes, in ticks
  Scores,             \* base scores a submitted job may have
  Waits,              \* seconds a retried job may have waited
  MaxLag,             \* ticks that may pass between VisibilityStart and the pipeline after it
  Budgets,            \* how many faults, crashes, rate-limited runs, stops and reaps may happen
                      \* in a behaviour: the alternatives it may begin with
  Null

ASSUME MaxRetriesAssumption == MAX_RETRIES \in Nat \ {0}
ASSUME TimeoutAssumption == /\ ProcessingTimeout \in Nat \ {0}
                            /\ TaskTimeout \in Nat \ {0}
                            /\ MaxLag \in Nat
ASSUME InputAssumption == Scores \subseteq Int /\ Waits \subseteq Nat
EventCount == [fault : Nat, crash : Nat, rate : Nat, stop : Nat, reap : Nat]

ASSUME BudgetAssumption == Budgets \subseteq EventCount

(* What the JSON of a job keeps, as far as the queue acts on it.           *)
Copy == [id : Jobs, retries : 0..MAX_RETRIES, score : Int, prio : Priorities]

ASSUME NullAssumption ==
         /\ Null \notin Copy
         /\ Null \notin [copy : Copy, age : Nat, ttl : Nat]

VARIABLES
  ready,       \* [Priorities -> Seq(Copy)]: the four ready lists, head first
  retry,       \* a bag of copies: the retry sorted set
  failed,      \* the copies in the failed list
  processing,  \* [Jobs -> Nat]: how often the worker's processing list names a job
  procTTL,     \* ticks until that list expires, 0 when it has no expiry
  jobKey,      \* [Jobs -> Null or a record]: the key "job:<ID>"
  results,     \* [Jobs -> {"none", "ok", "failed"}]: the key "results:<ID>"
  pc,          \* where each goroutine is
  held,        \* the copy each goroutine works on
  timer,       \* ticks since VisibilityStart ("popped") or since the run began ("running")
  reaping,     \* the copy the reaper has read and is about to put back
  mode,        \* "up", "stopping" (after Stop) or "down"
  submitted,   \* history: the jobs enqueued so far
  touched,     \* history: what happened to each job that makes it a special case
  budget       \* bound: what is left of the budget chosen at the start

redisVars   == <<ready, retry, failed, processing, procTTL, jobKey, results>>
processVars == <<pc, held, timer, reaping, mode>>
historyVars == <<submitted, touched, budget>>
vars        == <<redisVars, processVars, historyVars>>

Stages == {"polling", "popped", "running", "requeue", "fail", "succeed", "exited"}
Events == {"rate", "reaped", "fault", "crash"}
KeyRecord == [copy : Copy, age : Nat, ttl : Nat]

TypeOK ==
  /\ ready \in [Priorities -> Seq(Copy)]
  /\ IsABag(retry) /\ DOMAIN retry \subseteq Copy
  /\ failed \subseteq Copy
  /\ processing \in [Jobs -> Nat]
  /\ procTTL \in Nat
  /\ jobKey \in [Jobs -> KeyRecord \union {Null}]
  /\ results \in [Jobs -> {"none", "ok", "failed"}]
  /\ pc \in [Procs -> Stages]
  /\ held \in [Procs -> Copy \union {Null}]
  /\ timer \in [Procs -> Nat]
  /\ reaping \in Copy \union {Null}
  /\ mode \in {"up", "stopping", "down"}
  /\ submitted \subseteq Jobs
  /\ touched \in [Jobs -> SUBSET Events]
  /\ budget \in EventCount

Init ==
  /\ ready = [p \in Priorities |-> <<>>]
  /\ retry = EmptyBag
  /\ failed = {}
  /\ processing = [j \in Jobs |-> 0]
  /\ procTTL = 0
  /\ jobKey = [j \in Jobs |-> Null]
  /\ results = [j \in Jobs |-> "none"]
  /\ pc = [w \in Procs |-> "polling"]
  /\ held = [w \in Procs |-> Null]
  /\ timer = [w \in Procs |-> 0]
  /\ reaping = Null
  /\ mode = "up"
  /\ submitted = {}
  /\ touched = [j \in Jobs |-> {}]
  /\ budget \in Budgets

-----------------------------------------------------------------------------
(* Copies and the values the code writes back.                             *)

NewCopy(id, score) ==
  [id |-> id, retries |-> 0, score |-> score, prio |-> ScoreToPriority(score)]

(* ProcessRetryJobs: aging is added to the base score for good.            *)
AgedStalePriority(c, waited) == [c EXCEPT !.score = ApplyAging(@, waited)]

Aged(c, waited) ==
  LET score == ApplyAging(c.score, waited)
  IN  [c EXCEPT !.score = score, !.prio = ScoreToPriority(score)]

IsDeadOffByOne(c) == c.retries > MAX_RETRIES

IsDead(c) == c.retries >= MAX_RETRIES

(* CompleteJob after a failure: one more retry and, unless it was the last *)
(* one, the penalty and the priority of the lower score.                   *)
AfterFailureBonus(c) ==
  LET score == c.score + 10 * (c.retries + 1)
  IN  [c EXCEPT !.retries = @ + 1, !.score = score, !.prio = ScoreToPriority(score)]

AfterFailure(c) ==
  LET n == c.retries + 1
      score == Penalize(c.score, n)
  IN  IF n >= MAX_RETRIES
      THEN [c EXCEPT !.retries = n]
      ELSE [c EXCEPT !.retries = n, !.score = score, !.prio = ScoreToPriority(score)]

FailedWithOffByOne(c) == IF c.retries > MAX_RETRIES THEN failed \union {c} ELSE failed

FailedWith(c) == IF IsDead(c) THEN failed \union {c} ELSE failed

RetryWith(c) == IF IsDead(c) THEN retry ELSE BagAdd(retry, c)

RetryAfterMoveKept(c) == retry

RetryAfterMove(c) == BagRemove(retry, c)

Pushed(c) == [ready EXCEPT ![c.prio] = Append(@, c)]

(* BLPOP takes the head of the first list that is not empty.               *)
FirstNonEmptyOrLow(p) ==
  /\ ready[p] # <<>>
  /\ p = "low" \/ \A q \in Priorities : Rank[q] < Rank[p] => ready[q] = <<>>

FirstNonEmptyOfThree(p) ==
  /\ p # "low" /\ ready[p] # <<>>
  /\ \A q \in Priorities : Rank[q] < Rank[p] => ready[q] = <<>>

FirstNonEmpty(p) ==
  /\ ready[p] # <<>>
  /\ \A q \in Priorities : Rank[q] < Rank[p] => ready[q] = <<>>

AllEmpty == \A p \in Priorities : ready[p] = <<>>

(* LREM key 1 id: one occurrence, and a list left empty is a deleted key,  *)
(* whose expiry goes with it.                                              *)
WithoutOneUnchecked(list, id) == [list EXCEPT ![id] = @ - 1]

WithoutOne(list, id) == [list EXCEPT ![id] = IF @ > 0 THEN @ - 1 ELSE 0]

TTLOf(list, ttl) == IF \A j \in Jobs : list[j] = 0 THEN 0 ELSE ttl

(* EXPIRE key ProcessingTimeout, whatever expiry the list had.             *)
RenewedTTLIfUnset == IF procTTL > 0 THEN procTTL ELSE ProcessingTimeout

RenewedTTL == ProcessingTimeout

NoEntries == [j \in Jobs |-> 0]

(* A goroutine back at the top of processTasks looks at ctx.Done first.    *)
LoopTopReturning == "exited"

LoopTop == IF mode = "up" THEN "polling" ELSE "exited"

Touch(ids, event) ==
  [j \in Jobs |-> IF j \in ids THEN touched[j] \union {event} ELSE touched[j]]

(* A pipeline that stops before its last command uses up one fault.        *)
Cut(isCut, id) ==
  \/ ~isCut /\ UNCHANGED <<touched, budget>>
  \/ /\ isCut
     /\ budget.fault > 0
     /\ budget' = [budget EXCEPT !.fault = @ - 1]
     /\ touched' = Touch({id}, "fault")

Finish(w) ==
  /\ pc' = [pc EXCEPT ![w] = LoopTop]
  /\ held' = [held EXCEPT ![w] = Null]
  /\ timer' = [timer EXCEPT ![w] = 0]

-----------------------------------------------------------------------------
(* Enqueue, called with a job that was never enqueued before (every caller *)
(* calls it on a fresh NewJob, so LastEnqueuedAt is zero).                 *)
Enqueue(id, score) ==
  /\ mode # "down"
  /\ id \notin submitted
  /\ submitted' = submitted \union {id}
  /\ ready' = Pushed(NewCopy(id, score))
  /\ UNCHANGED <<retry, failed, processing, procTTL, jobKey, results,
                 processVars, touched, budget>>

(* Dequeue, first part: BLPOP, then VisibilityStart = now.  It waits on    *)
(* context.Background, so Stop does not interrupt it.                      *)
Pop(w) ==
  /\ mode # "down"
  /\ pc[w] = "polling"
  /\ \E p \in Priorities :
       /\ FirstNonEmpty(p)
       /\ ready' = [ready EXCEPT ![p] = Tail(@)]
       /\ held' = [held EXCEPT ![w] = Head(ready[p])]
  /\ pc' = [pc EXCEPT ![w] = "popped"]
  /\ timer' = [timer EXCEPT ![w] = 0]
  /\ UNCHANGED <<retry, failed, processing, procTTL, jobKey, results,
                 reaping, mode, historyVars>>

(* The same when the reply of BLPOP is lost: the element is gone from the  *)
(* list, Dequeue returns an error and the goroutine goes on.               *)
PopLost(w) ==
  /\ mode # "down"
  /\ pc[w] = "polling"
  /\ \E p \in Priorities :
       /\ FirstNonEmpty(p)
       /\ ready' = [ready EXCEPT ![p] = Tail(@)]
       /\ Cut(TRUE, Head(ready[p]).id)
  /\ Finish(w)
  /\ UNCHANGED <<retry, failed, processing, procTTL, jobKey, results,
                 reaping, mode, submitted>>

(* Dequeue, second part: SET job:ID, LPUSH, EXPIRE.  An error is logged    *)
(* and the job is run all the same.                                        *)
Register(w, k) ==
  LET c == held[w] IN
  /\ pc[w] = "popped"
  /\ Cut(k < 3, c.id)
  /\ jobKey' = IF k >= 1
               THEN [jobKey EXCEPT ![c.id] =
                       [copy |-> c, age |-> timer[w], ttl |-> ProcessingTimeout]]
               ELSE jobKey
  /\ processing' = IF k >= 2 THEN [processing EXCEPT ![c.id] = @ + 1] ELSE processing
  /\ procTTL' = IF k >= 3 THEN RenewedTTL ELSE procTTL
  /\ pc' = [pc EXCEPT ![w] = "running"]
  /\ timer' = [timer EXCEPT ![w] = 0]
  /\ UNCHANGED <<ready, retry, failed, results, held, reaping, mode, submitted>>

-----------------------------------------------------------------------------
(* processTask: the select takes the task's own result ...                 *)
ExecDone(w, outcome) ==
  /\ pc[w] = "running"
  /\ \/ outcome = "ok"    /\ pc' = [pc EXCEPT ![w] = "succeed"]
                          /\ UNCHANGED <<budget, touched>>
     \/ outcome = "error" /\ pc' = [pc EXCEPT ![w] = "fail"]
                          /\ UNCHANGED <<budget, touched>>
     \/ outcome = "rate"  /\ pc' = [pc EXCEPT ![w] = "requeue"]
                          /\ budget.rate > 0
                          /\ budget' = [budget EXCEPT !.rate = @ - 1]
                          /\ touched' = Touch({held[w].id}, "rate")
  /\ timer' = [timer EXCEPT ![w] = 0]
  /\ UNCHANGED <<redisVars, held, reaping, mode, submitted>>

(* ... or the end of its context: TaskTimeout has passed, or Stop has      *)
(* cancelled the parent context.                                           *)
ExecTimeout(w) ==
  /\ pc[w] = "running"
  /\ timer[w] >= TaskTimeout \/ mode = "stopping"
  /\ pc' = [pc EXCEPT ![w] = "fail"]
  /\ timer' = [timer EXCEPT ![w] = 0]
  /\ UNCHANGED <<redisVars, held, reaping, mode, historyVars>>

(* completeTask for a rate-limited job: RequeueWithDelay adds the job to   *)
(* the retry set as it is, and completeTask still calls CompleteJob with   *)
(* Success = FALSE.  A failing ZADD is only logged.                        *)
Requeue(w, added) ==
  /\ pc[w] = "requeue"
  /\ Cut(~added, held[w].id)
  /\ retry' = IF added THEN BagAdd(retry, held[w]) ELSE retry
  /\ pc' = [pc EXCEPT ![w] = "fail"]
  /\ UNCHANGED <<ready, failed, processing, procTTL, jobKey, results, held,
                 timer, reaping, mode, submitted>>

(* The commands every CompleteJob starts with: LREM, DEL, SET results.     *)
UntrackSkippingDel(id, k, result) ==
  /\ processing' = IF k >= 1 THEN WithoutOne(processing, id) ELSE processing
  /\ procTTL' = TTLOf(processing', procTTL)
  /\ jobKey' = jobKey
  /\ results' = IF k >= 3 THEN [results EXCEPT ![id] = result] ELSE results

UntrackSkippingLRem(id, k, result) ==
  /\ processing' = processing
  /\ procTTL' = procTTL
  /\ jobKey' = IF k >= 2 THEN [jobKey EXCEPT ![id] = Null] ELSE jobKey
  /\ results' = IF k >= 3 THEN [results EXCEPT ![id] = result] ELSE results

Untrack(id, k, result) ==
  /\ processing' = IF k >= 1 THEN WithoutOne(processing, id) ELSE processing
  /\ procTTL' = TTLOf(processing', procTTL)
  /\ jobKey' = IF k >= 2 THEN [jobKey EXCEPT ![id] = Null] ELSE jobKey
  /\ results' = IF k >= 3 THEN [results EXCEPT ![id] = result] ELSE results

CompleteSuccess(w, k) ==
  /\ pc[w] = "succeed"
  /\ Cut(k < 3, held[w].id)
  /\ Untrack(held[w].id, k, "ok")
  /\ Finish(w)
  /\ UNCHANGED <<ready, retry, failed, reaping, mode, submitted>>

(* The fourth command: LPUSH to the failed list, or ZADD to the retry set. *)
CompleteFailure(w, k) ==
  LET c == AfterFailure(held[w]) IN
  /\ pc[w] = "fail"
  /\ Cut(k < 4, held[w].id)
  /\ Untrack(held[w].id, k, "failed")
  /\ failed' = IF k >= 4 THEN FailedWith(c) ELSE failed
  /\ retry' = IF k >= 4 THEN RetryWith(c) ELSE retry
  /\ Finish(w)
  /\ UNCHANGED <<ready, reaping, mode, submitted>>

-----------------------------------------------------------------------------
(* ProcessRetryJobs, for one due member: RPUSH the aged job, then ZREM.    *)
(* The retry set is read once per sweep, by the one goroutine that ever    *)
(* removes from it, so a sweep is a series of these steps.                 *)
MoveRetry(c, waited, removed) ==
  /\ mode # "down"
  /\ Cut(~removed, c.id)
  /\ ready' = Pushed(Aged(c, waited))
  /\ retry' = IF removed THEN RetryAfterMove(c) ELSE retry
  /\ UNCHANGED <<failed, processing, procTTL, jobKey, results, processVars,
                 submitted>>

(* ReapStaleProcessingJobs, for one ID of the worker's own processing      *)
(* list: the GET and the tests after it ...  A sweep under way when Stop   *)
(* is called runs to its end.                                              *)
IsStaleTooEarly(key) == key # Null /\ key.age + 1 >= ProcessingTimeout

IsStale(key) == key # Null /\ key.age >= ProcessingTimeout

ReapScan(id) ==
  /\ mode # "down"
  /\ reaping = Null
  /\ processing[id] > 0
  /\ IsStale(jobKey[id])
  /\ reaping' = jobKey[id].copy
  /\ budget.reap > 0
  /\ budget' = [budget EXCEPT !.reap = @ - 1]
  /\ UNCHANGED <<redisVars, pc, held, timer, mode, submitted, touched>>

(* ... and the pipeline, later: LREM, DEL, RPUSH to the list of the        *)
(* priority the job was read with.                                         *)
ReapRequeue(k) ==
  LET id == reaping.id IN
  /\ mode # "down"
  /\ reaping # Null
  /\ \/ k = 3 /\ touched' = Touch({id}, "reaped") /\ UNCHANGED budget
     \/ k < 3 /\ Cut(TRUE, id)
  /\ processing' = IF k >= 1 THEN WithoutOne(processing, id) ELSE processing
  /\ procTTL' = TTLOf(processing', procTTL)
  /\ jobKey' = IF k >= 2 THEN [jobKey EXCEPT ![id] = Null] ELSE jobKey
  /\ ready' = IF k >= 3 THEN Pushed(reaping) ELSE ready
  /\ reaping' = Null
  /\ UNCHANGED <<retry, failed, results, pc, held, timer, mode, submitted>>

-----------------------------------------------------------------------------
(* Time.  Redis expires keys whether or not the process is up.  Ages and   *)
(* run times stop growing where no test tells further values apart.        *)
KeyAfterTick(key) ==
  IF key = Null \/ key.ttl <= 1 THEN Null
  ELSE [key EXCEPT !.age = IF @ < ProcessingTimeout THEN @ + 1 ELSE @,
                   !.ttl = @ - 1]

TimerAfterTick(w) ==
  IF pc[w] = "popped" \/ (pc[w] = "running" /\ timer[w] < TaskTimeout)
  THEN timer[w] + 1 ELSE timer[w]

Tick ==
  /\ \A w \in Procs : pc[w] = "popped" => timer[w] < MaxLag
  /\ timer' = [w \in Procs |-> TimerAfterTick(w)]
  /\ jobKey' = [j \in Jobs |-> KeyAfterTick(jobKey[j])]
  /\ procTTL' = IF procTTL > 0 THEN procTTL - 1 ELSE 0
  /\ processing' = IF procTTL = 1 THEN NoEntries ELSE processing
  /\ UNCHANGED <<ready, retry, failed, results, pc, held, reaping, mode,
                 historyVars>>

-----------------------------------------------------------------------------
(* SIGTERM: main calls Stop, which cancels the context and waits.          *)
Stop ==
  /\ mode = "up"
  /\ budget.stop > 0
  /\ budget' = [budget EXCEPT !.stop = @ - 1]
  /\ mode' = "stopping"
  /\ UNCHANGED <<redisVars, pc, held, timer, reaping, submitted, touched>>

(* BLPOP gives up after five seconds without a job; the loop then ends.    *)
WorkerExit(w) ==
  /\ mode = "stopping"
  /\ pc[w] = "polling"
  /\ AllEmpty
  /\ pc' = [pc EXCEPT ![w] = "exited"]
  /\ UNCHANGED <<redisVars, held, timer, reaping, mode, historyVars>>

(* The process ends, and with it the reaper and the name of the processing *)
(* list: NewWorker draws a new worker ID in the next process.              *)
GoDown ==
  /\ mode' = "down"
  /\ reaping' = Null
  /\ processing' = NoEntries
  /\ procTTL' = 0
  /\ UNCHANGED <<ready, retry, failed, jobKey, results, submitted>>

Shutdown ==
  /\ mode = "stopping"
  /\ \A w \in Procs : pc[w] = "exited"
  /\ GoDown
  /\ UNCHANGED <<pc, held, timer, touched, budget>>

HeldJobs == {held[w].id : w \in {v \in Procs : held[v] # Null}}

Crash ==
  /\ mode # "down"
  /\ budget.crash > 0
  /\ budget' = [budget EXCEPT !.crash = @ - 1]
  /\ touched' = Touch(HeldJobs, "crash")
  /\ pc' = [w \in Procs |-> "exited"]
  /\ held' = [w \in Procs |-> Null]
  /\ timer' = [w \in Procs |-> 0]
  /\ GoDown

Restart ==
  /\ mode = "down"
  /\ mode' = "up"
  /\ pc' = [w \in Procs |-> "polling"]
  /\ UNCHANGED <<redisVars, held, timer, reaping, historyVars>>

-----------------------------------------------------------------------------
CompleteJob(w) == \/ \E k \in 0..3 : CompleteSuccess(w, k)
                  \/ \E k \in 0..4 : CompleteFailure(w, k)

ProcessRetryJobs ==
  \E c \in DOMAIN retry, waited \in Waits, removed \in BOOLEAN :
    MoveRetry(c, waited, removed)

Next ==
  \/ \E id \in Jobs, score \in Scores : Enqueue(id, score)
  \/ \E w \in Procs : \/ Pop(w)
                      \/ PopLost(w)
                      \/ \E k \in 0..3 : Register(w, k)
                      \/ \E outcome \in {"ok", "error", "rate"} : ExecDone(w, outcome)
                      \/ ExecTimeout(w)
                      \/ \E added \in BOOLEAN : Requeue(w, added)
                      \/ CompleteJob(w)
                      \/ WorkerExit(w)
  \/ ProcessRetryJobs
  \/ \E id \in Jobs : ReapScan(id)
  \/ \E k \in 0..3 : ReapRequeue(k)
  \/ Tick
  \/ Stop
  \/ Shutdown
  \/ Crash
  \/ Restart

Spec == Init /\ [][Next]_vars
=============================================================================
