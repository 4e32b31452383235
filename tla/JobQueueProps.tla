---------------------------- MODULE JobQueueProps ----------------------------
(***************************************************************************)
(* What the job queue and its worker promise, stated over the state of     *)
(* JobQueue: where the copies of a job are, which promises hold on every   *)
(* path, and which of them a special event (a broken connection, a crash,  *)
(* a rate-limited run, a reap) takes away.                                 *)
(***************************************************************************)
EXTENDS JobQueue

Has(w, id) == held[w] # Null /\ held[w].id = id

(* Every place where a copy of the job waits to be run or is being run.    *)
QueuedReady(id) ==
  UNION {{<<"ready", p, i>> : i \in {n \in DOMAIN ready[p] : ready[p][n].id = id}}
           : p \in Priorities}

QueuedRetry(id) ==
  UNION {{<<"retry", c, n>> : n \in 1..retry[c]}
           : c \in {b \in DOMAIN retry : b.id = id}}

Queued(id) == QueuedReady(id) \union QueuedRetry(id)

Holders(id) == {w \in Procs : Has(w, id)}

(* The holders that the pipeline of Dequeue has recorded in Redis.         *)
Registered(id) ==
  {w \in Holders(id) : pc[w] \in {"running", "requeue", "fail", "succeed"}}

Settled(id) == results[id] = "ok" \/ \E c \in failed : c.id = id

Untouched(id, events) == touched[id] \cap events = {}

Multiplicity(c, bag) == IF c \in DOMAIN bag THEN bag[c] ELSE 0

ReadyCopies == UNION {{ready[p][i] : i \in DOMAIN ready[p]} : p \in Priorities}
HeldCopies == {held[w] : w \in Procs} \ {Null}
LiveCopies == ReadyCopies \union DOMAIN retry \union HeldCopies

-----------------------------------------------------------------------------
(* An enqueued job is still somewhere (in a ready list, in the retry set   *)
(* or with a goroutine) or it has ended, as a success or in the failed     *)
(* list.  Stopping, restarting, reaping and rate limiting never lose it;   *)
(* only a crash that hits the goroutine holding it or a connection that    *)
(* breaks in the middle of one of its own pipelines can.                   *)
NoJobLost ==
  \A id \in submitted :
    Untouched(id, {"fault", "crash"})
      => Queued(id) \union Holders(id) # {} \/ Settled(id)

(* A job that was never rate limited, reaped or cut off exists once, and   *)
(* not at all after it has ended: no two goroutines of the pool ever hold  *)
(* it, and an ended job is never taken again.  (The execFunc of a run that *)
(* timed out may still be running beside the next one: processTask does    *)
(* not wait for it, and no copy in a queue shows it.)                      *)
SingleOwner ==
  \A id \in Jobs :
    Untouched(id, {"rate", "reaped", "fault"})
      => /\ Cardinality(Queued(id)) + Cardinality(Holders(id)) <= 1
         /\ Settled(id) => Queued(id) \union Holders(id) = {}

(* Every copy that may still run has failed fewer than MAX_RETRIES times,  *)
(* and every copy in the failed list exactly MAX_RETRIES times, whatever   *)
(* duplicates and faults there were.                                       *)
RetryBudget ==
  /\ \A c \in LiveCopies : c.retries < MAX_RETRIES
  /\ \A c \in failed : c.retries = MAX_RETRIES

(* A copy waits in the list that its own score asks for: the priority      *)
(* written at the last change of the score was computed from that score.   *)
QueuedByScore ==
  /\ \A c \in LiveCopies : c.prio = ScoreToPriority(c.score)
  /\ \A p \in Priorities : \A i \in DOMAIN ready[p] : ready[p][i].prio = p

(* The processing list of the worker never names a job more often than     *)
(* goroutines are working on it (no leftover entry for the reaper to act   *)
(* on), as long as no pipeline of that job was cut.                        *)
NoGhostEntries ==
  \A id \in Jobs :
    Untouched(id, {"fault"}) => processing[id] <= Cardinality(Registered(id))

(* The key job:<ID> describes a copy that some goroutine is working on     *)
(* right now: what the reaper may read is never the record of a run that   *)
(* is over.                                                                *)
KeyHasOwner ==
  \A id \in Jobs :
    jobKey[id] # Null /\ Untouched(id, {"fault", "crash"})
      => \E w \in Registered(id) : held[w] = jobKey[id].copy

(* The other direction: while a run is within its time, the key and the    *)
(* list entry that could bring the job back are both there.                *)
InFlightIsTracked ==
  \A id \in Jobs, w \in Procs :
    /\ Untouched(id, {"rate", "reaped", "fault"})
    /\ Has(w, id) /\ pc[w] = "running" /\ timer[w] < TaskTimeout
    /\ TaskTimeout <= ProcessingTimeout
    => jobKey[id] # Null /\ processing[id] >= 1

(* A failure never raises a job: the copy that CompleteJob adds to the     *)
(* retry set has one more retry and no better priority than the copy the   *)
(* goroutine ran, although the penalty may raise a score below zero to 10. *)
FailureNeverPromotes ==
  [][\A w \in Procs, c \in DOMAIN retry' :
       /\ pc[w] = "fail" /\ pc'[w] # "fail"
       /\ Multiplicity(c, retry') > Multiplicity(c, retry)
       => /\ c.id = held[w].id
          /\ c.retries = held[w].retries + 1
          /\ Rank[c.prio] >= Rank[held[w].prio]]_vars

(* Within a list the order of arrival is kept: a job that waits is passed  *)
(* by no job of its own priority, whoever pushes or takes (Enqueue, the    *)
(* retry ticker, the reaper, any goroutine, a BLPOP whose reply is lost),  *)
(* and its list is served only while every better one is empty.  So a job  *)
(* is delayed only by better lists that never run empty: nothing promotes  *)
(* it while it waits.                                                      *)
ServedInOrder ==
  [][\A p \in Priorities :
       \/ /\ Len(ready'[p]) >= Len(ready[p])
          /\ SubSeq(ready'[p], 1, Len(ready[p])) = ready[p]
       \/ /\ ready[p] # <<>> /\ ready'[p] = Tail(ready[p])
          /\ \A q \in Priorities : Rank[q] < Rank[p] => ready[q] = <<>>]_vars

(* If the pipeline of Dequeue always follows VisibilityStart within the    *)
(* same tick, the reaper never finds a job to put back: the key it reads   *)
(* expires at the very age at which it would act.                          *)
ReaperIdle == MaxLag = 0 => reaping = Null

-----------------------------------------------------------------------------
(* The code's schedule: goroutines, the retry ticker and the clock keep    *)
(* going; a stopped process is started again.  Nothing obliges a task to   *)
(* end other than by its timeout, and nothing obliges a job to be          *)
(* enqueued or a process to stop.                                          *)
Fairness ==
  /\ WF_vars(Tick)
  /\ WF_vars(ProcessRetryJobs)
  /\ WF_vars(\E k \in 0..3 : ReapRequeue(k))
  /\ WF_vars(Shutdown)
  /\ WF_vars(Restart)
  /\ \A w \in Procs : /\ WF_vars(Pop(w))
                      /\ WF_vars(\E k \in 0..3 : Register(w, k))
                      /\ WF_vars(ExecTimeout(w))
                      /\ WF_vars(\E added \in BOOLEAN : Requeue(w, added))
                      /\ WF_vars(CompleteJob(w))
                      /\ WF_vars(WorkerExit(w))

FairSpec == Spec /\ Fairness

(* Every enqueued job ends: it succeeds, or it lands in the failed list.   *)
Settles == \A id \in Jobs : id \in submitted ~> Settled(id)

(* And then nothing of it is left to run.                                  *)
Drains ==
  \A id \in Jobs :
    id \in submitted ~> [](Queued(id) \union Holders(id) = {})

-----------------------------------------------------------------------------
(* JobQueue implements JobLifecycle as long as no connection breaks, no    *)
(* process crashes, no run is rate limited and nothing is reaped: the      *)
(* copies that go through the lists are then one job with one status.      *)
LifecycleStatus(id) ==
  CASE id \notin submitted        -> "absent"
    [] \E c \in failed : c.id = id -> "dead"
    [] results[id] = "ok"         -> "done"
    [] Holders(id) # {}           -> "inflight"
    [] OTHER                      -> "ready"

LifecycleFailures(id) ==
  IF LifecycleStatus(id) \in {"absent", "done"} THEN 0
  ELSE (CHOOSE c \in LiveCopies \union failed : c.id = id).retries

Lifecycle == INSTANCE JobLifecycle
               WITH status   <- [j \in Jobs |-> LifecycleStatus(j)],
                    failures <- [j \in Jobs |-> LifecycleFailures(j)]

ImplementsLifecycle == Lifecycle!Spec

-----------------------------------------------------------------------------
(* A promise of the documentation that the code does not keep.             *)

(* README.md: "It performs like a custom SQS with a visibility timer for   *)
(* retries."  A job that a consumer has taken and registered becomes       *)
(* visible again, or ends, even if the consumer dies.                      *)
VisibilityTimerRecovers ==
  \A id \in Jobs : Registered(id) # {} ~> Queued(id) # {} \/ Settled(id)
=============================================================================
