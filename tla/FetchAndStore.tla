---------------------------- MODULE FetchAndStore ----------------------------
(***************************************************************************)
(* What a crawl job does: FetchAndStoreRaw and processGithubRepo in        *)
(* internal/scraper/crawler/processes.go, run by the goroutines of the     *)
(* crawler worker over the shared metadata cache, the singleflight group,  *)
(* the content index and the object store.                                 *)
(*                                                                         *)
(* A run is one call of execFunc.  processTask does not wait for it when   *)
(* its context ends: the run goes on beside the next run of the same job,  *)
(* its calls that take the context fail, and the ones that do not (the     *)
(* content index, Enqueue) still work.  A page stands for its fingerprint  *)
(* (SimhashIndex) and for its content hash.  The rate limiter is the       *)
(* choice between Reserve and Limited (RateLimiter), the frontier the      *)
(* copies of each job that wait and the failed list (Retries); that a call *)
(* of the queue is cut off may lose a copy of a job or leave one too many  *)
(* (JobQueue).                                                             *)
(***************************************************************************)
EXTENDS Retries

CONSTANTS
  Jobs,         \* the crawl jobs of the frontier
  Runs,         \* the execFunc goroutines that may be alive at once
  Domains, DomainOf,   \* [Jobs -> Domains]
  GithubJobs,   \* the jobs on github.com
  Pages,        \* what may be fetched, up to its cleaned text
  Served,       \* [Jobs -> SUBSET Pages]: what a fetch of the job's URL may return
  Near,         \* pairs of pages whose fingerprints are at most MaxHammingDist apart
  MaxRuns,      \* bound: [Jobs -> Nat], how often each job is run
  MaxRestarts,  \* bound: how often the process is started again
  MaxFaults,    \* bound: how often a context ends, a call fails, a call of the queue is
                \* cut off or the process ends
  None

ASSUME JobAssumption == /\ DomainOf \in [Jobs -> Domains]
                        /\ GithubJobs \subseteq Jobs
                        /\ Served \in [Jobs -> SUBSET Pages]
ASSUME NearAssumption == /\ Near \subseteq Pages \X Pages
                         /\ \A p \in Pages : <<p, p>> \in Near
                         /\ \A p, q \in Pages : <<p, q>> \in Near => <<q, p>> \in Near
ASSUME BoundAssumption == /\ IsFiniteSet(Runs)
                          /\ MaxRuns \in [Jobs -> Nat] /\ MaxRestarts \in Nat /\ MaxFaults \in Nat
ASSUME NoneAssumption == None \notin Runs \union Pages \union Jobs

Stages == {"idle", "meta", "flight", "robots", "metaError",
           "reserve", "fetch", "dedup", "store", "enqueue"}

VARIABLES
  todo,      \* [Jobs -> [Attempts -> Nat]]: the copies that wait in the frontier
  failed,    \* the jobs in the failed list
  run,       \* [Runs -> a record]: the job and its RetryCount, the stage, whether the
             \* context is live, the robots.txt and the page it was given
  meta,      \* [Domains -> {"none", "allows", "blocks"}]: the cached robots.txt
  flight,    \* [Domains -> Runs or None]: the run that fetches robots.txt for the others
  seen,      \* the pages in the content index
  objects,   \* the pages in the object store
  parsing,   \* [Pages -> Nat]: parse jobs queued by this process
  started,   \* bound: [Jobs -> Nat], the runs of each job
  restarts,  \* bound: what is left of MaxRestarts
  faults,    \* bound: what is left of MaxFaults
  cut,       \* history: pages whose run failed after their admission to the index
  dropped    \* history: pages found to be near one in the index

vars == <<todo, failed, run, meta, flight, seen, objects, parsing, started, restarts,
          faults, cut, dropped>>

NoRun == [job |-> None, retries |-> 0, at |-> "idle", live |-> FALSE, robots |-> "none",
          page |-> None]

RunRecord == [job : Jobs \union {None}, retries : Attempts, at : Stages, live : BOOLEAN,
              robots : {"none", "allows", "blocks"}, page : Pages \union {None}]

TypeOK ==
  /\ todo \in [Jobs -> [Attempts -> Nat]]
  /\ failed \subseteq Jobs
  /\ run \in [Runs -> RunRecord]
  /\ meta \in [Domains -> {"none", "allows", "blocks"}]
  /\ flight \in [Domains -> Runs \union {None}]
  /\ seen \subseteq Pages /\ objects \subseteq Pages
  /\ parsing \in [Pages -> Nat]
  /\ started \in [Jobs -> Nat] /\ restarts \in Nat /\ faults \in Nat
  /\ cut \subseteq Pages /\ dropped \subseteq Pages

Init ==
  /\ todo = [j \in Jobs |-> WithNew(NoCopy, 1)]
  /\ failed = {}
  /\ run = [r \in Runs |-> NoRun]
  /\ meta = [d \in Domains |-> "none"]
  /\ flight = [d \in Domains |-> None]
  /\ seen = {} /\ objects = {}
  /\ parsing = [p \in Pages |-> 0]
  /\ started = [j \in Jobs |-> 0]
  /\ restarts = MaxRestarts /\ faults = MaxFaults
  /\ cut = {} /\ dropped = {}

-----------------------------------------------------------------------------
queueVars == <<todo, failed>>
indexVars == <<seen, dropped>>
storeVars == <<objects, parsing>>
metaVars  == <<meta, flight>>
boundVars == <<started, restarts, faults>>

Domain(r) == DomainOf[run[r].job]

Fault == faults > 0 /\ faults' = faults - 1

(* The worker hears of the end of a run, or of its context, unless it has  *)
(* given the run up, and copies of the job with these RetryCounts come     *)
(* back to the queue.                                                      *)
Complete(r, counts) ==
  IF run[r].live
  THEN /\ todo' = PutBack(todo, run[r].job, counts)
       /\ failed' = WithFailed(failed, run[r].job, counts)
  ELSE UNCHANGED <<todo, failed>>

End(r, counts) ==
  /\ run' = [run EXCEPT ![r] = NoRun]
  /\ Complete(r, counts)

Succeed(r) == End(r, {})

(* CompleteJob after a failure raises RetryCount; when its pipeline is cut *)
(* off, nothing comes back.                                                *)
AfterFailure(r) == SUBSET {run[r].retries + 1}

(* After ErrRateLimited, RequeueWithDelay puts the job back as it is, and  *)
(* then CompleteJob does with Success = FALSE.                             *)
AfterLimitRaised(r) == {{run[r].retries + 1}}

AfterLimit(r) == SUBSET {run[r].retries, run[r].retries + 1}

Goto(r, stage) == /\ run' = [run EXCEPT ![r].at = stage]
                  /\ UNCHANGED queueVars

(* The goroutine itself is not stopped by the end of its context.          *)
AfterTimeoutStopped(r) == NoRun

AfterTimeout(r) == [run[r] EXCEPT !.live = FALSE]

(* IsNearDuplicate: the answer, and what the index holds after it.         *)
IsNearDuplicateExact(page) == page \in seen

IsNearDuplicate(page) == \E q \in seen : <<page, q>> \in Near

Waiting(d) == {r \in Runs : run[r].at = "flight" /\ Domain(r) = d}

(* The runs that a finished flight lets go.                                *)
LandingLeaderOnly(d) == {flight[d]}

Landing(d) == Waiting(d)

-----------------------------------------------------------------------------
(* The worker starts a run of a job it has taken from the frontier.        *)
Start(r, j, n) ==
  /\ run[r] = NoRun
  /\ todo[j][n] > 0
  /\ started[j] < MaxRuns[j]
  /\ started' = [started EXCEPT ![j] = @ + 1]
  /\ todo' = Taken(todo, j, n)
  /\ run' = [run EXCEPT ![r] = [NoRun EXCEPT !.job = j, !.retries = n, !.at = "meta",
                                            !.live = TRUE]]
  /\ UNCHANGED <<failed, metaVars, indexVars, storeVars, restarts, faults, cut>>

(* The reply of BLPOP is lost: the copy is out of the list, and Dequeue    *)
(* returns an error.                                                       *)
PopLost(j, n) ==
  /\ todo[j][n] > 0
  /\ todo' = Taken(todo, j, n)
  /\ Fault
  /\ UNCHANGED <<failed, run, metaVars, indexVars, storeVars, started, restarts, cut>>

(* A copy too many: the pipeline of ProcessRetryJobs is cut off between    *)
(* RPUSH and ZREM, or the reaper puts back the job of a run whose          *)
(* CompleteJob was cut off.                                                *)
Doubled(j, n) ==
  /\ todo[j][n] > 0 \/ \E r \in Runs : run[r].job = j /\ run[r].retries = n
  /\ todo' = PutBack(todo, j, {n})
  /\ Fault
  /\ UNCHANGED <<failed, run, metaVars, indexVars, storeVars, started, restarts, cut>>

(* TaskTimeout, or Stop: the worker counts the run as failed.              *)
Timeout(r, counts) ==
  /\ run[r].live
  /\ run' = [run EXCEPT ![r] = AfterTimeout(r)]
  /\ Complete(r, counts)
  /\ Fault
  /\ UNCHANGED <<metaVars, indexVars, storeVars, started, restarts, cut>>

(* getDomainMetadata: the cached record ...                                *)
MetaHit(r) ==
  /\ run[r].at = "meta" /\ run[r].live
  /\ meta[Domain(r)] # "none"
  /\ run' = [run EXCEPT ![r].at = "robots", ![r].robots = meta[Domain(r)]]
  /\ UNCHANGED <<queueVars, metaVars, indexVars, storeVars, boundVars, cut>>

(* ... or domainMetaGroup.Do: the first run that comes fetches robots.txt, *)
(* the others wait for it, without a context of their own.                 *)
MetaMiss(r) ==
  /\ run[r].at = "meta" /\ run[r].live
  /\ meta[Domain(r)] = "none"
  /\ flight' = [flight EXCEPT ![Domain(r)] = IF @ = None THEN r ELSE @]
  /\ Goto(r, "flight")
  /\ UNCHANGED <<meta, indexVars, storeVars, boundVars, cut>>

(* The fetch and the SET use the context of the run that leads: when it    *)
(* has ended, or either call fails, every run that waits gets the error.   *)
FlightLands(d, robots) ==
  /\ flight[d] # None
  /\ run[flight[d]].live
  /\ meta' = [meta EXCEPT ![d] = robots]
  /\ flight' = [flight EXCEPT ![d] = None]
  /\ run' = [r \in Runs |->
               IF r \in Landing(d)
               THEN [run[r] EXCEPT !.at = "robots", !.robots = robots] ELSE run[r]]
  /\ UNCHANGED <<queueVars, indexVars, storeVars, boundVars, cut>>

FlightFails(d) ==
  /\ flight[d] # None
  /\ flight' = [flight EXCEPT ![d] = None]
  /\ run' = [r \in Runs |->
               IF r \in Landing(d) THEN [run[r] EXCEPT !.at = "metaError"] ELSE run[r]]
  /\ IF run[flight[d]].live THEN Fault ELSE UNCHANGED faults
  /\ UNCHANGED <<queueVars, meta, indexVars, storeVars, started, restarts, cut>>

(* The record lives for 24 hours.                                          *)
MetaExpires(d) ==
  /\ meta[d] # "none"
  /\ meta' = [meta EXCEPT ![d] = "none"]
  /\ UNCHANGED <<queueVars, run, flight, indexVars, storeVars, boundVars, cut>>

(* isAllowedByRobots, on the record this run was given; a blocked URL is a *)
(* success.                                                                *)
Robots(r) ==
  /\ run[r].at = "robots"
  /\ \/ run[r].robots = "allows" /\ Goto(r, "reserve")
     \/ run[r].robots = "blocks" /\ Succeed(r)
  /\ UNCHANGED <<metaVars, indexVars, storeVars, boundVars, cut>>

(* reserveDomainAccess lets the run go on, or tells it to come back later: *)
(* see RateLimiter.                                                        *)
Reserve(r) ==
  /\ run[r].at = "reserve" /\ run[r].live
  /\ Goto(r, "fetch")
  /\ UNCHANGED <<metaVars, indexVars, storeVars, boundVars, cut>>

Limited(r, counts) ==
  /\ run[r].at = "reserve" /\ run[r].live
  /\ End(r, counts)
  /\ IF counts = {run[r].retries, run[r].retries + 1} THEN UNCHANGED faults ELSE Fault
  /\ UNCHANGED <<metaVars, indexVars, storeVars, started, restarts, cut>>

(* fetchReq takes whatever body comes, whatever the status; a README whose *)
(* encoding is not base64 ends the run of a repository as a success.       *)
Fetch(r) ==
  /\ run[r].at = "fetch" /\ run[r].live
  /\ \/ /\ \E page \in Served[run[r].job] :
             run' = [run EXCEPT ![r].at = "dedup", ![r].page = page]
        /\ UNCHANGED queueVars
     \/ run[r].job \in GithubJobs /\ Succeed(r)
  /\ UNCHANGED <<metaVars, indexVars, storeVars, boundVars, cut>>

(* IsNearDuplicate answers and admits in one step, under the mutex; a      *)
(* duplicate is a success.                                                 *)
DedupGoesOn(r) ==
  LET page == run[r].page IN
  /\ run[r].at = "dedup"
  /\ seen' = seen \union {page}
  /\ dropped' = IF IsNearDuplicate(page) THEN dropped \union {page} ELSE dropped
  /\ Goto(r, "store")
  /\ UNCHANGED <<metaVars, storeVars, boundVars, cut>>

Dedup(r) ==
  LET page == run[r].page IN
  /\ run[r].at = "dedup"
  /\ \/ /\ IsNearDuplicate(page)
        /\ dropped' = dropped \union {page}
        /\ UNCHANGED seen
        /\ Succeed(r)
     \/ /\ ~IsNearDuplicate(page)
        /\ seen' = seen \union {page}
        /\ UNCHANGED dropped
        /\ Goto(r, "store")
  /\ UNCHANGED <<metaVars, storeVars, boundVars, cut>>

(* StoreRawData.                                                           *)
Store(r) ==
  /\ run[r].at = "store" /\ run[r].live
  /\ objects' = objects \union {run[r].page}
  /\ Goto(r, "enqueue")
  /\ UNCHANGED <<metaVars, indexVars, parsing, boundVars, cut>>

(* parseQ.Enqueue of a fresh parse job.                                    *)
EnqueueParse(r) ==
  /\ run[r].at = "enqueue"
  /\ parsing' = [parsing EXCEPT ![run[r].page] = @ + 1]
  /\ Succeed(r)
  /\ UNCHANGED <<metaVars, indexVars, objects, boundVars, cut>>

(* Any call may fail, and a call whose context has ended does.  What it    *)
(* asked for may have been done all the same.                              *)
CallFails(r, counts) ==
  /\ run[r].at \in {"meta", "metaError", "reserve", "fetch", "store", "enqueue"}
  /\ \/ UNCHANGED <<objects, parsing>>
     \/ /\ run[r].at = "store"
        /\ objects' = objects \union {run[r].page}
        /\ UNCHANGED parsing
     \/ /\ run[r].at = "enqueue"
        /\ parsing' = [parsing EXCEPT ![run[r].page] = @ + 1]
        /\ UNCHANGED objects
  /\ cut' = IF run[r].at \in {"store", "enqueue"} THEN cut \union {run[r].page} ELSE cut
  /\ End(r, counts)
  /\ IF run[r].live /\ run[r].at # "metaError" THEN Fault ELSE UNCHANGED faults
  /\ UNCHANGED <<metaVars, indexVars, started, restarts>>

(* The process ends, and another one starts with an empty index.  Stop     *)
(* completes the runs that go on as failed ones, those in back before the  *)
(* process is gone; in a crash there are none.                             *)
Restart(back) ==
  LET jobOf == [r \in Runs |-> run[r].job]
      countOf == [r \in Runs |-> run[r].retries] IN
  /\ restarts > 0
  /\ restarts' = restarts - 1
  /\ todo' = AllPutBack(todo, back, jobOf, countOf)
  /\ failed' = AllFailed(failed, back, jobOf, countOf)
  /\ run' = [r \in Runs |-> NoRun]
  /\ flight' = [d \in Domains |-> None]
  /\ seen' = {} /\ cut' = {} /\ dropped' = {}
  /\ parsing' = [p \in Pages |-> 0]
  /\ Fault
  /\ UNCHANGED <<meta, objects, started>>

-----------------------------------------------------------------------------
Step(r) ==
  \/ MetaHit(r) \/ MetaMiss(r) \/ Robots(r) \/ Reserve(r) \/ Fetch(r)
  \/ Dedup(r) \/ Store(r) \/ EnqueueParse(r)
  \/ \E counts \in AfterLimit(r) : Limited(r, counts)
  \/ \E counts \in AfterFailure(r) : CallFails(r, counts)

Live == {r \in Runs : run[r].live}

FlightEnds(d) == FlightFails(d) \/ \E robots \in {"allows", "blocks"} : FlightLands(d, robots)

Next ==
  \/ \E r \in Runs : \/ \E j \in Jobs, n \in Attempts : Start(r, j, n)
                     \/ \E counts \in AfterFailure(r) : Timeout(r, counts)
                     \/ Step(r)
  \/ \E j \in Jobs, n \in Attempts : PopLost(j, n) \/ Doubled(j, n)
  \/ \E d \in Domains : FlightEnds(d) \/ MetaExpires(d)
  \/ \E back \in SUBSET Live : Restart(back)

Spec == Init /\ [][Next]_vars

(* Calls return: the HTTP clients, Redis and MinIO answer or give up.      *)
Fairness == /\ \A r \in Runs : WF_vars(Step(r))
            /\ \A d \in Domains : WF_vars(FlightEnds(d))

FairSpec == Spec /\ Fairness

-----------------------------------------------------------------------------
(* One process hands at most one page of every near-duplicate kind to the  *)
(* parser, once, whatever runs overlap: two workers with the same page, a  *)
(* retry beside a run that timed out, the second copy of a rate-limited    *)
(* job, a copy too many, an Enqueue that failed after it was done.         *)
OnceParsed ==
  \A p, q \in Pages :
    parsing[p] > 0 /\ parsing[q] > 0 /\ <<p, q>> \in Near => p = q /\ parsing[p] = 1

(* A page in the index has its parse job, or a run is still bringing it    *)
(* there, or that run failed in between: only then is the index wrong      *)
(* about the page, and drops it for a duplicate when the job is run again. *)
(* A run fails there because a call fails, or because its context ends     *)
(* before StoreRawData, which takes it, is through.  A context that ends   *)
(* later loses nothing: Enqueue does not take it, and a run that was given *)
(* up still brings its page to the parser.                                 *)
AdmittedIsKept ==
  \A p \in seen :
    \/ parsing[p] > 0
    \/ \E r \in Runs : run[r].page = p /\ run[r].at \in {"store", "enqueue"}
    \/ p \in cut

(* Nobody waits for a flight that has landed: while a run waits, the run   *)
(* that leads is there and waits with it.                                  *)
FlightHasLeader ==
  \A r \in Runs :
    run[r].at = "flight" => flight[Domain(r)] # None /\ flight[Domain(r)] \in Waiting(Domain(r))

(* Every run ends, even one whose context ended while it waited for the    *)
(* robots.txt that another run fetches.                                    *)
RunsEnd == \A r \in Runs : run[r].at # "idle" ~> run[r].at = "idle"

-----------------------------------------------------------------------------
(* The log says "Duplicate page detected": a page that is dropped for      *)
(* being a duplicate is near one that has a parse job or is on its way.    *)
DroppedIsKept ==
  \A p \in dropped :
    \E q \in Pages :
      /\ <<p, q>> \in Near
      /\ \/ parsing[q] > 0
         \/ \E r \in Runs : run[r].page = q /\ run[r].at \in {"store", "enqueue"}
=============================================================================
