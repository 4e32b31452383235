# Formal verification of Dev-Search

TLA+ models of the crawler and the indexer of Dev-Search, the TLC
configurations that check them on small instances, and TLAPS proofs of their
main safety properties for all instances. Every definition is translated from
the Go source; `PROJECT.json` ("map") names the lines each one stands for.

    tlc -workers 2 -config MCJobQueue_safety.cfg MCJobQueue    # check a run
    tlapm JobQueueProofs.tla                                   # check the proofs

Contents: 1 the system, 2 what is hard about it, 3 modules and code,
4 modelling decisions, 5 runs, bounds and fairness, 6 proofs, 7 divergences,
8 what is not modelled, 9 plan.


## 1. The system

Two programs share Redis, MinIO and Postgres.

    seeds ─► crawl queue ─► crawl job ─► parse queue ─► parse job ─► stream ─► indexer ─► Postgres
               (Redis)      │    │         (Redis)      │   │       (Redis)
                 ▲          │    └─► MinIO raw text     │   └─► MinIO cleaned text
                 │          └─ robots cache, rate       │
                 │             limiter, content index   │
                 └────────── URLs the page links to ────┘

`cmd/scraper` is one process: a worker pool that serves the crawl queue, one
that serves the parse queue, a retry ticker and a reaper ticker for each.
`cmd/indexer` is another: a worker pool that reads a Redis stream.

| component | source | state | operations | what makes it correct |
|---|---|---|---|---|
| Job queue (URL frontier, parse queue) | `scraper/queues/queue.go`, `job.go` | four ready lists, retry sorted set, failed list, processing list per worker (with a TTL), keys `job:<ID>` (TTL) and `results:<ID>` | Enqueue, Dequeue, RequeueWithDelay, CompleteJob, ProcessRetryJobs, ReapStaleProcessingJobs | a job is never lost without a failure, never duplicated without a cause, retried exactly MAX_RETRIES times, waits at the priority of its score, ends |
| Worker pool | `scraper/worker/worker.go` | goroutines, their contexts, a worker ID | Start, processTasks, processTask (timeout), completeTask, Stop | every task ends in CompleteJob; Stop leaves nothing behind |
| Scoring | `scraper/queues/score.go` | none | ScoreDevURL, ApplyAging, ScoreToPriority, penalty | priority follows score; a failure never promotes |
| Rate limiter | `scraper/scripts/rateLimter.go`, `reserveDomainAccess` in `crawler/processes.go` | key `ratelimit:<domain>` | one Lua script | spacing of requests to a domain |
| Near-duplicate index | `scraper/deduplication/simhash.go` | buckets in memory, mutex | SimHash, IsNearDuplicate, Add | answers as a comparison with everything stored would |
| Crawl job | `scraper/crawler/processes.go` | cached robots metadata, singleflight group, the index above, raw objects | FetchAndStoreRaw, processGithubRepo | a page goes to the parser once; an admitted page is not forgotten; nobody waits for ever |
| URL normaliser | `scraper/normalizer/*.go` | none | RunNormalizationPipeline: BaseNormalizer, then GitNormalizer or DocsNormalizer | the spellings of a link meet in one URL, two pages do not, and normalising again changes nothing |
| Scraper as a whole | `cmd/scraper/main.go` | the two queues between the two kinds of job | seeding, start, Stop | the crawl goes round until it is complete; a URL drops out for named reasons only, the failed list the first of them |
| Parse job | `scraper/parsing/parsing.go` | keys `urlmeta:<URL>` | ExtractTextAndStore | a URL is enqueued once; a known URL is enqueued; depths are real |
| Stream | `streams/stream.go`, `message.go` | stream entries, the group's position and pending list | AddMsg, GetMsg, CompleteMessage | a message is indexed or declared dead after its retries |
| Indexer worker | `indexer/worker/worker.go` | goroutines with a batch each, a worker ID | processMessages, processMessage, Stop | as above, across Stop and restart |
| Index transaction | `indexer/indexDocument.go`, `storage/db/schema.sql` | tables documents, inverted_index | CreateAndStoreIndexedDocument | a document is stored once |

Interactions. A worker pool calls Dequeue, runs its execFunc in a goroutine
with a timeout and calls CompleteJob with the outcome. The crawler's execFunc
calls the rate limiter, the content index, MinIO and Enqueue of the parse
queue; the parser's calls AddMsg of the stream and Enqueue of the crawl queue.
The tickers move due jobs back to the ready lists and put stale ones back. The
programs meet only at the stream and in MinIO.


## 2. What is hard

The list with lines is in `PROJECT.json` under "hazards"; the kinds are:

- **Pipelines are not transactions.** Dequeue, CompleteJob, the reaper and the
  retry sweep send several commands; a connection may break between any two.
- **A job is a value.** Redis holds its JSON; the copy in the retry set, in a
  goroutine and under `job:<ID>` may differ, and nothing prevents two copies.
- **Timeouts do not stop goroutines.** processTask returns while the execFunc
  goes on; its effects interleave with the retry of the same job.
- **Reads before writes.** The reaper reads a key and acts in a later pipeline;
  the rate limiter reads its clock before its script runs; the parser reads,
  changes and writes a URL's record in two calls, and adds a record and
  enqueues its URL in two.
- **Shared names.** All goroutines of the indexer are one consumer of the
  group; reading "0" returns what another goroutine is working on. A restarted
  process has another name, and another processing list.
- **Crashes, stops and restarts** at every point; in-memory state (content
  index, singleflight) disappears, Redis state does not.
- **Boundaries**: the last retry, the penalty below zero, the key whose TTL
  equals the age at which the reaper acts, one part more than the distance, a
  wait that no longer fits in a `time.Duration`.

- **Two keys for one page.** The URL is the name of a page everywhere; which
  spellings of it meet depends on the order of the normaliser's rules.
- **Giving up.** A job that has failed MAX_RETRIES times is in a list that nothing
  reads, and its URL is known and never enqueued again; what counts as a failure
  (a timeout, a Stop, the second half of a rate limit) decides how soon.
- **A circle of queues.** Crawl jobs make parse jobs and parse jobs make crawl
  jobs; each half may be correct and a URL still get lost between them.


## 3. Modules and code

| module | models | its actions are |
|---|---|---|
| `Scoring` | `score.go`, penalty of CompleteJob | (pure operators) |
| `JobQueue` | `queue.go`, `job.go`, `worker.go`, wiring in `cmd/scraper/main.go` | Enqueue; Pop, PopLost, Register (Dequeue); ExecDone, ExecTimeout (processTask); Requeue, CompleteSuccess, CompleteFailure (completeTask); MoveRetry (ProcessRetryJobs); ReapScan, ReapRequeue (ReapStaleProcessingJobs); Tick; Stop, WorkerExit, Shutdown, Crash, Restart |
| `JobQueueProps` | the properties of `JobQueue`, its fairness and its refinement mapping | |
| `JobLifecycle` | **abstract**: one job, one status, a count of failures | Submit, Start, Succeed, Fail |
| `RateLimiter` | `reserveDomainAccess` and the Lua script | ReadClock, RunScript, Fail, Tick |
| `SimhashIndex` | `simhash.go` | IsNearDuplicate, Add, NewSimIndex |
| `SeenContent` | **abstract**: a set of fingerprints and the exact answer | Ask, Insert, Restart |
| `Retries` | `queue.go` as the jobs of a queue see it: waiting copies told apart by their RetryCount, and the failed list | (operators: WithNew, Taken, PutBack, WithFailed, and the last two for several runs at once) |
| `FetchAndStore` | `crawler/processes.go` | Start; PopLost, Doubled (what a cut pipeline of the queue does to a copy); Timeout; MetaHit, MetaMiss, FlightLands, FlightFails, MetaExpires (getDomainMetadata); Robots; Reserve, Limited (reserveDomainAccess); Fetch; Dedup; Store; EnqueueParse; CallFails; Restart |
| `IndexerStream` | `stream.go`, `indexer/worker/worker.go`, `indexDocument.go`, `schema.sql` | AddMsg; ReadNew, NothingNew, ReadOwn (GetMsg); Begin, Exec (processMessage); AckSuccess, AckFailure, AckFails, Readd (CompleteMessage); Stop, Shutdown, Crash, Restart |
| `Discovery` | `parsing.go` | Start, Timeout, ReadPage, Publish, Discover, DiscoverFails, Enqueue, Reread, Rewrite, Crash |
| `Normalizer` | `normalizerRules.go`, `normalizeFunctions.go` | (operators on a URL: isGitHost, BaseNormalizer, GitNormalizer, DocsNormalizer, RunNormalizationPipeline) |
| `LinkSpellings` | the environment of `Normalizer`: a link to a page, respelled step by step | UpperHost, ZeroPad, AddWww, AddPort, AddSlash, AddDetour, AddTracking, SwapQuery, AddFragment, OtherScheme, AddUser, AddGit, AddQuery, UpperPath, AddLocale, AddIndex |
| `Scraper` | **composition** of `FetchAndStore` and `Discovery` as wired by `cmd/scraper/main.go` | Seed; Crawl (any step of a crawl job or of its queue); Parse (the same of a parse job); Restart |
| `MC...` | small instances for TLC | |
| `...Proofs` | theorems (section 6) | |

Composition. `FetchAndStore` and `Discovery` are the two execFuncs that
`JobQueue` runs. `JobQueue` sees an execFunc as an outcome (ok, error, rate
limited, too late); the jobs see their queue as `Retries` has it: how many copies
of a job wait with each RetryCount (`todo`, `toParse`), and which jobs are in the
failed list. `Discovery` alone sees only the URLs it enqueues (`frontier`). The
rate limiter and the content index are what `RateLimiter` and `SeenContent`
promise. So each interface is modelled twice, once from each side, and the
assumption one module makes is what another is checked for:
`FetchAndStore.Dedup` answers and admits in one step, which `SimhashIndex` is
shown to implement (`ImplementsSeenContent`); `FetchAndStore.Limited` puts a job
back twice, which is what `JobQueue.Requeue` followed by `CompleteFailure` does;
`FetchAndStore.Complete` puts a copy that has failed MAX_RETRIES times into the
failed list, as `JobQueue.CompleteFailure` does (`RetryBudget`); `PopLost` and
`Doubled` are the two ways in which a cut pipeline of `JobQueue` changes the number
of copies of a job.

`Scraper` joins the two jobs. It instantiates both modules and takes their steps;
what a step of one adds to its output (`parsing`, `frontier`) is what it adds to
the queue of the other (`toParse`, `todo`). A restart is one step of both: the
content index and the runs are gone, both queues are still there, and main
enqueues the seeds once more. `events` records what befell the jobs of each URL,
`crawlFailures` and `parseFailures` how often they failed, so that a property can
name every way in which a URL drops out of the circle. In the ordinary one nothing
breaks: a job fails MAX_RETRIES times (a host that is down, a page that cannot be
parsed), CompleteJob puts it into the failed list, nothing reads that list, and as
the record of the URL stays under `urlmeta`, no link enqueues it again.


## 4. Modelling decisions

- **Pipelines** are one action with a parameter k: the number of its commands
  that were done before the connection broke (all of them in the normal case).
  `Cut` charges a broken one to a budget and remembers the job it hit. The Go
  code holds no lock between two pipelines, so nothing finer is observable.
- **Jobs are values** (`Copy`: ID, retries, base score, priority). The
  processing list holds IDs and is a count for each of them. The retry set is a
  bag although a sorted set holds equal members once: the JSON of a copy carries
  the time it was taken, so two copies of one job are never the same text.
- **Job.Status, Msg.Status, Error, durations, statistics, logs** are left out:
  written and never read. The 24 h life of a result is left out for the same
  reason.
- **Retry times are open**: any member of the retry set may be due at any time.
  Every schedule the code can produce is one of these, so safety carries over.
- **A sweep is a series of steps**, one for each member or ID. ProcessRetryJobs
  reads the set once, but the goroutine that reads it is the only one that
  removes from it. The reaper takes its list and its clock once; the model looks
  at both again for each ID, which allows every reap of the code and a few more.
- **Time** in `JobQueue` is counted in ticks; ProcessingTimeout and TaskTimeout
  are the code's two constants of five minutes. `MaxLag` is how long a
  goroutine may take between `VisibilityStart = now` and the pipeline that
  writes the key. Ages stop growing where no test tells more values apart.
- **One process at a time** runs each program, as the README starts them. One
  instance of the queue is modelled: crawl and parse queue differ in their
  execFunc only.
- **A run of an execFunc** in `FetchAndStore` and `Discovery` has a flag, live,
  that says whether its context has ended. Calls that take the context fail
  when it has; calls that use `context.Background()` or none do not.
- **A queue seen by its jobs** (`Retries`) has no lists, keys or times: a copy in a
  ready list and one in the retry set both wait, and a restart leaves them where
  they are. A failure brings back a copy with a RetryCount one higher, or none when
  the pipeline of CompleteJob was cut off (`AfterFailure`); a rate limit brings back
  the copy as it was and the raised one, or fewer of them (`AfterLimit`); the reply
  of BLPOP may be lost (`PopLost`); and there may be one copy too many (`Doubled`),
  from a retry sweep that was cut off between RPUSH and ZREM or from the reaper,
  which finds the key of a run whose CompleteJob was cut off. `Doubled` allows
  more than the code: the reaper acts when the run is over, and here its copy may
  wait while the run still goes on.
- **Failures** in `FetchAndStore` and `Scraper` have one budget (`MaxFaults`) for ends
  of contexts, failing calls, cut-off calls of a queue, Stop and crash. Rate limits,
  robots.txt, duplicates and the failures that follow from another one (a call after
  the end of its context, the runs that wait for a flight that fails) cost nothing.
- **Lost replies**: a call that reports an error may have been done all the
  same (BLPOP, XREADGROUP, XACK, XADD, PutObject, SETNX, Enqueue, COMMIT).
- **The SimHash word** is the set of its one-bits; XOR is the symmetric
  difference. Shingle hashes are inputs.
- **Rate limiter arguments** are numbers. `ArgPerMs` is what go-redis writes for
  a millisecond of a `time.Duration`; the properties hold for every positive
  value. The wait is turned into a `time.Duration` by a multiplication that wraps
  around (`AsDuration`): `NsPerMs` and `DurationRange` are a million and 2^64 in
  the code and small in the runs. `Fits` is the condition under which the wait
  survives, and `GrantSpacing` and `PromiseNotKept` are stated under it.
- **URLs** in `Normalizer` are records. A path is a sequence of segments, a
  segment a word with a case and an ending (".git", an index file), so that
  every rule of the code has something to act on and no string is taken apart.
  Which words begin with a banned word, look like a locale or have a dot is given
  by sets. A page is named by its shortest URL, one with nothing in it that the
  rules of its host take away (`PageAssumption`); what is a different page is thus
  read off the rules, and the properties are about how the rules act together. In `Discovery` a URL is a normalised one; a canonical URL there is
  absolute (normalizePageURL resolves a relative one against each link, whose
  host it then takes).
- **Seeds** are enqueued as they are written, never normalised, and leave no
  record under "urlmeta": the first page that links to a seed discovers it again.
- **History variables** (touched, cut, dropped, parsed, promise, slot, granted,
  succeeded, dead, submitted, events, crawlFailures, parseFailures) and budgets are read by properties and bounds
  only, never by an action that models code.


## 5. Runs

Every constant whose value bounds a run is commented as such in its module.
State counts are of distinct states.

| run | question | states |
|---|---|---|
| `queue_safety` | Is a job kept, owned once, tracked and within its retries under any pair of special events (broken pipelines, crash, rate limiting, stop, reap)? | 1.34 M, with symmetry |
| `queue_liveness` | Does every job end and leave nothing behind, at the right priority and in order, and does the queue implement `JobLifecycle`, with and without a Stop and a restart? | 52 k |
| `rate_limiter` | Are grants spaced and slots disjoint whatever the order of the scripts, and what becomes of a rejected call? | 89 k, with symmetry |
| `simhash` | Does the bucketed index answer as a full comparison would? | 13 k |
| `crawl_pages` | Is a page parsed once, kept once admitted, and does every run end, with timed-out runs beside their retries, lost and doubled copies, and a restart? | 167 k |
| `indexer` | Is a message kept, and does it end, under a lost reply, a failed XACK or XADD, a crash, a Stop? How far do copies multiply, and what becomes of entries a process left pending? | 708 k |
| `discovery` | Is a URL enqueued once, never forgotten, at a real depth, with overlapping runs, timeouts, failed calls and a crash? | 646 k |
| `normalizer` | Which spellings of a link lead to the key of its page, and do two pages ever share one? | 117 k |
| `scraper` | Is every URL on its way round, published, or given up for a named reason, and is the crawl complete when it comes to rest? | 192 k |
| `queue_crash`, `crawl_dropped`, `rate_overflow` | Does the code keep what a doc or comment says? TLC finds that it does not (section 7). | |

### Properties

*Job queue.* `NoJobLost`: an enqueued job waits, is held or has ended, unless a
crash or a broken pipeline hit that very job. `SingleOwner`: without rate
limiting, a reap or a broken pipeline there is at most one copy, and none after
the end. `RetryBudget`: whatever happens, a copy that may run has failed fewer
than MAX_RETRIES times and one in the failed list exactly that often.
`NoGhostEntries`, `KeyHasOwner`: what the reaper may read belongs to a run that
is going on. `InFlightIsTracked`: the reverse. `QueuedByScore`,
`FailureNeverPromotes`: priorities. `ReaperIdle`: the key expires at the age at
which the reaper would act, so without a lag it never acts. `Settles`, `Drains`:
each job ends, and then nothing of it is left. `ServedInOrder`: nobody, not the
retry ticker or the reaper either, passes a job of its own priority, and a list is
served only while every better one is empty. So what delays a job is better work
without end, and nothing else. `ImplementsLifecycle`: refinement.

*Rate limiter.* `GrantSpacing`: two grants are at least the minimum delay less
the clock lag apart in real time. `SlotsDisjoint`: slots never overlap.
`PromiseNotKept`: a rejected call uses up the slot it is told to wait for and is
rejected again at that time. This states the behaviour of the script as it is.
`RateLimited` is `GrantSpacing` without the condition that the wait fits, and is
false.

*Content index.* `FiledEverywhere`, `ImplementsSeenContent`.

*Crawl job.* `OnceParsed`: one process gives at most one page of each
near-duplicate kind to the parser, once. `AdmittedIsKept`: an admitted page has
its parse job, or is on the way, or its run failed after the admission. It fails
there because a call fails, or because its context (five minutes, or Stop) ends
before StoreRawData, which takes it: either way the retry drops the page as a
duplicate of itself (section 7, 2). A context that ends after StoreRawData loses
nothing, since Enqueue does not take it and a run that was given up still brings
its page to the parser. `FlightHasLeader`, `RunsEnd`: nobody waits for a robots.txt
that nobody fetches.

*Stream and indexer.* `NoMsgLost`: a message no failure hit is on its way or has
ended, a clean stop included. `PendingIsHeld`: an entry not acknowledged is in
the batch of a goroutine of the running process, so the second read of GetMsg
returns only entries another goroutine is working on, unless a reply was lost.
`CopiesBounded`: copies multiply at most by the number of goroutines with each
retry, whatever fails. `DeadWasRetried`: dead only after every retry. `Settles`: each message
ends unless an XACK, XADD or crash cut it off, or the reply to the read was lost
and the process replaced. `StrandedStays`: what a process left pending when it
ended stays pending under every later process.

*Parse job.* `FoundOnce`, `KnownIsQueued`, `DepthIsJustified`.
`LinksAreFollowed`: every link of a page that was parsed without a failed call is
known to the crawler; of a page with a canonical URL, that URL alone.

*Normaliser.* `SpellingsMeet` goes both ways: a link has the key of its page
when none of four named spellings escapes the rules, and another one when one
does, so it shows what is undone and what is not. The exception is
`NoSlashByOtherRules`: what tells the keys of other rules from those of
GitNormalizer is the "/" they end in, and the front page and names with a dot get
none. `PagesApart`: different pages have different keys, but for that case and
for the two kinds of page the rules blur on purpose or by accident. `KeyIsStable`:
normalising a key changes nothing, with two exceptions, and two passes always
settle.

*Scraper.* `Accounted`: a URL the scraper has learnt of waits in a queue, is in
the hands of a run, is published, or is given up. `GivenUp` names the reasons:

- robots.txt blocks it, or its page is near that of another URL;
- its page was dropped for being near itself *and* one of its crawl jobs failed;
- a crawl or a parse job of it is in the failed list *and* its crawl or parse jobs
  failed MAX_RETRIES times;
- a copy of its job was lost: with the reply of BLPOP, in a CompleteJob that was cut
  off, or in a run that a crash ended;
- main, or a parse run after SETNX, was told that it could not enqueue it;
- AddMsg reported an error, after which the parse job ends well.

What is not on the list is what the property excludes. Fewer than MAX_RETRIES
failures lose a URL only through the content index. A rate limit, which raises
RetryCount and leaves two copies of the job to overtake each other, never loses
one: the raised copy may end in the failed list, or find its page in the index,
but then the other copy waits, is run, or has brought the page on. A copy too many
loses none, and a Stop or a crash none that waits in a queue.

`CrawlIsComplete`: at rest, the seeds and all that the parsed pages link to are
published or given up in that sense. `PublishedOnce`: a page is published twice
only after a failure of its parse job, a copy too many of it, or a restart with an
empty index, although its crawl job may fail, be doubled or be rate-limited and
every link offers its URL again. `Settles`: a URL in the frontier goes all the way
round, unless something befalls it or a job of it fails.

### Bounds

- *Queue*: two jobs and two goroutines let two jobs share the processing list
  and its expiry, and two goroutines hold two copies of one job. MAX_RETRIES = 2
  has a retry that is not the last and one that is. Timeouts of two ticks have a
  tick inside a run. `Budgets` is the set of events a behaviour may contain:
  `Pairs` allows one event or two different ones, `Stops` one reap and an
  optional stop. `MaxLag = 1` in the safety run makes the reaper able to act.
  `Scores` come from `ScoreDevURL`; the liveness run has a score that the
  penalty drives below zero and one that changes its list with aging.
- *Rate limiter*: three requests to one domain (keys of domains are disjoint),
  a minimum delay of three units as sent, a robots delay that is larger, and
  MaxTime 9, three delays. `MaxSlot` cuts calls that would reserve later slots.
- *Simhash*: six bits in four parts (one part more than the distance, as in the
  code) and texts of no, one, two and three shingles; two stored fingerprints,
  since each comparison is between two.
- *Crawl job*: two jobs on one domain, one of them a repository, that may serve
  the same or near pages; two runs of the first and one of the second, two
  alive at once; one restart. MAX_RETRIES = 2 and two failures let a job reach the
  failed list, with a retry before it, and let a failure fall on a job that is
  already doubled. Two runs of each (831 thousand states) give the same result, in
  several minutes; `crawl_dropped` has two of each.
- *Indexer*: two messages for one URL with different text, so that the second
  insert is refused; MAX_RETRIES = 1; a read of two entries; one event.
- *Normaliser*: seventeen pages - roots and front pages with and without a query,
  directories, a name with a dot, a file, a locale further down, an IP address,
  repositories with a query, a line number, a banned prefix, a subdomain - and links up to four respellings away, so that each rule meets the
  output of each other one.
- *Scraper*: a seed and a page that link to each other, one goroutine for each
  queue, two crawl runs of the seed and one of the page, two parse runs in all; two
  failures (a timeout, a failed call anywhere, a copy lost or doubled, a stop or a
  crash, one restart), beside any rate limits, robots answers and duplicates. With MAX_RETRIES =
  2 both a job that fails twice and a rate-limited one whose raised copy fails come
  to the failed list. Two crawl runs of the page as well make 624 thousand states, on
  which the run gives the same result, in several minutes. For more failures, runs and
  retries there are the proofs.
- *Discovery*: a seed and two pages with links to each other and a page whose
  canonical URL is another; three runs, one crash.

`CHECK_DEADLOCK FALSE` is set for `FetchAndStore`, `Discovery`, `Scraper` and
`LinkSpellings` only: their behaviours end when each job has had its runs, or the
link its respellings. The other models never stop.
Symmetry is used in runs without liveness only.

### Fairness

Weak fairness throughout, on what the Go scheduler and the timers guarantee:

- queue: the clock; the retry ticker; the second half of a reap; each goroutine
  leaving BLPOP when there is a job, registering it, reaching its timeout and
  completing it; Stop coming to its end; a stopped process being started again.
  A task is not assumed to end by itself, only to time out (processTask's
  select). Nothing obliges a job to be enqueued or the process to stop.
- crawl job: each run takes its steps, and a flight ends: HTTP, Redis and MinIO
  clients have timeouts, and a call may end by failing.
- scraper: main goes on seeding, each pool takes what waits in its queue, and calls
  return; fair to each pool as a whole. While main seeds there are no workers, so
  one condition covers the seeds and the crawler.
- indexer: each goroutine reads and processes; a stopped process comes back.


## 6. Proofs

Each proof module gives an inductive invariant IInv, one lemma per action, and
a temporal theorem combined with PTL. The theorems hold for every value of the
constants that meets the named assumptions of its module: any sets of jobs,
goroutines, pages, any timeouts, and any budgets of failures.

- **`JobQueueProofs`** – `TypeCorrect`, `RetryBudget`, `QueuedByScore`,
  `ReaperIdle`, `ServedInOrder`. None of the invariants is inductive: a retry
  moves a copy between the retry set, the lists, the goroutines, the key and the reaper's hand, so IInv
  states the same of every place (LiveCopy: retries left, priority equal to
  that of the score), and that a goroutine holds a copy exactly when it is busy.
  For `ReaperIdle`, age + ttl of a key never exceeds ProcessingTimeout + MaxLag
  and a key with no ttl left is gone. The second half of the module is about
  where the copies of a job are; it rests on IInv and adds one invariant for each
  question:
  - `NoJobLost`: Kept names the four places a job can be; each action moves it
    from one to another or ends it, and what removes it without that is exempt by
    `touched`.
  - `FailureNeverPromotes`: the penalty does not raise a priority: either the
    score falls, or it rises to 10 from below 10, and both are in the list "low".
  - `SingleOwner` (SoleInv): a count of at most one is not kept by a step that
    moves a copy, so Sole says that each of lists, retry set and goroutines has
    one copy at most, that a copy in one is in no other, that an ended or unknown
    job is in none, and that no such job is between RequeueWithDelay and its
    CompleteJob, where the second copy comes from.
  - `NoGhostEntries`, `KeyHasOwner` (BooksInv): an entry of the processing list
    is counted against the goroutines that registered it, and the key describes
    the very copy one of them holds; the second part is what lets a completion
    delete the key without taking it from another run.
  - `InFlightIsTracked` (TrackInv): with the clocks. What the list and the key
    have left to live, plus the time the run has taken, covers
    ProcessingTimeout, so neither expires before the run times out. Needs SoleInv:
    a second run of the job could delete the key.
  - `ImplementsLifecycle`, for budgets without a cut pipeline, crash or
    rate-limited run, and with a reap only if MaxLag = 0 (Quiet). These are the
    budgets of `queue_liveness`; with the other events one job has two copies or
    none and thus no single status. ViewOK says what status and failures the
    place of the only copy shows; EndInv, that a job ends in one way only. Then each
    action is a step of the lifecycle of one job or a stutter.
- **`RateLimiterProofs`** – `GrantSpacing`, `SlotsDisjoint`, `PromiseNotKept`, for
  any width of a `time.Duration`.
  IInv: the key is the end of the last slot, which is at least Gap after its
  start; a grant happened no later than MaxLag after the start of its slot; a
  promise is at most the key less Gap.
- **`SimhashProofs`** – `FiledEverywhere`, and that the index implements
  `SeenContent`: two fingerprints that differ in every part differ in at least as
  many bits as there are parts, so a distance below the number of parts leaves
  a part they share, and with `FiledEverywhere` the bucket of that part holds
  the stored one.
- **`FetchProofs`** – `TypeCorrect`, `OnceParsed`, `AdmittedIsKept`,
  `FlightHasLeader`. IInv: pages of the index are pairwise far; a page on its
  way is in the index, is carried by one run and has no parse job; a page with
  a parse job is in the index and has one. How often a job fails, is lost, doubled
  or comes to the failed list does not enter the argument, so the theorems hold for
  every MAX_RETRIES and MaxFaults.
- **`IndexerProofs`** – `TypeCorrect`, `NoMsgLost`, `PendingIsHeld`,
  `DeadWasRetried`, `StrandedStays`, `CopiesBounded`. IInv adds: a goroutine is
  at rest exactly when its batch is empty; one about to add a message again has
  acknowledged its entry and has a retry left; a process that is down has no
  goroutine at work; an entry with r retries is preceded by one for each smaller
  count. For `CopiesBounded` a pair of an entry and a goroutine is spent when the
  entry is delivered, not pending, and not in the goroutine's batch, so that it
  cannot come to it again. What is spent stays spent, the step that adds a copy
  with one retry more spends a new pair, so there are no more copies than spent
  pairs (EachIsPaidFor), and no more of these than entries times goroutines. The
  argument never looks at failures: the bound holds whatever they are.
- **`DiscoveryProofs`** – `FoundOnce`, `KnownIsQueued`, `DepthIsJustified`,
  `LinksAreFollowed`, and `DepthIsKept` (no step changes the depth of a record),
  which is proved only, no run checks it. SETNX is the only arbiter: at most one
  run is about to enqueue a given URL, that URL has a record and is not in the
  frontier, and all that is in the frontier has a record. A run that rewrites a
  record holds one of the same depth.
- **`ScraperProofs`** – `Accounted`, `CrawlIsComplete`, `PublishedOnce`, the types,
  and that the two halves keep their word in the composition: its parse side
  implements `Discovery` (`ParserIsDiscovery`: each step is a step of it or a
  stutter), and the crawl side keeps `OnceParsed`, `AdmittedIsKept` and
  `FlightHasLeader` (`CrawlerKeepsItsWord`). FetchProofs and DiscoveryProofs are
  instantiated as they are, and their lemmas on single steps are cited; what is
  proved anew is what happens between the halves. The invariant adds to theirs:
  a crawl run carries the page of its own URL (OwnPage); a parse run that has come
  to the links has published its page, or AddMsg failed (PublishedFirst); and the
  one parse job of a page whose parse job met no failure waits, is with one run that
  is still to publish, or is published (OneJob), from which `PublishedOnce` follows.
  `Accounted` is not inductive: rate limits raise RetryCount, so that there is a copy
  somewhere does not keep the last one out of the failed list. Traced therefore asks
  for a *low* copy, one whose RetryCount is no higher than its job has really failed
  (CrawlLow, ParseLow). A failure raises both numbers by one, a rate limit leaves
  the copy as it was beside the raised one, a copy that others overtake stays low;
  so when the low copy comes to the failed list, its job has failed MAX_RETRIES
  times. A copy is dropped as its own duplicate without a failure only while another
  run is bringing the page (Brought) or has brought it, and from then on the parse
  job is traced (ParsedOn); otherwise a run was given up or a page cut off, and both
  have left a failure behind (FailuresNoted).

- **`SpellingProofs`** – `SpellingsMeet`, `PagesApart`, `KeyIsStable`, for paths,
  queries and detours of any length and any number of respellings. IInv says that a link
  never loses its page (`LinkLeadsToPage`): LinkType; SameSite, that host, port,
  scheme, query and fragment differ from those of the page in what the rules undo
  or an exception names; SamePath, that the path, after path.Clean, is that of the
  page or its clone URL on a host of repositories (GitLink), and elsewhere, in lower
  case, that of the page with at most one locale before it and one index file behind
  it (DocsLink). The three properties follow from IInv by computing the key of
  such a link field by field. What carries the proof are lemmas about the
  operators, in the order of the module: path.Clean as a fold over segments (what
  is cleaned of a path with one segment more, with a detour anywhere in it, with a
  suffix; that a clean path stays as it is), the helpers of both rules, and then
  the key of a path under each of them, once and again. A detour `w/..` is
  undone wherever it stands only because the segments before and after it are
  cleaned independently of it, which is why SamePath speaks of the cleaned path
  and not of the path. These lemmas need induction over sequences. The library's
  induction theorems take an operator and cannot be instantiated, so the
  module derives its own for sets (SeqInduction: a set that has the empty sequence and
  is closed under Append is all of Seq), from a least counterexample by
  WFMin on the natural numbers, and applies it to the set of paths for which
  the lemma holds. Assumed: WordAssumption, ParamAssumption and PageAssumption
  of `Normalizer`; TLC evaluates them in the run `normalizer`.

Only model-checked, and why: liveness (`Settles` of three modules, `Drains`,
`RunsEnd`), which needs ENABLED and fairness; the prover handles neither. Every
other property of a passing run is a theorem.


## 7. Where the code does not do what its documentation says

Runs that TLC refutes:

1. `queue_crash`. README: the frontier "performs like a custom SQS with a
   visibility timer for retries". A job whose process dies between BLPOP and
   CompleteJob is lost: its key has a TTL of ProcessingTimeout, the age at which
   the reaper would act, and the next process has a new worker ID and thus
   another processing list.
2. `crawl_dropped`. The log says "Duplicate page detected". The fingerprint is
   admitted before the page is stored and enqueued; when either fails, the
   retry finds its own fingerprint and drops the only copy as a duplicate.
3. `rate_overflow`. README: "Rate limiting per domain". A rejected call takes a
   slot all the same, so the backlog of a domain grows with every retry; the wait
   is multiplied into a `time.Duration`, and when it no longer fits it comes back
   negative and the call goes on at once. With the five seconds that go-redis
   sends as 5 * 10^9 to a script that counts milliseconds, some 1850 rejected
   calls are enough.

Divergences that a passing run states as an exception or as a fact:

4. `SingleOwner` (`queue_safety`). README: the crawler "prevents re-crawling same
   URLs". A rate-limited job is added to the retry set by RequeueWithDelay and
   again, with a retry more, by the CompleteJob that completeTask calls next. Both
   copies run; the property holds of jobs that were never rate limited.
5. `StrandedStays` (`indexer`). A comment in GetMsg says that it tries autoclaim
   when the second read is empty. XREADGROUP with "0" always returns one stream, so
   the test `len(streams) == 0` never holds, and a dead consumer's entries stay.
6. `LinksAreFollowed` (`discovery`). README: the parser extracts the links of a
   page. A page with `<link rel="canonical">` yields its canonical URL in place of
   each link.
7. `SpellingsMeet` (`normalizer`). README: the parser "removes fragments/query
   noise". Fragments stay on every host that is not one of repositories.
   Undocumented, but of the same kind: github.com:443 and www.bitbucket.org get
   the rules of other hosts, because the rules are chosen before the host is
   cleaned; "https://host" and "https://host/" are two keys; so are "/v1.2" and
   "/v1.2/index.html". In the other direction (`PagesApart`) a repository whose
   path has a segment that begins with a banned word ("/networkx") becomes the
   front page of its host, and "/myindex.html" becomes "/my/"; and under the rules of
   other hosts (github.com:443) a front page, or a repository with a dot in its
   name, may get the key of another page, since no "/" tells the two apart.

`PromiseNotKept` is of this kind too: a rejected call is rejected again at the
time it was told. The delay that go-redis writes in nanoseconds is a property of
go-redis, which is not in this repository, so it is the parameter `ArgPerMs`.


## 8. Not modelled

- **HTML, Markdown and JSON extraction, cleaning, tokenising, stemming, stop
  words**: pure text functions. What a page links to and whether it has terms
  are inputs.
- **Clients** (Redis, MinIO, Postgres, HTTP) and migrations: connection set-up.
  Their failures and lost replies are outcomes of the actions that call them.
- **Statistics**: counters that are printed.
- **ClassifyURL**: it matches words in the text of a path. What it finds is an
  input of `Scoring`.
- **Starvation** of low priorities under an endless supply of better jobs is not a
  run of its own: `ServedInOrder` says that such a supply is the only cause.
- **In URLs**: percent-encoding, IPv6, parameters given twice, userinfo on hosts
  without repositories, and the extra name before `.git.git`.
- **The road from the stream to the table** is not part of `Scraper`: it ends with
  the message published, which is where `IndexerStream` begins (AddMsg).
- **processGithubRepo** on its own: it goes through the stages of FetchAndStoreRaw,
  the admission before the store included, and differs in what is fetched (a
  README, of which an unknown encoding ends the job well: `Fetch`) and in the URL
  its parse job names. `Scraper`, in which a page is named by the URL it is crawled
  at, leaves repositories out.
- **Two copies of a program** at once; the README starts one of each.


## 9. Plan

Built, in this order: `Scoring`, `JobQueue`, `JobQueueProps`, `JobLifecycle` (the
core); `RateLimiter`; `SimhashIndex`, `SeenContent`; `Retries`, `FetchAndStore`;
`IndexerStream`; `Discovery`; a proof module for each; `Normalizer` and
`LinkSpellings`; `Scraper`; the copies of a job (in `JobQueueProofs`), the
composition (`ScraperProofs`) and the normaliser (`SpellingProofs`).

Next:

1. The crawl side of `Scraper` as an implementation of `FetchAndStore` as a whole;
   today its three properties are carried over, not the specification.
2. Join `Scraper` and `IndexerStream`: from the seed to the table, with a crash of
   either program.
3. The walk of the Markdown tree in extractMd (skipped sections, links seen
   before) beside extractLinks of HTML, which keeps duplicates.
4. The documents table across several versions of a page, with the rows of the
   inverted index that a refused or late transaction leaves.
