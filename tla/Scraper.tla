------------------------------- MODULE Scraper -------------------------------
(***************************************************************************)
(* The scraper as cmd/scraper/main.go puts it together: the seeds, the     *)
(* crawl jobs of FetchAndStore and the parse jobs of Discovery, joined by  *)
(* the two queues between them.  The crawler puts parse jobs into one      *)
(* queue, the parser puts crawl jobs into the other, so the two go round   *)
(* in a circle until no new URL turns up.                                  *)
(*                                                                         *)
(* A page is named by the one URL it is served at.  Each queue holds       *)
(* copies of jobs with their RetryCount (Retries): a run takes one, and    *)
(* when it fails while its worker still waits for it, the copy comes back, *)
(* in the end to the failed list; a call of a queue that is cut off may    *)
(* lose a copy or leave one too many.  Repositories, whose parse jobs name *)
(* other URLs, are left to FetchAndStore and Discovery.                    *)
(***************************************************************************)
EXTENDS Sequences, Retries

CONSTANTS
  Urls, Seeds, LinksOf, CanonicalOf,   \* as in Discovery
  Near, Domains, DomainOf,             \* as in FetchAndStore, of the page at a URL
  CrawlRuns, ParseRuns,                \* the goroutines of the two workers
  MaxRuns, MaxParses, MaxRestarts,     \* bounds, as there
  MaxFaults,                           \* bound: how many failures there are, as there
  None

ASSUME UrlAssumption == /\ Seeds \subseteq Urls
                        /\ LinksOf \in [Urls -> Seq(Urls)]
                        /\ CanonicalOf \in [Urls -> Urls \union {None}]
                        /\ DomainOf \in [Urls -> Domains]
ASSUME NearAssumption == /\ Near \subseteq Urls \X Urls
                         /\ \A u \in Urls : <<u, u>> \in Near
                         /\ \A u, v \in Urls : <<u, v>> \in Near => <<v, u>> \in Near
ASSUME BoundAssumption == /\ IsFiniteSet(CrawlRuns) /\ IsFiniteSet(ParseRuns)
                          /\ MaxRuns \in [Urls -> Nat] /\ MaxParses \in Nat
                          /\ MaxRestarts \in Nat /\ MaxFaults \in Nat
ASSUME NoneAssumption == /\ None \notin CrawlRuns \union Urls
                         /\ None \notin [depth : Nat, inbound : Nat]

VARIABLES
  toSeed,    \* the seeds that main has not yet enqueued
  todo,      \* [Urls -> [Attempts -> Nat]]: crawl jobs that wait in the queue "frontier"
  toParse,   \* [Urls -> [Attempts -> Nat]]: parse jobs that wait in the queue "parser"
  failed, parseFailed,   \* the URLs in the failed lists of the two queues
  parseRetries,          \* [ParseRuns -> Attempts]: the RetryCount of the job of a parse run
  crawlRun, meta, flight, seen, objects, parsing, started, restarts, crawlCut, dropped,
  urlmeta, frontier, published, parseRun, parses, parseCut, parsed,
  events,    \* [Urls -> SUBSET Events]: history, what befell the jobs of a URL
  crawlFailures, parseFailures,   \* [Urls -> Nat]: history, how often its jobs failed
  faults     \* bound: what is left of MaxFaults

crawlVars == <<failed, crawlRun, meta, flight, seen, objects, parsing, started, crawlCut,
               dropped>>
parseVars == <<urlmeta, frontier, published, parseRun, parses, parseCut, parsed>>
parseQueueVars == <<toParse, parseFailed, parseRetries>>
historyVars == <<events, crawlFailures, parseFailures>>
vars == <<toSeed, todo, crawlVars, parseVars, parseQueueVars, restarts, historyVars, faults>>

F == INSTANCE FetchAndStore
       WITH Jobs <- Urls, GithubJobs <- {}, Pages <- Urls, Served <- [u \in Urls |-> {u}],
            Runs <- CrawlRuns, run <- crawlRun, cut <- crawlCut

D == INSTANCE Discovery
       WITH ParsedAs <- [u \in Urls |-> u], MaxCrashes <- MaxRestarts, Runs <- ParseRuns,
            run <- parseRun, cut <- parseCut, crashes <- restarts

(* "self": a page was dropped for being near itself in the index;          *)
(* "unlinked": a link of a page was passed over.                           *)
Events == {"blocked", "limited", "duplicate", "self", "unseeded", "unpublished", "unlinked",
           "crash", "lost", "doubled"}

TypeOK ==
  /\ toSeed \subseteq Seeds
  /\ toParse \in [Urls -> [Attempts -> Nat]] /\ parseFailed \subseteq Urls
  /\ parseRetries \in [ParseRuns -> Attempts]
  /\ events \in [Urls -> SUBSET Events]
  /\ crawlFailures \in [Urls -> Nat] /\ parseFailures \in [Urls -> Nat]
  /\ F!TypeOK /\ D!TypeOK

Zero == [u \in Urls |-> 0]

Nowhere == [u \in Urls |-> NoCopy]

Init ==
  /\ toSeed = Seeds
  /\ todo = Nowhere /\ failed = {}
  /\ toParse = Nowhere /\ parseFailed = {} /\ parseRetries = [q \in ParseRuns |-> 0]
  /\ crawlRun = [r \in CrawlRuns |-> F!NoRun]
  /\ meta = [d \in Domains |-> "none"] /\ flight = [d \in Domains |-> None]
  /\ seen = {} /\ objects = {} /\ parsing = Zero
  /\ started = Zero /\ restarts = MaxRestarts
  /\ crawlCut = {} /\ dropped = {}
  /\ D!Init
  /\ events = [u \in Urls |-> {}]
  /\ crawlFailures = Zero /\ parseFailures = Zero
  /\ faults = MaxFaults

-----------------------------------------------------------------------------
(* What befalls the jobs of some URLs, for the record.                     *)
Noting(urls, event) ==
  [u \in Urls |-> IF u \in urls THEN events[u] \union {event} ELSE events[u]]

Befalls(urls, event) == /\ events' = Noting(urls, event)
                        /\ UNCHANGED <<crawlFailures, parseFailures>>

Nothing == UNCHANGED historyVars

(* A worker completes a job as failed: a copy comes back, or CompleteJob   *)
(* was cut off.                                                            *)
NotingFailure(url, counts) ==
  events' = IF counts = {} THEN Noting({url}, "lost") ELSE events

CrawlFailed(url, counts) ==
  /\ crawlFailures' = [crawlFailures EXCEPT ![url] = @ + 1]
  /\ NotingFailure(url, counts)
  /\ UNCHANGED parseFailures

ParseFailed(url, counts) ==
  /\ parseFailures' = [parseFailures EXCEPT ![url] = @ + 1]
  /\ NotingFailure(url, counts)
  /\ UNCHANGED crawlFailures

(* main enqueues the seeds before it starts the workers; an error is       *)
(* logged, and the next seed is taken.                                     *)
Seed(u) ==
  /\ u \in toSeed
  /\ toSeed' = toSeed \ {u}
  /\ \/ todo' = PutBack(todo, u, {0}) /\ Nothing /\ UNCHANGED faults
     \/ todo' \in {todo, PutBack(todo, u, {0})} /\ Befalls({u}, "unseeded") /\ F!Fault
  /\ UNCHANGED <<parseQueueVars, crawlVars, parseVars, restarts>>

-----------------------------------------------------------------------------
(* One step of a crawl job, and what befalls it.  Of a run its worker has  *)
(* given up, nothing is said.                                              *)
CrawlStep(r) ==
  LET url == crawlRun[r].job
      Noted(event) == IF crawlRun[r].live /\ crawlRun'[r] = F!NoRun
                      THEN Befalls({url}, event) ELSE Nothing IN
  \/ /\ \/ \E u \in Urls, n \in Attempts : F!Start(r, u, n)
        \/ F!MetaHit(r) \/ F!MetaMiss(r) \/ F!Reserve(r) \/ F!Fetch(r) \/ F!Store(r)
        \/ F!EnqueueParse(r)
     /\ Nothing
  \/ F!Robots(r) /\ Noted("blocked")
  \/ F!Dedup(r) /\ Noted(IF crawlRun[r].page \in seen THEN "self" ELSE "duplicate")
  \/ \E counts \in F!AfterLimit(r) :
       /\ F!Limited(r, counts)
       /\ IF crawlRun[r].retries \in counts THEN Befalls({url}, "limited")
          ELSE CrawlFailed(url, counts)
  \/ \E counts \in F!AfterFailure(r) :
       /\ F!Timeout(r, counts) \/ F!CallFails(r, counts)
       /\ IF crawlRun[r].live THEN CrawlFailed(url, counts) ELSE Nothing

(* A copy of a crawl job is lost or doubled in the queue.                  *)
CrawlQueueSlips(u, n) ==
  \/ F!PopLost(u, n) /\ Befalls({u}, "lost")
  \/ F!Doubled(u, n) /\ Nothing

(* The robots.txt of a domain, which several runs may wait for.            *)
Robots(d) == (F!FlightEnds(d) \/ F!MetaExpires(d)) /\ Nothing

(* What the crawler enqueues for the parser waits in the other queue.      *)
CrawlStepping ==
  \/ \E r \in CrawlRuns : CrawlStep(r)
  \/ \E d \in Domains : Robots(d)
  \/ \E u \in Urls, n \in Attempts : CrawlQueueSlips(u, n)

CrawlForgets ==
  /\ toSeed = {}
  /\ CrawlStepping
  /\ UNCHANGED <<toSeed, parseQueueVars, parseVars>>

Crawl ==
  /\ toSeed = {}
  /\ CrawlStepping
  /\ toParse' = [u \in Urls |-> WithNew(toParse[u], parsing'[u] - parsing[u])]
  /\ UNCHANGED <<toSeed, parseFailed, parseRetries, parseVars>>

-----------------------------------------------------------------------------
(* A parse run ends with an error, or its time is over: its job is         *)
(* completed as failed, unless that was done before.                       *)
ParseFails(q, counts) ==
  LET url == parseRun[q].url IN
  /\ IF parseRun[q].live
     THEN /\ toParse' = PutBack(toParse, url, counts)
          /\ parseFailed' = WithFailed(parseFailed, url, counts)
          /\ ParseFailed(url, counts) /\ F!Fault
     ELSE UNCHANGED <<toParse, parseFailed, historyVars, faults>>
  /\ UNCHANGED parseRetries

(* A call on a link fails, and the next link is taken; once the context    *)
(* has ended, that is no failure of its own.                               *)
Unlinked(q) == IF parseRun[q].live THEN Befalls({D!InHand(q)}, "unlinked") /\ F!Fault
               ELSE Nothing /\ UNCHANGED faults

StartParse(q, u, n) ==
  /\ toParse[u][n] > 0 /\ D!Start(q, u)
  /\ toParse' = Taken(toParse, u, n)
  /\ parseRetries' = [parseRetries EXCEPT ![q] = n]
  /\ UNCHANGED <<parseFailed, historyVars, faults>>

ParseStep(q) ==
  \/ \E u \in Urls, n \in Attempts : StartParse(q, u, n)
  \/ \E counts \in SUBSET {parseRetries[q] + 1} :
       /\ \/ D!Timeout(q)
          \/ D!ReadPage(q) /\ parseRun'[q] = D!NoRun
       /\ ParseFails(q, counts)
  \/ /\ \/ /\ \/ D!ReadPage(q) /\ parseRun'[q] # D!NoRun
              \/ D!Publish(q, TRUE) \/ D!Discover(q) \/ D!Rewrite(q)
              \/ D!Enqueue(q) /\ parseCut' = parseCut
              \/ D!Reread(q) /\ parseRun'[q].at = "rewrite"
           /\ Nothing /\ UNCHANGED faults
        \/ D!Publish(q, FALSE) /\ Befalls({parseRun[q].url}, "unpublished") /\ F!Fault
        \/ /\ \/ D!DiscoverFails(q)
              \/ D!Enqueue(q) /\ parseCut' # parseCut
              \/ D!Reread(q) /\ parseRun'[q].at # "rewrite"
           /\ Unlinked(q)
     /\ UNCHANGED parseQueueVars

(* A copy of a parse job is lost or doubled in the queue: F!PopLost and    *)
(* F!Doubled, of the other queue.                                          *)
ParseQueueSlips(u, n) ==
  /\ \/ /\ toParse[u][n] > 0
        /\ toParse' = Taken(toParse, u, n)
        /\ Befalls({u}, "lost")
     \/ /\ toParse[u][n] > 0 \/ \E q \in ParseRuns : parseRun[q].url = u /\ parseRetries[q] = n
        /\ toParse' = PutBack(toParse, u, {n})
        /\ Befalls({u}, "doubled")
  /\ F!Fault
  /\ UNCHANGED <<parseFailed, parseRetries, parseVars, restarts>>

(* What the parser enqueues for the crawler waits in the frontier.         *)
Parse ==
  /\ toSeed = {}
  /\ \/ \E q \in ParseRuns : ParseStep(q)
     \/ \E u \in Urls, n \in Attempts : ParseQueueSlips(u, n)
  /\ todo' = [u \in Urls |-> WithNew(todo[u], frontier'[u] - frontier[u])]
  /\ UNCHANGED <<toSeed, crawlVars>>

-----------------------------------------------------------------------------
LiveParses == {q \in ParseRuns : parseRun[q].live}

CrawledBy(runs) == {crawlRun[r].job : r \in runs}

ParsedBy(runs) == {parseRun[q].url : q \in runs}

InHand == CrawledBy(F!Live) \union ParsedBy(LiveParses)

AddedUp(failures, urls) == [u \in Urls |-> failures[u] + IF u \in urls THEN 1 ELSE 0]

(* The process ends and starts again: main enqueues the seeds once more.   *)
(* Stop completes as failed the runs in crawlBack and parseBack; in a      *)
(* crash there are none.                                                   *)
RestartWithoutParser(crawlBack, parseBack) ==
  /\ F!Restart(crawlBack)
  /\ D!Crash
  /\ toSeed' = Seeds
  /\ UNCHANGED parseQueueVars
  /\ crawlFailures' = AddedUp(crawlFailures, CrawledBy(crawlBack))
  /\ parseFailures' = AddedUp(parseFailures, ParsedBy(parseBack))
  /\ events' = Noting(CrawledBy(F!Live \ crawlBack) \union ParsedBy(LiveParses \ parseBack), "crash")

Restart(crawlBack, parseBack) ==
  LET urlOf == [q \in ParseRuns |-> parseRun[q].url] IN
  /\ F!Restart(crawlBack)
  /\ D!Crash
  /\ toSeed' = Seeds
  /\ toParse' = AllPutBack(toParse, parseBack, urlOf, parseRetries)
  /\ parseFailed' = AllFailed(parseFailed, parseBack, urlOf, parseRetries)
  /\ parseRetries' = [q \in ParseRuns |-> 0]
  /\ crawlFailures' = AddedUp(crawlFailures, CrawledBy(crawlBack))
  /\ parseFailures' = AddedUp(parseFailures, ParsedBy(parseBack))
  /\ events' = Noting(CrawledBy(F!Live \ crawlBack) \union ParsedBy(LiveParses \ parseBack), "crash")

Next ==
  \/ \E u \in Seeds : Seed(u)
  \/ Crawl \/ Parse
  \/ \E crawlBack \in SUBSET F!Live, parseBack \in SUBSET LiveParses :
       Restart(crawlBack, parseBack)

Spec == Init /\ [][Next]_vars

(* main goes through the seeds, and only then are there workers; each of   *)
(* these takes what waits in its queue, and calls return.  Fair to each    *)
(* worker, not to each of its goroutines.                                  *)
Fairness ==
  /\ WF_vars(Crawl \/ \E u \in Seeds : Seed(u))
  /\ WF_vars(Parse)

FairSpec == Spec /\ Fairness

-----------------------------------------------------------------------------
Enqueuing(u) == \E q \in ParseRuns : parseRun[q].at = "enqueue" /\ D!InHand(q) = u

Waits(u) == HasCopy(todo, u) \/ HasCopy(toParse, u) \/ Enqueuing(u)

(* What nothing makes good by itself.  A URL is given up when robots.txt   *)
(* forbids it; when its page is near another one; when its page is dropped *)
(* for being near itself, and one of its crawl jobs has failed; when a job *)
(* of its own has failed MAX_RETRIES times and is in the failed list; when *)
(* a copy of its job is lost in a queue or with the process; when main, or *)
(* a parse run, was told that it could not enqueue it; and when AddMsg     *)
(* reports an error, after which the parse job ends well.                  *)
GivenUp(u) ==
  \/ events[u] \cap {"blocked", "duplicate", "lost", "crash", "unseeded", "unpublished"} # {}
  \/ "self" \in events[u] /\ crawlFailures[u] > 0
  \/ u \in failed /\ crawlFailures[u] >= MAX_RETRIES
  \/ u \in parseFailed /\ parseFailures[u] >= MAX_RETRIES
  \/ u \in parseCut

(* Every URL the scraper has learnt of waits in one of the two queues, is  *)
(* in the hands of a run, was published to the indexer, or was given up    *)
(* for one of these reasons.  So fewer than MAX_RETRIES failures of a job, *)
(* a Stop or a crash that finds it in its queue, and a copy too many do    *)
(* not lose a URL unless the crawl job fails after it has put its page     *)
(* into the index; and rate limits, which raise RetryCount too and leave   *)
(* two copies of the job to overtake each other, never lose one: the job   *)
(* is not exhausted by them, nor its page dropped for its own sake.        *)
Accounted ==
  \A u \in Urls :
    u \in Seeds \ toSeed \/ urlmeta[u] # None
      => Waits(u) \/ u \in InHand \/ published[u] > 0 \/ GivenUp(u)

Quiet ==
  /\ toSeed = {} /\ \A u \in Urls : ~Waits(u)
  /\ \A r \in CrawlRuns : crawlRun[r] = F!NoRun
  /\ \A q \in ParseRuns : parseRun[q] = D!NoRun

(* When the scraper comes to rest, it is done: the seeds and whatever the  *)
(* parsed pages link to have been published, or were given up for a reason *)
(* that GivenUp names.                                                     *)
CrawlIsComplete ==
  Quiet => \A u \in Seeds \union UNION {D!Targets(v) : v \in parsed} :
             published[u] > 0 \/ GivenUp(u)

(* Once in the frontier, a URL goes all the way round: it is published,    *)
(* given up, or at least something befalls it or one of its jobs fails.    *)
Settles ==
  \A u \in Urls :
    HasCopy(todo, u) ~> \/ published[u] > 0 \/ GivenUp(u)
                        \/ events[u] # {} \/ crawlFailures[u] + parseFailures[u] > 0
                        \/ parses = 0

(* The indexer gets a page once, however often a URL is linked to, its     *)
(* crawl job fails, is rate-limited or is doubled, unless its parse job    *)
(* fails or is doubled, or the process has started again with an empty     *)
(* index.                                                                  *)
PublishedOnce ==
  \A u \in Urls :
    published[u] > 1
      => parseFailures[u] > 0 \/ "doubled" \in events[u] \/ restarts < MaxRestarts
=============================================================================
